--------------------------- MODULE MCWalletLedger ---------------------------
(***************************************************************************)
(* A small ledger for TLC: the platform wallet that every school's payment *)
(* credits, one school wallet, and what the callers of post ask for.       *)
(***************************************************************************)
EXTENDS WalletLedger, TLC

CONSTANTS c1, c2, c3, platform, school, revenue1, revenue2, receipt1

\* confirm() of payment 1 (revenue and receipt) and of payment 2 (revenue);
\* a refund-like debit under the reference of payment 2, as the service's own
\* tests post; a negative debit, which would be a credit.
MCInputs == {
    [ref |-> revenue1, wallet |-> platform, type |-> "CREDIT",     amount |-> 2],
    [ref |-> revenue2, wallet |-> platform, type |-> "CREDIT",     amount |-> 1],
    [ref |-> receipt1, wallet |-> school,   type |-> "ADJUSTMENT", amount |-> 0],
    [ref |-> revenue2, wallet |-> platform, type |-> "DEBIT",      amount |-> 1],
    [ref |-> receipt1, wallet |-> school,   type |-> "DEBIT",      amount |-> -1] }

\* What confirm() alone posts: credits and the receipt.
ConfirmInputs ==
    {i \in MCInputs : i.amount >= 0 /\ i.type # "DEBIT"}

MCCalls == {c1, c2, c3}
MCWallets == {platform, school}
MCReferences == {revenue1, revenue2, receipt1}

CallSymmetry == Permutations(MCCalls)
=============================================================================
