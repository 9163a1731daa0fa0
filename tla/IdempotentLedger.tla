-------------------------- MODULE IdempotentLedger --------------------------
(***************************************************************************)
(* What the comment above WalletLedgerService.post promises of the ledger  *)
(* entries ("Idempotent by `reference`"): a call of post either writes the *)
(* one entry of its reference, or finds the entry another call wrote, or   *)
(* fails and leaves no trace.  Each happens in one indivisible step.  The  *)
(* wallet balances are not part of this promise: WalletLedger shows what   *)
(* becomes of them.                                                        *)
(***************************************************************************)

CONSTANTS
    Calls,        \* the calls of post
    References,   \* values of the unique column wallet_transactions.reference
    Inputs,       \* records with at least a field ref
    NoEntry       \* the value of entry[r] while no row has reference r

VARIABLES
    input,        \* input[c]: what call c was asked to post
    entry,        \* entry[r]: the posted input, or NoEntry
    answer        \* answer[c]: "none" while call c has not returned

vars == <<input, entry, answer>>

Init ==
    /\ input \in [Calls -> Inputs]
    /\ entry = [r \in References |-> NoEntry]
    /\ answer = [c \in Calls |-> "none"]

\* The call that writes the entry.
Post(c) ==
    /\ answer[c] = "none"
    /\ entry[input[c].ref] = NoEntry
    /\ entry' = [entry EXCEPT ![input[c].ref] = input[c]]
    /\ answer' = [answer EXCEPT ![c] = "posted"]
    /\ UNCHANGED input

\* A repetition: the reference is already in the ledger.
Duplicate(c) ==
    /\ answer[c] = "none"
    /\ entry[input[c].ref] # NoEntry
    /\ answer' = [answer EXCEPT ![c] = "duplicated"]
    /\ UNCHANGED <<input, entry>>

\* An exception: nothing is written.
Fail(c) ==
    /\ answer[c] = "none"
    /\ answer' = [answer EXCEPT ![c] = "failed"]
    /\ UNCHANGED <<input, entry>>

Next == \E c \in Calls : Post(c) \/ Duplicate(c) \/ Fail(c)

Spec == Init /\ [][Next]_vars
=============================================================================
