---------------------------- MODULE WalletLedger ----------------------------
(***************************************************************************)
(* WalletLedgerService.post, one action per SQL statement of its           *)
(* interactive transaction.  The database is PostgreSQL at its default     *)
(* isolation level, READ COMMITTED (neither the schema, nor PrismaService, *)
(* nor the call sets another one), so:                                     *)
(*   - a SELECT takes no lock and sees the last committed row;             *)
(*   - an INSERT whose unique key is in an uncommitted row of another      *)
(*     transaction waits for it, and fails if that row commits;            *)
(*   - an UPDATE waits for the row lock of another transaction's UPDATE;   *)
(*   - what a transaction wrote is seen by others at its COMMIT only.      *)
(*                                                                         *)
(* balance and availableBalance are written with the same value and by no  *)
(* other code, pendingBalance is never written: one variable stands for    *)
(* the pair.  status, description, metadata and currency are left out.     *)
(***************************************************************************)
EXTENDS Integers, Functions

CONSTANTS
    Calls,        \* the calls of post, each executed once
    Wallets,      \* the wallet rows that may come to exist
    References,   \* values of the unique column wallet_transactions.reference
    Inputs,       \* what a call may be asked to post
    NoEntry       \* no committed row has the reference

EntryTypes == {"CREDIT", "DEBIT", "ADJUSTMENT"}

LedgerPostInput ==
    [ref : References, wallet : Wallets, type : EntryTypes, amount : Int]

ASSUME InputsAssumption == Inputs \subseteq LedgerPostInput
ASSUME NoEntryAssumption == NoEntry \notin LedgerPostInput

VARIABLES
    input,        \* input[c]: the argument of call c
    pc,           \* pc[c]: the next statement of call c
    seen,         \* seen[c]: availableBalance as call c read it
    wallets,      \* the wallet rows that exist
    entry,        \* wallet_transactions, committed rows, by reference
    balance,      \* wallets.availableBalance (= balance), committed
    answer,       \* answer[c]: what call c returned or threw
    contended     \* history: wallets that two calls had read and not yet left

vars == <<input, pc, seen, wallets, entry, balance, answer, contended>>

Statements ==
    {"check", "findReference", "findWallet", "insert", "update", "commit", "done"}

\* A call between its read of the wallet row and the end of its transaction.
Holding == {"insert", "update", "commit"}

\* What may stand in a committed row: the amount was checked.
PostedInput == {i \in LedgerPostInput : i.amount >= 0}

(***************************************************************************)
(* The committed rows have the columns' types, and no entry has the        *)
(* negative amount that post refuses.                                      *)
(***************************************************************************)
TypeOK ==
    /\ input \in [Calls -> Inputs]
    /\ pc \in [Calls -> Statements]
    /\ seen \in [Calls -> Int]
    /\ wallets \in SUBSET Wallets
    /\ entry \in [References -> PostedInput \cup {NoEntry}]
    /\ balance \in [Wallets -> Int]
    /\ answer \in [Calls -> {"none", "posted", "duplicated", "failed"}]
    /\ contended \in SUBSET Wallets

Init ==
    /\ input \in [Calls -> Inputs]
    /\ pc = [c \in Calls |-> "check"]
    /\ seen = [c \in Calls |-> 0]
    /\ wallets = {}
    /\ entry = [r \in References |-> NoEntry]
    /\ balance = [w \in Wallets |-> 0]
    /\ answer = [c \in Calls |-> "none"]
    /\ contended = {}

-----------------------------------------------------------------------------
(* The wallet rows.                                                        *)

\* ensurePlatformWallet and ensureSchoolWallet: an upsert by the unique code
\* that creates an empty wallet and otherwise changes nothing.
EnsureWallet(w) ==
    /\ w \notin wallets
    /\ wallets' = wallets \cup {w}
    /\ UNCHANGED <<input, pc, seen, entry, balance, answer, contended>>

-----------------------------------------------------------------------------
(* The statements of one call of post.                                     *)

Goto(c, statement) == pc' = [pc EXCEPT ![c] = statement]

Return(c, result) ==
    /\ Goto(c, "done")
    /\ answer' = [answer EXCEPT ![c] = result]

\* An exception inside the transaction, or the loss of its connection, rolls
\* it back: nothing it wrote was visible, and nothing of it stays.
RollBack(c) ==
    /\ Return(c, "failed")
    /\ UNCHANGED <<input, seen, wallets, entry, balance, contended>>

\* The guard before the transaction: amount >= 0.
CheckAmountWithoutGuard(c) ==
    /\ pc[c] = "check"
    /\ Goto(c, "findReference")
    /\ UNCHANGED <<input, seen, wallets, entry, balance, answer, contended>>

CheckAmount(c) ==
    /\ pc[c] = "check"
    /\ IF input[c].amount < 0
       THEN RollBack(c)
       ELSE /\ Goto(c, "findReference")
            /\ UNCHANGED <<input, seen, wallets, entry, balance, answer, contended>>

\* tx.walletTransaction.findUnique by reference.
FindReference(c) ==
    /\ pc[c] = "findReference"
    /\ IF entry[input[c].ref] # NoEntry
       THEN Return(c, "duplicated")
       ELSE Goto(c, "findWallet") /\ UNCHANGED answer
    /\ UNCHANGED <<input, seen, wallets, entry, balance, contended>>

Delta(i) == IF i.type = "DEBIT" THEN -i.amount ELSE i.amount

NextBalance(c) == seen[c] + Delta(input[c])

\* Another call that has read the wallet of c and not ended its transaction.
Rivals(c) ==
    {d \in Calls \ {c} : pc[d] \in Holding /\ input[d].wallet = input[c].wallet}

\* tx.wallet.findUnique: no lock, the last committed row.
FindWalletWithoutOverdraftCheck(c) ==
    /\ pc[c] = "findWallet"
    /\ input[c].wallet \in wallets
    /\ seen' = [seen EXCEPT ![c] = balance[input[c].wallet]]
    /\ contended' = IF Rivals(c) # {}
                    THEN contended \cup {input[c].wallet} ELSE contended
    /\ Goto(c, "insert")
    /\ UNCHANGED <<input, wallets, entry, balance, answer>>

FindWallet(c) ==
    /\ pc[c] = "findWallet"
    /\ input[c].wallet \in wallets
    /\ balance[input[c].wallet] + Delta(input[c]) >= 0
    /\ seen' = [seen EXCEPT ![c] = balance[input[c].wallet]]
    /\ contended' = IF Rivals(c) # {}
                    THEN contended \cup {input[c].wallet} ELSE contended
    /\ Goto(c, "insert")
    /\ UNCHANGED <<input, wallets, entry, balance, answer>>

\* WalletNotFoundException, InsufficientWalletBalanceException.
RefuseWallet(c) ==
    /\ pc[c] = "findWallet"
    /\ \/ input[c].wallet \notin wallets
       \/ balance[input[c].wallet] + Delta(input[c]) < 0
    /\ RollBack(c)

\* The unique index on reference: an uncommitted insert of the same reference
\* makes another transaction's insert wait.
ReferenceIsFree(c) ==
    \A d \in Calls \ {c} :
        input[d].ref = input[c].ref => pc[d] \notin {"update", "commit"}

\* tx.walletTransaction.create: the row is written, not yet committed.
InsertOutsideTransaction(c) ==
    /\ pc[c] = "insert"
    /\ ReferenceIsFree(c)
    /\ entry[input[c].ref] = NoEntry
    /\ entry' = [entry EXCEPT ![input[c].ref] = input[c]]
    /\ Goto(c, "update")
    /\ UNCHANGED <<input, seen, wallets, balance, answer, contended>>

InsertWithoutUniqueIndex(c) ==
    /\ pc[c] = "insert"
    /\ Goto(c, "update")
    /\ UNCHANGED <<input, seen, wallets, entry, balance, answer, contended>>

InsertEntry(c) ==
    /\ pc[c] = "insert"
    /\ ReferenceIsFree(c)
    /\ entry[input[c].ref] = NoEntry
    /\ Goto(c, "update")
    /\ UNCHANGED <<input, seen, wallets, entry, balance, answer, contended>>

\* P2002: the reference was committed by another call since FindReference.
DuplicateKey(c) ==
    /\ pc[c] = "insert"
    /\ ReferenceIsFree(c)
    /\ entry[input[c].ref] # NoEntry
    /\ RollBack(c)

\* The row lock of the wallet, held from the update to the commit.
WalletReadForShare(c) ==
    \A d \in Calls \ {c} :
        input[d].wallet = input[c].wallet => pc[d] \notin Holding

WalletIsUnlocked(c) ==
    \A d \in Calls \ {c} :
        input[d].wallet = input[c].wallet => pc[d] # "commit"

\* tx.wallet.update with the absolute value computed from the earlier read.
UpdateWallet(c) ==
    /\ pc[c] = "update"
    /\ WalletIsUnlocked(c)
    /\ Goto(c, "commit")
    /\ UNCHANGED <<input, seen, wallets, entry, balance, answer, contended>>

\* The end of $transaction: the entry and the balance become visible together.
CommitEntryAlone(c) ==
    /\ pc[c] = "commit"
    /\ entry' = [entry EXCEPT ![input[c].ref] = input[c]]
    /\ Return(c, "posted")
    /\ UNCHANGED <<input, seen, wallets, balance, contended>>

Commit(c) ==
    /\ pc[c] = "commit"
    /\ entry' = [entry EXCEPT ![input[c].ref] = input[c]]
    /\ balance' = [balance EXCEPT ![input[c].wallet] = NextBalance(c)]
    /\ Return(c, "posted")
    /\ UNCHANGED <<input, seen, wallets, contended>>

\* The transaction times out, the connection or the process is lost.
Abort(c) ==
    /\ pc[c] \notin {"check", "done"}
    /\ RollBack(c)

Post(c) ==
    \/ CheckAmount(c)
    \/ FindReference(c)
    \/ FindWallet(c)
    \/ RefuseWallet(c)
    \/ InsertEntry(c)
    \/ DuplicateKey(c)
    \/ UpdateWallet(c)
    \/ Commit(c)

Next ==
    \/ \E w \in Wallets : EnsureWallet(w)
    \/ \E c \in Calls : Post(c) \/ Abort(c)

\* A call that can run its next statement eventually runs it: the event loop
\* and the database do not stop serving it.
Fairness == \A c \in Calls : WF_vars(Post(c))

Spec == Init /\ [][Next]_vars
FairSpec == Spec /\ Fairness

-----------------------------------------------------------------------------
(* What the ledger promises.                                               *)

(***************************************************************************)
(* Of all the calls with one reference, racing or retried, at most one     *)
(* returns duplicated: false.  ConfirmSubscriptionPaymentService tells a   *)
(* first confirmation from a repetition by this answer.                    *)
(***************************************************************************)
OnePosterPerReference ==
    \A c, d \in Calls :
        answer[c] = "posted" /\ answer[d] = "posted" /\ input[c].ref = input[d].ref
            => c = d

(***************************************************************************)
(* No wallet is ever overdrawn, although two calls may compute their next  *)
(* balance from the same read ("rejects a debit that would make the        *)
(* balance negative" in wallet-ledger.service.spec.ts).                    *)
(***************************************************************************)
NeverOverdrawn == \A w \in Wallets : balance[w] >= 0

\* The committed entries of a wallet, by reference.
EntriesOf(w) ==
    {r \in References : entry[r] # NoEntry /\ entry[r].wallet = w}

CreditEntriesOf(w) == {r \in EntriesOf(w) : entry[r].type # "DEBIT"}

CreditsOf(w) == SumFunction([r \in CreditEntriesOf(w) |-> entry[r].amount])
EntrySum(w) == SumFunction([r \in EntriesOf(w) |-> Delta(entry[r])])

(***************************************************************************)
(* post never invents money: a balance is at most the committed credits,   *)
(* whatever updates were lost and whatever calls were repeated.            *)
(***************************************************************************)
BalanceBackedByCredits == \A w \in Wallets : balance[w] <= CreditsOf(w)

(***************************************************************************)
(* The comment above post: "Post a ledger entry and update wallet balances *)
(* atomically."  Every balance is the sum of the entries of its wallet.    *)
(***************************************************************************)
BalanceIsSumOfEntries == \A w \in Wallets : balance[w] = EntrySum(w)

(***************************************************************************)
(* The part of that comment the code does keep: a wallet that no two calls *)
(* ever worked on at the same time has a balance that is the sum of its    *)
(* entries, through every abort, refusal and repetition.                   *)
(***************************************************************************)
ExactUnlessContended ==
    \A w \in Wallets \ contended : balance[w] = EntrySum(w)

(***************************************************************************)
(* Every call returns or throws: the unique index is always waited for     *)
(* before the wallet's row lock, so calls that wait for each other's locks *)
(* never form a cycle.                                                     *)
(***************************************************************************)
EveryCallEnds == \A c \in Calls : <>(answer[c] # "none")

(***************************************************************************)
(* The statements of concurrent transactions implement the one-step ledger *)
(* of IdempotentLedger.                                                    *)
(***************************************************************************)
Promised ==
    INSTANCE IdempotentLedger
        WITH Calls <- Calls, References <- References, Inputs <- Inputs,
             NoEntry <- NoEntry, input <- input, entry <- entry, answer <- answer
ImplementsIdempotentLedger == Promised!Spec
=============================================================================
