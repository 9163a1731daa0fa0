-------------------------- MODULE WalletLedgerProofs --------------------------
(***************************************************************************)
(* WalletLedger for every set of calls, wallets, references and inputs:    *)
(* its types, that no wallet is overdrawn, that one call at most posts a   *)
(* reference, that it implements IdempotentLedger, and how a balance       *)
(* compares with the sum of its entries (SumLemmas).                       *)
(***************************************************************************)
EXTENDS WalletLedger, SumLemmas

\* An insert that is not yet committed.
Inserted(c) == pc[c] \in {"update", "commit"}

\* Past the guard on the amount, inside the transaction.
AmountChecked ==
    \A c \in Calls : pc[c] \notin {"check", "done"} => input[c].amount >= 0

\* Whatever balance a call will write was computed to be non-negative.
NextBalanceChecked ==
    \A c \in Calls : pc[c] \in Holding => NextBalance(c) >= 0

\* The unique index: an uncommitted insert has its reference for itself.
InsertIsExclusive ==
    \A c \in Calls : Inserted(c) =>
        /\ entry[input[c].ref] = NoEntry
        /\ \A d \in Calls : Inserted(d) /\ input[d].ref = input[c].ref => d = c

\* A call has an answer exactly when it is done, and "posted" means an entry.
AnswerIsBacked ==
    \A c \in Calls :
        /\ answer[c] = "none" <=> pc[c] # "done"
        /\ answer[c] = "posted" => entry[input[c].ref] # NoEntry

IInv ==
    /\ TypeOK
    /\ AmountChecked
    /\ NextBalanceChecked
    /\ NeverOverdrawn
    /\ InsertIsExclusive
    /\ AnswerIsBacked
    /\ OnePosterPerReference

-----------------------------------------------------------------------------

(***************************************************************************)
(* The inputs are typed: what a call posts has a reference, a wallet of    *)
(* Wallets and an integer amount.                                          *)
(***************************************************************************)
LEMMA InputFields ==
    ASSUME TypeOK, NEW c \in Calls
    PROVE  /\ input[c] \in LedgerPostInput
           /\ input[c].ref \in References
           /\ input[c].wallet \in Wallets
           /\ input[c].amount \in Int
           /\ Delta(input[c]) \in Int
           /\ NextBalance(c) \in Int
  BY InputsAssumption DEF TypeOK, LedgerPostInput, Delta, NextBalance

(***************************************************************************)
(* A posted input is not the value NoEntry, so writing it fills the row.   *)
(***************************************************************************)
LEMMA InputIsNotNoEntry ==
    ASSUME TypeOK, NEW c \in Calls
    PROVE  input[c] # NoEntry
  BY InputFields, NoEntryAssumption

(***************************************************************************)
(* Before the first statement nothing is posted and every wallet is empty. *)
(***************************************************************************)
LEMMA InitIInv == Init => IInv
  BY InputsAssumption
     DEF Init, IInv, TypeOK, Statements, AmountChecked, NextBalanceChecked,
         NeverOverdrawn, InsertIsExclusive, Inserted, AnswerIsBacked,
         OnePosterPerReference, Holding

(***************************************************************************)
(* A transaction that is rolled back keeps the invariant.                  *)
(***************************************************************************)
LEMMA RollBackIInv ==
    ASSUME IInv, NEW c \in Calls, pc[c] # "done", RollBack(c)
    PROVE  IInv'
<1> USE DEF IInv, RollBack, Return, Goto
<1>1. TypeOK'
  BY DEF TypeOK, Statements
<1>2. AmountChecked'
  BY DEF TypeOK, AmountChecked
<1>3. NextBalanceChecked'
  BY DEF TypeOK, NextBalanceChecked, NextBalance, Holding
<1>4. NeverOverdrawn'
  BY DEF NeverOverdrawn
<1>5. InsertIsExclusive'
  BY DEF TypeOK, InsertIsExclusive, Inserted
<1>6. AnswerIsBacked'
  BY DEF TypeOK, AnswerIsBacked
<1>7. OnePosterPerReference'
  BY DEF TypeOK, OnePosterPerReference
<1> QED
  BY <1>1, <1>2, <1>3, <1>4, <1>5, <1>6, <1>7

(***************************************************************************)
(* The guard on the amount keeps the invariant: what passes it is not      *)
(* negative.                                                               *)
(***************************************************************************)
LEMMA CheckAmountIInv ==
    ASSUME IInv, NEW c \in Calls, CheckAmount(c)
    PROVE  IInv'
<1>1. CASE input[c].amount < 0
  BY <1>1, RollBackIInv DEF CheckAmount
<1>2. CASE ~(input[c].amount < 0)
  <2> USE <1>2 DEF IInv, CheckAmount, Goto
  <2>1. TypeOK'
    BY DEF TypeOK, Statements
  <2>2. AmountChecked'
    BY InputFields DEF TypeOK, AmountChecked
  <2>3. NextBalanceChecked'
    BY DEF TypeOK, NextBalanceChecked, NextBalance, Holding
  <2>4. NeverOverdrawn'
    BY DEF NeverOverdrawn
  <2>5. InsertIsExclusive'
    BY DEF TypeOK, InsertIsExclusive, Inserted
  <2>6. AnswerIsBacked'
    BY DEF TypeOK, AnswerIsBacked
  <2>7. OnePosterPerReference'
    BY DEF OnePosterPerReference
  <2> QED
    BY <2>1, <2>2, <2>3, <2>4, <2>5, <2>6, <2>7
<1> QED
  BY <1>1, <1>2

(***************************************************************************)
(* The lookup of the reference keeps the invariant: it answers duplicated  *)
(* only where a committed row has the reference.                           *)
(***************************************************************************)
LEMMA FindReferenceIInv ==
    ASSUME IInv, NEW c \in Calls, FindReference(c)
    PROVE  IInv'
<1> USE DEF IInv, FindReference, Return, Goto
<1>1. TypeOK'
  BY DEF TypeOK, Statements
<1>2. AmountChecked'
  BY DEF TypeOK, AmountChecked
<1>3. NextBalanceChecked'
  BY DEF TypeOK, NextBalanceChecked, NextBalance, Holding
<1>4. NeverOverdrawn'
  BY DEF NeverOverdrawn
<1>5. InsertIsExclusive'
  BY DEF TypeOK, InsertIsExclusive, Inserted
<1>6. AnswerIsBacked'
  BY DEF TypeOK, AnswerIsBacked
<1>7. OnePosterPerReference'
  BY DEF TypeOK, OnePosterPerReference
<1> QED
  BY <1>1, <1>2, <1>3, <1>4, <1>5, <1>6, <1>7

(***************************************************************************)
(* The overdraft check is on the value the call keeps and later writes.    *)
(***************************************************************************)
LEMMA FindWalletIInv ==
    ASSUME IInv, NEW c \in Calls, FindWallet(c)
    PROVE  IInv'
<1> USE DEF IInv, FindWallet, Goto
<1>1. TypeOK'
  BY InputFields DEF TypeOK, Statements
<1>2. AmountChecked'
  BY DEF TypeOK, AmountChecked
<1>3. NextBalanceChecked'
  <2> SUFFICES ASSUME NEW d \in Calls, pc'[d] \in Holding
               PROVE  NextBalance(d)' >= 0
    BY DEF NextBalanceChecked
  <2>1. CASE d = c
    BY <2>1 DEF TypeOK, NextBalance
  <2>2. CASE d # c
    BY <2>2 DEF TypeOK, NextBalance, NextBalanceChecked
  <2> QED
    BY <2>1, <2>2
<1>4. NeverOverdrawn'
  BY DEF NeverOverdrawn
<1>5. InsertIsExclusive'
  BY DEF TypeOK, InsertIsExclusive, Inserted
<1>6. AnswerIsBacked'
  BY DEF TypeOK, AnswerIsBacked
<1>7. OnePosterPerReference'
  BY DEF OnePosterPerReference
<1> QED
  BY <1>1, <1>2, <1>3, <1>4, <1>5, <1>6, <1>7

(***************************************************************************)
(* An insert succeeds only when no other insert of the reference is        *)
(* pending and none is committed.                                          *)
(***************************************************************************)
LEMMA InsertEntryIInv ==
    ASSUME IInv, NEW c \in Calls, InsertEntry(c)
    PROVE  IInv'
<1> USE DEF IInv, InsertEntry, Goto
<1>1. TypeOK'
  BY DEF TypeOK, Statements
<1>2. AmountChecked'
  BY DEF TypeOK, AmountChecked
<1>3. NextBalanceChecked'
  BY DEF TypeOK, NextBalanceChecked, NextBalance, Holding
<1>4. NeverOverdrawn'
  BY DEF NeverOverdrawn
<1>5. InsertIsExclusive'
  BY DEF TypeOK, InsertIsExclusive, Inserted, ReferenceIsFree
<1>6. AnswerIsBacked'
  BY DEF TypeOK, AnswerIsBacked
<1>7. OnePosterPerReference'
  BY DEF OnePosterPerReference
<1> QED
  BY <1>1, <1>2, <1>3, <1>4, <1>5, <1>6, <1>7

(***************************************************************************)
(* The uncommitted update of the wallet keeps the invariant.               *)
(***************************************************************************)
LEMMA UpdateWalletIInv ==
    ASSUME IInv, NEW c \in Calls, UpdateWallet(c)
    PROVE  IInv'
<1> USE DEF IInv, UpdateWallet, Goto
<1>1. TypeOK'
  BY DEF TypeOK, Statements
<1>2. AmountChecked'
  BY DEF TypeOK, AmountChecked
<1>3. NextBalanceChecked'
  BY DEF TypeOK, NextBalanceChecked, NextBalance, Holding
<1>4. NeverOverdrawn'
  BY DEF NeverOverdrawn
<1>5. InsertIsExclusive'
  BY DEF TypeOK, InsertIsExclusive, Inserted
<1>6. AnswerIsBacked'
  BY DEF TypeOK, AnswerIsBacked
<1>7. OnePosterPerReference'
  BY DEF OnePosterPerReference
<1> QED
  BY <1>1, <1>2, <1>3, <1>4, <1>5, <1>6, <1>7

(***************************************************************************)
(* The commit fills a reference that was free, with a checked balance.     *)
(***************************************************************************)
LEMMA CommitIInv ==
    ASSUME IInv, NEW c \in Calls, Commit(c)
    PROVE  IInv'
<1> USE DEF IInv, Commit, Return, Goto
<1>1. /\ input[c].ref \in References
      /\ input[c].wallet \in Wallets
      /\ NextBalance(c) \in Int
      /\ NextBalance(c) >= 0
      /\ input[c] \in PostedInput
      /\ input[c] # NoEntry
  BY InputFields, InputIsNotNoEntry
     DEF NextBalanceChecked, Holding, AmountChecked, PostedInput
<1>2. TypeOK'
  BY <1>1 DEF TypeOK, Statements
<1>3. AmountChecked'
  BY DEF TypeOK, AmountChecked
<1>4. NextBalanceChecked'
  BY DEF TypeOK, NextBalanceChecked, NextBalance, Holding
<1>5. NeverOverdrawn'
  BY <1>1 DEF TypeOK, NeverOverdrawn
<1>6. InsertIsExclusive'
  <2> SUFFICES ASSUME NEW d \in Calls, Inserted(d)'
               PROVE  /\ entry'[input'[d].ref] = NoEntry
                      /\ \A e \in Calls :
                            Inserted(e)' /\ input'[e].ref = input'[d].ref => e = d
    BY DEF InsertIsExclusive
  <2>1. d # c /\ Inserted(d) /\ Inserted(c)
    BY DEF TypeOK, Inserted
  <2>2. input[d].ref # input[c].ref
    BY <2>1 DEF InsertIsExclusive
  <2>3. entry'[input'[d].ref] = NoEntry
    BY <2>1, <2>2, InputFields DEF TypeOK, InsertIsExclusive
  <2>4. \A e \in Calls : Inserted(e)' => Inserted(e)
    BY DEF TypeOK, Inserted
  <2> QED
    BY <2>1, <2>3, <2>4 DEF InsertIsExclusive
<1>7. AnswerIsBacked'
  BY <1>1 DEF TypeOK, AnswerIsBacked
<1>8. OnePosterPerReference'
  <2>1. entry[input[c].ref] = NoEntry
    BY DEF InsertIsExclusive, Inserted
  <2>2. \A d \in Calls : answer[d] = "posted" => input[d].ref # input[c].ref
    BY <2>1 DEF AnswerIsBacked
  <2> QED
    BY <2>2 DEF TypeOK, OnePosterPerReference
<1> QED
  BY <1>2, <1>3, <1>4, <1>5, <1>6, <1>7, <1>8

(***************************************************************************)
(* The upsert of a wallet row changes no balance and no entry.             *)
(***************************************************************************)
LEMMA EnsureWalletIInv ==
    ASSUME IInv, NEW w \in Wallets, EnsureWallet(w)
    PROVE  IInv'
  BY DEF IInv, EnsureWallet, TypeOK, AmountChecked, NextBalanceChecked,
         NextBalance, NeverOverdrawn, InsertIsExclusive, Inserted,
         AnswerIsBacked, OnePosterPerReference

(***************************************************************************)
(* Every statement of every call keeps the invariant.                      *)
(***************************************************************************)
LEMMA NextIInv == IInv /\ [Next]_vars => IInv'
<1> SUFFICES ASSUME IInv, [Next]_vars
             PROVE  IInv'
  OBVIOUS
<1>1. ASSUME NEW w \in Wallets, EnsureWallet(w)
      PROVE  IInv'
  BY <1>1, EnsureWalletIInv
<1>2. ASSUME NEW c \in Calls, Post(c)
      PROVE  IInv'
  <2>1. CASE CheckAmount(c)
    BY <2>1, CheckAmountIInv
  <2>2. CASE FindReference(c)
    BY <2>2, FindReferenceIInv
  <2>3. CASE FindWallet(c)
    BY <2>3, FindWalletIInv
  <2>4. CASE RefuseWallet(c)
    BY <2>4, RollBackIInv DEF RefuseWallet
  <2>5. CASE InsertEntry(c)
    BY <2>5, InsertEntryIInv
  <2>6. CASE DuplicateKey(c)
    BY <2>6, RollBackIInv DEF DuplicateKey
  <2>7. CASE UpdateWallet(c)
    BY <2>7, UpdateWalletIInv
  <2>8. CASE Commit(c)
    BY <2>8, CommitIInv
  <2> QED
    BY <1>2, <2>1, <2>2, <2>3, <2>4, <2>5, <2>6, <2>7, <2>8 DEF Post
<1>3. ASSUME NEW c \in Calls, Abort(c)
      PROVE  IInv'
  BY <1>3, RollBackIInv DEF Abort
<1>4. CASE UNCHANGED vars
  BY <1>4 DEF vars, IInv, TypeOK, AmountChecked, NextBalanceChecked,
         NextBalance, NeverOverdrawn, InsertIsExclusive, Inserted,
         AnswerIsBacked, OnePosterPerReference
<1> QED
  BY <1>1, <1>2, <1>3, <1>4 DEF Next

(***************************************************************************)
(* The invariant of WalletLedgerService.post under any number of           *)
(* concurrent transactions.                                                *)
(***************************************************************************)
THEOREM Invariance == Spec => []IInv
  BY InitIInv, NextIInv, PTL DEF Spec

(***************************************************************************)
(* Every committed row has the columns' types and a checked amount.        *)
(***************************************************************************)
THEOREM TypeCorrect == Spec => []TypeOK
<1>1. IInv => TypeOK
  BY DEF IInv
<1> QED
  BY <1>1, Invariance, PTL

(***************************************************************************)
(* However many calls race or retry, one at most posts a reference.        *)
(***************************************************************************)
THEOREM PostedOnce == Spec => []OnePosterPerReference
<1>1. IInv => OnePosterPerReference
  BY DEF IInv
<1> QED
  BY <1>1, Invariance, PTL

(***************************************************************************)
(* No interleaving of posts overdraws a wallet.                            *)
(***************************************************************************)
THEOREM NoOverdraft == Spec => []NeverOverdrawn
<1>1. IInv => NeverOverdrawn
  BY DEF IInv
<1> QED
  BY <1>1, Invariance, PTL

(***************************************************************************)
(* Every step of the transactions is a step of the one-step ledger or      *)
(* leaves its variables alone.                                             *)
(***************************************************************************)
LEMMA StepRefinement == IInv /\ [Next]_vars => [Promised!Next]_(Promised!vars)
<1> SUFFICES ASSUME IInv, [Next]_vars
             PROVE  [Promised!Next]_(Promised!vars)
  OBVIOUS
<1> USE DEF IInv
<1>1. ASSUME NEW c \in Calls, pc[c] # "done", RollBack(c)
      PROVE  Promised!Fail(c)
  BY <1>1 DEF RollBack, Return, Promised!Fail, AnswerIsBacked
<1>2. ASSUME NEW c \in Calls, FindReference(c)
      PROVE  Promised!Duplicate(c) \/ UNCHANGED Promised!vars
  BY <1>2 DEF FindReference, Return, Promised!Duplicate, Promised!vars,
              AnswerIsBacked
<1>3. ASSUME NEW c \in Calls, Commit(c)
      PROVE  Promised!Post(c)
  BY <1>3 DEF Commit, Return, Promised!Post, AnswerIsBacked,
              InsertIsExclusive, Inserted
<1>4. ASSUME NEW c \in Calls, Post(c) \/ Abort(c)
      PROVE  Promised!Next \/ UNCHANGED Promised!vars
  <2>1. CASE CheckAmount(c)
    BY <2>1, <1>1 DEF CheckAmount, Promised!Next, Promised!vars
  <2>2. CASE FindReference(c)
    BY <2>2, <1>2 DEF Promised!Next
  <2>3. CASE RefuseWallet(c)
    BY <2>3, <1>1 DEF RefuseWallet, Promised!Next
  <2>4. CASE DuplicateKey(c)
    BY <2>4, <1>1 DEF DuplicateKey, Promised!Next
  <2>5. CASE Abort(c)
    BY <2>5, <1>1 DEF Abort, Promised!Next
  <2>6. CASE Commit(c)
    BY <2>6, <1>3 DEF Promised!Next
  <2>7. CASE FindWallet(c) \/ InsertEntry(c) \/ UpdateWallet(c)
    BY <2>7 DEF FindWallet, InsertEntry, UpdateWallet, Promised!vars
  <2> QED
    BY <1>4, <2>1, <2>2, <2>3, <2>4, <2>5, <2>6, <2>7 DEF Post
<1>5. ASSUME NEW w \in Wallets, EnsureWallet(w)
      PROVE  UNCHANGED Promised!vars
  BY <1>5 DEF EnsureWallet, Promised!vars
<1>6. CASE UNCHANGED vars
  BY <1>6 DEF vars, Promised!vars
<1> QED
  BY <1>4, <1>5, <1>6 DEF Next

(***************************************************************************)
(* The detailed transactions implement the idempotent ledger, for every    *)
(* number of calls and every input.                                        *)
(***************************************************************************)
THEOREM Refinement == Spec => ImplementsIdempotentLedger
<1>1. Init => Promised!Init
  BY DEF Init, Promised!Init
<1> QED
  BY <1>1, StepRefinement, Invariance, PTL
  DEF Spec, Promised!Spec, ImplementsIdempotentLedger
-----------------------------------------------------------------------------
(* Balances and sums of entries.                                           *)

\* The references in use.
Posted == {r \in References : entry[r] # NoEntry}

\* What a call has read of a balance is covered by the committed credits too:
\* the balance it is about to write is that and its own entry.
MoneyInv ==
    /\ IsFiniteSet(Posted)
    /\ BalanceBackedByCredits
    /\ \A c \in Calls, w \in Wallets :
          pc[c] \in Holding /\ input[c].wallet = w => seen[c] <= CreditsOf(w)

\* The sums are over finite sets, and integers.
LEMMA SumTypes ==
    ASSUME TypeOK, IsFiniteSet(Posted), NEW w
    PROVE  /\ IsFiniteSet(EntriesOf(w)) /\ IsFiniteSet(CreditEntriesOf(w))
           /\ [r \in EntriesOf(w) |-> Delta(entry[r])] \in [EntriesOf(w) -> Int]
           /\ [r \in CreditEntriesOf(w) |-> entry[r].amount]
                 \in [CreditEntriesOf(w) -> Int]
           /\ EntrySum(w) \in Int
           /\ CreditsOf(w) \in Int
<1>1. EntriesOf(w) \in SUBSET Posted /\ CreditEntriesOf(w) \in SUBSET Posted
  BY DEF EntriesOf, CreditEntriesOf, Posted
<1>2. IsFiniteSet(EntriesOf(w)) /\ IsFiniteSet(CreditEntriesOf(w))
  BY <1>1, FS_Subset
<1>3. \A r \in Posted : entry[r].amount \in Int /\ Delta(entry[r]) \in Int
  BY DEF TypeOK, Posted, PostedInput, LedgerPostInput, Delta
<1>4. [r \in EntriesOf(w) |-> Delta(entry[r])] \in [EntriesOf(w) -> Int]
  BY <1>1, <1>3
<1>5. [r \in CreditEntriesOf(w) |-> entry[r].amount] \in [CreditEntriesOf(w) -> Int]
  BY <1>1, <1>3
<1>6. EntrySum(w) \in Int
  BY <1>2, <1>4, SumOfFunctionType DEF EntrySum
<1>7. CreditsOf(w) \in Int
  BY <1>2, <1>5, SumOfFunctionType DEF CreditsOf
<1> QED
  BY <1>2, <1>4, <1>5, <1>6, <1>7

\* A commit adds one entry, of a reference that had none, and each sum grows
\* by what that entry counts for.
LEMMA CommitSums ==
    ASSUME IInv, IsFiniteSet(Posted), NEW c \in Calls, Commit(c), NEW w
    PROVE  /\ IsFiniteSet(Posted)'
           /\ EntrySum(w)' = EntrySum(w)
                 + (IF input[c].wallet = w THEN Delta(input[c]) ELSE 0)
           /\ CreditsOf(w)' = CreditsOf(w)
                 + (IF input[c].wallet = w /\ input[c].type # "DEBIT"
                    THEN input[c].amount ELSE 0)
<1> DEFINE r0 == input[c].ref
<1>1. /\ r0 \in References /\ input[c] # NoEntry
      /\ entry[r0] = NoEntry
      /\ input[c].amount \in Int /\ Delta(input[c]) \in Int
  BY InputFields, InputIsNotNoEntry DEF IInv, InsertIsExclusive, Inserted, Commit
<1>2. \A r \in References : entry'[r] = IF r = r0 THEN input[c] ELSE entry[r]
  BY DEF Commit, IInv, TypeOK
<1>3. Posted' = Posted \cup {r0}
  BY <1>1, <1>2 DEF Posted
<1>4. IsFiniteSet(Posted)'
  BY <1>3, FS_AddElement
<1>5. r0 \notin EntriesOf(w) /\ r0 \notin CreditEntriesOf(w)
  BY <1>1 DEF EntriesOf, CreditEntriesOf
<1>6. EntriesOf(w)' = IF input[c].wallet = w THEN EntriesOf(w) \cup {r0} ELSE EntriesOf(w)
  BY <1>1, <1>2 DEF EntriesOf
<1>7. CreditEntriesOf(w)' = IF input[c].wallet = w /\ input[c].type # "DEBIT"
                            THEN CreditEntriesOf(w) \cup {r0} ELSE CreditEntriesOf(w)
  BY <1>1, <1>2, <1>5, <1>6 DEF CreditEntriesOf, EntriesOf
<1>8. /\ IsFiniteSet(EntriesOf(w)) /\ IsFiniteSet(CreditEntriesOf(w))
      /\ [r \in EntriesOf(w) |-> Delta(entry[r])] \in [EntriesOf(w) -> Int]
      /\ [r \in CreditEntriesOf(w) |-> entry[r].amount] \in [CreditEntriesOf(w) -> Int]
      /\ EntrySum(w) \in Int /\ CreditsOf(w) \in Int
  BY SumTypes DEF IInv
<1>9. /\ \A r \in EntriesOf(w) : entry'[r] = entry[r]
      /\ \A r \in CreditEntriesOf(w) : entry'[r] = entry[r]
      /\ entry'[r0] = input[c]
  BY <1>1, <1>2, <1>5 DEF EntriesOf, CreditEntriesOf
<1>10. EntrySum(w)' = EntrySum(w)
                 + (IF input[c].wallet = w THEN Delta(input[c]) ELSE 0)
  <2> DEFINE f == [r \in EntriesOf(w) |-> Delta(entry[r])]
             g == [r \in EntriesOf(w)' |-> Delta(entry'[r])]
  <2>1. EntrySum(w) = SumFunction(f) /\ EntrySum(w)' = SumFunction(g)
    BY DEF EntrySum, Delta
  <2>2. CASE input[c].wallet = w
    <3>1. g = [r \in EntriesOf(w) \cup {r0} |-> Delta(entry'[r])]
      BY <1>6, <2>2
    <3>2. \A r \in EntriesOf(w) : g[r] = f[r]
      BY <1>9, <3>1
    <3>3. g[r0] = Delta(input[c])
      BY <1>9, <3>1
    <3>4. g \in [EntriesOf(w) \cup {r0} -> Int]
      <4> HIDE DEF f, r0
      <4>1. \A r \in EntriesOf(w) : f[r] \in Int
        BY <1>8 DEF f
      <4>2. \A r \in EntriesOf(w) \cup {r0} : g[r] \in Int
        BY <1>1, <3>2, <3>3, <4>1 DEF r0
      <4> QED
        BY <3>1, <4>2
    <3>5. f \in [EntriesOf(w) -> Int]
      BY <1>8
    <3> HIDE DEF f, g, r0
    <3>6. SumFunction(g) = g[r0] + SumFunction(f)
      <4>1. ASSUME NEW S, S = EntriesOf(w), NEW ff, ff = f, NEW gg, gg = g, NEW e, e = r0
            PROVE  SumFunction(gg) = gg[e] + SumFunction(ff)
        <5>1. /\ IsFiniteSet(S) /\ e \notin S
              /\ ff \in [S -> Int] /\ gg \in [S \cup {e} -> Int]
              /\ \A r \in S : gg[r] = ff[r]
          BY <1>5, <1>8, <3>2, <3>4, <3>5, <4>1
        <5> QED
          BY <5>1, SumOfExtension
      <4> QED
        BY <4>1
    <3> QED
      BY <1>1, <1>8, <2>1, <2>2, <3>3, <3>6 DEF r0
  <2>3. CASE input[c].wallet # w
    <3>1. g = f
      BY <1>6, <1>9, <2>3
    <3> HIDE DEF f, g
    <3> QED
      BY <1>8, <2>1, <2>3, <3>1
  <2> QED
    BY <2>2, <2>3
<1>11. CreditsOf(w)' = CreditsOf(w)
                 + (IF input[c].wallet = w /\ input[c].type # "DEBIT"
                    THEN input[c].amount ELSE 0)
  <2> DEFINE f == [r \in CreditEntriesOf(w) |-> entry[r].amount]
             g == [r \in CreditEntriesOf(w)' |-> entry'[r].amount]
  <2>1. CreditsOf(w) = SumFunction(f) /\ CreditsOf(w)' = SumFunction(g)
    BY DEF CreditsOf
  <2>2. CASE input[c].wallet = w /\ input[c].type # "DEBIT"
    <3>1. g = [r \in CreditEntriesOf(w) \cup {r0} |-> entry'[r].amount]
      BY <1>7, <2>2
    <3>2. \A r \in CreditEntriesOf(w) : g[r] = f[r]
      BY <1>9, <3>1
    <3>3. g[r0] = input[c].amount
      BY <1>9, <3>1
    <3>4. g \in [CreditEntriesOf(w) \cup {r0} -> Int]
      <4> HIDE DEF f, r0
      <4>1. \A r \in CreditEntriesOf(w) : f[r] \in Int
        BY <1>8 DEF f
      <4>2. \A r \in CreditEntriesOf(w) \cup {r0} : g[r] \in Int
        BY <1>1, <3>2, <3>3, <4>1 DEF r0
      <4> QED
        BY <3>1, <4>2
    <3>5. f \in [CreditEntriesOf(w) -> Int]
      BY <1>8
    <3> HIDE DEF f, g, r0
    <3>6. SumFunction(g) = g[r0] + SumFunction(f)
      <4>1. ASSUME NEW S, S = CreditEntriesOf(w), NEW ff, ff = f, NEW gg, gg = g, NEW e, e = r0
            PROVE  SumFunction(gg) = gg[e] + SumFunction(ff)
        <5>1. /\ IsFiniteSet(S) /\ e \notin S
              /\ ff \in [S -> Int] /\ gg \in [S \cup {e} -> Int]
              /\ \A r \in S : gg[r] = ff[r]
          BY <1>5, <1>8, <3>2, <3>4, <3>5, <4>1
        <5> QED
          BY <5>1, SumOfExtension
      <4> QED
        BY <4>1
    <3> QED
      BY <1>1, <1>8, <2>1, <2>2, <3>3, <3>6 DEF r0
  <2>3. CASE ~(input[c].wallet = w /\ input[c].type # "DEBIT")
    <3>1. g = f
      BY <1>7, <1>9, <2>3
    <3> HIDE DEF f, g
    <3> QED
      BY <1>8, <2>1, <2>3, <3>1
  <2> QED
    BY <2>2, <2>3
<1> QED
  BY <1>4, <1>10, <1>11

\* On a wallet that was never contended, the one call that has read the
\* balance has read the balance there is.
ExactInv ==
    \A c \in Calls, w \in Wallets \ contended :
        pc[c] \in Holding /\ input[c].wallet = w =>
            /\ seen[c] = balance[w]
            /\ \A d \in Calls : pc[d] \in Holding /\ input[d].wallet = w => d = c

\* Everything the sums need.
SumInv == MoneyInv /\ ExactUnlessContended /\ ExactInv

\* No entry, no money.
LEMMA InitSums == Init => SumInv
<1> SUFFICES ASSUME Init PROVE SumInv
  OBVIOUS
<1>1. Posted = {} /\ \A w : EntriesOf(w) = {} /\ CreditEntriesOf(w) = {}
  BY DEF Init, Posted, EntriesOf, CreditEntriesOf
<1>2. \A w : EntrySum(w) = 0 /\ CreditsOf(w) = 0
  <2> SUFFICES ASSUME NEW w PROVE EntrySum(w) = 0 /\ CreditsOf(w) = 0
    OBVIOUS
  <2>1. ASSUME NEW f, DOMAIN f = {} PROVE SumFunction(f) = 0
    BY <2>1, SumOfNothing DEF SumFunction
  <2>2. DOMAIN [r \in EntriesOf(w) |-> Delta(entry[r])] = {}
    BY <1>1
  <2>3. DOMAIN [r \in CreditEntriesOf(w) |-> entry[r].amount] = {}
    BY <1>1
  <2> QED
    BY <2>1, <2>2, <2>3 DEF EntrySum, CreditsOf
<1>3. IsFiniteSet(Posted)
  BY <1>1, FS_EmptySet
<1> QED
  BY <1>2, <1>3 DEF Init, SumInv, MoneyInv, BalanceBackedByCredits, Holding,
     ExactUnlessContended, ExactInv

\* Without a new entry the sums stay.
LEMMA SumsUnchanged ==
    ASSUME UNCHANGED entry
    PROVE  /\ Posted' = Posted
           /\ \A w : EntrySum(w)' = EntrySum(w) /\ CreditsOf(w)' = CreditsOf(w)
BY DEF Posted, EntrySum, CreditsOf, EntriesOf, CreditEntriesOf

\* A call that reads no balance and commits nothing keeps SumInv, whether it
\* goes on or gives up.
LEMMA CallLeaves ==
    ASSUME IInv, SumInv, UNCHANGED <<input, seen, entry, balance>>,
           contended \subseteq contended',
           \A c \in Calls : pc'[c] \in Holding => pc[c] \in Holding
    PROVE  SumInv'
<1>1. MoneyInv'
  BY SumsUnchanged DEF SumInv, MoneyInv, BalanceBackedByCredits
<1>2. ExactUnlessContended'
  BY SumsUnchanged DEF SumInv, ExactUnlessContended
<1>3. ExactInv'
  BY DEF SumInv, ExactInv
<1> QED
  BY <1>1, <1>2, <1>3 DEF SumInv

\* Reading a balance: a second reader makes the wallet contended.
LEMMA FindWalletSums ==
    ASSUME IInv, SumInv, NEW c \in Calls, FindWallet(c)
    PROVE  SumInv'
<1>1. /\ UNCHANGED <<input, entry, balance>>
      /\ contended \subseteq contended'
      /\ Rivals(c) # {} => input[c].wallet \in contended'
  BY DEF FindWallet
<1>2. \A d \in Calls : d # c => pc'[d] = pc[d] /\ seen'[d] = seen[d]
  BY DEF FindWallet, Goto, IInv, TypeOK
<1>3. seen'[c] = balance[input[c].wallet]
  BY DEF FindWallet, IInv, TypeOK
<1>4. MoneyInv'
  BY <1>1, <1>2, <1>3, SumsUnchanged DEF SumInv, MoneyInv, BalanceBackedByCredits
<1>5. ExactUnlessContended'
  BY <1>1, SumsUnchanged DEF SumInv, ExactUnlessContended
<1>6. ExactInv'
  <2> SUFFICES ASSUME NEW d \in Calls, NEW w \in Wallets, w \notin contended',
                      pc'[d] \in Holding, input[d].wallet = w
               PROVE  /\ seen'[d] = balance[w]
                      /\ \A e \in Calls :
                            pc'[e] \in Holding /\ input[e].wallet = w => e = d
    BY <1>1 DEF ExactInv
  <2>1. CASE input[c].wallet = w
    <3>1. Rivals(c) = {}
      BY <1>1, <2>1
    <3>2. \A e \in Calls : pc'[e] \in Holding /\ input[e].wallet = w => e = c
      BY <1>2, <2>1, <3>1 DEF Rivals
    <3> QED
      BY <1>3, <2>1, <3>2
  <2>2. CASE input[c].wallet # w
    <3>1. d # c /\ pc[d] \in Holding /\ w \notin contended
      BY <1>1, <1>2, <2>2
    <3> QED
      BY <1>1, <1>2, <2>2, <3>1 DEF SumInv, ExactInv
  <2> QED
    BY <2>1, <2>2
<1> QED
  BY <1>4, <1>5, <1>6 DEF SumInv

\* Committing: the balance written is the one read and the entry's amount.
LEMMA CommitKeepsSums ==
    ASSUME IInv, SumInv, NEW c \in Calls, Commit(c)
    PROVE  SumInv'
<1>1. /\ UNCHANGED <<input, seen, contended>>
      /\ pc[c] = "commit" /\ pc'[c] = "done"
      /\ \A d \in Calls : d # c => pc'[d] = pc[d]
  BY DEF Commit, Return, Goto, IInv, TypeOK
<1>2. /\ \A w \in Wallets : balance'[w] = IF w = input[c].wallet
                                        THEN NextBalance(c) ELSE balance[w]
  BY DEF Commit, IInv, TypeOK
<1>3. /\ IsFiniteSet(Posted) /\ IsFiniteSet(Posted)'
      /\ \A w : /\ EntrySum(w)' = EntrySum(w)
                       + (IF input[c].wallet = w THEN Delta(input[c]) ELSE 0)
                /\ CreditsOf(w)' = CreditsOf(w)
                       + (IF input[c].wallet = w /\ input[c].type # "DEBIT"
                          THEN input[c].amount ELSE 0)
  BY CommitSums DEF SumInv, MoneyInv
<1>4. \A w : EntrySum(w) \in Int /\ CreditsOf(w) \in Int
  BY <1>3, SumTypes DEF IInv
<1>5. /\ input[c].amount \in Int /\ input[c].amount >= 0
      /\ input[c].wallet \in Wallets
      /\ Delta(input[c]) = IF input[c].type = "DEBIT" THEN -input[c].amount
                                                       ELSE input[c].amount
      /\ NextBalance(c) = seen[c] + Delta(input[c])
      /\ \A d \in Calls : seen[d] \in Int
      /\ \A w \in Wallets : balance[w] \in Int
  BY <1>1, InputFields DEF IInv, TypeOK, AmountChecked, Delta, NextBalance
<1>6. \A w : CreditsOf(w) <= CreditsOf(w)'
  <2> SUFFICES ASSUME NEW w PROVE CreditsOf(w) <= CreditsOf(w)'
    OBVIOUS
  <2> QED
    BY <1>3, <1>4, <1>5
<1>7. BalanceBackedByCredits'
  <2> SUFFICES ASSUME NEW w \in Wallets PROVE balance'[w] <= CreditsOf(w)'
    BY DEF BalanceBackedByCredits
  <2>1. CASE input[c].wallet = w
    <3>1. seen[c] <= CreditsOf(w)
      BY <1>1, <2>1 DEF SumInv, MoneyInv, Holding
    <3> QED
      BY <1>2, <1>3, <1>4, <1>5, <2>1, <3>1
  <2>2. CASE input[c].wallet # w
    BY <1>2, <1>4, <1>5, <1>6, <1>3, <2>2 DEF SumInv, MoneyInv, BalanceBackedByCredits
  <2> QED
    BY <2>1, <2>2
<1>8. MoneyInv'
  <2>1. ASSUME NEW d \in Calls, NEW w \in Wallets, pc'[d] \in Holding,
               input'[d].wallet = w
        PROVE  seen'[d] <= CreditsOf(w)'
    <3>1. pc[d] \in Holding /\ seen'[d] = seen[d] /\ input[d].wallet = w
      BY <1>1, <2>1 DEF Holding
    <3>2. seen[d] <= CreditsOf(w)
      BY <3>1 DEF SumInv, MoneyInv
    <3>3. CreditsOf(w) \in Int /\ CreditsOf(w)' \in Int
      BY <1>3, <1>4, <1>5
    <3> QED
      BY <1>5, <1>6, <3>1, <3>2, <3>3
  <2> QED
    BY <1>3, <1>7, <2>1 DEF MoneyInv
<1>9. ExactUnlessContended'
  <2> SUFFICES ASSUME NEW w \in Wallets \ contended PROVE balance'[w] = EntrySum(w)'
    BY <1>1 DEF ExactUnlessContended
  <2>1. balance[w] = EntrySum(w)
    BY DEF SumInv, ExactUnlessContended
  <2>2. input[c].wallet = w => seen[c] = balance[w]
    BY <1>1 DEF SumInv, ExactInv, Holding
  <2> QED
    BY <1>2, <1>3, <1>4, <1>5, <2>1, <2>2
<1>10. ExactInv'
  <2> SUFFICES ASSUME NEW d \in Calls, NEW w \in Wallets \ contended,
                      pc'[d] \in Holding, input[d].wallet = w
               PROVE  /\ seen[d] = balance'[w]
                      /\ \A e \in Calls :
                            pc'[e] \in Holding /\ input[e].wallet = w => e = d
    BY <1>1 DEF ExactInv
  <2>1. d # c /\ pc[d] \in Holding /\ pc[c] \in Holding
    BY <1>1 DEF Holding
  <2>2. input[c].wallet # w
    BY <2>1 DEF SumInv, ExactInv
  <2> QED
    BY <1>1, <1>2, <2>1, <2>2 DEF SumInv, ExactInv, Holding
<1> QED
  BY <1>8, <1>9, <1>10 DEF SumInv

\* Every step keeps SumInv.
LEMMA NextSums == IInv /\ SumInv /\ [Next]_vars => SumInv'
<1> SUFFICES ASSUME IInv, SumInv, [Next]_vars PROVE SumInv'
  OBVIOUS
<1>0. ASSUME NEW c \in Calls, RollBack(c) PROVE SumInv'
  <2>1. \A d \in Calls : pc'[d] \in Holding => pc[d] \in Holding
    BY <1>0 DEF RollBack, Return, Goto, IInv, TypeOK, Holding
  <2> QED
    BY <1>0, <2>1, CallLeaves DEF RollBack
<1>1. ASSUME NEW w \in Wallets, EnsureWallet(w) PROVE SumInv'
  BY <1>1, CallLeaves DEF EnsureWallet
<1>2. ASSUME NEW c \in Calls, Post(c) PROVE SumInv'
  <2>1. CASE CheckAmount(c)
    <3>1. CASE RollBack(c)
      BY <1>0, <3>1
    <3>2. CASE ~RollBack(c)
      <4>1. \A d \in Calls : pc'[d] \in Holding => pc[d] \in Holding
        BY <2>1, <3>2 DEF CheckAmount, Goto, IInv, TypeOK, Holding
      <4> QED
        BY <2>1, <3>2, <4>1, CallLeaves DEF CheckAmount
    <3> QED
      BY <3>1, <3>2
  <2>2. CASE FindReference(c)
    <3>1. \A d \in Calls : pc'[d] \in Holding => pc[d] \in Holding
      BY <2>2 DEF FindReference, Return, Goto, IInv, TypeOK, Holding
    <3> QED
      BY <2>2, <3>1, CallLeaves DEF FindReference
  <2>3. CASE FindWallet(c)
    BY <2>3, FindWalletSums
  <2>4. CASE RefuseWallet(c)
    BY <2>4, <1>0 DEF RefuseWallet
  <2>5. CASE InsertEntry(c)
    <3>1. \A d \in Calls : pc'[d] \in Holding => pc[d] \in Holding
      BY <2>5 DEF InsertEntry, Goto, IInv, TypeOK, Holding
    <3> QED
      BY <2>5, <3>1, CallLeaves DEF InsertEntry
  <2>6. CASE DuplicateKey(c)
    BY <2>6, <1>0 DEF DuplicateKey
  <2>7. CASE UpdateWallet(c)
    <3>1. \A d \in Calls : pc'[d] \in Holding => pc[d] \in Holding
      BY <2>7 DEF UpdateWallet, Goto, IInv, TypeOK, Holding
    <3> QED
      BY <2>7, <3>1, CallLeaves DEF UpdateWallet
  <2>8. CASE Commit(c)
    BY <2>8, CommitKeepsSums
  <2> QED
    BY <1>2, <2>1, <2>2, <2>3, <2>4, <2>5, <2>6, <2>7, <2>8 DEF Post
<1>3. ASSUME NEW c \in Calls, Abort(c) PROVE SumInv'
  BY <1>0, <1>3 DEF Abort
<1>4. CASE UNCHANGED vars
  BY <1>4, CallLeaves DEF vars
<1> QED
  BY <1>1, <1>2, <1>3, <1>4 DEF Next

\* SumInv holds throughout.
THEOREM SumInvariance == Spec => []SumInv
  BY InitSums, NextSums, Invariance, PTL DEF Spec

(***************************************************************************)
(* BalanceBackedByCredits: whatever calls of post interleave, crash or     *)
(* are lost, no balance exceeds the credits committed for its wallet.      *)
(***************************************************************************)
THEOREM NoMoneyInvented == Spec => []BalanceBackedByCredits
<1>1. SumInv => BalanceBackedByCredits
  BY DEF SumInv, MoneyInv
<1> QED
  BY <1>1, SumInvariance, PTL

(***************************************************************************)
(* ExactUnlessContended: a wallet on which no two calls overlapped has     *)
(* exactly the balance its entries add up to. post's read and write of a   *)
(* balance lose updates to overlapping calls only.                         *)
(***************************************************************************)
THEOREM ExactWhenAlone == Spec => []ExactUnlessContended
<1>1. SumInv => ExactUnlessContended
  BY DEF SumInv
<1> QED
  BY <1>1, SumInvariance, PTL
=============================================================================
