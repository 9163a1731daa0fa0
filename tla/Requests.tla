------------------------------ MODULE Requests ------------------------------
(***************************************************************************)
(* Requests being served at the same time: the process serves each of them *)
(* step by step, and between two steps (two awaited statements) it may     *)
(* serve any other.  A request that is being served is a frame: where it   *)
(* is, and what it holds of what it has read.                              *)
(***************************************************************************)
EXTENDS Naturals, FiniteSets

CONSTANTS
    Handlers,      \* requests served at the same time
    Agendas,       \* sets of operations: a behaviour is asked those of one of them
    MaxRequests,   \* bound: requests in one behaviour
    MaxFaults      \* bound: exceptions and crashes in one behaviour

ASSUME RequestsAssumption ==
    IsFiniteSet(Handlers) /\ MaxRequests \in Nat /\ MaxFaults \in Nat

VARIABLES
    frame,         \* what each handler is doing
    agenda,        \* what this behaviour is asked
    requests,      \* requests so far
    faults,        \* exceptions and crashes so far
    stale          \* history: the tables that were written from an old copy

counters == <<requests, faults, agenda>>
requestVars == <<frame, counters, stale>>

Idle == [at |-> "idle"]

RequestsInit ==
    /\ frame = [h \in Handlers |-> Idle]
    /\ agenda \in Agendas
    /\ requests = 0
    /\ faults = 0
    /\ stale = {}

At(h, step) == frame[h].at = step
Become(h, f) == frame' = [frame EXCEPT ![h] = f]
Goto(h, step) == Become(h, [frame[h] EXCEPT !.at = step])
Return(h) == Become(h, Idle)

\* A request arrives.
Begin(h, operation) ==
    /\ At(h, "idle")
    /\ operation \in agenda
    /\ requests < MaxRequests
    /\ requests' = requests + 1
    /\ UNCHANGED <<faults, agenda>>

\* A request that one statement answers.
Serve(h, operation) ==
    /\ Begin(h, operation)
    /\ UNCHANGED frame

\* The table is written: marked when the row is no longer what the writer read.
Mark(table, current) ==
    stale' = IF current THEN stale ELSE stale \cup {table}
=============================================================================
