----------------------------- MODULE MCBilling -----------------------------
(***************************************************************************)
(* Small instances of Billing for TLC.                                     *)
(***************************************************************************)
EXTENDS Billing, TLC

CONSTANTS h1, h2, cron, FREE, PRESENCE, GROWTH, sim, exp, evt, none

MCPlans == {FREE, PRESENCE, GROWTH}
TwoPlans == {FREE, PRESENCE}
MCPeriod == [p \in Plans |-> IF p = GROWTH THEN 2 ELSE 1]
MCExternalIds == {sim, exp, evt}
OneHandler == {h1}
TwoHandlers == {h1, h2}

EveryOperation ==
    {"checkout", "confirm", "fail", "cancel", "dashboard", "freePlan", "adminStatus",
     "submit", "review"}
SerialOperations ==
    (h1 :> EveryOperation \ {"cancel", "fail"}) @@ (cron :> {"job"})

\* A checkout, which the simulated gateway confirms, against a request that
\* confirms or fails the same payment or cancels the subscription.
ConcurrentOperations ==
    (h1 :> {"checkout"}) @@ (h2 :> {"confirm", "fail", "cancel"}) @@ (cron :> {"job"})

RetryOperations == (h1 :> {"checkout", "confirm"}) @@ (cron :> {})
ConfirmTwiceOperations ==
    [h \in TwoHandlers \cup {cron} |-> IF h = cron THEN {} ELSE {"checkout", "confirm"}]
FreeAgainOperations ==
    (h1 :> {"checkout", "confirm", "freePlan"}) @@ (cron :> {"job"})

HandlerSymmetry == Permutations(TwoHandlers)
=============================================================================
