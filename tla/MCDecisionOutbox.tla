-------------------------- MODULE MCDecisionOutbox --------------------------
(***************************************************************************)
(* Instances of DecisionOutbox for TLC. One dispatcher: a single node that *)
(* only runs cron cycles, two batch slots so that a second cycle could     *)
(* start if the flag let it. Concurrent: two nodes, manual dispatches,     *)
(* requeues, crashes.                                                      *)
(***************************************************************************)
EXTENDS DecisionOutbox, TLC

CONSTANTS b1, b2, n1, n2

OneNode  == b1 :> n1 @@ b2 :> n1
TwoNodes == b1 :> n1 @@ b2 :> n2

SoleBudget       == [manual |-> 0, requeue |-> 0, toggle |-> 1, crash |-> 1, fault |-> 1]
ConcurrentBudget == [manual |-> 1, requeue |-> 1, toggle |-> 0, crash |-> 1, fault |-> 1]
=============================================================================
