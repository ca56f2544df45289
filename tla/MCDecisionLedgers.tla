------------------------- MODULE MCDecisionLedgers -------------------------
(***************************************************************************)
(* Three decisions: two of one correlation, to which an error event is     *)
(* appended as well, and one that is not audited.                          *)
(***************************************************************************)
EXTENDS DecisionLedgers, TLC

CONSTANTS f1, f2, w1, w2, w3, c1

MCOf   == w1 :> f1 @@ w2 :> f2 @@ w3 :> None
MCCorr == w1 :> c1 @@ w2 :> c1 @@ w3 :> c1
MCSize == w1 :> 3 @@ w2 :> 3 @@ w3 :> 1
=============================================================================
