-------------------------- MODULE MCCarbonAccount --------------------------
(***************************************************************************)
(* A limit of two commands with a grace of one, credits of one and two     *)
(* kilograms, and requests of every kind up to MaxArrivals of them.        *)
(***************************************************************************)
EXTENDS CarbonAccount

CONSTANTS k1, k2

MCAmount == k1 :> 1 @@ k2 :> 2
Symmetry == {f @@ g @@ h : f \in Permutations(Calls), g \in Permutations(Reports),
                           h \in Permutations(Ops)}
=============================================================================
