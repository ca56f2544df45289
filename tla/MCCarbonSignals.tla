-------------------------- MODULE MCCarbonSignals --------------------------
(***************************************************************************)
(* Two resolutions, each by any of the three callers, over four ticks: one *)
(* leaves something in the caches that the other may find, and they may    *)
(* overlap.  The times asked for and the times providers give lie up to a  *)
(* tick before or after now.  The age limit is a third of the last-known-  *)
(* good record's lifetime (an hour of six), buckets and the fuel mix copy  *)
(* last equally long (a quarter of an hour).                               *)
(***************************************************************************)
EXTENDS CarbonSignals, TLC

CONSTANTS r1, r2

\* The requests are told apart by nothing but their names.
Interchangeable == Permutations(Requests)
=============================================================================
