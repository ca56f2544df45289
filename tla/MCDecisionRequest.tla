-------------------------- MODULE MCDecisionRequest --------------------------
(***************************************************************************)
(* A runtime and a scenario request of one key served by two processes,    *)
(* deliveries of one CloudEvent to two processes, and a prospect, which    *)
(* has no key and whose decision is made as that of a queue job.           *)
(***************************************************************************)
EXTENDS DekesHandoff

CONSTANTS runtime1, scenario, event1, event2, lead, p1, p2, k1, k2

Events    == {event1, event2}

MCEntry == [r \in Requests |-> CASE r \in Events -> "ingest"
                                 [] r = lead -> "adapter"
                                 [] OTHER -> "authorize"]
MCMode  == [r \in Requests |-> IF r = scenario THEN "scenario_planning"
                               ELSE "runtime_authorization"]
MCKey   == [r \in Requests |-> CASE r = lead -> NoKey
                                 [] r \in Events -> k2
                                 [] OTHER -> k1]
MCProc  == [r \in Requests |-> IF r \in {runtime1, event1} THEN p1 ELSE p2]
=============================================================================
