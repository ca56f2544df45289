---------------------------- MODULE EventDelivery ----------------------------
(***************************************************************************)
(* What the outbox promises for each event of a sink: at-least-once        *)
(* delivery with a bounded number of requests. An event waits, is tried,   *)
(* is confirmed only after the sink has it, or is given up; a confirmation *)
(* is taken back only when its own acknowledgement was lost. DecisionOutbox*)
(* implements this with one dispatcher.                                    *)
(***************************************************************************)
EXTENDS Integers

CONSTANTS Rows, MaxAttempts

VARIABLES
  state,   \* event -> none, waiting, confirmed or dead
  tries,   \* event -> requests made
  got      \* events their sink has accepted

vars == <<state, tries, got>>

Init ==
  /\ state = [r \in Rows |-> "none"]
  /\ tries = [r \in Rows |-> 0]
  /\ got = {}

Publish ==
  /\ \E new \in SUBSET {r \in Rows : state[r] = "none"} :
       state' = [r \in Rows |-> IF r \in new THEN "waiting" ELSE state[r]]
  /\ UNCHANGED <<tries, got>>

Try(r) ==
  /\ state[r] = "waiting"
  /\ tries[r] < MaxAttempts
  /\ tries' = [tries EXCEPT ![r] = @ + 1]
  /\ got' \in {got, got \cup {r}}
  /\ UNCHANGED state

Confirm(r) ==
  /\ state[r] = "waiting" /\ r \in got
  /\ state' = [state EXCEPT ![r] = "confirmed"]
  /\ UNCHANGED <<tries, got>>

GiveUp(r) ==
  /\ state[r] = "waiting"
  /\ state' = [state EXCEPT ![r] = "dead"]
  /\ UNCHANGED <<tries, got>>

Doubt(r) ==
  /\ state[r] = "confirmed"
  /\ \E s \in {"waiting", "dead"} : state' = [state EXCEPT ![r] = s]
  /\ UNCHANGED <<tries, got>>

Next == Publish \/ \E r \in Rows : Try(r) \/ Confirm(r) \/ GiveUp(r) \/ Doubt(r)

Spec == Init /\ [][Next]_vars
=============================================================================
