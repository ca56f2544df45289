-------------------------- MODULE DoctrineAuthority --------------------------
(***************************************************************************)
(* What the doctrine control plane promises of one organization: a history *)
(* of settings that only grows, of which the last entry, and no other, is  *)
(* marked as in force.  The first entry is the default or an approved      *)
(* proposal; every later one is an approved proposal, or an earlier entry  *)
(* restored.  A database that does not enforce the single mark lets one    *)
(* proposal pass beside the default it follows; the next entry heals it.   *)
(***************************************************************************)
EXTENDS Naturals, Sequences

CONSTANTS Settings,  \* everything that can be proposed
          Default    \* the settings an organization starts with

VARIABLES history,   \* settings by version number
          marked,    \* the version numbers marked as in force
          unique     \* the database enforces that there is one at most

vars == <<history, marked, unique>>

Init ==
  /\ history \in {<<>>, <<Default>>}
  /\ marked = DOMAIN history
  /\ unique \in BOOLEAN

Enact(s) ==
  /\ history' = Append(history, s)
  /\ marked' = {Len(history) + 1}
  /\ UNCHANGED unique

EnactBeside(s) ==
  /\ ~unique
  /\ history = <<Default>>
  /\ history' = Append(history, s)
  /\ marked' = {1, 2}
  /\ UNCHANGED unique

Next ==
  \/ \E s \in Settings : Enact(s) \/ EnactBeside(s)
  \/ \E n \in DOMAIN history : Enact(history[n])
  \/ history = <<>> /\ Enact(Default)

Spec == Init /\ [][Next]_vars
=============================================================================
