-------------------------- MODULE DecisionPipeline --------------------------
(***************************************************************************)
(* One evaluation by createDecision (routes/ci.ts): from the candidates,   *)
(* ordered by score, to the action and the region that are returned.       *)
(*                                                                         *)
(* The water guardrail proposes; the SEKED adapter and then the external   *)
(* policy hook may overrule; the delay window and the doctrine's water cap *)
(* limit; the operating mode has the last word.  A behaviour is one        *)
(* request, and an action is one stage.  Candidates are their rank by      *)
(* score, 1 the best.  Water is kept as the bands the stages compare it    *)
(* with; carbon, confidence and governance scores as the outcomes they     *)
(* allow.  Reason codes are left out.                                      *)
(***************************************************************************)
EXTENDS Integers

CONSTANTS
  Ranks,      \* number of candidate regions
  Seked,      \* deployments of the SEKED adapter: off, internal, remote
  External,   \* deployments of the external hook: off, remote
  Override    \* values of ECOBE_OPERATING_MODE_OVERRIDE, "none" if unset

Modes == {"NORMAL", "STRESS", "CRISIS"}

ASSUME PipelineAssumption ==
  /\ Ranks \in Nat \ {0}
  /\ Seked \subseteq {"off", "internal", "remote"}
  /\ External \subseteq {"off", "remote"}
  /\ Override \subseteq Modes \cup {"none"}

VARIABLES
  request,   \* the effective request, after the doctrine was applied to it
  water,     \* candidate -> its band of water stress, and whether it is a fallback
  stage,     \* the stage to come
  decision,  \* the action so far
  selected,  \* the candidate so far
  mode,      \* operating mode, once resolved
  ruling     \* history: none, answer or failsafe, whichever hook had effect last

inputs == <<request, water>>
vars   == <<inputs, stage, decision, selected, mode, ruling>>

Candidates == 1..Ranks
Actions    == {"run_now", "reroute", "delay", "throttle", "deny"}
Stages     == {"guardrail", "seked", "external", "limits", "mode", "done"}

\* Bands of waterStressIndex and scarcity impact: below both thresholds of the
\* profile, above delay, above deny, and a stress of 4.7, which denies in every
\* profile.  A region without water data gets a stress of 4.0.
Water == [band : {"low", "high", "extreme", "severe"}, fallback : BOOLEAN]
Signals == {w \in Water : w.fallback => w.band \in {"high", "extreme"}}

Request == [critical   : BOOLEAN,  \* criticality is critical
            allowDelay : BOOLEAN,
            window     : {"open", "closed"},  \* maxDelayMinutes and the deadline
            urgency    : {"none", "bottleneck", "critical_path"},
            strict     : BOOLEAN,  \* the profile is strict, for guardrail and hooks
            doubtful   : BOOLEAN,  \* carbonConfidence of candidate 1 is below 0.25
            waterCap   : BOOLEAN]  \* the doctrine's rule denyHighWaterStress

-----------------------------------------------------------------------------
\* What holds a request back: strictFailureAction, the guardrail and a red zone
\* go by allowDelay, the rest by the delay window.
Held == IF request.critical THEN "throttle" ELSE IF request.allowDelay THEN "delay" ELSE "deny"

MayDelay == request.allowDelay /\ request.urgency # "critical_path" /\ request.window = "open"

NonDelay == IF request.critical THEN "throttle" ELSE "deny"
HeldBack == IF MayDelay THEN "delay" ELSE NonDelay

Protected == request.urgency # "none"

\* evaluateWaterGuardrail on water w, with f for fallbackUsed.
Guarded(w, f)   == IF w.band # "low" \/ (f /\ request.strict) THEN Held ELSE "run_now"
HardBlock(w, f) == \/ f /\ request.strict
                   \/ w.band \in {"extreme", "severe"}
                   \/ w.band = "high" /\ Held = "deny"

Blocked(c) == HardBlock(water[c], water[c].fallback)  \* guardrailCandidateBlocked

\* Mutant of Open: candidate 1 is open whatever its water.
OpenWithFirst == {c \in Candidates : c = 1 \/ ~Blocked(c)}

Open       == {c \in Candidates : ~Blocked(c)}
Best(S)    == CHOOSE c \in S : \A d \in S : c <= d

-----------------------------------------------------------------------------
Init ==
  /\ request \in Request
  /\ water \in [Candidates -> Signals]
  /\ stage = "guardrail"
  /\ decision = "run_now"
  /\ selected = 1
  /\ mode = "none"
  /\ ruling = "none"

\* The best candidate, or the best one that is not blocked, or no safe region.
Proposal ==
  LET f    == water[1].fallback \/ request.doubtful
      hard == HardBlock(water[1], f)
  IN  CASE hard /\ Open = {} -> [region |-> 1, action |-> HeldBack]
        [] hard /\ Open # {} /\ Best(Open) # 1 -> [region |-> Best(Open), action |-> "reroute"]
        [] hard /\ Open # {} /\ Best(Open) = 1 ->
             [region |-> 1, action |-> IF Protected THEN "reroute" ELSE Held]
        [] ~hard -> [region |-> 1, action |-> Guarded(water[1], f)]

\* A critical request may be throttled for the carbon intensity of its region.
Guardrail ==
  /\ stage = "guardrail"
  /\ stage' = "seked"
  /\ selected' = Proposal.region
  /\ \/ decision' = Proposal.action
     \/ /\ Proposal.action = "run_now" /\ request.critical
        /\ decision' = "throttle"
  /\ UNCHANGED <<inputs, mode, ruling>>

-----------------------------------------------------------------------------
\* What a policy may direct: the candidates its denyRegions, maxWaterStress and
\* maxCarbonIntensity leave, forceRegion (0 if absent), action, and allow.
Directive == [keep : SUBSET Candidates, force : {0} \cup Candidates,
              action : Actions \cup {"none"}, allow : BOOLEAN]

Target(d) ==
  CASE d.force # 0 -> IF d.force \in d.keep THEN d.force ELSE 0
    [] d.force = 0 -> IF d.keep # {} THEN Best(d.keep) ELSE 0

\* applyPolicyDirectives: the region, then the action.
Apply(d) ==
  /\ selected' = IF Target(d) # 0 THEN Target(d) ELSE selected
  /\ decision' = CASE d.action # "none" -> d.action
                   [] d.action = "none" /\ ~d.allow -> HeldBack
                   [] d.action = "none" /\ d.allow ->
                        IF Target(d) = 0 THEN (IF request.strict THEN HeldBack ELSE decision)
                        ELSE IF d.force # 0 \/ Target(d) # selected THEN "reroute" ELSE decision
  /\ ruling' = "answer"
  /\ UNCHANGED <<inputs, mode>>

Passes == UNCHANGED <<inputs, decision, selected, mode, ruling>>

\* Mutant of Fails: the failsafe action is computed and not enforced.
FailsOpen ==
  /\ ruling' = IF request.strict THEN "failsafe" ELSE ruling
  /\ UNCHANGED <<inputs, decision, selected, mode>>

\* A hook that fails enforces strictFailureAction in a strict profile, and changes
\* nothing in another.
Fails ==
  \/ /\ request.strict
     /\ decision' = Held
     /\ ruling' = "failsafe"
     /\ UNCHANGED <<inputs, selected, mode>>
  \/ ~request.strict /\ Passes

\* evaluateInternalSekedPolicy: a zone the scores allow, and its directive.
Zones ==
  IF Blocked(selected) \/ water[selected].fallback \/ water[selected].band = "severe"
  THEN {"red"}
  ELSE IF decision = "delay" \/ (water[selected].band = "high" /\ ~request.strict)
  THEN {"red", "amber"}
  ELSE {"red", "amber", "green"}

Alternatives == Open \ {selected}

ZoneDirective(z) ==
  LET plain == [keep |-> Candidates, force |-> 0, action |-> "none", allow |-> z = "green"]
  IN  CASE z = "red" -> [plain EXCEPT !.action = Held]
        [] z = "amber" /\ Alternatives # {} ->
             [plain EXCEPT !.force = Best(Alternatives), !.action = "reroute"]
        [] z = "amber" /\ Alternatives = {} ->
             [plain EXCEPT !.action = IF request.allowDelay THEN "delay" ELSE "deny"]
        [] z = "green" -> plain

SekedPolicy ==
  /\ stage = "seked"
  /\ stage' = "external"
  /\ \/ "off" \in Seked /\ Passes
     \/ "internal" \in Seked /\ \E z \in Zones : Apply(ZoneDirective(z))
     \/ "remote" \in Seked /\ (Fails \/ \E d \in Directive : Apply(d))

ExternalPolicy ==
  /\ stage = "external"
  /\ stage' = "limits"
  /\ \/ "off" \in External /\ Passes
     \/ "remote" \in External /\ (Fails \/ \E d \in Directive : Apply(d))

-----------------------------------------------------------------------------
\* Mutant of Limits: the cap is only asked of work that would run.
LimitsRunning ==
  /\ stage = "limits"
  /\ stage' = "mode"
  /\ decision' = IF \/ decision = "delay" /\ ~MayDelay
                    \/ request.waterCap /\ water[selected].band = "severe" /\ decision = "run_now"
                 THEN NonDelay ELSE decision
  /\ UNCHANGED <<inputs, selected, mode, ruling>>

\* No delay outside the window, then no work where water stress is severe, if
\* the doctrine says so.
Limits ==
  /\ stage = "limits"
  /\ stage' = "mode"
  /\ decision' = IF \/ decision = "delay" /\ ~MayDelay
                    \/ request.waterCap /\ water[selected].band = "severe"
                 THEN NonDelay ELSE decision
  /\ UNCHANGED <<inputs, selected, mode, ruling>>

\* resolveOperatingMode: carbon fallback, disagreement and confidence of the
\* selected candidate may raise the mode above what water asks for.
Resolvable(o) ==
  IF o # "none" THEN {o}
  ELSE {m \in Modes : /\ water[selected].fallback \/ Open = {} => m = "CRISIS"
                      /\ HardBlock(water[1], water[1].fallback \/ request.doubtful) => m # "NORMAL"}

\* applyOperatingModePolicy: only run_now is taken back.
Adjusted(m) ==
  IF decision # "run_now" \/ Protected THEN decision
  ELSE CASE m = "NORMAL" -> decision
         [] m = "STRESS" -> IF ~request.critical /\ MayDelay THEN "delay" ELSE decision
         [] m = "CRISIS" -> IF request.critical THEN "throttle" ELSE HeldBack

OperatingMode ==
  /\ stage = "mode"
  /\ stage' = "done"
  /\ \E o \in Override : \E m \in Resolvable(o) : mode' = m /\ decision' = Adjusted(m)
  /\ UNCHANGED <<inputs, selected, ruling>>

Next == Guardrail \/ SekedPolicy \/ ExternalPolicy \/ Limits \/ OperatingMode

Spec == Init /\ [][Next]_vars
-----------------------------------------------------------------------------
TypeOK ==
  /\ request \in Request
  /\ water \in [Candidates -> Signals]
  /\ stage \in Stages
  /\ decision \in Actions
  /\ selected \in Candidates
  /\ mode \in Modes \cup {"none"}
  /\ ruling \in {"none", "answer", "failsafe"}

Executes == decision \in {"run_now", "reroute"}

\* Unless a policy has answered, nothing runs in a region its water guardrail
\* blocks, however it was selected and however urgent it is.
GuardrailStands ==
  stage = "done" /\ ruling # "answer" /\ Executes => ~Blocked(selected)

\* Whoever held the request back, it is only delayed where its window allows it.
DelayNeedsWindow == stage = "done" /\ decision = "delay" => MayDelay

\* A strict profile fails closed: what is enforced when a hook fails stands unless
\* a later hook answers.
StrictFailureStands ==
  stage = "done" /\ ruling = "failsafe" => decision \in {"delay", "throttle", "deny"}

\* No policy and no mode lifts the doctrine's water cap.
WaterCapStands ==
  stage = "done" /\ request.waterCap /\ water[selected].band = "severe" => decision = NonDelay

\* The engine throttles critical work; only a policy's answer denies it.
CriticalDenialDirected ==
  stage = "done" /\ request.critical /\ decision = "deny" => ruling = "answer"

\* What the doctrine says of water as a hard input: a target that fails its water
\* guardrails does not win the selection.
BlockedTargetNeverWins == stage = "done" /\ Executes => ~Blocked(selected)
=============================================================================
