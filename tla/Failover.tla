------------------------------ MODULE Failover ------------------------------
(***************************************************************************)
(* The egress watchdog: run_failover_cycle, run over and over by one       *)
(* thread while the user switches and stops the tunnel from another.  A    *)
(* cycle reads the active node first and then works on that copy through   *)
(* probes and trials that take minutes; the hooks it calls (probe,         *)
(* rescore, switch_node, degrade) are one step each, their inside being    *)
(* modules Controller and Supervisor.                                      *)
(*                                                                         *)
(* up is the truth about the network: the nodes that would pass the egress *)
(* quorum now.  A probe reports what is true when it runs.                 *)
(***************************************************************************)
EXTENDS ProxyController, Naturals, FiniteSets, Health

CONSTANTS
  None,            \* no node
  Label,           \* the nodes' labels: nothing makes them unique
  Dead,            \* nodes that never pass
  Reachable,       \* nodes whose socket answers the cheap sweep, passing or not
  Fast,            \* those of them that every sweep finds among the fastest Finalists
  Finalists,       \* PreflightConfig.finalists and rescore_limit: trials per rescore
  Required,        \* required_consecutive_failures
  Window,          \* min_time_since_manual_switch, in ticks
  Cooldown,        \* cooldown_after_auto_switch, in ticks
  Samples,         \* TCP statistics the kernel may report of a live connection
  Floor,           \* tunnel_health_floor
  AutoSelect,      \* auto_select_on_idle
  RescoreMayFail,  \* TRUE: reading the catalog or rescoring it may fail
  SwitchMayFail    \* TRUE: switch_node may fail

ASSUME FailoverConstants ==
  /\ None \notin Node /\ DOMAIN Label = Node
  /\ Dead \subseteq Node
  /\ Reachable \subseteq Node /\ Node \ Dead \subseteq Reachable
  /\ Fast \subseteq Reachable /\ Cardinality(Fast) <= Finalists
  /\ Finalists \in Nat /\ Required \in Nat \ {0}
  /\ Window \in Nat /\ Cooldown \in Nat /\ Floor \in 0..100
  /\ {AutoSelect, RescoreMayFail, SwitchMayFail} \subseteq BOOLEAN

VARIABLES
  up,                     \* the nodes that would pass the quorum
  manual_age, auto_age,   \* of the last switches, saturating; "never" is old
  failures,               \* status.consecutive_failures
  pc,                     \* where the cycle is
  seen,                   \* the cycle's copy of the active node
  goal,                   \* what the candidates are for: escalate, heal, adopt
  cand,                   \* candidates that passed their trial, yet to be tried
  saw_a_passer,
  chosen,                 \* the node to switch to
  stop,                   \* EgressWatchdog's stop flag
  streak,                 \* ghost: quorum failures in a row of the active node
  trial,                  \* ghost: the nodes up when the candidates were tried
  overtaken               \* ghost: the user has switched since this cycle's gate

world   == <<up, stop>>
ctl     == <<active, degraded, manual_age, auto_age>>
working == <<seen, goal, cand, saw_a_passer, chosen, trial, overtaken>>
vars    == <<world, ctl, failures, pc, working, streak>>

-----------------------------------------------------------------------------
Init ==
  /\ up \in SUBSET (Node \ Dead)
  /\ active = None /\ degraded = FALSE
  /\ manual_age = Window /\ auto_age = Cooldown
  /\ failures = 0 /\ streak = 0
  /\ pc = "sleep" /\ seen = None /\ goal = "none" /\ cand = {}
  /\ saw_a_passer = FALSE /\ chosen = None /\ trial = {} /\ overtaken = FALSE
  /\ stop = FALSE

\* The cycle returns; its locals are gone.
EndCycle ==
  /\ pc' = "sleep" /\ seen' = None /\ goal' = "none" /\ cand' = {}
  /\ saw_a_passer' = FALSE /\ chosen' = None /\ trial' = {} /\ overtaken' = FALSE

\* switch_node as seen from here.
SwitchNode(n) ==
  /\ active' = n
  /\ degraded' = FALSE
  /\ streak' = IF n = active THEN streak ELSE 0

-----------------------------------------------------------------------------
(* The start of a cycle.                                                   *)

\* The thread wakes up; the cycle reads active_node.
BeginCycle ==
  /\ pc = "sleep" /\ ~stop
  /\ pc' = "gate"
  /\ seen' = active
  /\ UNCHANGED <<world, ctl, failures, goal, cand, saw_a_passer, chosen, trial, overtaken, streak>>

StopsHere ==
  /\ pc = "sleep" /\ stop
  /\ pc' = "stopped"
  /\ UNCHANGED <<world, ctl, failures, working, streak>>

InManualWindow == manual_age < Window

\* Mutant of HandsOff: an idle tunnel is always left alone.
HandsOffIdle == IF seen = None THEN TRUE ELSE InManualWindow

\* Mutant of HandsOff: the user's window is not asked for.
HandsOffNever == seen = None /\ ~AutoSelect

\* Idle without auto mode, or inside the user's courtesy window.
HandsOff == IF seen = None THEN ~AutoSelect ELSE InManualWindow

\* The degraded flag, then the copy, then the manual window decide the path.
Gate ==
  /\ pc = "gate"
  /\ \/ /\ degraded
        /\ pc' = "rescore" /\ goal' = "heal"
        /\ UNCHANGED <<seen, cand, saw_a_passer, chosen, trial, overtaken>>
     \/ /\ ~degraded /\ seen = None /\ ~HandsOff
        /\ pc' = "rescore" /\ goal' = "adopt"
        /\ UNCHANGED <<seen, cand, saw_a_passer, chosen, trial, overtaken>>
     \/ ~degraded /\ HandsOff /\ EndCycle
     \/ /\ ~degraded /\ seen # None /\ ~HandsOff
        /\ pc' = "probe"
        /\ UNCHANGED working
  /\ UNCHANGED <<world, ctl, failures, streak>>

\* Consecutive failures needed: one when the kernel corroborates the trouble.
Needed(sick) == IF sick THEN 1 ELSE Required

InCooldown == auto_age < Cooldown

\* Mutant of Failed: a failure does not count.
FailedForgotten == 0

\* The counter, capped where it stops mattering.
Failed == IF failures < Required THEN failures + 1 ELSE failures

\* The quorum passed.  A due refresh of the shortlist only feeds the status.
ProbePasses ==
  /\ pc = "probe" /\ seen \in up
  /\ failures' = 0
  /\ streak' = IF seen = active THEN 0 ELSE streak
  /\ EndCycle
  /\ UNCHANGED <<world, ctl>>

\* Mutant of ProbeFails: the cooldown is not asked for.
ProbeFailsHot(connections) ==
  LET sick == ConfirmsTrouble(connections, Floor) IN
  /\ pc = "probe" /\ seen \notin up
  /\ failures' = Failed
  /\ streak' = IF seen = active /\ streak < Required THEN streak + 1 ELSE streak
  /\ \/ failures + 1 < Needed(sick) /\ EndCycle
     \/ /\ failures + 1 >= Needed(sick)
        /\ pc' = "rescore" /\ goal' = "escalate"
        /\ UNCHANGED <<seen, cand, saw_a_passer, chosen, trial, overtaken>>
  /\ UNCHANGED <<world, ctl>>

\* The quorum failed: wait (pre-arming the shortlist), cool down or escalate.
\* connections are those of the live tunnel, read after the probe.
ProbeFails(connections) ==
  LET sick == ConfirmsTrouble(connections, Floor) IN
  /\ pc = "probe" /\ seen \notin up
  /\ failures' = Failed
  /\ streak' = IF seen = active /\ streak < Required THEN streak + 1 ELSE streak
  /\ \/ (failures + 1 < Needed(sick) \/ InCooldown) /\ EndCycle
     \/ /\ failures + 1 >= Needed(sick) /\ ~InCooldown
        /\ pc' = "rescore" /\ goal' = "escalate"
        /\ UNCHANGED <<seen, cand, saw_a_passer, chosen, trial, overtaken>>
  /\ UNCHANGED <<world, ctl>>

-----------------------------------------------------------------------------
(* Candidates: tiered_shortlist and rank_working_nodes.                    *)

\* The sweep promotes the fastest reachable nodes to a trial; but for Fast it may
\* be others each time.  Only those that pass the trial are ranked.
Shortlists ==
  LET most == IF Finalists < Cardinality(Reachable) THEN Finalists ELSE Cardinality(Reachable)
  IN  {f \cap up : f \in {g \in SUBSET Reachable : Fast \subseteq g /\ Cardinality(g) = most}}

\* escalate drops the failed incumbent, by label.
Retained(f) ==
  IF goal = "escalate" THEN {n \in f : Label[n] # Label[seen]} ELSE f

Rescore ==
  /\ pc = "rescore"
  /\ \E f \in Shortlists : cand' = Retained(f)
  /\ trial' = up
  /\ pc' = "try"
  /\ UNCHANGED <<world, ctl, failures, seen, goal, saw_a_passer, chosen, overtaken, streak>>

RescoreFails ==
  /\ pc = "rescore" /\ RescoreMayFail
  /\ EndCycle
  /\ UNCHANGED <<world, ctl, failures, streak>>

\* The next candidate, in an order the selection cost decides, is probed a
\* second time; adopting takes the best as it is.
Confirm(n) ==
  /\ pc = "try" /\ n \in cand
  /\ cand' = cand \ {n}
  /\ IF goal = "adopt" \/ n \in up
     THEN chosen' = n /\ pc' = "switch" /\ UNCHANGED saw_a_passer
     ELSE saw_a_passer' = TRUE /\ UNCHANGED <<chosen, pc>>
  /\ UNCHANGED <<world, ctl, failures, seen, goal, trial, overtaken, streak>>

\* switch_node(candidate, automatic = true).
AutoSwitch ==
  /\ pc = "switch"
  /\ SwitchNode(chosen)
  /\ auto_age' = 0
  /\ failures' = 0
  /\ EndCycle
  /\ UNCHANGED <<world, manual_age>>

\* An error of switch_node ends the cycle, or in heal_or_stay_degraded moves on
\* to the next candidate.
SwitchFails ==
  /\ pc = "switch" /\ SwitchMayFail
  /\ IF goal = "heal"
     THEN pc' = "try" /\ chosen' = None
          /\ UNCHANGED <<seen, goal, cand, saw_a_passer, trial, overtaken>>
     ELSE EndCycle
  /\ UNCHANGED <<world, ctl, failures, streak>>

\* Mutant of GiveUp: failing the second probe is as good as failing the trial.
GiveUpHastily ==
  /\ pc = "try" /\ cand = {}
  /\ IF goal = "escalate"
     THEN pc' = "degrade" /\ UNCHANGED working
     ELSE EndCycle
  /\ UNCHANGED <<world, ctl, failures, streak>>

\* No candidate is left: only an escalation that saw no passer at all degrades.
GiveUp ==
  /\ pc = "try" /\ cand = {}
  /\ IF goal = "escalate" /\ ~saw_a_passer
     THEN pc' = "degrade" /\ UNCHANGED working
     ELSE EndCycle
  /\ UNCHANGED <<world, ctl, failures, streak>>

Degrade ==
  /\ pc = "degrade"
  /\ active' = None /\ degraded' = TRUE
  /\ failures' = 0 /\ streak' = 0
  /\ EndCycle
  /\ UNCHANGED <<world, manual_age, auto_age>>

-----------------------------------------------------------------------------
(* The user, the network and time.                                         *)

PastGate == pc \in {"probe", "rescore", "try", "switch", "degrade"}

ManualSwitch(n) ==
  /\ SwitchNode(n)
  /\ manual_age' = 0
  /\ overtaken' = (overtaken \/ PastGate)
  /\ UNCHANGED <<world, auto_age, failures, pc, seen, goal, cand, saw_a_passer, chosen, trial>>

UserStop ==
  /\ active # None
  /\ active' = None
  /\ streak' = 0
  /\ UNCHANGED <<world, degraded, manual_age, auto_age, failures, pc, working>>

StopWatchdog ==
  /\ ~stop
  /\ stop' = TRUE
  /\ UNCHANGED <<up, ctl, failures, pc, working, streak>>

NodesChange ==
  /\ up' \in SUBSET (Node \ Dead)
  /\ UNCHANGED <<stop, ctl, failures, pc, working, streak>>

Tick ==
  /\ manual_age' = IF manual_age < Window THEN manual_age + 1 ELSE manual_age
  /\ auto_age' = IF auto_age < Cooldown THEN auto_age + 1 ELSE auto_age
  /\ UNCHANGED <<world, active, degraded, failures, pc, working, streak>>

Cycle ==
  \/ BeginCycle \/ StopsHere \/ Gate \/ ProbePasses
  \/ (\E connections \in SUBSET Samples : ProbeFails(connections))
  \/ Rescore \/ RescoreFails \/ (\E n \in Node : Confirm(n))
  \/ AutoSwitch \/ SwitchFails \/ GiveUp \/ Degrade

Next ==
  \/ Cycle \/ Tick \/ NodesChange \/ StopWatchdog \/ UserStop
  \/ \E n \in Node : ManualSwitch(n)

\* The thread is scheduled, every hook has a timeout, and time passes.  Rescoring
\* and switching may fail any number of times, but not for ever.
Fairness ==
  /\ WF_vars(Cycle) /\ WF_vars(Tick)
  /\ SF_vars(Rescore) /\ SF_vars(AutoSwitch)

Safety == Init /\ [][Next]_vars
Spec   == Safety /\ Fairness

-----------------------------------------------------------------------------
Copies ==
  /\ up \subseteq Node /\ cand \subseteq Node /\ trial \subseteq Node
  /\ {active, seen, chosen} \subseteq Node \cup {None}
  /\ degraded \in BOOLEAN /\ stop \in BOOLEAN /\ saw_a_passer \in BOOLEAN
  /\ overtaken \in BOOLEAN
  /\ pc \in {"sleep", "gate", "probe", "rescore", "try", "switch", "degrade", "stopped"}
  /\ goal \in {"none", "heal", "adopt", "escalate"}

Counters ==
  /\ manual_age \in 0..Window /\ auto_age \in 0..Cooldown
  /\ failures \in 0..Required /\ streak \in 0..Required

\* The watchdog's state is of its types, its counters within their caps.
TypeOK == Copies /\ Counters

\* The watchdog's own steps: the user's leave pc alone.
Replaces == pc = "switch" /\ goal = "escalate" /\ pc' # pc /\ active' # active
Degrades == pc = "degrade" /\ pc' # pc
Acts     == pc \in {"switch", "degrade"} /\ pc' # pc /\ active' # active

\* Anti-flap: a failing node is never replaced, nor the tunnel dropped, until
\* the cooldown after the previous automatic switch is over, however many
\* cycles, probes and user actions lie in between.
CooldownRespected == [][Replaces \/ Degrades => ~InCooldown]_vars

\* The user's choice is safe from every cycle but one: within the manual window
\* a node is replaced, or the tunnel dropped, only by a cycle that was past its
\* look at the window when the user switched; no later cycle gets so far, however
\* old the failures it has counted.
OnlyTheOvertaken == [][(Replaces \/ Degrades) /\ InManualWindow => overtaken]_vars

\* The tunnel is dropped only if no node of another label passed its trial:
\* failing the second probe is no reason to drop it.  This is of the nodes that
\* are sure of a trial; of the others nothing is known (DirectOnlyWhenAllDead).
NoHastyDegrade == pc = "degrade" => \A n \in trial \cap Fast : Label[n] = Label[seen]

\* The statistics of a connection that are past their threshold.
Past(c) == {k \in DOMAIN Thresholds : c[k] >= Thresholds[k]}

\* tunnel_confirms_trouble: the kernel cuts the wait for a second failure short
\* only on evidence: the tunnel has connections, and each of them is bad in two
\* respects at least.  No one statistic, however bad, outweighs the rest, and one
\* sound connection of several is enough to wait.
OnlyOnEvidence ==
  [][\A connections \in SUBSET Samples :
       ProbeFails(connections) /\ pc' = "rescore" /\ failures + 1 < Required =>
         connections # {} /\ \A c \in connections : Cardinality(Past(c)) >= 2]_vars

\* A node that from some time on passes every probe.
Recovers(n) == <>[](n \in up)

\* Once some node that is fast enough to be tried every time works for good, the
\* tunnel does not stay down: an idle one is adopted, a degraded one healed,
\* whatever failed before.  A working node that more than Finalists (8 in the
\* code) reachable ones outrun may never be tried, and is no help.
TunnelComesBack ==
  (\E n \in Fast : Recovers(n)) => ((active = None) ~> (active # None \/ stop))

\* Once such a node, of another label, works for good, a node that never does is
\* not kept beyond the user's courtesy window.  (A namesake alone does not help:
\* escalate takes it for the failed node.)
DeadNodeReplaced ==
  \A d \in Dead :
    (\E n \in Fast : Label[n] # Label[d] /\ Recovers(n)) =>
       ((active = d) ~> (active # d \/ InManualWindow \/ stop))

\* FailoverConfig: "Never auto-act while a manual switch is younger than this":
\* what the user has just switched to is left alone.
ManualWindowHonoured == [][Acts /\ active # None => ~InManualWindow]_vars

\* The watchdog's header: "A node must fail quorum on consecutive cycles before
\* anything happens" to it.
ConsecutiveFailures ==
  [][(Replaces \/ Degrades) /\ seen = active => streak >= Required]_vars

\* README: "an independent second confirmation probe before every automatic
\* switch": the node passes when it is decided on, not only at its trial.
EverySwitchConfirmed == [][pc = "try" /\ pc' = "switch" => chosen' \in up]_vars

\* The watchdog's header: "we drop to direct internet only when every candidate
\* in the catalog is simultaneously dead".
DirectOnlyWhenAllDead == pc = "degrade" => trial = {}
=============================================================================
