---------------------------- MODULE ControlProofs ----------------------------
(***************************************************************************)
(* What holds of those who decide which node the core runs, for every      *)
(* catalog, threshold and interleaving: the egress watchdog (it does not   *)
(* flap, does not drop a tunnel that another node could have carried, and  *)
(* only a cycle the user overtook acts against the user's choice), the     *)
(* controller it calls (the critical section of switch_node, the truth of  *)
(* active_node), and the supervisor the controller calls (the file and the *)
(* core process that apply_config leaves behind).                          *)
(***************************************************************************)
EXTENDS Failover, Controller, Supervisor, FiniteSetTheorems, WellFoundedInduction, TLAPS

-----------------------------------------------------------------------------
(* The watchdog.                                                           *)

\* An escalation started outside the cooldown, and only the watchdog's own
\* switch, which ends the cycle, starts a new one.
EscalationInv ==
  /\ auto_age \in 0..Cooldown
  /\ goal = "escalate" => auto_age = Cooldown
  /\ pc = "degrade" => goal = "escalate"

LEMMA EscalationInvariant == Safety => []EscalationInv
<1>1. Init => EscalationInv
  BY FailoverConstants DEF Init, EscalationInv
<1>2. EscalationInv /\ [Next]_vars => EscalationInv'
  <2> SUFFICES ASSUME EscalationInv, [Next]_vars PROVE EscalationInv'
    OBVIOUS
  <2> USE FailoverConstants DEF EscalationInv, EndCycle, world, ctl, working
  <2>1. CASE BeginCycle BY <2>1 DEF BeginCycle
  <2>2. CASE StopsHere BY <2>2 DEF StopsHere
  <2>3. CASE Gate BY <2>3 DEF Gate
  <2>4. CASE ProbePasses BY <2>4 DEF ProbePasses
  <2>5. ASSUME NEW connections \in SUBSET Samples, ProbeFails(connections) PROVE EscalationInv'
    BY <2>5 DEF ProbeFails, InCooldown
  <2>6. CASE Rescore BY <2>6 DEF Rescore
  <2>7. CASE RescoreFails BY <2>7 DEF RescoreFails
  <2>8. ASSUME NEW n \in Node, Confirm(n) PROVE EscalationInv'
    BY <2>8 DEF Confirm
  <2>9. CASE AutoSwitch \/ SwitchFails BY <2>9 DEF AutoSwitch, SwitchFails
  <2>10. CASE GiveUp BY <2>10 DEF GiveUp
  <2>11. CASE Degrade BY <2>11 DEF Degrade
  <2>12. ASSUME NEW n \in Node, ManualSwitch(n) PROVE EscalationInv'
    BY <2>12 DEF ManualSwitch
  <2>13. CASE UserStop BY <2>13 DEF UserStop
  <2>14. CASE StopWatchdog BY <2>14 DEF StopWatchdog
  <2>15. CASE NodesChange BY <2>15 DEF NodesChange
  <2>16. CASE Tick BY <2>16 DEF Tick
  <2>17. CASE UNCHANGED vars BY <2>17 DEF vars
  <2> QED
    BY <2>1, <2>2, <2>3, <2>4, <2>5, <2>6, <2>7, <2>8, <2>9, <2>10, <2>11, <2>12, <2>13,
       <2>14, <2>15, <2>16, <2>17
    DEF Next, Cycle
<1> QED BY <1>1, <1>2, PTL DEF Safety

\* The watchdog neither replaces a failing node nor drops the tunnel during the
\* cooldown after its previous switch.
THEOREM NoFlapping == Safety => CooldownRespected
<1>1. EscalationInv /\ [Next]_vars => [Replaces \/ Degrades => ~InCooldown]_vars
  BY FailoverConstants DEF EscalationInv, Replaces, Degrades, InCooldown
<1> QED BY <1>1, EscalationInvariant, PTL DEF Safety, CooldownRespected

-----------------------------------------------------------------------------
\* While no candidate of an escalation has failed its second probe, what passed
\* its trial is among the candidates, the incumbent's label and the nodes that
\* are not sure of a trial apart.
OnOffer == {n \in trial \cap Fast : Label[n] # Label[seen]}
OfferInv ==
  /\ pc = "try" /\ goal = "escalate" /\ ~saw_a_passer => OnOffer \subseteq cand
  /\ pc = "degrade" => OnOffer = {}
  /\ pc = "rescore" => ~saw_a_passer
  /\ pc \in {"sleep", "gate", "probe"} => goal = "none" /\ ~saw_a_passer

\* The tunnel is dropped only when no other node that is sure of a trial passed it.
THEOREM DegradesForCause == Safety => []NoHastyDegrade
<1>1. Init => OfferInv
  BY FailoverConstants DEF Init, OfferInv
<1>2. OfferInv /\ [Next]_vars => OfferInv'
  <2> SUFFICES ASSUME OfferInv, [Next]_vars PROVE OfferInv'
    OBVIOUS
  <2> USE FailoverConstants DEF OfferInv, OnOffer, EndCycle, world, ctl, working
  <2>1. CASE BeginCycle BY <2>1 DEF BeginCycle
  <2>2. CASE StopsHere BY <2>2 DEF StopsHere
  <2>3. CASE Gate BY <2>3 DEF Gate
  <2>4. CASE ProbePasses BY <2>4 DEF ProbePasses
  <2>5. ASSUME NEW connections \in SUBSET Samples, ProbeFails(connections) PROVE OfferInv'
    BY <2>5 DEF ProbeFails
  <2>6. CASE Rescore
    <3>1. PICK f \in Shortlists : cand' = Retained(f)
      BY <2>6 DEF Rescore
    <3>2. up \cap Fast \subseteq f
      BY DEF Shortlists
    <3> QED BY <2>6, <3>1, <3>2 DEF Rescore, Retained
  <2>7. CASE RescoreFails BY <2>7 DEF RescoreFails
  <2>8. ASSUME NEW n \in Node, Confirm(n) PROVE OfferInv'
    BY <2>8 DEF Confirm
  <2>9. CASE AutoSwitch \/ SwitchFails BY <2>9 DEF AutoSwitch, SwitchFails
  <2>10. CASE GiveUp BY <2>10 DEF GiveUp
  <2>11. CASE Degrade BY <2>11 DEF Degrade
  <2>12. ASSUME NEW n \in Node, ManualSwitch(n) PROVE OfferInv'
    BY <2>12 DEF ManualSwitch
  <2>13. CASE UserStop BY <2>13 DEF UserStop
  <2>14. CASE StopWatchdog BY <2>14 DEF StopWatchdog
  <2>15. CASE NodesChange BY <2>15 DEF NodesChange
  <2>16. CASE Tick BY <2>16 DEF Tick
  <2>17. CASE UNCHANGED vars BY <2>17 DEF vars
  <2> QED
    BY <2>1, <2>2, <2>3, <2>4, <2>5, <2>6, <2>7, <2>8, <2>9, <2>10, <2>11, <2>12, <2>13,
       <2>14, <2>15, <2>16, <2>17
    DEF Next, Cycle
<1>3. OfferInv => NoHastyDegrade
  BY DEF OfferInv, OnOffer, NoHastyDegrade
<1> QED BY <1>1, <1>2, <1>3, PTL DEF Safety

-----------------------------------------------------------------------------
\* A cycle that may replace or drop a node has found the window over, or the user
\* has switched behind its back.
WindowInv ==
  /\ manual_age \in 0..Window
  /\ goal = "escalate" => PastGate
  /\ pc = "degrade" => goal = "escalate"
  /\ pc = "probe" \/ goal = "escalate" => manual_age = Window \/ overtaken

LEMMA WindowInvariant == Safety => []WindowInv
<1>0. Window \in Nat
  BY FailoverConstants
<1>1. Init => WindowInv
  BY <1>0 DEF Init, WindowInv
<1>2. WindowInv /\ [Next]_vars => WindowInv'
  <2> SUFFICES ASSUME WindowInv, [Next]_vars PROVE WindowInv'
    OBVIOUS
  <2> USE <1>0 DEF WindowInv, PastGate, EndCycle, world, ctl, working
  <2>1. CASE BeginCycle BY <2>1 DEF BeginCycle
  <2>2. CASE StopsHere BY <2>2 DEF StopsHere
  <2>3. CASE Gate BY <2>3 DEF Gate, HandsOff, InManualWindow
  <2>4. CASE ProbePasses BY <2>4 DEF ProbePasses
  <2>5. ASSUME NEW connections \in SUBSET Samples, ProbeFails(connections) PROVE WindowInv'
    BY <2>5 DEF ProbeFails
  <2>6. CASE Rescore BY <2>6 DEF Rescore
  <2>7. CASE RescoreFails BY <2>7 DEF RescoreFails
  <2>8. ASSUME NEW n \in Node, Confirm(n) PROVE WindowInv'
    BY <2>8 DEF Confirm
  <2>9. CASE AutoSwitch \/ SwitchFails BY <2>9 DEF AutoSwitch, SwitchFails
  <2>10. CASE GiveUp BY <2>10 DEF GiveUp
  <2>11. CASE Degrade BY <2>11 DEF Degrade
  <2>12. ASSUME NEW n \in Node, ManualSwitch(n) PROVE WindowInv'
    <3>1. PastGate => overtaken'
      BY <2>12, Zenon DEF ManualSwitch
    <3>2. pc' = pc /\ goal' = goal /\ manual_age' = 0
      BY <2>12 DEF ManualSwitch
    <3> QED BY <3>1, <3>2
  <2>13. CASE UserStop BY <2>13 DEF UserStop
  <2>14. CASE StopWatchdog BY <2>14 DEF StopWatchdog
  <2>15. CASE NodesChange BY <2>15 DEF NodesChange
  <2>16. CASE Tick BY <2>16 DEF Tick
  <2>17. CASE UNCHANGED vars BY <2>17 DEF vars
  <2> QED
    BY <2>1, <2>2, <2>3, <2>4, <2>5, <2>6, <2>7, <2>8, <2>9, <2>10, <2>11, <2>12, <2>13,
       <2>14, <2>15, <2>16, <2>17
    DEF Next, Cycle
<1> QED BY <1>1, <1>2, PTL DEF Safety

\* Within the manual window only a cycle the user overtook replaces the node or
\* drops the tunnel, for every catalog and every setting.
THEOREM LaterCyclesKeepOff == Safety => OnlyTheOvertaken
<1>1. WindowInv /\ [Next]_vars => [(Replaces \/ Degrades) /\ InManualWindow => overtaken]_vars
  BY FailoverConstants DEF WindowInv, Replaces, Degrades, InManualWindow
<1> QED BY <1>1, WindowInvariant, PTL DEF Safety, OnlyTheOvertaken

-----------------------------------------------------------------------------
\* run_failover_cycle keeps its counters within their caps and its copies within
\* the catalog, whatever the user does between its steps.
THEOREM WatchdogTypes == Safety => []TypeOK
<1>0. Required \in Nat /\ Required # 0 /\ Window \in Nat /\ Cooldown \in Nat
  BY FailoverConstants
<1>1. Init => TypeOK
  <2>1. Init => Copies    BY DEF Init, Copies
  <2>2. Init => Counters  BY <1>0 DEF Init, Counters
  <2> QED  BY <2>1, <2>2 DEF TypeOK
<1>2. TypeOK /\ [Next]_vars => TypeOK'
  <2> SUFFICES ASSUME TypeOK, [Next]_vars PROVE TypeOK'
    OBVIOUS
  <2> USE DEF TypeOK, EndCycle, world, ctl, working
  <2>1. CASE BeginCycle
    <3>1. Copies'    BY <2>1 DEF Copies, BeginCycle
    <3>2. Counters'  BY <2>1, <1>0 DEF Counters, BeginCycle
    <3> QED  BY <3>1, <3>2
  <2>2. CASE StopsHere
    <3>1. Copies'    BY <2>2 DEF Copies, StopsHere
    <3>2. Counters'  BY <2>2, <1>0 DEF Counters, StopsHere
    <3> QED  BY <3>1, <3>2
  <2>3. CASE Gate
    <3>1. Copies'    BY <2>3 DEF Copies, Gate
    <3>2. Counters'  BY <2>3, <1>0 DEF Counters, Gate
    <3> QED  BY <3>1, <3>2
  <2>4. CASE ProbePasses
    <3>1. Copies'    BY <2>4 DEF Copies, ProbePasses
    <3>2. Counters'  BY <2>4, <1>0 DEF Counters, ProbePasses
    <3> QED  BY <3>1, <3>2
  <2>5. ASSUME NEW connections \in SUBSET Samples, ProbeFails(connections) PROVE TypeOK'
    <3>1. Copies'    BY <2>5 DEF Copies, ProbeFails, Failed
    <3>2. Counters'  BY <2>5, <1>0 DEF Counters, ProbeFails, Failed
    <3> QED  BY <3>1, <3>2
  <2>6. CASE Rescore
    <3>1. Copies'    BY <2>6, FailoverConstants DEF Copies, Rescore, Shortlists, Retained
    <3>2. Counters'  BY <2>6, <1>0 DEF Counters, Rescore, Shortlists, Retained
    <3> QED  BY <3>1, <3>2
  <2>7. CASE RescoreFails
    <3>1. Copies'    BY <2>7 DEF Copies, RescoreFails
    <3>2. Counters'  BY <2>7, <1>0 DEF Counters, RescoreFails
    <3> QED  BY <3>1, <3>2
  <2>8. ASSUME NEW n \in Node, Confirm(n) PROVE TypeOK'
    <3>1. Copies'    BY <2>8 DEF Copies, Confirm
    <3>2. Counters'  BY <2>8, <1>0 DEF Counters, Confirm
    <3> QED  BY <3>1, <3>2
  <2>9. CASE AutoSwitch
    <3>1. Copies'    BY <2>9 DEF Copies, AutoSwitch, SwitchNode
    <3>2. Counters'  BY <2>9, <1>0 DEF Counters, AutoSwitch, SwitchNode
    <3> QED  BY <3>1, <3>2
  <2>10. CASE SwitchFails
    <3>1. Copies'    BY <2>10 DEF Copies, SwitchFails
    <3>2. Counters'  BY <2>10, <1>0 DEF Counters, SwitchFails
    <3> QED  BY <3>1, <3>2
  <2>11. CASE GiveUp
    <3>1. Copies'    BY <2>11 DEF Copies, GiveUp
    <3>2. Counters'  BY <2>11, <1>0 DEF Counters, GiveUp
    <3> QED  BY <3>1, <3>2
  <2>12. CASE Degrade
    <3>1. Copies'    BY <2>12 DEF Copies, Degrade
    <3>2. Counters'  BY <2>12, <1>0 DEF Counters, Degrade
    <3> QED  BY <3>1, <3>2
  <2>13. ASSUME NEW n \in Node, ManualSwitch(n) PROVE TypeOK'
    <3>1. Copies'    BY <2>13 DEF Copies, ManualSwitch, SwitchNode
    <3>2. Counters'  BY <2>13, <1>0 DEF Counters, ManualSwitch, SwitchNode
    <3> QED  BY <3>1, <3>2
  <2>14. CASE UserStop
    <3>1. Copies'    BY <2>14 DEF Copies, UserStop
    <3>2. Counters'  BY <2>14, <1>0 DEF Counters, UserStop
    <3> QED  BY <3>1, <3>2
  <2>15. CASE StopWatchdog
    <3>1. Copies'    BY <2>15 DEF Copies, StopWatchdog
    <3>2. Counters'  BY <2>15, <1>0 DEF Counters, StopWatchdog
    <3> QED  BY <3>1, <3>2
  <2>16. CASE NodesChange
    <3>1. Copies'    BY <2>16 DEF Copies, NodesChange
    <3>2. Counters'  BY <2>16, <1>0 DEF Counters, NodesChange
    <3> QED  BY <3>1, <3>2
  <2>17. CASE Tick
    <3>1. Copies'    BY <2>17 DEF Copies, Tick
    <3>2. Counters'  BY <2>17, <1>0 DEF Counters, Tick
    <3> QED  BY <3>1, <3>2
  <2>18. CASE UNCHANGED vars
    <3>1. Copies'    BY <2>18 DEF Copies, vars
    <3>2. Counters'  BY <2>18, <1>0 DEF Counters, vars
    <3> QED  BY <3>1, <3>2
  <2> QED
    BY <2>1, <2>2, <2>3, <2>4, <2>5, <2>6, <2>7, <2>8, <2>9,
       <2>10, <2>11, <2>12, <2>13, <2>14, <2>15, <2>16, <2>17, <2>18
    DEF Next, Cycle
<1> QED BY <1>1, <1>2, PTL DEF Safety
-----------------------------------------------------------------------------
(* The kernel's evidence.                                                  *)

\* What the kernel reports of a connection: counters and a time.
Statistics == [rtt: Nat, burst: Nat, total: Nat, unacked: Nat]

\* health_grade is a percentage.
LEMMA GradeRange == \A s \in Statistics : health_grade(s) \in 0..100
BY DEF Statistics, health_grade, Clamp, Least, Thresholds

\* Every deduction of health_grade has a cap: while no two statistics are past
\* their threshold, the grade stays at 70 or more.
LEMMA OneIsNotEnough ==
  ASSUME NEW s \in Statistics, health_grade(s) < 70
  PROVE  \E j, k \in Past(s) : j # k
<1> DEFINE slow    == IF s.rtt >= 1200 THEN Least(Least(s.rtt - 1200, 3000) \div 100, 40) ELSE 0
           burst   == IF s.burst >= 5 THEN 30 ELSE 0
           lossy   == IF s.total >= 12 THEN Least((s.total - 12) * 5, 30) ELSE 0
           backlog == IF s.unacked >= 64 THEN 20 ELSE 0
<1>1. health_grade(s) = Clamp(100 - slow - burst - lossy - backlog, 0, 100)
  BY DEF health_grade, Thresholds
<1>2. slow \in 0..30 /\ burst \in 0..30 /\ lossy \in 0..30 /\ backlog \in 0..20
  BY DEF Statistics, Least
<1>3. /\ slow # 0 => "rtt" \in Past(s)
      /\ burst # 0 => "burst" \in Past(s)
      /\ lossy # 0 => "total" \in Past(s)
      /\ backlog # 0 => "unacked" \in Past(s)
  BY DEF Past, Thresholds
<1> HIDE DEF slow, burst, lossy, backlog
<1>4. slow + burst + lossy + backlog > 30
  BY <1>1, <1>2 DEF Clamp, Least
<1>5. \/ slow # 0 /\ (burst # 0 \/ lossy # 0 \/ backlog # 0)
      \/ burst # 0 /\ (lossy # 0 \/ backlog # 0)
      \/ lossy # 0 /\ backlog # 0
  BY <1>2, <1>4
<1> QED  BY <1>3, <1>5

\* Every set of percentages that is not empty has a greatest one.
LEMMA GreatestGrade ==
  ASSUME NEW S \in SUBSET (0..100), S # {}
  PROVE  Max(S) \in S /\ \A x \in S : Max(S) >= x
<1> DEFINE T == {100 - x : x \in S}
<1>0. \A x \in S : x \in Int /\ 0 <= x /\ x <= 100
  OBVIOUS
<1>1. IsWellFoundedOn(OpToRel(<, Nat), Nat)
  BY NatLessThanWellFounded
<1>2. T \subseteq Nat /\ T # {}
  <2>1. \A x \in S : 100 - x \in Nat
    BY <1>0
  <2> QED  BY <2>1
<1>3. PICK m \in T : \A n \in T : ~(<<n, m>> \in OpToRel(<, Nat))
  <2> HIDE DEF T
  <2> QED  BY <1>1, <1>2, WFMin
<1>4. \A n \in T : ~(n < m)
  BY <1>2, <1>3 DEF OpToRel
<1>5. PICK x \in S : m = 100 - x
  OBVIOUS
<1>6. \A y \in S : 100 - y \in T
  OBVIOUS
<1>7. ASSUME NEW y \in S  PROVE x >= y
  <2>1. ~(100 - y < 100 - x)
    BY <1>4, <1>5, <1>6
  <2>2. x \in Int /\ y \in Int
    BY <1>0
  <2> QED  BY <2>1, <2>2
<1> QED  BY <1>7 DEF Max

\* tunnel_confirms_trouble cuts the count of failures short only if every
\* connection of a tunnel that has some is past two thresholds: for every floor up
\* to the grade one bad statistic leaves (the default is 35), every set of
\* statistics, and whatever the user does meanwhile.
THEOREM EvidenceNeeded ==
  ASSUME Floor <= 70, Samples \subseteq Statistics
  PROVE  Safety => OnlyOnEvidence
<1>1. ASSUME NEW connections \in SUBSET Samples, failures \in 0..Required,
             ProbeFails(connections), pc' = "rescore", failures + 1 < Required
      PROVE  connections # {} /\ \A c \in connections : Cardinality(Past(c)) >= 2
  <2> DEFINE grades == {health_grade(c) : c \in connections}
  <2>1. ConfirmsTrouble(connections, Floor)
    BY <1>1, FailoverConstants DEF ProbeFails, Needed, EndCycle
  <2>2. connections # {} /\ Max(grades) < Floor
    BY <2>1, FailoverConstants DEF ConfirmsTrouble, tunnel_health, NoEvidence
  <2>3. grades \in SUBSET (0..100) /\ grades # {}
    BY <2>2, GradeRange
  <2>4. Max(grades) \in 0..100 /\ \A x \in grades : Max(grades) >= x
    <3> HIDE DEF grades
    <3> QED  BY <2>3, GreatestGrade
  <2>5. ASSUME NEW c \in connections  PROVE Cardinality(Past(c)) >= 2
    <3>1. health_grade(c) < 70
      <4>1. health_grade(c) \in grades
        OBVIOUS
      <4> HIDE DEF grades
      <4>2. health_grade(c) \in Int /\ Max(grades) \in Int /\ Floor \in Int
        <5>1. \A g \in 0..100 : g \in Int
          OBVIOUS
        <5> QED  BY <5>1, <4>1, <2>3, <2>4, FailoverConstants
      <4> QED  BY <4>1, <4>2, <2>2, <2>4
    <3>2. PICK j, k \in Past(c) : j # k
      BY <3>1, OneIsNotEnough
    <3>3. IsFiniteSet(Past(c))
      <4>1. Past(c) \subseteq (({"rtt"} \cup {"burst"}) \cup {"total"}) \cup {"unacked"}
        BY DEF Past, Thresholds
      <4>2. IsFiniteSet((({"rtt"} \cup {"burst"}) \cup {"total"}) \cup {"unacked"})
        <5>1. \A S, x : IsFiniteSet(S) => IsFiniteSet(S \cup {x})
          BY FS_AddElement
        <5> QED  BY <5>1, FS_Singleton
      <4> QED  BY <4>1, <4>2, FS_Subset
    <3>4. Cardinality({j, k}) = 2
      <4>1. IsFiniteSet({j}) /\ Cardinality({j}) = 1 /\ k \notin {j}
        BY <3>2, FS_Singleton
      <4>2. Cardinality({j} \cup {k}) = Cardinality({j}) + 1
        BY <4>1, FS_AddElement
      <4>3. {j, k} = {j} \cup {k}
        OBVIOUS
      <4> QED  BY <4>1, <4>2, <4>3
    <3> QED  BY <3>2, <3>3, <3>4, FS_Subset, FS_CardinalityType
  <2> QED  BY <2>2, <2>5
<1>2. Counters /\ [Next]_vars =>
        [\A connections \in SUBSET Samples :
           ProbeFails(connections) /\ pc' = "rescore" /\ failures + 1 < Required =>
             connections # {} /\ \A c \in connections : Cardinality(Past(c)) >= 2]_vars
  BY <1>1 DEF Counters
<1>3. TypeOK => Counters
  BY DEF TypeOK
<1> QED  BY <1>2, <1>3, WatchdogTypes, PTL DEF Safety, OnlyOnEvidence

-----------------------------------------------------------------------------
(* The controller.                                                         *)

\* The controller's state is of its types.
THEOREM ControllerTypes == ControllerSpec => []ControllerTypeOK
<1>1. ControllerInit => ControllerTypeOK
  BY ControllerConstants DEF ControllerInit, ControllerTypeOK, Thread, Holding
<1>2. ControllerTypeOK /\ [ControllerNext]_controllerVars => ControllerTypeOK'
  <2> SUFFICES ASSUME ControllerTypeOK, [ControllerNext]_controllerVars PROVE ControllerTypeOK'
    OBVIOUS
  <2> USE DEF ControllerTypeOK, Thread, Holding, Goto
  <2>1. CASE DaemonReverts BY <2>1 DEF DaemonReverts
  <2>2. ASSUME NEW t \in Thread, NEW n \in Node, ApplyConfig(t, n) PROVE ControllerTypeOK'
    BY <2>2 DEF ApplyConfig
  <2>3. ASSUME NEW t \in Thread, EnableRouting(t) PROVE ControllerTypeOK'
    BY <2>3, ZenonT(30) DEF EnableRouting
  <2>4. ASSUME NEW t \in Thread, RecordActive(t) PROVE ControllerTypeOK'
    BY <2>4 DEF RecordActive
  <2>5. ASSUME NEW t \in Thread, FinishSwitch(t) PROVE ControllerTypeOK'
    BY <2>5 DEF FinishSwitch
  <2>6. ASSUME NEW t \in Thread, DisableRouting(t) PROVE ControllerTypeOK'
    BY <2>6 DEF DisableRouting
  <2>7. ASSUME NEW t \in Thread, StopCore(t) PROVE ControllerTypeOK'
    BY <2>7 DEF StopCore
  <2>8. ASSUME NEW t \in Thread, ClearActive(t) PROVE ControllerTypeOK'
    BY <2>8 DEF ClearActive
  <2>9. ASSUME NEW t \in Thread, FlagDegraded(t) PROVE ControllerTypeOK'
    BY <2>9 DEF FlagDegraded
  <2>10. CASE UNCHANGED controllerVars BY <2>10 DEF controllerVars
  <2> QED
    BY <2>1, <2>2, <2>3, <2>4, <2>5, <2>6, <2>7, <2>8, <2>9, <2>10
    DEF ControllerNext, Switch, TearDown
<1> QED BY <1>1, <1>2, PTL DEF ControllerSpec

-----------------------------------------------------------------------------
\* The mutex: at most one thread is between apply_config and the end of
\* switch_node.
Exclusive ==
  \A t, u \in Thread : place[t] \in Holding /\ place[u] \in Holding => t = u

OwnerInv == ControllerTypeOK /\ Exclusive /\ SwitchOwnsCore

LEMMA OwnerInvariant == ControllerSpec => []OwnerInv
<1>1. ControllerInit => OwnerInv
  BY ControllerConstants DEF ControllerInit, OwnerInv, ControllerTypeOK, Exclusive, SwitchOwnsCore, Thread, Holding
<1>2. OwnerInv /\ ControllerTypeOK' /\ [ControllerNext]_controllerVars => OwnerInv'
  <2> SUFFICES ASSUME OwnerInv, ControllerTypeOK', [ControllerNext]_controllerVars
               PROVE  Exclusive' /\ SwitchOwnsCore'
    BY DEF OwnerInv
  <2> USE DEF OwnerInv, ControllerTypeOK, Exclusive, SwitchOwnsCore, Thread, Holding, Goto
  <2>1. CASE DaemonReverts BY <2>1 DEF DaemonReverts
  <2>2. ASSUME NEW t \in Thread, NEW n \in Node, ApplyConfig(t, n)
        PROVE  Exclusive' /\ SwitchOwnsCore'
    BY <2>2 DEF ApplyConfig, LockFree
  <2>3. ASSUME NEW t \in Thread, EnableRouting(t) PROVE Exclusive' /\ SwitchOwnsCore'
    BY <2>3 DEF EnableRouting
  <2>4. ASSUME NEW t \in Thread, RecordActive(t) PROVE Exclusive' /\ SwitchOwnsCore'
    BY <2>4 DEF RecordActive
  <2>5. ASSUME NEW t \in Thread, FinishSwitch(t) PROVE Exclusive' /\ SwitchOwnsCore'
    BY <2>5 DEF FinishSwitch
  <2>6. ASSUME NEW t \in Thread, DisableRouting(t) PROVE Exclusive' /\ SwitchOwnsCore'
    BY <2>6 DEF DisableRouting
  <2>7. ASSUME NEW t \in Thread, StopCore(t) PROVE Exclusive' /\ SwitchOwnsCore'
    BY <2>7 DEF StopCore, LockFree
  <2>8. ASSUME NEW t \in Thread, ClearActive(t) PROVE Exclusive' /\ SwitchOwnsCore'
    BY <2>8 DEF ClearActive
  <2>9. ASSUME NEW t \in Thread, FlagDegraded(t) PROVE Exclusive' /\ SwitchOwnsCore'
    BY <2>9 DEF FlagDegraded
  <2>10. CASE UNCHANGED controllerVars BY <2>10 DEF controllerVars
  <2> QED
    BY <2>1, <2>2, <2>3, <2>4, <2>5, <2>6, <2>7, <2>8, <2>9, <2>10
    DEF ControllerNext, Switch, TearDown
<1> QED BY <1>1, <1>2, ControllerTypes, PTL DEF ControllerSpec

\* Between apply_config and the end of switch_node the core is the switch's own.
THEOREM OwnsCore == ControllerSpec => []SwitchOwnsCore
BY OwnerInvariant, PTL DEF OwnerInv

-----------------------------------------------------------------------------
\* What is recorded as active is what the core runs, also just before the
\* record is finished; a stopped core with a recorded node has its ClearActive
\* to come.
Recorded ==
  /\ ActiveIsServed
  /\ \A t \in Thread : place[t] = "finish" /\ ~torn => active \in {target[t], Off}

\* Whatever netd answers, active_node is the served node as soon as anything has
\* been recorded after a switch that netd failed.
THEOREM Served == ControllerSpec => []ActiveIsServed
<1>1. ControllerInit => Recorded
  BY ControllerConstants DEF ControllerInit, Recorded, ActiveIsServed, Thread, Holding
<1>2. OwnerInv /\ OwnerInv' /\ Recorded /\ [ControllerNext]_controllerVars => Recorded'
  <2> SUFFICES ASSUME OwnerInv, OwnerInv', Recorded, [ControllerNext]_controllerVars PROVE Recorded'
    OBVIOUS
  <2> USE ControllerConstants DEF Recorded, ActiveIsServed, LockFree, OwnerInv, ControllerTypeOK, Exclusive, SwitchOwnsCore,
          Thread, Holding, Goto
  <2>1. CASE DaemonReverts BY <2>1 DEF DaemonReverts
  <2>2. ASSUME NEW t \in Thread, NEW n \in Node, ApplyConfig(t, n) PROVE Recorded'
    BY <2>2 DEF ApplyConfig, NetdPresent
  <2>3. ASSUME NEW t \in Thread, EnableRouting(t) PROVE Recorded'
    BY <2>3 DEF EnableRouting
  <2>4. ASSUME NEW t \in Thread, RecordActive(t) PROVE Recorded'
    BY <2>4 DEF RecordActive
  <2>5. ASSUME NEW t \in Thread, FinishSwitch(t) PROVE Recorded'
    BY <2>5 DEF FinishSwitch
  <2>6. ASSUME NEW t \in Thread, DisableRouting(t) PROVE Recorded'
    BY <2>6 DEF DisableRouting
  <2>7. ASSUME NEW t \in Thread, StopCore(t) PROVE Recorded'
    BY <2>7 DEF StopCore
  <2>8. ASSUME NEW t \in Thread, ClearActive(t) PROVE Recorded'
    BY <2>8 DEF ClearActive
  <2>9. ASSUME NEW t \in Thread, FlagDegraded(t) PROVE Recorded'
    BY <2>9 DEF FlagDegraded
  <2>10. CASE UNCHANGED controllerVars BY <2>10 DEF controllerVars
  <2> QED
    BY <2>1, <2>2, <2>3, <2>4, <2>5, <2>6, <2>7, <2>8, <2>9, <2>10
    DEF ControllerNext, Switch, TearDown
<1>3. Recorded => ActiveIsServed BY DEF Recorded
<1> QED BY <1>1, <1>2, <1>3, OwnerInvariant, PTL DEF ControllerSpec

-----------------------------------------------------------------------------
(* The supervisor.                                                         *)

\* The supervisor's state keeps its types.
THEOREM SupervisorTypes == SupervisorSafety => []SupervisorTypeOK
<1> USE SupervisorConstants DEF SupervisorTypeOK, process
<1>1. SupervisorInit => SupervisorTypeOK
  BY DEF SupervisorInit
<1>2. SupervisorTypeOK /\ [SupervisorNext]_supervisorVars => SupervisorTypeOK'
  <2> SUFFICES ASSUME SupervisorTypeOK, [SupervisorNext]_supervisorVars PROVE SupervisorTypeOK'
    OBVIOUS
  <2>1. ASSUME NEW c \in Config, WriteConfig(c) PROVE SupervisorTypeOK'
    BY <2>1 DEF WriteConfig
  <2>2. CASE WriteFails \/ Validate
    BY <2>2 DEF WriteFails, FailedWrite, Validate
  <2>3. CASE Reload
    BY <2>3 DEF Reload, Hangup, Refused, Done
  <2>4. CASE Start
    BY <2>4 DEF Start, Refused, Done, CheckAnswer, ValidateConfig
  <2>5. CASE Restore
    BY <2>5 DEF Restore, Restored, FailedWrite, Hangup
  <2>6. CASE Stop \/ CoreReload \/ CoreDies
    BY <2>6 DEF Stop, CoreReload, CoreDies
  <2>7. CASE UNCHANGED supervisorVars
    BY <2>7 DEF supervisorVars
  <2>8. QED BY <2>1, <2>2, <2>3, <2>4, <2>5, <2>6, <2>7 DEF SupervisorNext, Apply
<1>3. QED BY <1>1, <1>2, PTL DEF SupervisorSafety

\* The core never runs a configuration that `sing-box check` refuses, whenever
\* it gets round to a SIGHUP and whatever the file holds by then.
THEOREM RunsOnlyValidated == SupervisorSafety => []RunsValidated
<1> USE SupervisorConstants DEF RunsValidated, process
<1>1. SupervisorInit => RunsValidated
  BY DEF SupervisorInit
<1>2. RunsValidated /\ [SupervisorNext]_supervisorVars => RunsValidated'
  BY DEF supervisorVars, SupervisorNext, Apply, WriteConfig, WriteFails, FailedWrite, Validate, Reload,
         Start, Restore, Stop, CoreReload, CoreDies, Refused, Done,
         CheckAnswer, ValidateConfig
<1>3. QED BY <1>1, <1>2, PTL DEF SupervisorSafety

-----------------------------------------------------------------------------
\* Until something fails by itself, a supervised core (alive or not yet reaped)
\* has a good file to come back to, and a core with no signal pending between
\* two calls runs the file.
FileInv ==
  /\ IsRunning /\ ~mishap => IF stage = "idle" THEN file \in Valid ELSE previous \in Valid
  /\ CoherentAtRest

\* Between calls the live core and the file on disk agree, refused swaps
\* included, unless a read, a write or a check has failed by itself since the last swap
\* that worked.
THEOREM Coherent == SupervisorSafety => []CoherentAtRest
<1> USE SupervisorConstants DEF FileInv, CoherentAtRest, IsRunning, process
<1>1. SupervisorInit => FileInv
  BY DEF SupervisorInit
<1>2. SupervisorTypeOK /\ FileInv /\ [SupervisorNext]_supervisorVars => FileInv'
  <2> SUFFICES ASSUME SupervisorTypeOK, FileInv, [SupervisorNext]_supervisorVars PROVE FileInv'
    OBVIOUS
  <2> USE DEF SupervisorTypeOK
  <2>1. ASSUME NEW c \in Config, WriteConfig(c) PROVE FileInv'
    BY <2>1 DEF WriteConfig
  <2>2. CASE WriteFails \/ Validate
    BY <2>2 DEF WriteFails, FailedWrite, Validate, CheckAnswer, ValidateConfig, Spurious
  <2>3. CASE Reload
    BY <2>3 DEF Reload, Hangup, Refused, Done, CheckAnswer, ValidateConfig
  <2>4. CASE Start
    BY <2>4 DEF Start, Refused, Done, CheckAnswer, ValidateConfig
  <2>5. CASE Restore
    BY <2>5 DEF Restore, Restored, FailedWrite, Hangup, CheckAnswer, ValidateConfig, Spurious
  <2>6. CASE Stop \/ CoreReload \/ CoreDies
    BY <2>6 DEF Stop, CoreReload, CoreDies
  <2>7. CASE UNCHANGED supervisorVars
    BY <2>7 DEF supervisorVars
  <2>8. QED BY <2>1, <2>2, <2>3, <2>4, <2>5, <2>6, <2>7 DEF SupervisorNext, Apply
<1>3. FileInv => CoherentAtRest
  OBVIOUS
<1>4. SupervisorSafety => []SupervisorTypeOK
  BY SupervisorTypes
<1>5. QED BY <1>1, <1>2, <1>3, <1>4, PTL DEF SupervisorSafety
=============================================================================
