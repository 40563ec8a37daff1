---------------------------- MODULE EgressProofs ----------------------------
(***************************************************************************)
(* An egress trial is complete, honest and about its own candidate.        *)
(*                                                                         *)
(* Scatter: the report is complete and honest for any number of targets    *)
(* and worker threads.  Every position is somewhere: not yet fetched, with *)
(* a worker, in the channel or in the report; and wherever a result is, it *)
(* is what check_target found at its own position.                         *)
(*                                                                         *)
(* Testbed: trials measure their own candidate unless their port was given *)
(* to another trial as well: the port is the only thing that ties a trial  *)
(* to its config file and to its core.                                     *)
(***************************************************************************)
EXTENDS Scatter, Testbed, FiniteSetTheorems, TLAPS

-----------------------------------------------------------------------------
(* The scatter.                                                            *)

Target == Operator \cup Site
Pc     == {"fetch", "check", "send", "done"}

\* The list is never a list of the same operator twice.
OperatorsOnce ==
  \A i, j \in DOMAIN work : work[i] \in Operator /\ work[i] = work[j] => i = j

Shape ==
  /\ work \in Seq(Target)
  /\ index \in Nat \ {0}
  /\ pc \in [Worker -> Pc] /\ item \in [Worker -> Nat] /\ verdict \in [Worker -> BOOLEAN]
  /\ channel \subseteq (DOMAIN work) \X BOOLEAN
  /\ DOMAIN ordered \subseteq DOMAIN work
  /\ main \in {"gather", "joined"}

Busy(w) == pc[w] \in {"check", "send"}

\* Workers work on positions of the list, and end when there are no more.
Working ==
  \A w \in Worker : /\ Busy(w) => item[w] \in DOMAIN work
                    /\ pc[w] = "done" => index > Len(work)

Covered ==
  \A i \in DOMAIN work :
    \/ index <= i
    \/ \E w \in Worker : Busy(w) /\ item[w] = i
    \/ \E c \in channel : c[1] = i
    \/ i \in DOMAIN ordered

Honest ==
  /\ \A w \in Worker : pc[w] = "send" /\ verdict[w] = TRUE => Verified(work[item[w]])
  /\ \A i \in DOMAIN work : <<i, TRUE>> \in channel => Verified(work[i])
  /\ \A i \in DOMAIN ordered : ordered[i] => Verified(work[i])

Closed == main = "joined" => channel = {} /\ SendersGone

ReportInv == Shape /\ OperatorsOnce /\ Working /\ Covered /\ Honest /\ Closed

-----------------------------------------------------------------------------
(* The list of targets.                                                    *)

\* A finite set has an enumeration, so SetToSeq is one.
LEMMA Enumerates ==
  ASSUME NEW S, IsFiniteSet(S)
  PROVE  /\ SetToSeq(S) \in Seq(S)
         /\ \A i, j \in DOMAIN SetToSeq(S) : SetToSeq(S)[i] = SetToSeq(S)[j] => i = j
<1> DEFINE n == Cardinality(S)
<1>1. n \in Nat
  BY FS_CardinalityType
<1>2. PICK f : f \in Bijection(1..n, S)
  BY FS_CardinalityType DEF ExistsBijection
<1>3. f \in [1..n -> S] /\ IsInjective(f)
  BY <1>2 DEF Bijection, Injection, IsInjective
<1>4. SetToSeq(S) \in [1..n -> S] /\ IsInjective(SetToSeq(S))
  BY <1>3 DEF SetToSeq
<1> QED  BY <1>1, <1>4 DEF IsInjective

LEMMA ListsOfTargets ==
  ASSUME NEW list \in TargetLists
  PROVE  /\ list \in Seq(Target)
         /\ \A i, j \in DOMAIN list : list[i] \in Operator /\ list[i] = list[j] => i = j
<1> DEFINE ops == SetToSeq(Operator)
<1>1. /\ ops \in Seq(Operator)
      /\ \A i, j \in DOMAIN ops : ops[i] = ops[j] => i = j
  BY Enumerates, ScatterConstants
<1>2. PICK sites : sites \in Samples /\ list = ops \o sites
  BY DEF TargetLists
<1>3. sites \in Seq(Site)
  <2>1. PICK s \in SUBSET Site : sites \in SetToSeqs(s)
    BY <1>2 DEF Samples, kSubset
  <2>2. Cardinality(s) \in Nat
    BY <2>1, ScatterConstants, FS_Subset, FS_CardinalityType
  <2> QED  BY <2>1, <2>2 DEF SetToSeqs
<1> HIDE DEF ops
<1> QED  BY <1>1, <1>2, <1>3, ScatterConstants DEF Target

-----------------------------------------------------------------------------
LEMMA ReportInit == Init => ReportInv
<1> SUFFICES ASSUME Init  PROVE ReportInv
  OBVIOUS
<1>1. work \in Seq(Target) /\ OperatorsOnce
  BY ListsOfTargets DEF Init, OperatorsOnce
<1>2. Shape
  BY <1>1 DEF Init, Shape, Pc
<1>3. Working /\ Covered /\ Honest /\ Closed
  BY <1>1 DEF Init, Working, Busy, Covered, Honest, Closed
<1> QED  BY <1>1, <1>2, <1>3 DEF ReportInv

LEMMA FetchSafe == ASSUME ReportInv, NEW w \in Worker, Fetch(w)  PROVE ReportInv'
<1> USE DEF ReportInv
<1>1. Shape'
  BY DEF Shape, Fetch, Pc
<1>2. OperatorsOnce'
  BY DEF OperatorsOnce, Fetch
<1>3. Working'
  BY DEF Working, Busy, Fetch, Shape, Exhausted
<1>4. Covered'
  <2> SUFFICES ASSUME NEW i \in DOMAIN work
               PROVE  \/ index' <= i
                      \/ \E v \in Worker : Busy(v)' /\ item'[v] = i
                      \/ \E c \in channel : c[1] = i
                      \/ i \in DOMAIN ordered
    BY DEF Covered, Fetch
  <2>1. CASE i = index
    BY <2>1 DEF Fetch, Busy, Shape, Exhausted
  <2>2. CASE \E v \in Worker : Busy(v) /\ item[v] = i
    BY <2>2 DEF Fetch, Busy, Shape
  <2>3. CASE index <= i /\ i # index
    <3>1. i \in Nat /\ index \in Nat  BY DEF Shape
    <3> QED  BY <2>3, <3>1 DEF Fetch
  <2> QED  BY <2>1, <2>2, <2>3 DEF Covered
<1>5. Honest'
  BY DEF Honest, Fetch, Shape, Verified
<1>6. Closed'
  BY DEF Closed, Fetch, Shape, SendersGone
<1> QED  BY <1>1, <1>2, <1>3, <1>4, <1>5, <1>6

LEMMA CheckSafe == ASSUME ReportInv, NEW w \in Worker, CheckTarget(w)  PROVE ReportInv'
<1> USE DEF ReportInv
<1>1. Shape'
  BY DEF Shape, CheckTarget, Pc, Verified
<1>2. OperatorsOnce'
  BY DEF OperatorsOnce, CheckTarget
<1>3. Working'
  BY DEF Working, Busy, CheckTarget, Shape
<1>4. Covered'
  BY DEF Covered, Busy, CheckTarget, Shape
<1>5. Honest'
  BY DEF Honest, CheckTarget, Shape, Verified
<1>6. Closed'
  BY DEF Closed, CheckTarget, Shape, SendersGone
<1> QED  BY <1>1, <1>2, <1>3, <1>4, <1>5, <1>6

LEMMA SendSafe == ASSUME ReportInv, NEW w \in Worker, SendCheck(w)  PROVE ReportInv'
<1> USE DEF ReportInv
<1>1. Shape'
  BY DEF Shape, SendCheck, Pc, Working, Busy
<1>2. OperatorsOnce'
  BY DEF OperatorsOnce, SendCheck
<1>3. Working'
  BY DEF Working, Busy, SendCheck, Shape
<1>4. Covered'
  <2> SUFFICES ASSUME NEW i \in DOMAIN work
               PROVE  \/ index <= i
                      \/ \E v \in Worker : Busy(v)' /\ item[v] = i
                      \/ \E c \in channel' : c[1] = i
                      \/ i \in DOMAIN ordered
    BY DEF Covered, SendCheck
  <2>1. CASE item[w] = i
    <3>1. <<i, verdict[w]>> \in channel'  BY <2>1 DEF SendCheck
    <3> QED  BY <3>1
  <2>2. CASE \E v \in Worker : v # w /\ Busy(v) /\ item[v] = i
    BY <2>2 DEF SendCheck, Busy, Shape
  <2>3. channel \subseteq channel'
    BY DEF SendCheck
  <2> QED  BY <2>1, <2>2, <2>3 DEF Covered
<1>5. Honest'
  BY DEF Honest, SendCheck, Shape, Verified
<1>6. Closed'
  BY DEF Closed, SendCheck, Shape, SendersGone
<1> QED  BY <1>1, <1>2, <1>3, <1>4, <1>5, <1>6

LEMMA GatherSafe == ASSUME ReportInv, Gather  PROVE ReportInv'
<1> USE DEF ReportInv
<1>1. PICK c \in channel :
        /\ channel' = channel \ {c}
        /\ ordered' = [i \in DOMAIN ordered \cup {c[1]} |-> IF i = c[1] THEN c[2] ELSE ordered[i]]
  BY DEF Gather
<1>2. c[1] \in DOMAIN work /\ c[2] \in BOOLEAN /\ c = <<c[1], c[2]>>
  BY <1>1 DEF Shape
<1>3. Shape'
  BY <1>1, <1>2 DEF Shape, Gather
<1>4. OperatorsOnce' /\ Working'
  BY DEF OperatorsOnce, Working, Busy, Gather
<1>5. Covered'
  BY <1>1 DEF Covered, Busy, Gather
<1>6. Honest'
  <2>1. /\ \A w \in Worker : pc'[w] = "send" /\ verdict'[w] = TRUE => Verified(work[item[w]])'
        /\ \A i \in DOMAIN work' : <<i, TRUE>> \in channel' => Verified(work[i])'
    BY <1>1 DEF Honest, Gather, Verified
  <2>2. c[2] = TRUE => Verified(work[c[1]])
    BY <1>1, <1>2 DEF Honest
  <2>3. ASSUME NEW i \in DOMAIN ordered', ordered'[i]  PROVE Verified(work[i])
    <3>1. CASE i = c[1]
      <4>1. c[2]  BY <1>1, <2>3, <3>1
      <4> QED  BY <4>1, <1>2, <2>2, <3>1
    <3>2. CASE i # c[1]
      BY <1>1, <2>3, <3>2 DEF Honest
    <3> QED  BY <3>1, <3>2
  <2>4. \A t : Verified(t)' <=> Verified(t)
    BY DEF Gather, Verified
  <2>5. work' = work
    BY DEF Gather
  <2>6. \A i \in DOMAIN ordered' : ordered'[i] => Verified(work[i])'
    BY <2>3, <2>4, <2>5
  <2> QED  BY <2>1, <2>6 DEF Honest
<1>7. Closed'
  BY DEF Closed, Gather
<1> QED  BY <1>3, <1>4, <1>5, <1>6, <1>7

LEMMA JoinSafe == ASSUME ReportInv, Join  PROVE ReportInv'
BY DEF ReportInv, Shape, OperatorsOnce, Working, Busy, Covered, Honest, Verified, Closed, Join, SendersGone

LEMMA ReportStep == ReportInv /\ [Next]_vars => ReportInv'
<1> SUFFICES ASSUME ReportInv, [Next]_vars  PROVE ReportInv'
  OBVIOUS
<1>1. CASE UNCHANGED vars
  BY <1>1 DEF vars, ReportInv, Shape, OperatorsOnce, Working, Busy, Covered, Honest, Verified, Closed, SendersGone
<1> QED
  BY <1>1, FetchSafe, CheckSafe, SendSafe, GatherSafe, JoinSafe DEF Next, Work

THEOREM ReportInvariant == Spec => []ReportInv
BY ReportInit, ReportStep, PTL DEF Spec

-----------------------------------------------------------------------------
\* When the channel is closed and the workers are joined, every position has its
\* check, so the panic on a missing one is unreachable.
THEOREM ReportIsComplete == Spec => []ReportComplete
<1>1. ReportInv => ReportComplete
  <2> SUFFICES ASSUME ReportInv, main = "joined"  PROVE DOMAIN ordered = DOMAIN work
    BY DEF ReportComplete
  <2>1. channel = {} /\ \A w \in Worker : pc[w] = "done"
    BY DEF ReportInv, Closed, SendersGone
  <2>2. index > Len(work)
    BY <2>1, ScatterConstants DEF ReportInv, Working
  <2>3. \A i \in DOMAIN work : ~(index <= i)
    BY <2>2 DEF ReportInv, Shape
  <2>4. DOMAIN work \subseteq DOMAIN ordered
    BY <2>1, <2>3 DEF ReportInv, Covered, Busy
  <2> QED  BY <2>4 DEF ReportInv, Shape
<1> QED  BY <1>1, ReportInvariant, PTL

\* A trial passes only on a quorum of distinct operators that answered as
\* expected: the counted positions of operators map one to one into them.
THEOREM QuorumHonest == Spec => []QuorumIsHonest
<1>1. ASSUME ReportInv  PROVE quorum_verified <= Cardinality(OperatorsAsExpected)
  <2> DEFINE S == {i \in Counted : work[i] \in Operator}
             f == [i \in S |-> work[i]]
  <2>1. \A i \in S : i \in DOMAIN work /\ work[i] \in OperatorsAsExpected
    BY <1>1 DEF ReportInv, Shape, Honest, Counted, Verified, OperatorsAsExpected, AsExpected
  <2>2. f \in Injection(S, OperatorsAsExpected)
    <3>1. f \in [S -> OperatorsAsExpected]
      BY <2>1
    <3>2. \A i, j \in S : f[i] = f[j] => i = j
      BY <1>1, <2>1 DEF ReportInv, OperatorsOnce
    <3> QED  BY <3>1, <3>2 DEF Injection, IsInjective
  <2>3. IsFiniteSet(OperatorsAsExpected)
    BY ScatterConstants, FS_Subset DEF OperatorsAsExpected
  <2> QED  BY <2>2, <2>3, FS_Injection DEF quorum_verified
<1>2. Cardinality(OperatorsAsExpected) \in Nat
  BY ScatterConstants, FS_Subset, FS_CardinalityType DEF OperatorsAsExpected
<1>3. ASSUME ReportInv  PROVE quorum_verified \in Nat
  <2> DEFINE S == {i \in Counted : work[i] \in Operator}
  <2>1. S \subseteq 1..Len(work) /\ Len(work) \in Nat
    BY <1>3 DEF ReportInv, Shape, Counted
  <2>2. IsFiniteSet(1..Len(work))
    BY <2>1, FS_Interval
  <2>3. IsFiniteSet(S)
    BY <2>1, <2>2, FS_Subset
  <2> QED  BY <2>3, FS_CardinalityType DEF quorum_verified
<1>4. ReportInv => QuorumIsHonest
  BY <1>1, <1>2, <1>3, ScatterConstants DEF QuorumIsHonest, passes
<1> QED  BY <1>4, ReportInvariant, PTL

\* Both together: every target has its check, and a pass is a real quorum, for
\* any number of targets and workers and any order of results.
THEOREM ReportIsSound == Spec => []ReportSound
BY ReportIsComplete, QuorumHonest, PTL DEF ReportSound

-----------------------------------------------------------------------------
(* The testbed.                                                            *)

TrialPlace == {"idle", "picked", "created", "staged", "checked", "written", "waiting", "ready", "drop"}

TrialShape ==
  /\ stage \in [Thread -> TrialPlace]
  /\ node \in [Thread -> Node \cup {None}] /\ port \in [Thread -> Port \cup {None}]
  /\ file \in [Port -> Node \cup {None}]
  /\ core \in [Thread -> {"none", "starting", "up", "dead"}]
  /\ serves \in [Thread -> Node \cup {None}]
  /\ listener \in [Port -> Thread \cup {None}]
  /\ measured \in [Thread -> Node \cup {None}] /\ shared \subseteq Thread

\* A trial under way has a port, and nobody else has it unless both are marked.
OwnPort ==
  /\ \A t \in Thread : stage[t] # "idle" => port[t] \in Port
  /\ \A t, u \in Thread : t # u /\ port[t] # None /\ port[t] = port[u] => t \in shared

\* Its file has its configuration from the moment it is written.
OwnFile ==
  \A t \in Thread :
    /\ core[t] # "none" => stage[t] \in {"waiting", "ready", "drop"}
    /\ t \notin shared /\ (stage[t] \in {"written", "waiting", "ready"} \/ core[t] = "starting")
         => file[port[t]] = node[t]

\* Whoever listens on a port has been given it and dials through its candidate.
OwnCore ==
  \A p \in Port : listener[p] # None =>
    /\ port[listener[p]] = p /\ core[listener[p]] = "up"
    /\ listener[p] \notin shared => serves[listener[p]] = node[listener[p]]

\* A report exists only between the measurement and the end of the trial.
OwnReport == \A t \in Thread : measured[t] # None => stage[t] = "drop"

Own == TrialShape /\ OwnReport /\ OwnPort /\ OwnFile /\ OwnCore /\ MeasuresOwnNode

LEMMA OwnInit == ASSUME TestbedInit PROVE Own
  BY TestbedConstants DEF TestbedInit, Own, TrialShape, TrialPlace, OwnReport, OwnPort, OwnFile,
         OwnCore, MeasuresOwnNode

LEMMA OwnNext == ASSUME Own, [TestbedNext]_testbedVars PROVE Own'
<1> USE TestbedConstants DEF Own, TrialShape, TrialPlace, OwnReport
<1>1. ASSUME NEW t \in Thread, NEW n \in Node, PickPort(t, n) PROVE Own'
  <2>1. PICK p \in Port :
          /\ listener[p] = None
          /\ port' = [port EXCEPT ![t] = p]
          /\ shared' = IF {u \in Thread : port[u] = p} = {} THEN shared
                       ELSE shared \cup {u \in Thread : port[u] = p} \cup {t}
    BY <1>1 DEF PickPort, Ephemeral
  <2>2. /\ stage[t] = "idle" /\ stage' = [stage EXCEPT ![t] = "picked"]
        /\ node' = [node EXCEPT ![t] = n]
        /\ UNCHANGED <<file, core, serves, listener, measured>>
    BY <1>1 DEF PickPort, Goto, child
  <2>3. core[t] = "none" /\ \A q \in Port : listener[q] # t
    BY <2>2 DEF OwnFile, OwnCore
  <2>4. measured[t] = None
    BY <2>2
  <2>5. TrialShape' /\ OwnReport' /\ OwnPort'
    BY <2>1, <2>2 DEF OwnPort
  <2>6. OwnFile' /\ OwnCore'
    BY <2>1, <2>2, <2>3 DEF OwnFile, OwnCore
  <2>7. MeasuresOwnNode'
    BY <2>1, <2>2, <2>4 DEF MeasuresOwnNode
  <2> QED BY <2>5, <2>6, <2>7
<1>2. ASSUME NEW t \in Thread, WriteConfig(t) PROVE Own'
  BY <1>2 DEF WriteConfig, Goto, ConfigFile, child,
              OwnPort, OwnFile, OwnCore, MeasuresOwnNode
<1>3. ASSUME NEW t \in Thread, SpawnCore(t) PROVE Own'
  BY <1>3 DEF SpawnCore, Goto, child,
              OwnPort, OwnFile, OwnCore, MeasuresOwnNode
<1>4. ASSUME NEW t \in Thread, CoreBinds(t) PROVE Own'
  BY <1>4 DEF CoreBinds, ConfigFile, OwnPort, OwnFile, OwnCore, MeasuresOwnNode
<1>5. ASSUME NEW t \in Thread, CoreDies(t) PROVE Own'
  BY <1>5 DEF CoreDies, OwnPort, OwnFile, OwnCore, MeasuresOwnNode
<1>6. ASSUME NEW t \in Thread, WaitUntilReady(t) PROVE Own'
  BY <1>6 DEF WaitUntilReady, Goto, child,
              OwnPort, OwnFile, OwnCore, MeasuresOwnNode
<1>7. ASSUME NEW t \in Thread, Measure(t) PROVE Own'
  <2>1. t \notin shared /\ listener[port[t]] # None => listener[port[t]] = t
    BY <1>7 DEF Measure, Goto, OwnPort, OwnCore
  <2> QED
    BY <1>7, <2>1 DEF Measure, Goto, child,
              OwnPort, OwnFile, OwnCore, MeasuresOwnNode
<1>8. ASSUME NEW t \in Thread, Finish(t) PROVE Own'
  BY <1>8 DEF Finish, Goto, OwnPort, OwnFile, OwnCore, MeasuresOwnNode
<1>9. ASSUME NEW t \in Thread,
              CreateCheck(t) \/ StageCheck(t) \/ CheckPasses(t) \/ CheckRejects(t)
              \/ BootFails(t)
       PROVE Own'
  BY <1>9 DEF CreateCheck, StageCheck, CheckPasses, CheckRejects,
               BootFails, Goto, child,
               OwnPort, OwnFile, OwnCore, MeasuresOwnNode
<1>10. CASE UNCHANGED testbedVars
  BY <1>10 DEF testbedVars, OwnPort, OwnFile, OwnCore, MeasuresOwnNode
<1> QED
  BY <1>1, <1>2, <1>3, <1>4, <1>5, <1>6, <1>7, <1>8, <1>9, <1>10 DEF TestbedNext, Trial

\* For any number of threads, candidates and ports: a trial whose port was given
\* to no other trial measures its own candidate.
THEOREM TrialsAreIndependent == TestbedSpec => []MeasuresOwnNode
<1>1. TestbedInit => Own
  BY OwnInit
<1>2. Own /\ [TestbedNext]_testbedVars => Own'
  BY OwnNext
<1>3. Own => MeasuresOwnNode
  BY DEF Own
<1> QED
  BY <1>1, <1>2, <1>3, PTL DEF TestbedSpec
=============================================================================
