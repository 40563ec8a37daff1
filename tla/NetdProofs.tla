----------------------------- MODULE NetdProofs -----------------------------
(* Proofs about the routing daemon, for any number of connections and        *)
(* configurations, any timeout and any set of failing commands.              *)
EXTENDS Netd, TLAPS

\* Every variable group, for steps that leave some of them alone.
USE DEF daemon, clock, local, kernel

LEMMA NextStepType == 1 \in Parts /\ \A i \in Parts : NextStep(i) \in Parts
  BY DEF NextStep, Parts

LEMMA TypeInit == Init => TypeOK
<1> USE NetdConstants, NextStepType DEF Init, Task, Idle, MaxAge
<1>1. Init => DaemonType  BY DEF DaemonType
<1>2. Init => TaskType    BY DEF TaskType
<1>3. Init => KernelType
  <2>1. Init => \A t \in Task : pc[t] \in {"sleep", "new"}  OBVIOUS
  <2>2. Init => policy \subseteq Config \X Parts  OBVIOUS
  <2>3. Init => crashes \in 0..MaxCrashes  OBVIOUS
  <2>4. QED BY <2>1, <2>2, <2>3 DEF KernelType
<1>4. Init => FlagType    BY DEF FlagType
<1>5. QED BY <1>1, <1>2, <1>3, <1>4 DEF TypeOK

LEMMA TypeStep == TypeOK /\ [Next]_vars => TypeOK'
<1> SUFFICES ASSUME TypeOK, [Next]_vars PROVE TypeOK'
  OBVIOUS
<1> USE NetdConstants
    DEF TypeOK, Task, Idle, Enabling, Undoing, Reverting, MaxAge, Goto, Forget
<1>1. ASSUME NEW s \in Session, Client(s) PROVE TypeOK'
  <2>1. CASE Handshake(s) \/ FrameError(s) \/ RejectRequest(s) \/ DisableRouting(s)
    <3>1. DaemonType'  BY <2>1 DEF DaemonType, TaskType, Handshake, FrameError, RejectRequest, DisableRouting
    <3>2. TaskType'  BY <2>1, NextStepType DEF DaemonType, TaskType, Handshake, FrameError, RejectRequest, DisableRouting
    <3>3. KernelType'  BY <2>1, NextStepType DEF TaskType, KernelType, Handshake, FrameError, RejectRequest, DisableRouting
    <3>4. FlagType'  BY <2>1 DEF FlagType, Handshake, FrameError, RejectRequest, DisableRouting
    <3>5. QED BY <3>1, <3>2, <3>3, <3>4
  <2>2. CASE EndOfStream(s)
    <3>1. DaemonType'  BY <2>2 DEF DaemonType, TaskType, EndOfStream
    <3>2. TaskType'  BY <2>2, NextStepType DEF DaemonType, TaskType, EndOfStream
    <3>3. KernelType'  BY <2>2, NextStepType DEF TaskType, KernelType, EndOfStream
    <3>4. FlagType'  BY <2>2 DEF FlagType, EndOfStream
    <3>5. QED BY <3>1, <3>2, <3>3, <3>4
  <2>3. ASSUME NEW c \in Config, ClaimController(s, c) PROVE TypeOK'
    <3>1. DaemonType'  BY <2>3 DEF DaemonType, TaskType, ClaimController
    <3>2. TaskType'  BY <2>3, NextStepType DEF DaemonType, TaskType, ClaimController
    <3>3. KernelType'  BY <2>3, NextStepType DEF TaskType, KernelType, ClaimController
    <3>4. FlagType'  BY <2>3 DEF FlagType, ClaimController
    <3>5. QED BY <3>1, <3>2, <3>3, <3>4
  <2>4. CASE Heartbeat(s)
    <3>1. DaemonType'  BY <2>4 DEF DaemonType, TaskType, Heartbeat
    <3>2. TaskType'  BY <2>4, NextStepType DEF DaemonType, TaskType, Heartbeat
    <3>3. KernelType'  BY <2>4, NextStepType DEF TaskType, KernelType, Heartbeat
    <3>4. FlagType'  BY <2>4 DEF FlagType, Heartbeat
    <3>5. QED BY <3>1, <3>2, <3>3, <3>4
  <2>5. QED BY <1>1, <2>1, <2>2, <2>3, <2>4 DEF Client
<1>2. ASSUME NEW s \in Session, Work(s) PROVE TypeOK'
  <2>1. CASE InstallPolicy(s)
    <3>1. DaemonType'  BY <2>1 DEF DaemonType, TaskType, InstallPolicy
    <3>2. step' \in [Task -> Parts] /\ UNCHANGED <<settings, closing>>
      <4>1. step' = [step EXCEPT ![s] = NextStep(step[s])] \/ step' = [step EXCEPT ![s] = 1]
        BY <2>1 DEF TaskType, InstallPolicy
      <4>2. step[s] \in Parts  BY DEF TaskType
      <4>3. step' \in [Task -> Parts]
        BY <4>1, <4>2, NextStepType DEF TaskType
      <4>4. QED BY <2>1, <4>3 DEF InstallPolicy
    <3>3. pc' \in [Task -> Idle \cup Enabling \cup Undoing \cup Reverting]
      BY <2>1 DEF TaskType, InstallPolicy
    <3>4. TaskType'  BY <3>2, <3>3 DEF TaskType
    <3>5. <<settings[s], step[s]>> \in Config \X Parts
      BY <2>1 DEF TaskType, KernelType, InstallPolicy
    <3>6. policy' \subseteq Config \X Parts
      BY <2>1, <3>5 DEF KernelType, InstallPolicy
    <3>7. \A t \in Task : pc'[t] = pc[t] \/ t = s
      BY <2>1 DEF TaskType, InstallPolicy
    <3>8. KernelType'
      BY <2>1, <3>5, <3>6, <3>7 DEF TaskType, KernelType, InstallPolicy
    <3>9. FlagType'  BY <2>1 DEF FlagType, InstallPolicy
    <3>10. QED BY <3>1, <3>4, <3>8, <3>9
  <2>2. CASE LoadRuleset(s)
    <3>1. DaemonType'  BY <2>2 DEF DaemonType, TaskType, LoadRuleset
    <3>2. TaskType'  BY <2>2, NextStepType DEF DaemonType, TaskType, LoadRuleset
    <3>3. KernelType'  BY <2>2, NextStepType DEF TaskType, KernelType, LoadRuleset
    <3>4. FlagType'  BY <2>2 DEF FlagType, LoadRuleset
    <3>5. QED BY <3>1, <3>2, <3>3, <3>4
  <2>3. CASE UndoPolicy(s)
    <3>1. DaemonType'  BY <2>3 DEF DaemonType, TaskType, UndoPolicy, RemovePart
    <3>2. TaskType'  BY <2>3, NextStepType DEF DaemonType, TaskType, UndoPolicy, RemovePart
    <3>3. KernelType'  BY <2>3, NextStepType DEF TaskType, KernelType, UndoPolicy, RemovePart
    <3>4. FlagType'  BY <2>3 DEF FlagType, UndoPolicy, RemovePart
    <3>5. QED BY <3>1, <3>2, <3>3, <3>4
  <2>4. CASE CommitRouting(s)
    <3>1. DaemonType'  BY <2>4 DEF DaemonType, TaskType, CommitRouting
    <3>2. TaskType'  BY <2>4, NextStepType DEF DaemonType, TaskType, CommitRouting
    <3>3. KernelType'  BY <2>4, NextStepType DEF TaskType, KernelType, CommitRouting
    <3>4. FlagType'  BY <2>4 DEF FlagType, CommitRouting
    <3>5. QED BY <3>1, <3>2, <3>3, <3>4
  <2>5. CASE ReleaseSession(s)
    <3>1. DaemonType'  BY <2>5 DEF DaemonType, TaskType, ReleaseSession, Released, AfterCleanup
    <3>2. TaskType'  BY <2>5, NextStepType DEF DaemonType, TaskType, ReleaseSession, Released, AfterCleanup
    <3>3. KernelType'  BY <2>5, NextStepType DEF TaskType, KernelType, ReleaseSession, Released, AfterCleanup
    <3>4. FlagType'  BY <2>5 DEF FlagType, ReleaseSession, Released, AfterCleanup
    <3>5. QED BY <3>1, <3>2, <3>3, <3>4
  <2>6. CASE SendResponse(s)
    <3>1. DaemonType'  BY <2>6 DEF DaemonType, TaskType, SendResponse
    <3>2. TaskType'  BY <2>6, NextStepType DEF DaemonType, TaskType, SendResponse
    <3>3. KernelType'  BY <2>6, NextStepType DEF TaskType, KernelType, SendResponse
    <3>4. FlagType'  BY <2>6 DEF FlagType, SendResponse
    <3>5. QED BY <3>1, <3>2, <3>3, <3>4
  <2>7. QED BY <1>2, <2>1, <2>2, <2>3, <2>4, <2>5, <2>6 DEF Work
<1>3. ASSUME NEW t \in Task, Rollback(t) PROVE TypeOK'
  <2>1. CASE ReadSettings(t)
    <3>1. DaemonType'  BY <2>1 DEF DaemonType, TaskType, ReadSettings
    <3>2. TaskType'  BY <2>1, NextStepType DEF DaemonType, TaskType, ReadSettings
    <3>3. KernelType'  BY <2>1, NextStepType DEF TaskType, KernelType, ReadSettings
    <3>4. FlagType'  BY <2>1 DEF FlagType, ReadSettings
    <3>5. QED BY <3>1, <3>2, <3>3, <3>4
  <2>2. CASE DeleteTable(t)
    <3>1. DaemonType'  BY <2>2 DEF DaemonType, TaskType, DeleteTable
    <3>2. TaskType'  BY <2>2, NextStepType DEF DaemonType, TaskType, DeleteTable
    <3>3. KernelType'  BY <2>2, NextStepType DEF TaskType, KernelType, DeleteTable
    <3>4. FlagType'  BY <2>2 DEF FlagType, DeleteTable
    <3>5. QED BY <3>1, <3>2, <3>3, <3>4
  <2>3. CASE RemovePolicy(t)
    <3>1. DaemonType'  BY <2>3 DEF DaemonType, TaskType, RemovePolicy, RemovePart
    <3>2. TaskType'  BY <2>3, NextStepType DEF DaemonType, TaskType, RemovePolicy, RemovePart
    <3>3. KernelType'  BY <2>3, NextStepType DEF TaskType, KernelType, RemovePolicy, RemovePart
    <3>4. FlagType'  BY <2>3 DEF FlagType, RemovePolicy, RemovePart
    <3>5. QED BY <3>1, <3>2, <3>3, <3>4
  <2>4. CASE ClearState(t)
    <3>1. DaemonType'  BY <2>4 DEF DaemonType, TaskType, ClearState, AfterCleanup
    <3>2. TaskType'  BY <2>4, NextStepType DEF DaemonType, TaskType, ClearState, AfterCleanup
    <3>3. KernelType'  BY <2>4, NextStepType DEF TaskType, KernelType, ClearState, AfterCleanup
    <3>4. FlagType'  BY <2>4 DEF FlagType, ClearState, AfterCleanup
    <3>5. QED BY <3>1, <3>2, <3>3, <3>4
  <2>5. QED BY <1>3, <2>1, <2>2, <2>3, <2>4 DEF Rollback
<1>4. CASE WatchdogCheck
  <2>1. DaemonType'  BY <1>4 DEF DaemonType, TaskType, WatchdogCheck
  <2>2. TaskType'  BY <1>4, NextStepType DEF DaemonType, TaskType, WatchdogCheck
  <2>3. KernelType'  BY <1>4, NextStepType DEF TaskType, KernelType, WatchdogCheck
  <2>4. FlagType'  BY <1>4 DEF FlagType, WatchdogCheck
  <2>5. QED BY <2>1, <2>2, <2>3, <2>4
<1>5. CASE Tick
  <2>1. DaemonType'  BY <1>5 DEF DaemonType, TaskType, Tick
  <2>2. TaskType'  BY <1>5, NextStepType DEF DaemonType, TaskType, Tick
  <2>3. KernelType'  BY <1>5, NextStepType DEF TaskType, KernelType, Tick
  <2>4. FlagType'  BY <1>5 DEF FlagType, Tick
  <2>5. QED BY <2>1, <2>2, <2>3, <2>4
<1>6. CASE Crash
  <2>1. DaemonType'  BY <1>6 DEF DaemonType, TaskType, Crash
  <2>2. TaskType'  BY <1>6, NextStepType DEF DaemonType, TaskType, Crash
  <2>3. KernelType'  BY <1>6, NextStepType DEF TaskType, KernelType, Crash
  <2>4. FlagType'  BY <1>6 DEF FlagType, Crash
  <2>5. QED BY <2>1, <2>2, <2>3, <2>4
<1>7. CASE UNCHANGED vars
  <2>1. DaemonType'  BY <1>7 DEF DaemonType, TaskType, vars
  <2>2. TaskType'  BY <1>7, NextStepType DEF DaemonType, TaskType, vars
  <2>3. KernelType'  BY <1>7, NextStepType DEF TaskType, KernelType, vars
  <2>4. FlagType'  BY <1>7 DEF FlagType, vars
  <2>5. QED BY <2>1, <2>2, <2>3, <2>4
<1>8. QED
  BY <1>1, <1>2, <1>3, <1>4, <1>5, <1>6, <1>7 DEF Next

\* The daemon's state, its tasks and the kernel's state keep their types
\* whatever the clients, the clock and the external commands do.
THEOREM TypeCorrect == Safety => []TypeOK
  BY TypeInit, TypeStep, PTL DEF Safety
-----------------------------------------------------------------------------
(* Ownership.                                                              *)

\* A session that saw its end of stream is cleaning up or gone.
ClosingInv == \A s \in closing : pc[s] \in Reverting \cup {"release", "closed"}

\* Between its ruleset being loaded and the next deletion of the table, an
\* owner's traffic is intercepted.  A task that has deleted the table has not
\* yet cleared the owner until it leaves "clear".
LoadedInv ==
  \A s \in Session :
     /\ active_session = s
     /\ pc[s] = "commit" \/ ~InEnable(s)
     /\ \A t \in Task : pc[t] \notin {"remove", "clear"}
     => nft

\* ... and when it only has to release, it owns nothing: an owner with routing
\* active rolls back instead, and there is no other kind of idle owner.
ReleaseInv == \A s \in closing : pc[s] = "release" => active_session # s

OwnerInv == ClosingInv /\ NoLockout /\ ReleaseInv

LEMMA OwnerStep == TypeOK /\ OwnerInv /\ [Next]_vars => OwnerInv'
<1> SUFFICES ASSUME TypeOK, OwnerInv, [Next]_vars PROVE OwnerInv'
  OBVIOUS
<1> USE NetdConstants
    DEF TypeOK, TaskType, OwnerInv, ClosingInv, NoLockout, ReleaseInv, InEnable, Task, Enabling, Undoing, Reverting, Goto
<1>1. ASSUME NEW s \in Session, Client(s) PROVE OwnerInv'
  <2>1. CASE Handshake(s) \/ FrameError(s) \/ RejectRequest(s) \/ DisableRouting(s)
    BY <2>1 DEF Handshake, FrameError, RejectRequest, DisableRouting
  <2>2. CASE EndOfStream(s)
    BY <2>2 DEF EndOfStream
  <2>3. ASSUME NEW c \in Config, ClaimController(s, c) PROVE OwnerInv'
    BY <2>3 DEF ClaimController
  <2>4. CASE Heartbeat(s)
    BY <2>4 DEF Heartbeat
  <2>5. QED BY <1>1, <2>1, <2>2, <2>3, <2>4 DEF Client
<1>2. ASSUME NEW s \in Session, Work(s) PROVE OwnerInv'
  <2>1. CASE InstallPolicy(s)
    BY <2>1 DEF InstallPolicy
  <2>2. CASE LoadRuleset(s)
    BY <2>2 DEF LoadRuleset
  <2>3. CASE UndoPolicy(s)
    BY <2>3 DEF UndoPolicy, RemovePart
  <2>4. CASE CommitRouting(s)
    BY <2>4 DEF CommitRouting
  <2>5. CASE ReleaseSession(s)
    BY <2>5 DEF ReleaseSession, Released, AfterCleanup, DaemonType
  <2>6. CASE SendResponse(s)
    BY <2>6 DEF SendResponse
  <2>7. QED BY <1>2, <2>1, <2>2, <2>3, <2>4, <2>5, <2>6 DEF Work
<1>3. ASSUME NEW t \in Task, Rollback(t) PROVE OwnerInv'
  <2>1. CASE ReadSettings(t)
    BY <2>1 DEF ReadSettings
  <2>2. CASE DeleteTable(t)
    BY <2>2 DEF DeleteTable
  <2>3. CASE RemovePolicy(t)
    BY <2>3 DEF RemovePolicy, RemovePart
  <2>4. CASE ClearState(t)
    BY <2>4 DEF ClearState, AfterCleanup
  <2>5. QED BY <1>3, <2>1, <2>2, <2>3, <2>4 DEF Rollback
<1>4. CASE WatchdogCheck
  BY <1>4 DEF WatchdogCheck
<1>5. CASE Tick
  BY <1>5 DEF Tick
<1>6. CASE Crash
  BY <1>6 DEF Crash
<1>7. CASE UNCHANGED vars
  BY <1>7 DEF vars
<1>8. QED
  BY <1>1, <1>2, <1>3, <1>4, <1>5, <1>6, <1>7 DEF Next

LEMMA OwnerInvariant == Safety => []OwnerInv
<1>1. Init => OwnerInv
  BY NetdConstants DEF Init, OwnerInv, ClosingInv, NoLockout, ReleaseInv
<1>2. QED
  BY <1>1, OwnerStep, TypeCorrect, PTL DEF Safety

\* No dead claim: a session that owns the controller is carrying out its own
\* EnableRouting or has routing active, so the watchdog can always take the
\* ownership back, whichever early return handle_client took.
THEOREM NoDeadClaim == Safety => []NoLockout
  BY OwnerInvariant, PTL DEF OwnerInv

-----------------------------------------------------------------------------
(* Interception.                                                           *)

LEMMA LoadedStep == TypeOK /\ OwnerInv /\ LoadedInv /\ [Next]_vars => LoadedInv'
<1> SUFFICES ASSUME TypeOK, OwnerInv, LoadedInv, [Next]_vars PROVE LoadedInv'
  OBVIOUS
<1> USE NetdConstants
    DEF TypeOK, TaskType, OwnerInv, ClosingInv, LoadedInv, InEnable, Task, Enabling, Undoing, Reverting, Goto
<1>1. ASSUME NEW s \in Session, Client(s) PROVE LoadedInv'
  <2>1. CASE Handshake(s) \/ FrameError(s) \/ RejectRequest(s) \/ DisableRouting(s)
    BY <2>1 DEF Handshake, FrameError, RejectRequest, DisableRouting
  <2>2. CASE EndOfStream(s)
    BY <2>2 DEF EndOfStream
  <2>3. ASSUME NEW c \in Config, ClaimController(s, c) PROVE LoadedInv'
    BY <2>3 DEF ClaimController
  <2>4. CASE Heartbeat(s)
    BY <2>4 DEF Heartbeat
  <2>5. QED BY <1>1, <2>1, <2>2, <2>3, <2>4 DEF Client
<1>2. ASSUME NEW s \in Session, Work(s) PROVE LoadedInv'
  <2>1. CASE InstallPolicy(s)
    BY <2>1 DEF InstallPolicy
  <2>2. CASE LoadRuleset(s)
    <3>1. CASE nft' = TRUE
      BY <3>1
    <3>2. CASE Goto(s, "load", "undo") /\ UNCHANGED nft
      BY <2>2, <3>2 DEF LoadRuleset
    <3>3. QED BY <2>2, <3>1, <3>2 DEF LoadRuleset
  <2>3. CASE UndoPolicy(s)
    BY <2>3 DEF UndoPolicy, RemovePart
  <2>4. CASE CommitRouting(s)
    BY <2>4 DEF CommitRouting
  <2>5. CASE ReleaseSession(s)
    BY <2>5 DEF ReleaseSession, Released, AfterCleanup
  <2>6. CASE SendResponse(s)
    BY <2>6 DEF SendResponse
  <2>7. QED BY <1>2, <2>1, <2>2, <2>3, <2>4, <2>5, <2>6 DEF Work
<1>3. ASSUME NEW t \in Task, Rollback(t) PROVE LoadedInv'
  <2>1. CASE ReadSettings(t)
    BY <2>1 DEF ReadSettings
  <2>2. CASE DeleteTable(t)
    BY <2>2 DEF DeleteTable
  <2>3. CASE RemovePolicy(t)
    BY <2>3 DEF RemovePolicy, RemovePart
  <2>4. CASE ClearState(t)
    BY <2>4 DEF ClearState, AfterCleanup
  <2>5. QED BY <1>3, <2>1, <2>2, <2>3, <2>4 DEF Rollback
<1>4. CASE WatchdogCheck
  BY <1>4 DEF WatchdogCheck, Expired
<1>5. CASE Tick
  BY <1>5 DEF Tick
<1>6. CASE Crash
  BY <1>6 DEF Crash
<1>7. CASE UNCHANGED vars
  BY <1>7 DEF vars
<1>8. QED
  BY <1>1, <1>2, <1>3, <1>4, <1>5, <1>6, <1>7 DEF Next

\* An owner whose heartbeats are acknowledged has its traffic intercepted,
\* however rollbacks and enables of other tasks interleave with its own.
THEOREM OwnerIntercepts == Safety => []OwnedRoutingIntercepts
<1>1. Init => LoadedInv
  BY NetdConstants DEF Init, LoadedInv
<1>2. LoadedInv => OwnedRoutingIntercepts
  BY DEF LoadedInv, OwnedRoutingIntercepts, HeartbeatAllowed, InRollback, Reverting
<1>3. QED
  BY <1>1, <1>2, LoadedStep, TypeCorrect, OwnerInvariant, PTL DEF Safety

-----------------------------------------------------------------------------
(* The deadman's switch.                                                   *)

\* What is left of the sleep counts against the bound while the watchdog
\* sleeps; once it acts on an expiry no time passes until it is done.
DeadmanInv ==
  routing_active =>
    /\ age <= Timeout + Interval
    /\ pc[Watchdog] = "sleep" => age + timer <= Timeout + Interval

LEMMA DeadmanStep ==
  ASSUME Prompt PROVE TypeOK /\ DeadmanInv /\ [Next]_vars => DeadmanInv'
<1> SUFFICES ASSUME TypeOK, DeadmanInv, [Next]_vars PROVE DeadmanInv'
  OBVIOUS
<1> USE NetdConstants
    DEF TypeOK, TaskType, DaemonType, DeadmanInv, Task, Goto, MaxAge
<1>1. ASSUME NEW s \in Session, Client(s) PROVE DeadmanInv'
  <2>1. CASE Handshake(s) \/ FrameError(s) \/ RejectRequest(s) \/ DisableRouting(s)
    BY <2>1 DEF Handshake, FrameError, RejectRequest, DisableRouting
  <2>2. CASE EndOfStream(s)
    BY <2>2 DEF EndOfStream
  <2>3. ASSUME NEW c \in Config, ClaimController(s, c) PROVE DeadmanInv'
    BY <2>3 DEF ClaimController
  <2>4. CASE Heartbeat(s)
    BY <2>4 DEF Heartbeat
  <2>5. QED BY <1>1, <2>1, <2>2, <2>3, <2>4 DEF Client
<1>2. ASSUME NEW s \in Session, Work(s) PROVE DeadmanInv'
  <2>1. CASE InstallPolicy(s)
    BY <2>1 DEF InstallPolicy
  <2>2. CASE LoadRuleset(s)
    BY <2>2 DEF LoadRuleset
  <2>3. CASE UndoPolicy(s)
    BY <2>3 DEF UndoPolicy, RemovePart
  <2>4. CASE CommitRouting(s)
    BY <2>4 DEF CommitRouting
  <2>5. CASE ReleaseSession(s)
    BY <2>5 DEF ReleaseSession, Released, AfterCleanup
  <2>6. CASE SendResponse(s)
    BY <2>6 DEF SendResponse
  <2>7. QED BY <1>2, <2>1, <2>2, <2>3, <2>4, <2>5, <2>6 DEF Work
<1>3. ASSUME NEW t \in Task, Rollback(t) PROVE DeadmanInv'
  <2>1. CASE ReadSettings(t)
    BY <2>1 DEF ReadSettings
  <2>2. CASE DeleteTable(t)
    BY <2>2 DEF DeleteTable
  <2>3. CASE RemovePolicy(t)
    BY <2>3 DEF RemovePolicy, RemovePart
  <2>4. CASE ClearState(t)
    BY <2>4 DEF ClearState, AfterCleanup
  <2>5. QED BY <1>3, <2>1, <2>2, <2>3, <2>4 DEF Rollback
<1>4. CASE WatchdogCheck
  BY <1>4 DEF WatchdogCheck, Expired
<1>5. CASE Tick
  BY <1>5 DEF Tick
<1>6. CASE Crash
  BY <1>6 DEF Crash
<1>7. CASE UNCHANGED vars
  BY <1>7 DEF vars
<1>8. QED
  BY <1>1, <1>2, <1>3, <1>4, <1>5, <1>6, <1>7 DEF Next

\* With a watchdog that is scheduled promptly, routing is never active for
\* longer than the timeout plus one polling period after the last refresh.
THEOREM DeadmanHolds == ASSUME Prompt PROVE Safety => []DeadmanBound
<1>1. Init => DeadmanInv
  BY NetdConstants DEF Init, DeadmanInv
<1>2. DeadmanInv => DeadmanBound
  BY DEF DeadmanInv, DeadmanBound
<1>3. QED
  BY <1>1, <1>2, DeadmanStep, TypeCorrect, PTL DEF Safety

-----------------------------------------------------------------------------
(* The daemon implements the ownership promise of module Lease.            *)

LEMMA LeaseStep == TypeOK /\ OwnerInv /\ [Next]_vars => [L!Next]_(L!vars)
<1> SUFFICES ASSUME TypeOK, OwnerInv, [Next]_vars PROVE [L!Next]_(L!vars)
  OBVIOUS
<1> USE NetdConstants
    DEF TypeOK, TaskType, OwnerInv, ClosingInv, ReleaseInv, Claims, InEnable, Task,
        Enabling, Undoing, Reverting, Goto
<1> DEFINE Stutter == active_session' = active_session /\ routing_active' = routing_active /\ Claims' = Claims
<1>0. Stutter => [L!Next]_(L!vars)
  BY DEF L!vars
<1>1. ASSUME NEW s \in Session, Client(s) PROVE [L!Next]_(L!vars)
  <2>1. CASE Handshake(s) \/ FrameError(s) \/ RejectRequest(s) \/ DisableRouting(s)
    BY <1>0, <2>1 DEF Handshake, FrameError, RejectRequest, DisableRouting
  <2>2. CASE EndOfStream(s)
    BY <1>0, <2>2 DEF EndOfStream
  <2>3. ASSUME NEW c \in Config, ClaimController(s, c), MayClaim(s) PROVE L!Acquire(s)
    BY <2>3 DEF ClaimController, MayClaim, L!Acquire
  <2>4. ASSUME NEW c \in Config, ClaimController(s, c), ~MayClaim(s) PROVE Stutter
    BY <2>4 DEF ClaimController
  <2>5. CASE Heartbeat(s)
    BY <1>0, <2>5 DEF Heartbeat
  <2>6. QED BY <1>0, <1>1, <2>1, <2>2, <2>3, <2>4, <2>5 DEF Client, L!Next
<1>2. ASSUME NEW s \in Session, Work(s) PROVE [L!Next]_(L!vars)
  <2>1. CASE InstallPolicy(s)
    BY <1>0, <2>1 DEF InstallPolicy
  <2>2. CASE LoadRuleset(s)
    BY <1>0, <2>2 DEF LoadRuleset
  <2>3. CASE UndoPolicy(s)
    BY <1>0, <2>3 DEF UndoPolicy, RemovePart
  <2>4. ASSUME CommitRouting(s) PROVE L!Grant(s)
    BY <2>4 DEF CommitRouting, L!Grant
  <2>5. ASSUME ReleaseSession(s), s \notin closing PROVE L!Abandon(s)
    BY <2>5 DEF ReleaseSession, Released, AfterCleanup, L!Abandon, L!Drop
  <2>6. ASSUME ReleaseSession(s), s \in closing PROVE Stutter
    BY <2>6 DEF ReleaseSession, Released, AfterCleanup
  <2>7. CASE SendResponse(s)
    BY <1>0, <2>7 DEF SendResponse
  <2>8. QED
    BY <1>0, <1>2, <2>1, <2>2, <2>3, <2>4, <2>5, <2>6, <2>7 DEF Work, L!Next
<1>3. ASSUME NEW t \in Task, Rollback(t) PROVE [L!Next]_(L!vars)
  <2>1. CASE ReadSettings(t)
    BY <1>0, <2>1 DEF ReadSettings
  <2>2. CASE DeleteTable(t)
    BY <1>0, <2>2 DEF DeleteTable
  <2>3. CASE RemovePolicy(t)
    BY <1>0, <2>3 DEF RemovePolicy, RemovePart
  <2>4. ASSUME ClearState(t) PROVE L!Revoke
    BY <2>4 DEF ClearState, AfterCleanup, L!Revoke
  <2>5. QED BY <1>3, <2>1, <2>2, <2>3, <2>4 DEF Rollback, L!Next
<1>4. CASE WatchdogCheck
  BY <1>0, <1>4 DEF WatchdogCheck
<1>5. CASE Tick
  BY <1>0, <1>5 DEF Tick
<1>6. CASE Crash
  BY <1>6 DEF Crash, L!Next, L!Revoke
<1>7. CASE UNCHANGED vars
  BY <1>0, <1>7 DEF vars
<1>8. QED
  BY <1>1, <1>2, <1>3, <1>4, <1>5, <1>6, <1>7 DEF Next

\* Every behaviour of the daemon is one of the lease: claims by requests,
\* failed enables, early returns, rollbacks and crashes included.
THEOREM ImplementsLease == Safety => LeaseSpec
<1>1. Init => L!Init
  BY NetdConstants DEF Init, L!Init, Claims, InEnable, Enabling, Undoing, Task
<1>2. QED
  BY <1>1, LeaseStep, TypeCorrect, OwnerInvariant, PTL DEF Safety, LeaseSpec, L!Spec
=============================================================================
