-------------------------------- MODULE Netd --------------------------------
(***************************************************************************)
(* The privileged routing daemon (crates/netd): one task per client        *)
(* connection plus a watchdog task, sharing a DaemonState behind a mutex.  *)
(* Every region the code runs under the mutex is one atomic step here, and *)
(* so is every external command of the nftables backend, which the code    *)
(* runs without holding the mutex.                                         *)
(*                                                                         *)
(* A session id is allocated once per connection and never reused, so a    *)
(* connection and its session are the same model value.                    *)
(***************************************************************************)
EXTENDS Naturals

CONSTANTS
  Session,      \* connections the daemon may ever accept
  Watchdog,     \* the watchdog task
  NoSession,    \* active_session = None
  Config,       \* routing configurations that pass validate_config
  NoConfig,     \* routing_config = None
  Timeout,      \* WATCHDOG_TIMEOUT_SECS, in ticks
  Interval,     \* the watchdog's polling period, in ticks
  MayFail,      \* external commands that may fail for reasons of their own
  Prompt,       \* TRUE: no time passes while the watchdog is runnable
  MaxCrashes    \* bound: crashes of the daemon process

Command == {"ip add", "ip del", "nft load", "nft delete"}

ASSUME NetdConstants ==
  /\ Timeout \in Nat \ {0} /\ Interval \in Nat \ {0} /\ MaxCrashes \in Nat
  /\ Watchdog \notin Session /\ NoSession \notin Session
  /\ NoConfig \notin Config
  /\ MayFail \subseteq Command
  /\ Prompt \in BOOLEAN

VARIABLES
  active_session, routing_active, routing_config,  \* DaemonState
  age,       \* last_heartbeat.elapsed(), saturating at MaxAge
  timer,     \* what is left of the watchdog's sleep
  pc,        \* where each task is
  settings,  \* the TProxySettings a task works with
  step,      \* the next of the four `ip` commands of a task
  closing,   \* sessions that left the request loop on a clean end of stream
  policy,    \* policy routing present in the kernel
  nft,       \* table inet myproxy is present in the kernel
  crashes

daemon == <<active_session, routing_active, routing_config>>
clock  == <<age, timer>>
local  == <<settings, step, closing>>
kernel == <<policy, nft>>
vars   == <<daemon, clock, pc, local, kernel, crashes>>

Task   == Session \cup {Watchdog}
MaxAge == Timeout + Interval + 1

\* The four commands of install_policy_routing and remove_policy_routing, in order.
Parts   == 1..4   \* ip rule, ip route, ip -6 rule, ip -6 route

NextStep(i) == IF i = 4 THEN 1 ELSE i + 1

Idle      == {"new", "ready", "reply", "closed", "sleep"}
Enabling  == {"install", "load", "commit"}
Undoing   == {"undo", "release"}
Reverting == {"read", "delete", "remove", "clear"}

-----------------------------------------------------------------------------
Init ==
  /\ active_session = NoSession
  /\ routing_active = FALSE
  /\ routing_config = NoConfig
  /\ age = 0 /\ timer = Interval
  /\ pc = [t \in Task |-> IF t = Watchdog THEN "sleep" ELSE "new"]
  /\ settings = [t \in Task |-> NoConfig]
  /\ step = [t \in Task |-> 1]
  /\ closing = {}
  /\ policy = {} /\ nft = FALSE
  /\ crashes = 0

\* A local goes out of scope.
Forget(t) == settings' = [settings EXCEPT ![t] = NoConfig]

Goto(t, from, to) == pc[t] = from /\ pc' = [pc EXCEPT ![t] = to]

\* Where a session goes once it has answered its request or cleaned up after
\* an end of stream.
AfterCleanup(s) == IF s \in closing THEN "closed" ELSE "reply"

-----------------------------------------------------------------------------
(* handle_client: the connection's own steps.                              *)

\* Authorization and the first frame: a handshake of the right version opens
\* the session, anything else (or a failed answer) ends the task.
Handshake(s) ==
  /\ \/ Goto(s, "new", "ready")
     \/ Goto(s, "new", "closed")
  /\ UNCHANGED <<daemon, clock, local, kernel, crashes>>

\* A frame or decoding error returns from handle_client with no cleanup.
FrameError(s) ==
  /\ Goto(s, "ready", "closed")
  /\ UNCHANGED <<daemon, clock, local, kernel, crashes>>

\* The answer is sent, or sending fails and handle_client returns, again with
\* no cleanup.
SendResponse(s) ==
  /\ \/ Goto(s, "reply", "ready")
     \/ Goto(s, "reply", "closed")
  /\ UNCHANGED <<daemon, clock, local, kernel, crashes>>

\* End of stream: under the lock, decide between rollback and release.
EndOfStream(s) ==
  /\ Goto(s, "ready",
          IF active_session = s /\ routing_active THEN "read" ELSE "release")
  /\ closing' = closing \cup {s}
  /\ UNCHANGED <<daemon, clock, settings, step, kernel, crashes>>

\* Mutant of Released: the session's claim is not given back.
ReleasedNever(s) == active_session

Released(s) == IF active_session = s THEN NoSession ELSE active_session

ReleaseSession(s) ==
  /\ Goto(s, "release", AfterCleanup(s))
  /\ active_session' = Released(s)
  /\ Forget(s)
  /\ UNCHANGED <<routing_active, routing_config, clock, step, closing, kernel, crashes>>

-----------------------------------------------------------------------------
(* process_request.                                                        *)

\* A request that carries another session's id, an EnableRouting that
\* validate_config rejects, or a second handshake.
RejectRequest(s) ==
  /\ Goto(s, "ready", "reply")
  /\ UNCHANGED <<daemon, clock, local, kernel, crashes>>

\* Mutant of MayClaim: anyone may claim.
MayClaimAny(s) == TRUE

MayClaim(s) == active_session \in {NoSession, s}

\* EnableRouting up to and including claim_controller.
ClaimController(s, c) ==
  /\ IF MayClaim(s)
     THEN /\ Goto(s, "ready", "install")
          /\ active_session' = s
          /\ age' = 0
          /\ settings' = [settings EXCEPT ![s] = c]
          /\ step' = [step EXCEPT ![s] = 1]
     ELSE /\ Goto(s, "ready", "reply")
          /\ UNCHANGED <<active_session, age, settings, step>>
  /\ UNCHANGED <<routing_active, routing_config, timer, closing, kernel, crashes>>

\* One `ip ... add` of install_policy_routing.  Adding what is already there
\* fails; the first failure returns at once and undoes nothing.  A missing
\* binary (ensure_prerequisites) is the first command failing.
InstallPolicy(s) ==
  LET part == <<settings[s], step[s]>> IN
  /\ \/ /\ part \notin policy
        /\ policy' = policy \cup {part}
        /\ step' = [step EXCEPT ![s] = NextStep(@)]
        /\ Goto(s, "install", IF step[s] = 4 THEN "load" ELSE "install")
     \/ /\ part \in policy \/ "ip add" \in MayFail
        /\ Goto(s, "install", "release")
        /\ step' = [step EXCEPT ![s] = 1]
        /\ UNCHANGED policy
  /\ UNCHANGED <<daemon, clock, settings, closing, nft, crashes>>

\* Mutant of LoadRuleset: the status of nft is not looked at.
LoadRulesetUnchecked(s) ==
  /\ Goto(s, "load", "commit")
  /\ nft' = TRUE \/ ("nft load" \in MayFail /\ UNCHANGED nft)
  /\ UNCHANGED <<daemon, clock, local, policy, crashes>>

\* apply_ruleset of the rendered table: one atomic nft transaction.
LoadRuleset(s) ==
  /\ \/ Goto(s, "load", "commit") /\ nft' = TRUE
     \/ /\ "nft load" \in MayFail
        /\ Goto(s, "load", "undo")
        /\ UNCHANGED nft
  /\ UNCHANGED <<daemon, clock, local, policy, crashes>>

\* One command of remove_policy_routing; a failure is ignored.
RemovePart(t, from, to) ==
  /\ \/ policy' = policy \ {<<settings[t], step[t]>>}
     \/ "ip del" \in MayFail /\ UNCHANGED policy
  /\ step' = [step EXCEPT ![t] = NextStep(@)]
  /\ Goto(t, from, IF step[t] = 4 THEN to ELSE from)
  /\ UNCHANGED <<daemon, clock, settings, closing, nft, crashes>>

\* The ruleset was refused: enable removes the policy routing again.
UndoPolicy(s) == RemovePart(s, "undo", "release")

\* enable succeeded: take the lock again and record it.
CommitRouting(s) ==
  /\ Goto(s, "commit", "reply")
  /\ routing_active' = TRUE
  /\ routing_config' = settings[s]
  /\ age' = 0
  /\ Forget(s)
  /\ UNCHANGED <<active_session, timer, step, closing, kernel, crashes>>

\* DisableRouting asks only for a matching session id, not for ownership.
DisableRouting(s) ==
  /\ Goto(s, "ready", "read")
  /\ UNCHANGED <<daemon, clock, local, kernel, crashes>>

HeartbeatAllowed(s) == routing_active /\ active_session = s

Heartbeat(s) ==
  /\ Goto(s, "ready", "reply")
  /\ age' = IF HeartbeatAllowed(s) THEN 0 ELSE age
  /\ UNCHANGED <<daemon, timer, local, kernel, crashes>>

-----------------------------------------------------------------------------
(* rollback, run by a session or by the watchdog.                          *)

\* Lock, copy the settings, unlock.
ReadSettings(t) ==
  /\ Goto(t, "read", "delete")
  /\ settings' = [settings EXCEPT ![t] = routing_config]
  /\ step' = [step EXCEPT ![t] = 1]
  /\ UNCHANGED <<daemon, clock, closing, kernel, crashes>>

\* Delete the table, ignoring a failure; policy routing is removed only when
\* there were settings.
DeleteTable(t) ==
  /\ \/ nft' = FALSE
     \/ "nft delete" \in MayFail /\ UNCHANGED nft
  /\ Goto(t, "delete", IF settings[t] = NoConfig THEN "clear" ELSE "remove")
  /\ UNCHANGED <<daemon, clock, local, policy, crashes>>

RemovePolicy(t) == RemovePart(t, "remove", "clear")

\* Lock again and forget the routing, whoever owns it by now.
ClearState(t) ==
  /\ Goto(t, "clear", IF t = Watchdog THEN "sleep" ELSE AfterCleanup(t))
  /\ routing_active' = FALSE
  /\ routing_config' = NoConfig
  /\ active_session' = NoSession
  /\ timer' = IF t = Watchdog THEN Interval ELSE timer
  /\ Forget(t)
  /\ UNCHANGED <<age, step, closing, kernel, crashes>>

-----------------------------------------------------------------------------
(* spawn_watchdog, time and failures of the process.                       *)

\* Mutant of Expired: one tick late.
ExpiredLate == routing_active /\ age > Timeout + 1

Expired == routing_active /\ age > Timeout

\* The sleep is over: look at the state under the lock, then act on it later.
WatchdogCheck ==
  /\ timer = 0
  /\ \/ Expired /\ Goto(Watchdog, "sleep", "read") /\ UNCHANGED timer
     \/ ~Expired /\ pc[Watchdog] = "sleep" /\ timer' = Interval /\ UNCHANGED pc
  /\ UNCHANGED <<daemon, age, local, kernel, crashes>>

\* One tick of time.  Unless Prompt, the scheduler may delay the watchdog.
Tick ==
  /\ Prompt => pc[Watchdog] = "sleep" /\ timer > 0
  /\ age' = IF age < MaxAge THEN age + 1 ELSE age
  /\ timer' = IF timer > 0 THEN timer - 1 ELSE timer
  /\ UNCHANGED <<daemon, pc, local, kernel, crashes>>

\* The daemon dies and is started again: every connection is gone, the state
\* is fresh and the kernel keeps what was installed.
Crash ==
  /\ crashes < MaxCrashes
  /\ crashes' = crashes + 1
  /\ active_session' = NoSession
  /\ routing_active' = FALSE
  /\ routing_config' = NoConfig
  /\ age' = 0 /\ timer' = Interval
  /\ pc' = [t \in Task |-> CASE t = Watchdog -> "sleep"
                             [] pc[t] = "new" -> "new"
                             [] OTHER -> "closed"]
  /\ settings' = [t \in Task |-> NoConfig]
  /\ step' = [t \in Task |-> 1]
  /\ closing' = {}
  /\ UNCHANGED kernel

-----------------------------------------------------------------------------
\* What the peer decides to do.
Client(s) ==
  \/ Handshake(s) \/ FrameError(s) \/ EndOfStream(s)
  \/ RejectRequest(s) \/ (\E c \in Config : ClaimController(s, c))
  \/ DisableRouting(s) \/ Heartbeat(s)

\* What the daemon does on its own once a request is in hand.
Work(s) ==
  \/ InstallPolicy(s) \/ LoadRuleset(s) \/ UndoPolicy(s)
  \/ CommitRouting(s) \/ ReleaseSession(s) \/ SendResponse(s)

Rollback(t) ==
  ReadSettings(t) \/ DeleteTable(t) \/ RemovePolicy(t) \/ ClearState(t)

Next ==
  \/ \E s \in Session : Client(s) \/ Work(s)
  \/ \E t \in Task : Rollback(t)
  \/ WatchdogCheck \/ Tick \/ Crash

\* Time passes, a spawned task is polled until it waits for its peer, and the
\* watchdog's loop never ends.  Nothing is assumed of the peers.
Fairness ==
  /\ WF_vars(Tick) /\ WF_vars(WatchdogCheck)
  /\ \A s \in Session : WF_vars(Work(s))
  /\ \A t \in Task : WF_vars(Rollback(t))

Safety == Init /\ [][Next]_vars
Spec   == Safety /\ Fairness

-----------------------------------------------------------------------------
(* Properties.                                                             *)

DaemonType ==
  /\ active_session \in Session \cup {NoSession}
  /\ routing_config \in Config \cup {NoConfig}
  /\ age \in 0..MaxAge /\ timer \in 0..Interval

TaskType ==
  /\ pc \in [Task -> Idle \cup Enabling \cup Undoing \cup Reverting]
  /\ settings \in [Task -> Config \cup {NoConfig}]
  /\ step \in [Task -> Parts]
  /\ closing \subseteq Session

\* An installed part of policy routing belongs to a configuration: a task in
\* the middle of installing or removing has settings.
KernelType ==
  /\ \A t \in Task : pc[t] \in {"install", "load", "undo", "commit", "remove"} => settings[t] \in Config
  /\ policy \subseteq Config \X Parts
  /\ crashes \in 0..MaxCrashes

FlagType == routing_active \in BOOLEAN /\ nft \in BOOLEAN

\* The daemon's state, its tasks' local state and the kernel's are of their types.
TypeOK == DaemonType /\ TaskType /\ KernelType /\ FlagType

InEnable(s)  == pc[s] \in Enabling \cup Undoing /\ s \notin closing
InRollback(t) == pc[t] \in Reverting
Quiescent    == \A t \in Task : pc[t] \in Idle

\* A session that owns the controller is carrying out its own EnableRouting or
\* routing is active: handle_client's early returns, which skip the cleanup,
\* never leave behind a claim that the watchdog (which looks at routing_active
\* only) could not take back.
NoLockout ==
  \A s \in Session : active_session = s => routing_active \/ InEnable(s)

\* An owner whose heartbeats are acknowledged really has its traffic
\* intercepted: the table is loaded unless a rollback is under way or the
\* owner is itself in the middle of another EnableRouting.
OwnedRoutingIntercepts ==
  \A s \in Session :
     /\ HeartbeatAllowed(s) /\ ~InEnable(s)
     /\ \A t \in Task : ~InRollback(t)
     => nft

\* The deadman's switch with its real bound: however claims, heartbeats and
\* rollbacks interleave, routing is never active for longer than the timeout
\* and one polling period after the last refresh.
DeadmanBound == routing_active => age <= Timeout + Interval

\* The daemon implements the ownership it promises (module Lease).
Claims == {s \in Session : InEnable(s)}
L == INSTANCE Lease WITH
       holder <- active_session, granted <- routing_active, claiming <- Claims
LeaseSpec == L!Spec

-----------------------------------------------------------------------------
(* What the repository says of the daemon and the daemon does not do; the  *)
(* README tells under which constants TLC shows it.                        *)

\* README: after the controller is gone the routing is reverted "within 5
\* seconds", the watchdog's timeout.
RevertedWithinTimeout == routing_active => age <= Timeout

\* README: the daemon "automatically reverts all nftables rules and policy
\* routes": once every task is idle and routing is recorded as inactive,
\* nothing is left in the kernel.
NothingLeftBehind == Quiescent /\ ~routing_active => ~nft /\ policy = {}

\* netfilter.rs: policy routing is "rolled back on failure": between requests
\* a configuration's policy routing is either wholly present or wholly absent.
PolicyAllOrNothing ==
  Quiescent => \A c \in Config : {i \in Parts : <<c, i>> \in policy} \in {{}, Parts}

\* main.rs on heartbeat_allowed: nobody but the owner can keep routing alive
\* indefinitely, so routing that has lost its owner ends or finds another.
OrphanedRoutingEnds ==
  (routing_active /\ active_session = NoSession) ~>
     (~routing_active \/ \E s \in Session : HeartbeatAllowed(s) /\ ~InEnable(s))
=============================================================================
