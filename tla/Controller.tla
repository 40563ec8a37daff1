----------------------------- MODULE Controller -----------------------------
(***************************************************************************)
(* ProxyController: switch_node, stop and degrade_to_direct, called by the *)
(* user's thread and by the egress watchdog's.  The supervisor's mutex is  *)
(* held from apply_config to the end of switch_node, but stop and degrade  *)
(* take it only around the supervisor's own stop: talking to netd, and     *)
(* recording the outcome, happen outside it.                               *)
(*                                                                         *)
(* core is what the supervisor was last told to run; what the process      *)
(* makes of it is module Supervisor.  routing is netd's side: module Netd. *)
(***************************************************************************)
EXTENDS ProxyController

CONSTANTS
  Off,       \* no node
  User,      \* the thread of manual calls
  Watchdog,  \* the egress watchdog's thread
  Answers    \* what netd may answer; {} when it was unreachable at open

\* "ok"; "refused": an error, nothing changed; "lost": done, but the answer
\* did not arrive within RESPONSE_TIMEOUT.
ASSUME ControllerConstants ==
  /\ Off \notin Node
  /\ User # Watchdog
  /\ Answers \subseteq {"ok", "refused", "lost"}

VARIABLES
  core,      \* node the supervisor's core runs, or Off
  routing,   \* netd intercepts traffic
  place,     \* per thread: where it is
  target,    \* per thread: the node a switch is about
  torn       \* ghost: netd has failed a switch and nothing was recorded since

controllerVars == <<core, routing, active, degraded, place, target, torn>>

Thread == {User, Watchdog}
\* Holding the supervisor's mutex is being inside switch_node after apply_config.
Holding  == {"enable", "record", "finish"}
LockFree == \A t \in Thread : place[t] \notin Holding

NetdPresent == Answers # {}

ControllerInit ==
  /\ core = Off /\ active = Off
  /\ routing = FALSE /\ degraded = FALSE
  /\ place = [t \in Thread |-> "idle"]
  /\ target = [t \in Thread |-> Off]
  /\ torn = FALSE

Goto(t, from, to) == place[t] = from /\ place' = [place EXCEPT ![t] = to]

-----------------------------------------------------------------------------
(* switch_node.                                                            *)

\* compile_full_config may refuse the node, apply_config may refuse or undo
\* its config: either way the old core keeps running and the call returns.
ApplyConfig(t, n) ==
  /\ LockFree
  /\ \/ /\ Goto(t, "idle", IF NetdPresent THEN "enable" ELSE "record")
        /\ core' = n
        /\ target' = [target EXCEPT ![t] = n]
     \/ place[t] = "idle" /\ UNCHANGED <<place, core, target>>
  /\ UNCHANGED <<routing, active, degraded, torn>>

\* An error from netd returns at once: the new core stays, nothing is recorded.
EnableRouting(t) ==
  /\ \E a \in Answers :
       /\ Goto(t, "enable", IF a = "ok" THEN "record" ELSE "idle")
       /\ routing' = IF a = "refused" THEN routing ELSE TRUE
       /\ target' = IF a = "ok" THEN target ELSE [target EXCEPT ![t] = Off]
       /\ torn' = (torn \/ a # "ok")
  /\ UNCHANGED <<core, active, degraded>>

RecordActive(t) ==
  /\ Goto(t, "record", "finish")
  /\ active' = target[t]
  /\ torn' = FALSE
  /\ UNCHANGED <<core, routing, degraded, target>>

\* The stamp, the flag, and the guard goes out of scope.
FinishSwitch(t) ==
  /\ Goto(t, "finish", "idle")
  /\ degraded' = FALSE
  /\ target' = [target EXCEPT ![t] = Off]
  /\ UNCHANGED <<core, routing, active, torn>>

-----------------------------------------------------------------------------
(* stop (the user) and degrade_to_direct (the watchdog).                   *)

\* Whatever netd answers is ignored.
DisableRouting(t) ==
  /\ Goto(t, "idle", "kill")
  /\ \/ Answers \cap {"ok", "lost"} # {} /\ routing' = FALSE
     \/ Answers # {"ok"} /\ UNCHANGED routing
  /\ UNCHANGED <<core, active, degraded, target, torn>>

\* Mutant of StopCore: the supervisor's mutex is not taken.
StopCoreUnlocked(t) ==
  /\ Goto(t, "kill", "clear")
  /\ core' = Off
  /\ UNCHANGED <<routing, active, degraded, target, torn>>

StopCore(t) ==
  /\ LockFree
  /\ Goto(t, "kill", "clear")
  /\ core' = Off
  /\ UNCHANGED <<routing, active, degraded, target, torn>>

\* Mutant of ClearActive: active_node is not reset.
ClearActiveNot(t) ==
  /\ Goto(t, "clear", IF t = Watchdog THEN "flag" ELSE "idle")
  /\ UNCHANGED <<core, active, routing, degraded, target, torn>>

ClearActive(t) ==
  /\ Goto(t, "clear", IF t = Watchdog THEN "flag" ELSE "idle")
  /\ active' = Off
  /\ torn' = FALSE
  /\ UNCHANGED <<core, routing, degraded, target>>

FlagDegraded(t) ==
  /\ Goto(t, "flag", "idle")
  /\ degraded' = TRUE
  /\ UNCHANGED <<core, routing, active, target, torn>>

-----------------------------------------------------------------------------
\* netd's deadman reverts routing on its own: nothing in the program calls
\* start_netd_heartbeat.
DaemonReverts ==
  /\ NetdPresent /\ routing
  /\ routing' = FALSE
  /\ UNCHANGED <<core, active, degraded, place, target, torn>>

Switch(t) ==
  (\E n \in Node : ApplyConfig(t, n)) \/ EnableRouting(t) \/ RecordActive(t) \/ FinishSwitch(t)
TearDown(t) == DisableRouting(t) \/ StopCore(t) \/ ClearActive(t) \/ FlagDegraded(t)

ControllerNext == DaemonReverts \/ \E t \in Thread : Switch(t) \/ TearDown(t)
ControllerSpec == ControllerInit /\ [][ControllerNext]_controllerVars

-----------------------------------------------------------------------------
AtRest == \A t \in Thread : place[t] = "idle"

\* Threads, nodes and flags are of their types.
ControllerTypeOK ==
  /\ core \in Node \cup {Off} /\ active \in Node \cup {Off}
  /\ {routing, degraded, torn} \subseteq BOOLEAN
  /\ place \in [Thread -> Holding \cup {"idle", "kill", "clear", "flag"}]
  /\ target \in [Thread -> Node \cup {Off}]

\* A switch that has applied its config and not yet returned still has its core:
\* no tear-down and no other switch of the other thread comes between
\* apply_config, netd and the record, whatever netd answers.
SwitchOwnsCore == \A t \in Thread : place[t] \in Holding => core = target[t]

\* The node the controller reports as active is the one the core runs, unless
\* a switch is under way, a tear-down has stopped the core and not yet said so,
\* or netd has failed a switch half way; whatever is recorded next, by a switch
\* or by a tear-down, is the truth again.  The watchdog probes and replaces
\* active_node: it must be the one in use.
ActiveIsServed ==
  active # Off /\ LockFree /\ ~torn =>
     core = active \/ \E t \in Thread : place[t] = "clear"

\* switch_node: "The swap is atomic": a call that returns an error leaves the
\* old node serving.
SwapAtomic ==
  [][\A t \in Thread :
       place[t] = "enable" /\ place'[t] = "idle" /\ active # Off => core' = active]_controllerVars

\* stop: "Tears the tunnel down: disable routing via netd, then stop the core":
\* at rest no traffic is intercepted with no core to take it.
TornDownTogether == AtRest /\ core = Off => ~routing

\* switch_node "clears the degraded-to-direct state when any switch succeeds":
\* at rest, degraded means that no core is serving.
DegradedMeansDirect == AtRest /\ degraded => core = Off
=============================================================================
