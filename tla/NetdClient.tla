----------------------------- MODULE NetdClient -----------------------------
(***************************************************************************)
(* NetdClient, the controller's blocking client of the routing daemon, and *)
(* the daemon as it looks from the other end of the stream.  Requests and  *)
(* answers travel in order but carry nothing that pairs them: after a      *)
(* RESPONSE_TIMEOUT the stream is kept, and the late answer is what the    *)
(* next call reads.  Only a failed heartbeat reconnects, and the heartbeat *)
(* thread is one that somebody has to start: the repository has the        *)
(* function, start_netd_heartbeat, and no call of it.                      *)
(*                                                                         *)
(* The client's mutex makes one call at a time, so pc is the one call's;   *)
(* it is free between a heartbeat that failed and the reconnect.           *)
(* Sessions stand for connections; one that both ends have dropped and     *)
(* that owns nothing may be used again.                                    *)
(***************************************************************************)
EXTENDS Naturals, Sequences

CONSTANTS
  Session,       \* connections
  NoSession,     \* nobody owns the daemon's controller
  MaxBacklog     \* bound: unread answers that calls which gave up leave behind

ASSUME NetdClientConstants ==
  NoSession \notin Session /\ MaxBacklog \in Nat \ {0}

VARIABLES
  conn,      \* the session of the client's stream
  pc,        \* "idle", or the request whose answer the holder of the mutex waits for
  thread,    \* the heartbeat thread: "off", "beating", or "failed" and about to reconnect
  wanted,    \* the last answered call of the controller turned routing on
  link,      \* per session: "free", "open", "left" by the client, "reset"
  inbox,     \* per session: requests the daemon has not handled
  outbox,    \* per session: answers the client has not read
  up,        \* the daemon is running
  owner, routing   \* the daemon's active_session and routing_active

client == <<conn, pc, thread, wanted>>
wires  == <<link, inbox, outbox>>
daemon == <<up, owner, routing>>
vars   == <<client, wires, daemon>>

Request == {"enable", "disable", "beat"}
Reply   == {"enabled", "disabled", "ack", "error"}
Expected(r) ==
  CASE r = "enable" -> "enabled" [] r = "disable" -> "disabled" [] r = "beat" -> "ack"

Init ==
  /\ conn = CHOOSE s \in Session : TRUE
  /\ pc = "idle" /\ thread = "off" /\ wanted = FALSE
  /\ link = [s \in Session |-> IF s = conn THEN "open" ELSE "free"]
  /\ inbox = [s \in Session |-> <<>>] /\ outbox = [s \in Session |-> <<>>]
  /\ up = TRUE /\ owner = NoSession /\ routing = FALSE

Waiting    == pc \in Request
Backlog(s) == Len(inbox[s]) + Len(outbox[s])

-----------------------------------------------------------------------------
(* The client: send_locked under the mutex.                                *)

\* Mutant of Finish: a failed heartbeat is only logged.
FinishLogged(r, ok) == pc' = "idle" /\ UNCHANGED thread

\* The end of a call; the heartbeat thread alone goes on to reconnect.
Finish(r, ok) ==
  /\ pc' = "idle"
  /\ thread' = IF r = "beat" /\ ~ok THEN "failed" ELSE thread

\* start_heartbeat.
StartHeartbeat ==
  /\ thread = "off"
  /\ thread' = "beating"
  /\ UNCHANGED <<conn, pc, wanted, wires, daemon>>

\* Write the request; a broken stream fails the call.
Send(r) ==
  /\ pc = "idle"
  /\ r = "beat" => thread = "beating"
  /\ IF link[conn] = "open"
     THEN pc' = r /\ inbox' = [inbox EXCEPT ![conn] = Append(@, r)] /\ UNCHANGED thread
     ELSE Finish(r, FALSE) /\ UNCHANGED inbox
  /\ UNCHANGED <<conn, wanted, link, outbox, daemon>>

\* Read one answer, whichever request it was written for.
Receive ==
  /\ Waiting /\ outbox[conn] # <<>>
  /\ LET ok == Head(outbox[conn]) = Expected(pc) IN
     /\ Finish(pc, ok)
     /\ wanted' = IF ok /\ pc # "beat" THEN pc = "enable" ELSE wanted
  /\ outbox' = [outbox EXCEPT ![conn] = Tail(@)]
  /\ UNCHANGED <<conn, link, inbox, daemon>>

\* No answer in time, or the stream broke while waiting.
GiveUp ==
  /\ Waiting /\ outbox[conn] = <<>> /\ Backlog(conn) <= MaxBacklog
  /\ Finish(pc, FALSE)
  /\ UNCHANGED <<conn, wanted, wires, daemon>>

\* The daemon never gives an id out twice: one that still owns the routing is
\* not used again.
Free == {s \in Session \ {owner} : link[s] = "free"}

\* How the daemon finds a stream the client has dropped: with answers unread
\* the socket reports a reset, otherwise the end of the stream.
Left == IF outbox[conn] = <<>> THEN "left" ELSE "reset"

\* A new stream and session; the old stream is dropped with what it held,
\* and of the requests in it the daemon will handle the first at most.
Reconnect ==
  /\ pc = "idle" /\ thread = "failed" /\ up
  /\ conn' \in Free
  /\ link' = [link EXCEPT ![conn] = IF @ = "open" THEN Left ELSE @, ![conn'] = "open"]
  /\ inbox' = [inbox EXCEPT ![conn] = IF @ = <<>> THEN @ ELSE <<Head(@)>>]
  /\ outbox' = [outbox EXCEPT ![conn] = <<>>]
  /\ thread' = "beating"
  /\ UNCHANGED <<pc, wanted, daemon>>

\* Three attempts failed, at a daemon that is down or does not answer in time:
\* the old stream stays.
ReconnectFails ==
  /\ pc = "idle" /\ thread = "failed"
  /\ thread' = "beating"
  /\ UNCHANGED <<conn, pc, wanted, wires, daemon>>

-----------------------------------------------------------------------------
(* The daemon, of which module Netd has the inside.                        *)

MayClaim(s) == owner \in {NoSession, s}

\* done: the commands of the backend succeed.  Enabling what is enabled fails.
Answer(s, r, done) ==
  CASE r = "enable"  -> IF MayClaim(s) /\ ~routing /\ done THEN "enabled" ELSE "error"
    [] r = "disable" -> IF done THEN "disabled" ELSE "error"
    [] r = "beat"    -> IF routing /\ owner = s THEN "ack" ELSE "error"

\* One request.  An enable that fails lets go of the ownership.
\* Once the client has left, the answer cannot be sent and the task ends there,
\* without the cleanup of an orderly end of stream.
Handle(s) ==
  /\ link[s] # "free" /\ inbox[s] # <<>>
  /\ \E done \in BOOLEAN :
       LET r     == Head(inbox[s])
           reply == Answer(s, r, done) IN
       /\ routing' = CASE reply = "enabled" -> TRUE [] reply = "disabled" -> FALSE [] OTHER -> routing
       /\ owner' = CASE reply = "enabled" -> s
                     [] reply = "disabled" \/ (r = "enable" /\ reply = "error" /\ owner = s) -> NoSession
                     [] OTHER -> owner
       /\ IF link[s] = "open"
          THEN outbox' = [outbox EXCEPT ![s] = Append(@, reply)] /\ UNCHANGED link
          ELSE link' = [link EXCEPT ![s] = "free"] /\ UNCHANGED outbox
  /\ inbox' = [inbox EXCEPT ![s] = IF link[s] = "open" THEN Tail(@) ELSE <<>>]
  /\ UNCHANGED <<client, up>>

\* The end of a stream the client has left.  After a reset, again, nothing is
\* cleaned up, and neither is it when the commands of the rollback fail.
EndOfStream(s) ==
  /\ link[s] \in {"left", "reset"} /\ inbox[s] = <<>>
  /\ link' = [link EXCEPT ![s] = "free"]
  /\ \/ link[s] = "left" /\ owner = s /\ owner' = NoSession /\ routing' = FALSE
     \/ UNCHANGED <<owner, routing>>
  /\ UNCHANGED <<client, inbox, outbox, up>>

\* Mutant of Silent: heartbeat_allowed lets any connection's heartbeat count.
SilentOfNone == ~(thread # "off" /\ link[conn] = "open")

\* No heartbeat that heartbeat_allowed lets count can arrive any more.
Silent == ~(thread # "off" /\ owner = conn /\ link[conn] = "open")

\* A rollback whose commands fail changes nothing here and is tried again.
Deadman ==
  /\ routing /\ Silent
  /\ routing' = FALSE /\ owner' = NoSession
  /\ UNCHANGED <<client, wires, up>>

Crash ==
  /\ up
  /\ up' = FALSE /\ owner' = NoSession /\ routing' = FALSE
  /\ link' = [s \in Session |-> "free"]
  /\ inbox' = [s \in Session |-> <<>>] /\ outbox' = [s \in Session |-> <<>>]
  /\ UNCHANGED client

Restart ==
  /\ ~up
  /\ up' = TRUE
  /\ UNCHANGED <<client, wires, owner, routing>>

-----------------------------------------------------------------------------
Next ==
  \/ \E r \in Request : Send(r)
  \/ StartHeartbeat \/ Receive \/ GiveUp \/ Reconnect \/ ReconnectFails
  \/ \E s \in Session : Handle(s) \/ EndOfStream(s)
  \/ Deadman \/ Crash \/ Restart

\* Calls end (they have timeouts), and the daemon serves its streams and its
\* deadman, whose commands succeed in the end.  A heartbeat thread that has been
\* started gets the mutex again and again, for the other callers are one-off
\* calls, and one that reconnects to a running daemon again and again succeeds.
\* Nothing makes anybody start it.
Fairness ==
  /\ WF_vars(Receive \/ GiveUp)
  /\ SF_vars(Send("beat")) /\ SF_vars(Reconnect \/ ReconnectFails) /\ SF_vars(Reconnect)
  /\ \A s \in Session : WF_vars(Handle(s)) /\ WF_vars(EndOfStream(s))
  /\ WF_vars(Deadman)

Safety == Init /\ [][Next]_vars
Spec   == Safety /\ Fairness

-----------------------------------------------------------------------------
\* An answer that nobody waits for is on its way.
OutOfStep == Backlog(conn) > IF Waiting THEN 1 ELSE 0

\* The heartbeat thread runs, or has been started and is about to reconnect.
Beating == thread # "off"

\* All that is on its way is heartbeats and their acknowledgements.
OnlyAcks ==
  /\ \A i \in DOMAIN inbox[conn]  : inbox[conn][i] = "beat"
  /\ \A i \in DOMAIN outbox[conn] : outbox[conn][i] = "ack"

\* Once start_heartbeat has been called and the controller has made the last of
\* its calls, the heartbeat rids the stream of the stray answers that timeouts
\* left in it, whatever call came between the heartbeat that failed and the
\* reconnect.  At worst, when a heartbeat was answered late and the reconnect
\* failed, acknowledgements stay, each heartbeat being answered by an earlier one.
Resynchronises ==
  <>[](pc \notin {"enable", "disable"})
    => ((Beating /\ OutOfStep) ~> (~OutOfStep \/ OnlyAcks))

\* Not even a started heartbeat thread, let alone the program, which starts
\* none, can promise more.
StaysInStep == (Beating /\ OutOfStep) ~> ~OutOfStep

\* A session that the client has left does not keep the routing, whether or not
\* the daemon saw an orderly end of its stream.
LeftSessionLetsGo ==
  \A s \in Session : (owner = s /\ conn # s) ~> (owner # s)

\* Once start_heartbeat has been called, a client whose stream has broken gets a
\* new one, unless the daemon stays down.
Reconnects == (Beating /\ link[conn] # "open") ~> (link[conn] = "open" \/ ~up)

\* netd_client.rs: the client "transparently re-establishes" its connection
\* "when the daemon restarts"; in the program, which starts no heartbeat
\* thread, it does not.
ReestablishesItself == (link[conn] # "open") ~> (link[conn] = "open" \/ ~up)

\* netd_client.rs: reconnecting "keeps the firewall ruleset tied to the live
\* daemon session": routing the controller was told is on is on again.
RulesetTied ==
  (wanted /\ up) ~> ((routing /\ owner = conn) \/ ~wanted \/ ~up)
=============================================================================
