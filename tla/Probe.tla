-------------------------------- MODULE Probe --------------------------------
(***************************************************************************)
(* The socket probe of one node (probe/lib.rs, ProbeDepth::L4Ping): what a *)
(* connect or a datagram proves about an address, and how the addresses of *)
(* a host name are summed up.  The tasks of probe_batch share nothing but  *)
(* the permits they return, and their outcomes are collected in the order  *)
(* they were spawned, so a batch is the sequence of its nodes' outcomes.   *)
(*                                                                         *)
(* A target is [udp, name, answers]: whether its protocol runs over UDP,   *)
(* whether its endpoint is a host name, and how its addresses answer, in   *)
(* the order of the lookup.  An answer is [event, ms].                     *)
(***************************************************************************)
EXTENDS Health, Sequences

Event == {"answers",   \* TCP: connected; UDP: a datagram came back
          "refuses",   \* connection refused, or ICMP unreachable
          "unsent",    \* UDP: no socket, or it cannot be connected to the address,
                       \* as the one of udp_reach, bound to 0.0.0.0, cannot to IPv6
          "fails",     \* any other error: of connect over TCP, of recv over UDP
          "silent"}    \* nothing within connect_timeout or udp_reply_window

\* ProbeConfidence::rank; Confirmed, 3, is for probes that are not written yet.
Rank == [SocketReachable |-> 2, Unconfirmed |-> 1, Unreachable |-> 0]

Probed(confidence, ms) == [confidence |-> confidence, latency |-> ms]

\* probe_addr: TCP has an answer or is dead.  Over UDP silence proves nothing, and
\* neither does an error of recv that is no ICMP message; but an address to which
\* no datagram could be sent counts as dead.
ProbeAddr(udp, answer) ==
  CASE answer.event = "answers"                       -> Probed("SocketReachable", answer.ms)
    [] udp /\ answer.event \in {"silent", "fails"}    -> Probed("Unconfirmed", NoLatency)
    [] OTHER                                          -> Probed("Unreachable", NoLatency)

\* Mutant of Better: the last address decides.
BetterAlways(candidate, current) == TRUE

\* Only a higher rank replaces what an earlier address proved.
Better(candidate, current) == Rank[candidate.confidence] > Rank[current.confidence]

\* ping: the loop over the addresses of a name; best[k] is its best after k of them.
Ping(target) ==
  LET probes == [i \in DOMAIN target.answers |-> ProbeAddr(target.udp, target.answers[i])]
      best[k \in DOMAIN target.answers] ==
        IF k = 1 \/ Better(probes[k], best[k - 1]) THEN probes[k] ELSE best[k - 1]
  IN  IF ~target.name THEN probes[1]
      ELSE IF target.answers = <<>> THEN Probed("Unreachable", NoLatency)     \* Unresolvable
      ELSE best[Len(target.answers)]

alive(o)      == o.confidence = "SocketReachable"
is_dead(o)    == o.confidence = "Unreachable"
is_unknown(o) == o.confidence = "Unconfirmed"
=============================================================================
