------------------------------ MODULE Selection ------------------------------
(***************************************************************************)
(* How a replacement for a failing node is found: the cheap sweep of the   *)
(* catalog, the finalists it promotes to an egress trial, the ranking of   *)
(* their scores (tiered_shortlist), and the choice made from them          *)
(* (escalate, auto_adopt from idle, heal_or_stay_degraded while degraded)  *)
(* with the failure history the AutoSelector keeps from round to round.    *)
(*                                                                         *)
(* Four index spaces meet here: catalog positions, slots among the         *)
(* finalists, places in the sorted shortlist, and node labels.             *)
(*                                                                         *)
(* Latencies are in milliseconds.  The cost that orders the passers is left  *)
(* out: any passer may be first by it, and any may fail its second probe,  *)
(* so it never rules one out.  A failure weighs Unit, and fractions are    *)
(* rounded up, so that what is left of it counts.                          *)
(***************************************************************************)
EXTENDS Probe, Sorting

CONSTANTS
  Size,        \* nodes in the catalog
  Label,       \* Label[n]: the node's label, which need not be unique
  Finalists,   \* PreflightConfig.finalists
  Limit,       \* FailoverConfig.rescore_limit
  Targets,     \* ways a node may answer the sweep
  Level,       \* medians a trial may measure
  MaxWeight,   \* weight at which failures saturate (four of them in the code)
  MaxAge       \* bound on the half-lives counted since a failure

Node == 1..Size        \* positions in the catalog
None == 0
Unit == 2              \* one failure
Silent == 1000000      \* no median: sorted as Duration::MAX

\* A literal has one address.  Timeouts of a few seconds keep what a socket takes
\* below u16::MAX; longer medians, which the window would wrap, are left out.
ASSUME SelectionConstants ==
  /\ Size \in Nat \ {0} /\ DOMAIN Label = Node
  /\ Finalists \in Nat \ {0} /\ Limit \in Nat \ {0}
  /\ \A t \in Targets :
       /\ {t.udp, t.name} \subseteq BOOLEAN
       /\ t.answers \in Seq([event: Event, ms: 0..(Untested - 1)])
       /\ \A i \in DOMAIN t.answers : t.answers[i].event = "answers" => t.answers[i].ms # NoLatency
       /\ ~t.name => Len(t.answers) = 1
  /\ Level \subseteq 1..Untested
  /\ MaxWeight \in Nat /\ MaxAge \in Nat

\* A trial: whether the quorum passed, and the median of what verified.  A
\* testbed that never came up counts as nothing verified.
Result ==
  [passes: BOOLEAN, median: Level] \cup [passes: {FALSE}, median: {Silent}]

VARIABLES
  phase,      \* "idle", "swept", "scored"
  active,     \* the node in use; None while idle or degraded to direct
  degraded,   \* the tunnel was taken down for want of a node
  targets,    \* how each node answers the sweep of this round
  finalists,  \* catalog positions, ascending
  results,    \* the trials of the finalists, by slot
  scores,     \* the shortlist: [node_index, passes, median], in selection order
  track       \* per node: [weight, age], age in half-lives since it last failed

vars  == <<phase, active, degraded, targets, finalists, results, scores, track>>

Init ==
  /\ phase = "idle" /\ active \in Node \cup {None} /\ degraded = FALSE
  /\ targets = <<>> /\ finalists = <<>> /\ results = <<>> /\ scores = <<>>
  /\ track = [n \in Node |-> [weight |-> 0, age |-> 0]]

-----------------------------------------------------------------------------
(* tiered_shortlist.                                                       *)

\* cheap_sweep: the outcomes are in the order of the candidates.
outcomes == [n \in DOMAIN targets |-> Ping(targets[n])]

\* Mutant of SweepKey: no measurement sorts first, as None does.
SweepKeySilentFirst(o) == o.latency

SweepKey(o) == IF o.latency = NoLatency THEN Untested ELSE o.latency     \* u16::MAX

\* select_finalists: the fastest that are not proven dead, by a stable sort.
SelectFinalists(o) ==
  LET kept  == {n \in Node : ~is_dead(o[n])}
      ahead == {p \in kept \X kept :
                  \/ SweepKey(o[p[1]]) < SweepKey(o[p[2]])
                  \/ SweepKey(o[p[1]]) = SweepKey(o[p[2]]) /\ p[1] < p[2]}
  IN  Ascending(Lowest(kept, ahead, Finalists))

\* A round begins: the active node has failed its probes, or there is none.
Sweep(t) ==
  /\ phase = "idle"
  /\ targets' = t
  /\ finalists' = SelectFinalists([n \in Node |-> Ping(t[n])])
  /\ phase' = "swept"
  /\ UNCHANGED <<active, degraded, results, scores, track>>

\* Mutant of Scored: the slot among the finalists is taken for the node.
ScoredBySlot(slot, r) ==
  [node_index |-> slot, passes |-> r[slot].passes, median |-> r[slot].median]

Scored(slot, r) ==
  [node_index |-> finalists[slot], passes |-> r[slot].passes, median |-> r[slot].median]

\* Mutant of Before: speed comes before the quorum.
BeforeBySpeed(a, b) ==
  \/ a.median < b.median
  \/ a.median = b.median /\ a.node_index < b.node_index

\* sort_ranked.  The count of verified operators, its third key, is left out.
Before(a, b) ==
  \/ a.passes /\ ~b.passes
  \/ a.passes = b.passes /\ a.median < b.median
  \/ a.passes = b.passes /\ a.median = b.median /\ a.node_index < b.node_index

\* The scores in selection order, and the cut.
Shortlist(r) ==
  LET all    == {Scored(slot, r) : slot \in DOMAIN finalists}
      ranked == Sorted(all, {p \in all \X all : Before(p[1], p[2])})
  IN  SubSeq(ranked, 1, Least(Len(ranked), Limit))

\* The trials of the finalists.
RunTrials(r) ==
  /\ phase = "swept"
  /\ results' = r
  /\ scores' = Shortlist(r)
  /\ phase' = "scored"
  /\ targets' = <<>>
  /\ UNCHANGED <<active, degraded, finalists, track>>

-----------------------------------------------------------------------------
(* The choice, and the history it leaves.                                  *)

Half(w) == (w + 1) \div 2

RecordSuccess(k) == [k EXCEPT !.weight = Half(@)]
RecordFailure(k) ==
  [weight |-> IF k.weight + Unit < MaxWeight THEN k.weight + Unit ELSE MaxWeight, age |-> 0]

\* decayed_failure: halved once for every half-life since the last failure.
Decayed(k) == (k.weight + 2^k.age - 1) \div 2^k.age

Observe(k, score) == IF score.passes THEN RecordSuccess(k) ELSE RecordFailure(k)

\* Mutant of Observed: the shortlist is zipped with the catalog by position.
ObservedByPosition(list) ==
  [n \in Node |-> IF n \in DOMAIN list THEN Observe(track[n], list[n]) ELSE track[n]]

\* observe_round: each score goes to the node its index names.
Observed(list) ==
  [n \in Node |->
     IF \E i \in DOMAIN list : list[i].node_index = n
     THEN Observe(track[n], list[CHOOSE i \in DOMAIN list : list[i].node_index = n])
     ELSE track[n]]

\* rank_working_nodes, as a set: only passers are eligible.
Working(list) == {s.node_index : s \in {x \in ToSet(list) : x.passes}}

\* The shortlist without the failed incumbent, recognised by its label.
Retained ==
  LET kept == Ascending({i \in DOMAIN scores : Label[scores[i].node_index] # Label[active]})
  IN  [k \in DOMAIN kept |-> scores[kept[k]]]

RoundEnds ==
  /\ phase' = "idle"
  /\ targets' = <<>> /\ finalists' = <<>> /\ results' = <<>> /\ scores' = <<>>

\* switch_node to one of these, or to none of them.
SwitchTo(nodes) == active' \in nodes /\ degraded' = FALSE
Stay == UNCHANGED <<active, degraded>>

\* The first passer that is confirmed replaces the incumbent; with none
\* confirmed it stays, and with no passer at all the tunnel is taken down.
Escalate ==
  /\ phase = "scored" /\ ~degraded /\ active # None
  /\ track' = Observed(Retained)
  /\ \/ SwitchTo(Working(Retained))
     \/ Working(Retained) # {} /\ Stay
     \/ Working(Retained) = {} /\ active' = None /\ degraded' = TRUE
  /\ RoundEnds

\* auto_adopt, from idle: the best passer is taken, unless the switch fails.
Adopt ==
  /\ phase = "scored" /\ ~degraded /\ active = None
  /\ track' = Observed(scores)
  /\ SwitchTo(Working(scores)) \/ Stay
  /\ RoundEnds

\* While degraded: the first passer that is confirmed is taken, and no history
\* is kept.
Heal ==
  /\ phase = "scored" /\ degraded
  /\ SwitchTo(Working(scores)) \/ Stay
  /\ RoundEnds
  /\ UNCHANGED track

\* The user stops the tunnel, which leaves the flag alone.
UserStop ==
  /\ phase = "idle" /\ active # None
  /\ active' = None
  /\ UNCHANGED <<phase, degraded, targets, finalists, results, scores, track>>

\* Another half-life passes.
Age ==
  /\ phase = "idle"
  /\ track' = [n \in Node |-> [track[n] EXCEPT !.age = IF @ < MaxAge THEN @ + 1 ELSE @]]
  /\ UNCHANGED <<phase, active, degraded, targets, finalists, results, scores>>

Next ==
  \/ \E t \in [Node -> Targets] : Sweep(t)
  \/ \E r \in [DOMAIN finalists -> Result] : RunTrials(r)
  \/ Escalate \/ Adopt \/ Heal \/ UserStop \/ Age
Spec == Init /\ [][Next]_vars

-----------------------------------------------------------------------------
\* probe_addr and ping: a node is taken for dead only if each of its addresses
\* refuted it (over UDP: an ICMP message, or no datagram could be sent there), and
\* for reachable only if one answered; its latency is then the one of the first
\* address that did.
PingIsBest ==
  \A n \in DOMAIN targets :
    LET t == targets[n]
        answered == {i \in DOMAIN t.answers : t.answers[i].event = "answers"}
        refuted(e) == e \in IF t.udp THEN {"refuses", "unsent"} ELSE {"refuses", "unsent", "fails", "silent"}
        first == CHOOSE i \in answered : \A j \in answered : i <= j
    IN  /\ is_dead(outcomes[n]) <=> \A i \in DOMAIN t.answers : refuted(t.answers[i].event)
        /\ alive(outcomes[n]) <=> answered # {}
        /\ outcomes[n].latency = IF answered = {} THEN NoLatency ELSE t.answers[first].ms

\* README on Unreachable: "proven dead: refused, timed out, unresolvable": a node
\* with an address is not taken for dead unless one has been asked.
DeadIsProven ==
  \A n \in DOMAIN targets :
    is_dead(outcomes[n]) /\ targets[n].answers # <<>>
      => \E i \in DOMAIN targets[n].answers : targets[n].answers[i].event # "unsent"

\* select_finalists: the sweep keeps no faster node out.  Nothing proven dead
\* is promoted, a node left out found every place taken by one at least as
\* fast, and a silent node never takes the place of a measured one.
FastestPromoted ==
  LET measured(n) == outcomes[n].latency # NoLatency IN
  phase = "swept" =>
    \A n \in Node :
      IF n \in ToSet(finalists)
      THEN ~is_dead(outcomes[n])
      ELSE is_dead(outcomes[n]) \/
           (/\ Len(finalists) = Finalists
            /\ \A m \in ToSet(finalists) : measured(n) =>
                 measured(m) /\ outcomes[m].latency <= outcomes[n].latency)

\* The sweep as a whole: what it says of a node is what the node's addresses
\* proved, and whom it promotes follows from that.
SweepIsFair == PingIsBest /\ FastestPromoted

\* What the window makes of a sweep and of a trial, by node and by score.
Swept(o) == IF is_unknown(o) THEN Unwritten ELSE SweepReading(alive(o), o.latency)
Tried(s) == TrialReading(s.passes, IF s.median = Silent THEN NoLatency ELSE s.median)

\* sort_ranked and the cut at the limit: no node that missed the quorum comes
\* before one that passed, and none that passed is cut off while one that
\* missed it is kept.
WorksBeforeReachable ==
  phase = "scored" =>
    /\ \A i, j \in DOMAIN scores : scores[j].passes /\ ~scores[i].passes => j < i
    /\ \A slot \in DOMAIN finalists :
         results[slot].passes /\ (\E i \in DOMAIN scores : ~scores[i].passes)
           => \E i \in DOMAIN scores : scores[i].node_index = finalists[slot]

\* The scores of the window and the choices of auto mode are computed apart and
\* agree: no node left out by the sweep is shown above a measured one that was
\* promoted, the shortlist shows in falling scores, one that passed never shows
\* as dead and one that did not never shows as verified or above zero.
ScoreFollowsRank ==
  /\ WorksBeforeReachable
  /\ phase = "swept" =>
       \A m \in ToSet(finalists), n \in Node \ ToSet(finalists) :
         alive(outcomes[m]) => Swept(outcomes[n]).health <= Swept(outcomes[m]).health
  /\ phase = "scored" =>
       /\ \A i, j \in DOMAIN scores : i < j => Tried(scores[i]).health >= Tried(scores[j]).health
       /\ \A s \in ToSet(scores) : LET r == Tried(s) IN
            r.verified = s.passes /\ (r.health > 0 <=> s.passes) /\ r.health <= 100

\* reachability_health: "keeps 'reachable' and 'works' from collapsing": what
\* passed its trial shows above whatever only answered the sweep.
WorksShowsAbove ==
  phase = "scored" =>
    \A s \in ToSet(scores), t \in Targets : s.passes => Tried(s).health > Swept(Ping(t)).health

\* The node a switch goes to passed its own trial in this round: positions in
\* the catalog, among the finalists and in the shortlist are never mixed up.
SwitchesToAPasser ==
  [][active' \notin {active, None} =>
       \E slot \in DOMAIN finalists : finalists[slot] = active' /\ results[slot].passes]_vars

\* observe_round: a node's failure weight grows only when its own trial of this
\* round missed the quorum.
HistoryIsTheirOwn ==
  [][\A n \in Node : track'[n].weight > track[n].weight =>
       \E slot \in DOMAIN finalists : finalists[slot] = n /\ ~results[slot].passes]_vars

\* auto_select.rs: "recent failures decay over time rather than being erased by
\* one good sample": a node just replaced for failing has it on its record.
FailureOnRecord ==
  [][active # None /\ active' \notin {active, None} => Decayed(track'[active]) > 0]_vars

\* decayed_failure: "failed twenty minutes ago" and "failed last Tuesday" are
\* not the same: one more failure costs one failure more than what was left.
OldFailuresStayDecayed ==
  [][\A n \in Node : Decayed(track'[n]) <= Decayed(track[n]) + Unit]_vars

\* escalate: "Nothing passed trials anywhere": the tunnel is taken down only
\* when no trial of another node passed.
NothingPassedAnywhere ==
  [][active # None /\ degraded' =>
       \A slot \in DOMAIN finalists : finalists[slot] # active => ~results[slot].passes]_vars
=============================================================================
