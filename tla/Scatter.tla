------------------------------- MODULE Scatter -------------------------------
(***************************************************************************)
(* One egress trial through a running testbed: scatter_over_testbed fans   *)
(* the targets out to worker threads that share an index and report over a *)
(* channel, and folds what arrives into a report.  How a target answers is *)
(* fixed for the trial.                                                    *)
(***************************************************************************)
EXTENDS Naturals, FiniteSets, FiniteSetsExt, Sequences, SequencesExt

CONSTANTS
  Operator,     \* quorum targets
  Site,         \* real sites, noise
  RealCount,    \* sites sampled per trial
  NeedsBody,    \* targets with expect_body_contains
  MinVerified,  \* the quorum
  Worker        \* worker threads

ASSUME ScatterConstants ==
  /\ IsFiniteSet(Operator) /\ IsFiniteSet(Site)
  /\ Operator \cap Site = {} /\ NeedsBody \subseteq Operator
  /\ RealCount \in Nat /\ MinVerified \in Nat
  /\ Worker # {} /\ Operator # {}

\* What a target may do, the status being the expected one in the last three:
\*   "refused"  connecting, SOCKS, TLS or writing fails, or no answer in time
\*   "wrong"    another status, or a body without the expected text
\*   "whole"    headers and body arrive in one read
\*   "split"    the body arrives in a later read than the end of the headers
\*   "cut"      the stream ends inside the headers
Answer == {"refused", "wrong", "whole", "split", "cut"}

VARIABLES
  work,      \* the sampled target list
  answer,    \* how each target answers
  index,     \* the shared counter
  pc, item,  \* per worker: place, and the position it works on
  verdict,   \* per worker: the check's result
  channel,   \* results under way
  ordered,   \* position -> result, as far as received
  main       \* "gather", "joined"

vars == <<work, answer, index, pc, item, verdict, channel, ordered, main>>

\* sample_sites: a partial shuffle picks distinct sites, in any order.
Samples ==
  LET n == IF RealCount < Cardinality(Site) THEN RealCount ELSE Cardinality(Site)
  IN  UNION {SetToSeqs(s) : s \in kSubset(n, Site)}

\* sample_targets: every operator, then the sample.
TargetLists == {SetToSeq(Operator) \o s : s \in Samples}

Init ==
  /\ work \in TargetLists
  /\ answer \in [ToSet(work) -> Answer]
  /\ index = 1
  /\ pc = [w \in Worker |-> "fetch"] /\ item = [w \in Worker |-> 1]
  /\ verdict = [w \in Worker |-> FALSE]
  /\ channel = {} /\ ordered = [i \in {} |-> FALSE]
  /\ main = "gather"

-----------------------------------------------------------------------------
\* Mutant of Exhausted: off by one.
ExhaustedEarly(i) == i >= Len(work)

Exhausted(i) == i > Len(work)

\* index.fetch_add: take the next position, or end.
Fetch(w) ==
  /\ pc[w] = "fetch"
  /\ index' = index + 1
  /\ item' = [item EXCEPT ![w] = index]
  /\ pc' = [pc EXCEPT ![w] = IF Exhausted(index) THEN "done" ELSE "check"]
  /\ UNCHANGED <<work, answer, verdict, channel, ordered, main>>

\* check_target with read_http_exchange, which stops reading at the end of the
\* headers: the body is what came with them.
Verified(t) ==
  \/ answer[t] = "whole"
  \/ answer[t] \in {"split", "cut"} /\ t \notin NeedsBody

CheckTarget(w) ==
  /\ pc[w] = "check"
  /\ verdict' = [verdict EXCEPT ![w] = Verified(work[item[w]])]
  /\ pc' = [pc EXCEPT ![w] = "send"]
  /\ UNCHANGED <<work, answer, index, item, channel, ordered, main>>

SendCheck(w) ==
  /\ pc[w] = "send"
  /\ channel' = channel \cup {<<item[w], verdict[w]>>}
  /\ pc' = [pc EXCEPT ![w] = "fetch"]
  /\ UNCHANGED <<work, answer, index, item, verdict, ordered, main>>

\* The receiving loop.
Gather ==
  /\ main = "gather"
  /\ \E c \in channel :
       /\ channel' = channel \ {c}
       /\ ordered' = [i \in DOMAIN ordered \cup {c[1]} |-> IF i = c[1] THEN c[2] ELSE ordered[i]]
  /\ UNCHANGED <<work, answer, index, pc, item, verdict, main>>

\* Mutant of SendersGone: the main thread keeps a sender of its own.
SendersGoneNever == FALSE

\* The channel is closed when the last worker has ended: the main thread has
\* dropped its own sender.
SendersGone == \A w \in Worker : pc[w] = "done"

Join ==
  /\ main = "gather" /\ channel = {} /\ SendersGone
  /\ main' = "joined"
  /\ UNCHANGED <<work, answer, index, pc, item, verdict, channel, ordered>>

Work(w) == Fetch(w) \/ CheckTarget(w) \/ SendCheck(w)
Next == Gather \/ Join \/ \E w \in Worker : Work(w)

\* Threads run, and every check has its timeouts.
Fairness == WF_vars(Gather \/ Join) /\ \A w \in Worker : WF_vars(Work(w))
Spec == Init /\ [][Next]_vars /\ Fairness

-----------------------------------------------------------------------------
(* The report.                                                             *)

Counted == {i \in DOMAIN ordered : ordered[i]}
verified == Cardinality(Counted)

\* Mutant of quorum_verified: every target counts.
quorum_all == Cardinality(Counted)

quorum_verified == Cardinality({i \in Counted : work[i] \in Operator})
passes == quorum_verified >= MinVerified

\* The target answered with the expected status and, where one is asked for,
\* the expected body.
AsExpected(t) ==
  answer[t] \in {"whole", "split"} \/ (answer[t] = "cut" /\ t \notin NeedsBody)
OperatorsAsExpected == {t \in Operator : AsExpected(t)}

\* A verdict rests on operators alone: whatever order workers and results come
\* in, a trial passes only if a quorum of distinct operators answered as
\* expected.
QuorumIsHonest ==
  main = "joined" /\ passes => Cardinality(OperatorsAsExpected) >= MinVerified

\* No position is left without a result once the workers are joined: the
\* report's panic on a missing check is unreachable.
ReportComplete == main = "joined" => DOMAIN ordered = DOMAIN work

\* What a report rests on once the workers are joined: a check for every target,
\* and a quorum that is one.
ReportSound == ReportComplete /\ QuorumIsHonest

\* The trial ends, whatever the targets do.
TrialEnds == <>(main = "joined")

\* test_egress_scatter "reports how many answered exactly as expected".
AllExpectedCounted ==
  main = "joined" => Cardinality(OperatorsAsExpected) <= quorum_verified

\* CandidateScore.verified is the "number of operators that answered exactly as
\* expected".
OnlyOperatorsCounted == main = "joined" => verified <= Cardinality(OperatorsAsExpected)
=============================================================================
