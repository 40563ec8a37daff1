--------------------------- MODULE SelectionProofs ---------------------------
(***************************************************************************)
(* What holds of the search for a replacement for every catalog, every     *)
(* labelling, all answers of addresses and trials and every limit: what a  *)
(* sweep concludes and whom it promotes, in which order the trials are     *)
(* ranked and shown, whom a switch goes to, and whose history grows.       *)
(***************************************************************************)
EXTENDS Selection, SortingProofs, SequenceTheorems

-----------------------------------------------------------------------------
(* ping.                                                                   *)

Answer  == [event: Event, ms: 0..(Untested - 1)]
Outcome == [confidence: DOMAIN Rank, latency: 0..(Untested - 1)]

\* The bound is cited in this form: the provers enumerate a range up to a literal.
LEMMA UntestedFacts == Untested \in Nat \ {0}
BY DEF Untested

LEMMA ProbeFacts ==
  ASSUME NEW udp \in BOOLEAN, NEW a \in Answer
  PROVE  /\ ProbeAddr(udp, a) \in Outcome
         /\ ProbeAddr(udp, a).confidence = "SocketReachable" <=> a.event = "answers"
         /\ ProbeAddr(udp, a).confidence = "Unreachable" <=>
              a.event \in IF udp THEN {"refuses", "unsent"} ELSE {"refuses", "unsent", "fails", "silent"}
         /\ ProbeAddr(udp, a).latency = IF a.event = "answers" THEN a.ms ELSE NoLatency
<1>1. CASE a.event = "answers"
  <2>1. ProbeAddr(udp, a) = [confidence |-> "SocketReachable", latency |-> a.ms]
    BY <1>1 DEF ProbeAddr, Probed
  <2> QED  BY <1>1, <2>1 DEF Outcome, Answer, Rank
<1>2. CASE a.event # "answers" /\ udp /\ a.event \in {"silent", "fails"}
  <2>1. ProbeAddr(udp, a) = [confidence |-> "Unconfirmed", latency |-> NoLatency]
    BY <1>2 DEF ProbeAddr, Probed
  <2>2. /\ ProbeAddr(udp, a).confidence = "Unconfirmed" /\ ProbeAddr(udp, a).latency = NoLatency
        /\ ProbeAddr(udp, a) \in Outcome
    BY <2>1, UntestedFacts DEF Outcome, Rank, NoLatency
  <2>3. a.event \notin IF udp THEN {"refuses", "unsent"} ELSE {"refuses", "unsent", "fails", "silent"}
    BY <1>2
  <2> QED  BY <1>2, <2>2, <2>3
<1>3. CASE a.event # "answers" /\ ~(udp /\ a.event \in {"silent", "fails"})
  <2>1. ProbeAddr(udp, a) = [confidence |-> "Unreachable", latency |-> NoLatency]
    BY <1>3 DEF ProbeAddr, Probed
  <2>2. a.event \in Event
    BY DEF Answer
  <2> QED  BY <1>3, <2>1, <2>2, UntestedFacts DEF Outcome, Rank, NoLatency, Event
<1> QED  BY <1>1, <1>2, <1>3

\* The loop of ping: f has the best after each address.
Keeps(f, probes) ==
  \A k \in DOMAIN probes :
    f[k] = IF k = 1 \/ Better(probes[k], f[k - 1]) THEN probes[k] ELSE f[k - 1]

LEMMA PingLoop ==
  ASSUME NEW t, NEW n \in Nat \ {0}, t.name = TRUE, t.answers \in Seq(Answer), Len(t.answers) = n,
         NEW probes, probes = [i \in DOMAIN t.answers |-> ProbeAddr(t.udp, t.answers[i])]
  PROVE  \E f : Keeps(f, probes) /\ Ping(t) = f[n]
<1>0. DOMAIN t.answers = 1..n /\ DOMAIN probes = 1..n /\ t.answers # <<>>
  OBVIOUS
<1> DEFINE Step(g, k) == IF k = 1 \/ Better(probes[k], g[k - 1]) THEN probes[k] ELSE g[k - 1]
           Rec(g, m)  == g = [k \in 1..m |-> Step(g, k)]
           T == {m \in 0..n : ~ \E g : Rec(g, m)}
<1> HIDE DEF Step
<1>1. 0 \notin T
  <2> DEFINE g == [k \in 1..0 |-> k]
  <2>1. \A k \in 1..0 : g[k] = Step(g, k)
    OBVIOUS
  <2>2. g = [k \in 1..0 |-> Step(g, k)]
    OBVIOUS
  <2> QED  BY <2>2
<1>2. ASSUME NEW m \in 1..n, m - 1 \notin T  PROVE m \notin T
  <2>1. PICK g : Rec(g, m - 1)
    BY <1>2
  <2> DEFINE h == [k \in 1..m |-> IF k = m THEN Step(g, m) ELSE g[k]]
  <2>2. \A k \in 1..m-1 : h[k] = g[k] /\ g[k] = Step(g, k)
    <3>1. g = [k \in 1..m-1 |-> Step(g, k)]
      BY <2>1
    <3>2. \A k \in 1..m-1 : g[k] = Step(g, k)
      <4> HIDE DEF h
      <4> QED  BY <3>1
    <3> QED  BY <3>2
  <2>3. \A k \in 1..m : Step(h, k) = Step(g, k)
    <3> SUFFICES ASSUME NEW k \in 1..m  PROVE Step(h, k) = Step(g, k)
      OBVIOUS
    <3>1. CASE k = 1
      BY <3>1 DEF Step
    <3>2. CASE k # 1
      <4>1. k - 1 \in 1..m-1
        BY <3>2
      <4>2. h[k - 1] = g[k - 1]
        BY <2>2, <4>1
      <4> HIDE DEF h
      <4> QED  BY <4>2 DEF Step
    <3> QED  BY <3>1, <3>2
  <2>4. \A k \in 1..m : h[k] = Step(g, k)
    <3> SUFFICES ASSUME NEW k \in 1..m  PROVE h[k] = Step(g, k)
      OBVIOUS
    <3>1. CASE k = m
      <4> QED  BY <3>1
    <3>2. CASE k \in 1..m-1
      <4> HIDE DEF h
      <4> QED  BY <2>2, <3>2
    <3> QED  BY <3>1, <3>2
  <2>5. h = [k \in 1..m |-> h[k]]
    OBVIOUS
  <2> HIDE DEF h
  <2>6. h = [k \in 1..m |-> Step(h, k)]
    BY <2>3, <2>4, <2>5
  <2> QED  BY <2>6
<1>3. T = {}
  <2> HIDE DEF T
  <2>1. T \in SUBSET (0..n)
    BY DEF T
  <2> QED  BY <1>1, <1>2, <2>1, FirstFailure
<1>4. \E g : Rec(g, n)
  BY <1>3
<1> DEFINE f == CHOOSE g : g = [k \in DOMAIN t.answers |-> Step(g, k)]
<1>5. f = [k \in 1..n |-> Step(f, k)]
  BY <1>0, <1>4
<1>6. Ping(t) = f[n]
  BY <1>0 DEF Ping, Step
<1> HIDE DEF f
<1>7. \A k \in 1..n : f[k] = Step(f, k)
  <2> QED  BY <1>5
<1> QED  BY <1>0, <1>6, <1>7 DEF Keeps, Step

\* The best is the first among the addresses of the highest rank.
IsBest(best, probes, n, i) ==
  /\ best = probes[i]
  /\ \A j \in 1..n : Rank[probes[j].confidence] <= Rank[probes[i].confidence]
  /\ \A j \in 1..n : j < i => Rank[probes[j].confidence] < Rank[probes[i].confidence]

LEMMA FirstOfTheBest ==
  ASSUME NEW n \in Nat \ {0}, NEW probes \in [1..n -> Outcome], NEW f, Keeps(f, probes)
  PROVE  \E i \in 1..n : IsBest(f[n], probes, n, i)
<1> DEFINE rank(j) == Rank[probes[j].confidence]
           Best(k, i) == /\ f[k] = probes[i]
                         /\ \A j \in 1..k : rank(j) <= rank(i)
                         /\ \A j \in 1..k : j < i => rank(j) < rank(i)
           T == {k \in 0..n : k # 0 /\ ~ \E i \in 1..k : Best(k, i)}
<1>1. \A j \in 1..n : rank(j) \in 0..2
  BY DEF Outcome, Rank
<1>2. \A k \in 1..n : f[k] = IF k = 1 \/ Better(probes[k], f[k - 1]) THEN probes[k] ELSE f[k - 1]
  BY DEF Keeps
<1>3. ASSUME NEW k \in 1..n, k - 1 \notin T  PROVE k \notin T
  <2>1. CASE k = 1
    <3>1. f[1] = probes[1]
      BY <1>2, <2>1
    <3>2. Best(1, 1)
      BY <1>1, <3>1
    <3> QED  BY <2>1, <3>2
  <2>2. CASE k # 1
    <3>1. k - 1 \in 1..n /\ k - 1 \in 0..n /\ k - 1 # 0
      BY <2>2
    <3>2. PICK i \in 1..k-1 : Best(k - 1, i)
      BY <1>3, <3>1
    <3>3. i \in 1..n /\ i \in 1..k /\ k \in 1..k
      OBVIOUS
    <3>4. Better(probes[k], f[k - 1]) <=> rank(k) > rank(i)
      BY <3>2 DEF Better
    <3> HIDE DEF rank
    <3>5. CASE rank(k) > rank(i)
      <4>1. f[k] = probes[k]
        BY <1>2, <3>4, <3>5
      <4>2. \A j \in 1..k : j = k \/ j \in 1..k-1
        OBVIOUS
      <4>3. \A j \in 1..k : rank(j) <= rank(k) /\ (j < k => rank(j) < rank(k))
        BY <1>1, <3>2, <3>3, <3>5, <4>2
      <4>4. Best(k, k)
        BY <4>1, <4>3
      <4> QED  BY <3>3, <4>4
    <3>6. CASE ~(rank(k) > rank(i))
      <4>1. f[k] = probes[i]
        BY <1>2, <2>2, <3>2, <3>4, <3>6
      <4>2. \A j \in 1..k : j = k \/ j \in 1..k-1
        OBVIOUS
      <4>3. \A j \in 1..k : rank(j) <= rank(i) /\ (j < i => rank(j) < rank(i))
        BY <1>1, <3>2, <3>3, <3>6, <4>2
      <4>4. Best(k, i)
        BY <4>1, <4>3
      <4> QED  BY <3>3, <4>4
    <3> QED  BY <3>5, <3>6
  <2> QED  BY <2>1, <2>2
<1>4. T = {}
  <2>1. T \in SUBSET (0..n) /\ 0 \notin T
    OBVIOUS
  <2> HIDE DEF T
  <2> QED  BY <1>3, <2>1, FirstFailure
<1>5. PICK i \in 1..n : Best(n, i)
  BY <1>4
<1> QED  BY <1>5 DEF IsBest

Answered(t) == {i \in DOMAIN t.answers : t.answers[i].event = "answers"}
Refuted(t)  == IF t.udp THEN {"refuses", "unsent"} ELSE {"refuses", "unsent", "fails", "silent"}

LEMMA TargetFacts ==
  ASSUME NEW t \in Targets
  PROVE  /\ t.udp \in BOOLEAN /\ t.name \in BOOLEAN /\ t.answers \in Seq(Answer)
         /\ ~t.name => Len(t.answers) = 1
<1>1. /\ {t.udp, t.name} \subseteq BOOLEAN /\ t.answers \in Seq(Answer)
      /\ ~t.name => Len(t.answers) = 1
  BY SelectionConstants DEF Answer
<1>2. t.udp \in BOOLEAN /\ t.name \in BOOLEAN
  BY <1>1, Zenon
<1> QED  BY <1>1, <1>2

\* What a probe proves is what one of the addresses proved, and no other proved
\* more, nor as much before it.
LEMMA PingPicks ==
  ASSUME NEW t \in Targets, NEW n \in Nat, n = Len(t.answers), n # 0
  PROVE  \E i \in 1..n :
           LET p(j) == ProbeAddr(t.udp, t.answers[j]) IN
           /\ Ping(t) = p(i)
           /\ \A j \in 1..n : Rank[p(j).confidence] <= Rank[p(i).confidence]
           /\ \A j \in 1..n : j < i => Rank[p(j).confidence] < Rank[p(i).confidence]
<1> DEFINE probes == [i \in DOMAIN t.answers |-> ProbeAddr(t.udp, t.answers[i])]
<1>1. /\ t.udp \in BOOLEAN /\ t.name \in BOOLEAN /\ t.answers \in Seq(Answer)
      /\ ~t.name => Len(t.answers) = 1
  BY TargetFacts
<1>2. DOMAIN t.answers = 1..n /\ \A i \in 1..n : t.answers[i] \in Answer
  BY <1>1
<1>3. \A i \in 1..n : probes[i] = ProbeAddr(t.udp, t.answers[i]) /\ probes[i] \in Outcome
  BY <1>1, <1>2, ProbeFacts
<1>4. probes \in [1..n -> Outcome]
  BY <1>2, <1>3
<1>5. \E f : Keeps(f, probes) /\ Ping(t) = f[n]
  <2>1. CASE t.name
    <3>1. t.name = TRUE
      BY <2>1
    <3>2. n \in Nat \ {0} /\ Len(t.answers) = n
      OBVIOUS
    <3>3. PICK q : q = probes
      OBVIOUS
    <3>4. q = [i \in DOMAIN t.answers |-> ProbeAddr(t.udp, t.answers[i])]
      BY <3>3
    <3> HIDE DEF probes
    <3>5. \E f : Keeps(f, q) /\ Ping(t) = f[n]
      BY <1>1, <3>1, <3>2, <3>4, PingLoop
    <3> QED  BY <3>3, <3>5
  <2>2. CASE ~t.name
    <3>1. n = 1 /\ Ping(t) = probes[1]
      BY <1>1, <2>2 DEF Ping
    <3>2. DOMAIN probes = 1..1
      BY <1>2, <3>1
    <3> HIDE DEF probes
    <3>3. Keeps(probes, probes)
      BY <3>2 DEF Keeps
    <3> QED  BY <3>1, <3>3
  <2> QED  BY <1>1, <2>1, <2>2
<1> HIDE DEF probes
<1>6. PICK f : Keeps(f, probes) /\ Ping(t) = f[n]
  BY <1>5
<1>7. PICK i \in 1..n : IsBest(f[n], probes, n, i)
  <2>1. n \in Nat \ {0}
    OBVIOUS
  <2> QED  BY <1>4, <1>6, <2>1, FirstOfTheBest
<1> QED  BY <1>3, <1>6, <1>7 DEF IsBest

\* probe_addr and ping, for any number of addresses.
LEMMA PingFacts ==
  ASSUME NEW t \in Targets
  PROVE  /\ Ping(t) \in Outcome
         /\ is_dead(Ping(t)) <=> \A i \in DOMAIN t.answers : t.answers[i].event \in Refuted(t)
         /\ alive(Ping(t)) <=> Answered(t) # {}
         /\ Answered(t) = {} => Ping(t).latency = NoLatency
         /\ Answered(t) # {} => \E i \in Answered(t) :
              (\A j \in Answered(t) : i <= j) /\ Ping(t).latency = t.answers[i].ms
<1>1. /\ t.udp \in BOOLEAN /\ t.name \in BOOLEAN /\ t.answers \in Seq(Answer)
      /\ ~t.name => Len(t.answers) = 1
  BY TargetFacts
<1>2. PICK n \in Nat : n = Len(t.answers) /\ DOMAIN t.answers = 1..n
  BY <1>1
<1>3. CASE n = 0
  <2>0. t.name
    <3>1. Len(t.answers) # 1
      BY <1>2, <1>3
    <3> QED  BY <1>1, <3>1, Zenon
  <2>1. t.answers = <<>> /\ DOMAIN t.answers = {} /\ t.name
    BY <2>0, <1>1, <1>2, <1>3, SMTT(30)
  <2>2. Ping(t) = [confidence |-> "Unreachable", latency |-> NoLatency]
    BY <2>1 DEF Ping, Probed
  <2>3. /\ Ping(t) \in Outcome /\ Ping(t).latency = NoLatency
        /\ Ping(t).confidence = "Unreachable"
    BY <2>2, UntestedFacts DEF Outcome, Rank, NoLatency
  <2> QED  BY <2>1, <2>3 DEF Answered, is_dead, alive
<1>4. CASE n # 0
  <2> DEFINE p(j) == ProbeAddr(t.udp, t.answers[j])
  <2>1. PICK i \in 1..n :
           /\ Ping(t) = p(i)
           /\ \A j \in 1..n : Rank[p(j).confidence] <= Rank[p(i).confidence]
           /\ \A j \in 1..n : j < i => Rank[p(j).confidence] < Rank[p(i).confidence]
    BY <1>2, <1>4, PingPicks
  <2>2. \A j \in 1..n : t.answers[j] \in Answer
    BY <1>1, <1>2
  <2>3. \A j \in 1..n :
          /\ p(j) \in Outcome
          /\ p(j).confidence = "SocketReachable" <=> t.answers[j].event = "answers"
          /\ p(j).confidence = "Unreachable" <=> t.answers[j].event \in Refuted(t)
          /\ p(j).latency = IF t.answers[j].event = "answers" THEN t.answers[j].ms ELSE NoLatency
    BY <1>1, <2>2, ProbeFacts DEF Refuted
  <2> HIDE DEF p
  <2>4. \A j \in 1..n : p(j).confidence \in {"SocketReachable", "Unconfirmed", "Unreachable"}
    BY <2>3 DEF Outcome, Rank
  <2> DEFINE c(j) == p(j).confidence
  <2>5. Rank["SocketReachable"] = 2 /\ Rank["Unconfirmed"] = 1 /\ Rank["Unreachable"] = 0
    BY DEF Rank
  <2>6. c(i) = "Unreachable" <=> \A j \in 1..n : c(j) = "Unreachable"
    BY <2>1, <2>4, <2>5
  <2>7. c(i) = "SocketReachable" <=> \E j \in 1..n : c(j) = "SocketReachable"
    BY <2>1, <2>4, <2>5
  <2>8. \A j \in 1..n : c(i) = "SocketReachable" /\ c(j) = "SocketReachable" => i <= j
    BY <2>1, <2>5
  <2>9. \A j : j \in Answered(t) <=> j \in 1..n /\ c(j) = "SocketReachable"
    BY <1>2, <2>3 DEF Answered
  <2>10. Answered(t) # {} => i \in Answered(t) /\ \A j \in Answered(t) : i <= j
    BY <2>7, <2>8, <2>9
  <2>11. is_dead(Ping(t)) <=> \A j \in DOMAIN t.answers : t.answers[j].event \in Refuted(t)
    BY <1>2, <2>1, <2>3, <2>6 DEF is_dead
  <2>12. alive(Ping(t)) <=> Answered(t) # {}
    BY <2>1, <2>7, <2>9 DEF alive
  <2>13. i \in Answered(t) => Ping(t).latency = t.answers[i].ms
    BY <2>1, <2>3 DEF Answered
  <2>14. Answered(t) = {} => Ping(t).latency = NoLatency
    <3>1. i \in DOMAIN t.answers
      BY <1>2
    <3> QED  BY <2>1, <2>3, <3>1 DEF Answered
  <2>15. Ping(t) \in Outcome
    BY <2>1, <2>3
  <2> QED  BY <2>10, <2>11, <2>12, <2>13, <2>14, <2>15
<1> QED  BY <1>3, <1>4

\* probe_addr and ping, for every node of every sweep.
LEMMA SweepSound ==
  ASSUME targets = <<>> \/ targets \in [Node -> Targets]
  PROVE  PingIsBest
<1>1. CASE targets = <<>>
  BY <1>1 DEF PingIsBest
<1>2. CASE targets \in [Node -> Targets]
  <2> SUFFICES ASSUME NEW n \in Node
               PROVE  LET t == targets[n]
                          answered == {i \in DOMAIN t.answers : t.answers[i].event = "answers"}
                          refuted(e) == e \in IF t.udp THEN {"refuses", "unsent"} ELSE {"refuses", "unsent", "fails", "silent"}
                          first == CHOOSE i \in answered : \A j \in answered : i <= j
                      IN  /\ is_dead(outcomes[n]) <=> \A i \in DOMAIN t.answers : refuted(t.answers[i].event)
                          /\ alive(outcomes[n]) <=> answered # {}
                          /\ outcomes[n].latency = IF answered = {} THEN NoLatency ELSE t.answers[first].ms
    BY <1>2 DEF PingIsBest
  <2>1. PICK t \in Targets : t = targets[n]
    BY <1>2
  <2>2. outcomes[n] = Ping(t)
    BY <1>2, <2>1 DEF outcomes
  <2> DEFINE A == Answered(t)
             first == CHOOSE i \in A : \A j \in A : i <= j
  <2>3. /\ is_dead(Ping(t)) <=> \A i \in DOMAIN t.answers : t.answers[i].event \in Refuted(t)
        /\ alive(Ping(t)) <=> A # {}
        /\ A = {} => Ping(t).latency = NoLatency
        /\ A # {} => \E i \in A : (\A j \in A : i <= j) /\ Ping(t).latency = t.answers[i].ms
    BY PingFacts
  <2>4. A \subseteq Nat
    BY TargetFacts DEF Answered
  <2>5. A # {} => Ping(t).latency = t.answers[first].ms
    <3> SUFFICES ASSUME A # {}  PROVE Ping(t).latency = t.answers[first].ms
      OBVIOUS
    <3>1. PICK i \in A : (\A j \in A : i <= j) /\ Ping(t).latency = t.answers[i].ms
      BY <2>3
    <3>2. first \in A /\ \A j \in A : first <= j
      BY <3>1
    <3> HIDE DEF first, A
    <3>3. first = i
      BY <2>4, <3>1, <3>2
    <3> QED  BY <3>1, <3>3
  <2> QED  BY <2>1, <2>2, <2>3, <2>5 DEF Answered, Refuted
<1> QED  BY <1>1, <1>2

-----------------------------------------------------------------------------
(* select_finalists.                                                       *)

LEMMA KeyFacts ==
  ASSUME NEW o \in Outcome
  PROVE  /\ SweepKey(o) \in 1..Untested
         /\ o.latency # NoLatency => SweepKey(o) = o.latency /\ SweepKey(o) < Untested
         /\ o.latency = NoLatency => SweepKey(o) = Untested
<1>1. o.latency \in 0..(Untested - 1)
  BY DEF Outcome
<1> QED  BY <1>1, UntestedFacts DEF SweepKey, NoLatency

\* Whom a sweep promotes: nothing dead, no one slower than one left out, and
\* nobody is left out while there is a place.
Promotes(f, o) ==
  /\ f \in Seq(Node)
  /\ \A i, j \in DOMAIN f : f[i] = f[j] => i = j
  /\ \A n \in ToSet(f) : n \in Node /\ ~is_dead(o[n])
  /\ \A n \in Node : n \notin ToSet(f) /\ ~is_dead(o[n]) =>
       /\ Len(f) = Finalists
       /\ \A m \in ToSet(f) : SweepKey(o[m]) <= SweepKey(o[n])

LEMMA FinalistsFacts ==
  ASSUME NEW o \in [Node -> Outcome]
  PROVE  Promotes(SelectFinalists(o), o)
<1> DEFINE key(n) == SweepKey(o[n])
           kept == {n \in Node : ~is_dead(o[n])}
           R == {p \in kept \X kept :
                   \/ SweepKey(o[p[1]]) < SweepKey(o[p[2]])
                   \/ SweepKey(o[p[1]]) = SweepKey(o[p[2]]) /\ p[1] < p[2]}
           F == Lowest(kept, R, Finalists)
           f == SelectFinalists(o)
<1>1. IsFiniteSet(kept) /\ kept \subseteq Node /\ Node \subseteq Nat
  <2>1. IsFiniteSet(Node)
    BY SelectionConstants, FS_Interval DEF Node
  <2>2. kept \in SUBSET Node
    OBVIOUS
  <2> QED  BY <2>1, <2>2, FS_Subset, SelectionConstants DEF Node
<1>2. \A n \in kept : key(n) \in Nat /\ n \in Nat
  <2> SUFFICES ASSUME NEW n \in kept  PROVE key(n) \in Nat
    BY <1>1
  <2>1. o[n] \in Outcome
    OBVIOUS
  <2>2. SweepKey(o[n]) \in 1..Untested
    BY <2>1, KeyFacts
  <2> QED  BY <2>2, UntestedFacts
<1>3. \A m, n \in kept : <<m, n>> \in R <=> key(m) < key(n) \/ (key(m) = key(n) /\ m < n)
  OBVIOUS
<1>6. f = Ascending(F)
  BY DEF SelectFinalists
<1>11. \A n \in Node : n \in kept <=> ~is_dead(o[n])
  OBVIOUS
<1> HIDE DEF kept, R, f
<1> HIDE DEF key
<1>7. \A x \in kept : <<x, x>> \notin R
  BY <1>2, <1>3
<1>8. \A x, y \in kept : x # y => <<x, y>> \in R \/ <<y, x>> \in R
  BY <1>2, <1>3
<1>9. \A x, y, z \in kept : <<x, y>> \in R /\ <<y, z>> \in R => <<x, z>> \in R
  BY <1>2, <1>3
<1>10. \A m, n \in kept : <<m, n>> \in R => key(m) <= key(n)
  BY <1>2, <1>3
<1>12. F \subseteq kept
  BY DEF Lowest
<1>14. ASSUME NEW x \in kept, x \notin F
       PROVE  Cardinality(F) = Finalists /\ \A y \in F : <<y, x>> \in R
  <2>1. Finalists \in Nat
    BY SelectionConstants
  <2> QED  BY <1>1, <1>7, <1>8, <1>9, <1>14, <2>1, FirstK
<1> HIDE DEF F
<1>15. /\ Ascending(F) \in Seq(F) /\ Len(Ascending(F)) = Cardinality(F) /\ Cardinality(F) \in Nat
       /\ \A i, j \in 1..Cardinality(F) : i < j => Ascending(F)[i] < Ascending(F)[j]
       /\ ToSet(Ascending(F)) = F /\ F \in SUBSET Nat
  <2>1. F \in SUBSET kept /\ F \in SUBSET Nat
    BY <1>1, <1>12
  <2>2. IsFiniteSet(F)
    BY <1>1, <2>1, FS_Subset
  <2> QED  BY <2>1, <2>2, AscendingFacts, FS_CardinalityType
<1> HIDE DEF f
<1>16. /\ f \in Seq(F) /\ Len(f) = Cardinality(F) /\ Len(f) \in Nat
       /\ \A i, j \in 1..Len(f) : i < j => f[i] < f[j]
       /\ ToSet(f) = F
  BY <1>6, <1>15
<1>17. f \in Seq(Node) /\ DOMAIN f = 1..Len(f) /\ \A i \in 1..Len(f) : f[i] \in Nat
  <2>1. F \subseteq Node /\ F \subseteq Nat
    BY <1>1, <1>12
  <2>2. DOMAIN f = 1..Len(f) /\ \A i \in 1..Len(f) : f[i] \in F
    BY <1>16
  <2>3. f = [i \in 1..Len(f) |-> f[i]]
    BY <1>16
  <2> QED  BY <1>16, <2>1, <2>2, <2>3
<1>18. \A i, j \in DOMAIN f : f[i] = f[j] => i = j
  BY <1>16, <1>17
<1>19. \A n \in ToSet(f) : n \in Node /\ ~is_dead(o[n])
  BY <1>1, <1>11, <1>12, <1>16
<1>20. \A n \in Node : n \notin ToSet(f) /\ ~is_dead(o[n]) =>
         Len(f) = Finalists /\ \A m \in ToSet(f) : key(m) <= key(n)
  BY <1>10, <1>11, <1>12, <1>14, <1>16
<1> QED  BY <1>17, <1>18, <1>19, <1>20 DEF Promotes, f, key

\* select_finalists, for every number of nodes and places.
LEMMA FinalistsFastest ==
  ASSUME phase = "swept" => /\ targets \in [Node -> Targets]
                            /\ Promotes(finalists, [n \in Node |-> Ping(targets[n])])
  PROVE  FastestPromoted
<1> SUFFICES ASSUME phase = "swept", NEW n \in Node
             PROVE  IF n \in ToSet(finalists)
                    THEN ~is_dead(outcomes[n])
                    ELSE is_dead(outcomes[n]) \/
                         (/\ Len(finalists) = Finalists
                          /\ \A m \in ToSet(finalists) : outcomes[n].latency # NoLatency =>
                               outcomes[m].latency # NoLatency /\ outcomes[m].latency <= outcomes[n].latency)
  BY DEF FastestPromoted
<1> DEFINE o == outcomes
<1>1. o = [m \in Node |-> Ping(targets[m])] /\ o \in [Node -> Outcome]
  BY PingFacts DEF outcomes
<1>2. Promotes(finalists, o)
  BY <1>1
<1> HIDE DEF o
<1>3. /\ \A m \in ToSet(finalists) : m \in Node /\ ~is_dead(o[m])
      /\ n \notin ToSet(finalists) /\ ~is_dead(o[n]) =>
           /\ Len(finalists) = Finalists
           /\ \A m \in ToSet(finalists) : SweepKey(o[m]) <= SweepKey(o[n])
  BY <1>2 DEF Promotes
<1>4. \A m \in Node : /\ o[m].latency # NoLatency => SweepKey(o[m]) = o[m].latency /\ SweepKey(o[m]) < Untested
                      /\ o[m].latency = NoLatency => SweepKey(o[m]) = Untested
                      /\ SweepKey(o[m]) \in 1..Untested
  <2>1. \A m \in Node : o[m] \in Outcome
    BY <1>1
  <2> QED  BY <2>1, KeyFacts
<1>5. \A m \in Node : SweepKey(o[m]) <= SweepKey(o[n]) /\ o[n].latency # NoLatency =>
        o[m].latency # NoLatency /\ o[m].latency <= o[n].latency
  BY <1>4, UntestedFacts
<1> QED  BY <1>3, <1>5 DEF o

-----------------------------------------------------------------------------
(* sort_ranked and the cut.                                                *)

Score == [node_index: Nat, passes: BOOLEAN, median: Nat]

LEMMA BeforeFacts ==
  ASSUME NEW a \in Score, NEW b \in Score, NEW c \in Score
  PROVE  /\ ~Before(a, a)
         /\ a.node_index # b.node_index => Before(a, b) \/ Before(b, a)
         /\ Before(a, b) /\ Before(b, c) => Before(a, c)
BY DEF Score, Before

\* What the shortlist says of the trials: its scores are of finalists, in selection
\* order, and a finalist that is not on it comes after all that are.
Ranks(list, r) ==
  /\ list \in Seq(Score)
  /\ \A i \in DOMAIN list : \E slot \in DOMAIN finalists : list[i] = Scored(slot, r)
  /\ \A i, j \in DOMAIN list : i < j => Before(list[i], list[j])
  /\ \A slot \in DOMAIN finalists :
       \/ \E i \in DOMAIN list : list[i] = Scored(slot, r)
       \/ \A i \in DOMAIN list : Before(list[i], Scored(slot, r))

LEMMA ScoredFacts ==
  ASSUME finalists \in Seq(Node), NEW r \in [DOMAIN finalists -> Result], NEW slot \in DOMAIN finalists
  PROVE  /\ Scored(slot, r).node_index = finalists[slot] /\ finalists[slot] \in Nat
         /\ Scored(slot, r).passes = r[slot].passes /\ r[slot].passes \in BOOLEAN
         /\ Scored(slot, r).median = r[slot].median /\ r[slot].median \in Nat
         /\ r[slot].passes => r[slot].median \in Level
         /\ Scored(slot, r) \in Score
<1>1. r[slot] \in Result
  OBVIOUS
<1>2. finalists[slot] \in Node /\ Node \subseteq Nat
  BY SelectionConstants DEF Node
<1>3. \A l \in Level : l \in Nat
  BY SelectionConstants, UntestedFacts
<1>4. r[slot].passes \in BOOLEAN /\ r[slot].median \in Level \cup {Silent}
  BY <1>1 DEF Result
<1>5. r[slot].passes => r[slot].median \in Level
  BY <1>1 DEF Result
<1>6. r[slot].median \in Nat
  BY <1>3, <1>4 DEF Silent
<1> QED  BY <1>2, <1>4, <1>5, <1>6 DEF Scored, Score

LEMMA ShortlistFacts ==
  ASSUME finalists \in Seq(Node), \A i, j \in DOMAIN finalists : finalists[i] = finalists[j] => i = j,
         NEW r \in [DOMAIN finalists -> Result]
  PROVE  Ranks(Shortlist(r), r)
<1> DEFINE S == {Scored(slot, r) : slot \in DOMAIN finalists}
           R == {p \in S \X S : Before(p[1], p[2])}
           s == Sorted(S, R)
           n == Cardinality(S)
           h == Least(Len(s), Limit)
<1>1. \A x \in S : x \in Score /\ \E slot \in DOMAIN finalists : x = Scored(slot, r)
  BY ScoredFacts
<1>2. \A x, y \in S : <<x, y>> \in R <=> Before(x, y)
  OBVIOUS
<1>3. Shortlist(r) = SubSeq(s, 1, h)
  BY DEF Shortlist
<1>4. IsFiniteSet(S)
  <2>1. PICK m \in Nat : DOMAIN finalists = 1..m
    OBVIOUS
  <2>2. IsFiniteSet(1..m)
    BY FS_Interval
  <2> DEFINE g == [slot \in 1..m |-> Scored(slot, r)]
  <2>3. g \in Surjection(1..m, S)
    BY <2>1 DEF Surjection
  <2> HIDE DEF S, g
  <2> QED  BY <2>2, <2>3, FS_Surjection
<1>5. \A x, y \in S : x.node_index = y.node_index => x = y
  <2> SUFFICES ASSUME NEW x \in S, NEW y \in S, x.node_index = y.node_index  PROVE x = y
    OBVIOUS
  <2>1. PICK i \in DOMAIN finalists : x = Scored(i, r)
    OBVIOUS
  <2>2. PICK j \in DOMAIN finalists : y = Scored(j, r)
    OBVIOUS
  <2>3. finalists[i] = finalists[j]
    BY <2>1, <2>2, ScoredFacts
  <2> QED  BY <2>1, <2>2, <2>3
<1>5a. \A slot \in DOMAIN finalists : Scored(slot, r) \in S
  OBVIOUS
<1> HIDE DEF S, R
<1>6. \A x \in S : <<x, x>> \notin R
  BY <1>1, <1>2, BeforeFacts
<1>7. \A x, y \in S : x # y => <<x, y>> \in R \/ <<y, x>> \in R
  BY <1>1, <1>2, <1>5, BeforeFacts
<1>8. \A x, y, z \in S : <<x, y>> \in R /\ <<y, z>> \in R => <<x, z>> \in R
  BY <1>1, <1>2, BeforeFacts
<1>9. /\ s \in [1..n -> S] /\ n \in Nat /\ ToSet(s) = S
      /\ \A i, j \in 1..n : i < j => <<s[i], s[j]>> \in R
  BY <1>4, <1>6, <1>7, <1>8, SortedFacts
<1> HIDE DEF s, n
<1>10. Len(s) = n /\ h \in 0..n
  <2>1. s \in Seq(S) /\ Len(s) = n
    BY <1>9
  <2> QED  BY <1>9, <2>1, SelectionConstants DEF Least
<1> HIDE DEF h
<1>11. \A i \in 1..n : s[i] \in S /\ s[i] \in Score
  BY <1>1, <1>9
<1> DEFINE list == SubSeq(s, 1, h)
<1>12. list \in Seq(Score) /\ Len(list) = h /\ \A i \in 1..h : list[i] = s[i]
  <2>1. \A i \in 1..h : s[i] \in Score
    BY <1>9, <1>10, <1>11
  <2>2. h \in Int /\ 1 \in Int /\ h >= 0
    BY <1>9, <1>10
  <2>3. /\ list \in Seq(Score) /\ Len(list) = IF 1 <= h THEN h - 1 + 1 ELSE 0
        /\ \A i \in 1..(h - 1 + 1) : list[i] = s[1 + i - 1]
    BY <2>1, <2>2, SubSeqProperties
  <2> QED  BY <2>2, <2>3
<1> HIDE DEF list
<1>13. DOMAIN list = 1..h /\ \A i \in 1..h : i \in 1..n
  BY <1>9, <1>10, <1>12
<1>14. \A i \in DOMAIN list : \E slot \in DOMAIN finalists : list[i] = Scored(slot, r)
  BY <1>1, <1>11, <1>12, <1>13
<1>15. \A i, j \in DOMAIN list : i < j => Before(list[i], list[j])
  BY <1>2, <1>9, <1>11, <1>12, <1>13
<1>16. ASSUME NEW slot \in DOMAIN finalists
       PROVE  \/ \E i \in DOMAIN list : list[i] = Scored(slot, r)
              \/ \A i \in DOMAIN list : Before(list[i], Scored(slot, r))
  <2>1. PICK k \in 1..n : s[k] = Scored(slot, r)
    BY <1>5a, <1>9 DEF ToSet
  <2>2. CASE k \in 1..h
    BY <1>12, <1>13, <2>1, <2>2
  <2>3. CASE k \notin 1..h
    <3>1. \A i \in 1..h : i < k
      BY <1>9, <1>10, <2>3
    <3> QED  BY <1>2, <1>9, <1>11, <1>12, <1>13, <2>1, <3>1
  <2> QED  BY <2>2, <2>3
<1>17. Ranks(list, r)
  BY <1>12, <1>14, <1>15, <1>16 DEF Ranks
<1> QED  BY <1>3, <1>17 DEF list

-----------------------------------------------------------------------------
(* The rounds.                                                             *)

Track == [weight: Nat, age: Nat]

\* What a round has found so far is what its phase promises: the sweep has
\* promoted the right nodes, the shortlist ranks the trials of the finalists.
RoundInv ==
  /\ phase \in {"idle", "swept", "scored"}
  /\ track \in [Node -> Track]
  /\ phase = "swept" => targets \in [Node -> Targets]
  /\ phase = "swept" => Promotes(finalists, [n \in Node |-> Ping(targets[n])])
  /\ phase # "swept" => targets = <<>>
  /\ phase = "scored" => finalists \in Seq(Node)
  /\ phase = "scored" => results \in [DOMAIN finalists -> Result]
  /\ phase = "scored" => Ranks(scores, results)

LEMMA RetainedFacts ==
  ASSUME scores \in Seq(Score)
  PROVE  \A k \in DOMAIN Retained : \E i \in DOMAIN scores : Retained[k] = scores[i]
<1> DEFINE S == {i \in DOMAIN scores : Label[scores[i].node_index] # Label[active]}
           kept == Ascending(S)
<1>1. PICK m \in Nat : DOMAIN scores = 1..m
  OBVIOUS
<1>2. S \in SUBSET (1..m) /\ S \in SUBSET Nat /\ \A i \in S : i \in DOMAIN scores
  BY <1>1
<1> HIDE DEF S
<1>3. IsFiniteSet(S)
  <2>1. IsFiniteSet(1..m)
    BY FS_Interval
  <2> QED  BY <1>2, <2>1, FS_Subset
<1>4. kept \in Seq(S)
  BY <1>2, <1>3, AscendingFacts
<1>5. Retained = [k \in DOMAIN kept |-> scores[kept[k]]]
  BY DEF Retained, S
<1> HIDE DEF kept
<1>6. \A k \in DOMAIN kept : kept[k] \in S
  BY <1>4
<1> QED  BY <1>2, <1>5, <1>6

LEMMA TrackFacts ==
  ASSUME NEW k \in Track, NEW score, score.passes \in BOOLEAN
  PROVE  /\ Observe(k, score) \in Track
         /\ Observe(k, score).weight > k.weight => ~score.passes
<1>1. k.weight \in Nat /\ k.age \in Nat
  BY DEF Track
<1>2. Half(k.weight) \in Nat /\ Half(k.weight) <= k.weight
  BY <1>1 DEF Half
<1>3. CASE score.passes
  <2>1. Observe(k, score) = [k EXCEPT !.weight = Half(k.weight)]
    BY <1>3 DEF Observe, RecordSuccess
  <2>2. Observe(k, score) \in Track /\ Observe(k, score).weight = Half(k.weight)
    BY <1>2, <2>1 DEF Track
  <2> QED  BY <1>1, <1>2, <2>2
<1>4. CASE ~score.passes
  <2>1. Observe(k, score) = RecordFailure(k)
    BY <1>4 DEF Observe
  <2>2. RecordFailure(k) \in Track
    BY <1>1, SelectionConstants DEF RecordFailure, Track, Unit
  <2> QED  BY <1>4, <2>1, <2>2
<1> QED  BY <1>3, <1>4

\* A score on a list taken from the shortlist is that of a finalist.
LEMMA OwnScore ==
  ASSUME RoundInv, phase = "scored", NEW list, list \in {scores, Retained}, NEW i \in DOMAIN list
  PROVE  \E slot \in DOMAIN finalists :
           /\ list[i] = Scored(slot, results)
           /\ list[i].node_index = finalists[slot]
           /\ list[i].passes = results[slot].passes /\ list[i].passes \in BOOLEAN
<1>1. /\ finalists \in Seq(Node) /\ results \in [DOMAIN finalists -> Result]
      /\ scores \in Seq(Score)
      /\ \A j \in DOMAIN scores : \E slot \in DOMAIN finalists : scores[j] = Scored(slot, results)
  BY DEF RoundInv, Ranks
<1>2. PICK j \in DOMAIN scores : list[i] = scores[j]
  BY <1>1, RetainedFacts
<1>3. PICK slot \in DOMAIN finalists : scores[j] = Scored(slot, results)
  BY <1>1
<1>4. PICK r \in [DOMAIN finalists -> Result] : r = results
  BY <1>1
<1>5. /\ Scored(slot, r).node_index = finalists[slot]
      /\ Scored(slot, r).passes = r[slot].passes /\ r[slot].passes \in BOOLEAN
  BY <1>1, <1>3, ScoredFacts
<1>6. Scored(slot, results) = Scored(slot, r) /\ results[slot].passes = r[slot].passes
  BY <1>4
<1>7. list[i] = Scored(slot, r)
  BY <1>2, <1>3, <1>6
<1>8. /\ list[i].node_index = finalists[slot]
      /\ list[i].passes = results[slot].passes /\ list[i].passes \in BOOLEAN
  BY <1>5, <1>6, <1>7
<1> QED  BY <1>2, <1>3, <1>8

LEMMA ObservedFacts ==
  ASSUME RoundInv, phase = "scored", NEW list, list \in {scores, Retained}
  PROVE  /\ Observed(list) \in [Node -> Track]
         /\ \A n \in Node : Observed(list)[n].weight > track[n].weight =>
              \E slot \in DOMAIN finalists : finalists[slot] = n /\ ~results[slot].passes
<1> SUFFICES ASSUME NEW n \in Node
             PROVE  /\ Observed(list)[n] \in Track
                    /\ Observed(list)[n].weight > track[n].weight =>
                         \E slot \in DOMAIN finalists : finalists[slot] = n /\ ~results[slot].passes
  BY DEF Observed
<1>1. track[n] \in Track
  BY DEF RoundInv
<1>2. CASE \E i \in DOMAIN list : list[i].node_index = n
  <2>1. PICK i \in DOMAIN list : /\ list[i].node_index = n
                                 /\ Observed(list)[n] = Observe(track[n], list[i])
    BY <1>2 DEF Observed
  <2>2. PICK slot \in DOMAIN finalists :
          /\ list[i].node_index = finalists[slot]
          /\ list[i].passes = results[slot].passes /\ list[i].passes \in BOOLEAN
    BY OwnScore
  <2>3. /\ Observe(track[n], list[i]) \in Track
        /\ Observe(track[n], list[i]).weight > track[n].weight => ~list[i].passes
    BY <1>1, <2>2, TrackFacts
  <2> QED  BY <2>1, <2>2, <2>3
<1>3. CASE ~ \E i \in DOMAIN list : list[i].node_index = n
  <2>1. Observed(list)[n] = track[n]
    BY <1>3 DEF Observed
  <2>2. track[n].weight \in Nat
    BY <1>1 DEF Track
  <2> QED  BY <1>1, <2>1, <2>2
<1> QED  BY <1>2, <1>3

LEMMA RoundInit == Init => RoundInv
<1> SUFFICES ASSUME Init  PROVE RoundInv
  OBVIOUS
<1>1. phase = "idle" /\ targets = <<>> /\ track = [n \in Node |-> [weight |-> 0, age |-> 0]]
  BY DEF Init
<1>2. track \in [Node -> Track]
  BY <1>1 DEF Track
<1> QED  BY <1>1, <1>2 DEF RoundInv

LEMMA RoundNext == RoundInv /\ [Next]_vars => RoundInv'
<1> SUFFICES ASSUME RoundInv, [Next]_vars  PROVE RoundInv'
  OBVIOUS
<1>1. ASSUME NEW t \in [Node -> Targets], Sweep(t)  PROVE RoundInv'
  <2> DEFINE o == [n \in Node |-> Ping(t[n])]
  <2>1. o \in [Node -> Outcome]
    BY PingFacts
  <2>2. Promotes(SelectFinalists(o), o)
    BY <2>1, FinalistsFacts
  <2>3. phase' = "swept" /\ track' = track /\ targets' = t /\ finalists' = SelectFinalists(o)
    BY <1>1 DEF Sweep
  <2>4. Promotes(finalists', [n \in Node |-> Ping(targets'[n])])
    BY <2>2, <2>3
  <2> QED  BY <2>3, <2>4 DEF RoundInv, Promotes
<1>2. ASSUME NEW r \in [DOMAIN finalists -> Result], RunTrials(r)  PROVE RoundInv'
  <2>1. /\ phase = "swept" /\ phase' = "scored" /\ track' = track /\ targets' = <<>>
        /\ finalists' = finalists /\ results' = r /\ scores' = Shortlist(r)
    BY <1>2 DEF RunTrials
  <2>2. finalists \in Seq(Node) /\ \A i, j \in DOMAIN finalists : finalists[i] = finalists[j] => i = j
    BY <2>1 DEF RoundInv, Promotes
  <2>3. PICK list : list = Shortlist(r) /\ Ranks(list, r)
    BY <2>2, ShortlistFacts
  <2>4. Ranks(list, r)'
    BY <2>1, <2>3 DEF Ranks, Scored
  <2>5. Ranks(scores, results)'
    BY <2>1, <2>3, <2>4 DEF Ranks, Scored
  <2> QED  BY <2>1, <2>2, <2>5 DEF RoundInv
<1>3. CASE Escalate
  <2>1. phase = "scored" /\ phase' = "idle" /\ targets' = <<>> /\ track' = Observed(Retained)
    BY <1>3 DEF Escalate, RoundEnds
  <2>2. Observed(Retained) \in [Node -> Track]
    BY <2>1, ObservedFacts
  <2> QED  BY <2>1, <2>2 DEF RoundInv
<1>4. CASE Adopt
  <2>1. phase = "scored" /\ phase' = "idle" /\ targets' = <<>> /\ track' = Observed(scores)
    BY <1>4 DEF Adopt, RoundEnds
  <2>2. Observed(scores) \in [Node -> Track]
    BY <2>1, ObservedFacts
  <2> QED  BY <2>1, <2>2 DEF RoundInv
<1>5. CASE Heal
  BY <1>5 DEF Heal, RoundEnds, RoundInv
<1>6. CASE UserStop
  BY <1>6 DEF UserStop, RoundInv, Ranks, Scored, Promotes
<1>7. CASE Age
  <2>1. /\ UNCHANGED <<phase, targets, finalists, results, scores>>
        /\ track' = [n \in Node |-> [track[n] EXCEPT !.age = IF @ < MaxAge THEN @ + 1 ELSE @]]
    BY <1>7 DEF Age
  <2>2. track' \in [Node -> Track]
    <3> SUFFICES ASSUME NEW n \in Node  PROVE track'[n] \in Track
      BY <2>1
    <3>1. track[n] \in Track
      BY DEF RoundInv
    <3>2. track[n].age \in Nat /\ MaxAge \in Nat
      BY <3>1, SelectionConstants DEF Track
    <3> DEFINE a == IF track[n].age < MaxAge THEN track[n].age + 1 ELSE track[n].age
    <3>3. track'[n] = [track[n] EXCEPT !.age = a]
      BY <2>1
    <3>4. a \in Nat
      BY <3>2
    <3> HIDE DEF a
    <3> QED  BY <3>1, <3>3, <3>4 DEF Track
  <2> QED  BY <2>1, <2>2 DEF RoundInv, Ranks, Scored, Promotes
<1>8. CASE UNCHANGED vars
  BY <1>8 DEF vars, RoundInv, Ranks, Scored, Promotes
<1> QED  BY <1>1, <1>2, <1>3, <1>5, <1>7, <1>8, <1>4, <1>6 DEF Next

LEMMA RoundInvariant == Spec => []RoundInv
BY RoundInit, RoundNext, PTL DEF Spec

\* cheap_sweep and select_finalists, for every catalog and every answer of every
\* address: what a sweep says of a node is what its addresses proved, and no
\* faster node is left out.
THEOREM SweepsAreFair == Spec => []SweepIsFair
<1>1. RoundInv => SweepIsFair
  <2> SUFFICES ASSUME RoundInv  PROVE SweepIsFair
    OBVIOUS
  <2>1. targets = <<>> \/ targets \in [Node -> Targets]
    BY DEF RoundInv
  <2>2. phase = "swept" => /\ targets \in [Node -> Targets]
                           /\ Promotes(finalists, [n \in Node |-> Ping(targets[n])])
    BY DEF RoundInv
  <2> QED  BY <2>1, <2>2, SweepSound, FinalistsFastest DEF SweepIsFair
<1> QED  BY <1>1, RoundInvariant, PTL

-----------------------------------------------------------------------------
(* The choice.                                                             *)

LEMMA WorkingFacts ==
  ASSUME RoundInv, phase = "scored", NEW list, list \in {scores, Retained}, NEW n \in Working(list)
  PROVE  \E slot \in DOMAIN finalists : finalists[slot] = n /\ results[slot].passes
<1>1. PICK i \in DOMAIN list : list[i].passes /\ n = list[i].node_index
  BY DEF Working, ToSet
<1>2. PICK slot \in DOMAIN finalists :
        /\ list[i].node_index = finalists[slot]
        /\ list[i].passes = results[slot].passes
  BY OwnScore
<1> QED  BY <1>1, <1>2

\* escalate, auto_adopt and heal_or_stay_degraded, for every catalog, every number of
\* finalists and every labelling: a switch goes to a node that passed its trial.
THEOREM SwitchesToPassers == Spec => SwitchesToAPasser
<1> DEFINE Goal == active' \notin {active, None} =>
                     \E slot \in DOMAIN finalists : finalists[slot] = active' /\ results[slot].passes
<1>1. ASSUME RoundInv, [Next]_vars  PROVE [Goal]_vars
  <2> SUFFICES ASSUME active' \notin {active, None}
               PROVE  \E slot \in DOMAIN finalists : finalists[slot] = active' /\ results[slot].passes
    OBVIOUS
  <2>1. phase = "scored" /\ active' \in Working(Retained) \cup Working(scores)
    BY <1>1 DEF vars, Next, Sweep, RunTrials, Escalate, Adopt, Heal, UserStop, Age, SwitchTo, Stay
  <2>2. PICK n : n = active'
    OBVIOUS
  <2>3. \E list \in {scores, Retained} : n \in Working(list)
    BY <2>1, <2>2
  <2> QED  BY <1>1, <2>1, <2>2, <2>3, WorkingFacts
<1> QED  BY <1>1, RoundInvariant, PTL DEF Spec, SwitchesToAPasser

\* observe_round, for every catalog and every shortlist: a failure is recorded of
\* a node only when its own trial of this round missed the quorum.
THEOREM HistoriesAreTheirOwn == Spec => HistoryIsTheirOwn
<1> DEFINE Goal == \A n \in Node : track'[n].weight > track[n].weight =>
                     \E slot \in DOMAIN finalists : finalists[slot] = n /\ ~results[slot].passes
<1>1. ASSUME RoundInv, [Next]_vars  PROVE [Goal]_vars
  <2> SUFFICES ASSUME NEW n \in Node, track'[n].weight > track[n].weight
               PROVE  \E slot \in DOMAIN finalists : finalists[slot] = n /\ ~results[slot].passes
    OBVIOUS
  <2>1. track[n] \in Track /\ track[n].weight \in Nat
    BY <1>1 DEF RoundInv, Track
  <2>2. CASE Escalate
    <3>1. phase = "scored" /\ track' = Observed(Retained)
      BY <2>2 DEF Escalate
    <3> QED  BY <1>1, <3>1, ObservedFacts
  <2>5. CASE Adopt
    <3>1. phase = "scored" /\ track' = Observed(scores)
      BY <2>5 DEF Adopt
    <3> QED  BY <1>1, <3>1, ObservedFacts
  <2>3. CASE Age
    <3>1. track'[n].weight = track[n].weight
      BY <2>1, <2>3 DEF Age, Track
    <3> QED  BY <2>1, <3>1
  <2>4. CASE track' = track
    BY <2>1, <2>4
  <2> QED  BY <1>1, <2>2, <2>3, <2>4, <2>5 DEF vars, Next, Sweep, RunTrials, Heal, UserStop
<1> QED  BY <1>1, RoundInvariant, PTL DEF Spec, HistoryIsTheirOwn

-----------------------------------------------------------------------------
(* Scores and ranks.                                                       *)

LEMMA ReachabilityFalls ==
  ASSUME NEW a \in Nat, NEW b \in Nat, a # NoLatency, a <= b
  PROVE  reachability_health(TRUE, b) <= reachability_health(TRUE, a)
<1>1. b \div 12 >= a \div 12 /\ a \div 12 \in Int /\ b \div 12 \in Int
  OBVIOUS
<1> QED  BY <1>1 DEF reachability_health, Clamp, Least, NoLatency, Ceiling

LEMMA VerifiedFalls ==
  ASSUME NEW a \in Nat, NEW b \in Nat, a # NoLatency, a <= b
  PROVE  verified_health(TRUE, b) <= verified_health(TRUE, a)
<1>1. b \div 8 >= a \div 8 /\ a \div 8 \in Int /\ b \div 8 \in Int
  OBVIOUS
<1> QED  BY <1>1 DEF verified_health, Least, NoLatency

LEMMA AliveIsMeasured ==
  ASSUME NEW t \in Targets, alive(Ping(t))
  PROVE  Ping(t).latency # NoLatency
<1>1. PICK i \in Answered(t) : Ping(t).latency = t.answers[i].ms
  BY PingFacts
<1>2. i \in DOMAIN t.answers /\ t.answers[i].event = "answers"
  BY DEF Answered
<1> QED  BY <1>1, <1>2, SelectionConstants

\* The window's score of a sweep: only of what answered, and then by its latency.
LEMMA SweptFacts ==
  ASSUME NEW o \in Outcome
  PROVE  Swept(o).health = IF alive(o) THEN reachability_health(TRUE, o.latency) ELSE 0
<1>1. CASE is_unknown(o)
  <2>1. Swept(o).health = 0 /\ ~alive(o)
    BY <1>1 DEF Swept, Unwritten, alive, is_unknown
  <2> QED  BY <2>1
<1>2. CASE ~is_unknown(o) /\ alive(o)
  <2>1. Swept(o).health = reachability_health(alive(o), o.latency)
    BY <1>2 DEF Swept, SweepReading
  <2> QED  BY <1>2, <2>1
<1>3. CASE ~is_unknown(o) /\ ~alive(o)
  <2>1. Swept(o).health = reachability_health(alive(o), o.latency)
    BY <1>3 DEF Swept, SweepReading
  <2> QED  BY <1>3, <2>1 DEF reachability_health
<1> QED  BY <1>1, <1>2, <1>3

LEMMA SweepScores ==
  ASSUME RoundInv, phase = "swept",
         NEW m \in ToSet(finalists), NEW n \in Node \ ToSet(finalists), alive(outcomes[m])
  PROVE  Swept(outcomes[n]).health <= Swept(outcomes[m]).health
<1>1. targets \in [Node -> Targets] /\ Promotes(finalists, [k \in Node |-> Ping(targets[k])])
  BY DEF RoundInv
<1>2. FastestPromoted
  BY <1>1, FinalistsFastest
<1>3. m \in Node /\ n \in Node
  BY <1>1 DEF Promotes
<1>4. \A k \in Node : outcomes[k] = Ping(targets[k]) /\ targets[k] \in Targets
  BY <1>1 DEF outcomes
<1> DEFINE o == outcomes[n]
           q == outcomes[m]
<1>5. o \in Outcome /\ q \in Outcome /\ (alive(o) => o.latency # NoLatency) /\ q.latency # NoLatency
  BY <1>3, <1>4, PingFacts, AliveIsMeasured
<1>6. alive(o) => ~is_dead(o)
  BY DEF alive, is_dead
<1>7. alive(o) => q.latency <= o.latency
  BY <1>2, <1>3, <1>5, <1>6 DEF FastestPromoted
<1> HIDE DEF o, q
<1>8. o.latency \in Nat /\ q.latency \in Nat
  BY <1>5, UntestedFacts DEF Outcome
<1>9. Swept(q).health = reachability_health(TRUE, q.latency)
  BY <1>5, SweptFacts DEF q
<1>10. CASE alive(o)
  <2>1. Swept(o).health = reachability_health(TRUE, o.latency)
    BY <1>5, <1>10, SweptFacts
  <2> QED  BY <1>5, <1>7, <1>8, <1>9, <1>10, <2>1, ReachabilityFalls DEF o, q
<1>11. CASE ~alive(o)
  <2>1. Swept(o).health = 0
    BY <1>5, <1>11, SweptFacts
  <2>2. reachability_health(TRUE, q.latency) >= 0
    <3>1. q.latency \div 12 \in Int
      BY <1>8
    <3> QED  BY <1>5, <3>1 DEF reachability_health, Clamp, Least, Ceiling
  <2> QED  BY <1>9, <2>1, <2>2 DEF o, q
<1> QED  BY <1>10, <1>11

LEMMA LevelFacts == \A l \in Level : l \in Nat \ {0} /\ l <= Untested
BY SelectionConstants, UntestedFacts

\* The window's score of a trial: none without a quorum, else by its median, which
\* fits into 16 bits.
LEMMA TriedFacts ==
  ASSUME NEW s \in Score, s.passes => s.median \in Level
  PROVE  /\ Tried(s).verified = s.passes
         /\ s.passes => Tried(s).health = verified_health(TRUE, s.median)
         /\ s.passes => Tried(s).health \in 10..100
         /\ ~s.passes => Tried(s).health = 0
<1>1. s.passes \in BOOLEAN
  BY DEF Score
<1> DEFINE ms == IF s.median = Silent THEN NoLatency ELSE s.median
<1>2. Tried(s).verified = s.passes /\ Tried(s).health = verified_health(s.passes, AsU16(ms))
  BY DEF Tried, TrialReading
<1>3. ASSUME s.passes
      PROVE  Tried(s).health = verified_health(TRUE, s.median) /\ Tried(s).health \in 10..100
  <2>1. s.median \in Nat \ {0} /\ s.median <= Untested
    <3>1. s.median \in Level
      BY <1>3
    <3> QED  BY <3>1, LevelFacts
  <2>2. ms = s.median
    BY <2>1 DEF Silent, Untested
  <2>3. AsU16(ms) = s.median
    BY <2>1, <2>2 DEF AsU16, Untested
  <2>4. Tried(s).health = verified_health(TRUE, s.median)
    BY <1>2, <1>3, <2>3
  <2>5. s.median \div 8 \in Nat
    BY <2>1
  <2> QED  BY <2>1, <2>4, <2>5 DEF verified_health, Least, NoLatency
<1>4. ASSUME ~s.passes  PROVE Tried(s).health = 0
  BY <1>2, <1>4 DEF verified_health
<1> QED  BY <1>1, <1>2, <1>3, <1>4

\* sort_ranked, the cut and the scores shown, for every catalog, limit and trial.
LEMMA RankFollows ==
  ASSUME RoundInv
  PROVE  ScoreFollowsRank
<1>1. ASSUME phase = "scored"
      PROVE  /\ finalists \in Seq(Node) /\ results \in [DOMAIN finalists -> Result]
             /\ scores \in Seq(Score)
             /\ \A i, j \in DOMAIN scores : i < j => Before(scores[i], scores[j])
             /\ \A slot \in DOMAIN finalists :
                  \/ \E i \in DOMAIN scores : scores[i] = Scored(slot, results)
                  \/ \A i \in DOMAIN scores : Before(scores[i], Scored(slot, results))
  BY <1>1 DEF RoundInv, Ranks
<1>2. ASSUME phase = "scored", NEW slot \in DOMAIN finalists
      PROVE  /\ Scored(slot, results).node_index = finalists[slot]
             /\ Scored(slot, results).passes = results[slot].passes
             /\ results[slot].passes => results[slot].median \in Level
             /\ Scored(slot, results).median = results[slot].median
  <2>1. PICK r \in [DOMAIN finalists -> Result] : r = results
    BY <1>1, <1>2
  <2> QED  BY <1>1, <1>2, <2>1, ScoredFacts
<1>3. ASSUME phase = "scored", NEW i \in DOMAIN scores
      PROVE  scores[i] \in Score /\ (scores[i].passes => scores[i].median \in Level)
  <2>1. PICK slot \in DOMAIN finalists : scores[i] = Scored(slot, results)
    BY <1>3, OwnScore
  <2> QED  BY <1>1, <1>2, <1>3, <2>1
<1>4. ASSUME phase = "scored", NEW i \in DOMAIN scores, NEW j \in DOMAIN scores
      PROVE  scores[j].passes /\ ~scores[i].passes => j < i
  <2>1. i \in Nat /\ j \in Nat
    BY <1>1, <1>4
  <2>2. i < j => ~(scores[j].passes /\ ~scores[i].passes)
    BY <1>1, <1>4 DEF Before
  <2> QED  BY <2>1, <2>2
<1>5. ASSUME phase = "scored", NEW slot \in DOMAIN finalists, results[slot].passes,
             NEW i \in DOMAIN scores, ~scores[i].passes
      PROVE  \E k \in DOMAIN scores : scores[k].node_index = finalists[slot]
  <2>1. ~Before(scores[i], Scored(slot, results))
    BY <1>2, <1>5 DEF Before
  <2>2. PICK k \in DOMAIN scores : scores[k] = Scored(slot, results)
    BY <1>1, <1>5, <2>1
  <2> QED  BY <1>2, <1>5, <2>2
<1>6. WorksBeforeReachable
  BY <1>4, <1>5 DEF WorksBeforeReachable
<1>7. ASSUME phase = "scored", NEW i \in DOMAIN scores, NEW j \in DOMAIN scores, i < j
      PROVE  Tried(scores[i]).health >= Tried(scores[j]).health
  <2> DEFINE a == scores[i]
             b == scores[j]
  <2>1. Before(a, b)
    BY <1>1, <1>7
  <2>2. a \in Score /\ b \in Score /\ (a.passes => a.median \in Level) /\ (b.passes => b.median \in Level)
    BY <1>3, <1>7
  <2> HIDE DEF a, b
  <2>3. /\ a.passes => Tried(a).health = verified_health(TRUE, a.median) /\ Tried(a).health \in 10..100
        /\ ~a.passes => Tried(a).health = 0
    BY <2>2, TriedFacts
  <2>4. /\ b.passes => Tried(b).health = verified_health(TRUE, b.median)
        /\ ~b.passes => Tried(b).health = 0
    BY <2>2, TriedFacts
  <2>5. CASE ~b.passes
    <3>1. CASE a.passes
      <4>1. Tried(a).health \in 10..100 /\ Tried(b).health = 0
        BY <2>3, <2>4, <2>5, <3>1, Zenon
      <4> QED  BY <4>1 DEF a, b
    <3>2. CASE ~a.passes
      <4>1. Tried(a).health = 0 /\ Tried(b).health = 0
        BY <2>3, <2>4, <2>5, <3>2, Zenon
      <4> QED  BY <4>1 DEF a, b
    <3> QED  BY <3>1, <3>2
  <2>6. CASE b.passes
    <3>0. a.passes = b.passes /\ (a.median < b.median \/ a.median = b.median)
      BY <2>1, <2>6, Zenon DEF Before
    <3>1a. a.passes
      BY <2>6, <3>0, Zenon
    <3>2. a.median \in Nat \ {0} /\ b.median \in Nat
      <4>1. a.median \in Level /\ b.median \in Level
        BY <2>2, <2>6, <3>1a
      <4> QED  BY <4>1, LevelFacts
    <3>1. a.passes /\ a.median <= b.median
      BY <3>0, <3>1a, <3>2
    <3>3. verified_health(TRUE, b.median) <= verified_health(TRUE, a.median)
      BY <3>1, <3>2, VerifiedFalls DEF NoLatency
    <3> QED  BY <2>3, <2>4, <2>6, <3>1, <3>3 DEF a, b
  <2> QED  BY <2>5, <2>6
<1>8. ASSUME phase = "scored", NEW s \in ToSet(scores)
      PROVE  Tried(s).verified = s.passes /\ (Tried(s).health > 0 <=> s.passes) /\ Tried(s).health <= 100
  <2>1. PICK i \in DOMAIN scores : s = scores[i]
    BY DEF ToSet
  <2>2. s \in Score /\ (s.passes => s.median \in Level)
    BY <1>3, <1>8, <2>1
  <2>3. /\ Tried(s).verified = s.passes
        /\ s.passes => Tried(s).health \in 10..100
        /\ ~s.passes => Tried(s).health = 0
    BY <2>2, TriedFacts
  <2>4. CASE s.passes
    <3>1. Tried(s).health \in 10..100
      BY <2>3, <2>4, Zenon
    <3>2. Tried(s).health > 0 /\ Tried(s).health <= 100
      BY <3>1
    <3> QED  BY <2>3, <2>4, <3>2, Zenon
  <2>5. CASE ~s.passes
    <3>1. Tried(s).health = 0
      BY <2>3, <2>5, Zenon
    <3>2. ~(Tried(s).health > 0) /\ Tried(s).health <= 100
      BY <3>1
    <3> QED  BY <2>3, <2>5, <3>2, Zenon
  <2> QED  BY <2>4, <2>5
<1> QED  BY <1>6, <1>7, <1>8, SweepScores DEF ScoreFollowsRank

\* sort_ranked, select_finalists and the window's two formulas, for every catalog:
\* what is shown agrees with what is chosen.
THEOREM ScoresFollowRanks == Spec => []ScoreFollowsRank
BY RankFollows, RoundInvariant, PTL
=============================================================================
