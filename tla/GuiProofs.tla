------------------------------ MODULE GuiProofs ------------------------------
(***************************************************************************)
(* What the window shows.                                                  *)
(*                                                                         *)
(* Snapshot: a real node's row shows no other real node's reading although *)
(* the two layers are replaced one after the other and the metric worker   *)
(* publishes copies that an import has overtaken: a real reading sits at   *)
(* the index its node has in the database, which is the node's index in    *)
(* every catalog that has it.                                              *)
(*                                                                         *)
(* Viewport: the node list never misses a wake-up: the last projection     *)
(* that is under way, wherever it is, is the wanted one.                   *)
(***************************************************************************)
EXTENDS Snapshot, Viewport, SequenceTheorems, TLAPS

-----------------------------------------------------------------------------
(* The snapshot layers.                                                    *)

\* The node of a real reading is in the database.
Known(r) == r.of.demo \/ \E k \in DOMAIN Catalogs[db] : Catalogs[db][k] = r.of

\* Every real entry of an arena or of a copy of one is where the database has its
\* node.
Placed(a) ==
  \A i \in DOMAIN a : a[i] = Untested \/ a[i].of.demo \/
     (i \in DOMAIN Catalogs[db] /\ Catalogs[db][i] = a[i].of)

LayersInv ==
  /\ db \in DOMAIN Catalogs /\ store \in DOMAIN Catalogs /\ store <= db
  /\ queue \in Seq(Reading) /\ acc \subseteq Reading /\ updates \subseteq Reading
  /\ \A i \in DOMAIN queue : Known(queue[i])
  /\ \A r \in acc \cup updates : Known(r)
  /\ Placed(arena) /\ Placed(copy)

\* The catalogs' indices.
LEMMA CatalogIndices ==
  /\ DOMAIN Catalogs = 1..Len(Catalogs) /\ Len(Catalogs) \in Nat /\ Len(Catalogs) >= 1
  /\ \A i \in DOMAIN Catalogs : Catalogs[i] \in Seq([id: Nat \ {0}, demo: BOOLEAN])
BY SnapshotConstants

\* A real row stays where it is.
LEMMA RowStays ==
  ASSUME Appends(Catalogs), NEW c \in DOMAIN Catalogs, NEW d \in DOMAIN Catalogs, c <= d,
         NEW k \in DOMAIN Catalogs[c], ~Catalogs[c][k].demo
  PROVE  k \in DOMAIN Catalogs[d] /\ Catalogs[d][k] = Catalogs[c][k]
<1>1. c \in Nat /\ d \in Nat
  BY CatalogIndices
<1>2. CASE c < d
  BY <1>2 DEF Appends
<1> QED  BY <1>1, <1>2

LEMMA LayersInit == ASSUME Init  PROVE LayersInv
<1>1. queue \in Seq(Reading) /\ DOMAIN queue = {}
  BY EmptySeq DEF Init
<1>2. Placed(arena) /\ Placed(copy)
  BY DEF Init, Placed, FromStore
<1> QED  BY <1>1, <1>2, CatalogIndices DEF Init, LayersInv

LEMMA LayersNext == ASSUME Appends(Catalogs), LayersInv, [Next]_vars  PROVE LayersInv'
<1> USE DEF LayersInv, layers
<1>1. CASE Import
  <2>1. db' \in DOMAIN Catalogs /\ db <= db' /\ store <= db'
    BY <1>1, CatalogIndices DEF Import
  <2>2. ASSUME NEW k \in DOMAIN Catalogs[db], ~Catalogs[db][k].demo
        PROVE  k \in DOMAIN Catalogs[db'] /\ Catalogs[db'][k] = Catalogs[db][k]
    BY <2>1, <2>2, RowStays
  <2>3. ASSUME NEW r, Known(r)  PROVE Known(r)'
    BY <2>2, <2>3 DEF Known
  <2>4. ASSUME NEW a, Placed(a)
        PROVE  \A i \in DOMAIN a : a[i] = Untested \/ a[i].of.demo \/
                 (i \in DOMAIN Catalogs[db'] /\ Catalogs[db'][i] = a[i].of)
    BY <2>2, <2>4 DEF Placed
  <2>5. Placed(arena)' /\ Placed(copy)'
    BY <1>1, <2>4 DEF Import, Placed
  <2> QED  BY <1>1, <2>1, <2>3, <2>5 DEF Import, Known
<1>2. CASE ReplaceStore
  BY <1>2, CatalogIndices DEF ReplaceStore, Placed, Known
<1>3. CASE ReplaceMetrics
  BY <1>3 DEF ReplaceMetrics, Placed, Known, FromStore
<1>4. CASE Accumulate
  <2>1. /\ Head(queue) \in Reading /\ Tail(queue) \in Seq(Reading) /\ Known(Head(queue))
        /\ \A i \in DOMAIN Tail(queue) : i + 1 \in DOMAIN queue /\ Tail(queue)[i] = queue[i + 1]
    BY <1>4, HeadTailProperties, LenProperties DEF Accumulate
  <2>2. \A i \in DOMAIN Tail(queue) : Known(Tail(queue)[i])
    BY <2>1
  <2> QED  BY <1>4, <2>1, <2>2 DEF Accumulate, Insert, Placed, Known
<1>5. CASE PublishClone
  BY <1>5 DEF PublishClone, Placed, Known
<1>6. CASE PublishApply
  <2>1. ASSUME NEW i \in DOMAIN copy, NEW r \in updates, ~r.of.demo,
               i \in IndexOf(Catalogs[store], r.of.id)
        PROVE  i \in DOMAIN Catalogs[db] /\ Catalogs[db][i] = r.of
    <3>1. PICK k \in DOMAIN Catalogs[db] : Catalogs[db][k] = r.of
      BY <2>1 DEF Known
    <3>2. i \in DOMAIN Catalogs[store] /\ Catalogs[store][i].id = Catalogs[db][k].id
      BY <2>1, <3>1 DEF IndexOf
    <3>3. i = k
      BY <3>2 DEF Appends
    <3> QED  BY <3>1, <3>3
  <2>2. DOMAIN Applied = DOMAIN copy
    BY DEF Applied
  <2>3. ASSUME NEW i \in DOMAIN copy
        PROVE  Applied[i] = Untested \/ Applied[i].of.demo \/
                 (i \in DOMAIN Catalogs[db] /\ Catalogs[db][i] = Applied[i].of)
    <3> DEFINE found == {r \in updates : i \in IndexOf(Catalogs[store], r.of.id)}
    <3>1. Applied[i] = ApplyUpdate(copy[i], found)
      BY DEF Applied
    <3>2. found = {} \/ Applied[i] \in found
      BY <3>1 DEF ApplyUpdate
    <3>3. found = {} => Applied[i] = copy[i]
      BY <3>1 DEF ApplyUpdate
    <3> QED  BY <2>1, <3>2, <3>3 DEF Placed
  <2>4. Placed(Applied)
    BY <2>2, <2>3 DEF Placed
  <2> QED  BY <1>6, <2>4 DEF PublishApply, Placed, Known
<1>7. CASE PublishStore
  BY <1>7 DEF PublishStore, Placed, Known
<1>8. ASSUME NEW r \in Reports, Enqueue(r)  PROVE LayersInv'
  <2>1. r \in Reading
    BY DEF Reports
  <2>2. Known(r)
    <3>1. PICK c \in 1..db : r.of \in ToSet(Catalogs[c])
      BY DEF Reports
    <3>2. PICK k \in DOMAIN Catalogs[c] : Catalogs[c][k] = r.of
      BY <3>1 DEF ToSet
    <3>3. c \in DOMAIN Catalogs /\ c <= db
      BY CatalogIndices
    <3> QED  BY <3>2, <3>3, RowStays DEF Known
  <2>3. /\ Append(queue, r) \in Seq(Reading)
        /\ \A i \in DOMAIN Append(queue, r) :
             Append(queue, r)[i] = r \/ (i \in DOMAIN queue /\ Append(queue, r)[i] = queue[i])
    BY <2>1, AppendProperties, LenProperties
  <2>4. queue' \in Seq(Reading) /\ \A i \in DOMAIN queue' : Known(queue'[i])
    BY <1>8, <2>2, <2>3 DEF Enqueue
  <2> QED  BY <1>8, <2>4 DEF Enqueue, Placed, Known
<1>9. CASE UNCHANGED vars
  BY <1>9 DEF vars, Placed, Known
<1> QED
  BY <1>1, <1>2, <1>3, <1>4, <1>5, <1>6, <1>7, <1>8, <1>9 DEF Next, UI, Work

\* A real node's row never shows another real node's reading, for every catalog,
\* every number of imports, demo rows first or not, and every capacity of the
\* queue, whatever publish_metrics and replace catch each other between.
THEOREM RowsShowTheirOwn ==
  ASSUME Appends(Catalogs)
  PROVE  Spec => []ShownIsMeasured
<1>1. Init => LayersInv
  BY LayersInit
<1>2. LayersInv /\ [Next]_vars => LayersInv'
  BY LayersNext
<1>3. LayersInv => ShownIsMeasured
  <2> SUFFICES ASSUME LayersInv, NEW i \in DOMAIN arena \cap DOMAIN Catalogs[store],
                      arena[i] # Untested, ~arena[i].of.demo, ~Catalogs[store][i].demo
               PROVE  arena[i].of = Catalogs[store][i]
    BY DEF ShownIsMeasured
  <2>1. Catalogs[db][i] = arena[i].of
    BY DEF LayersInv, Placed
  <2>2. Catalogs[db][i] = Catalogs[store][i]
    BY RowStays DEF LayersInv
  <2> QED  BY <2>1, <2>2
<1> QED  BY <1>1, <1>2, <1>3, PTL DEF Spec

-----------------------------------------------------------------------------
(* The node list.                                                          *)

AnyProjection == [store: Nat, view: View]

ListShape ==
  /\ view \in View /\ imported \in Nat /\ request \in View \cup {NoView}
  /\ projector \in {"recv", "load", "send"} /\ job \in AnyProjection
  /\ results \in Seq(AnyProjection) /\ shown \in AnyProjection

\* A request is for the desired view.
LatestRequest == request \in {view, NoView}

\* With no request waiting, the worker's job is for the desired view and, unless
\* the UI thread is about to refresh, for the current store once it has one.
LatestJob ==
  request = NoView /\ projector # "recv" =>
    /\ job.view = view
    /\ ~refreshing /\ projector = "send" => job.store = imported

\* With no job either, the last result is the wanted projection.
LatestResult ==
  request = NoView /\ projector = "recv" /\ results # <<>> =>
    /\ results[Len(results)].view = view
    /\ ~refreshing => results[Len(results)].store = imported

\* With nothing under way, the wanted projection is installed.
LatestShown ==
  request = NoView /\ projector = "recv" /\ results = <<>> =>
    /\ shown.view = view
    /\ ~refreshing => shown.store = imported

Pipeline == ListShape /\ LatestRequest /\ LatestJob /\ LatestResult /\ LatestShown

\* The last element of a sequence, and of one just extended.
LEMMA LastElement ==
  ASSUME NEW S, NEW s \in Seq(S), s # <<>>
  PROVE  s[Len(s)] \in S
  BY EmptySeq, LenProperties, ElementOfSeq

LEMMA LastOfAppend ==
  ASSUME NEW S, NEW s \in Seq(S), NEW e \in S
  PROVE  /\ Append(s, e) \in Seq(S) /\ Append(s, e) # <<>>
         /\ Append(s, e)[Len(Append(s, e))] = e
  BY AppendProperties

LEMMA PipelineInit == ASSUME ViewportInit PROVE Pipeline
<1>1. results \in Seq(AnyProjection)
  BY EmptySeq DEF ViewportInit
<1> QED
  BY <1>1 DEF ViewportInit, Pipeline, ListShape, AnyProjection, LatestRequest, LatestJob, LatestResult, LatestShown

LEMMA PipelineNext == ASSUME Pipeline, [ViewportNext]_viewportVars PROVE Pipeline'
<1> USE ViewportConstants DEF Pipeline, ListShape, AnyProjection
<1>1. ASSUME NEW v \in View, ChangeView(v) PROVE Pipeline'
  BY <1>1 DEF ChangeView, RequestLatest, LatestRequest, LatestJob, LatestResult, LatestShown
<1>2. CASE Replace
  BY <1>2 DEF Replace, LatestRequest, LatestJob, LatestResult, LatestShown
<1>3. CASE Refresh
  BY <1>3 DEF Refresh, RequestLatest, LatestRequest, LatestJob, LatestResult, LatestShown
<1>4. ASSUME NEW resort \in BOOLEAN, Tick(resort) PROVE Pipeline'
  <2>1. results' \in Seq(AnyProjection) /\ results' = <<>>
    BY <1>4, EmptySeq DEF Tick
  <2>2. CASE results = <<>>
    BY <1>4, <2>1, <2>2 DEF Tick, RequestLatest, LatestRequest, LatestJob, LatestResult, LatestShown
  <2>3. CASE results # <<>>
    <3>1. results[Len(results)] \in AnyProjection
      BY <2>3, LastElement
    <3> QED
      BY <1>4, <2>1, <2>3, <3>1
      DEF Tick, RequestLatest, StillServed, LatestRequest, LatestJob, LatestResult, LatestShown
  <2> QED BY <2>2, <2>3
<1>5. CASE TakeRequest
  BY <1>5 DEF TakeRequest, LatestRequest, LatestJob, LatestResult, LatestShown
<1>6. CASE LoadStore
  BY <1>6 DEF LoadStore, LatestRequest, LatestJob, LatestResult, LatestShown
<1>7. CASE SendResult
  <2>1. /\ results' \in Seq(AnyProjection) /\ results' # <<>>
        /\ results'[Len(results')] = job
    BY <1>7, LastOfAppend DEF SendResult
  <2> QED
    BY <1>7, <2>1 DEF SendResult, LatestRequest, LatestJob, LatestResult, LatestShown
<1>8. ASSUME NEW ids, Publish(ids) PROVE Pipeline'
  BY <1>8 DEF Publish, LatestRequest, LatestJob, LatestResult, LatestShown
<1>9. CASE UNCHANGED viewportVars
  BY <1>9 DEF viewportVars, LatestRequest, LatestJob, LatestResult, LatestShown
<1> QED
  BY <1>1, <1>2, <1>3, <1>4, <1>5, <1>6, <1>7, <1>8, <1>9 DEF ViewportNext, Project

\* No lost wake-up, for any number of views, imports and channel capacities:
\* the pipeline of requests, jobs and results ends in the wanted projection.
THEOREM NoLostWakeUp == ViewportSafety => []WorkPending
<1>1. ViewportInit => Pipeline
  BY PipelineInit
<1>2. Pipeline /\ [ViewportNext]_viewportVars => Pipeline'
  BY PipelineNext
<1>3. Pipeline => WorkPending
  BY DEF Pipeline, ListShape, AnyProjection, LatestShown, WorkPending, Wanted
<1> QED
  BY <1>1, <1>2, <1>3, PTL DEF ViewportSafety
=============================================================================
