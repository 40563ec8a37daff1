------------------------------ MODULE Viewport ------------------------------
(***************************************************************************)
(* The virtualised node list of the GUI (virtual_model.rs) and the timer   *)
(* that drives it (dispatcher.rs).  The UI thread asks for projections and *)
(* installs finished ones; a worker thread computes them from whatever     *)
(* store is published when it gets to it; the metric worker announces      *)
(* changed rows through a bounded queue whose overflow is ignored.         *)
(*                                                                         *)
(* A store is the number of its import, a view one of the user's searches  *)
(* and sort orders.  Of a row we keep whether what is on screen is older   *)
(* than the published reading.                                             *)
(***************************************************************************)
EXTENDS Naturals, Sequences

CONSTANTS
  View,          \* search text, filters and sort order
  NoView,        \* no request is waiting
  MetricSorted,  \* the views whose order depends on readings
  Row,           \* nodes on screen whose readings change
  Imports,       \* bound: imports
  Results,       \* capacity of the projection channel (4 in the code)
  Batches        \* capacity of the changed_ids queue (64 in the code)

ASSUME ViewportConstants ==
  /\ MetricSorted \subseteq View /\ NoView \notin View /\ Imports \in Nat
  /\ Results \in Nat \ {0} /\ Batches \in Nat \ {0}

VARIABLES
  imported,    \* the published store
  view,        \* desired_view
  refreshing,  \* the UI thread replaced the store and has yet to refresh
  request,     \* the last view in the request channel: the worker skips the others
  projector,   \* the projection worker: "recv", "load", "send"
  job,         \* the worker's projection
  results,     \* finished projections
  shown,       \* the installed projection: its store and its view
  changed,     \* batches of changed row ids
  stale        \* rows whose reading on screen is out of date

viewportVars == <<imported, view, refreshing, request, projector, job, results, shown, changed, stale>>

Store      == 0..Imports
Projection == [store: Store, view: View]

ViewportInit ==
  /\ imported = 0 /\ view \in View /\ refreshing = FALSE
  /\ request = NoView /\ results = <<>>
  /\ shown = [store |-> imported, view |-> view]
  /\ projector = "recv" /\ job = shown
  /\ changed = <<>> /\ stale = {}

-----------------------------------------------------------------------------
(* The UI thread.                                                          *)

\* Send to the request channel; what the worker will skip is not kept.
RequestLatest(v) == request' = v

\* The search box or the sort order changes.
ChangeView(v) ==
  /\ ~refreshing /\ v # view
  /\ view' = v
  /\ RequestLatest(v)
  /\ UNCHANGED <<imported, refreshing, projector, job, results, shown, changed, stale>>

\* Import: the store is replaced, then the view refreshed.
Replace ==
  /\ ~refreshing /\ imported < Imports
  /\ imported' = imported + 1
  /\ refreshing' = TRUE
  /\ UNCHANGED <<view, request, projector, job, results, shown, changed, stale>>

\* Mutant of Refresh: the import does not ask for a new projection.
RefreshNothing ==
  /\ refreshing
  /\ refreshing' = FALSE
  /\ UNCHANGED <<imported, view, request, projector, job, results, shown, changed, stale>>

Refresh ==
  /\ refreshing
  /\ refreshing' = FALSE
  /\ RequestLatest(view)
  /\ UNCHANGED <<imported, view, projector, job, results, shown, changed, stale>>

\* The projection is of the store being served.
StillServed(p) == p.store = imported

\* Mutant of Resort: the periodic refresh is missing.
ResortNever == FALSE

\* A metric-dependent order is recomputed once in a while.
Resort == view \in MetricSorted

\* notify_metrics for every batch that got into the queue.
Repainted == UNION {changed[i] : i \in DOMAIN changed}

\* The timer: the newest finished projection is installed or asked for again,
\* changed rows are repainted, and once in a while the order is refreshed.
Tick(resort) ==
  LET newest == results[Len(results)]
      installs == results # <<>> /\ StillServed(newest)
  IN
  /\ ~refreshing
  /\ resort => Resort
  /\ results' = <<>>
  /\ shown' = IF installs THEN newest ELSE shown
  /\ IF (results # <<>> /\ ~installs) \/ resort
     THEN RequestLatest(view)
     ELSE UNCHANGED request
  /\ changed' = <<>>
  /\ stale' = IF installs THEN {} ELSE stale \ Repainted
  /\ UNCHANGED <<imported, view, refreshing, projector, job>>

-----------------------------------------------------------------------------
(* The projection worker and the metric worker.                            *)

\* recv, and try_recv to the last request.
TakeRequest ==
  /\ projector = "recv" /\ request # NoView
  /\ job' = [job EXCEPT !.view = request]
  /\ request' = NoView
  /\ projector' = "load"
  /\ UNCHANGED <<imported, view, refreshing, results, shown, changed, stale>>

\* load_full: the store as it is now.
LoadStore ==
  /\ projector = "load"
  /\ job' = [job EXCEPT !.store = imported]
  /\ projector' = "send"
  /\ UNCHANGED <<imported, view, refreshing, request, results, shown, changed, stale>>

\* Mutant of SendResult: try_send instead of send.
SendResultTry ==
  /\ projector = "send"
  /\ results' = IF Len(results) < Results
                THEN Append(results, job) ELSE results
  /\ projector' = "recv"
  /\ UNCHANGED <<imported, view, refreshing, request, job, shown, changed, stale>>

\* The bounded channel blocks while it is full.
SendResult ==
  /\ projector = "send" /\ Len(results) < Results
  /\ results' = Append(results, job)
  /\ projector' = "recv"
  /\ UNCHANGED <<imported, view, refreshing, request, job, shown, changed, stale>>

\* A publication: new readings, and their ids for the timer; when the queue is
\* full the ids are lost.
Publish(ids) ==
  /\ stale' = stale \cup ids
  /\ changed' = IF Len(changed) < Batches THEN Append(changed, ids) ELSE changed
  /\ UNCHANGED <<imported, view, refreshing, request, projector, job, results, shown>>

-----------------------------------------------------------------------------
Project == TakeRequest \/ LoadStore \/ SendResult
ViewportNext ==
  \/ \E v \in View : ChangeView(v)
  \/ Replace \/ Refresh
  \/ \E resort \in BOOLEAN : Tick(resort)
  \/ Project
  \/ \E ids \in (SUBSET Row) \ {{}} : Publish(ids)

\* The timer fires again and again (RESORT_INTERVAL included), the event loop
\* finishes a callback it is in, and the projection worker runs.  Nothing is
\* assumed of the user or of the probes.
ViewportFairness ==
  /\ WF_viewportVars(Tick(FALSE)) /\ SF_viewportVars(Tick(TRUE)) /\ WF_viewportVars(Refresh)
  /\ WF_viewportVars(Project)
ViewportSafety == ViewportInit /\ [][ViewportNext]_viewportVars
ViewportSpec   == ViewportSafety /\ ViewportFairness

-----------------------------------------------------------------------------
\* The list's state is of its types, its queues within their capacities.
ViewportTypeOK ==
  /\ imported \in Store /\ view \in View /\ refreshing \in BOOLEAN
  /\ request \in View \cup {NoView}
  /\ projector \in {"recv", "load", "send"} /\ job \in Projection
  /\ results \in Seq(Projection) /\ Len(results) <= Results
  /\ shown \in Projection
  /\ changed \in Seq(SUBSET Row) /\ Len(changed) <= Batches
  /\ stale \subseteq Row

Wanted == [store |-> imported, view |-> view]

\* No lost wake-up: as long as what is on screen is not the wanted projection,
\* a request for it, its computation or its result is under way.
WorkPending ==
  shown # Wanted =>
    refreshing \/ request # NoView \/ projector # "recv" \/ results # <<>>

\* The list catches up with the user and with imports.
CatchesUp ==
  \A v \in View, s \in Store :
    (view = v /\ imported = s) ~> (shown = Wanted \/ view # v \/ imported # s)

\* Under an order that depends on readings, a changed row is repainted even
\* when the announcement of its change was lost to a full queue.
RowsRepainted ==
  \A r \in Row : (r \in stale) ~> (r \notin stale \/ view \notin MetricSorted)

\* notify_metrics "announces metric-driven point updates for the given node
\* ids": under any order a changed row is repainted.
AnnouncedIsRepainted == \A r \in Row : (r \in stale) ~> (r \notin stale)
=============================================================================
