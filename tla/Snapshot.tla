------------------------------ MODULE Snapshot ------------------------------
(***************************************************************************)
(* The two published layers of the node catalog (storage, snapshot.rs) and *)
(* the threads that use them: the UI thread imports subscriptions and      *)
(* replaces both layers, one after the other; probe threads enqueue        *)
(* readings; the metric worker accumulates them and publishes a copy of    *)
(* the arena it read some time before.  Nothing orders the worker and the  *)
(* UI thread.                                                              *)
(*                                                                         *)
(* A node is a record of its row id and whether it is a made-up demo node: *)
(* demo rows are numbered from 1 like the rows of the database.  Demo rows *)
(* asked for over a database that has rows are not modelled.               *)
(***************************************************************************)
EXTENDS Naturals, Sequences, SequencesExt

CONSTANTS
  Catalogs,   \* the catalog at start, and after each import
  Capacity    \* of the dispatcher's queue

ASSUME SnapshotConstants ==
  /\ Catalogs \in Seq(Seq([id: Nat \ {0}, demo: BOOLEAN])) /\ Catalogs # <<>>
  /\ Capacity \in Nat \ {0}
  /\ \A i \in DOMAIN Catalogs : \A j, k \in DOMAIN Catalogs[i] :
        j < k => Catalogs[i][j].id < Catalogs[i][k].id        \* ORDER BY n.id

\* What imports make of the catalog.  Each is a new subscription, whose refresh
\* removes nothing, and new rows get the highest ids, so a real row stays where it
\* is.  Demo rows stand for an empty database, whose first rows take the very ids
\* 1, 2, ... and places that the demo's have.
Appends(catalogs) ==
  /\ \A i, j \in DOMAIN catalogs : \A k \in DOMAIN catalogs[i], m \in DOMAIN catalogs[j] :
       catalogs[i][k].id = catalogs[j][m].id => k = m
  /\ \A i, j \in DOMAIN catalogs : i < j =>
       \A k \in DOMAIN catalogs[i] : ~catalogs[i][k].demo =>
         k \in DOMAIN catalogs[j] /\ catalogs[j][k] = catalogs[i][k]

VARIABLES
  db,        \* the catalog in the database, or the demo rows of an empty one
  store,     \* the catalog in the published store
  arena,     \* the published readings, by dense index
  ui,        \* the UI thread: "idle", "hydrated", "replacing"
  queue,     \* the dispatcher's queue of readings
  acc,       \* the worker's accumulation, at most one reading per row id
  worker,    \* the worker: "poll", "cloned", "applied"
  copy,      \* the arena being prepared
  updates    \* the batch being published

vars   == <<db, store, arena, ui, queue, acc, worker, copy, updates>>
layers == <<store, arena>>

Nodes == UNION {ToSet(Catalogs[i]) : i \in DOMAIN Catalogs}

\* A reading, by the node it was taken at: its numbers and its provenance (taken
\* through a verified transcript or at a socket) come and go with it.
Untested == [of |-> [id |-> 0, demo |-> FALSE]]
Reading  == [of: Nodes]

\* from_store: nothing writes measurements to the database, so a fresh arena
\* knows none, and none is verified.
FromStore(c) == [i \in DOMAIN c |-> Untested]

\* Mutant of IndexOf: readings are put at the position of their row id.
IndexOfRow(c, id) == {id}

\* index_of: the dense index of a row id, or none.
IndexOf(c, id) == {i \in DOMAIN c : c[i].id = id}

Init ==
  /\ db = 1 /\ store = 1
  /\ arena = FromStore(Catalogs[1])
  /\ ui = "idle"
  /\ queue = <<>> /\ acc = {}
  /\ worker = "poll" /\ copy = <<>> /\ updates = {}

-----------------------------------------------------------------------------
(* The UI thread: import, hydrate, replace.                                *)

\* import_subscription commits and hydrate reads the new catalog back.
Import ==
  /\ ui = "idle" /\ db < Len(Catalogs)
  /\ db' = db + 1
  /\ ui' = "hydrated"
  /\ UNCHANGED <<layers, queue, acc, worker, copy, updates>>

ReplaceStore ==
  /\ ui = "hydrated"
  /\ store' = db
  /\ ui' = "replacing"
  /\ UNCHANGED <<db, arena, queue, acc, worker, copy, updates>>

ReplaceMetrics ==
  /\ ui = "replacing"
  /\ arena' = FromStore(Catalogs[store])
  /\ ui' = "idle"
  /\ UNCHANGED <<db, store, queue, acc, worker, copy, updates>>

-----------------------------------------------------------------------------
(* Probe threads.                                                          *)

\* What a thread that loaded its targets at some earlier time may report: a
\* real node's reading, or the burst made up for the demo rows.
Reports == {r \in Reading : \E i \in 1..db : r.of \in ToSet(Catalogs[i])}

\* A full queue drops the reading.
Enqueue(r) ==
  /\ queue' = IF Len(queue) < Capacity THEN Append(queue, r) ELSE queue
  /\ UNCHANGED <<db, layers, ui, acc, worker, copy, updates>>

-----------------------------------------------------------------------------
(* The metric worker.                                                      *)

\* Mutant of Insert: the map is cleared for every reading.
InsertAlone(a, r) == {r}

\* HashMap::insert by row id: the newest reading wins.
Insert(a, r) == {x \in a : x.of.id # r.of.id} \cup {r}

Accumulate ==
  /\ worker = "poll" /\ queue # <<>>
  /\ acc' = Insert(acc, Head(queue))
  /\ queue' = Tail(queue)
  /\ UNCHANGED <<db, layers, ui, worker, copy, updates>>

\* publish_metrics, first step: the batch is drained and the arena cloned.  A
\* reading still in the queue came after the last pop.
PublishClone ==
  /\ worker = "poll" /\ acc # {}
  /\ updates' = acc /\ acc' = {}
  /\ copy' = arena
  /\ worker' = "cloned"
  /\ UNCHANGED <<db, layers, ui, queue>>

\* apply_update at an index, with the reading found for it: one at most.
ApplyUpdate(old, found) == IF found = {} THEN old ELSE CHOOSE r \in found : TRUE

\* The copy with the whole batch applied, resolved by the store of this moment.
Applied ==
  [i \in DOMAIN copy |->
     ApplyUpdate(copy[i], {r \in updates : i \in IndexOf(Catalogs[store], r.of.id)})]

PublishApply ==
  /\ worker = "cloned"
  /\ copy' = Applied
  /\ updates' = {}
  /\ worker' = "applied"
  /\ UNCHANGED <<db, layers, ui, queue, acc>>

\* The copy is published, whatever was published meanwhile.
PublishStore ==
  /\ worker = "applied"
  /\ arena' = copy /\ copy' = <<>>
  /\ worker' = "poll"
  /\ UNCHANGED <<db, store, ui, queue, acc, updates>>

-----------------------------------------------------------------------------
Work == Accumulate \/ PublishClone \/ PublishApply \/ PublishStore
UI   == Import \/ ReplaceStore \/ ReplaceMetrics
Next == UI \/ Work \/ \E r \in Reports : Enqueue(r)

\* The worker's loop never waits for anybody and the UI thread finishes what it
\* began; nobody has to import or probe.  Every wake-up of the worker pops what
\* is queued, and every interval publishes what has come together.
Fairness ==
  /\ SF_vars(Accumulate) /\ WF_vars(PublishClone) /\ WF_vars(PublishApply \/ PublishStore)
  /\ WF_vars(ReplaceStore \/ ReplaceMetrics)
Spec == Init /\ [][Next]_vars /\ Fairness

-----------------------------------------------------------------------------
\* A real node's row never shows what was measured at another real node, whichever
\* of the two layers a publication and an import caught the other between, the
\* first import over the demo's rows included.  Numbers made up for demo rows are
\* another matter: they may stay on real rows (NothingInvented).
ShownIsMeasured ==
  \A i \in DOMAIN arena \cap DOMAIN Catalogs[store] :
    arena[i] # Untested /\ ~arena[i].of.demo /\ ~Catalogs[store][i].demo
      => arena[i].of = Catalogs[store][i]

\* The indices at which every catalog has a row with the same id.
Lasting == {i \in DOMAIN Catalogs[1] : \A c \in DOMAIN Catalogs :
              i \in DOMAIN Catalogs[c] /\ Catalogs[c][i].id = Catalogs[1][i].id}

\* A reading the dispatcher accepted for a row id that every catalog has is
\* published (it, or a later one for that id), however imports race with it.
AcceptedIsShown ==
  \A i \in Lasting :
    (\E k \in DOMAIN queue : queue[k].of.id = Catalogs[1][i].id) ~> (arena[i] # Untested)

AtRest == ui = "idle" /\ worker = "poll"

\* snapshot.rs: the store and the arena "are aligned by dense index": between
\* publications every row of the store has its place in the arena.
AlignedAtRest == AtRest => Len(arena) = Len(Catalogs[store])

\* README: the provenance of a reading "survives a full catalog refresh": a real
\* node's reading is only ever replaced by another reading.
ProvenanceSurvives ==
  [][\A i \in DOMAIN arena :
       arena[i] # Untested /\ ~arena[i].of.demo =>
         i \in DOMAIN arena' /\ arena'[i] # Untested]_vars

\* soa_store.rs on provenance: a reading comes from a verified transcript, from
\* a socket measurement or from the store: no number made up for the demo is
\* shown for a real node.
NothingInvented ==
  AtRest => \A i \in DOMAIN arena \cap DOMAIN Catalogs[store] :
               arena[i].of.demo => Catalogs[store][i].demo
=============================================================================
