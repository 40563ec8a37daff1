------------------------------- MODULE Catalog -------------------------------
(***************************************************************************)
(* The node catalog in SQLite (storage: repository.rs, db.rs,              *)
(* subscription_service.rs, hydrate_from_db) as used by one or several     *)
(* running instances of the program, each with a connection of its own.    *)
(*                                                                         *)
(* A refresh parses the payload and then replaces the subscription in one  *)
(* transaction, statement by statement; it may fail, and an instance may   *)
(* be killed, between any two of them.  What is read before the            *)
(* transaction (the next subscription id) and after it (rows, then their   *)
(* sources) is outside of it: other instances commit in between.           *)
(*                                                                         *)
(* A node row is its identity and what its protocol_kind is: "right", the   *)
(* "default", or the default for good, its payload being "unreadable".  The *)
(* rows of an old file are no Vless nodes, whose kind the default fits.    *)
(* node_diagnostics is left out: a row of defaults per node, never         *)
(* written.                                                                *)
(***************************************************************************)
EXTENDS Ingest, Query, FiniteSets

CONSTANTS
  Proc,      \* running instances
  None,      \* no instance, nothing held
  Node,      \* functional identities
  Name, Country, \* per node: its label and country, the first import's
  Payload,   \* subscription payloads
  Arenas,    \* metric arenas the rows are ordered with
  MaxSub,    \* u16::MAX in the code
  MaxId,     \* bound: row ids
  Legacy,    \* the rows of a database from before protocol_kind; <<>>: a new database
  Unreadable,\* the nodes of those rows whose payload no longer decodes
  MayEmpty   \* the subscriptions whose refreshes may say allow_empty

ASSUME CatalogConstants ==
  /\ None \notin Proc /\ Bad \notin Node
  /\ MaxSub \in Nat \ {0} /\ MaxId \in Nat \ {0}
  /\ MaxEntries \in Nat \ {0} /\ MaxFailures \in Nat \ {0}
  /\ Name \in [Node -> Nat] /\ Country \in [Node -> Nat]
  /\ Legacy \in Seq(Node) /\ Len(Legacy) <= MaxId
  /\ \A i, j \in DOMAIN Legacy : Legacy[i] = Legacy[j] => i = j      \* UNIQUE(hash)
  /\ Unreadable \subseteq Node
  /\ \A d \in Payload : IsPayload(d, Node)
  /\ \A m \in Arenas : m \in Seq([latency: Nat, health: Nat])

VARIABLES
  db,        \* what is committed: [nodes, links, subs, column]
  tx,        \* the open transaction's view of it, None without one
  writer,    \* the instance that holds the write lock
  pc,        \* per instance: where it is
  job,       \* per instance: [sub, doc, report, import, allow], todo and ids of its refresh
  store,     \* per instance: the dense store being hydrated
  held,      \* a reading under way: [id, node, commits] since its row was loaded;
             \* followed across one commit
  raced,     \* ghost: instances that another one's commit caught between two steps
  torn       \* ghost: an instance died or failed while backfilling

vars == <<db, tx, writer, pc, job, store, held, raced, torn>>

Ids == 1..MaxId
Subs == 1..MaxSub
NoJob == [sub |-> 0, doc |-> None, report |-> EmptyReport, import |-> FALSE, allow |-> FALSE,
          todo |-> <<>>, ids |-> {}]

Largest(S) == IF S = {} THEN 0 ELSE CHOOSE x \in S : \A y \in S : y <= x
Without(f, S) == [x \in DOMAIN f \ S |-> f[x]]
With(f, x, v) == [y \in DOMAIN f \cup {x} |-> IF y = x THEN v ELSE f[y]]

\* A new file, or one written before the protocol_kind column existed.
Init ==
  /\ db = [nodes  |-> [i \in DOMAIN Legacy |->
                        [node |-> Legacy[i],
                         kind |-> IF Legacy[i] \in Unreadable THEN "unreadable" ELSE "default"]],
           links  |-> {<<i, 1>> : i \in DOMAIN Legacy},
           subs   |-> IF Legacy = <<>> THEN {} ELSE {1},
           column |-> Legacy = <<>>]
  /\ tx = None /\ writer = None
  /\ pc = [p \in Proc |-> "closed"] /\ job = [p \in Proc |-> NoJob]
  /\ store = [p \in Proc |-> <<>>]
  /\ held = None /\ raced = {} /\ torn = FALSE

Goto(p, from, to) == pc[p] = from /\ pc' = [pc EXCEPT ![p] = to]
reading == <<store, held>>
ghosts  == <<raced, torn>>

-----------------------------------------------------------------------------
(* open_database: the schema, and the column older files lack.             *)

Open(p) ==
  /\ Goto(p, "closed", IF db.column THEN "hydrate" ELSE "alter")
  /\ UNCHANGED <<db, tx, writer, job, reading, ghosts>>

\* The rows whose kind the payload tells; one that does not decode is passed over.
Tellable(t) == {i \in DOMAIN t.nodes : t.nodes[i].kind # "unreadable"}

\* ALTER TABLE; it fails when another instance was faster.
AlterTable(p) ==
  /\ writer = None
  /\ Goto(p, "alter", IF db.column THEN "closed" ELSE "backfill")
  /\ db' = [db EXCEPT !.column = TRUE]
  /\ job' = [job EXCEPT ![p].todo = IF db.column THEN <<>> ELSE Ascending(Tellable(db))]
  /\ UNCHANGED <<tx, writer, reading, ghosts>>

\* Mutant of Backfilled: the column keeps its default.
BackfilledNot(row) == row

\* The kind, from the stored payload.
Backfilled(row) == [row EXCEPT !.kind = "right"]

\* One UPDATE per row, each committed by itself under the snapshot the open
\* SELECT holds: once another instance has committed, the next UPDATE fails.
Backfill(p) ==
  /\ pc[p] = "backfill" /\ writer = None
  /\ LET todo == job[p].todo IN
     IF todo = <<>>
     THEN /\ pc' = [pc EXCEPT ![p] = "hydrate"]
          /\ UNCHANGED <<db, job>>
     ELSE /\ p \notin raced
          /\ db' = [db EXCEPT !.nodes =
                      [i \in DOMAIN @ |-> IF i = Head(todo) THEN Backfilled(@[i]) ELSE @[i]]]
          /\ job' = [job EXCEPT ![p].todo = Tail(todo)]
          /\ UNCHANGED pc
  /\ UNCHANGED <<tx, writer, reading, ghosts>>

-----------------------------------------------------------------------------
(* refresh: parse, then sync_subscription.                                 *)

\* Mutant of NextSub: the largest id itself.
NextSubTaken == IF db.subs = {} THEN 1 ELSE Largest(db.subs)

NextSub == Largest(db.subs) + 1

Parsed(p, s, d, import, allow) ==
  job' = [job EXCEPT ![p] = [sub |-> s, doc |-> d, report |-> Ingest(d), import |-> import,
                             allow |-> allow, todo |-> <<>>, ids |-> {}]]

\* import_subscription: the id is read before the transaction begins.
Import(p, d) ==
  /\ Goto(p, "idle", "parsed")
  /\ NextSub <= MaxSub
  /\ Parsed(p, NextSub, d, TRUE, FALSE)
  /\ UNCHANGED <<db, tx, writer, reading, ghosts>>

\* SubscriptionService::refresh of a known subscription.
Refresh(p, s, d, allow) ==
  /\ Goto(p, "idle", "parsed")
  /\ s \in db.subs /\ (allow => s \in MayEmpty)
  /\ Parsed(p, s, d, FALSE, allow)
  /\ UNCHANGED <<db, tx, writer, reading, ghosts>>

\* Mutant of Refused: any payload is taken.
RefusedNever(r, allow) == FALSE

\* A payload without a single node is refused, unless the caller allows it.
Refused(r, allow) == r.nodes = <<>> /\ ~allow

Refuse(p) ==
  /\ Refused(job[p].report, job[p].allow)
  /\ Goto(p, "parsed", "idle")
  /\ job' = [job EXCEPT ![p] = NoJob] /\ raced' = raced \ {p}
  /\ UNCHANGED <<db, tx, writer, reading, torn>>

\* Mutant of Upsert: the old nodes are cleared away before the new ones come.
UpsertClearing(p) ==
  LET links == {l \in db.links : l[2] # job[p].sub} IN
  /\ ~Refused(job[p].report, job[p].allow) /\ writer = None
  /\ Goto(p, "parsed", "ensure")
  /\ writer' = p
  /\ tx' = [db EXCEPT !.subs = @ \cup {job[p].sub}, !.links = links,
                      !.nodes = Without(@, {i \in DOMAIN @ : ~ \E l \in links : l[1] = i})]
  /\ job' = [job EXCEPT ![p].todo = job[p].report.nodes, ![p].doc = None, ![p].report = EmptyReport]
  /\ UNCHANGED <<db, reading, ghosts>>

\* The first statement takes the write lock; the view is the one of this moment.
\* Of the report only the nodes are used from here on.
Upsert(p) ==
  /\ ~Refused(job[p].report, job[p].allow) /\ writer = None
  /\ Goto(p, "parsed", "ensure")
  /\ writer' = p
  /\ tx' = [db EXCEPT !.subs = @ \cup {job[p].sub}]
  /\ job' = [job EXCEPT ![p].todo = job[p].report.nodes, ![p].doc = None, ![p].report = EmptyReport]
  /\ UNCHANGED <<db, reading, ghosts>>

\* ON CONFLICT(hash) DO NOTHING, then the row's id.  INTEGER PRIMARY KEY without
\* AUTOINCREMENT: a new row's id is one more than the largest in use.
EnsureNode(p) ==
  LET n == Head(job[p].todo)
      known == {i \in DOMAIN tx.nodes : tx.nodes[i].node = n}
      id == IF known # {} THEN CHOOSE i \in known : TRUE ELSE Largest(DOMAIN tx.nodes) + 1
  IN
  /\ pc[p] = "ensure" /\ job[p].todo # <<>>
  /\ id \in Ids
  /\ tx' = IF known # {} THEN tx
           ELSE [tx EXCEPT !.nodes = With(@, id, [node |-> n, kind |-> "right"])]
  /\ job' = [job EXCEPT ![p].todo = Tail(@), ![p].ids = @ \cup {id}]
  /\ UNCHANGED <<db, writer, pc, reading, ghosts>>

Unlink(p) ==
  /\ job[p].todo = <<>>
  /\ Goto(p, "ensure", "link")
  /\ tx' = [tx EXCEPT !.links = {l \in @ : l[2] # job[p].sub}]
  /\ UNCHANGED <<db, writer, job, reading, ghosts>>

Link(p) ==
  /\ Goto(p, "link", "prune")
  /\ tx' = [tx EXCEPT !.links = @ \cup {<<i, job[p].sub>> : i \in job[p].ids}]
  /\ UNCHANGED <<db, writer, job, reading, ghosts>>

\* Mutant of Orphans: every row the refresh does not list goes.
OrphansAny(p) == DOMAIN tx.nodes \ job[p].ids

Orphans(p) == {i \in DOMAIN tx.nodes : ~ \E s \in tx.subs : <<i, s>> \in tx.links}

Prune(p) ==
  /\ Goto(p, "prune", "commit")
  /\ tx' = [tx EXCEPT !.nodes = Without(@, Orphans(p))]
  /\ UNCHANGED <<db, writer, job, reading, ghosts>>

\* Instances between a read and what they do with it.
BetweenReads ==
  {q \in Proc : pc[q] \in {"backfill", "sources", "hydrated"} \/ (pc[q] = "parsed" /\ job[q].import)}

Commit(p) ==
  /\ Goto(p, "commit", "hydrate")
  /\ db' = tx /\ tx' = None /\ writer' = None
  /\ held' = IF held = None \/ held.commits = 1 THEN None ELSE [held EXCEPT !.commits = 1]
  /\ raced' = (raced \ {p}) \cup BetweenReads
  /\ job' = [job EXCEPT ![p] = NoJob]
  /\ UNCHANGED <<store, torn>>

\* What is left of an instance's work when it ends early.
Abandon(p) ==
  /\ writer' = IF writer = p THEN None ELSE writer
  /\ tx' = IF writer = p THEN None ELSE tx
  /\ job' = [job EXCEPT ![p] = NoJob] /\ store' = [store EXCEPT ![p] = <<>>]
  /\ raced' = raced \ {p}
  /\ torn' = (torn \/ (pc[p] = "backfill" /\ job[p].todo # <<>>))
  /\ UNCHANGED <<db, held>>

\* A statement fails, the lock is not had in time, the disk is full: the error
\* goes up and the transaction, if there is one, is rolled back.
Fail(p) ==
  /\ pc[p] \notin {"closed", "idle", "hydrated"}
  /\ pc' = [pc EXCEPT ![p] = IF @ \in {"alter", "backfill"} THEN "closed" ELSE "idle"]
  /\ Abandon(p)

\* The process is killed: the journal undoes what was not committed.
Crash(p) ==
  /\ pc[p] # "closed"
  /\ pc' = [pc EXCEPT ![p] = "closed"]
  /\ Abandon(p)

-----------------------------------------------------------------------------
(* hydrate_from_db, and the probe threads that keep row ids.               *)

\* SELECT ... FROM nodes ORDER BY n.id
HydrateNodes(p) ==
  /\ Goto(p, "hydrate", "sources")
  /\ store' = [store EXCEPT ![p] =
       LET ids == Ascending(DOMAIN db.nodes)
       IN  [k \in DOMAIN ids |->
              [id |-> ids[k], node |-> db.nodes[ids[k]].node,
               name |-> Name[db.nodes[ids[k]].node], country |-> Country[db.nodes[ids[k]].node],
               kind |-> db.nodes[ids[k]].kind, sources |-> {}]]]
  /\ UNCHANGED <<db, tx, writer, job, held, ghosts>>

\* Mutant of SourcesOf: the position in the store is taken for the row id.
SourcesOfIndex(rows, k) == {l[2] : l \in {x \in db.links : x[1] = k}}

SourcesOf(rows, k) == {l[2] : l \in {x \in db.links : x[1] = rows[k].id}}

\* SELECT ... FROM node_sources: a source of a row the store lacks is skipped.
HydrateSources(p) ==
  /\ Goto(p, "sources", "hydrated")
  /\ store' = [store EXCEPT ![p] =
       [k \in DOMAIN @ |-> [@[k] EXCEPT !.sources = SourcesOf(store[p], k)]]]
  /\ UNCHANGED <<db, tx, writer, job, held, ghosts>>

\* The store is handed to StoreSnapshot::replace (module Snapshot).
Publish(p) ==
  /\ Goto(p, "hydrated", "idle")
  /\ store' = [store EXCEPT ![p] = <<>>] /\ raced' = raced \ {p}
  /\ UNCHANGED <<db, tx, writer, job, held, torn>>

\* load_probe_targets, which one unreadable payload fails; the reading comes back
\* much later, under the row's id.
LoadTargets ==
  /\ held = None /\ Tellable(db) = DOMAIN db.nodes
  /\ \E i \in DOMAIN db.nodes : held' = [id |-> i, node |-> db.nodes[i].node, commits |-> 0]
  /\ UNCHANGED <<db, tx, writer, pc, job, store, ghosts>>

Deliver ==
  /\ held # None /\ held' = None
  /\ UNCHANGED <<db, tx, writer, pc, job, store, ghosts>>

-----------------------------------------------------------------------------
Migrate(p) == Open(p) \/ AlterTable(p) \/ Backfill(p)
Sync(p)    == Refuse(p) \/ Upsert(p) \/ EnsureNode(p) \/ Unlink(p) \/ Link(p) \/ Prune(p) \/ Commit(p)
Hydrate(p) == HydrateNodes(p) \/ HydrateSources(p) \/ Publish(p)
Next ==
  \/ LoadTargets \/ Deliver
  \/ \E p \in Proc :
       \/ Migrate(p) \/ Sync(p) \/ Hydrate(p) \/ Fail(p) \/ Crash(p)
       \/ \E d \in Payload : Import(p, d) \/ \E s \in Subs, allow \in BOOLEAN : Refresh(p, s, d, allow)
Spec == Init /\ [][Next]_vars

-----------------------------------------------------------------------------
(* Properties.                                                             *)

Rows(t) == DOMAIN t.nodes
ViewOK(t) ==
  /\ Rows(t) \subseteq Ids /\ t.subs \subseteq Subs
  /\ \A i \in Rows(t) : t.nodes[i] \in [node: Node, kind: {"right", "default", "unreadable"}]
  /\ t.links \subseteq Rows(t) \X t.subs              \* the foreign keys
  /\ t.column \in BOOLEAN

\* Type correctness; the foreign keys of node_sources hold in what is committed
\* and in the open transaction, and a transaction is open exactly while its
\* writer is between its first statement and its commit.
TypeOK ==
  /\ ViewOK(db) /\ writer \in Proc \cup {None}
  /\ IF writer = None THEN tx = None ELSE ViewOK(tx)
  /\ \A p \in Proc : pc[p] \in {"ensure", "link", "prune", "commit"} <=> writer = p
  /\ \A p \in Proc : job[p].ids \subseteq Ids /\ job[p].sub \in Subs \cup {0}
  /\ held # None => held.id \in Ids /\ held.node \in Node
  /\ raced \subseteq Proc /\ torn \in BOOLEAN

NodesOf(s) == {db.nodes[l[1]].node : l \in {x \in db.links : x[2] = s}}

Abstract == INSTANCE Subscriptions WITH
  Sub     <- Subs,
  content <- [s \in db.subs |-> NodesOf(s)],
  catalog <- {db.nodes[i].node : i \in DOMAIN db.nodes},
  allowed <- {job[p].sub : p \in {q \in Proc : job[q].allow}}

\* sync_subscription implements Subscriptions: whichever statement fails and
\* whenever an instance is killed, a refresh replaces one subscription whole or
\* not at all, empties one only where the caller said allow_empty, leaves the
\* others alone, and no node is kept that no subscription lists.
AtomicRefresh == Abstract!Spec

\* ingest_with_timestamp, whatever the payload is wrapped in: the report has the
\* nodes the payload describes, each once, if the payload is one the code can read
\* (Readable) and none otherwise, and one without nodes says why, unless the
\* payload is a list without an entry.
NothingLost ==
  \A p \in Proc : pc[p] = "parsed" =>
    LET r == job[p].report
        d == job[p].doc
    IN
    /\ ToSet(r.nodes) = IF Readable(d) THEN Described(d) ELSE {}
    /\ Len(r.nodes) = Cardinality(ToSet(r.nodes))
    /\ r.scanned - Len(r.nodes) - r.duplicates <= r.failures \/ r.failures = MaxFailures
    /\ r.nodes = <<>> /\ r.failures = 0 => Readable(d) /\ Content(d) = <<>>

\* import_subscription adds a subscription and replaces none.  An instance whose
\* id was read before another one's commit is exempt: it does replace it.
ImportAdds ==
  [][\A p \in Proc : pc[p] = "commit" /\ pc'[p] = "hydrate" /\ job[p].import /\ p \notin raced
                        => job[p].sub \notin db.subs]_vars

\* A probe's reading is kept under a row id while the catalog changes.  Across
\* one commit the id still names the probed node or none: rows are inserted
\* before the orphans go.  After two commits it may name another node.
IdNamesOneNode ==
  held # None /\ held.id \in DOMAIN db.nodes
    => db.nodes[held.id].node = held.node

\* What the window lists for a subscription, or for none.
Listed(p, s) ==
  LET names == {Name[n] : n \in Node}
      list  == RunQuery(store[p], <<>>, s, NoFilter, names, "NameAsc")
  IN  [k \in DOMAIN list |-> store[p][list[k]]]

\* hydrate_from_db: the dense store has the committed rows in the order of their
\* ids, the list of a subscription has the nodes of its payload, each once, and
\* every node is in one of these lists.  The two queries are no transaction: an
\* instance that a commit caught between them is exempt.
StoreMatches ==
  \A p \in Proc : pc[p] = "hydrated" /\ p \notin raced =>
    /\ [k \in DOMAIN store[p] |-> store[p][k].id] = Ascending(DOMAIN db.nodes)
    /\ \A s \in db.subs : /\ {r.node : r \in ToSet(Listed(p, s))} = NodesOf(s)
                          /\ Len(Listed(p, s)) = Cardinality(NodesOf(s))
    /\ ToSet(Listed(p, NoFilter)) = UNION {ToSet(Listed(p, s)) : s \in db.subs}

\* ensure_protocol_kind_column: once the column is there and nobody is filling
\* it, every row's kind is its payload's, unless that does not decode or filling
\* the column was cut short: it is begun once per file and never resumed.
KindsRight ==
  db.column /\ ~torn /\ (\A p \in Proc : pc[p] # "backfill")
    => \A i \in DOMAIN db.nodes : db.nodes[i].kind # "default"

\* The arena may be one import behind the store, and rows tie or are untested:
\* whatever the criterion, the comparison given to sort_unstable_by orders the
\* hydrated rows strictly and totally, so equal queries show equal lists.  Said of
\* an instance that is alone: the others leave its store as it is and may be
\* killed at any time, so every store is met with none of them running.
OrderIsTotal ==
  \A p \in Proc : pc[p] = "hydrated" /\ (\A q \in Proc \ {p} : pc[q] = "closed") =>
    LET rows == DOMAIN store[p] IN
    \A c \in Criterion, m \in Arenas :
      LET above == {r \in rows \X rows : Before(store[p], m, c, r[1], r[2])} IN
      /\ \A i, j \in rows : <<i, j>> \in above <=> (i # j /\ <<j, i>> \notin above)
      /\ \A q, r \in above : q[2] = r[1] => <<q[1], r[2]>> \in above

\* What an instance shows is what is stored: the file is well formed (TypeOK),
\* its rows are hydrated and listed whole (StoreMatches), with the kinds of their
\* payloads (KindsRight), in one order for every criterion (OrderIsTotal).
ShownIsStored == TypeOK /\ OrderIsTotal /\ StoreMatches /\ KindsRight
=============================================================================
