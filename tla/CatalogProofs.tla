---------------------------- MODULE CatalogProofs ----------------------------
(***************************************************************************)
(* Proofs about the catalog, for any number of instances, nodes, payloads  *)
(* and subscriptions.                                                      *)
(*                                                                         *)
(* The invariant follows the open transaction: what it has changed of the  *)
(* committed file at each of its statements (Draft), while the file itself *)
(* cannot change under it, and that no committed row lacks a subscription  *)
(* (Committed).                                                            *)
(***************************************************************************)
EXTENDS Catalog, SortingProofs

Place == {"closed", "alter", "backfill", "hydrate", "sources", "hydrated", "idle", "parsed",
          "ensure", "link", "prune", "commit"}
Writing == {"ensure", "link", "prune", "commit"}

Kind  == {"right", "default", "unreadable"}
Row   == [node: Node, kind: Kind]
Table == UNION {[D -> Row] : D \in SUBSET Ids}
View  == [nodes: Table, links: SUBSET (Ids \X Subs), subs: SUBSET Subs, column: BOOLEAN]
Job   == {j \in [sub: 0..MaxSub, doc: Payload \cup {None},
                 report: {Ingest(d) : d \in Payload} \cup {EmptyReport},
                 import: BOOLEAN, allow: BOOLEAN, todo: Seq(Node) \cup Seq(Ids), ids: SUBSET Ids] :
            j.allow => j.sub # 0}

Shape ==
  /\ db \in View /\ writer \in Proc \cup {None}
  /\ IF writer = None THEN tx = None ELSE tx \in View
  /\ pc \in [Proc -> Place] /\ job \in [Proc -> Job]
  /\ \A p \in Proc : pc[p] \in Writing <=> writer = p

\* A refresh under way has a subscription, the report of a payload until that is
\* written, and a node, unless it may do without one.
JobInv ==
  \A p \in Proc :
    /\ pc[p] \in {"parsed"} \cup Writing => job[p].sub \in Subs
    /\ pc[p] = "parsed" =>
         job[p].doc \in Payload /\ job[p].report = Ingest(job[p].doc) /\ job[p].ids = {}
    /\ pc[p] = "ensure" =>
         job[p].todo \in Seq(Node) /\ (job[p].todo # <<>> \/ job[p].ids # {} \/ job[p].allow)
    /\ pc[p] \in {"link", "prune", "commit"} => job[p].ids # {} \/ job[p].allow

\* The committed file: foreign keys, and no row without a subscription.
Kept(t) == {i \in Rows(t) : \E s \in t.subs : <<i, s>> \in t.links}
Committed ==
  /\ \A l \in db.links : l[1] \in Rows(db) /\ l[2] \in db.subs
  /\ Rows(db) = Kept(db)

\* The open transaction, statement by statement.
OtherLinks(p) == {l \in db.links : l[2] # job[p].sub}
OwnLinks(p)   == {<<i, job[p].sub>> : i \in job[p].ids}
Draft(p) ==
  /\ tx.column = db.column /\ tx.subs = db.subs \cup {job[p].sub}
  /\ \A i \in Rows(tx) \cap Rows(db) : tx.nodes[i] = db.nodes[i]
  /\ job[p].ids \subseteq Rows(tx)
  /\ pc[p] = "ensure" => tx.links = db.links
  /\ pc[p] = "link" => tx.links = OtherLinks(p)
  /\ pc[p] \in {"prune", "commit"} => tx.links = OtherLinks(p) \cup OwnLinks(p)
  /\ pc[p] # "commit" => Rows(db) \subseteq Rows(tx)
  /\ pc[p] = "commit" => Rows(tx) = Kept(tx) /\ \A l \in tx.links : l[1] \in Rows(tx)
DraftInv == \A p \in Proc : writer = p => Draft(p)

CatInv == Shape /\ JobInv /\ Committed /\ DraftInv

\* A reading under way, before a commit and after one.
HeldInv ==
  held # None =>
    /\ held \in [id: Ids, node: Node, commits: 0..1]
    /\ held.commits = 0 => held.id \in Rows(db)
    /\ held.id \in Rows(db) => db.nodes[held.id].node = held.node

\* The id an import has read is free until another instance commits.
ImportInv ==
  \A p \in Proc : pc[p] \in {"parsed"} \cup Writing /\ job[p].import /\ p \notin raced => job[p].sub \notin db.subs

\* Rows whose kind is still the default are on the list of the instance that
\* fills the column; no transaction adds one.
KindInv ==
  /\ ~db.column => \A p \in Proc : pc[p] \in {"closed", "alter"}
  /\ writer # None => \A i \in Rows(tx) \ Rows(db) : tx.nodes[i].kind = "right"
  /\ db.column /\ ~torn =>
       \A i \in Rows(db) :
         db.nodes[i].kind # "default" \/ \E p \in Proc : pc[p] = "backfill" /\ i \in ToSet(job[p].todo)

\* A node has one row.
Unique(t) == \A i, j \in Rows(t) : t.nodes[i].node = t.nodes[j].node => i = j
UniqueInv == Unique(db) /\ (writer # None => Unique(tx))

\* The dense stores: rows in the order of their ids, those of the file unless a
\* commit has caught the instance.
StoreRow == [id: Ids, node: Node, name: Nat, country: Nat, kind: Kind, sources: SUBSET Subs]
Rising(rows) == \A i, j \in DOMAIN rows : i < j => rows[i].id < rows[j].id
Same(rows) ==
  /\ DOMAIN rows = DOMAIN Ascending(Rows(db))
  /\ \A k \in DOMAIN rows :
       /\ rows[k].id = Ascending(Rows(db))[k] /\ rows[k].node = db.nodes[rows[k].id].node
       /\ rows[k].name = Name[rows[k].node]
StoreInv ==
  /\ store \in [Proc -> Seq(StoreRow)]
  /\ \A p \in Proc : pc[p] \in {"sources", "hydrated"} =>
       /\ Rising(store[p])
       /\ p \notin raced => Same(store[p])
       /\ p \notin raced /\ pc[p] = "hydrated" =>
            \A k \in DOMAIN store[p] : store[p][k].sources = SourcesOf(store[p], k)

-----------------------------------------------------------------------------
(* Parsing: what a report says of its payload, by induction on the entries *)
(* scanned.                                                                *)

\* The loop of ingest_with_timestamp: f has the report after each entry.
Scans(f, r, t) == f[0] = r /\ \A k \in 1..Len(t) : f[k] = Scan(f[k - 1], t[k])

LEMMA ParseLoop ==
  ASSUME NEW r, NEW entries, NEW t, t = Take(entries), NEW n \in Nat, Len(t) = n
  PROVE  \E f : Scans(f, r, t) /\ ParseEntries(r, entries) = f[n]
<1> DEFINE Rec(g, m) == g = [k \in 0..m |-> IF k = 0 THEN r ELSE Scan(g[k - 1], t[k])]
           T == {m \in 0..n : ~ \E g : Rec(g, m)}
<1>1. 0 \notin T
  <2> DEFINE g == [k \in 0..0 |-> r]
  <2>1. Rec(g, 0)
    OBVIOUS
  <2> QED  BY <2>1
<1>2. ASSUME NEW m \in 1..n, m - 1 \notin T  PROVE m \notin T
  <2>1. PICK g : Rec(g, m - 1)
    BY <1>2
  <2> DEFINE h == [k \in 0..m |-> IF k = m THEN Scan(g[m - 1], t[m]) ELSE g[k]]
  <2>2. \A k \in 0..m-1 : h[k] = g[k] /\ g[k] = IF k = 0 THEN r ELSE Scan(g[k - 1], t[k])
    BY <2>1
  <2>3. \A k \in 0..m : h[k] = IF k = 0 THEN r ELSE Scan(h[k - 1], t[k])
    <3> SUFFICES ASSUME NEW k \in 0..m  PROVE h[k] = IF k = 0 THEN r ELSE Scan(h[k - 1], t[k])
      OBVIOUS
    <3>1. CASE k = m
      <4>1. h[k] = Scan(g[m - 1], t[m]) /\ h[m - 1] = g[m - 1] /\ k # 0
        BY <3>1
      <4> HIDE DEF h
      <4> QED  BY <3>1, <4>1
    <3>2. CASE k \in 1..m-1
      <4>0. k \in 0..m-1 /\ k - 1 \in 0..m-1 /\ k # 0
        BY <3>2
      <4>1. h[k] = g[k] /\ h[k - 1] = g[k - 1] /\ g[k] = Scan(g[k - 1], t[k])
        BY <2>2, <4>0
      <4> HIDE DEF h
      <4> QED  BY <3>2, <4>1
    <3>3. CASE k = 0
      <4>1. 0 \in 0..m-1 
        OBVIOUS
      <4>2. h[0] = g[0] /\ g[0] = r
        BY <2>2, <4>1
      <4> HIDE DEF h
      <4> QED  BY <3>3, <4>2
    <3> QED  BY <3>1, <3>2, <3>3
  <2>4. h = [k \in 0..m |-> h[k]]
    OBVIOUS
  <2> HIDE DEF h
  <2>5. Rec(h, m)
    BY <2>3, <2>4
  <2> QED  BY <2>5
<1>3. T = {}
  <2> HIDE DEF T
  <2>1. T \in SUBSET (0..n)
    BY DEF T
  <2> QED  BY <1>1, <1>2, <2>1, FirstFailure
<1>4. \E g : Rec(g, n)
  BY <1>3
<1> DEFINE f == CHOOSE g : Rec(g, n)
<1>5. Rec(f, n)
  BY <1>4
<1>6. ParseEntries(r, entries) = f[n]
  BY DEF ParseEntries
<1> HIDE DEF f
<1>7. f[0] = r /\ \A k \in 1..n : f[k] = Scan(f[k - 1], t[k])
  BY <1>5
<1> QED  BY <1>6, <1>7 DEF Scans

\* The loop of collect_entries.
Collect(entries, l) == IF l.text = "skipped" THEN entries ELSE Append(entries, l)

LEMMA CollectLoop ==
  ASSUME NEW lines, NEW n \in Nat, Len(lines) = n
  PROVE  \E f : /\ f[0] = <<>> /\ \A k \in 1..n : f[k] = Collect(f[k - 1], lines[k])
                /\ CollectEntries(lines) = f[n]
<1> DEFINE Rec(g, m) == g = [k \in 0..m |-> IF k = 0 THEN <<>> ELSE Collect(g[k - 1], lines[k])]
           T == {m \in 0..n : ~ \E g : Rec(g, m)}
<1>1. 0 \notin T
  <2> DEFINE g == [k \in 0..0 |-> <<>>]
  <2>1. Rec(g, 0)
    OBVIOUS
  <2> QED  BY <2>1
<1>2. ASSUME NEW m \in 1..n, m - 1 \notin T  PROVE m \notin T
  <2>1. PICK g : Rec(g, m - 1)
    BY <1>2
  <2> DEFINE h == [k \in 0..m |-> IF k = m THEN Collect(g[m - 1], lines[m]) ELSE g[k]]
  <2>2. \A k \in 0..m-1 : h[k] = g[k] /\ g[k] = IF k = 0 THEN <<>> ELSE Collect(g[k - 1], lines[k])
    BY <2>1
  <2>3. \A k \in 0..m : h[k] = IF k = 0 THEN <<>> ELSE Collect(h[k - 1], lines[k])
    <3> SUFFICES ASSUME NEW k \in 0..m  PROVE h[k] = IF k = 0 THEN <<>> ELSE Collect(h[k - 1], lines[k])
      OBVIOUS
    <3>1. CASE k = m
      <4>1. h[k] = Collect(g[m - 1], lines[m]) /\ h[m - 1] = g[m - 1] /\ k # 0
        BY <3>1
      <4> HIDE DEF h
      <4> QED  BY <3>1, <4>1
    <3>2. CASE k \in 1..m-1
      <4>0. k \in 0..m-1 /\ k - 1 \in 0..m-1 /\ k # 0
        BY <3>2
      <4>1. h[k] = g[k] /\ h[k - 1] = g[k - 1] /\ g[k] = Collect(g[k - 1], lines[k])
        BY <2>2, <4>0
      <4> HIDE DEF h
      <4> QED  BY <3>2, <4>1
    <3>3. CASE k = 0
      <4>1. 0 \in 0..m-1 
        OBVIOUS
      <4>2. h[0] = g[0] /\ g[0] = <<>>
        BY <2>2, <4>1
      <4> HIDE DEF h
      <4> QED  BY <3>3, <4>2
    <3> QED  BY <3>1, <3>2, <3>3
  <2>4. h = [k \in 0..m |-> h[k]]
    OBVIOUS
  <2> HIDE DEF h
  <2>5. Rec(h, m)
    BY <2>3, <2>4
  <2> QED  BY <2>5
<1>3. T = {}
  <2> HIDE DEF T
  <2>1. T \in SUBSET (0..n)
    BY DEF T
  <2> QED  BY <1>1, <1>2, <2>1, FirstFailure
<1>4. \E g : Rec(g, n)
  BY <1>3
<1> DEFINE f == CHOOSE g : Rec(g, n)
<1>5. Rec(f, n)
  BY <1>4
<1>6. CollectEntries(lines) = f[n]
  BY DEF CollectEntries, Collect
<1> HIDE DEF f
<1>7. f[0] = <<>> /\ \A k \in 1..n : f[k] = Collect(f[k - 1], lines[k])
  BY <1>5
<1> QED  BY <1>6, <1>7

Report == [scanned: Nat, nodes: Seq(Node), duplicates: Nat, failures: 0..MaxFailures]

\* What a report says of the first k entries of t.
Says(r, t, k) ==
  /\ r \in Report
  /\ ToSet(r.nodes) = {t[i].node : i \in 1..k} \ {Bad}
  /\ \A i, j \in 1..Len(r.nodes) : r.nodes[i] = r.nodes[j] => i = j
  /\ r.scanned - Len(r.nodes) - r.duplicates <= r.failures \/ r.failures = MaxFailures
  /\ k > 0 => r.nodes # <<>> \/ r.failures > 0

\* The account of one more entry: refused, found again, or new.
LEMMA Accounts ==
  ASSUME NEW scanned \in Nat, NEW kept \in Nat, NEW again \in Nat, NEW bad \in 0..MaxFailures,
         scanned - kept - again <= bad \/ bad = MaxFailures
  PROVE  /\ bad < MaxFailures => (scanned + 1) - kept - again <= bad + 1
         /\ (scanned + 1) - kept - (again + 1) <= bad \/ bad = MaxFailures
         /\ (scanned + 1) - (kept + 1) - again <= bad \/ bad = MaxFailures
BY CatalogConstants

\* One entry.
LEMMA ScanSays ==
  ASSUME NEW t \in Seq(Line(Node)), NEW k \in 1..Len(t), NEW r, Says(r, t, k - 1)
  PROVE  Says(Scan(r, t[k]), t, k)
<1> DEFINE n == t[k].node
           s == [r EXCEPT !.scanned = @ + 1]
           old == {t[i].node : i \in 1..k-1}
<1>1. n \in Node \cup {Bad}
  BY DEF Line, Skipped, Other, Entry
<1>2. /\ r \in Report /\ ToSet(r.nodes) = old \ {Bad}
      /\ \A i, j \in 1..Len(r.nodes) : r.nodes[i] = r.nodes[j] => i = j
      /\ r.scanned - Len(r.nodes) - r.duplicates <= r.failures \/ r.failures = MaxFailures
  BY DEF Says
<1>3. {t[i].node : i \in 1..k} = old \cup {n}
  <2>1. \A i : i \in 1..k <=> i \in 1..k-1 \/ i = k
    OBVIOUS
  <2> QED  BY <2>1
<1>4. Scan(r, t[k]) = CASE n = Bad -> RecordFailure(s)
                        [] n \in ToSet(r.nodes) -> [s EXCEPT !.duplicates = @ + 1]
                        [] OTHER -> [s EXCEPT !.nodes = Append(@, n)]
  BY DEF Scan
<1>5. /\ s \in Report /\ s.nodes = r.nodes /\ s.duplicates = r.duplicates /\ s.failures = r.failures
      /\ s.scanned = r.scanned + 1
  BY <1>2 DEF Report
<1>6. k \in Nat /\ k > 0 /\ MaxFailures \in Nat /\ MaxFailures > 0
  BY CatalogConstants
<1> HIDE DEF n, s, old
<1>7. CASE n = Bad
  <2> DEFINE q == RecordFailure(s)
  <2>1. /\ q \in Report /\ q.nodes = r.nodes /\ q.duplicates = r.duplicates /\ q.scanned = r.scanned + 1
        /\ q.failures = IF r.failures < MaxFailures THEN r.failures + 1 ELSE r.failures
    <3> DEFINE v == IF s.failures < MaxFailures THEN s.failures + 1 ELSE s.failures
    <3>1. q = [s EXCEPT !.failures = v]
      BY DEF RecordFailure
    <3>2. s.failures \in 0..MaxFailures
      BY <1>5 DEF Report
    <3>3. v \in 0..MaxFailures
      BY <1>6, <3>2
    <3>4. v = IF r.failures < MaxFailures THEN r.failures + 1 ELSE r.failures
      BY <1>5
    <3> HIDE DEF q, v
    <3> QED  BY <1>5, <3>1, <3>3, <3>4 DEF Report
  <2>2. ToSet(q.nodes) = (old \cup {n}) \ {Bad}
    BY <1>2, <1>7, <2>1
  <2>3. Scan(r, t[k]) = q
    BY <1>2, <1>4, <1>7
  <2> HIDE DEF q
  <2>4. Len(r.nodes) \in Nat /\ r.duplicates \in Nat /\ r.scanned \in Nat /\ r.failures \in 0..MaxFailures
    BY <1>2 DEF Report
  <2>5. q.scanned - Len(q.nodes) - q.duplicates <= q.failures \/ q.failures = MaxFailures
    <3> DEFINE len == Len(r.nodes)
    <3>1. len \in Nat /\ Len(q.nodes) = len /\ (r.scanned - len - r.duplicates <= r.failures \/ r.failures = MaxFailures)
      BY <1>2, <2>1, <2>4
    <3> HIDE DEF len
    <3>2. CASE r.failures < MaxFailures
      <4>1. (r.scanned + 1) - len - r.duplicates <= r.failures + 1
        BY <2>4, <3>1, <3>2, Accounts
      <4>2. q.failures = r.failures + 1 /\ q.scanned = r.scanned + 1 /\ q.duplicates = r.duplicates
        BY <2>1, <3>2
      <4> QED  BY <3>1, <4>1, <4>2
    <3>3. CASE r.failures = MaxFailures
      BY <1>6, <2>1, <3>3
    <3> QED  BY <1>6, <2>4, <3>2, <3>3
  <2>6. q.failures > 0
    BY <1>6, <2>1, <2>4
  <2> QED  BY <1>2, <1>3, <2>1, <2>2, <2>3, <2>5, <2>6 DEF Says
<1>8. CASE n # Bad /\ n \in ToSet(r.nodes)
  <2> DEFINE q == [s EXCEPT !.duplicates = @ + 1]
  <2>1. /\ q \in Report /\ q.nodes = r.nodes /\ q.duplicates = r.duplicates + 1 /\ q.scanned = r.scanned + 1
        /\ q.failures = r.failures
    BY <1>5 DEF Report
  <2>2. ToSet(q.nodes) = (old \cup {n}) \ {Bad}
    BY <1>2, <1>8, <2>1
  <2>3. Scan(r, t[k]) = q
    BY <1>4, <1>8
  <2> HIDE DEF q
  <2>4. Len(r.nodes) \in Nat /\ r.duplicates \in Nat /\ r.scanned \in Nat /\ r.failures \in 0..MaxFailures
    BY <1>2 DEF Report
  <2>5. q.scanned - Len(q.nodes) - q.duplicates <= q.failures \/ q.failures = MaxFailures
    <3> DEFINE len == Len(r.nodes)
    <3>1. len \in Nat /\ Len(q.nodes) = len /\ (r.scanned - len - r.duplicates <= r.failures \/ r.failures = MaxFailures)
      BY <1>2, <2>1, <2>4
    <3> HIDE DEF len
    <3> QED  BY <2>1, <2>4, <3>1, Accounts
  <2>6. q.nodes # <<>>
    BY <1>8, <2>1 DEF ToSet
  <2> QED  BY <1>2, <1>3, <2>1, <2>2, <2>3, <2>5, <2>6 DEF Says
<1>9. CASE n # Bad /\ n \notin ToSet(r.nodes)
  <2> DEFINE q == [s EXCEPT !.nodes = Append(@, n)]
             m == Len(r.nodes)
  <2>0. n \in Node /\ r.nodes \in Seq(Node)
    BY <1>1, <1>2, <1>9 DEF Report
  <2>1. /\ q \in Report /\ q.nodes = Append(r.nodes, n) /\ q.duplicates = r.duplicates /\ q.scanned = r.scanned + 1
        /\ q.failures = r.failures
    <3> DEFINE v == Append(r.nodes, n)
    <3>1. q = [s EXCEPT !.nodes = v] /\ v \in Seq(Node)
      BY <1>5, <2>0
    <3> HIDE DEF q, v
    <3>2. /\ q \in Report /\ q.nodes = v /\ q.duplicates = r.duplicates /\ q.scanned = r.scanned + 1
          /\ q.failures = r.failures
      BY <1>5, <3>1 DEF Report
    <3> QED  BY <3>2 DEF v
  <2>3. Scan(r, t[k]) = q
    BY <1>4, <1>9
  <2> HIDE DEF q
  <2>4. m \in Nat /\ r.duplicates \in Nat /\ r.scanned \in Nat /\ r.failures \in 0..MaxFailures
    BY <1>2 DEF Report
  <2>5. /\ Len(q.nodes) = m + 1 /\ q.nodes[m + 1] = n /\ \A i \in 1..m : q.nodes[i] = r.nodes[i]
        /\ DOMAIN q.nodes = 1..m+1 /\ DOMAIN r.nodes = 1..m
    BY <2>0, <2>1
  <2> HIDE DEF m
  <2>6. \A i : i \in 1..m+1 <=> i \in 1..m \/ i = m + 1
    BY <2>4 DEF m
  <2>7. ToSet(q.nodes) = ToSet(r.nodes) \cup {n}
    BY <2>5, <2>6 DEF ToSet
  <2>8. ToSet(q.nodes) = (old \cup {n}) \ {Bad}
    BY <1>2, <1>9, <2>7
  <2>9. \A i \in 1..m : r.nodes[i] # n
    BY <1>9, <2>5 DEF ToSet
  <2>10. \A i, j \in 1..Len(q.nodes) : q.nodes[i] = q.nodes[j] => i = j
    BY <1>2, <2>5, <2>6, <2>9 DEF m
  <2>11. q.scanned - Len(q.nodes) - q.duplicates <= q.failures \/ q.failures = MaxFailures
    <3>1. (r.scanned + 1) - (m + 1) - r.duplicates <= r.failures \/ r.failures = MaxFailures
      BY <1>2, <2>4, Accounts DEF m
    <3> QED  BY <2>1, <2>5, <3>1
  <2>12. q.nodes # <<>>
    BY <2>4, <2>5
  <2> QED  BY <1>3, <2>1, <2>3, <2>8, <2>10, <2>11, <2>12 DEF Says
<1> QED  BY <1>7, <1>8, <1>9

LEMMA TakeFacts ==
  ASSUME NEW entries \in Seq(Line(Node))
  PROVE  /\ Take(entries) \in Seq(Line(Node)) /\ (entries # <<>> => Len(Take(entries)) > 0)
         /\ \A i \in 1..Len(Take(entries)) : i \in 1..Len(entries) /\ Take(entries)[i] = entries[i]
<1> DEFINE m == IF Len(entries) < MaxEntries THEN Len(entries) ELSE MaxEntries
           t == Take(entries)
<1>1. m \in 0..Len(entries) /\ t = SubSeq(entries, 1, m) /\ (entries # <<>> => m > 0)
  BY CatalogConstants DEF Take
<1> HIDE DEF m, t
<1>2. \A i \in 1..m : entries[i] \in Line(Node)
  BY <1>1
<1>3. t \in Seq(Line(Node)) /\ Len(t) = m /\ \A i \in 1..m : t[i] = entries[i]
  BY <1>1, <1>2
<1>4. /\ t \in Seq(Line(Node)) /\ (entries # <<>> => Len(t) > 0)
      /\ \A i \in 1..Len(t) : i \in 1..Len(entries) /\ t[i] = entries[i]
  BY <1>1, <1>3
<1> QED  BY <1>4 DEF t

\* All of them.
LEMMA ReportSays ==
  ASSUME NEW entries \in Seq(Line(Node)), NEW r \in {EmptyReport, RecordFailure(EmptyReport)}
  PROVE  Says(ParseEntries(r, entries), Take(entries), Len(Take(entries)))
<1> DEFINE t == Take(entries)
           n == Len(t)
<1>1. t \in Seq(Line(Node)) /\ n \in Nat
  BY TakeFacts
<1> HIDE DEF t
<1>2. PICK f : Scans(f, r, t) /\ ParseEntries(r, entries) = f[n]
  <2>1. t = Take(entries)
    BY DEF t
  <2> QED  BY <1>1, <2>1, ParseLoop
<1> DEFINE T == {k \in 0..n : ~Says(f[k], t, k)}
<1>3. 0 \notin T
  <2>1. /\ r \in Report /\ r.nodes = <<>> /\ r.scanned = 0 /\ r.duplicates = 0
    <3>1. CASE r = EmptyReport
      BY <3>1, CatalogConstants DEF Report, EmptyReport
    <3>2. CASE r = RecordFailure(EmptyReport)
      <4>1. EmptyReport \in Report /\ EmptyReport.failures = 0 /\ MaxFailures \in Nat /\ 0 < MaxFailures
        BY CatalogConstants DEF Report, EmptyReport
      <4>2. r = [EmptyReport EXCEPT !.failures = 1]
        BY <3>2, <4>1 DEF RecordFailure
      <4>3. r = [scanned |-> 0, nodes |-> <<>>, duplicates |-> 0, failures |-> 1]
        BY <4>2 DEF EmptyReport
      <4>4. 1 \in 0..MaxFailures /\ <<>> \in Seq(Node)
        BY <4>1
      <4> QED  BY <4>3, <4>4 DEF Report
    <3> QED  BY <3>1, <3>2
  <2>2. r.failures \in 0..MaxFailures
    BY <2>1 DEF Report
  <2>3. ToSet(r.nodes) = {} /\ {t[i].node : i \in 1..0} = {}
    BY <2>1 DEF ToSet
  <2>4. Says(r, t, 0)
    BY <2>1, <2>2, <2>3, CatalogConstants DEF Says
  <2> QED  BY <1>2, <2>4 DEF Scans
<1>4. ASSUME NEW k \in 1..n, k - 1 \notin T  PROVE k \notin T
  <2>1. Says(f[k - 1], t, k - 1)
    BY <1>1, <1>4
  <2>2. Says(Scan(f[k - 1], t[k]), t, k)
    BY <1>1, <2>1, ScanSays
  <2> QED  BY <1>2, <2>2 DEF Scans
<1>5. T = {}
  <2>1. T \in SUBSET (0..n)
    OBVIOUS
  <2> HIDE DEF T, n
  <2> QED  BY <1>1, <1>3, <1>4, <2>1, FirstFailure
<1>6. Says(f[n], t, n)
  BY <1>1, <1>5
<1> QED  BY <1>2, <1>6 DEF t

LEMMA CollectFacts ==
  /\ \A S : \A lines \in Seq(S) : CollectEntries(lines) \in Seq(S)
  /\ CollectEntries(<<Other>>) = <<Other>>
<1>1. ASSUME NEW S, NEW lines \in Seq(S)  PROVE CollectEntries(lines) \in Seq(S)
  <2> DEFINE n == Len(lines)
  <2>1. PICK f : /\ f[0] = <<>> /\ \A k \in 1..n : f[k] = Collect(f[k - 1], lines[k])
                 /\ CollectEntries(lines) = f[n]
    BY CollectLoop
  <2> DEFINE T == {k \in 0..n : f[k] \notin Seq(S)}
  <2>2. 0 \notin T
    <3>1. <<>> \in Seq(S)
      OBVIOUS
    <3> QED  BY <2>1, <3>1
  <2>3. ASSUME NEW k \in 1..n, k - 1 \notin T  PROVE k \notin T
    <3>1. f[k - 1] \in Seq(S) /\ lines[k] \in S
      BY <2>3
    <3>2. Collect(f[k - 1], lines[k]) \in Seq(S)
      BY <3>1 DEF Collect
    <3> QED  BY <2>1, <3>2
  <2>4. T = {}
    <3>1. T \in SUBSET (0..n) /\ n \in Nat
      OBVIOUS
    <3> HIDE DEF T, n
    <3> QED  BY <2>2, <2>3, <3>1, FirstFailure
  <2> QED  BY <2>1, <2>4
<1>2. CollectEntries(<<Other>>) = <<Other>>
  <2>1. PICK f : /\ f[0] = <<>> /\ \A k \in 1..1 : f[k] = Collect(f[k - 1], <<Other>>[k])
                 /\ CollectEntries(<<Other>>) = f[1]
    BY CollectLoop, ZenonT(30)
  <2>2. f[1] = Collect(<<>>, Other)
    BY <2>1
  <2> QED  BY <2>1, <2>2 DEF Collect, Other
<1> QED  BY <1>1, <1>2

\* What a report must say of a payload.
Complete(r, d) ==
  /\ r \in Report /\ ToSet(r.nodes) = IF Readable(d) THEN Described(d) ELSE {}
  /\ \A i, j \in 1..Len(r.nodes) : r.nodes[i] = r.nodes[j] => i = j
  /\ r.scanned - Len(r.nodes) - r.duplicates <= r.failures \/ r.failures = MaxFailures
  /\ r.nodes = <<>> /\ r.failures = 0 => Readable(d) /\ Content(d) = <<>>

LEMMA SaysIsComplete ==
  ASSUME NEW d, NEW r, NEW t \in Seq(Line(Node)), Says(r, t, Len(t)), Readable(d),
         Content(d) = t
  PROVE  Complete(r, d)
<1>1. Described(d) = {t[i].node : i \in 1..Len(t)} \ {Bad}
  BY DEF Described, ToSet
<1>2. Len(t) = 0 => t = <<>>
  OBVIOUS
<1>3. r.failures \in Nat
  BY CatalogConstants DEF Says, Report
<1> QED  BY <1>1, <1>2, <1>3 DEF Says, Complete

LEMMA OneFailure ==
  ASSUME NEW d, ~Readable(d)
  PROVE  Complete(RecordFailure(EmptyReport), d)
<1> DEFINE r == RecordFailure(EmptyReport)
<1>1. EmptyReport.failures = 0 /\ MaxFailures \in Nat /\ 0 < MaxFailures
  BY CatalogConstants DEF EmptyReport
<1>2. r = [EmptyReport EXCEPT !.failures = 1]
  BY <1>1 DEF RecordFailure
<1>3. r = [scanned |-> 0, nodes |-> <<>>, duplicates |-> 0, failures |-> 1]
  BY <1>2 DEF EmptyReport
<1>4. 1 \in 0..MaxFailures /\ <<>> \in Seq(Node) /\ ToSet(<<>>) = {}
  BY <1>1 DEF ToSet
<1> HIDE DEF r
<1>6. r \in Report /\ r.nodes = <<>> /\ r.scanned = 0 /\ r.duplicates = 0 /\ r.failures = 1
  BY <1>3, <1>4 DEF Report
<1> QED  BY <1>4, <1>6 DEF Complete, r

\* Text in which nothing has a supported scheme.
LEMMA NoNodes ==
  ASSUME NEW d, NEW r, NEW t \in Seq(Line(Node)), Says(r, t, Len(t)), Len(t) > 0,
         \A i \in 1..Len(t) : t[i].node = Bad, Readable(d) => Described(d) = {}
  PROVE  Complete(r, d)
<1>1. {t[i].node : i \in 1..Len(t)} \ {Bad} = {}
  OBVIOUS
<1>2. ToSet(r.nodes) = {} /\ r \in Report
  BY <1>1 DEF Says
<1>3. r.nodes = <<>>
  <2>1. r.nodes \in Seq(Node)
    BY <1>2 DEF Report
  <2>2. \A q : ToSet(q) = {} => DOMAIN q = {}
    BY DEF ToSet
  <2>3. \A q \in Seq(Node) : q # <<>> => 1 \in DOMAIN q
    OBVIOUS
  <2> QED  BY <1>2, <2>1, <2>2, <2>3
<1>4. r.failures > 0 /\ r.failures \in Nat
  BY <1>2, <1>3, CatalogConstants DEF Says, Report
<1> QED  BY <1>2, <1>4 DEF Says, Complete

\* Whatever a payload is wrapped in.
LEMMA IngestComplete == ASSUME NEW d \in Payload  PROVE Complete(Ingest(d), d)
<1> DEFINE entries == CollectEntries(Surface(d))
           Plain   == {Skipped, Other}
<1>1. d.form \in Form /\ d.wrap \in Wrap /\ d.items \in Seq(Line(Node))
  BY CatalogConstants DEF IsPayload
<1>2. Other \in Line(Node) /\ \A l \in Line(Node) : l.text # "uri" => l \in Plain /\ l.node = Bad
  BY DEF Line, Skipped, Other, Entry
<1>3. Surface(d) \in Seq(Line(Node))
  <2>1. <<Other>> \in Seq(Line(Node))
    BY <1>2
  <2>2. Surface(d) = <<Other>> \/ Surface(d) = d.items
    BY DEF Surface
  <2> QED  BY <1>1, <2>1, <2>2
<1>4. entries \in Seq(Line(Node)) /\ CollectEntries(d.items) \in Seq(Line(Node))
  BY <1>1, <1>3, CollectFacts
<1>5. EmptyReport \in {EmptyReport, RecordFailure(EmptyReport)} /\ RecordFailure(EmptyReport) \in {EmptyReport, RecordFailure(EmptyReport)}
  OBVIOUS
<1>6. Surface(d) = <<Other>> => entries # <<>> /\ ~AnySupported(entries)
  BY CollectFacts DEF AnySupported, is_supported_scheme, Other
<1>7. Ingest(d) =
        IF d.form = "binary" /\ d.wrap = "plain" THEN RecordFailure(EmptyReport)
        ELSE IF entries = <<>> \/ AnySupported(entries) THEN ParseEntries(EmptyReport, entries)
        ELSE IF DetectContainer(d) /\ d.wrap # "refused" THEN IngestContainer(d)
        ELSE IF d.wrap = "base64" /\ d.form = "lines" /\ AnySupported(d.items)
             THEN ParseEntries(EmptyReport, CollectEntries(d.items))
        ELSE ParseEntries(RecordFailure(EmptyReport), entries)
  BY DEF Ingest
<1> HIDE DEF entries
<1>8. CASE d.form = "binary" /\ d.wrap = "plain"
  BY <1>7, <1>8, OneFailure DEF Readable
<1>9. CASE ~(d.form = "binary" /\ d.wrap = "plain") /\ (entries = <<>> \/ AnySupported(entries))
  <2>1. Surface(d) # <<Other>>
    BY <1>6, <1>9
  <2>2. d.form = "lines" /\ Surface(d) = d.items /\ Readable(d)
    BY <1>1, <1>9, <2>1 DEF Surface, Form, Readable
  <2>3. Content(d) = Take(entries)
    BY <2>2 DEF Content, entries
  <2>4. Says(ParseEntries(EmptyReport, entries), Take(entries), Len(Take(entries)))
    BY <1>4, <1>5, ReportSays
  <2> QED  BY <1>4, <1>7, <1>9, <2>2, <2>3, <2>4, TakeFacts, SaysIsComplete
<1>10. CASE /\ ~(d.form = "binary" /\ d.wrap = "plain") /\ ~(entries = <<>> \/ AnySupported(entries))
            /\ DetectContainer(d) /\ d.wrap # "refused"
  <2>1. CASE d.form = "clash"
    <3>1. Ingest(d) = ParseEntries(EmptyReport, d.items)
      BY <1>7, <1>10, <2>1 DEF IngestContainer
    <3>2. Content(d) = Take(d.items) /\ Readable(d)
      BY <1>10, <2>1 DEF Content, Readable
    <3>3. Says(ParseEntries(EmptyReport, d.items), Take(d.items), Len(Take(d.items)))
      BY <1>1, <1>5, ReportSays
    <3> QED  BY <1>1, <2>1, <3>1, <3>2, <3>3, TakeFacts, SaysIsComplete
  <2>2. CASE d.form # "clash"
    <3>1. Ingest(d) = RecordFailure(EmptyReport)
      BY <1>7, <1>10, <2>2 DEF IngestContainer
    <3>2. ~Readable(d)
      BY <1>10, <2>2 DEF DetectContainer, Readable
    <3> QED  BY <3>1, <3>2, OneFailure
  <2> QED  BY <2>1, <2>2
<1>11. CASE /\ ~(d.form = "binary" /\ d.wrap = "plain") /\ ~(entries = <<>> \/ AnySupported(entries)) /\ ~(DetectContainer(d) /\ d.wrap # "refused")
            /\ d.wrap = "base64" /\ d.form = "lines" /\ AnySupported(d.items)
  <2> DEFINE found == CollectEntries(d.items)
  <2>1. Ingest(d) = ParseEntries(EmptyReport, found)
    BY <1>7, <1>11
  <2>2. Content(d) = Take(found) /\ Readable(d)
    BY <1>11 DEF Content, Readable
  <2>3. Says(ParseEntries(EmptyReport, found), Take(found), Len(Take(found)))
    BY <1>4, <1>5, ReportSays
  <2> HIDE DEF found
  <2> QED  BY <1>4, <1>11, <2>1, <2>2, <2>3, TakeFacts, SaysIsComplete DEF found
<1>12. CASE /\ ~(d.form = "binary" /\ d.wrap = "plain") /\ ~(entries = <<>> \/ AnySupported(entries)) /\ ~(DetectContainer(d) /\ d.wrap # "refused")
            /\ ~(d.wrap = "base64" /\ d.form = "lines" /\ AnySupported(d.items))
  <2> DEFINE r == ParseEntries(RecordFailure(EmptyReport), entries)
             t == Take(entries)
  <2>1. Ingest(d) = r
    BY <1>7, <1>12
  <2>2. Says(r, t, Len(t)) /\ t \in Seq(Line(Node)) /\ Len(t) > 0
    BY <1>4, <1>5, <1>12, ReportSays, TakeFacts
  <2>3. \A i \in 1..Len(t) : t[i].node = Bad
    <3>1. \A i \in 1..Len(entries) : entries[i] \in Line(Node) /\ entries[i].text # "uri"
      BY <1>4, <1>12 DEF AnySupported, is_supported_scheme
    <3> QED  BY <1>2, <1>4, <3>1, TakeFacts
  <2>4. ASSUME Readable(d)  PROVE Described(d) = {}
    <3>1. d.form = "lines" /\ d.wrap # "refused"
      BY <1>12, <2>4 DEF DetectContainer, Readable
    <3>2. Described(d) = {}
      <4> DEFINE found == CollectEntries(d.items)
      <4>1. \A i \in 1..Len(found) : found[i] \in Line(Node) /\ found[i].text # "uri"
        <5>1. CASE d.wrap = "plain"
          <6>1. Surface(d) = d.items
            BY <3>1, <5>1 DEF Surface
          <6> QED  BY <1>4, <1>12, <6>1 DEF AnySupported, is_supported_scheme, entries
        <5>2. CASE ~AnySupported(d.items)
          <6>1. \A i \in 1..Len(d.items) : d.items[i] \in Plain
            BY <1>1, <1>2, <5>2 DEF AnySupported, is_supported_scheme
          <6>2. d.items \in Seq(Plain)
            BY <1>1, <6>1
          <6>3. found \in Seq(Plain)
            BY <6>2, CollectFacts
          <6>4. \A l \in Plain : l.text # "uri"
            BY DEF Skipped, Other
          <6> HIDE DEF Plain, found
          <6> QED  BY <1>4, <6>3, <6>4 DEF found
        <5> QED  BY <1>1, <1>12, <3>1, <5>1, <5>2 DEF Wrap
      <4>2. Content(d) = Take(found)
        BY <3>1 DEF Content
      <4>3. found \in Seq(Line(Node))
        BY <1>4
      <4> HIDE DEF found
      <4>4. \A i \in 1..Len(Take(found)) : Take(found)[i].node = Bad
        BY <1>2, <4>1, <4>3, TakeFacts
      <4>5. DOMAIN Take(found) = 1..Len(Take(found))
        BY <4>3, TakeFacts
      <4> QED  BY <4>2, <4>4, <4>5 DEF Described, ToSet
    <3> QED  BY <3>2
  <2> HIDE DEF r, t
  <2> QED  BY <2>1, <2>2, <2>3, <2>4, NoNodes
<1> QED  BY <1>8, <1>9, <1>10, <1>11, <1>12

-----------------------------------------------------------------------------
(* The file and its transactions.                                          *)

LEMMA TableFacts == \A t : t \in Table <=> DOMAIN t \subseteq Ids /\ t \in [DOMAIN t -> Row]
BY DEF Table

LEMMA NoJobFacts ==
  /\ NoJob \in Job /\ NoJob.ids = {}
BY CatalogConstants DEF NoJob, Job

\* Steps outside of a transaction that leave the file alone.
LEMMA Quiet ==
  ASSUME CatInv, NEW p \in Proc, UNCHANGED <<db, tx, writer>>,
         pc' \in [Proc -> Place], job' \in [Proc -> Job],
         \A q \in Proc \ {p} : pc'[q] = pc[q] /\ job'[q] = job[q],
         pc[p] \notin Writing, pc'[p] \notin Writing,
         pc'[p] = "parsed" =>
           /\ job'[p].sub \in Subs /\ job'[p].doc \in Payload /\ job'[p].report = Ingest(job'[p].doc)
           /\ job'[p].ids = {}
  PROVE  CatInv'
<1>1. Shape'
  BY DEF CatInv, Shape
<1>2. JobInv'
  BY DEF CatInv, JobInv, Writing
<1>3. Committed'
  BY DEF CatInv, Committed, Kept, Rows
<1>4. DraftInv'
  <2> SUFFICES ASSUME NEW q \in Proc, writer' = q  PROVE Draft(q)'
    BY DEF DraftInv
  <2>1. q # p /\ writer = q
    BY DEF CatInv, Shape
  <2>2. Draft(q) /\ pc'[q] = pc[q] /\ job'[q] = job[q]
    BY <2>1 DEF CatInv, DraftInv
  <2> QED  BY <2>2 DEF Draft, OtherLinks, OwnLinks, Kept, Rows
<1> QED  BY <1>1, <1>2, <1>3, <1>4 DEF CatInv

\* The same, said of pc and job as the actions say it.
LEMMA Step ==
  ASSUME CatInv, NEW p \in Proc, UNCHANGED <<db, tx, writer>>, NEW to \in Place,
         pc[p] \notin Writing, to \notin Writing, pc' = [pc EXCEPT ![p] = to],
         NEW j \in Job, job' = [job EXCEPT ![p] = j],
         to = "parsed" =>
           j.sub \in Subs /\ j.doc \in Payload /\ j.report = Ingest(j.doc) /\ j.ids = {}
  PROVE  CatInv'
<1>1. pc \in [Proc -> Place] /\ job \in [Proc -> Job]
  BY DEF CatInv, Shape
<1>2. pc' \in [Proc -> Place] /\ job' \in [Proc -> Job]
  BY <1>1
<1>3. pc'[p] = to /\ job'[p] = j /\ \A q \in Proc \ {p} : pc'[q] = pc[q] /\ job'[q] = job[q]
  BY <1>1
<1> QED  BY <1>2, <1>3, Quiet

LEMMA KeepJob ==
  ASSUME CatInv, NEW p \in Proc, UNCHANGED job
  PROVE  job[p] \in Job /\ job' = [job EXCEPT ![p] = job[p]]
BY DEF CatInv, Shape

LEMMA OpenSafe == ASSUME CatInv, NEW p \in Proc, Open(p)  PROVE CatInv'
<1> DEFINE to == IF db.column THEN "hydrate" ELSE "alter"
<1>1. pc[p] = "closed" /\ pc' = [pc EXCEPT ![p] = to] /\ UNCHANGED <<db, tx, writer, job>>
  BY DEF Open, Goto
<1>2. to \in Place /\ to \notin Writing /\ to # "parsed" /\ pc[p] \notin Writing
  BY <1>1 DEF Place, Writing
<1> HIDE DEF to
<1> QED  BY <1>1, <1>2, KeepJob, Step

LEMMA HydrateSafe == ASSUME CatInv, NEW p \in Proc, Hydrate(p)  PROVE CatInv'
<1> USE DEF Goto, Place, Writing
<1>1. CASE HydrateNodes(p)
  BY <1>1, KeepJob, Step DEF HydrateNodes
<1>2. CASE HydrateSources(p)
  BY <1>2, KeepJob, Step DEF HydrateSources
<1>3. CASE Publish(p)
  BY <1>3, KeepJob, Step DEF Publish
<1> QED  BY <1>1, <1>2, <1>3 DEF Hydrate

LEMMA ParsedSafe ==
  ASSUME CatInv, NEW p \in Proc, NEW s \in Subs, NEW d \in Payload, NEW import \in BOOLEAN,
         NEW allow \in BOOLEAN, Goto(p, "idle", "parsed"), Parsed(p, s, d, import, allow), UNCHANGED <<db, tx, writer>>
  PROVE  CatInv'
<1> DEFINE j == [sub |-> s, doc |-> d, report |-> Ingest(d), import |-> import, allow |-> allow,
                 todo |-> <<>>, ids |-> {}]
<1>2. j \in Job
  BY CatalogConstants DEF Job, Subs
<1>3. j.sub \in Subs /\ j.doc \in Payload /\ j.report = Ingest(j.doc) /\ j.ids = {}
  OBVIOUS
<1>4. job' = [job EXCEPT ![p] = j] /\ pc[p] = "idle" /\ pc' = [pc EXCEPT ![p] = "parsed"]
  BY DEF Parsed, Goto
<1> HIDE DEF j
<1> QED  BY <1>2, <1>3, <1>4, Step DEF Place, Writing

LEMMA RefuseSafe == ASSUME CatInv, NEW p \in Proc, Refuse(p)  PROVE CatInv'
BY Step, NoJobFacts DEF Refuse, Goto, Place, Writing

\* Steps that change kinds or the column, with nobody writing.
LEMMA Unlocked ==
  ASSUME CatInv, NEW p \in Proc, writer = None, UNCHANGED <<tx, writer>>,
         db' \in View, Rows(db)' = Rows(db), db'.links = db.links, db'.subs = db.subs,
         NEW to \in Place, to \notin Writing \cup {"parsed"}, pc' = [pc EXCEPT ![p] = to],
         NEW j \in Job, job' = [job EXCEPT ![p] = j]
  PROVE  CatInv'
<1>1. pc \in [Proc -> Place] /\ job \in [Proc -> Job] /\ \A q \in Proc : pc[q] \notin Writing
  BY CatalogConstants DEF CatInv, Shape
<1>2. pc' \in [Proc -> Place] /\ job' \in [Proc -> Job]
  BY <1>1
<1>3. pc'[p] = to /\ job'[p] = j /\ \A q \in Proc \ {p} : pc'[q] = pc[q] /\ job'[q] = job[q]
  BY <1>1
<1>4. Shape'
  BY <1>1, <1>2, <1>3, CatalogConstants DEF CatInv, Shape
<1>5. JobInv'
  BY <1>1, <1>3 DEF CatInv, JobInv, Writing
<1>6. Committed'
  BY DEF CatInv, Committed, Kept
<1>7. DraftInv'
  BY CatalogConstants DEF DraftInv
<1> QED  BY <1>4, <1>5, <1>6, <1>7 DEF CatInv

LEMMA RowsFacts ==
  ASSUME CatInv
  PROVE  /\ Rows(db) \in SUBSET Ids /\ Rows(db) \in SUBSET Nat /\ IsFiniteSet(Rows(db))
         /\ db.nodes \in [Rows(db) -> Row]
<1>1. db.nodes \in Table
  BY DEF CatInv, Shape, View
<1>2. Rows(db) \in SUBSET Ids /\ db.nodes \in [Rows(db) -> Row]
  BY <1>1, TableFacts DEF Rows
<1>3. IsFiniteSet(Ids)
  BY CatalogConstants, FS_Interval DEF Ids
<1> QED  BY <1>2, <1>3, CatalogConstants, FS_Subset DEF Ids

LEMMA TellableFacts ==
  ASSUME CatInv
  PROVE  Tellable(db) \in SUBSET Ids /\ Tellable(db) \in SUBSET Nat /\ IsFiniteSet(Tellable(db))
<1>1. Tellable(db) \in SUBSET Rows(db)
  BY DEF Tellable, Rows
<1> QED  BY <1>1, RowsFacts, FS_Subset

LEMMA AlterSafe == ASSUME CatInv, NEW p \in Proc, AlterTable(p)  PROVE CatInv'
<1> DEFINE to   == IF db.column THEN "closed" ELSE "backfill"
           todo == IF db.column THEN <<>> ELSE Ascending(Tellable(db))
           j    == [job[p] EXCEPT !.todo = todo]
<1>1. /\ pc[p] = "alter" /\ pc' = [pc EXCEPT ![p] = to] /\ UNCHANGED <<tx, writer>> /\ writer = None
      /\ job' = [job EXCEPT ![p] = j] /\ db' = [db EXCEPT !.column = TRUE]
  BY DEF AlterTable, Goto
<1>2. to \in Place /\ to \notin Writing \cup {"parsed"}
  BY DEF Place, Writing
<1>3. todo \in Seq(Node) \cup Seq(Ids)
  <2>1. Ascending(Tellable(db)) \in Seq(Tellable(db))
    BY TellableFacts, AscendingFacts
  <2>2. Ascending(Tellable(db)) \in Seq(Ids)
    BY <2>1, TellableFacts
  <2> QED  BY <2>2
<1>4. j \in Job
  <2>1. job[p] \in Job
    BY DEF CatInv, Shape
  <2> HIDE DEF todo
  <2> QED  BY <1>3, <2>1 DEF Job
<1>5. /\ db' \in View /\ db'.nodes = db.nodes /\ db'.links = db.links /\ db'.subs = db.subs
  BY <1>1 DEF CatInv, Shape, View
<1>6. Rows(db)' = Rows(db)
  BY <1>5 DEF Rows
<1> HIDE DEF to, j
<1> QED  BY <1>1, <1>2, <1>4, <1>5, <1>6, Unlocked

LEMMA BackfillSafe == ASSUME CatInv, NEW p \in Proc, Backfill(p)  PROVE CatInv'
<1>1. pc[p] = "backfill" /\ writer = None /\ UNCHANGED <<tx, writer>>
  BY DEF Backfill
<1>2. CASE job[p].todo = <<>>
  <2>1. pc' = [pc EXCEPT ![p] = "hydrate"] /\ UNCHANGED <<db, tx, writer, job>>
    BY <1>2 DEF Backfill
  <2> QED  BY <1>1, <2>1, KeepJob, Step DEF Place, Writing
<1>3. CASE job[p].todo # <<>>
  <2> DEFINE todo  == job[p].todo
             table == [i \in DOMAIN db.nodes |-> IF i = Head(todo) THEN Backfilled(db.nodes[i]) ELSE db.nodes[i]]
             j     == [job[p] EXCEPT !.todo = Tail(todo)]
  <2>1. /\ db' = [db EXCEPT !.nodes = table] /\ job' = [job EXCEPT ![p] = j] /\ UNCHANGED pc
    BY <1>3 DEF Backfill
  <2>2. job[p] \in Job /\ todo \in Seq(Node) \cup Seq(Ids)
    BY DEF CatInv, Shape, Job
  <2>3. Tail(todo) \in Seq(Node) \cup Seq(Ids)
    BY <1>3, <2>2
  <2>4. j \in Job
    BY <2>2, <2>3 DEF Job
  <2>5. table \in [Rows(db) -> Row]
    <3>1. \A r \in Row : Backfilled(r) \in Row
      BY DEF Backfilled, Row, Kind
    <3> QED  BY <3>1, RowsFacts DEF Rows
  <2>6. table \in Table /\ DOMAIN table = Rows(db)
    BY <2>5, RowsFacts, TableFacts
  <2> HIDE DEF table, j
  <2>7. /\ db' \in View /\ db'.nodes = table /\ db'.links = db.links /\ db'.subs = db.subs
    BY <2>1, <2>6 DEF CatInv, Shape, View
  <2>8. Rows(db)' = Rows(db)
    BY <2>6, <2>7 DEF Rows
  <2>9. pc' = [pc EXCEPT ![p] = "backfill"]
    BY <1>1, <2>1 DEF CatInv, Shape
  <2> QED  BY <1>1, <2>1, <2>4, <2>7, <2>8, <2>9, Unlocked DEF Place, Writing
<1> QED  BY <1>2, <1>3

-----------------------------------------------------------------------------
(* The transaction.                                                        *)

LEMMA LargestFacts ==
  ASSUME NEW S \in SUBSET Nat, IsFiniteSet(S)
  PROVE  Largest(S) \in Nat /\ \A y \in S : y <= Largest(S)
<1>1. CASE S = {}
  BY <1>1 DEF Largest
<1>2. CASE S # {}
  <2> DEFINE s == Ascending(S)
             n == Cardinality(S)
  <2>1. s \in Seq(S) /\ Len(s) = n /\ ToSet(s) = S /\ \A i, j \in 1..n : i < j => s[i] < s[j]
    BY AscendingFacts
  <2> HIDE DEF s
  <2>2. n \in Nat /\ n # 0
    BY <1>2, FS_CardinalityType, FS_EmptySet
  <2> HIDE DEF n
  <2>3. s[n] \in S
    BY <2>1, <2>2
  <2>4. ASSUME NEW y \in S  PROVE y <= s[n]
    <3>1. PICK i \in 1..n : s[i] = y
      <4>1. DOMAIN s = 1..n
        BY <2>1
      <4> QED  BY <2>1, <4>1 DEF ToSet
    <3>2. CASE i = n
      BY <2>3, <3>1, <3>2
    <3>3. CASE i # n
      <4>1. i < n /\ n \in 1..n
        BY <2>2, <3>3
      <4>2. s[i] < s[n]
        BY <2>1, <4>1
      <4>3. y \in Nat /\ s[n] \in Nat
        BY <2>3
      <4> QED  BY <3>1, <4>2, <4>3
    <3> QED  BY <3>2, <3>3
  <2> QED  BY <1>2, <2>3, <2>4 DEF Largest
<1> QED  BY <1>1, <1>2

LEMMA IngestNodes == ASSUME NEW d \in Payload  PROVE Ingest(d).nodes \in Seq(Node)
BY IngestComplete DEF Complete, Report

LEMMA Writes ==
  ASSUME CatInv, NEW p \in Proc, writer \in {None, p}, writer' = p, UNCHANGED db, tx' \in View,
         NEW to \in Writing, pc' = [pc EXCEPT ![p] = to],
         NEW j \in Job, job' = [job EXCEPT ![p] = j],
         pc[p] \in {"parsed"} \cup Writing,
         j.sub = job[p].sub,
         to = "ensure" => j.todo \in Seq(Node) /\ (j.todo # <<>> \/ j.ids # {} \/ j.allow),
         to \in {"link", "prune", "commit"} => j.ids # {} \/ j.allow,
         Draft(p)'
  PROVE  CatInv'
<1>1. /\ pc \in [Proc -> Place] /\ job \in [Proc -> Job]
      /\ \A q \in Proc \ {p} : pc[q] \notin Writing
  BY CatalogConstants DEF CatInv, Shape
<1>2. pc' \in [Proc -> Place] /\ job' \in [Proc -> Job]
  BY <1>1 DEF Writing, Place
<1>3. pc'[p] = to /\ job'[p] = j /\ \A q \in Proc \ {p} : pc'[q] = pc[q] /\ job'[q] = job[q]
  BY <1>1
<1>4. Shape'
  BY <1>1, <1>2, <1>3, CatalogConstants DEF CatInv, Shape
<1>5. JobInv'
  <2> SUFFICES ASSUME NEW q \in Proc
               PROVE  /\ pc'[q] \in {"parsed"} \cup Writing => job'[q].sub \in Subs
                      /\ pc'[q] = "parsed" =>
                           /\ job'[q].doc \in Payload /\ job'[q].report = Ingest(job'[q].doc)
                           /\ job'[q].ids = {}
                      /\ pc'[q] = "ensure" =>
                           /\ job'[q].todo \in Seq(Node)
                           /\ job'[q].todo # <<>> \/ job'[q].ids # {} \/ job'[q].allow
                      /\ pc'[q] \in {"link", "prune", "commit"} => job'[q].ids # {} \/ job'[q].allow
    BY DEF JobInv
  <2>1. CASE q = p
    BY <1>3, <2>1 DEF CatInv, JobInv, Writing
  <2>2. CASE q # p
    BY <1>3, <2>2 DEF CatInv, JobInv
  <2> QED  BY <2>1, <2>2
<1>6. Committed'
  BY DEF CatInv, Committed, Kept, Rows
<1>7. DraftInv'
  BY DEF DraftInv
<1> QED  BY <1>4, <1>5, <1>6, <1>7 DEF CatInv

LEMMA UpsertSafe == ASSUME CatInv, NEW p \in Proc, Upsert(p)  PROVE CatInv'
<1> DEFINE j == [job[p] EXCEPT !.todo = job[p].report.nodes, !.doc = None, !.report = EmptyReport]
<1>1. /\ pc[p] = "parsed" /\ pc' = [pc EXCEPT ![p] = "ensure"] /\ writer = None /\ writer' = p
      /\ tx' = [db EXCEPT !.subs = @ \cup {job[p].sub}] /\ job' = [job EXCEPT ![p] = j] /\ UNCHANGED db
      /\ job[p].report.nodes # <<>> \/ job[p].allow
  BY DEF Upsert, Goto, Refused
<1>2. /\ job[p] \in Job /\ job[p].sub \in Subs /\ job[p].ids = {}
      /\ job[p].report.nodes \in Seq(Node)
  BY <1>1, IngestNodes DEF CatInv, Shape, JobInv
<1>3. /\ j \in Job /\ j.sub = job[p].sub
      /\ j.ids = {} /\ j.todo \in Seq(Node) /\ (j.todo # <<>> \/ j.allow)
  BY <1>1, <1>2 DEF Job
<1>4. /\ tx' \in View /\ tx'.subs = db.subs \cup {job[p].sub} /\ tx'.nodes = db.nodes /\ tx'.links = db.links
      /\ tx'.column = db.column
  BY <1>1, <1>2 DEF CatInv, Shape, View
<1> HIDE DEF j
<1>5. pc'[p] = "ensure" /\ job'[p] = j
  BY <1>1 DEF CatInv, Shape
<1>6. Draft(p)'
  BY <1>1, <1>3, <1>4, <1>5 DEF Draft, Rows
<1> QED  BY <1>1, <1>3, <1>4, <1>6, Writes DEF Writing

\* What a writer finds.
LEMMA WriterFacts ==
  ASSUME CatInv, NEW p \in Proc, pc[p] \in Writing
  PROVE  /\ writer = p /\ tx \in View /\ Draft(p)
         /\ job[p] \in Job /\ job[p].sub \in Subs /\ job[p].ids \in SUBSET Ids
         /\ Rows(tx) \in SUBSET Ids /\ Rows(tx) \in SUBSET Nat /\ IsFiniteSet(Rows(tx))
         /\ tx.nodes \in [Rows(tx) -> Row]
<1>1. writer = p /\ tx \in View /\ Draft(p)
  BY CatalogConstants DEF CatInv, Shape, DraftInv
<1>2. job[p] \in Job /\ job[p].sub \in Subs /\ job[p].ids \in SUBSET Ids
  BY DEF CatInv, Shape, JobInv, Job
<1>3. tx.nodes \in Table
  BY <1>1 DEF View
<1>4. Rows(tx) \in SUBSET Ids /\ tx.nodes \in [Rows(tx) -> Row]
  BY <1>3, TableFacts DEF Rows
<1>5. IsFiniteSet(Ids)
  BY CatalogConstants, FS_Interval DEF Ids
<1> QED  BY <1>1, <1>2, <1>4, <1>5, CatalogConstants, FS_Subset DEF Ids

LEMMA EnsureSafe == ASSUME CatInv, NEW p \in Proc, EnsureNode(p)  PROVE CatInv'
<1> DEFINE n     == Head(job[p].todo)
           known == {i \in DOMAIN tx.nodes : tx.nodes[i].node = n}
           id    == IF known # {} THEN CHOOSE i \in known : TRUE ELSE Largest(DOMAIN tx.nodes) + 1
           j     == [job[p] EXCEPT !.todo = Tail(@), !.ids = @ \cup {id}]
<1>1. /\ pc[p] = "ensure" /\ job[p].todo # <<>> /\ id \in Ids /\ UNCHANGED <<db, writer, pc>>
      /\ tx' = IF known # {} THEN tx ELSE [tx EXCEPT !.nodes = With(@, id, [node |-> n, kind |-> "right"])]
      /\ job' = [job EXCEPT ![p] = j]
  BY DEF EnsureNode
<1>2. /\ writer = p /\ tx \in View /\ Draft(p) /\ job[p] \in Job /\ job[p].ids \in SUBSET Ids
      /\ Rows(tx) \in SUBSET Ids /\ Rows(tx) \in SUBSET Nat /\ IsFiniteSet(Rows(tx))
      /\ tx.nodes \in [Rows(tx) -> Row]
  BY <1>1, WriterFacts DEF Writing
<1>3. job[p].todo \in Seq(Node)
  BY <1>1 DEF CatInv, JobInv
<1>4. n \in Node /\ Tail(job[p].todo) \in Seq(Node)
  BY <1>1, <1>3
<1>5. /\ j \in Job /\ j.sub = job[p].sub
      /\ j.ids = job[p].ids \cup {id} /\ j.todo \in Seq(Node)
  <2> HIDE DEF n, known, id
  <2> QED  BY <1>1, <1>2, <1>4 DEF Job
<1>6. pc' = [pc EXCEPT ![p] = "ensure"] /\ pc'[p] = "ensure" /\ job'[p] = j
  BY <1>1 DEF CatInv, Shape
<1>7. CASE known # {}
  <2>1. tx' = tx /\ id \in Rows(tx)
    BY <1>1, <1>7 DEF Rows
  <2> HIDE DEF j, id
  <2>2. Draft(p)'
    BY <1>1, <1>2, <1>5, <1>6, <2>1 DEF Draft, Rows, OtherLinks, OwnLinks
  <2> QED  BY <1>1, <1>2, <1>5, <1>6, <2>1, <2>2, Writes DEF Writing
<1>8. CASE known = {}
  <2> DEFINE row == [node |-> n, kind |-> "right"]
             table == With(tx.nodes, id, row)
  <2>1. id = Largest(Rows(tx)) + 1
    BY <1>8 DEF Rows
  <2>2. id \notin Rows(tx)
    BY <1>2, <2>1, LargestFacts
  <2>3. row \in Row
    BY <1>4 DEF Row, Kind
  <2> HIDE DEF row, id, n, known, j
  <2>4. table \in [Rows(tx) \cup {id} -> Row] /\ \A i \in Rows(tx) : table[i] = tx.nodes[i]
    BY <1>2, <2>2, <2>3 DEF With, Rows
  <2>5. table \in Table /\ DOMAIN table = Rows(tx) \cup {id}
    BY <1>1, <1>2, <2>4, TableFacts
  <2>6. tx' = [tx EXCEPT !.nodes = table]
    BY <1>1, <1>8 DEF row
  <2> HIDE DEF table
  <2>7. /\ tx' \in View /\ tx'.nodes = table /\ tx'.links = tx.links /\ tx'.subs = tx.subs
        /\ tx'.column = tx.column
    BY <1>2, <2>5, <2>6 DEF View
  <2>8. Rows(tx)' = Rows(tx) \cup {id} /\ Rows(db)' = Rows(db)
    BY <1>1, <2>5, <2>7 DEF Rows
  <2>9. Rows(db) \in SUBSET Rows(tx)
    BY <1>1, <1>2 DEF Draft
  <2>10. \A i \in Rows(tx)' \cap Rows(db)' : tx'.nodes[i] = db'.nodes[i]
    BY <1>1, <1>2, <2>4, <2>7, <2>8, <2>9 DEF Draft
  <2>11. Draft(p)'
    BY <1>1, <1>2, <1>5, <1>6, <2>7, <2>8, <2>9, <2>10 DEF Draft, OtherLinks, OwnLinks
  <2> QED  BY <1>1, <1>2, <1>5, <1>6, <2>7, <2>11, Writes DEF Writing
<1> QED  BY <1>7, <1>8

LEMMA UnlinkSafe == ASSUME CatInv, NEW p \in Proc, Unlink(p)  PROVE CatInv'
<1>1. /\ pc[p] = "ensure" /\ job[p].todo = <<>> /\ pc' = [pc EXCEPT ![p] = "link"] /\ UNCHANGED <<db, writer, job>>
      /\ tx' = [tx EXCEPT !.links = {l \in tx.links : l[2] # job[p].sub}]
  BY DEF Unlink, Goto
<1>2. writer = p /\ tx \in View /\ Draft(p) /\ job[p] \in Job /\ job' = [job EXCEPT ![p] = job[p]]
  BY <1>1, WriterFacts, KeepJob DEF Writing
<1>3. job[p].ids # {} \/ job[p].allow
  BY <1>1 DEF CatInv, JobInv
<1>4. pc'[p] = "link" /\ job'[p] = job[p]
  BY <1>1 DEF CatInv, Shape
<1>5. /\ tx' \in View /\ tx'.nodes = tx.nodes /\ tx'.subs = tx.subs /\ tx'.column = tx.column
      /\ tx'.links = {l \in tx.links : l[2] # job[p].sub}
  BY <1>1, <1>2 DEF View
<1>6. Rows(tx)' = Rows(tx) /\ Rows(db)' = Rows(db)
  BY <1>1, <1>5 DEF Rows
<1>7. Draft(p)'
  BY <1>1, <1>2, <1>4, <1>5, <1>6, ZenonT(30) DEF Draft, OtherLinks, OwnLinks
<1> QED  BY <1>1, <1>2, <1>3, <1>5, <1>7, Writes DEF Writing

LEMMA LinkSafe == ASSUME CatInv, NEW p \in Proc, Link(p)  PROVE CatInv'
<1> DEFINE own == {<<i, job[p].sub>> : i \in job[p].ids}
<1>1. /\ pc[p] = "link" /\ pc' = [pc EXCEPT ![p] = "prune"] /\ UNCHANGED <<db, writer, job>>
      /\ tx' = [tx EXCEPT !.links = tx.links \cup own]
  BY DEF Link, Goto
<1>2. /\ writer = p /\ tx \in View /\ Draft(p) /\ job[p] \in Job /\ job' = [job EXCEPT ![p] = job[p]]
      /\ job[p].sub \in Subs /\ job[p].ids \in SUBSET Ids
  BY <1>1, WriterFacts, KeepJob DEF Writing
<1>3. job[p].ids # {} \/ job[p].allow
  BY <1>1 DEF CatInv, JobInv
<1>4. pc'[p] = "prune" /\ job'[p] = job[p]
  BY <1>1 DEF CatInv, Shape
<1>5. own \in SUBSET (Ids \X Subs)
  BY <1>2
<1>6. /\ tx' \in View /\ tx'.nodes = tx.nodes /\ tx'.subs = tx.subs /\ tx'.column = tx.column
      /\ tx'.links = tx.links \cup own
  BY <1>1, <1>2, <1>5 DEF View
<1>7. Rows(tx)' = Rows(tx) /\ Rows(db)' = Rows(db)
  BY <1>1, <1>6 DEF Rows
<1>8. OtherLinks(p)' = OtherLinks(p) /\ OwnLinks(p)' = own
  BY <1>1 DEF OtherLinks, OwnLinks
<1>9. tx.links = OtherLinks(p)
  BY <1>1, <1>2 DEF Draft
<1> HIDE DEF own
<1>10. Draft(p)'
  BY <1>1, <1>2, <1>4, <1>6, <1>7, <1>8, <1>9, ZenonT(30) DEF Draft
<1> QED  BY <1>1, <1>2, <1>3, <1>6, <1>10, Writes DEF Writing

LEMMA PruneSafe == ASSUME CatInv, NEW p \in Proc, Prune(p)  PROVE CatInv'
<1> DEFINE table == Without(tx.nodes, Orphans(p))
<1>1. /\ pc[p] = "prune" /\ pc' = [pc EXCEPT ![p] = "commit"] /\ UNCHANGED <<db, writer, job>>
      /\ tx' = [tx EXCEPT !.nodes = table]
  BY DEF Prune, Goto
<1>2. /\ writer = p /\ tx \in View /\ Draft(p) /\ job[p] \in Job /\ job' = [job EXCEPT ![p] = job[p]]
      /\ job[p].sub \in Subs /\ job[p].ids \in SUBSET Ids
      /\ Rows(tx) \in SUBSET Ids /\ tx.nodes \in [Rows(tx) -> Row]
  BY <1>1, WriterFacts, KeepJob DEF Writing
<1>3. job[p].ids # {} \/ job[p].allow
  BY <1>1 DEF CatInv, JobInv
<1>4. pc'[p] = "commit" /\ job'[p] = job[p]
  BY <1>1 DEF CatInv, Shape
<1>5. Rows(tx) \ Orphans(p) = Kept(tx)
  BY DEF Orphans, Kept, Rows
<1>6. table \in [Kept(tx) -> Row] /\ \A i \in Kept(tx) : table[i] = tx.nodes[i]
  BY <1>2, <1>5 DEF Without, Rows, Kept
<1>7. table \in Table /\ DOMAIN table = Kept(tx)
  BY <1>2, <1>6, TableFacts DEF Kept
<1> HIDE DEF table
<1>8. /\ tx' \in View /\ tx'.nodes = table /\ tx'.subs = tx.subs /\ tx'.column = tx.column
      /\ tx'.links = tx.links
  BY <1>1, <1>2, <1>7 DEF View
<1>9. Rows(tx)' = Kept(tx) /\ Rows(db)' = Rows(db)
  BY <1>1, <1>7, <1>8 DEF Rows
<1>10. Kept(tx)' = Kept(tx)
  BY <1>8, <1>9 DEF Kept
<1>11. OtherLinks(p)' = OtherLinks(p) /\ OwnLinks(p)' = OwnLinks(p)
  BY <1>1 DEF OtherLinks, OwnLinks
<1>12. /\ tx.links = OtherLinks(p) \cup OwnLinks(p) /\ Rows(db) \subseteq Rows(tx)
       /\ tx.subs = db.subs \cup {job[p].sub} /\ job[p].ids \subseteq Rows(tx)
  BY <1>1, <1>2 DEF Draft
<1>13. ASSUME NEW l \in tx.links  PROVE l[1] \in Kept(tx)
  <2>1. l = <<l[1], l[2]>>
    BY <1>2 DEF View
  <2>2. CASE l \in OtherLinks(p)
    <3>1. l \in db.links
      BY <2>2 DEF OtherLinks
    <3>2. l[1] \in Rows(tx) /\ l[2] \in tx.subs
      BY <1>12, <3>1 DEF CatInv, Committed
    <3> QED  BY <2>1, <3>2 DEF Kept
  <2>3. CASE l \in OwnLinks(p)
    <3>1. l[1] \in job[p].ids /\ l[2] = job[p].sub
      BY <2>3 DEF OwnLinks
    <3> QED  BY <1>12, <2>1, <3>1 DEF Kept
  <2> QED  BY <1>12, <2>2, <2>3
<1>14. job[p].ids \subseteq Kept(tx)
  <2> SUFFICES ASSUME NEW i \in job[p].ids  PROVE i \in Kept(tx)
    OBVIOUS
  <2>1. <<i, job[p].sub>> \in tx.links
    BY <1>12 DEF OwnLinks
  <2> QED  BY <1>12, <2>1 DEF Kept
<1>15. \A i \in Rows(tx)' \cap Rows(db)' : tx'.nodes[i] = db'.nodes[i]
  BY <1>1, <1>2, <1>6, <1>8, <1>9 DEF Draft, Kept
<1>16. Rows(tx)' = Kept(tx)' /\ \A l \in tx'.links : l[1] \in Rows(tx)'
  BY <1>8, <1>9, <1>10, <1>13
<1>17. tx'.column = db'.column /\ tx'.subs = db'.subs \cup {job'[p].sub} /\ job'[p].ids \subseteq Rows(tx)'
  BY <1>1, <1>2, <1>4, <1>8, <1>9, <1>12, <1>14 DEF Draft
<1>18. tx'.links = OtherLinks(p)' \cup OwnLinks(p)'
  BY <1>8, <1>11, <1>12
<1>19. Draft(p)'
  BY <1>4, <1>15, <1>16, <1>17, <1>18 DEF Draft
<1> QED  BY <1>1, <1>2, <1>3, <1>8, <1>19, Writes DEF Writing

\* The writer is done, or gone.
LEMMA Released ==
  ASSUME CatInv, NEW p \in Proc, writer = p, writer' = None, tx' = None, db' \in View, Committed',
         NEW to \in Place, to \notin Writing \cup {"parsed"}, pc' = [pc EXCEPT ![p] = to],
         job' = [job EXCEPT ![p] = NoJob]
  PROVE  CatInv'
<1>1. pc \in [Proc -> Place] /\ job \in [Proc -> Job] /\ \A q \in Proc \ {p} : pc[q] \notin Writing
  BY CatalogConstants DEF CatInv, Shape
<1>2. pc' \in [Proc -> Place] /\ job' \in [Proc -> Job]
  BY <1>1, NoJobFacts
<1>3. pc'[p] = to /\ \A q \in Proc \ {p} : pc'[q] = pc[q] /\ job'[q] = job[q]
  BY <1>1
<1>4. Shape'
  BY <1>1, <1>2, <1>3, CatalogConstants DEF CatInv, Shape
<1>5. JobInv'
  BY <1>3 DEF CatInv, JobInv, Writing
<1>6. DraftInv'
  BY CatalogConstants DEF DraftInv
<1> QED  BY <1>4, <1>5, <1>6 DEF CatInv

\* What is committed.
LEMMA DraftCommits ==
  ASSUME CatInv, NEW p \in Proc, pc[p] = "commit"
  PROVE  /\ \A l \in tx.links : l[1] \in Rows(tx) /\ l[2] \in tx.subs
         /\ Rows(tx) = Kept(tx)
<1>1. Draft(p)
  BY WriterFacts DEF Writing
<1>2. /\ Rows(tx) = Kept(tx) /\ \A l \in tx.links : l[1] \in Rows(tx)
      /\ tx.links = OtherLinks(p) \cup OwnLinks(p) /\ tx.subs = db.subs \cup {job[p].sub}
  BY <1>1 DEF Draft
<1>3. ASSUME NEW l \in tx.links  PROVE l[2] \in tx.subs
  <2>1. CASE l \in OtherLinks(p)
    BY <1>2, <2>1 DEF OtherLinks, CatInv, Committed
  <2>2. CASE l \in OwnLinks(p)
    BY <1>2, <2>2 DEF OwnLinks
  <2> QED  BY <1>2, <2>1, <2>2
<1> QED  BY <1>2, <1>3

LEMMA CommitSafe == ASSUME CatInv, NEW p \in Proc, Commit(p)  PROVE CatInv'
<1>1. /\ pc[p] = "commit" /\ pc' = [pc EXCEPT ![p] = "hydrate"] /\ db' = tx /\ tx' = None /\ writer' = None
      /\ job' = [job EXCEPT ![p] = NoJob]
  BY DEF Commit, Goto
<1>2. writer = p /\ tx \in View
  BY <1>1, WriterFacts DEF Writing
<1>3. Committed'
  BY <1>1, DraftCommits DEF Committed, Kept, Rows
<1> QED  BY <1>1, <1>2, <1>3, Released DEF Place, Writing

LEMMA AbandonSafe ==
  ASSUME CatInv, NEW p \in Proc, Abandon(p), NEW to \in {"closed", "idle"}, pc' = [pc EXCEPT ![p] = to]
  PROVE  CatInv'
<1>1. job' = [job EXCEPT ![p] = NoJob] /\ UNCHANGED db
  BY DEF Abandon
<1>2. CASE writer = p
  <2>1. writer' = None /\ tx' = None
    BY <1>2 DEF Abandon
  <2>2. db' \in View /\ Committed'
    BY <1>1 DEF CatInv, Shape, Committed, Kept, Rows
  <2> QED  BY <1>1, <1>2, <2>1, <2>2, Released DEF Place, Writing
<1>3. CASE writer # p
  <2>1. UNCHANGED <<tx, writer>>
    BY <1>3 DEF Abandon
  <2>2. pc[p] \notin Writing
    BY <1>3 DEF CatInv, Shape
  <2> QED  BY <1>1, <2>1, <2>2, NoJobFacts, Step DEF Place, Writing
<1> QED  BY <1>2, <1>3

LEMMA EndSafe == ASSUME CatInv, NEW p \in Proc, Fail(p) \/ Crash(p)  PROVE CatInv'
<1>1. CASE Fail(p)
  <2>1. \E to \in {"closed", "idle"} : pc' = [pc EXCEPT ![p] = to]
    BY <1>1 DEF Fail
  <2> QED  BY <1>1, <2>1, AbandonSafe DEF Fail
<1>2. CASE Crash(p)
  BY <1>2, AbandonSafe DEF Crash
<1> QED  BY <1>1, <1>2

LEMMA CatInit == Init => CatInv
<1> SUFFICES ASSUME Init  PROVE CatInv
  OBVIOUS
<1> DEFINE table == [i \in DOMAIN Legacy |->
                      [node |-> Legacy[i],
                       kind |-> IF Legacy[i] \in Unreadable THEN "unreadable" ELSE "default"]]
           links == {<<i, 1>> : i \in DOMAIN Legacy}
           subs  == IF Legacy = <<>> THEN {} ELSE {1}
<1>1. /\ db = [nodes |-> table, links |-> links, subs |-> subs, column |-> Legacy = <<>>]
      /\ tx = None /\ writer = None
      /\ pc = [p \in Proc |-> "closed"] /\ job = [p \in Proc |-> NoJob]
  BY DEF Init
<1>2. Legacy \in Seq(Node) /\ DOMAIN Legacy = 1..Len(Legacy) /\ Len(Legacy) \in 0..MaxId /\ 1 \in Subs
  BY CatalogConstants DEF Subs
<1>3. DOMAIN table = DOMAIN Legacy /\ DOMAIN Legacy \in SUBSET Ids
  BY <1>2, CatalogConstants DEF Ids
<1>4. table \in [DOMAIN Legacy -> Row]
  BY <1>2 DEF Row, Kind
<1>5. table \in Table
  BY <1>3, <1>4, TableFacts
<1>6. links \in SUBSET (Ids \X Subs) /\ subs \in SUBSET Subs
  BY <1>2, <1>3
<1>7. \A l \in links : l[1] \in DOMAIN Legacy /\ l[2] = 1
  OBVIOUS
<1>8. \A i \in DOMAIN Legacy : <<i, 1>> \in links /\ 1 \in subs
  BY <1>2
<1> HIDE DEF table, links, subs
<1>9. db \in View /\ Rows(db) = DOMAIN Legacy /\ db.links = links /\ db.subs = subs
  <2>1. (Legacy = <<>>) \in BOOLEAN
    OBVIOUS
  <2> QED  BY <1>1, <1>3, <1>5, <1>6, <2>1 DEF View, Rows
<1>10. Shape
  BY <1>1, <1>9, NoJobFacts, CatalogConstants DEF Shape, Place, Writing
<1>11. Committed
  <2>1. \A l \in db.links : l[1] \in Rows(db) /\ l[2] \in db.subs
    BY <1>7, <1>8, <1>9
  <2> QED  BY <1>8, <1>9, <2>1 DEF Committed, Kept
<1>12. JobInv /\ DraftInv
  BY <1>1, CatalogConstants DEF JobInv, DraftInv, Writing
<1> QED  BY <1>10, <1>11, <1>12 DEF CatInv

LEMMA NextSubFacts ==
  ASSUME CatInv
  PROVE  NextSub \notin db.subs /\ (NextSub <= MaxSub => NextSub \in Subs)
<1>1. db.subs \in SUBSET Subs
  BY DEF CatInv, Shape, View
<1>2. IsFiniteSet(Subs) /\ Subs \in SUBSET Nat
  BY CatalogConstants, FS_Interval DEF Subs
<1>3. IsFiniteSet(db.subs) /\ db.subs \in SUBSET Nat
  BY <1>1, <1>2, FS_Subset
<1>4. Largest(db.subs) \in Nat /\ \A y \in db.subs : y <= Largest(db.subs)
  BY <1>3, LargestFacts
<1> QED  BY <1>3, <1>4, CatalogConstants DEF NextSub, Subs

LEMMA CatNext == CatInv /\ [Next]_vars => CatInv'
<1> SUFFICES ASSUME CatInv, [Next]_vars  PROVE CatInv'
  OBVIOUS
<1>1. CASE UNCHANGED vars \/ LoadTargets \/ Deliver
  <2>1. UNCHANGED <<db, tx, writer, pc, job>>
    BY <1>1 DEF vars, LoadTargets, Deliver
  <2>2. Shape' /\ JobInv'
    BY <2>1 DEF CatInv, Shape, JobInv
  <2>3. Committed'
    BY <2>1 DEF CatInv, Committed, Kept, Rows
  <2>4. DraftInv'
    BY <2>1 DEF CatInv, DraftInv, Draft, OtherLinks, OwnLinks, Kept, Rows
  <2> QED  BY <2>2, <2>3, <2>4 DEF CatInv
<1>2. ASSUME NEW p \in Proc, Migrate(p) \/ Sync(p) \/ Hydrate(p) \/ Fail(p) \/ Crash(p)
      PROVE  CatInv'
  BY <1>2, OpenSafe, AlterSafe, BackfillSafe, RefuseSafe, UpsertSafe, EnsureSafe, UnlinkSafe, LinkSafe,
     PruneSafe, CommitSafe, HydrateSafe, EndSafe DEF Migrate, Sync
<1>3. ASSUME NEW p \in Proc, NEW d \in Payload, Import(p, d)  PROVE CatInv'
  <2>1. NextSub \in Subs
    BY <1>3, NextSubFacts DEF Import
  <2> QED  BY <1>3, <2>1, ParsedSafe DEF Import
<1>4. ASSUME NEW p \in Proc, NEW d \in Payload, NEW s \in Subs, NEW allow \in BOOLEAN,
             Refresh(p, s, d, allow)
      PROVE  CatInv'
  BY <1>4, ParsedSafe DEF Refresh
<1> QED  BY <1>1, <1>2, <1>3, <1>4 DEF Next

THEOREM CatalogInvariant == Spec => []CatInv
BY CatInit, CatNext, PTL DEF Spec

-----------------------------------------------------------------------------
(* What leaves the file alone, or all of it but the kinds.                 *)

SameNodes ==
  /\ Rows(db)' = Rows(db) /\ \A i \in Rows(db) : db'.nodes[i].node = db.nodes[i].node
  /\ db'.links = db.links /\ db'.subs = db.subs

\* Every step but a commit.
LEMMA OnlyCommits ==
  ASSUME CatInv, [Next]_vars, \A p \in Proc : ~Commit(p)
  PROVE  SameNodes
<1>1. CASE UNCHANGED db
  BY <1>1 DEF SameNodes, Rows
<1>2. ASSUME NEW p \in Proc, AlterTable(p)  PROVE SameNodes
  <2>1. db'.nodes = db.nodes /\ db'.links = db.links /\ db'.subs = db.subs
    BY <1>2 DEF AlterTable, CatInv, Shape, View
  <2> QED  BY <2>1 DEF SameNodes, Rows
<1>3. ASSUME NEW p \in Proc, Backfill(p), ~UNCHANGED db  PROVE SameNodes
  <2> DEFINE todo  == job[p].todo
             table == [i \in DOMAIN db.nodes |-> IF i = Head(todo) THEN Backfilled(db.nodes[i]) ELSE db.nodes[i]]
  <2>1. db' = [db EXCEPT !.nodes = table]
    BY <1>3 DEF Backfill
  <2>2. db'.nodes = table /\ db'.links = db.links /\ db'.subs = db.subs
    BY <2>1 DEF CatInv, Shape, View
  <2>3. ASSUME NEW i \in Rows(db)  PROVE table[i].node = db.nodes[i].node
    BY RowsFacts DEF Rows, Row, Backfilled
  <2>4. DOMAIN table = Rows(db)
    BY DEF Rows
  <2> HIDE DEF table
  <2> QED  BY <2>2, <2>3, <2>4 DEF SameNodes, Rows
<1>4. ASSUME NEW p \in Proc, NEW d \in Payload, Import(p, d) \/ \E s \in Subs, allow \in BOOLEAN : Refresh(p, s, d, allow)
      PROVE  UNCHANGED db
  BY <1>4 DEF Import, Refresh
<1>5. ASSUME NEW p \in Proc, Open(p) \/ Sync(p) \/ Hydrate(p) \/ Fail(p) \/ Crash(p)
      PROVE  UNCHANGED db
  <2>1. CASE Open(p) \/ Hydrate(p)
    BY <2>1 DEF Open, Hydrate, HydrateNodes, HydrateSources, Publish
  <2>2. CASE Sync(p)
    BY <2>2 DEF Sync, Refuse, Upsert, EnsureNode, Unlink, Link, Prune
  <2>3. CASE Fail(p) \/ Crash(p)
    BY <2>3 DEF Fail, Crash, Abandon
  <2> QED  BY <1>5, <2>1, <2>2, <2>3
<1>6. CASE LoadTargets \/ Deliver \/ UNCHANGED vars
  BY <1>1, <1>6 DEF LoadTargets, Deliver, vars
<1> QED  BY <1>1, <1>2, <1>3, <1>4, <1>5, <1>6 DEF Next, Migrate

\* A commit, and what it does to the rows.
LEMMA CommitFacts ==
  ASSUME CatInv, NEW p \in Proc, Commit(p)
  PROVE  /\ db' = tx /\ writer = p /\ pc[p] = "commit"
         /\ \A i \in Rows(db)' \cap Rows(db) : db'.nodes[i] = db.nodes[i]
<1>1. db' = tx /\ pc[p] = "commit"
  BY DEF Commit, Goto
<1>2. writer = p /\ Draft(p)
  BY <1>1, WriterFacts DEF Writing
<1> QED  BY <1>1, <1>2 DEF Draft, Rows

-----------------------------------------------------------------------------
(* Readings kept under a row id.                                           *)

LEMMA HeldStep == ASSUME CatInv, HeldInv, [Next]_vars  PROVE HeldInv'
<1>1. ASSUME NEW p \in Proc, Commit(p)  PROVE HeldInv'
  <2>1. held' = IF held = None \/ held.commits = 1 THEN None ELSE [held EXCEPT !.commits = 1]
    BY <1>1 DEF Commit
  <2>2. CASE held = None \/ held.commits = 1
    BY <2>1, <2>2 DEF HeldInv
  <2>3. CASE ~(held = None \/ held.commits = 1)
    <3>1. held \in [id: Ids, node: Node, commits: 0..1] /\ held.commits = 0
      BY <2>3 DEF HeldInv
    <3>2. held.id \in Rows(db) /\ db.nodes[held.id].node = held.node
      BY <2>3, <3>1 DEF HeldInv
    <3>3. /\ held' \in [id: Ids, node: Node, commits: 0..1] /\ held'.id = held.id /\ held'.node = held.node
          /\ held'.commits = 1
      BY <2>1, <2>3, <3>1
    <3>4. held.id \in Rows(db)' => db'.nodes[held.id] = db.nodes[held.id]
      BY <1>1, <3>2, CommitFacts
    <3> QED  BY <3>2, <3>3, <3>4 DEF HeldInv
  <2> QED  BY <2>2, <2>3
<1>2. CASE \A p \in Proc : ~Commit(p)
  <2>1. SameNodes
    BY <1>2, OnlyCommits
  <2>2. CASE UNCHANGED held
    BY <2>1, <2>2 DEF SameNodes, HeldInv
  <2>3. CASE LoadTargets
    <3>1. PICK i \in Rows(db) : held' = [id |-> i, node |-> db.nodes[i].node, commits |-> 0]
      BY <2>3 DEF LoadTargets, Rows
    <3>2. i \in Ids /\ db.nodes[i].node \in Node
      BY RowsFacts DEF Row
    <3> QED  BY <2>1, <3>1, <3>2 DEF SameNodes, HeldInv
  <2>4. CASE Deliver
    BY <2>4 DEF Deliver, HeldInv
  <2>5. ASSUME NEW p \in Proc, NEW d \in Payload, Import(p, d) \/ \E s \in Subs, allow \in BOOLEAN : Refresh(p, s, d, allow)
        PROVE  UNCHANGED held
    BY <2>5 DEF Import, Refresh, reading
  <2>6. ASSUME NEW p \in Proc, Migrate(p)  PROVE UNCHANGED held
    BY <2>6 DEF Migrate, Open, AlterTable, Backfill, reading
  <2>7. ASSUME NEW p \in Proc, Sync(p)  PROVE UNCHANGED held
    BY <1>2, <2>7 DEF Sync, Refuse, Upsert, EnsureNode, Unlink, Link, Prune, reading
  <2>8. ASSUME NEW p \in Proc, Hydrate(p) \/ Fail(p) \/ Crash(p)  PROVE UNCHANGED held
    BY <2>8 DEF Hydrate, HydrateNodes, HydrateSources, Publish, Fail, Crash, Abandon
  <2> QED  BY <2>2, <2>3, <2>4, <2>5, <2>6, <2>7, <2>8 DEF Next, vars
<1> QED  BY <1>1, <1>2

\* ensure_node and prune_orphans: across one commit a row id names the node it
\* named or none, so a probe's reading never lands on another node.
THEOREM IdsNameOneNode == Spec => []IdNamesOneNode
<1>1. Init => HeldInv
  BY DEF Init, HeldInv
<1>2. HeldInv => IdNamesOneNode
  BY DEF HeldInv, IdNamesOneNode, Rows
<1> QED  BY <1>1, <1>2, CatalogInvariant, HeldStep, PTL DEF Spec

-----------------------------------------------------------------------------
(* Reports.                                                                *)

LEMMA EachOnce ==
  ASSUME NEW s \in Seq(Node), \A i, j \in 1..Len(s) : s[i] = s[j] => i = j
  PROVE  Len(s) = Cardinality(ToSet(s))
<1> DEFINE n == Len(s)
<1>1. n \in Nat /\ DOMAIN s = 1..n
  OBVIOUS
<1>2. s \in Bijection(1..n, ToSet(s))
  BY <1>1 DEF Bijection, Injection, Surjection, IsInjective, ToSet
<1> HIDE DEF n
<1>3. IsFiniteSet(1..n) /\ Cardinality(1..n) = n
  BY <1>1, FS_Interval
<1>4. ExistsBijection(1..n, ToSet(s))
  BY <1>2 DEF ExistsBijection
<1> QED  BY <1>3, <1>4, FS_Bijection DEF n

\* ingest_with_timestamp: for every payload, limit and set of nodes, the report of
\* a parsed payload that the code can read has the nodes it describes, each once;
\* of one it cannot read (base64 that decode_bundle refuses, a Clash document that
\* is not recognised, another container) it has none, and one without nodes says
\* why.
THEOREM NothingIsLost == Spec => []NothingLost
<1>1. CatInv => NothingLost
  <2> SUFFICES ASSUME CatInv, NEW p \in Proc, pc[p] = "parsed"
               PROVE  LET r == job[p].report
                          d == job[p].doc
                      IN
                      /\ ToSet(r.nodes) = IF Readable(d) THEN Described(d) ELSE {}
                      /\ Len(r.nodes) = Cardinality(ToSet(r.nodes))
                      /\ r.scanned - Len(r.nodes) - r.duplicates <= r.failures \/ r.failures = MaxFailures
                      /\ r.nodes = <<>> /\ r.failures = 0 => Readable(d) /\ Content(d) = <<>>
    BY DEF NothingLost
  <2> DEFINE r == job[p].report
  <2>1. Complete(r, job[p].doc)
    BY IngestComplete DEF CatInv, JobInv
  <2> HIDE DEF r
  <2>2. Len(r.nodes) = Cardinality(ToSet(r.nodes))
    BY <2>1, EachOnce DEF Complete, Report
  <2> QED  BY <2>1, <2>2 DEF Complete, r
<1> QED  BY <1>1, CatalogInvariant, PTL

-----------------------------------------------------------------------------
(* sync_subscription implements Subscriptions.                             *)

content == [s \in db.subs |-> NodesOf(s)]
catalog == {db.nodes[i].node : i \in DOMAIN db.nodes}
allowed == {job[p].sub : p \in {q \in Proc : job[q].allow}}

\* A refresh that may empty a subscription has one.
LEMMA AllowedFacts == ASSUME CatInv  PROVE allowed \in SUBSET Subs
<1> SUFFICES ASSUME NEW p \in Proc, job[p].allow  PROVE job[p].sub \in Subs
  BY DEF allowed
<1>1. job[p] \in Job
  BY DEF CatInv, Shape
<1> QED  BY <1>1, CatalogConstants DEF Job, Subs

\* What the file holds is what its subscriptions list.
LEMMA CatalogIsHeld ==
  ASSUME CatInv
  PROVE  /\ \A s \in db.subs : NodesOf(s) \subseteq Node
         /\ catalog = UNION {content[s] : s \in DOMAIN content}
<1>1. \A l \in db.links : l[1] \in Rows(db) /\ l[2] \in db.subs
  BY DEF CatInv, Committed
<1>2. \A i \in Rows(db) : db.nodes[i].node \in Node
  BY RowsFacts DEF Row
<1>3. \A s \in db.subs : NodesOf(s) \subseteq Node
  BY <1>1, <1>2 DEF NodesOf
<1>4. ASSUME NEW i \in Rows(db)  PROVE \E s \in db.subs : db.nodes[i].node \in NodesOf(s)
  <2>1. PICK s \in db.subs : <<i, s>> \in db.links
    BY DEF CatInv, Committed, Kept
  <2> QED  BY <2>1 DEF NodesOf
<1>5. \A s \in db.subs : \A n \in NodesOf(s) : \E i \in Rows(db) : n = db.nodes[i].node
  BY <1>1 DEF NodesOf
<1>6. DOMAIN content = db.subs /\ \A s \in db.subs : content[s] = NodesOf(s)
  BY DEF content
<1>7. catalog = {db.nodes[i].node : i \in Rows(db)}
  BY DEF catalog, Rows
<1> HIDE DEF content, catalog
<1> QED  BY <1>3, <1>4, <1>5, <1>6, <1>7

\* A commit replaces the nodes of one subscription.
LEMMA CommitReplaces ==
  ASSUME CatInv, NEW p \in Proc, Commit(p), NEW sub, sub = job[p].sub
  PROVE  /\ db'.subs = db.subs \cup {sub}
         /\ \A s \in db.subs \ {sub} : NodesOf(s)' = NodesOf(s)
         /\ NodesOf(sub)' # {} \/ sub \in allowed
<1>1. db' = tx /\ writer = p /\ pc[p] = "commit" /\ Draft(p)
  BY CommitFacts, WriterFacts DEF Writing
<1>2. /\ tx.subs = db.subs \cup {sub} /\ tx.links = OtherLinks(p) \cup OwnLinks(p)
      /\ \A i \in Rows(tx) \cap Rows(db) : tx.nodes[i] = db.nodes[i]
      /\ \A l \in tx.links : l[1] \in Rows(tx)
  BY <1>1 DEF Draft
<1>3. ASSUME NEW s \in db.subs \ {sub}  PROVE NodesOf(s)' = NodesOf(s)
  <2> DEFINE L == {x \in db.links : x[2] = s}
  <2>1. {x \in tx.links : x[2] = s} = L
    BY <1>2 DEF OtherLinks, OwnLinks
  <2>2. \A l \in L : tx.nodes[l[1]] = db.nodes[l[1]]
    <3>1. \A l \in L : l[1] \in Rows(db)
      BY DEF CatInv, Committed
    <3>2. \A l \in L : l[1] \in Rows(tx)
      BY <1>2, <2>1
    <3> QED  BY <1>2, <3>1, <3>2
  <2>3. NodesOf(s)' = {tx.nodes[l[1]].node : l \in L}
    BY <1>1, <2>1 DEF NodesOf
  <2>4. NodesOf(s) = {db.nodes[l[1]].node : l \in L}
    BY DEF NodesOf
  <2> HIDE DEF L
  <2> QED  BY <2>2, <2>3, <2>4
<1>4. CASE job[p].allow
  BY <1>1, <1>2, <1>3, <1>4 DEF allowed
<1>5. CASE ~job[p].allow
  <2>1. PICK i : i \in job[p].ids
    BY <1>1, <1>5 DEF CatInv, JobInv
  <2>2. <<i, sub>> \in db'.links
    BY <1>1, <1>2, <2>1 DEF OwnLinks
  <2> DEFINE L == {x \in db'.links : x[2] = sub}
  <2>3. <<i, sub>> \in L
    BY <2>2
  <2>4. NodesOf(sub)' = {db'.nodes[l[1]].node : l \in L}
    BY DEF NodesOf
  <2> HIDE DEF L
  <2>5. NodesOf(sub)' # {}
    BY <2>3, <2>4
  <2> QED  BY <1>1, <1>2, <1>3, <2>5
<1> QED  BY <1>4, <1>5

LEMMA SameContent ==
  ASSUME CatInv, SameNodes
  PROVE  UNCHANGED <<content, catalog>>
<1>1. \A l \in db.links : l[1] \in Rows(db)
  BY DEF CatInv, Committed
<1>2. ASSUME NEW s  PROVE NodesOf(s)' = NodesOf(s)
  <2> DEFINE L == {x \in db.links : x[2] = s}
  <2>1. NodesOf(s) = {db.nodes[l[1]].node : l \in L} /\ NodesOf(s)' = {db'.nodes[l[1]].node : l \in L}
    BY DEF NodesOf, SameNodes
  <2>2. \A l \in L : db'.nodes[l[1]].node = db.nodes[l[1]].node
    BY <1>1 DEF SameNodes
  <2> HIDE DEF L
  <2> QED  BY <2>1, <2>2
<1>3. content' = content
  BY <1>2 DEF content, SameNodes
<1>4. catalog' = catalog
  BY DEF catalog, SameNodes, Rows
<1> QED  BY <1>3, <1>4

\* sync_subscription and prune_orphans: the file implements Subscriptions, for any
\* number of instances, whichever statement fails and whenever one is killed.
THEOREM RefreshIsAtomic == Spec => AtomicRefresh
<1>1. Init /\ CatInv => Abstract!Init
  <2> SUFFICES ASSUME Init, CatInv  PROVE Abstract!Init
    OBVIOUS
  <2>1. db.subs \in SUBSET Subs
    BY DEF CatInv, Shape, View
  <2>2. DOMAIN content = db.subs /\ \A s \in db.subs : content[s] = NodesOf(s)
    BY DEF content
  <2>3. \A s \in DOMAIN content : content[s] \subseteq Node
    BY <2>2, CatalogIsHeld
  <2>4. DOMAIN content \subseteq Subs /\ catalog = Abstract!Held(content)
    BY <2>1, <2>2, CatalogIsHeld DEF Abstract!Held
  <2>5. allowed = {}
    BY DEF Init, NoJob, allowed
  <2> QED  BY <2>3, <2>4, <2>5 DEF Abstract!Init, content, catalog, allowed
<1>2. CatInv /\ CatInv' /\ [Next]_vars => [Abstract!Next]_(Abstract!vars)
  <2> SUFFICES ASSUME CatInv, CatInv', [Next]_vars  PROVE [Abstract!Next]_(Abstract!vars)
    OBVIOUS
  <2>0. (allowed \in SUBSET Subs)'
    BY AllowedFacts, PTL
  <2>1. CASE \A p \in Proc : ~Commit(p)
    <3>1. UNCHANGED <<content, catalog>>
      BY <2>1, OnlyCommits, SameContent
    <3>2. Abstract!Call
      BY <2>0, <3>1 DEF Abstract!Call, content, catalog, allowed
    <3> QED  BY <3>2 DEF Abstract!Next
  <2>2. ASSUME NEW p \in Proc, Commit(p)  PROVE Abstract!Next
    <3>1. PICK sub \in Subs : sub = job[p].sub
      BY <2>2, CommitFacts DEF CatInv, JobInv, Writing
    <3>2. /\ db'.subs = db.subs \cup {sub} /\ \A s \in db.subs \ {sub} : NodesOf(s)' = NodesOf(s)
          /\ NodesOf(sub)' # {} \/ sub \in allowed
      BY <2>2, <3>1, CommitReplaces
    <3>3. (\A s \in db.subs : NodesOf(s) \subseteq Node)'
      BY CatalogIsHeld, PTL
    <3>4. PICK nodes \in SUBSET Node : nodes = NodesOf(sub)'
      BY <3>2, <3>3
    <3>5. content' = [t \in DOMAIN content \cup {sub} |-> IF t = sub THEN nodes ELSE content[t]]
      BY <3>2, <3>4 DEF content
    <3>6. catalog' = Abstract!Held(content')
      <4>1. (catalog = UNION {content[s] : s \in DOMAIN content})'
        BY CatalogIsHeld, PTL
      <4> QED  BY <4>1 DEF Abstract!Held
    <3>7. Abstract!Replace(sub, nodes)
      BY <3>5, <3>6 DEF Abstract!Replace, content, catalog
    <3>8. nodes # {} \/ sub \in allowed
      BY <3>2, <3>4
    <3> QED  BY <2>0, <3>1, <3>7, <3>8 DEF Abstract!Next, allowed
  <2> QED  BY <2>1, <2>2
<1> QED  BY <1>1, <1>2, CatalogInvariant, PTL DEF Spec, AtomicRefresh, Abstract!Spec

-----------------------------------------------------------------------------
(* import_subscription.                                                    *)

Syncing == {"parsed"} \cup Writing

\* A refresh keeps its subscription from its parse to its commit, and stays
\* marked once a commit has caught it.
LEMMA SyncKeeps ==
  ASSUME CatInv, NEW p \in Proc, NEW q \in Proc, pc'[q] \in Syncing,
         Migrate(p) \/ Sync(p) \/ Hydrate(p) \/ Fail(p) \/ Crash(p), ~Commit(p)
  PROVE  /\ pc[q] \in Syncing /\ job'[q].sub = job[q].sub /\ job'[q].import = job[q].import
         /\ q \in raced => q \in raced'
<1>1. pc \in [Proc -> Place] /\ job \in [Proc -> Job]
  BY DEF CatInv, Shape
<1>2. job[q] \in Job
  BY <1>1
<1>3. CASE Open(p) \/ AlterTable(p) \/ Hydrate(p)
  <2>1. q # p /\ pc'[q] = pc[q] /\ job'[q] = job[q]
    BY <1>1, <1>3 DEF Open, AlterTable, Hydrate, HydrateNodes, HydrateSources, Publish, Goto, Syncing, Writing
  <2>2. raced' = raced \/ raced' = raced \ {p}
    BY <1>3 DEF Open, AlterTable, Hydrate, HydrateNodes, HydrateSources, Publish, ghosts
  <2> QED  BY <2>1, <2>2
<1>4. CASE Backfill(p)
  <2>1. pc[p] = "backfill" /\ pc'[p] \in {"backfill", "hydrate"} /\ UNCHANGED raced
    BY <1>1, <1>4 DEF Backfill, ghosts
  <2>2. q # p
    BY <2>1 DEF Syncing, Writing
  <2>3. pc'[q] = pc[q] /\ job'[q] = job[q]
    BY <1>1, <1>4, <2>2 DEF Backfill
  <2> QED  BY <2>1, <2>3
<1>5. CASE Refuse(p) \/ Fail(p) \/ Crash(p)
  <2>1. pc' = [pc EXCEPT ![p] = "idle"] \/ pc' = [pc EXCEPT ![p] = "closed"]
    BY <1>5 DEF Refuse, Goto, Fail, Crash
  <2>2. q # p /\ pc'[q] = pc[q]
    BY <1>1, <2>1 DEF Syncing, Writing
  <2>3. job' = [job EXCEPT ![p] = NoJob] /\ raced' = raced \ {p}
    BY <1>5 DEF Refuse, Fail, Crash, Abandon
  <2> QED  BY <1>1, <2>2, <2>3
<1>6. CASE Upsert(p) \/ EnsureNode(p) \/ Unlink(p) \/ Link(p) \/ Prune(p)
  <2>1. pc[p] \in Syncing /\ UNCHANGED raced /\ (pc'[q] = pc[q] \/ q = p)
    BY <1>1, <1>6 DEF Upsert, EnsureNode, Unlink, Link, Prune, Goto, ghosts, Syncing, Writing
  <2>2. CASE UNCHANGED job
    BY <2>1, <2>2
  <2>3. CASE Upsert(p)
    BY <1>1, <1>2, <2>1, <2>3 DEF Upsert, Job
  <2>4. CASE EnsureNode(p)
    BY <1>1, <1>2, <2>1, <2>4 DEF EnsureNode, Job
  <2> QED  BY <1>6, <2>2, <2>3, <2>4 DEF Unlink, Link, Prune
<1> QED  BY <1>3, <1>4, <1>5, <1>6 DEF Migrate, Sync

LEMMA ImportStep == ASSUME CatInv, ImportInv, [Next]_vars  PROVE ImportInv'
<1> SUFFICES ASSUME NEW q \in Proc, pc'[q] \in Syncing, job'[q].import, q \notin raced'
             PROVE  job'[q].sub \notin db'.subs
  BY DEF ImportInv, Syncing
<1>1. pc \in [Proc -> Place] /\ job \in [Proc -> Job]
  BY DEF CatInv, Shape
<1>2. ASSUME NEW p \in Proc, Commit(p)  PROVE FALSE
  <2>1. /\ pc' = [pc EXCEPT ![p] = "hydrate"] /\ job' = [job EXCEPT ![p] = NoJob]
        /\ raced' = (raced \ {p}) \cup BetweenReads
    BY <1>2 DEF Commit, Goto
  <2>2. q # p /\ pc'[q] = pc[q] /\ job'[q] = job[q]
    BY <1>1, <2>1 DEF Syncing, Writing
  <2>3. pc[q] = "parsed"
    BY <1>2, <2>2, CommitFacts DEF CatInv, Shape, Syncing
  <2>4. q \in BetweenReads
    BY <2>2, <2>3 DEF BetweenReads
  <2> QED  BY <2>1, <2>4
<1>3. db'.subs = db.subs
  BY <1>2, OnlyCommits DEF SameNodes
<1>4. ASSUME pc[q] \in Syncing, job'[q].sub = job[q].sub, job'[q].import = job[q].import, q \in raced => q \in raced'
      PROVE  job'[q].sub \notin db'.subs
  BY <1>3, <1>4 DEF ImportInv, Syncing
<1>5. CASE UNCHANGED vars \/ LoadTargets \/ Deliver
  BY <1>4, <1>5 DEF vars, LoadTargets, Deliver, ghosts
<1>6. ASSUME NEW p \in Proc, Migrate(p) \/ Sync(p) \/ Hydrate(p) \/ Fail(p) \/ Crash(p)
      PROVE  job'[q].sub \notin db'.subs
  BY <1>2, <1>4, <1>6, SyncKeeps
<1>7. ASSUME NEW p \in Proc, NEW d \in Payload, NEW s, NEW import \in BOOLEAN, NEW allow \in BOOLEAN,
             Goto(p, "idle", "parsed"), Parsed(p, s, d, import, allow), UNCHANGED ghosts,
             import => s \notin db.subs
      PROVE  job'[q].sub \notin db'.subs
  <2>1. CASE q = p
    <3>1. job'[q].sub = s /\ job'[q].import = import
      BY <1>1, <1>7, <2>1 DEF Parsed
    <3> QED  BY <1>3, <1>7, <3>1
  <2>2. CASE q # p
    <3>1. pc'[q] = pc[q] /\ job'[q] = job[q] /\ UNCHANGED raced
      BY <1>1, <1>7, <2>2 DEF Parsed, Goto, ghosts
    <3> QED  BY <1>4, <3>1
  <2> QED  BY <2>1, <2>2
<1>8. ASSUME NEW p \in Proc, NEW d \in Payload, Import(p, d)  PROVE job'[q].sub \notin db'.subs
  <2>1. NextSub \notin db.subs
    BY NextSubFacts
  <2> QED  BY <1>7, <1>8, <2>1 DEF Import
<1>9. ASSUME NEW p \in Proc, NEW d \in Payload, NEW s \in Subs, NEW allow \in BOOLEAN, Refresh(p, s, d, allow)
      PROVE  job'[q].sub \notin db'.subs
  BY <1>7, <1>9 DEF Refresh
<1> QED  BY <1>5, <1>6, <1>8, <1>9 DEF Next

\* import_subscription: an import whose id was not read before another instance's
\* commit adds a subscription and replaces none, for any number of instances.
THEOREM ImportsAdd == Spec => ImportAdds
<1>1. Init => ImportInv
  BY DEF Init, ImportInv, Writing
<1>2. ImportInv /\ [Next]_vars =>
        [\A p \in Proc : pc[p] = "commit" /\ pc'[p] = "hydrate" /\ job[p].import /\ p \notin raced
                            => job[p].sub \notin db.subs]_vars
  BY DEF ImportInv, Writing
<1> QED  BY <1>1, <1>2, CatalogInvariant, ImportStep, PTL DEF Spec, ImportAdds

-----------------------------------------------------------------------------
(* The rows of a transaction: one node each, and with their kinds.         *)

Shrinks == Rows(tx)' \subseteq Rows(tx) /\ \A i \in Rows(tx)' : tx'.nodes[i] = tx.nodes[i]
GrowsBy(id, n) ==
  /\ id \notin Rows(tx) /\ Rows(tx)' = Rows(tx) \cup {id}
  /\ \A i \in Rows(tx) : tx'.nodes[i] = tx.nodes[i] /\ tx.nodes[i].node # n
  /\ tx'.nodes[id].node = n /\ tx'.nodes[id].kind = "right"

LEMMA EnsureRows ==
  ASSUME CatInv, NEW p \in Proc, EnsureNode(p), tx' # tx
  PROVE  \E id, n : GrowsBy(id, n)
<1> DEFINE n     == Head(job[p].todo)
           known == {i \in DOMAIN tx.nodes : tx.nodes[i].node = n}
           id    == Largest(DOMAIN tx.nodes) + 1
           row   == [node |-> n, kind |-> "right"]
           table == With(tx.nodes, id, row)
<1>1. pc[p] = "ensure" /\ known = {} /\ tx' = [tx EXCEPT !.nodes = table]
  BY DEF EnsureNode
<1>2. /\ tx \in View /\ Rows(tx) \in SUBSET Nat /\ IsFiniteSet(Rows(tx))
      /\ tx.nodes \in [Rows(tx) -> Row]
  BY <1>1, WriterFacts DEF Writing
<1>3. id \notin Rows(tx)
  BY <1>2, LargestFacts DEF Rows
<1>4. \A i \in Rows(tx) : tx.nodes[i].node # n
  BY <1>1 DEF Rows
<1>5. row.node = n /\ row.kind = "right"
  OBVIOUS
<1> HIDE DEF n, known, id, row
<1>6. DOMAIN table = Rows(tx) \cup {id} /\ table[id] = row /\ \A i \in Rows(tx) : table[i] = tx.nodes[i]
  BY <1>3 DEF With, Rows
<1> HIDE DEF table
<1>7. tx'.nodes = table
  BY <1>1, <1>2 DEF View
<1>8. Rows(tx)' = Rows(tx) \cup {id}
  BY <1>6, <1>7 DEF Rows
<1> QED  BY <1>3, <1>4, <1>5, <1>6, <1>7, <1>8 DEF GrowsBy

LEMMA TxRows ==
  ASSUME CatInv, [Next]_vars, writer' # None
  PROVE  /\ UNCHANGED db
         /\ tx'.nodes = db.nodes \/ (writer # None /\ (Shrinks \/ \E id, n : GrowsBy(id, n)))
<1>1. CASE UNCHANGED <<db, tx, writer>>
  BY <1>1 DEF Shrinks, Rows
<1>2. CASE UNCHANGED vars \/ LoadTargets \/ Deliver
  BY <1>1, <1>2 DEF vars, LoadTargets, Deliver
<1>3. ASSUME NEW p \in Proc, NEW d \in Payload, Import(p, d) \/ \E s \in Subs, allow \in BOOLEAN : Refresh(p, s, d, allow)
      PROVE  UNCHANGED <<db, tx, writer>>
  BY <1>3 DEF Import, Refresh
<1>4. ASSUME NEW p \in Proc, Migrate(p) \/ Hydrate(p)
      PROVE  UNCHANGED <<db, tx, writer>>
  <2>1. CASE AlterTable(p) \/ Backfill(p)
    BY <2>1 DEF AlterTable, Backfill
  <2>2. CASE Open(p) \/ Hydrate(p)
    BY <2>2 DEF Open, Hydrate, HydrateNodes, HydrateSources, Publish
  <2> QED  BY <1>4, <2>1, <2>2 DEF Migrate
<1>5. ASSUME NEW p \in Proc, Refuse(p) \/ Fail(p) \/ Crash(p)
      PROVE  UNCHANGED <<db, tx, writer>>
  BY <1>5 DEF Refuse, Fail, Crash, Abandon
<1>6. ASSUME NEW p \in Proc, Upsert(p)  PROVE UNCHANGED db /\ tx'.nodes = db.nodes
  BY <1>6 DEF Upsert, CatInv, Shape, View
<1>7. ASSUME NEW p \in Proc, pc[p] \in Writing
      PROVE  tx \in View /\ writer # None /\ tx.nodes \in [Rows(tx) -> Row]
  BY <1>7, WriterFacts, CatalogConstants
<1>8. ASSUME NEW p \in Proc, Unlink(p) \/ Link(p)  PROVE UNCHANGED db /\ writer # None /\ Shrinks
  <2>1. UNCHANGED db /\ pc[p] \in Writing /\ \E ls : tx' = [tx EXCEPT !.links = ls]
    BY <1>8 DEF Unlink, Link, Goto, Writing
  <2>2. tx'.nodes = tx.nodes
    BY <1>7, <2>1 DEF View
  <2> QED  BY <1>7, <2>1, <2>2 DEF Shrinks, Rows
<1>9. ASSUME NEW p \in Proc, Prune(p)  PROVE UNCHANGED db /\ writer # None /\ Shrinks
  <2> DEFINE table == Without(tx.nodes, Orphans(p))
  <2>1. UNCHANGED db /\ pc[p] \in Writing /\ tx' = [tx EXCEPT !.nodes = table]
    BY <1>9 DEF Prune, Goto, Writing
  <2>2. DOMAIN table \subseteq Rows(tx) /\ \A i \in DOMAIN table : table[i] = tx.nodes[i]
    BY DEF Without, Rows
  <2> HIDE DEF table
  <2>3. tx'.nodes = table
    BY <1>7, <2>1 DEF View
  <2> QED  BY <1>7, <2>1, <2>2, <2>3 DEF Shrinks, Rows
<1>10. ASSUME NEW p \in Proc, EnsureNode(p)
       PROVE  UNCHANGED <<db, writer>> /\ writer # None /\ (UNCHANGED tx \/ \E id, n : GrowsBy(id, n))
  <2>1. UNCHANGED <<db, writer>> /\ pc[p] \in Writing
    BY <1>10 DEF EnsureNode, Writing
  <2> QED  BY <1>7, <1>10, <2>1, EnsureRows
<1>11. ASSUME NEW p \in Proc, Commit(p)  PROVE FALSE
  BY <1>11 DEF Commit
<1> QED  BY <1>1, <1>2, <1>3, <1>4, <1>5, <1>6, <1>8, <1>9, <1>10, <1>11 DEF Next, Sync

LEMMA UniqueStep == ASSUME CatInv, UniqueInv, [Next]_vars  PROVE UniqueInv'
<1>1. Unique(db)'
  <2>1. CASE \A p \in Proc : ~Commit(p)
    BY <2>1, OnlyCommits DEF SameNodes, UniqueInv, Unique
  <2>2. ASSUME NEW p \in Proc, Commit(p)  PROVE Unique(db)'
    BY <2>2, CommitFacts, CatalogConstants DEF UniqueInv, Unique, Rows
  <2> QED  BY <2>1, <2>2
<1>2. ASSUME writer' # None  PROVE Unique(tx)'
  <2>1. CASE tx'.nodes = db.nodes
    BY <2>1 DEF UniqueInv, Unique, Rows
  <2>2. CASE writer # None /\ Shrinks
    BY <2>2 DEF UniqueInv, Unique, Shrinks
  <2>3. CASE writer # None /\ \E id, n : GrowsBy(id, n)
    BY <2>3 DEF UniqueInv, Unique, GrowsBy
  <2> QED  BY <1>2, <2>1, <2>2, <2>3, TxRows
<1> QED  BY <1>1, <1>2 DEF UniqueInv

-----------------------------------------------------------------------------
(* ensure_protocol_kind_column.                                            *)

Pending(i) == \E p \in Proc : pc[p] = "backfill" /\ i \in ToSet(job[p].todo)

\* A commit does not change whether there is the column.
LEMMA CommitColumn == ASSUME CatInv, NEW p \in Proc, Commit(p)  PROVE db'.column = db.column
<1>1. db' = tx /\ Draft(p)
  BY CommitFacts, WriterFacts DEF Writing
<1> QED  BY <1>1 DEF Draft

LEMMA BeforeColumn ==
  ASSUME CatInv, KindInv, [Next]_vars, ~db'.column
  PROVE  \A q \in Proc : pc'[q] \in {"closed", "alter"}
<1>1. ~db.column
  <2>1. ASSUME NEW p \in Proc, AlterTable(p)  PROVE FALSE
    BY <2>1 DEF AlterTable, CatInv, Shape, View
  <2>2. ASSUME NEW p \in Proc, Backfill(p)  PROVE db'.column = db.column
    BY <2>2 DEF Backfill, CatInv, Shape, View
  <2>3. ASSUME NEW p \in Proc, Open(p) \/ Sync(p) \/ Hydrate(p) \/ Fail(p) \/ Crash(p), ~Commit(p)
        PROVE  UNCHANGED db
    BY <2>3 DEF Open, Sync, Refuse, Upsert, EnsureNode, Unlink, Link, Prune, Hydrate, HydrateNodes,
                HydrateSources, Publish, Fail, Crash, Abandon
  <2>4. ASSUME NEW p \in Proc, NEW d \in Payload, Import(p, d) \/ \E s \in Subs, allow \in BOOLEAN : Refresh(p, s, d, allow)
        PROVE  UNCHANGED db
    BY <2>4 DEF Import, Refresh
  <2> QED  BY <2>1, <2>2, <2>3, <2>4, CommitColumn DEF Next, Migrate, LoadTargets, Deliver, vars
<1>2. pc \in [Proc -> Place] /\ \A q \in Proc : pc[q] \in {"closed", "alter"}
  BY <1>1 DEF KindInv, CatInv, Shape
<1>3. ASSUME NEW p \in Proc, Migrate(p) \/ Fail(p) \/ Crash(p)
      PROVE  \E to \in {"closed", "alter"} : pc' = [pc EXCEPT ![p] = to]
  <2>1. CASE Open(p)
    BY <1>1, <2>1 DEF Open, Goto
  <2>2. CASE AlterTable(p)
    BY <2>2 DEF AlterTable, CatInv, Shape, View
  <2>3. CASE Backfill(p)
    BY <1>2, <2>3 DEF Backfill
  <2>4. CASE Fail(p) \/ Crash(p)
    BY <1>2, <2>4 DEF Fail, Crash
  <2> QED  BY <1>3, <2>1, <2>2, <2>3, <2>4 DEF Migrate
<1>4. ASSUME NEW p \in Proc, Sync(p) \/ Hydrate(p)  PROVE FALSE
  BY <1>2, <1>4 DEF Sync, Refuse, Upsert, EnsureNode, Unlink, Link, Prune, Commit, Hydrate, HydrateNodes,
                    HydrateSources, Publish, Goto
<1>5. ASSUME NEW p \in Proc, NEW d \in Payload, Import(p, d) \/ \E s \in Subs, allow \in BOOLEAN : Refresh(p, s, d, allow)
      PROVE  FALSE
  BY <1>2, <1>5 DEF Import, Refresh, Goto
<1>6. CASE UNCHANGED pc
  BY <1>2, <1>6
<1> QED  BY <1>2, <1>3, <1>4, <1>5, <1>6 DEF Next, LoadTargets, Deliver, vars

\* Steps that neither fill the column nor stop filling it.
LEMMA StillPending ==
  ASSUME CatInv, NEW p \in Proc, pc[p] # "backfill", NEW i, Pending(i),
         \A q \in Proc \ {p} : pc'[q] = pc[q] /\ job'[q] = job[q]
  PROVE  Pending(i)'
BY DEF Pending

LEMMA Others ==
  ASSUME CatInv, NEW p \in Proc,
         \/ Migrate(p) \/ Sync(p) \/ Hydrate(p) \/ Fail(p) \/ Crash(p)
         \/ \E d \in Payload : Import(p, d) \/ \E s \in Subs, allow \in BOOLEAN : Refresh(p, s, d, allow)
  PROVE  \A q \in Proc \ {p} : pc'[q] = pc[q] /\ job'[q] = job[q]
<1>1. pc \in [Proc -> Place] /\ job \in [Proc -> Job]
  BY DEF CatInv, Shape
<1>2. CASE Migrate(p)
  BY <1>1, <1>2 DEF Migrate, Open, AlterTable, Backfill, Goto
<1>3. CASE Sync(p)
  BY <1>1, <1>3 DEF Sync, Refuse, Upsert, EnsureNode, Unlink, Link, Prune, Commit, Goto
<1>4. CASE Hydrate(p) \/ Fail(p) \/ Crash(p)
  BY <1>1, <1>4 DEF Hydrate, HydrateNodes, HydrateSources, Publish, Fail, Crash, Abandon, Goto
<1>5. CASE \E d \in Payload : Import(p, d) \/ \E s \in Subs, allow \in BOOLEAN : Refresh(p, s, d, allow)
  BY <1>1, <1>5 DEF Import, Refresh, Parsed, Goto
<1> QED  BY <1>2, <1>3, <1>4, <1>5

LEMMA HeadAndTail ==
  ASSUME NEW S, NEW s \in Seq(S), s # <<>>, NEW i \in ToSet(s), i # Head(s)
  PROVE  i \in ToSet(Tail(s))
<1>1. PICK k \in 1..Len(s) : s[k] = i
  BY DEF ToSet
<1>2. k # 1
  BY <1>1
<1>3. k - 1 \in 1..Len(Tail(s)) /\ Tail(s)[k - 1] = s[k]
  BY <1>2
<1>4. DOMAIN Tail(s) = 1..Len(Tail(s))
  OBVIOUS
<1> QED  BY <1>1, <1>3, <1>4 DEF ToSet

LEMMA KindStep == ASSUME CatInv, KindInv, [Next]_vars  PROVE KindInv'
<1>1. ~db'.column => \A p \in Proc : pc'[p] \in {"closed", "alter"}
  BY BeforeColumn
<1>2. ASSUME writer' # None, NEW i \in Rows(tx)' \ Rows(db)'  PROVE tx'.nodes[i].kind = "right"
  <2>1. CASE tx'.nodes = db.nodes /\ UNCHANGED db
    BY <1>2, <2>1 DEF Rows
  <2>2. CASE writer # None /\ Shrinks /\ UNCHANGED db
    BY <1>2, <2>2 DEF KindInv, Shrinks, Rows
  <2>3. CASE writer # None /\ UNCHANGED db /\ \E id, n : GrowsBy(id, n)
    BY <1>2, <2>3 DEF KindInv, GrowsBy, Rows
  <2> QED  BY <1>2, <2>1, <2>2, <2>3, TxRows
<1>3. ASSUME db'.column, ~torn', NEW i \in Rows(db)'  PROVE db'.nodes[i].kind # "default" \/ Pending(i)'
  <2>0. db.column /\ ~torn /\ i \in Rows(db) => db.nodes[i].kind # "default" \/ Pending(i)
    BY DEF KindInv, Pending
  <2>1. pc \in [Proc -> Place] /\ job \in [Proc -> Job]
    BY DEF CatInv, Shape
  <2>2. ASSUME NEW p \in Proc, AlterTable(p), ~db.column
        PROVE  db'.nodes[i].kind # "default" \/ Pending(i)'
    <3>1. pc'[p] = "backfill" /\ job'[p].todo = Ascending(Tellable(db)) /\ db'.nodes = db.nodes
      BY <2>1, <2>2 DEF AlterTable, Goto, CatInv, Shape, View, Job
    <3>2. ToSet(Ascending(Tellable(db))) = Tellable(db)
      BY TellableFacts, AscendingFacts
    <3>3. i \in Tellable(db) \/ db'.nodes[i].kind = "unreadable"
      BY <1>3, <3>1 DEF Tellable, Rows
    <3> QED  BY <3>1, <3>2, <3>3 DEF Pending
  <2>3. ASSUME NEW p \in Proc, Commit(p)  PROVE db'.nodes[i].kind # "default" \/ Pending(i)'
    <3>1. db' = tx /\ writer = p /\ pc[p] = "commit" /\ UNCHANGED torn
      BY <2>3, CommitFacts DEF Commit
    <3>2. CASE i \in Rows(db)
      <4>1. db'.nodes[i] = db.nodes[i] /\ db.column
        BY <1>3, <2>3, <3>2, CommitFacts, CommitColumn
      <4>2. Pending(i) => Pending(i)'
        BY <2>3, <3>1, Others, StillPending DEF Sync
      <4> QED  BY <1>3, <2>0, <3>1, <3>2, <4>1, <4>2
    <3>3. CASE i \notin Rows(db)
      BY <1>3, <3>1, <3>3, CatalogConstants DEF KindInv, Rows
    <3> QED  BY <3>2, <3>3
  <2>4. ASSUME NEW p \in Proc, Backfill(p)  PROVE db'.nodes[i].kind # "default" \/ Pending(i)'
    <3>1. pc[p] = "backfill" /\ UNCHANGED torn
      BY <2>4 DEF Backfill, ghosts
    <3>2. SameNodes /\ db.column
      <4>1. \A q \in Proc : ~Commit(q)
        BY <2>4, CommitFacts, CatalogConstants DEF Backfill
      <4>2. db.column
        BY <3>1 DEF KindInv
      <4> QED  BY <4>1, <4>2, OnlyCommits
    <3>3. \A q \in Proc \ {p} : pc'[q] = pc[q] /\ job'[q] = job[q]
      BY <2>4, Others DEF Migrate
    <3>4. CASE job[p].todo = <<>>
      <4>1. UNCHANGED <<db, job>> /\ ToSet(job[p].todo) = {}
        BY <2>4, <3>4 DEF Backfill, ToSet
      <4>2. Pending(i) => Pending(i)'
        BY <3>3, <4>1 DEF Pending
      <4> QED  BY <1>3, <2>0, <3>1, <3>2, <4>1, <4>2 DEF Rows
    <3>5. CASE job[p].todo # <<>>
      <4> DEFINE todo  == job[p].todo
                 table == [k \in DOMAIN db.nodes |-> IF k = Head(todo) THEN Backfilled(db.nodes[k]) ELSE db.nodes[k]]
      <4>1. db' = [db EXCEPT !.nodes = table] /\ job' = [job EXCEPT ![p].todo = Tail(todo)] /\ UNCHANGED pc
        BY <2>4, <3>5 DEF Backfill
      <4>2. job'[p].todo = Tail(todo)
        BY <2>1, <4>1 DEF Job
      <4>3. i \in Rows(db) /\ db.nodes[i] \in Row
        BY <1>3, <3>2, RowsFacts DEF SameNodes
      <4>4. CASE i = Head(todo)
        <5>1. table[i] = Backfilled(db.nodes[i])
          BY <4>3, <4>4 DEF Rows
        <5>2. Backfilled(db.nodes[i]).kind # "default"
          BY <4>3 DEF Backfilled, Row
        <5> HIDE DEF table
        <5>3. db'.nodes = table
          BY <4>1 DEF CatInv, Shape, View
        <5> QED  BY <5>1, <5>2, <5>3
      <4>5. CASE i # Head(todo)
        <5>1. table[i] = db.nodes[i]
          BY <4>3, <4>5 DEF Rows
        <5> HIDE DEF table
        <5>2. db'.nodes[i] = db.nodes[i]
          BY <4>1, <5>1 DEF CatInv, Shape, View
        <5>3. ASSUME i \in ToSet(todo)  PROVE i \in ToSet(Tail(todo))
          <6>1. todo \in Seq(Node) \/ todo \in Seq(Ids)
            BY <2>1 DEF Job
          <6> QED  BY <3>5, <4>5, <5>3, <6>1, HeadAndTail
        <5>4. Pending(i) => Pending(i)'
          BY <3>1, <3>3, <4>1, <4>2, <5>3 DEF Pending
        <5> QED  BY <1>3, <2>0, <3>1, <3>2, <4>3, <5>2, <5>4
      <4> QED  BY <4>4, <4>5
    <3> QED  BY <3>4, <3>5
  <2>5. ASSUME NEW p \in Proc, Fail(p) \/ Crash(p)  PROVE db'.nodes[i].kind # "default" \/ Pending(i)'
    <3>1. UNCHANGED db /\ torn' = (torn \/ (pc[p] = "backfill" /\ job[p].todo # <<>>))
      BY <2>5 DEF Fail, Crash, Abandon
    <3>2. ~(pc[p] = "backfill" /\ i \in ToSet(job[p].todo))
      <4>1. ~(pc[p] = "backfill" /\ job[p].todo # <<>>)
        BY <1>3, <3>1
      <4>2. ToSet(<<>>) = {}
        BY DEF ToSet
      <4> QED  BY <4>1, <4>2
    <3>3. Pending(i) => Pending(i)'
      BY <2>5, <3>2, Others DEF Pending
    <3> QED  BY <1>3, <2>0, <3>1, <3>3 DEF Rows
  <2>6. ASSUME NEW p \in Proc, pc[p] # "backfill", UNCHANGED <<db, torn>>,
               \A q \in Proc \ {p} : pc'[q] = pc[q] /\ job'[q] = job[q]
        PROVE  db'.nodes[i].kind # "default" \/ Pending(i)'
    BY <1>3, <2>0, <2>6, StillPending DEF Rows
  <2>7. ASSUME NEW p \in Proc, Open(p) \/ Sync(p) \/ Hydrate(p), ~Commit(p)
        PROVE  db'.nodes[i].kind # "default" \/ Pending(i)'
    <3>1. pc[p] # "backfill" /\ UNCHANGED <<db, torn>>
      BY <2>7 DEF Open, Sync, Refuse, Upsert, EnsureNode, Unlink, Link, Prune, Hydrate, HydrateNodes,
                  HydrateSources, Publish, Goto, ghosts
    <3> QED  BY <2>6, <2>7, <3>1, Others DEF Migrate
  <2>8. ASSUME NEW p \in Proc, AlterTable(p), db.column  PROVE db'.nodes[i].kind # "default" \/ Pending(i)'
    <3>1. pc[p] # "backfill" /\ UNCHANGED torn /\ db'.nodes = db.nodes
      BY <2>8 DEF AlterTable, Goto, ghosts, CatInv, Shape, View
    <3>2. Pending(i) => Pending(i)'
      BY <2>8, <3>1, Others, StillPending DEF Migrate
    <3> QED  BY <1>3, <2>0, <2>8, <3>1, <3>2 DEF Rows
  <2>9. ASSUME NEW p \in Proc, NEW d \in Payload, Import(p, d) \/ \E s \in Subs, allow \in BOOLEAN : Refresh(p, s, d, allow)
        PROVE  db'.nodes[i].kind # "default" \/ Pending(i)'
    <3>1. pc[p] # "backfill" /\ UNCHANGED <<db, torn>>
      BY <2>9 DEF Import, Refresh, Goto, ghosts
    <3> QED  BY <2>6, <2>9, <3>1, Others
  <2>10. CASE UNCHANGED <<db, pc, job, torn>>
    BY <1>3, <2>0, <2>10 DEF Pending, Rows
  <2> QED  BY <2>2, <2>3, <2>4, <2>5, <2>7, <2>8, <2>9, <2>10
           DEF Next, Migrate, LoadTargets, Deliver, vars, ghosts
<1> QED  BY <1>1, <1>2, <1>3 DEF KindInv, Pending

-----------------------------------------------------------------------------
(* hydrate_from_db.                                                        *)

\* The stores of the instances that take no step.
StoreOf(p) ==
  pc[p] \in {"sources", "hydrated"} =>
    /\ Rising(store[p])
    /\ p \notin raced => Same(store[p])
    /\ p \notin raced /\ pc[p] = "hydrated" =>
         \A k \in DOMAIN store[p] : store[p][k].sources = SourcesOf(store[p], k)

LEMMA SameStays ==
  ASSUME CatInv, SameNodes, NEW q \in Proc, StoreOf(q), pc'[q] = pc[q], store'[q] = store[q],
         q \in raced => q \in raced', store \in [Proc -> Seq(StoreRow)]
  PROVE  StoreOf(q)'
<1> SUFFICES ASSUME pc[q] \in {"sources", "hydrated"}  PROVE StoreOf(q)'
  BY DEF StoreOf
<1> DEFINE rows == store[q]
<1>1. Rising(rows) /\ (q \notin raced' => Same(rows))
  BY DEF StoreOf
<1>2. Rising(store[q])'
  BY <1>1 DEF Rising
<1>3. ASSUME q \notin raced'  PROVE Same(store[q])'
  <2>1. Same(rows) /\ Rows(db)' = Rows(db) /\ \A i \in Rows(db) : db'.nodes[i].node = db.nodes[i].node
    BY <1>1, <1>3 DEF SameNodes
  <2>2. \A k \in DOMAIN rows : rows[k].id \in Rows(db)
    <3>1. Ascending(Rows(db)) \in Seq(Rows(db))
      BY RowsFacts, AscendingFacts
    <3> QED  BY <2>1, <3>1 DEF Same
  <2> QED  BY <2>1, <2>2, SMTT(30) DEF Same
<1>4. ASSUME q \notin raced', pc[q] = "hydrated", NEW k \in DOMAIN rows
      PROVE  rows[k].sources = {l[2] : l \in {x \in db'.links : x[1] = rows[k].id}}
  BY <1>4 DEF StoreOf, SourcesOf, SameNodes
<1> QED  BY <1>2, <1>3, <1>4 DEF StoreOf, SourcesOf

LEMMA StoresKept ==
  ASSUME CatInv, NEW p \in Proc, store \in [Proc -> Seq(StoreRow)],
         \/ Migrate(p) \/ Sync(p) \/ Hydrate(p) \/ Fail(p) \/ Crash(p)
         \/ \E d \in Payload : Import(p, d) \/ \E s \in Subs, allow \in BOOLEAN : Refresh(p, s, d, allow)
  PROVE  /\ \A q \in Proc \ {p} : store'[q] = store[q]
         /\ ~Commit(p) => \A q \in Proc \ {p} : q \in raced => q \in raced'
<1>1. CASE Migrate(p)
  BY <1>1 DEF Migrate, Open, AlterTable, Backfill, reading, ghosts
<1>2. CASE Sync(p)
  BY <1>2 DEF Sync, Refuse, Upsert, EnsureNode, Unlink, Link, Prune, Commit, reading, ghosts
<1>3. CASE Hydrate(p) \/ Fail(p) \/ Crash(p)
  BY <1>3 DEF Hydrate, HydrateNodes, HydrateSources, Publish, Fail, Crash, Abandon, ghosts
<1>4. CASE \E d \in Payload : Import(p, d) \/ \E s \in Subs, allow \in BOOLEAN : Refresh(p, s, d, allow)
  BY <1>4 DEF Import, Refresh, reading, ghosts
<1> QED  BY <1>1, <1>2, <1>3, <1>4

LEMMA NodesHydrated ==
  ASSUME CatInv, store \in [Proc -> Seq(StoreRow)], NEW p \in Proc, HydrateNodes(p)
  PROVE  store' \in [Proc -> Seq(StoreRow)] /\ StoreOf(p)'
<1> DEFINE ids  == Ascending(Rows(db))
           rows == [k \in DOMAIN ids |->
                      [id |-> ids[k], node |-> db.nodes[ids[k]].node,
                       name |-> Name[db.nodes[ids[k]].node], country |-> Country[db.nodes[ids[k]].node],
                       kind |-> db.nodes[ids[k]].kind, sources |-> {}]]
<1>1. pc'[p] = "sources" /\ UNCHANGED <<db, raced>> /\ store' = [store EXCEPT ![p] = rows]
  BY DEF HydrateNodes, Goto, Rows, ghosts, CatInv, Shape
<1>2. /\ ids \in Seq(Rows(db)) /\ Len(ids) = Cardinality(Rows(db))
      /\ \A i, j \in 1..Cardinality(Rows(db)) : i < j => ids[i] < ids[j]
  BY RowsFacts, AscendingFacts
<1> HIDE DEF ids
<1>3. DOMAIN ids = 1..Len(ids) /\ \A i, j \in DOMAIN ids : i < j => ids[i] < ids[j]
  BY <1>2
<1>4. ASSUME NEW k \in DOMAIN ids  PROVE rows[k] \in StoreRow
  <2> DEFINE r == db.nodes[ids[k]]
  <2>1. ids[k] \in Rows(db) /\ ids[k] \in Ids /\ r \in Row
    BY <1>2, RowsFacts
  <2>2. r.node \in Node /\ r.kind \in Kind
    BY <2>1 DEF Row
  <2>3. Name[r.node] \in Nat /\ Country[r.node] \in Nat
    BY <2>2, CatalogConstants
  <2>4. rows[k] = [id |-> ids[k], node |-> r.node, name |-> Name[r.node], country |-> Country[r.node],
                   kind |-> r.kind, sources |-> {}]
    OBVIOUS
  <2> HIDE DEF r, rows
  <2> QED  BY <2>1, <2>2, <2>3, <2>4 DEF StoreRow
<1>5. DOMAIN rows = DOMAIN ids /\ \A k \in DOMAIN ids :
        rows[k].id = ids[k] /\ rows[k].node = db.nodes[ids[k]].node /\ rows[k].name = Name[rows[k].node]
  OBVIOUS
<1> HIDE DEF rows
<1>6. rows \in Seq(StoreRow)
  <2>1. Len(ids) \in Nat /\ rows \in [1..Len(ids) -> StoreRow]
    <3>1. Len(ids) \in Nat /\ DOMAIN rows = 1..Len(ids)
      BY <1>2, <1>3, <1>5
    <3>2. rows = [k \in DOMAIN ids |-> rows[k]]
      BY DEF rows
    <3> QED  BY <1>3, <1>4, <3>1, <3>2
  <2> QED  BY <2>1
<1>7. Rising(rows) /\ Same(rows)
  BY <1>3, <1>5 DEF Rising, Same, ids
<1>8. store' \in [Proc -> Seq(StoreRow)] /\ store'[p] = rows
  BY <1>1, <1>6
<1>9. Rising(store[p])'
  BY <1>7, <1>8 DEF Rising
<1>10. Same(store[p])'
  BY <1>1, <1>7, <1>8 DEF Same, Rows
<1> QED  BY <1>1, <1>8, <1>9, <1>10 DEF StoreOf

LEMMA SourcesHydrated ==
  ASSUME CatInv, StoreInv, NEW p \in Proc, HydrateSources(p)
  PROVE  store' \in [Proc -> Seq(StoreRow)] /\ StoreOf(p)'
<1> DEFINE old  == store[p]
           rows == [k \in DOMAIN old |-> [old[k] EXCEPT !.sources = SourcesOf(old, k)]]
<1>1. /\ pc[p] = "sources" /\ pc'[p] = "hydrated" /\ UNCHANGED <<db, raced>>
      /\ store' = [store EXCEPT ![p] = rows]
  BY DEF HydrateSources, Goto, ghosts, CatInv, Shape
<1>2. old \in Seq(StoreRow) /\ Rising(old) /\ (p \notin raced => Same(old))
  BY <1>1 DEF StoreInv
<1>3. ASSUME NEW k  PROVE SourcesOf(old, k) \in SUBSET Subs
  BY DEF SourcesOf, CatInv, Shape, View
<1>4. ASSUME NEW k \in DOMAIN old
      PROVE  /\ rows[k] \in StoreRow /\ rows[k].id = old[k].id /\ rows[k].node = old[k].node
             /\ rows[k].name = old[k].name /\ rows[k].sources = SourcesOf(old, k)
  <2> DEFINE s == SourcesOf(old, k)
  <2>1. rows[k] = [old[k] EXCEPT !.sources = s] /\ old[k] \in StoreRow /\ s \in SUBSET Subs
    BY <1>2, <1>3
  <2> HIDE DEF s, rows
  <2>2. rows[k] \in StoreRow /\ rows[k].sources = s
    BY <2>1 DEF StoreRow
  <2>3. rows[k].id = old[k].id /\ rows[k].node = old[k].node /\ rows[k].name = old[k].name
    BY <2>1 DEF StoreRow
  <2> QED  BY <2>2, <2>3 DEF s
<1>5. DOMAIN rows = DOMAIN old /\ rows = [k \in DOMAIN old |-> rows[k]]
  OBVIOUS
<1> HIDE DEF rows, old
<1>6. rows \in Seq(StoreRow)
  <2>1. Len(old) \in Nat /\ DOMAIN old = 1..Len(old)
    BY <1>2
  <2>2. rows \in [1..Len(old) -> StoreRow]
    BY <1>4, <1>5, <2>1
  <2> QED  BY <2>1, <2>2
<1>7. store' \in [Proc -> Seq(StoreRow)] /\ store'[p] = rows
  BY <1>1, <1>6 DEF StoreInv
<1>8. Rising(store[p])'
  BY <1>2, <1>4, <1>5, <1>7 DEF Rising
<1>9. p \notin raced' => Same(store[p])'
  BY <1>1, <1>2, <1>4, <1>5, <1>7 DEF Same, Rows
<1>10. \A k \in DOMAIN rows : rows[k].sources = {l[2] : l \in {x \in db'.links : x[1] = rows[k].id}}
  BY <1>1, <1>4, <1>5 DEF SourcesOf
<1> QED  BY <1>7, <1>8, <1>9, <1>10 DEF StoreOf, SourcesOf

LEMMA StoreStep == ASSUME CatInv, StoreInv, [Next]_vars  PROVE StoreInv'
<1>1. store \in [Proc -> Seq(StoreRow)] /\ \A q \in Proc : StoreOf(q)
  BY DEF StoreInv, StoreOf
<1>2. ASSUME store' \in [Proc -> Seq(StoreRow)], \A q \in Proc : StoreOf(q)'  PROVE StoreInv'
  BY <1>2 DEF StoreInv, StoreOf
<1>3. CASE UNCHANGED vars \/ LoadTargets \/ Deliver
  <2>1. UNCHANGED <<db, pc, store, raced>>
    BY <1>3 DEF vars, LoadTargets, Deliver, ghosts
  <2> QED  BY <1>1, <1>2, <2>1 DEF StoreOf, Same, Rising, SourcesOf, Rows
<1>4. ASSUME NEW p \in Proc,
             \/ Migrate(p) \/ Sync(p) \/ Hydrate(p) \/ Fail(p) \/ Crash(p)
             \/ \E d \in Payload : Import(p, d) \/ \E s \in Subs, allow \in BOOLEAN : Refresh(p, s, d, allow)
      PROVE  StoreInv'
  <2>1. /\ \A q \in Proc \ {p} : pc'[q] = pc[q] /\ store'[q] = store[q]
        /\ ~Commit(p) => \A q \in Proc \ {p} : q \in raced => q \in raced'
    BY <1>1, <1>4, Others, StoresKept
  <2>2. ASSUME NEW q \in Proc \ {p}  PROVE StoreOf(q)'
    <3>1. CASE Commit(p)
      <4>1. pc[q] \in {"sources", "hydrated"} => q \in raced'
        BY <3>1 DEF Commit, BetweenReads
      <4>2. StoreOf(q) /\ pc'[q] = pc[q] /\ store'[q] = store[q]
        BY <1>1, <2>1
      <4> QED  BY <4>1, <4>2 DEF StoreOf, Rising
    <3>2. CASE ~Commit(p)
      <4>1. \A r \in Proc : ~Commit(r)
        BY <2>1, <3>2 DEF Commit, Goto, CatInv, Shape
      <4> QED  BY <1>1, <2>1, <3>2, <4>1, OnlyCommits, SameStays
    <3> QED  BY <3>1, <3>2
  <2>3. CASE HydrateNodes(p)
    BY <1>1, <1>2, <2>2, <2>3, NodesHydrated
  <2>4. CASE HydrateSources(p)
    BY <1>2, <2>2, <2>4, SourcesHydrated
  <2>5. CASE ~HydrateNodes(p) /\ ~HydrateSources(p)
    <3>1. pc'[p] \notin {"sources", "hydrated"}
      BY <1>4, <2>5 DEF CatInv, Shape, Migrate, Open, AlterTable, Backfill, Sync, Refuse, Upsert, EnsureNode, Unlink,
                        Link, Prune, Commit, Hydrate, Publish, Fail, Crash, Import, Refresh, Goto
    <3>2. store' = store \/ store' = [store EXCEPT ![p] = <<>>]
      BY <1>4, <2>5 DEF Migrate, Open, AlterTable, Backfill, Sync, Refuse, Upsert, EnsureNode, Unlink,
                        Link, Prune, Commit, Hydrate, Publish, Fail, Crash, Abandon, Import, Refresh, reading
    <3>3. store' \in [Proc -> Seq(StoreRow)]
      <4>1. <<>> \in Seq(StoreRow)
        OBVIOUS
      <4> QED  BY <1>1, <3>2, <4>1
    <3> QED  BY <1>2, <2>2, <3>1, <3>3 DEF StoreOf
  <2> QED  BY <2>3, <2>4, <2>5
<1> QED  BY <1>3, <1>4 DEF Next

-----------------------------------------------------------------------------
(* run_query: the order of the list.                                       *)

Arena == Seq([latency: Nat, health: Nat])

\* A criterion alone is a weak order: rows tie.
LEMMA SmallerIsWeak ==
  ASSUME NEW rows \in Seq(StoreRow), NEW m \in Arena, NEW c \in Criterion,
         NEW i \in DOMAIN rows, NEW j \in DOMAIN rows, NEW k \in DOMAIN rows
  PROVE  /\ ~Smaller(rows, m, c, i, i)
         /\ Smaller(rows, m, c, i, j) /\ Smaller(rows, m, c, j, k) => Smaller(rows, m, c, i, k)
         /\ Smaller(rows, m, c, i, k) => Smaller(rows, m, c, i, j) \/ Smaller(rows, m, c, j, k)
<1> DEFINE lat(x)     == Reading(m, x).latency
           health(x)  == Reading(m, x).health
           country(x) == rows[x].country
           name(x)    == rows[x].name
           S(x, y)    == Smaller(rows, m, c, x, y)
<1>1. \A x : lat(x) \in Nat /\ health(x) \in Nat
  <2>1. \A x : Reading(m, x) \in [latency: Nat, health: Nat]
    <3>1. \A x \in DOMAIN m : m[x] \in [latency: Nat, health: Nat]
      <4>1. \A R : \A s \in Seq(R) : \A x \in DOMAIN s : s[x] \in R
        OBVIOUS
      <4> QED  BY <4>1 DEF Arena
    <3>2. [latency |-> Untested, health |-> 0] \in [latency: Nat, health: Nat]
      BY DEF Untested
    <3> QED  BY <3>1, <3>2 DEF Reading
  <2> QED  BY <2>1
<1>2. \A x \in DOMAIN rows : country(x) \in Nat /\ name(x) \in Nat
  <2>1. \A x \in DOMAIN rows : rows[x] \in StoreRow
    OBVIOUS
  <2> QED  BY <2>1 DEF StoreRow
<1>3. Untested \in Nat
  BY DEF Untested
<1>4. CASE c = "LatencyAsc"
  <2>1. \A x, y : S(x, y) <=> lat(x) # Untested /\ (lat(y) = Untested \/ lat(x) < lat(y))
    BY <1>4 DEF Smaller, LatencyBefore
  <2> HIDE DEF lat, S
  <2>2. ~S(i, i) /\ (S(i, j) /\ S(j, k) => S(i, k)) /\ (S(i, k) => S(i, j) \/ S(j, k))
    BY <1>1, <1>3, <2>1
  <2> QED  BY <2>2 DEF S
<1>5. CASE c = "LatencyDesc"
  <2>1. \A x, y : S(x, y) <=> lat(y) # Untested /\ (lat(x) = Untested \/ lat(y) < lat(x))
    BY <1>5 DEF Smaller, LatencyBefore
  <2> HIDE DEF lat, S
  <2>2. ~S(i, i) /\ (S(i, j) /\ S(j, k) => S(i, k)) /\ (S(i, k) => S(i, j) \/ S(j, k))
    BY <1>1, <1>3, <2>1
  <2> QED  BY <2>2 DEF S
<1>6. CASE c = "CountryAsc"
  <2>1. \A x, y : S(x, y) <=> country(x) < country(y)
    BY <1>6 DEF Smaller
  <2> HIDE DEF country, S
  <2>2. ~S(i, i) /\ (S(i, j) /\ S(j, k) => S(i, k)) /\ (S(i, k) => S(i, j) \/ S(j, k))
    BY <1>2, <2>1
  <2> QED  BY <2>2 DEF S
<1>7. CASE c = "NameAsc"
  <2>1. \A x, y : S(x, y) <=> name(x) < name(y)
    BY <1>7 DEF Smaller
  <2> HIDE DEF name, S
  <2>2. ~S(i, i) /\ (S(i, j) /\ S(j, k) => S(i, k)) /\ (S(i, k) => S(i, j) \/ S(j, k))
    BY <1>2, <2>1
  <2> QED  BY <2>2 DEF S
<1>8. CASE c = "HealthScoreDesc"
  <2>1. \A x, y : S(x, y) <=> health(y) < health(x)
    BY <1>8 DEF Smaller
  <2> HIDE DEF health, S
  <2>2. ~S(i, i) /\ (S(i, j) /\ S(j, k) => S(i, k)) /\ (S(i, k) => S(i, j) \/ S(j, k))
    BY <1>1, <2>1
  <2> QED  BY <2>2 DEF S
<1> QED  BY <1>4, <1>5, <1>6, <1>7, <1>8 DEF Criterion

\* With ties broken by row id it is strict and total.
LEMMA BeforeIsTotal ==
  ASSUME NEW rows \in Seq(StoreRow), Rising(rows), NEW m \in Arena, NEW c \in Criterion,
         NEW i \in DOMAIN rows, NEW j \in DOMAIN rows, NEW k \in DOMAIN rows
  PROVE  /\ ~Before(rows, m, c, i, i)
         /\ i # j => (Before(rows, m, c, i, j) <=> ~Before(rows, m, c, j, i))
         /\ Before(rows, m, c, i, j) /\ Before(rows, m, c, j, k) => Before(rows, m, c, i, k)
<1> DEFINE S(x, y) == Smaller(rows, m, c, x, y)
           B(x, y) == Before(rows, m, c, x, y)
           id(x)   == rows[x].id
<1>1. \A x, y, z \in DOMAIN rows :
        ~S(x, x) /\ (S(x, y) /\ S(y, z) => S(x, z)) /\ (S(x, z) => S(x, y) \/ S(y, z))
  BY SmallerIsWeak
<1>2. \A x \in DOMAIN rows : id(x) \in Nat /\ x \in Nat
  <2>1. \A x \in DOMAIN rows : rows[x] \in StoreRow /\ x \in Nat
    OBVIOUS
  <2>2. \A x \in DOMAIN rows : id(x) \in Ids
    BY <2>1 DEF StoreRow
  <2> QED  BY <2>1, <2>2, CatalogConstants DEF Ids
<1>3. \A x, y \in DOMAIN rows : x # y => id(x) # id(y)
  BY <1>2 DEF Rising
<1>4. \A x, y : B(x, y) <=> S(x, y) \/ (~S(y, x) /\ id(x) < id(y))
  BY DEF Before
<1> HIDE DEF S, B, id
<1>5. ~B(i, i)
  BY <1>1, <1>2, <1>4
<1>6. i # j => (B(i, j) <=> ~B(j, i))
  BY <1>1, <1>2, <1>3, <1>4
<1>7. B(i, j) /\ B(j, k) => B(i, k)
  <2> SUFFICES ASSUME B(i, j), B(j, k)  PROVE B(i, k)
    OBVIOUS
  <2>1. CASE S(i, j)
    BY <1>1, <1>4, <2>1
  <2>2. CASE ~S(j, i) /\ id(i) < id(j)
    BY <1>1, <1>2, <1>4, <2>2
  <2> QED  BY <1>4, <2>1, <2>2
<1> QED  BY <1>5, <1>6, <1>7 DEF B

LEMMA StoresOrdered == CatInv /\ StoreInv => OrderIsTotal
<1> SUFFICES ASSUME CatInv, StoreInv, NEW p \in Proc, pc[p] = "hydrated", NEW c \in Criterion, NEW m \in Arenas
             PROVE  LET rows  == DOMAIN store[p]
                        above == {r \in rows \X rows : Before(store[p], m, c, r[1], r[2])}
                    IN  /\ \A i, j \in rows : <<i, j>> \in above <=> (i # j /\ <<j, i>> \notin above)
                        /\ \A q, r \in above : q[2] = r[1] => <<q[1], r[2]>> \in above
  BY DEF OrderIsTotal
<1> DEFINE rows  == DOMAIN store[p]
           B(i, j) == Before(store[p], m, c, i, j)
           above == {r \in rows \X rows : B(r[1], r[2])}
<1>1. store[p] \in Seq(StoreRow) /\ Rising(store[p]) /\ m \in Arena
  BY CatalogConstants DEF StoreInv, Arena
<1>2. \A i, j, k \in rows :
        ~B(i, i) /\ (i # j => (B(i, j) <=> ~B(j, i))) /\ (B(i, j) /\ B(j, k) => B(i, k))
  BY <1>1, BeforeIsTotal
<1> HIDE DEF B, rows
<1>3. \A i, j \in rows : <<i, j>> \in above <=> B(i, j)
  OBVIOUS
<1>4. \A i, j \in rows : <<i, j>> \in above <=> (i # j /\ <<j, i>> \notin above)
  BY <1>2, <1>3
<1>5. \A q, r \in above : q[2] = r[1] => <<q[1], r[2]>> \in above
  BY <1>2
<1> QED  BY <1>4, <1>5 DEF B, rows

-----------------------------------------------------------------------------
(* What the window lists.                                                  *)

Fits(p, f) == {i \in DOMAIN store[p] : f = NoFilter \/ f \in store[p][i].sources}

LEMMA ListedFacts ==
  ASSUME CatInv, StoreInv, NEW p \in Proc, pc[p] = "hydrated", p \notin raced, NEW f
  PROVE  /\ ToSet(Listed(p, f)) = {store[p][i] : i \in Fits(p, f)}
         /\ Len(Listed(p, f)) = Cardinality(Fits(p, f)) /\ IsFiniteSet(Fits(p, f))
<1> DEFINE rows  == store[p]
           names == {Name[n] : n \in Node}
           shown == {i \in DOMAIN rows : Matches(rows[i], f, NoFilter, names)}
           R     == {r \in shown \X shown : Before(rows, <<>>, "NameAsc", r[1], r[2])}
           list  == Sorted(shown, R)
<1>1. rows \in Seq(StoreRow) /\ Rising(rows) /\ Same(rows)
  BY DEF StoreInv
<1>2. \A i \in DOMAIN rows : rows[i].name \in names
  <2>1. \A i \in DOMAIN rows : rows[i] \in StoreRow
    BY <1>1
  <2>2. \A i \in DOMAIN rows : rows[i].node \in Node
    BY <2>1 DEF StoreRow
  <2> QED  BY <1>1, <2>2 DEF Same
<1>3. shown = Fits(p, f)
  BY <1>2 DEF Matches, Fits
<1>4. Listed(p, f) = [k \in DOMAIN list |-> rows[list[k]]]
  BY DEF Listed, RunQuery
<1>5. IsFiniteSet(shown) /\ shown \in SUBSET DOMAIN rows
  <2>1. IsFiniteSet(DOMAIN rows)
    <3>1. DOMAIN rows = 1..Len(rows) /\ Len(rows) \in Nat
      BY <1>1
    <3> QED  BY <3>1, FS_Interval
  <2> QED  BY <2>1, FS_Subset
<1> DEFINE B(i, j) == Before(rows, <<>>, "NameAsc", i, j)
<1>6. \A i, j, k \in DOMAIN rows :
        ~B(i, i) /\ (i # j => (B(i, j) <=> ~B(j, i))) /\ (B(i, j) /\ B(j, k) => B(i, k))
  <2>1. <<>> \in Arena /\ "NameAsc" \in Criterion
    BY DEF Arena, Criterion
  <2> QED  BY <1>1, <2>1, BeforeIsTotal
<1>7. \A i, j \in shown : <<i, j>> \in R <=> B(i, j)
  OBVIOUS
<1> HIDE DEF B, R, shown, rows
<1>8. /\ list \in [1..Cardinality(shown) -> shown] /\ Cardinality(shown) \in Nat /\ ToSet(list) = shown
  <2>1. \A x \in shown : <<x, x>> \notin R
    BY <1>5, <1>6, <1>7
  <2>2. \A x, y \in shown : x # y => <<x, y>> \in R \/ <<y, x>> \in R
    BY <1>5, <1>6, <1>7
  <2>3. \A x, y, z \in shown : <<x, y>> \in R /\ <<y, z>> \in R => <<x, z>> \in R
    BY <1>5, <1>6, <1>7
  <2> QED  BY <1>5, <2>1, <2>2, <2>3, SortedFacts
<1> HIDE DEF list
<1>9. DOMAIN list = 1..Cardinality(shown)
  BY <1>8
<1>10. Len(Listed(p, f)) = Cardinality(shown)
  BY <1>4, <1>8, <1>9
<1>11. ToSet(Listed(p, f)) = {rows[i] : i \in shown}
  <2>1. ToSet(Listed(p, f)) = {rows[list[k]] : k \in DOMAIN list}
    BY <1>4 DEF ToSet
  <2>2. shown = {list[k] : k \in DOMAIN list}
    BY <1>8 DEF ToSet
  <2> QED  BY <2>1, <2>2
<1> QED  BY <1>3, <1>5, <1>10, <1>11 DEF rows

\* The row of an id, and the sources of a row.
LEMMA HydratedFacts ==
  ASSUME CatInv, StoreInv, UniqueInv, NEW p \in Proc, pc[p] = "hydrated", p \notin raced
  PROVE  /\ \A i \in DOMAIN store[p] :
              /\ store[p][i].id \in Rows(db) /\ store[p][i].node = db.nodes[store[p][i].id].node
              /\ \A s : s \in store[p][i].sources <=> <<store[p][i].id, s>> \in db.links
         /\ \A id \in Rows(db) : \E i \in DOMAIN store[p] : store[p][i].id = id
         /\ \A i, j \in DOMAIN store[p] : store[p][i].node = store[p][j].node => i = j
<1> DEFINE rows == store[p]
           ids  == Ascending(Rows(db))
<1>1. /\ rows \in Seq(StoreRow) /\ Rising(rows) /\ Same(rows)
      /\ \A k \in DOMAIN rows : rows[k].sources = {l[2] : l \in {x \in db.links : x[1] = rows[k].id}}
  BY DEF StoreInv, SourcesOf
<1>2. ids \in Seq(Rows(db)) /\ ToSet(ids) = Rows(db)
  BY RowsFacts, AscendingFacts
<1>3. db.links \in SUBSET (Ids \X Subs)
  BY DEF CatInv, Shape, View
<1> HIDE DEF rows, ids
<1>4. /\ DOMAIN rows = DOMAIN ids
      /\ \A k \in DOMAIN rows : rows[k].id = ids[k] /\ rows[k].node = db.nodes[rows[k].id].node
  BY <1>1 DEF Same, ids
<1>5. \A i \in DOMAIN rows : rows[i].id \in Rows(db)
  BY <1>2, <1>4
<1>6. ASSUME NEW i \in DOMAIN rows, NEW s  PROVE s \in rows[i].sources <=> <<rows[i].id, s>> \in db.links
  <2>1. rows[i].sources = {l[2] : l \in {x \in db.links : x[1] = rows[i].id}}
    BY <1>1
  <2>2. \A l \in db.links : l = <<l[1], l[2]>>
    BY <1>3
  <2> QED  BY <2>1, <2>2
<1>7. ASSUME NEW id \in Rows(db)  PROVE \E i \in DOMAIN rows : rows[i].id = id
  BY <1>2, <1>4 DEF ToSet
<1>8. ASSUME NEW i \in DOMAIN rows, NEW j \in DOMAIN rows, rows[i].node = rows[j].node  PROVE i = j
  <2>1. rows[i].id = rows[j].id
    BY <1>4, <1>5, <1>8 DEF UniqueInv, Unique
  <2>2. i \in Nat /\ j \in Nat
    BY <1>1
  <2>3. rows[i] \in StoreRow /\ rows[j] \in StoreRow
    BY <1>1
  <2>4. rows[i].id \in Nat /\ rows[j].id \in Nat
    BY <2>3, CatalogConstants DEF StoreRow, Ids
  <2> QED  BY <1>1, <2>1, <2>2, <2>4 DEF Rising
<1> QED  BY <1>4, <1>5, <1>6, <1>7, <1>8 DEF rows

LEMMA StoresMatch == CatInv /\ StoreInv /\ UniqueInv => StoreMatches
<1> SUFFICES ASSUME CatInv, StoreInv, UniqueInv, NEW p \in Proc, pc[p] = "hydrated", p \notin raced
             PROVE  /\ [k \in DOMAIN store[p] |-> store[p][k].id] = Ascending(DOMAIN db.nodes)
                    /\ \A s \in db.subs : /\ {r.node : r \in ToSet(Listed(p, s))} = NodesOf(s)
                                          /\ Len(Listed(p, s)) = Cardinality(NodesOf(s))
                    /\ ToSet(Listed(p, NoFilter)) = UNION {ToSet(Listed(p, s)) : s \in db.subs}
  BY DEF StoreMatches
<1> DEFINE rows == store[p]
<1>1. [k \in DOMAIN rows |-> rows[k].id] = Ascending(DOMAIN db.nodes)
  <2> DEFINE ids == Ascending(Rows(db))
  <2>1. ids \in Seq(Rows(db))
    BY RowsFacts, AscendingFacts
  <2>2. DOMAIN rows = DOMAIN ids /\ \A k \in DOMAIN rows : rows[k].id = ids[k]
    BY DEF StoreInv, Same
  <2> HIDE DEF ids, rows
  <2>3. ids = [k \in DOMAIN ids |-> ids[k]]
    BY <2>1
  <2> QED  BY <2>2, <2>3 DEF ids, Rows
<1>2. /\ \A i \in DOMAIN rows :
           /\ rows[i].id \in Rows(db) /\ rows[i].node = db.nodes[rows[i].id].node
           /\ \A s : s \in rows[i].sources <=> <<rows[i].id, s>> \in db.links
      /\ \A id \in Rows(db) : \E i \in DOMAIN rows : rows[i].id = id
      /\ \A i, j \in DOMAIN rows : rows[i].node = rows[j].node => i = j
  BY HydratedFacts
<1>3. \A f : /\ ToSet(Listed(p, f)) = {rows[i] : i \in Fits(p, f)}
             /\ Len(Listed(p, f)) = Cardinality(Fits(p, f)) /\ IsFiniteSet(Fits(p, f))
  BY ListedFacts
<1>4. \A s \in db.subs : s # NoFilter
  BY CatalogConstants DEF CatInv, Shape, View, Subs, NoFilter
<1>5. \A s \in db.subs : Fits(p, s) = {i \in DOMAIN rows : s \in rows[i].sources}
  BY <1>4 DEF Fits
<1>6. Fits(p, NoFilter) = DOMAIN rows
  BY DEF Fits
<1> HIDE DEF rows
<1>7. ASSUME NEW s \in db.subs
      PROVE  /\ {r.node : r \in ToSet(Listed(p, s))} = NodesOf(s)
             /\ Len(Listed(p, s)) = Cardinality(NodesOf(s))
  <2> DEFINE F == Fits(p, s)
             g == [i \in F |-> rows[i].node]
  <2>1. NodesOf(s) = {rows[i].node : i \in F}
    <3>1. \A l \in db.links : l = <<l[1], l[2]>> /\ l[1] \in Rows(db)
      BY DEF CatInv, Shape, View, Committed
    <3>2. ASSUME NEW n \in NodesOf(s)  PROVE n \in {rows[i].node : i \in F}
      <4>1. PICK l \in db.links : l[2] = s /\ n = db.nodes[l[1]].node
        BY DEF NodesOf
      <4>2. PICK i \in DOMAIN rows : rows[i].id = l[1]
        BY <1>2, <3>1
      <4>3. <<rows[i].id, s>> \in db.links
        BY <3>1, <4>1, <4>2
      <4>4. i \in F
        BY <1>2, <1>5, <4>3
      <4> QED  BY <1>2, <4>1, <4>2, <4>4
    <3>3. ASSUME NEW i \in F  PROVE rows[i].node \in NodesOf(s)
      <4>1. i \in DOMAIN rows /\ <<rows[i].id, s>> \in db.links
        BY <1>2, <1>5
      <4> QED  BY <1>2, <4>1 DEF NodesOf
    <3> QED  BY <3>2, <3>3
  <2>2. {r.node : r \in ToSet(Listed(p, s))} = {rows[i].node : i \in F}
    BY <1>3
  <2>3. g \in Bijection(F, NodesOf(s))
    <3>1. F \subseteq DOMAIN rows
      BY <1>5
    <3> HIDE DEF F
    <3>2. \A i, j \in F : g[i] = g[j] => i = j
      BY <1>2, <3>1
    <3> QED  BY <2>1, <3>2 DEF Bijection, Injection, Surjection, IsInjective
  <2>4. Cardinality(NodesOf(s)) = Cardinality(F)
    <3>1. ExistsBijection(F, NodesOf(s)) /\ IsFiniteSet(F)
      BY <1>3, <2>3 DEF ExistsBijection
    <3> QED  BY <3>1, FS_Bijection
  <2> QED  BY <1>3, <2>1, <2>2, <2>4
<1>8. ToSet(Listed(p, NoFilter)) = UNION {ToSet(Listed(p, s)) : s \in db.subs}
  <2>1. ASSUME NEW i \in DOMAIN rows  PROVE \E s \in db.subs : i \in Fits(p, s)
    <3>1. PICK s \in db.subs : <<rows[i].id, s>> \in db.links
      BY <1>2 DEF CatInv, Committed, Kept
    <3> QED  BY <1>2, <1>5, <3>1
  <2>2. \A s \in db.subs : Fits(p, s) \subseteq DOMAIN rows
    BY <1>5
  <2> QED  BY <1>3, <1>6, <2>1, <2>2
<1> QED  BY <1>1, <1>7, <1>8 DEF rows

GhostInv == raced \subseteq Proc /\ torn \in BOOLEAN

LEMMA CatalogTypes == CatInv /\ HeldInv /\ GhostInv => TypeOK
<1> SUFFICES ASSUME CatInv, HeldInv, raced \subseteq Proc, torn \in BOOLEAN  PROVE TypeOK
  BY DEF GhostInv
<1>1. ViewOK(db)
  <2>1. db.links \subseteq Rows(db) \X db.subs
    <3>1. \A l \in db.links : l = <<l[1], l[2]>> /\ l[1] \in Rows(db) /\ l[2] \in db.subs
      BY DEF CatInv, Shape, View, Committed
    <3> QED  BY <3>1
  <2>2. db.subs \subseteq Subs /\ db.column \in BOOLEAN
    BY DEF CatInv, Shape, View
  <2> QED  BY <2>1, <2>2, RowsFacts DEF ViewOK, Row, Kind
<1>2. ASSUME writer # None  PROVE ViewOK(tx)
  <2>1. PICK p \in Proc : writer = p
    BY <1>2 DEF CatInv, Shape
  <2>2. pc[p] \in Writing
    BY <2>1 DEF CatInv, Shape
  <2>3. /\ tx \in View /\ Draft(p) /\ Rows(tx) \in SUBSET Ids /\ tx.nodes \in [Rows(tx) -> Row]
    BY <2>2, WriterFacts
  <2>4. tx.links \subseteq Rows(tx) \X tx.subs
    <3>1. \A l \in db.links : l[1] \in Rows(db) /\ l[2] \in db.subs
      BY DEF CatInv, Committed
    <3>2. /\ tx.subs = db.subs \cup {job[p].sub} /\ job[p].ids \subseteq Rows(tx)
          /\ tx.links = db.links \/ tx.links = OtherLinks(p) \/ tx.links = OtherLinks(p) \cup OwnLinks(p)
          /\ pc[p] # "commit" => Rows(db) \subseteq Rows(tx)
          /\ pc[p] = "commit" => \A l \in tx.links : l[1] \in Rows(tx)
      BY <2>2, <2>3 DEF Draft, Writing
    <3>3. \A l \in OtherLinks(p) : l \in db.links
      BY DEF OtherLinks
    <3>4. \A l \in OwnLinks(p) : l[1] \in job[p].ids /\ l[2] = job[p].sub
      BY DEF OwnLinks
    <3>5. \A l \in tx.links : l[1] \in Rows(tx) /\ l[2] \in tx.subs
      BY <3>1, <3>2, <3>3, <3>4
    <3>6. \A l \in tx.links : l = <<l[1], l[2]>>
      BY <2>3 DEF View
    <3> QED  BY <3>5, <3>6
  <2>5. tx.subs \subseteq Subs /\ tx.column \in BOOLEAN
    BY <2>3 DEF View
  <2> QED  BY <2>3, <2>4, <2>5 DEF ViewOK, Row, Kind
<1>3. ASSUME NEW p \in Proc  PROVE job[p].ids \subseteq Ids /\ job[p].sub \in Subs \cup {0}
  <2>1. job[p] \in Job
    BY DEF CatInv, Shape
  <2> QED  BY <2>1, CatalogConstants DEF Job, Subs
<1>4. /\ writer \in Proc \cup {None} /\ (writer = None => tx = None)
      /\ \A p \in Proc : pc[p] \in {"ensure", "link", "prune", "commit"} <=> writer = p
  BY DEF CatInv, Shape, Writing
<1>5. held # None => held.id \in Ids /\ held.node \in Node
  BY DEF HeldInv
<1> QED  BY <1>1, <1>2, <1>3, <1>4, <1>5 DEF TypeOK

LEMMA GhostStep == ASSUME CatInv, GhostInv, [Next]_vars  PROVE GhostInv'
<1>1. ASSUME NEW p \in Proc, Migrate(p) \/ Sync(p) \/ Hydrate(p) \/ Fail(p) \/ Crash(p)
      PROVE  GhostInv'
  BY <1>1 DEF GhostInv, Migrate, Open, AlterTable, Backfill, Sync, Refuse, Upsert, EnsureNode, Unlink, Link, Prune,
              Commit, BetweenReads, Hydrate, HydrateNodes, HydrateSources, Publish, Fail, Crash, Abandon, ghosts
<1>2. ASSUME NEW p \in Proc, NEW d \in Payload, Import(p, d) \/ \E s \in Subs, allow \in BOOLEAN : Refresh(p, s, d, allow)
      PROVE  GhostInv'
  BY <1>2 DEF GhostInv, Import, Refresh, ghosts
<1>3. CASE LoadTargets \/ Deliver \/ UNCHANGED vars
  BY <1>3 DEF GhostInv, LoadTargets, Deliver, vars, ghosts
<1> QED  BY <1>1, <1>2, <1>3 DEF Next

\* hydrate_from_db, run_query and ensure_protocol_kind_column, for every file, every
\* set of instances and every arena: what an instance shows is what is stored.
THEOREM WindowShowsTheFile == Spec => []ShownIsStored
<1>1. Init => HeldInv /\ KindInv /\ UniqueInv /\ StoreInv /\ GhostInv
  <2> SUFFICES ASSUME Init  PROVE HeldInv /\ KindInv /\ UniqueInv /\ StoreInv /\ GhostInv
    OBVIOUS
  <2> DEFINE table == [i \in DOMAIN Legacy |->
                      [node |-> Legacy[i],
                       kind |-> IF Legacy[i] \in Unreadable THEN "unreadable" ELSE "default"]]
  <2>1. /\ db.nodes = table /\ db.column = (Legacy = <<>>) /\ writer = None /\ held = None
        /\ pc = [p \in Proc |-> "closed"] /\ store = [p \in Proc |-> <<>>] /\ raced = {} /\ torn = FALSE
    BY DEF Init
  <2>2. Rows(db) = DOMAIN Legacy /\ \A i \in DOMAIN Legacy : db.nodes[i].node = Legacy[i]
    BY <2>1 DEF Rows
  <2>3. UniqueInv
    BY <2>1, <2>2, CatalogConstants DEF UniqueInv, Unique
  <2>4. Legacy = <<>> => Rows(db) = {}
    BY <2>2
  <2> HIDE DEF table
  <2>5. KindInv
    BY <2>1, <2>4 DEF KindInv
  <2>6. <<>> \in Seq(StoreRow)
    OBVIOUS
  <2>7. StoreInv
    BY <2>1, <2>6 DEF StoreInv
  <2> QED  BY <2>1, <2>3, <2>5, <2>7 DEF HeldInv, GhostInv
<1>2. KindInv => KindsRight
  BY DEF KindInv, KindsRight, Rows
<1>3. CatInv /\ HeldInv /\ KindInv /\ UniqueInv /\ StoreInv /\ GhostInv => ShownIsStored
  BY <1>2, CatalogTypes, StoresMatch, StoresOrdered DEF ShownIsStored
<1> QED  BY <1>1, <1>3, CatalogInvariant, HeldStep, KindStep, UniqueStep, StoreStep, GhostStep, PTL DEF Spec
=============================================================================
