-------------------------------- MODULE Query --------------------------------
(***************************************************************************)
(* The projection of the node list (query_engine.rs): which rows of the    *)
(* dense store are shown and in which order, with readings taken from the  *)
(* metric arena.  A row is [id, country, name, sources, kind]; names and   *)
(* countries are numbers in their alphabetical order.                      *)
(***************************************************************************)
EXTENDS Sorting

Untested == 65535      \* UNTESTED_LATENCY, u16::MAX
Criterion == {"LatencyAsc", "LatencyDesc", "CountryAsc", "NameAsc", "HealthScoreDesc"}

\* A reading of the arena; a row the arena has no place for counts as untested.
Reading(metrics, i) ==
  IF i \in DOMAIN metrics THEN metrics[i] ELSE [latency |-> Untested, health |-> 0]

\* latency_order: untested after everything tested.
LatencyBefore(a, b) == a # Untested /\ (b = Untested \/ a < b)

\* The criterion's comparison of two rows.
Smaller(store, metrics, criterion, i, j) ==
  LET a == Reading(metrics, i)
      b == Reading(metrics, j)
  IN CASE criterion = "LatencyAsc"      -> LatencyBefore(a.latency, b.latency)
       [] criterion = "LatencyDesc"     -> LatencyBefore(b.latency, a.latency)
       [] criterion = "CountryAsc"      -> store[i].country < store[j].country
       [] criterion = "NameAsc"         -> store[i].name < store[j].name
       [] criterion = "HealthScoreDesc" -> b.health < a.health

\* Mutant of Before: rows whose readings are equal stay tied.
BeforeUntied(store, metrics, criterion, i, j) ==
  \/ Smaller(store, metrics, criterion, i, j)
  \/ /\ criterion \in {"CountryAsc", "NameAsc"}
     /\ ~Smaller(store, metrics, criterion, j, i) /\ store[i].id < store[j].id

\* What sort_unstable_by is given: ties are broken by row id.
Before(store, metrics, criterion, i, j) ==
  \/ Smaller(store, metrics, criterion, i, j)
  \/ ~Smaller(store, metrics, criterion, j, i) /\ store[i].id < store[j].id

\* A filter of NoFilter admits all; `found` are the names the search matches.
NoFilter == 0
Matches(row, sub, country, found) ==
  /\ sub = NoFilter \/ sub \in row.sources
  /\ country = NoFilter \/ row.country = country
  /\ row.name \in found

RunQuery(store, metrics, sub, country, found, criterion) ==
  LET shown == {i \in DOMAIN store : Matches(store[i], sub, country, found)}
  IN  Sorted(shown, {r \in shown \X shown : Before(store, metrics, criterion, r[1], r[2])})
=============================================================================
