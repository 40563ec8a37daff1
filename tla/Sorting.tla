------------------------------- MODULE Sorting -------------------------------
(***************************************************************************)
(* Sorting, for relations given as sets of pairs: what Rust's sorts and    *)
(* SQL's ORDER BY return when the relation orders S strictly and totally.  *)
(***************************************************************************)
EXTENDS Naturals, FiniteSets, Sequences, SequencesExt

Sorted(S, R) ==
  CHOOSE s \in SetToSeqs(S) : \A i, j \in DOMAIN s : i < j => <<s[i], s[j]>> \in R

\* The first k, by sorting and cutting.
Lowest(S, R, k) == {x \in S : Cardinality({y \in S : <<y, x>> \in R}) < k}

Ascending(S) == Sorted(S, {r \in S \X S : r[1] < r[2]})
=============================================================================
