----------------------------- MODULE MCSnapshot -----------------------------
(* Instances of the snapshot layers for TLC. *)
EXTENDS Snapshot

Real(i) == [id |-> i, demo |-> FALSE]
Demo(i) == [id |-> i, demo |-> TRUE]

\* An empty database at start: demo rows, replaced by the first import.  Before
\* the second import another instance added a row and removed it again: a gap.
DemoFirst == << <<Demo(1), Demo(2)>>, <<Real(1)>>, <<Real(1), Real(3), Real(4)>> >>

ASSUME ImportsAppend == Appends(DemoFirst)
=============================================================================
