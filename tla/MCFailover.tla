----------------------------- MODULE MCFailover -----------------------------
(* Instances of the egress watchdog for TLC. *)
EXTENDS Failover

CONSTANT Twins   \* nodes that share a label, as copies of one server do

\* Connections past no threshold, past each one far, and past two or all of them.
Sample(rtt, burst, total, unacked) ==
  [rtt |-> rtt, burst |-> burst, total |-> total, unacked |-> unacked]
Sound    == Sample(80, 0, 0, 0)
Samples6 ==
  { Sound, Sample(90000, 0, 0, 0), Sample(80, 9, 60, 0), Sample(80, 0, 60, 0),
    Sample(5000, 9, 0, 0), Sample(5000, 9, 60, 90) }

Labels == [n \in Node |-> IF n \in Twins THEN None ELSE n]
=============================================================================
