------------------------------- MODULE Health -------------------------------
(***************************************************************************)
(* The scores from 0 to 100: of a socket probe and of an egress trial as   *)
(* the window shows them (gui/main.rs), and of a live connection by its    *)
(* kernel statistics (socket_health.rs), with the grade of a tunnel of     *)
(* several connections (auto_select.rs).                                   *)
(***************************************************************************)
EXTENDS Integers, FiniteSets, FiniteSetsExt

Untested == 65535      \* UNTESTED_LATENCY, u16::MAX
NoLatency == 0         \* None; what is measured takes a millisecond at least

Least(a, b) == IF a < b THEN a ELSE b
Clamp(x, lo, hi) == IF x < lo THEN lo ELSE Least(x, hi)

Ceiling == 55          \* REACHABILITY_HEALTH_CEILING

reachability_health(isAlive, ms) ==
  IF isAlive THEN Clamp(Ceiling - (IF ms = NoLatency THEN 400 ELSE ms) \div 12, 0, Ceiling) ELSE 0

\* Mutant of verified_health: no cap on what a slow answer costs; as u8.
verified_health_uncapped(passes, ms) ==
  IF passes THEN (IF ms = NoLatency THEN 100 ELSE (100 - ms \div 8) % 256) ELSE 0

verified_health(passes, ms) ==
  IF passes THEN (IF ms = NoLatency THEN 100 ELSE 100 - Least(ms \div 8, 90)) ELSE 0

\* as_millis() as u16: the low 16 bits.
AsU16(ms) == ms % 65536

\* What the window writes: nothing of a probe that proved nothing, no latency of a
\* dead node, and the trial's verdict as `verified`.
Unwritten == [latency |-> Untested, health |-> 0, verified |-> FALSE]

SweepReading(isAlive, ms) ==
  [latency |-> IF ms = NoLatency THEN Untested ELSE ms,
   health |-> reachability_health(isAlive, ms), verified |-> FALSE]

TrialReading(passes, ms) ==
  [latency |-> IF ms = NoLatency THEN Untested ELSE AsU16(ms),
   health |-> verified_health(passes, AsU16(ms)), verified |-> passes]

-----------------------------------------------------------------------------
\* TCP statistics: [rtt, burst, total, unacked]; HealthThresholds::default.
Thresholds == [rtt |-> 1200, burst |-> 5, total |-> 12, unacked |-> 64]

\* Mutant of health_grade: what a retransmission costs has no cap.
health_grade_uncapped(s) ==
  LET lossy == IF s.total >= Thresholds.total THEN (s.total - Thresholds.total) * 5 ELSE 0
  IN  Clamp(100 - lossy, 0, 100)

health_grade(s) ==
  LET slow    == IF s.rtt >= Thresholds.rtt THEN Least(Least(s.rtt - Thresholds.rtt, 3000) \div 100, 40) ELSE 0
      burst   == IF s.burst >= Thresholds.burst THEN 30 ELSE 0
      lossy   == IF s.total >= Thresholds.total THEN Least((s.total - Thresholds.total) * 5, 30) ELSE 0
      backlog == IF s.unacked >= Thresholds.unacked THEN 20 ELSE 0
  IN  Clamp(100 - slow - burst - lossy - backlog, 0, 100)

\* tunnel_health: the best grade of the established connections to any of the
\* node's addresses; None when there is no connection, or no address.
NoEvidence == 101
tunnel_health(connections) ==
  IF connections = {} THEN NoEvidence ELSE Max({health_grade(c) : c \in connections})

\* tunnel_confirms_trouble: absence of telemetry is no evidence.
ConfirmsTrouble(connections, floor) == tunnel_health(connections) < floor
=============================================================================
