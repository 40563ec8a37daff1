-------------------------------- MODULE Lease --------------------------------
(***************************************************************************)
(* What the routing daemon promises its controllers about ownership: one   *)
(* holder at a time; a holder is either still being granted the routing    *)
(* (it is in the middle of its own EnableRouting) or the routing is on, so *)
(* that the deadman's switch can take it back; and the holder changes only *)
(* through nobody.  Whether the kernel agrees is no part of this promise.  *)
(***************************************************************************)
CONSTANTS Session, NoSession

VARIABLES
  holder,    \* the session that owns the controller, or NoSession
  granted,   \* routing is recorded as active
  claiming   \* sessions whose EnableRouting is being carried out

vars == <<holder, granted, claiming>>

Init == holder = NoSession /\ granted = FALSE /\ claiming = {}

Drop(s) == IF holder = s THEN NoSession ELSE holder

Acquire(s) ==
  /\ holder \in {NoSession, s}
  /\ holder' = s
  /\ claiming' = claiming \cup {s}
  /\ UNCHANGED granted

Grant(s) ==
  /\ s \in claiming
  /\ granted' = TRUE
  /\ claiming' = claiming \ {s}
  /\ UNCHANGED holder

Abandon(s) ==
  /\ s \in claiming
  /\ holder' = Drop(s)
  /\ claiming' = claiming \ {s}
  /\ UNCHANGED granted

Revoke ==
  /\ holder' = NoSession
  /\ granted' = FALSE
  /\ claiming' \in {claiming, {}}   \* all claims are lost in a crash

Next == Revoke \/ \E s \in Session : Acquire(s) \/ Grant(s) \/ Abandon(s)

Spec == Init /\ [][Next]_vars
=============================================================================
