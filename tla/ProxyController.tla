--------------------------- MODULE ProxyController ---------------------------
(***************************************************************************)
(* The fields of ProxyController that its own calls (module Controller)    *)
(* and the egress watchdog (module Failover) both read and write.          *)
(***************************************************************************)
CONSTANT Node     \* the catalog

VARIABLES
  active,         \* active_node
  degraded        \* the degraded flag
=============================================================================
