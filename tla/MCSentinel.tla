---------------------------- MODULE MCSentinel ----------------------------
(***************************************************************************)
(* Instances of Sentinel: a stale heartbeat (severe) and a failing         *)
(* intelligence source (not severe).                                       *)
(***************************************************************************)
EXTENDS Sentinel

CONSTANTS stale, feed
=============================================================================
