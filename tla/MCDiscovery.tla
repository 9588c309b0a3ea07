---------------------------- MODULE MCDiscovery ----------------------------
(* Discovery for TLC: two names and every world they can be in. *)
EXTENDS Discovery
=============================================================================
