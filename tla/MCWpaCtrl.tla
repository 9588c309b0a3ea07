----------------------------- MODULE MCWpaCtrl -----------------------------
(* WpaCtrl for TLC: the bounds are in the configurations. *)
EXTENDS WpaCtrl
=============================================================================
