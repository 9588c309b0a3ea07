---------------------------- MODULE MCEventLoop ----------------------------
(* EventLoop for TLC: the bounds are in the configuration. *)
EXTENDS EventLoop
=============================================================================
