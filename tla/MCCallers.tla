----------------------------- MODULE MCCallers -----------------------------
(* Callers for TLC: three entries and one place more, five networks on     *)
(* pages of two, two ids of each kind.                                     *)
EXTENDS Callers
=============================================================================
