----------------------------- MODULE MCAddress -----------------------------
(* A process with two transports. *)
EXTENDS Address, TLC

TwoObjects == {<<1, 1>>, <<1, 2>>}
Symmetry == Permutations(Threads)
=============================================================================
