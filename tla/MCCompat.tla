------------------------------ MODULE MCCompat ------------------------------
(* Compat for TLC: two threads over one or two interfaces. *)
EXTENDS Compat, TLC

(* The threads are alike, and so are the interfaces and the id()s. *)
Alike == Permutations(Threads) \cup Permutations(Ifnames) \cup Permutations(Clients)
=============================================================================
