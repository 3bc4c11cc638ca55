------------------------------ MODULE MCHttpD ------------------------------
(* Model checking HttpD, and the pool it is: two workers, one caller, two  *)
(* requests.                                                               *)
EXTENDS HttpD, TLC

Symmetry == Permutations(Workers) \cup Permutations(Links)
=============================================================================
