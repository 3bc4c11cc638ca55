---------------------------- MODULE MCConnexions ----------------------------
(* Instances of Connexions for TLC.                                        *)
EXTENDS Connexions, TLC

Symmetry == Permutations(Conns) \cup Permutations(Workers)
=============================================================================
