----------------------------- MODULE MCGameLink -----------------------------
(* An instance of GameLink for TLC: short keys, packets that claim less    *)
(* than their head, no body, or a body of one or three bytes; a bad head   *)
(* can be read as any of these.                                            *)
EXTENDS GameLink
=============================================================================
