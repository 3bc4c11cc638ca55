----------------------------- MODULE MCSession -----------------------------
(* An instance of Session for TLC: keys of five bytes, key buffers that    *)
(* three digests fill, blocks of eight bytes, and calls that make sixteen  *)
(* bytes of data.                                                          *)
EXTENDS Session

MCSize == [j \in Gens |-> j + 2]
MCLag  == [j \in Gens |-> IF j = 1 THEN 2 ELSE 1]
=============================================================================
