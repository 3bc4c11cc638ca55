-------------------------------- MODULE Sha --------------------------------
(***************************************************************************)
(* The hash of a session's keys (Sha.cpp): the bytes of a message are put  *)
(* into a block, a full block is processed, and at the end of the message  *)
(* the block is filled up with 0x80, zeros and the message's length.       *)
(*                                                                         *)
(* What processing a block computes is left out: the bytes given to it are *)
(* kept instead.  A byte is a set, zero the empty one.  The two halves of  *)
(* the length take one place each, and count bytes: LengthLow counts bits  *)
(* and wraps at 2^32, that is after 2^29 bytes.  LengthHigh cannot: size   *)
(* is an int, so Corrupted stays 0.                                        *)
(***************************************************************************)
EXTENDS Naturals, Sequences

CONSTANTS Room,  \* the bytes of a block before the length: 56
          Wrap   \* the bytes after which LengthLow is 0 again: 2^29

ASSUME RoomAssumption == Room \in Nat \ {0}
ASSUME WrapAssumption == Wrap \in Nat \ {0, 1}

VARIABLES
  message,     \* messageArray
  block,       \* the first MessageBlockIndex bytes of MessageBlock
  lengthLow, lengthHigh,
  hashed,      \* history: the bytes of the blocks processed
  sha          \* "input", "done"; "none" when there is no Sha_l

shaVars == <<message, block, lengthLow, lengthHigh, hashed, sha>>

Block == Room + 2
Zero  == {}
Mark  == {<<"0x80", 0, 0>>}
Zeros(n) == [i \in 1..n |-> Zero]
Length   == <<{<<"length", lengthHigh, 0>>}, {<<"length", lengthLow, 0>>}>>

(* The constructor: Input of all of m, then Result. *)
NewSha(m) ==
  /\ message' = m /\ block' = <<>> /\ hashed' = <<>> /\ sha' = "input"
  /\ lengthLow' = 0 /\ lengthHigh' = 0

NoSha ==
  /\ message = <<>> /\ block = <<>> /\ hashed = <<>> /\ sha = "none"
  /\ lengthLow = 0 /\ lengthHigh = 0

DeleteSha ==
  /\ message' = <<>> /\ block' = <<>> /\ hashed' = <<>> /\ sha' = "none"
  /\ lengthLow' = 0 /\ lengthHigh' = 0

---------------------------------------------------------------------------
(* b, and the block is processed if that fills it. *)
Put(b) ==
  IF Len(b) = Block THEN hashed' = hashed \o b /\ block' = <<>>
                    ELSE block' = b /\ UNCHANGED hashed

Done == Len(hashed) + Len(block)

Input ==
  /\ sha = "input" /\ Done < Len(message)
  /\ Put(Append(block, message[Done + 1]))
  /\ lengthLow' = (lengthLow + 1) % Wrap
  /\ lengthHigh' = IF lengthLow' = 0 THEN lengthHigh + 1 ELSE lengthHigh
  /\ UNCHANGED <<message, sha>>

(* Mutant: a block that has room for the mark only is not given up. *)
PaddingTight(b) ==
  LET marked == Append(b, Mark)
  IN  IF Len(b) > Room
      THEN marked \o Zeros(Block - Len(marked)) \o Zeros(Room) \o Length
      ELSE SubSeq(marked \o Zeros(Room - Len(marked)), 1, Room) \o Length

(* The last block; two, if the first one has no room for the length. *)
Padding(b) ==
  LET marked == Append(b, Mark)
  IN  IF Len(b) > Room - 1
      THEN marked \o Zeros(Block - Len(marked)) \o Zeros(Room) \o Length
      ELSE marked \o Zeros(Room - Len(marked)) \o Length

PadMessage ==
  /\ sha = "input" /\ Done = Len(message) /\ sha' = "done"
  /\ hashed' = hashed \o Padding(block)
  /\ block' = <<>>
  /\ UNCHANGED <<message, lengthLow, lengthHigh>>

ShaNext == Input \/ PadMessage

---------------------------------------------------------------------------
(* What is hashed is the message, the mark, zeros and the length of the    *)
(* message, in as few whole blocks as hold them: at every place of the end *)
(* of the message in its block.                                            *)
HashedIsPadded ==
  sha = "done" =>
    LET n     == Len(message)
        total == Len(hashed)
    IN  /\ total % Block = 0
        /\ total - Block < n + 3 /\ n + 3 <= total
        /\ SubSeq(hashed, 1, n + 1) = Append(message, Mark)
        /\ \A i \in (n + 2)..(total - 2) : hashed[i] = Zero
        /\ \E high \in 0..n, low \in 0..(Wrap - 1) :
             /\ n = high * Wrap + low
             /\ hashed[total - 1] = {<<"length", high, 0>>}
             /\ hashed[total] = {<<"length", low, 0>>}
=============================================================================
