------------------------------ MODULE MCPacket ------------------------------
(* An instance of Packet for TLC: ushorts of less than eight, a head of    *)
(* two bytes.  Beside it the conversions of texts of up to three units, at *)
(* the bounds of the lengths of UTF-8, and of rows with characters of four *)
(* bytes, cut off and out of place.                                        *)
EXTENDS Packet, Text, SequencesExt

MCOffsets == {-10, -3, -1, 0, 2}

MCTexts  == BoundedSeq({65, 321, 2048}, 3) \cup {<<u>> : u \in {127, 128, 2047, 65535}}
MCRows   == {Encoding(t) : t \in MCTexts}
              \cup {<<195>>, <<65, 226, 130>>, <<240, 159, 152, 128, 65>>, <<128, 65>>, <<240, 65>>}
MCBehind == {<<>>, <<65, 0>>, <<0, 0, 0, 0, 0, 0>>, <<65, 65, 65, 65, 65, 0>>}

(* Either a packet is used or a text. *)
MCInit == Init /\ TextInit /\ (fill \/ (wide /\ mem = <<0>>))
MCNext == \/ Next /\ wide /\ mem = <<0>> /\ tpc = "idle" /\ UNCHANGED textVars
          \/ TextNext /\ Init /\ UNCHANGED vars
MCSpec == MCInit /\ [][MCNext]_<<vars, textVars>>
=============================================================================
