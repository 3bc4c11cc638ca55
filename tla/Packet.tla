------------------------------- MODULE Packet -------------------------------
(***************************************************************************)
(* A packet (libSharun/network/packet.cpp), which the server receives and  *)
(* the plugins read and write: a buffer, the room it is known to have, the *)
(* size of what is in it and two positions, in 16-bit integers.            *)
(*                                                                         *)
(* The bytes are left out.  What counts is whether an access stays inside  *)
(* the buffer, and what a caller must have done for one that does not.     *)
(***************************************************************************)
EXTENDS Integers

CONSTANTS Limit,    \* 2^16: one more than the greatest ushort
          HeadSize, \* the bytes of a packet's head: 4
          Lens,     \* the lengths callers read and write
          Chars,    \* the lengths of the strings they read and write
          Offsets   \* the offsets they seek to

ASSUME LimitAssumption == Limit \in Nat /\ HeadSize \in Nat /\ 0 < HeadSize /\ HeadSize < Limit
ASSUME LensAssumption  == Lens \subseteq 0..(Limit - 1) /\ Chars \subseteq 0..(Limit - 1)
ASSUME OffsetsAssumption == Offsets \subseteq Int

UShort == 0..(Limit - 1)

VARIABLES
  fill,      \* Settings.Packets_Fill_Size
  size,      \* packet::size
  sizeMax,   \* packet::size_max
  pos,       \* packet::pos
  posSwitch, \* packet::pos_switch
  room,      \* the bytes allocated at raw
  faults     \* the accesses outside raw so far

(* History: what callers did that the code does not expect.                *)
VARIABLE odd

vars == <<fill, size, sizeMax, pos, posSwitch, room, faults, odd>>

Faults == {"write", "read", "over", "copy", "freed"}
Odd    == {"wrap", "string", "head", "clone", "assign"}

(* The room of a new packet.                                               *)
NewRoom == IF fill THEN Limit - 1 ELSE HeadSize

Init ==
  /\ fill \in BOOLEAN
  /\ size = HeadSize /\ pos = HeadSize /\ posSwitch = 0
  /\ sizeMax = (IF fill THEN Limit - 1 ELSE HeadSize) /\ room = NewRoom
  /\ faults = {} /\ odd = {}

---------------------------------------------------------------------------
Fault(f, bad) == faults' = IF bad THEN faults \cup {f} ELSE faults
Note(o, is)   == odd' = IF is THEN odd \cup {o} ELSE odd

(* seek: a new position, taken as a ushort, must be in the packet.         *)
Seek(base, offset) ==
  /\ LET p == (base + offset) % Limit
     IN  pos' = IF p < HeadSize \/ p > size THEN pos ELSE p
  /\ UNCHANGED <<fill, size, sizeMax, posSwitch, room, faults, odd>>

(* swap() goes back to the position that swap(pos_n) kept.                 *)
SwapBack ==
  /\ posSwitch >= HeadSize
  /\ pos' = posSwitch
  /\ UNCHANGED <<fill, size, sizeMax, posSwitch, room, faults, odd>>

SwapTo(n) ==
  /\ n <= size
  /\ posSwitch' = pos /\ pos' = n
  /\ UNCHANGED <<fill, size, sizeMax, room, faults, odd>>

(* pos is public, and handlers move it (C_LOGIN_ARBITER.cpp).              *)
Assign(n) ==
  /\ pos' = n
  /\ Note("assign", n > size)
  /\ UNCHANGED <<fill, size, sizeMax, posSwitch, room, faults>>

---------------------------------------------------------------------------
(* write_len makes room for len bytes more; the sum does not fit a ushort  *)
(* at the limit, and realloc to nothing frees the buffer.                  *)
WriteLen(len) ==
  LET total == size + len
  IN  /\ size' = total % Limit
      /\ \/ sizeMax < total /\ sizeMax' = total % Limit /\ room' = total % Limit
         \/ sizeMax >= total /\ UNCHANGED <<sizeMax, room>>

(* write puts len bytes at pos; pos then moves on by step.                 *)
WriteAndMove(len, step) ==
  /\ WriteLen(len)
  /\ pos' = (pos + step) % Limit
  /\ faults' = faults
       \cup (IF len > 0 /\ pos + len > room' THEN {"write"} ELSE {})
       \cup (IF room' = 0 /\ room # 0 THEN {"freed"} ELSE {})
  /\ UNCHANGED <<fill, posSwitch>>

(* Mutant: write does not call write_len.                                  *)
WriteInPlace(len) ==
  /\ pos' = (pos + len) % Limit
  /\ Fault("write", len > 0 /\ pos + len > room)
  /\ Note("wrap", size + len >= Limit)
  /\ UNCHANGED <<fill, size, sizeMax, room, posSwitch>>

Write(len) == WriteAndMove(len, len) /\ Note("wrap", size + len >= Limit)

(* write_C and write_S add the length of the string to pos twice: once in  *)
(* write and once more.                                                    *)
WriteString(len) == WriteAndMove(len, 2 * len) /\ Note("string", len > 0)

(* read returns 0 and does nothing when the packet ends before len bytes.  *)
Read(len) ==
  /\ pos + len <= size
  /\ pos' = (pos + len) % Limit
  /\ Fault("read", pos + len > room)
  /\ UNCHANGED <<fill, size, sizeMax, posSwitch, room, odd>>

(* read_1 to read_8 and read_F: the value is 0 if read leaves it alone.     *)
ReadValue(len) == Read(len) \/ (pos + len > size /\ UNCHANGED vars)

(* read_S and read_C go on to the first zero, wherever it is, which comes  *)
(* after so many units of two bytes, and move pos by n: the units, or the  *)
(* bytes they are in UTF-8.                                                *)
ReadString(n, units) ==
  /\ units <= n /\ n <= 3 * units
  /\ pos' = (pos + n) % Limit
  /\ Fault("over", pos + 2 * (units + 1) > room)
  /\ Note("string", pos + n > size \/ pos + 2 * (units + 1) > size)
  /\ UNCHANGED <<fill, size, sizeMax, posSwitch, room>>

---------------------------------------------------------------------------
(* Mutant: the new buffer has the size of the packet.                      *)
FullSizeUnfilled ==
  /\ sizeMax' = Limit - 1 /\ room' = size
  /\ Fault("copy", size > room)
  /\ UNCHANGED <<fill, size, pos, posSwitch, odd>>

(* full_size gives the buffer all the room there can be.                   *)
FullSize ==
  /\ sizeMax' = Limit - 1 /\ room' = Limit - 1
  /\ Fault("copy", size > room)
  /\ UNCHANGED <<fill, size, pos, posSwitch, odd>>

(* get_header: the size the head says, and a buffer of it, copied from the *)
(* old one; pos stays where it was.                                        *)
GetHeader(s) ==
  /\ size' = s /\ sizeMax' = s /\ room' = s
  /\ Fault("copy", HeadSize > room \/ s > room)
  /\ Note("head", TRUE)
  /\ UNCHANGED <<fill, pos, posSwitch>>

(* set_header writes the head, there being room for it or not.             *)
SetHeader ==
  /\ Fault("write", room < HeadSize)
  /\ UNCHANGED <<fill, size, sizeMax, pos, posSwitch, room, odd>>

(* clone gives the copy the room its original believes it has, and the     *)
(* size_max of a new packet.  The steps go on with the copy; those that go *)
(* on with the original are the ones without this step.                    *)
Clone ==
  /\ sizeMax' = (IF fill THEN Limit - 1 ELSE HeadSize)
  /\ room' = sizeMax
  /\ IF pos > size THEN pos' = posSwitch /\ posSwitch' = 0
                   ELSE UNCHANGED <<pos, posSwitch>>
  /\ faults' = faults \cup (IF size > room THEN {"copy"} ELSE {})
                       \cup (IF size > room' THEN {"write"} ELSE {})
                       \cup (IF room' = 0 THEN {"freed"} ELSE {})
  /\ Note("clone", sizeMax' # room')
  /\ UNCHANGED <<fill, size>>

---------------------------------------------------------------------------
Moves ==
  \/ \E base \in {0, pos, size}, offset \in Offsets : Seek(base, offset)
  \/ SwapBack
  \/ \E n \in UShort : SwapTo(n) \/ Assign(n)

Next ==
  /\ faults \cap {"write", "freed"} = {}     \* the heap is intact
  /\ \/ Moves
     \/ \E len \in Lens : Write(len) \/ ReadValue(len)
     \/ \E n \in Chars : WriteString(n) \/ \E units \in 0..n : ReadString(n, units)
     \/ \E s \in UShort : GetHeader(s)
     \/ FullSize \/ SetHeader \/ Clone

Spec == Init /\ [][Next]_vars

---------------------------------------------------------------------------
(* Every variable has its type. *)
TypeOK ==
  /\ fill \in BOOLEAN
  /\ size \in UShort /\ sizeMax \in UShort /\ pos \in UShort /\ posSwitch \in UShort
  /\ room \in UShort
  /\ faults \subseteq Faults /\ odd \subseteq Odd

(* The buffer is never smaller than what the packet says it holds, nor     *)
(* than the room the packet believes it has, whatever sizes are added,     *)
(* wrap or come from the network; but for a clone, which believes in more  *)
(* or in less than it has.                                                 *)
BufferHoldsPacket == "clone" \notin odd => size <= room /\ sizeMax <= room

(* Writes of fixed length, with seek and swap at will, stay inside the     *)
(* buffer.  A string, a size that wraps, a head that was received, a clone *)
(* or a handler that moves pos past the end must come before the first     *)
(* write outside.                                                          *)
WritesStayInside == faults \cap {"write", "freed"} # {} => odd # {}

(* read stays inside the buffer wherever handlers, strings or heads have   *)
(* put pos: its check is enough, as long as the packet is no clone with a  *)
(* wrong size_max.  read_S and read_C check nothing, and leave the buffer  *)
(* only after a string that is not all in the packet, its zero included.   *)
ReadsStayInside ==
  /\ "read" \in faults => "clone" \in odd
  /\ "over" \in faults => odd \cap {"string", "clone"} # {}

(* The copy into a new buffer reads past the old one only for a head that  *)
(* was received, whose size nobody compares with the buffer (get_header),  *)
(* or in a clone: full_size copies no more than there is.                  *)
CopiesStayInside == "copy" \in faults => odd \cap {"head", "clone"} # {}

(* A packet filled from its construction (Packets.Fill_Size) keeps the     *)
(* room for the longest packet through every write, read and seek, so that *)
(* a head received into it stays inside.                                   *)
FilledPacketTakesAnyHead == fill /\ odd = {} => room = Limit - 1

(* All four: who is to blame for an access outside the buffer. *)
AccessesStayInside ==
  WritesStayInside /\ ReadsStayInside /\ CopiesStayInside /\ FilledPacketTakesAnyHead
=============================================================================
