---------------------------- MODULE PacketProofs ----------------------------
(***************************************************************************)
(* Proofs about packets, for integers of any width and any lengths: when   *)
(* an access to the buffer can fall outside it; and about the texts in     *)
(* them, for texts of any length and any units: when a conversion leaves   *)
(* its memory, and what arrives.                                           *)
(***************************************************************************)
EXTENDS Packet, Text, NaturalsInduction, WellFoundedInduction, TLAPS

(* A packet that is no odd clone knows its buffer exactly.                 *)
Exact == "clone" \notin odd => size <= sizeMax /\ sizeMax = room

(* A packet nobody has treated oddly has its positions inside.             *)
Regular == odd = {} => pos <= size /\ posSwitch <= size /\ HeadSize <= size

IInv == TypeOK /\ Exact /\ Regular /\ WritesStayInside /\ ReadsStayInside
        /\ CopiesStayInside /\ FilledPacketTakesAnyHead

---------------------------------------------------------------------------
(* A sum taken as a ushort is one, and itself unless it wraps.             *)
LEMMA Wrapped ==
  ASSUME NEW a \in Int
  PROVE  /\ a % Limit \in UShort
         /\ a \in UShort => a % Limit = a
<1>1. Limit \in Nat /\ Limit > 0
  BY LimitAssumption
<1>2. QED
  BY <1>1, LimitAssumption DEF UShort

LEMMA InitIInv == Init => IInv
BY LimitAssumption DEF Init, NewRoom, IInv, TypeOK, Exact, Regular, WritesStayInside,
   ReadsStayInside, CopiesStayInside, FilledPacketTakesAnyHead, UShort, Faults, Odd

(* Moving the position. *)
LEMMA MovesStep ==
  ASSUME IInv, Moves
  PROVE  IInv'
<1> USE DEF IInv, TypeOK, Exact, Regular, WritesStayInside, ReadsStayInside, CopiesStayInside,
            FilledPacketTakesAnyHead
<1>1. ASSUME NEW base \in {0, pos, size}, NEW offset \in Offsets, Seek(base, offset)
      PROVE  IInv'
  <2>1. base + offset \in Int
    BY OffsetsAssumption, LimitAssumption DEF UShort
  <2>2. (base + offset) % Limit \in UShort
    BY <2>1, Wrapped
  <2>3. pos' = pos \/ (pos' \in UShort /\ pos' <= size)
    BY <1>1, <2>2, LimitAssumption DEF Seek, UShort
  <2>4. QED
    BY <1>1, <2>3, LimitAssumption DEF Seek, UShort
<1>2. ASSUME SwapBack PROVE IInv'
  BY <1>2 DEF SwapBack
<1>3. ASSUME NEW n \in UShort, SwapTo(n) PROVE IInv'
  BY <1>3 DEF SwapTo
<1>4. ASSUME NEW n \in UShort, Assign(n) PROVE IInv'
  BY <1>4, LimitAssumption DEF Assign, Note, Odd, UShort
<1>5. QED
  BY <1>1, <1>2, <1>3, <1>4 DEF Moves

(* What write_len and write do, whatever pos becomes. *)
LEMMA WriteFacts ==
  ASSUME IInv, NEW len \in UShort, NEW step \in Nat, WriteAndMove(len, step)
  PROVE  /\ size' \in UShort /\ sizeMax' \in UShort /\ room' \in UShort /\ pos' \in UShort
         /\ faults' \subseteq Faults /\ faults' \subseteq faults \cup {"write", "freed"}
         /\ fill' = fill /\ posSwitch' = posSwitch
         /\ "clone" \notin odd => size' <= sizeMax' /\ sizeMax' = room'
<1> USE DEF IInv, TypeOK, Exact
<1>1. size + len \in Int /\ pos + step \in Int
  BY LimitAssumption DEF UShort
<1>2. (size + len) % Limit \in UShort /\ (pos + step) % Limit \in UShort
  BY <1>1, Wrapped
<1>3. sizeMax >= size + len => (size + len) % Limit = size + len
  BY <1>1, Wrapped, LimitAssumption DEF UShort
<1>4. QED
  BY <1>2, <1>3, LimitAssumption DEF WriteAndMove, WriteLen, UShort, Faults

LEMMA WriteStep ==
  ASSUME IInv, faults \cap {"write", "freed"} = {}, NEW len \in Lens, Write(len)
  PROVE  IInv'
<1>1. len \in UShort /\ len \in Nat
  BY LensAssumption, LimitAssumption DEF UShort
<1>2. odd' = IF size + len >= Limit THEN odd \cup {"wrap"} ELSE odd
  BY DEF Write, Note
<1>3. WriteAndMove(len, len)
  BY DEF Write
<1>4. TypeOK' /\ Exact' /\ ReadsStayInside' /\ CopiesStayInside'
  BY <1>1, <1>2, <1>3, WriteFacts DEF IInv, TypeOK, Exact, ReadsStayInside, CopiesStayInside, Odd
<1>5. ASSUME odd' = {}
      PROVE  /\ size' = size + len /\ pos' = pos + len /\ faults' = faults
             /\ odd = {} /\ room' >= room
  <2>1. odd = {} /\ size + len < Limit
    BY <1>1, <1>2, <1>5, LimitAssumption DEF IInv, TypeOK, UShort
  <2>2. pos <= size /\ size <= sizeMax /\ sizeMax = room /\ HeadSize <= size
    BY <2>1 DEF IInv, Regular, Exact
  <2>3. size + len \in UShort /\ pos + len \in UShort
    BY <1>1, <2>1, <2>2, LimitAssumption DEF IInv, TypeOK, UShort
  <2>4. (size + len) % Limit = size + len /\ (pos + len) % Limit = pos + len
    BY <2>3, Wrapped, LimitAssumption DEF UShort
  <2>5. size' = size + len /\ pos' = pos + len /\ room' >= size + len /\ room' >= room
    BY <1>1, <1>3, <2>2, <2>4, LimitAssumption
    DEF WriteAndMove, WriteLen, IInv, TypeOK, UShort
  <2>6. room' # 0 /\ ~(pos + len > room')
    <3>1. room' \in Int /\ size \in Int /\ pos \in Int /\ HeadSize \in Int /\ 0 < HeadSize /\ len >= 0
      BY <1>1, <1>4, LimitAssumption DEF IInv, TypeOK, UShort
    <3>2. QED
      BY <1>1, <3>1, <2>2, <2>5
  <2>7. QED
    BY <1>3, <2>1, <2>5, <2>6 DEF WriteAndMove
<1>6. Regular'
  BY <1>1, <1>3, <1>5, LimitAssumption DEF Regular, IInv, WriteAndMove, TypeOK, UShort
<1>7. WritesStayInside'
  BY <1>5 DEF WritesStayInside
<1>8. FilledPacketTakesAnyHead'
  BY <1>3, <1>4, <1>5, LimitAssumption
  DEF FilledPacketTakesAnyHead, IInv, WriteAndMove, TypeOK, UShort
<1>9. QED
  BY <1>4, <1>6, <1>7, <1>8 DEF IInv

LEMMA WriteStringStep ==
  ASSUME IInv, NEW n \in Chars, WriteString(n)
  PROVE  IInv'
<1>1. n \in UShort /\ 2 * n \in Nat
  BY LensAssumption, LimitAssumption DEF UShort
<1>2. odd' = IF n > 0 THEN odd \cup {"string"} ELSE odd
  BY DEF WriteString, Note
<1>3. WriteAndMove(n, 2 * n)
  BY DEF WriteString
<1>4. TypeOK' /\ Exact' /\ ReadsStayInside' /\ CopiesStayInside'
  BY <1>1, <1>2, <1>3, WriteFacts DEF IInv, TypeOK, Exact, ReadsStayInside, CopiesStayInside, Odd
<1>5. CASE n > 0
  BY <1>2, <1>4, <1>5 DEF IInv, Regular, WritesStayInside, FilledPacketTakesAnyHead
<1>6. CASE n = 0
  <2>1. size % Limit = size /\ pos % Limit = pos
    BY Wrapped, LimitAssumption DEF IInv, TypeOK, UShort
  <2>2. size + n = size /\ pos + 2 * n = pos /\ ~(n > 0)
    BY <1>6, LimitAssumption DEF IInv, TypeOK, UShort
  <2>3. size' = size /\ pos' = pos /\ odd' = odd
    BY <1>2, <1>3, <2>1, <2>2 DEF WriteAndMove, WriteLen
  <2>4. odd = {} => room' = room
    BY <1>3, <2>2, LimitAssumption DEF WriteAndMove, WriteLen, IInv, Exact, TypeOK, UShort
  <2>5. odd = {} => faults' = faults
    BY <1>3, <2>2, <2>4 DEF WriteAndMove
  <2>6. QED
    BY <1>3, <1>4, <2>3, <2>4, <2>5
    DEF WriteAndMove, IInv, Regular, WritesStayInside, FilledPacketTakesAnyHead
<1>7. QED
  BY <1>1, <1>5, <1>6, LimitAssumption DEF UShort

(* Reading. *)
LEMMA ReadStep ==
  ASSUME IInv, NEW len \in Lens, Read(len)
  PROVE  IInv'
<1>1. len \in Nat
  BY LensAssumption, LimitAssumption DEF UShort
<1>2. pos + len \in UShort /\ pos + len <= size
  BY <1>1, LimitAssumption DEF Read, IInv, TypeOK, UShort
<1>3. pos' = pos + len
  BY <1>2, Wrapped, LimitAssumption DEF Read, UShort
<1>4. "clone" \notin odd => faults' = faults
  BY <1>2, LimitAssumption DEF Read, Fault, IInv, Exact, TypeOK, UShort
<1>5. faults' \subseteq faults \cup {"read"}
  BY DEF Read, Fault
<1>6. TypeOK'
  BY <1>2, <1>3, <1>5 DEF Read, IInv, TypeOK, Faults
<1>7. WritesStayInside' /\ ReadsStayInside' /\ CopiesStayInside'
  BY <1>4, <1>5 DEF Read, IInv, WritesStayInside, ReadsStayInside, CopiesStayInside
<1>8. QED
  BY <1>2, <1>3, <1>6, <1>7 DEF Read, IInv, Exact, Regular, FilledPacketTakesAnyHead

LEMMA ReadStringStep ==
  ASSUME IInv, NEW n \in Chars, NEW units \in 0..n, ReadString(n, units)
  PROVE  IInv'
<1>1. n \in Nat /\ units \in Nat /\ pos \in Nat /\ size \in Nat /\ room \in Nat
  BY LensAssumption, LimitAssumption DEF IInv, TypeOK, UShort
<1>2. pos' \in UShort
  BY <1>1, Wrapped DEF ReadString
<1>3. DEFINE last == pos + 2 * (units + 1)
<1>4. last \in Nat
  BY <1>1
<1>5. /\ pos + n > size \/ last > size => odd' = odd \cup {"string"}
      /\ ~(pos + n > size \/ last > size) => odd' = odd
      /\ last > room => faults' = faults \cup {"over"}
      /\ ~(last > room) => faults' = faults
  BY DEF ReadString, Note, Fault
<1>6. odd' = {} => odd = {} /\ pos' <= size
  <2>1. CASE pos + n > size
    BY <1>5, <2>1
  <2>2. CASE pos + n <= size
    <3>1. pos + n \in UShort
      BY <1>1, <2>2, LimitAssumption DEF IInv, TypeOK, UShort
    <3>2. pos' = pos + n
      BY <3>1, Wrapped, LimitAssumption DEF ReadString, UShort
    <3>3. QED
      BY <2>2, <3>2, <1>5
  <2>3. QED
    BY <1>1, <2>1, <2>2
<1>7. odd' \subseteq odd \cup {"string"} /\ odd \subseteq odd'
  BY <1>5
<1>8. faults' \subseteq faults \cup {"over"}
  BY <1>5
<1>9. ASSUME "over" \in faults', "clone" \notin odd' PROVE "string" \in odd'
  <2>1. size <= room
    BY <1>1, <1>7, <1>9 DEF IInv, Exact
  <2>2. CASE last > room
    <3>1. last > size
      BY <1>1, <1>4, <2>1, <2>2
    <3>2. QED
      BY <1>5, <3>1
  <2>3. CASE ~(last > room)
    BY <1>5, <1>7, <1>9, <2>3 DEF IInv, ReadsStayInside
  <2>4. QED
    BY <2>2, <2>3
<1>10. ReadsStayInside'
  BY <1>7, <1>8, <1>9 DEF IInv, ReadsStayInside
<1>11. TypeOK'
  BY <1>2, <1>7, <1>8 DEF ReadString, IInv, TypeOK, Odd, Faults
<1>12. WritesStayInside' /\ CopiesStayInside'
  BY <1>7, <1>8 DEF IInv, WritesStayInside, CopiesStayInside
<1>13. Exact' /\ Regular' /\ FilledPacketTakesAnyHead'
  BY <1>6, <1>7 DEF ReadString, IInv, Exact, Regular, FilledPacketTakesAnyHead
<1>14. QED
  BY <1>10, <1>11, <1>12, <1>13 DEF IInv

---------------------------------------------------------------------------
(* The steps that replace the buffer. *)
LEMMA BufferStep ==
  ASSUME IInv, FullSize \/ SetHeader \/ Clone \/ \E s \in UShort : GetHeader(s)
  PROVE  IInv'
<1> USE DEF IInv, TypeOK, Exact, Regular, WritesStayInside, ReadsStayInside, CopiesStayInside,
            FilledPacketTakesAnyHead, Fault, Note, Faults, Odd, UShort
<1>1. CASE FullSize
  BY <1>1, LimitAssumption DEF FullSize
<1>2. CASE SetHeader
  BY <1>2, LimitAssumption DEF SetHeader
<1>3. ASSUME NEW s \in UShort, GetHeader(s) PROVE IInv'
  BY <1>3 DEF GetHeader
<1>4. CASE Clone
  <2>1. sizeMax' \in UShort /\ room' \in UShort /\ size' \in UShort
    BY <1>4, LimitAssumption DEF Clone
  <2>2. pos' \in UShort /\ posSwitch' \in UShort
    BY <1>4, LimitAssumption DEF Clone
  <2>3. odd' = {} => odd = {} /\ faults' = faults /\ pos' = pos /\ posSwitch' = posSwitch
    BY <1>4, LimitAssumption DEF Clone
  <2>4. /\ odd \subseteq odd' /\ odd' \subseteq odd \cup {"clone"}
        /\ faults' \subseteq faults \cup {"copy", "write", "freed"}
    BY <1>4 DEF Clone
  <2>5. Exact'
    BY <1>4 DEF Clone
  <2>6. WritesStayInside' /\ ReadsStayInside'
    BY <2>3, <2>4
  <2>7. FilledPacketTakesAnyHead'
    BY <1>4, <2>3 DEF Clone
  <2>8. Regular'
    BY <1>4, <2>3 DEF Clone
  <2>9. TypeOK'
    BY <1>4, <2>1, <2>2, <2>4 DEF Clone
  <2>10. CopiesStayInside'
    <3>1. "copy" \in faults' /\ "clone" \notin odd => "copy" \in faults
      BY <1>4, LimitAssumption DEF Clone
    <3>2. QED
      BY <2>4, <3>1
  <2>11. QED
    BY <2>5, <2>6, <2>7, <2>8, <2>9, <2>10
<1>5. QED
  BY <1>1, <1>2, <1>3, <1>4

---------------------------------------------------------------------------
THEOREM PacketInv == Spec => []IInv
<1>1. IInv /\ [Next]_vars => IInv'
  <2> SUFFICES ASSUME IInv, [Next]_vars PROVE IInv'
    OBVIOUS
  <2>1. CASE UNCHANGED vars
    BY <2>1 DEF vars, IInv, TypeOK, Exact, Regular, WritesStayInside, ReadsStayInside, CopiesStayInside,
       FilledPacketTakesAnyHead
  <2>2. CASE Next
    BY <2>1, <2>2, MovesStep, WriteStep, WriteStringStep, ReadStep, ReadStringStep, BufferStep
    DEF Next, ReadValue
  <2>3. QED BY <2>1, <2>2
<1>2. QED
  BY InitIInv, <1>1, PTL DEF Spec

(* packet::write_len, resize and get_header keep the buffer as large as    *)
(* the packet says.                                                        *)
THEOREM BufferHolds == Spec => []BufferHoldsPacket
<1>1. IInv => BufferHoldsPacket
  BY LimitAssumption DEF IInv, TypeOK, Exact, BufferHoldsPacket, UShort
<1>2. QED
  BY <1>1, PacketInv, PTL

(* packet::write stays inside the buffer of a packet treated regularly,    *)
(* packet::read wherever pos is, read_S and read_C unless a string is not  *)
(* all in the packet, the copy of resize unless a head was received; and a *)
(* filled packet keeps the room for any head that packet::get_header       *)
(* finds.  Clones are excepted.                                            *)
THEOREM AccessesHold == Spec => []AccessesStayInside
<1>1. IInv => AccessesStayInside
  BY DEF IInv, AccessesStayInside
<1>2. QED
  BY <1>1, PacketInv, PTL

---------------------------------------------------------------------------
(* Texts.                                                                  *)

(* The set is all of Nat: induction, without an operator to do it for.     *)
Less == OpToRel(<, Nat)

LEMMA SetInduction ==
  ASSUME NEW S, 0 \in S, \A m \in Nat : m \in S => m + 1 \in S
  PROVE  Nat \subseteq S
<1> SUFFICES ASSUME Nat \ S # {} PROVE FALSE
  OBVIOUS
<1>1. IsWellFoundedOn(Less, Nat)
  BY NatLessThanWellFounded DEF Less
<1>2. \A x, y \in Nat : <<x, y>> \in Less <=> x < y
  BY DEF Less, OpToRel
<1>3. PICK x \in Nat \ S : \A y \in Nat \ S : ~ (<<y, x>> \in Less)
  BY <1>1, WFMin
<1>4. x - 1 \in Nat /\ x - 1 < x /\ x - 1 + 1 = x
  BY <1>3
<1>5. x - 1 \notin S
  BY <1>3, <1>4
<1>6. QED
  BY <1>2, <1>3, <1>4, <1>5

LEMMA LeastOf ==
  ASSUME NEW S, S \subseteq Nat, S # {}
  PROVE  \E x \in S : \A y \in S : x <= y
<1>1. IsWellFoundedOn(Less, Nat)
  BY NatLessThanWellFounded DEF Less
<1>2. \A x, y \in Nat : <<x, y>> \in Less <=> x < y
  BY DEF Less, OpToRel
<1>3. PICK x \in S : \A y \in S : ~ (<<y, x>> \in Less)
  BY <1>1, WFMin
<1>4. ASSUME NEW y \in S PROVE x <= y
  <2>1. x \in Nat /\ y \in Nat /\ ~ (<<y, x>> \in Less)
    BY <1>3
  <2>2. ~(y < x)
    BY <1>2, <2>1
  <2>3. QED BY <2>1, <2>2
<1>5. QED
  BY <1>4

---------------------------------------------------------------------------
(* The length of a text: up to its first zero.                             *)
LEMMA StrlenIs ==
  ASSUME mem \in Seq(Unit), Terminated
  PROVE  /\ strlen \in Nat /\ strlen + 1 \in 1..Len(mem) /\ mem[strlen + 1] = 0
         /\ \A j \in 1..strlen : mem[j] # 0 /\ mem[j] \in Unit \ {0}
         /\ Source \in Seq(Unit \ {0}) /\ Len(Source) = strlen
         /\ \A j \in 1..strlen : Source[j] = mem[j]
<1> DEFINE first(k) == mem[k] = 0 /\ \A j \in 1..(k - 1) : mem[j] # 0
           S == {k \in DOMAIN mem : mem[k] = 0}
<1>1. DOMAIN mem = 1..Len(mem) /\ Len(mem) \in Nat /\ \A j \in 1..Len(mem) : mem[j] \in Unit
  OBVIOUS
<1>2. S \subseteq Nat /\ S # {}
  BY <1>1 DEF Terminated
<1>3. PICK k \in S : \A y \in S : k <= y
  BY <1>2, LeastOf
<1>4. k \in DOMAIN mem /\ first(k)
  <2>1. \A j \in 1..(k - 1) : j \in DOMAIN mem /\ ~(k <= j)
    BY <1>1, <1>3
  <2>2. QED BY <1>3, <2>1
<1> DEFINE c == CHOOSE x \in DOMAIN mem : first(x)
<1>5. c \in DOMAIN mem /\ first(c)
  BY <1>4
<1>6. strlen = c - 1
  BY DEF strlen
<1> HIDE DEF c
<1>7. strlen \in Nat /\ strlen + 1 \in 1..Len(mem) /\ mem[strlen + 1] = 0 /\ strlen + 1 = c
  BY <1>1, <1>5, <1>6
<1>8. ASSUME NEW j \in 1..strlen PROVE mem[j] # 0 /\ mem[j] \in Unit \ {0}
  <2>1. j \in 1..(c - 1) /\ j \in 1..Len(mem)
    BY <1>1, <1>6, <1>7
  <2>2. mem[j] # 0 /\ mem[j] \in Unit
    BY <1>1, <1>5, <2>1
  <2> HIDE DEF first, S
  <2>3. QED BY <2>2 DEF Unit
<1>9. Source = [j \in 1..strlen |-> mem[j]]
  <2>1. Source = SubSeq(mem, 1, strlen)
    BY DEF Source
  <2> HIDE DEF S
  <2>2. QED BY <1>1, <1>7, <2>1
<1> DEFINE n == strlen
<1>10. n \in Nat /\ Source = [j \in 1..n |-> mem[j]] /\ \A j \in 1..n : mem[j] \in Unit \ {0}
  BY <1>7, <1>8, <1>9
<1> HIDE DEF n
<1>11. /\ Source \in Seq(Unit \ {0}) /\ Len(Source) = n
       /\ \A j \in 1..n : Source[j] = mem[j]
  BY <1>10
<1>12. QED
  BY <1>7, <1>8, <1>11 DEF n

---------------------------------------------------------------------------
(* The kinds of first bytes.                                               *)
LEMMA KindsOfBytes ==
  ASSUME NEW b, b[1] \in Nat
  PROVE  /\ b[1] < 128 => utf8_to_unicode(b) = b[1] /\ Follow(b[1]) = 0
         /\ 192 <= b[1] /\ b[1] < 224 =>
              utf8_to_unicode(b) = (b[1] % 32) * 64 + (b[2] % 64) /\ Follow(b[1]) = 1
         /\ 224 <= b[1] /\ b[1] < 240 =>
              /\ utf8_to_unicode(b) = (b[1] % 16) * 4096 + (b[2] % 64) * 64 + (b[3] % 64)
              /\ Follow(b[1]) = 2
         /\ 240 <= b[1] /\ b[1] < 248 =>
              /\ utf8_to_unicode(b) = (b[2] % 16) * 4096 + (b[3] % 64) * 64 + (b[4] % 64)
              /\ Follow(b[1]) = 3
         /\ 128 <= b[1] /\ (b[1] < 192 \/ 248 <= b[1]) =>
              utf8_to_unicode(b) = 65535 /\ Follow(b[1]) = 0
BY DEF utf8_to_unicode, Follow

(* A character in UTF-8, and back.                                         *)
LEMMA Utf8Is ==
  ASSUME NEW c \in Unit
  PROVE  LET u == unicode_to_utf8(c)
         IN  /\ u \in Seq(Unit) /\ Len(u) \in 1..3 /\ Len(u) = 1 + Follow(u[1])
             /\ c < 128 <=> Len(u) = 1
             /\ c < 128 => u = <<c>>
             /\ c # 0 => u[1] # 0
             /\ utf8_to_unicode(u) = c
<1> DEFINE u == unicode_to_utf8(c)
<1>1. c \in Nat /\ c < 65536
  BY DEF Unit
<1>2. CASE c < 128
  <2>1. u = <<c>> /\ u \in Seq(Unit) /\ Len(u) = 1 /\ u[1] = c
    BY <1>1, <1>2 DEF unicode_to_utf8
  <2> HIDE DEF u
  <2>2. utf8_to_unicode(u) = c /\ Follow(u[1]) = 0
    BY <1>1, <1>2, <2>1, KindsOfBytes
  <2>3. QED BY <1>1, <1>2, <2>1, <2>2 DEF u
<1>3. CASE 128 <= c /\ c < 2048
  <2> DEFINE h == c \div 64
             l == c % 64
  <2>1. h \in 2..31 /\ l \in 0..63 /\ c = h * 64 + l
    BY <1>1, <1>3
  <2>2. u = <<192 + h, 128 + l>>
    BY <1>3, <1>1 DEF unicode_to_utf8
  <2> HIDE DEF h, l
  <2>3. (192 + h) % 32 = h /\ (128 + l) % 64 = l
    BY <2>1
  <2>4. u \in Seq(Unit) /\ Len(u) = 2 /\ u[1] = 192 + h /\ u[2] = 128 + l
    <3>1. 192 + h \in Unit /\ 128 + l \in Unit
      BY <2>1 DEF Unit
    <3> HIDE DEF u
    <3>2. QED BY <2>2, <3>1
  <2>5. 192 + h \in Nat /\ 192 <= 192 + h /\ 192 + h < 224
    BY <2>1
  <2> HIDE DEF u
  <2>6. Follow(u[1]) = 1 /\ utf8_to_unicode(u) = (u[1] % 32) * 64 + (u[2] % 64)
    BY <2>4, <2>5, KindsOfBytes
  <2>7. utf8_to_unicode(u) = c
    BY <2>1, <2>3, <2>4, <2>6
  <2>8. u[1] # 0 /\ ~(c < 128)
    BY <1>1, <1>3, <2>1, <2>4
  <2>9. QED BY <2>4, <2>6, <2>7, <2>8 DEF u
<1>4. CASE 2048 <= c
  <2> DEFINE h == c \div 4096
             m == (c \div 64) % 64
             l == c % 64
  <2>1. h \in 0..15 /\ m \in 0..63 /\ l \in 0..63 /\ c = h * 4096 + m * 64 + l
    BY <1>1, <1>4
  <2>2. u = <<224 + h, 128 + m, 128 + l>>
    BY <1>4, <1>1 DEF unicode_to_utf8
  <2> HIDE DEF h, m, l
  <2>3. (224 + h) % 16 = h /\ (128 + m) % 64 = m /\ (128 + l) % 64 = l
    BY <2>1
  <2>4. u \in Seq(Unit) /\ Len(u) = 3 /\ u[1] = 224 + h /\ u[2] = 128 + m /\ u[3] = 128 + l
    <3>1. 224 + h \in Unit /\ 128 + l \in Unit /\ 128 + m \in Unit
      BY <2>1 DEF Unit
    <3> HIDE DEF u
    <3>2. QED BY <2>2, <3>1
  <2>5. 224 + h \in Nat /\ 224 <= 224 + h /\ 224 + h < 240
    BY <2>1
  <2> HIDE DEF u
  <2>6. Follow(u[1]) = 2
        /\ utf8_to_unicode(u) = (u[1] % 16) * 4096 + (u[2] % 64) * 64 + (u[3] % 64)
    BY <2>4, <2>5, KindsOfBytes
  <2>7. utf8_to_unicode(u) = c
    BY <2>1, <2>3, <2>4, <2>6
  <2>8. u[1] # 0 /\ ~(c < 128)
    BY <1>1, <1>4, <2>1, <2>4
  <2>9. QED BY <2>4, <2>6, <2>7, <2>8 DEF u
<1>5. QED
  BY <1>1, <1>2, <1>3, <1>4

(* The same, a fact at a time.                                             *)
LEMMA CharacterIs ==
  ASSUME NEW c \in Unit
  PROVE  /\ unicode_to_utf8(c) \in Seq(Unit)
         /\ Len(unicode_to_utf8(c)) \in Nat /\ Len(unicode_to_utf8(c)) >= 1
         /\ Len(unicode_to_utf8(c)) = 1 + Follow(unicode_to_utf8(c)[1])
         /\ c < 128 => Len(unicode_to_utf8(c)) = 1
         /\ ~(c < 128) => Len(unicode_to_utf8(c)) > 1
         /\ c # 0 => unicode_to_utf8(c)[1] # 0
         /\ utf8_to_unicode(unicode_to_utf8(c)) = c
<1> DEFINE u == unicode_to_utf8(c)
<1>1. /\ u \in Seq(Unit) /\ Len(u) \in 1..3 /\ Len(u) = 1 + Follow(u[1])
      /\ c < 128 <=> Len(u) = 1
      /\ c # 0 => u[1] # 0
      /\ utf8_to_unicode(u) = c
  BY Utf8Is
<1> HIDE DEF u
<1>2. Len(u) \in Nat /\ Len(u) >= 1 /\ (~(c < 128) => Len(u) > 1) /\ (c < 128 => Len(u) = 1)
  BY <1>1
<1>3. QED
  BY <1>1, <1>2 DEF u

LEMMA FollowIs == \A b \in Nat : Follow(b) \in 0..3
BY DEF Follow

LEMMA Digits ==
  \A m \in Nat : /\ m % 64 \in Nat /\ m % 64 < 64 /\ m % 32 \in Nat /\ m % 32 < 32
                /\ m % 16 \in Nat /\ m % 16 < 16
OBVIOUS

(* A unit is what any bytes become.                                        *)
LEMMA UnitsAreUnits ==
  ASSUME NEW b \in Seq(Unit), Len(b) >= 1, Len(b) = 1 + Follow(b[1])
  PROVE  utf8_to_unicode(b) \in Unit
<1>1. Len(b) \in Nat /\ \A i \in 1..Len(b) : b[i] \in Nat /\ b[i] < 65536
  BY DEF Unit
<1>2. b[1] \in Nat /\ b[1] < 65536 /\ Follow(b[1]) \in 0..3 /\ b[1] \in Unit
  BY <1>1, FollowIs
<1> DEFINE two == (b[1] % 32) * 64 + (b[2] % 64)
           three == (b[1] % 16) * 4096 + (b[2] % 64) * 64 + (b[3] % 64)
           four == (b[2] % 16) * 4096 + (b[3] % 64) * 64 + (b[4] % 64)
<1>3. utf8_to_unicode(b) =
        IF b[1] < 128 THEN b[1] ELSE IF Follow(b[1]) = 1 THEN two
        ELSE IF Follow(b[1]) = 2 THEN three ELSE IF Follow(b[1]) = 3 THEN four ELSE 65535
  BY SMT DEF utf8_to_unicode
<1>4. 65535 \in Unit
  BY DEF Unit
<1>5. ASSUME Follow(b[1]) = 1 PROVE two \in Unit
  <2>1. b[2] \in Nat
    BY <1>1, <1>5
  <2>2. b[1] % 32 \in Nat /\ b[1] % 32 < 32 /\ b[2] % 64 \in Nat /\ b[2] % 64 < 64
    BY <1>2, <2>1, Digits
  <2> DEFINE x == b[1] % 32
             y == b[2] % 64
  <2>3. x \in Nat /\ y \in Nat /\ x < 32 /\ y < 64
    BY <2>2
  <2> HIDE DEF x, y
  <2>4. x * 64 + y \in Unit
    BY <2>3 DEF Unit
  <2>5. QED BY <2>4 DEF x, y
<1>6. ASSUME Follow(b[1]) = 2 PROVE three \in Unit
  <2>1. b[2] \in Nat /\ b[3] \in Nat
    BY <1>1, <1>6
  <2>2. /\ b[1] % 16 \in Nat /\ b[1] % 16 < 16 /\ b[2] % 64 \in Nat /\ b[2] % 64 < 64
        /\ b[3] % 64 \in Nat /\ b[3] % 64 < 64
    BY <1>2, <2>1, Digits, SMTT(20)
  <2> DEFINE x == b[1] % 16
             y == b[2] % 64
             z == b[3] % 64
  <2>3. x \in Nat /\ y \in Nat /\ z \in Nat /\ x < 16 /\ y < 64 /\ z < 64
    BY <2>2
  <2> HIDE DEF x, y, z
  <2>4. x * 4096 + y * 64 + z \in Unit
    BY <2>3 DEF Unit
  <2>5. QED BY <2>4 DEF x, y, z
<1>7. ASSUME Follow(b[1]) = 3 PROVE four \in Unit
  <2>1. b[2] \in Nat /\ b[3] \in Nat /\ b[4] \in Nat
    BY <1>1, <1>7
  <2>2. /\ b[2] % 16 \in Nat /\ b[2] % 16 < 16 /\ b[3] % 64 \in Nat /\ b[3] % 64 < 64
        /\ b[4] % 64 \in Nat /\ b[4] % 64 < 64
    BY <2>1, Digits
  <2> DEFINE x == b[2] % 16
             y == b[3] % 64
             z == b[4] % 64
  <2>3. x \in Nat /\ y \in Nat /\ z \in Nat /\ x < 16 /\ y < 64 /\ z < 64
    BY <2>2
  <2> HIDE DEF x, y, z
  <2>4. x * 4096 + y * 64 + z \in Unit
    BY <2>3 DEF Unit
  <2>5. QED BY <2>4 DEF x, y, z
<1> HIDE DEF two, three, four
<1>8. QED
  BY <1>2, <1>3, <1>4, <1>5, <1>6, <1>7

---------------------------------------------------------------------------
(* Encoding, a unit at a time.                                             *)
Beginning(t, n) == Encoding(SubSeq(t, 1, n))

Adds(f, t, m) ==
  f = [n \in 0..m |-> IF n = 0 THEN <<>> ELSE f[n - 1] \o unicode_to_utf8(t[n])]

LEMMA AddsExists == \A t : \A m \in Nat : \E f : Adds(f, t, m)
<1> SUFFICES ASSUME NEW t PROVE \A m \in Nat : \E f : Adds(f, t, m)
  OBVIOUS
<1> DEFINE S == {m \in Nat : \E f : Adds(f, t, m)}
<1>1. 0 \in S
  <2> DEFINE f == [n \in 0..0 |-> <<>>]
  <2>1. Adds(f, t, 0)
    BY DEF Adds
  <2>2. QED BY <2>1
<1>2. ASSUME NEW m \in Nat, m \in S PROVE m + 1 \in S
  <2>1. PICK f : Adds(f, t, m)
    BY <1>2
  <2> DEFINE g == [n \in 0..(m + 1) |->
                     IF n = m + 1 THEN f[m] \o unicode_to_utf8(t[m + 1]) ELSE f[n]]
             h == [n \in 0..(m + 1) |->
                     IF n = 0 THEN <<>> ELSE g[n - 1] \o unicode_to_utf8(t[n])]
  <2>2. f = [n \in 0..m |-> IF n = 0 THEN <<>> ELSE f[n - 1] \o unicode_to_utf8(t[n])]
    BY <2>1 DEF Adds
  <2>3. ASSUME NEW n \in 0..(m + 1) PROVE g[n] = h[n]
    <3>1. CASE n = 0
      BY <2>2, <3>1
    <3>2. CASE n = m + 1
      <4>1. n - 1 = m /\ n # 0 /\ m \in 0..(m + 1) /\ m # m + 1
        BY <3>2
      <4>2. g[n - 1] = f[m] /\ g[n] = f[m] \o unicode_to_utf8(t[m + 1])
        BY <3>2, <4>1
      <4>3. QED BY <3>2, <4>1, <4>2
    <3>3. CASE n # 0 /\ n # m + 1
      <4>1. n \in 0..m /\ n - 1 \in 0..(m + 1) /\ n - 1 # m + 1
        BY <3>3
      <4>2. g[n - 1] = f[n - 1] /\ g[n] = f[n]
        BY <3>3, <4>1
      <4>3. f[n] = f[n - 1] \o unicode_to_utf8(t[n])
        BY <2>2, <3>3, <4>1
      <4>4. QED BY <3>3, <4>2, <4>3
    <3>4. QED BY <3>1, <3>2, <3>3
  <2>4. g = h
    <3>1. DOMAIN g = 0..(m + 1) /\ DOMAIN h = 0..(m + 1)
      OBVIOUS
    <3>2. g = [n \in 0..(m + 1) |-> g[n]] /\ h = [n \in 0..(m + 1) |-> h[n]]
      OBVIOUS
    <3> HIDE DEF g, h
    <3>3. QED BY <2>3, <3>2
  <2>5. Adds(g, t, m + 1)
    BY <2>4 DEF Adds
  <2>6. QED BY <2>5
<1>3. Nat \subseteq S
  <2> HIDE DEF S
  <2>1. QED BY <1>1, <1>2, SetInduction
<1>4. QED
  BY <1>3

LEMMA EncodingIsLast ==
  ASSUME NEW t, Len(t) \in Nat
  PROVE  \E f : Adds(f, t, Len(t)) /\ Encoding(t) = f[Len(t)]
<1> DEFINE e[n \in 0..Len(t)] == IF n = 0 THEN <<>> ELSE e[n - 1] \o unicode_to_utf8(t[n])
<1>1. Encoding(t) = e[Len(t)]
  BY Zenon DEF Encoding
<1>2. \E f : f = [n \in 0..Len(t) |-> IF n = 0 THEN <<>> ELSE f[n - 1] \o unicode_to_utf8(t[n])]
  BY AddsExists DEF Adds
<1>3. e = [n \in 0..Len(t) |-> IF n = 0 THEN <<>> ELSE e[n - 1] \o unicode_to_utf8(t[n])]
  BY <1>2, Zenon
<1> HIDE DEF e
<1>4. QED
  BY <1>1, <1>3 DEF Adds

LEMMA AddsAgree ==
  ASSUME NEW f, NEW g, NEW s, NEW t, NEW m \in Nat, NEW k \in Nat, k <= m,
         Adds(f, t, m), Adds(g, s, k), \A n \in 1..k : s[n] = t[n]
  PROVE  \A n \in 0..k : g[n] = f[n]
<1> DEFINE S == {n \in Nat : n <= k => g[n] = f[n]}
<1>1. 0 \in S
  BY DEF Adds
<1>2. ASSUME NEW n \in Nat, n \in S PROVE n + 1 \in S
  <2> SUFFICES ASSUME n + 1 <= k PROVE g[n + 1] = f[n + 1]
    OBVIOUS
  <2>1. /\ n + 1 \in 0..k /\ n + 1 \in 0..m /\ n + 1 # 0 /\ (n + 1) - 1 = n
        /\ n + 1 \in 1..k /\ n <= k
    OBVIOUS
  <2>2. g[n + 1] = g[n] \o unicode_to_utf8(s[n + 1])
    BY <2>1 DEF Adds
  <2>3. f[n + 1] = f[n] \o unicode_to_utf8(t[n + 1])
    BY <2>1 DEF Adds
  <2>4. g[n] = f[n]
    BY <1>2, <2>1
  <2>5. s[n + 1] = t[n + 1]
    BY <2>1
  <2>6. QED BY <2>2, <2>3, <2>4, <2>5
<1>3. Nat \subseteq S
  <2> HIDE DEF S
  <2>1. QED BY <1>1, <1>2, SetInduction
<1>4. QED
  BY <1>3

(* What is known of the beginnings of a text.                              *)
LEMMA BeginningIs ==
  ASSUME NEW t \in Seq(Unit)
  PROVE  /\ Beginning(t, 0) = <<>> /\ Beginning(t, Len(t)) = Encoding(t)
         /\ \A n \in 0..Len(t) : Beginning(t, n) \in Seq(Unit)
         /\ \A n \in 1..Len(t) :
              Beginning(t, n) = Beginning(t, n - 1) \o unicode_to_utf8(t[n])
<1>1. Len(t) \in Nat
  OBVIOUS
<1>2. PICK f : Adds(f, t, Len(t))
  BY <1>1, AddsExists
<1>3. ASSUME NEW n \in 0..Len(t) PROVE Beginning(t, n) = f[n]
  <2> DEFINE s == SubSeq(t, 1, n)
  <2>1. Len(s) = n /\ n \in Nat /\ n <= Len(t) /\ \A i \in 1..n : s[i] = t[i]
    BY <1>1
  <2> HIDE DEF s
  <2>2. PICK g : Adds(g, s, Len(s)) /\ Encoding(s) = g[Len(s)]
    BY <2>1, EncodingIsLast
  <2>3. g[n] = f[n]
    BY <1>1, <1>2, <2>1, <2>2, AddsAgree
  <2>4. QED BY <2>1, <2>2, <2>3 DEF Beginning, s
<1>4. f[0] = <<>> /\ \A n \in 1..Len(t) : f[n] = f[n - 1] \o unicode_to_utf8(t[n])
  BY <1>1, <1>2 DEF Adds
<1>5. SubSeq(t, 1, Len(t)) = t
  OBVIOUS
<1>6. Encoding(t) = Beginning(t, Len(t))
  BY <1>5, Zenon DEF Beginning
<1> DEFINE S == {n \in Nat : n <= Len(t) => f[n] \in Seq(Unit)}
<1>7. 0 \in S
  <2>1. <<>> \in Seq(Unit)
    OBVIOUS
  <2>2. QED BY <1>4, <2>1
<1>8. ASSUME NEW n \in Nat, n \in S PROVE n + 1 \in S
  <2> SUFFICES ASSUME n + 1 <= Len(t) PROVE f[n + 1] \in Seq(Unit)
    OBVIOUS
  <2>1. n + 1 \in 1..Len(t) /\ (n + 1) - 1 = n /\ n <= Len(t)
    BY <1>1
  <2>2. f[n + 1] = f[n] \o unicode_to_utf8(t[n + 1])
    BY <1>4, <2>1
  <2>3. f[n] \in Seq(Unit) /\ t[n + 1] \in Unit
    BY <1>8, <2>1
  <2>4. unicode_to_utf8(t[n + 1]) \in Seq(Unit)
    BY <2>3, CharacterIs
  <2>5. QED BY <2>2, <2>3, <2>4
<1>9. Nat \subseteq S
  <2> HIDE DEF S
  <2>1. QED BY <1>7, <1>8, SetInduction
<1>10. \A n \in 0..Len(t) : f[n] \in Seq(Unit)
  BY <1>1, <1>9
<1>11. ASSUME NEW n \in 1..Len(t)
       PROVE  Beginning(t, n) = Beginning(t, n - 1) \o unicode_to_utf8(t[n])
  <2>1. n \in 0..Len(t) /\ n - 1 \in 0..Len(t)
    BY <1>1
  <2>2. QED BY <1>3, <1>4, <2>1
<1>12. 0 \in 0..Len(t) /\ Len(t) \in 0..Len(t)
  BY <1>1
<1>13. QED
  BY <1>3, <1>4, <1>6, <1>10, <1>11, <1>12

LEMMA Joined ==
  ASSUME NEW S, NEW s \in Seq(S), NEW r \in Seq(S)
  PROVE  /\ s \o r \in Seq(S) /\ Len(s \o r) = Len(s) + Len(r)
         /\ \A i \in 1..Len(s) : (s \o r)[i] = s[i]
         /\ \A i \in 1..Len(r) : (s \o r)[Len(s) + i] = r[i]
OBVIOUS

LEMMA BeginningGrows ==
  ASSUME NEW t \in Seq(Unit), NEW m \in 0..Len(t), NEW n \in m..Len(t)
  PROVE  /\ Len(Beginning(t, n)) >= Len(Beginning(t, m)) + (n - m)
         /\ \A i \in 1..Len(Beginning(t, m)) : Beginning(t, n)[i] = Beginning(t, m)[i]
<1> DEFINE B(k) == Beginning(t, k)
<1>1. Len(t) \in Nat /\ \A k \in 0..Len(t) : B(k) \in Seq(Unit) /\ Len(B(k)) \in Nat
  BY BeginningIs
<1>2. \A k \in 1..Len(t) : B(k) = B(k - 1) \o unicode_to_utf8(t[k])
  BY BeginningIs
<1> HIDE DEF B
<1> DEFINE S == {d \in Nat : m + d <= Len(t) =>
                   /\ Len(B(m + d)) >= Len(B(m)) + d
                   /\ \A i \in 1..Len(B(m)) : B(m + d)[i] = B(m)[i]}
<1>3. 0 \in S
  <2>1. m + 0 = m /\ Len(B(m)) \in Nat
    BY <1>1
  <2>2. QED BY <2>1
<1>4. ASSUME NEW d \in Nat, d \in S PROVE d + 1 \in S
  <2> SUFFICES ASSUME m + (d + 1) <= Len(t)
               PROVE  /\ Len(B(m + (d + 1))) >= Len(B(m)) + (d + 1)
                      /\ \A i \in 1..Len(B(m)) : B(m + (d + 1))[i] = B(m)[i]
    OBVIOUS
  <2> DEFINE k == m + (d + 1)
  <2>1. k \in 1..Len(t) /\ k - 1 = m + d /\ m + d \in 0..Len(t) /\ m + d <= Len(t)
    BY <1>1
  <2> HIDE DEF k
  <2>2. B(k) = B(m + d) \o unicode_to_utf8(t[k])
    BY <1>2, <2>1
  <2>3. t[k] \in Unit
    BY <2>1
  <2>4. unicode_to_utf8(t[k]) \in Seq(Unit) /\ Len(unicode_to_utf8(t[k])) >= 1
    BY <2>3, CharacterIs
  <2>5. B(m + d) \in Seq(Unit) /\ Len(B(m + d)) \in Nat /\ Len(B(m)) \in Nat
    BY <1>1, <2>1
  <2>6. /\ Len(B(k)) = Len(B(m + d)) + Len(unicode_to_utf8(t[k]))
        /\ \A i \in 1..Len(B(m + d)) : B(k)[i] = B(m + d)[i]
    BY <2>2, <2>4, <2>5, Joined
  <2>7. Len(B(m + d)) >= Len(B(m)) + d /\ \A i \in 1..Len(B(m)) : B(m + d)[i] = B(m)[i]
    BY <1>4, <2>1
  <2>8. Len(B(k)) >= Len(B(m)) + (d + 1)
    <3>1. Len(unicode_to_utf8(t[k])) \in Nat
      BY <2>4
    <3>2. QED BY <2>4, <2>5, <2>6, <2>7, <3>1
  <2>9. ASSUME NEW i \in 1..Len(B(m)) PROVE B(k)[i] = B(m)[i]
    <3>1. i \in 1..Len(B(m + d))
      BY <2>5, <2>7
    <3>2. QED BY <2>6, <2>7, <3>1
  <2>10. QED BY <2>8, <2>9 DEF k
<1>5. Nat \subseteq S
  <2> HIDE DEF S
  <2>1. QED BY <1>3, <1>4, SetInduction
<1>6. n - m \in Nat /\ m + (n - m) = n /\ n <= Len(t)
  BY <1>1
<1>7. /\ Len(B(n)) >= Len(B(m)) + (n - m)
      /\ \A i \in 1..Len(B(m)) : B(n)[i] = B(m)[i]
  BY <1>5, <1>6
<1>8. QED
  BY <1>7 DEF B

LEMMA BeginningOfAscii ==
  ASSUME NEW t \in Seq(Unit), NEW n \in 0..Len(t)
  PROVE  /\ Len(Beginning(t, n)) >= n
         /\ (\A i \in 1..n : t[i] < 128) => Len(Beginning(t, n)) = n
         /\ (\E i \in 1..n : ~(t[i] < 128)) => Len(Beginning(t, n)) > n
<1> DEFINE B(k) == Beginning(t, k)
<1>1. Len(t) \in Nat /\ \A k \in 0..Len(t) : B(k) \in Seq(Unit) /\ Len(B(k)) \in Nat
  BY BeginningIs
<1>2. B(0) = <<>> /\ \A k \in 1..Len(t) : B(k) = B(k - 1) \o unicode_to_utf8(t[k])
  BY BeginningIs
<1>3. \A k \in 1..Len(t) :
        /\ Len(unicode_to_utf8(t[k])) \in Nat /\ Len(B(k)) = Len(B(k - 1)) + Len(unicode_to_utf8(t[k]))
        /\ t[k] < 128 => Len(unicode_to_utf8(t[k])) = 1
        /\ ~(t[k] < 128) => Len(unicode_to_utf8(t[k])) > 1
  <2> SUFFICES ASSUME NEW k \in 1..Len(t)
               PROVE  /\ Len(unicode_to_utf8(t[k])) \in Nat
                      /\ Len(B(k)) = Len(B(k - 1)) + Len(unicode_to_utf8(t[k]))
                      /\ t[k] < 128 => Len(unicode_to_utf8(t[k])) = 1
                      /\ ~(t[k] < 128) => Len(unicode_to_utf8(t[k])) > 1
    OBVIOUS
  <2>1. t[k] \in Unit /\ k - 1 \in 0..Len(t)
    BY <1>1
  <2>2. /\ unicode_to_utf8(t[k]) \in Seq(Unit) /\ Len(unicode_to_utf8(t[k])) \in Nat
        /\ t[k] < 128 => Len(unicode_to_utf8(t[k])) = 1
        /\ ~(t[k] < 128) => Len(unicode_to_utf8(t[k])) > 1
    BY <2>1, CharacterIs
  <2>3. B(k) = B(k - 1) \o unicode_to_utf8(t[k]) /\ B(k - 1) \in Seq(Unit)
    BY <1>1, <1>2, <2>1
  <2> HIDE DEF B
  <2>4. Len(B(k)) = Len(B(k - 1)) + Len(unicode_to_utf8(t[k]))
    BY <2>2, <2>3, Joined
  <2>5. QED BY <2>2, <2>4
<1> HIDE DEF B
<1> DEFINE S == {k \in Nat : k <= Len(t) =>
                   /\ Len(B(k)) >= k
                   /\ (\A i \in 1..k : t[i] < 128) => Len(B(k)) = k
                   /\ (\E i \in 1..k : ~(t[i] < 128)) => Len(B(k)) > k}
<1>4. 0 \in S
  <2>1. Len(B(0)) = 0
    BY <1>2
  <2>2. QED BY <2>1
<1>5. ASSUME NEW k \in Nat, k \in S PROVE k + 1 \in S
  <2> SUFFICES ASSUME k + 1 <= Len(t)
               PROVE  /\ Len(B(k + 1)) >= k + 1
                      /\ (\A i \in 1..(k + 1) : t[i] < 128) => Len(B(k + 1)) = k + 1
                      /\ (\E i \in 1..(k + 1) : ~(t[i] < 128)) => Len(B(k + 1)) > k + 1
    OBVIOUS
  <2> DEFINE u == unicode_to_utf8(t[k + 1])
  <2>1. k + 1 \in 1..Len(t) /\ (k + 1) - 1 = k /\ k \in 0..Len(t) /\ k <= Len(t)
    BY <1>1
  <2>2. /\ Len(u) \in Nat /\ Len(B(k + 1)) = Len(B(k)) + Len(u) /\ Len(B(k)) \in Nat
        /\ t[k + 1] < 128 => Len(u) = 1
        /\ ~(t[k + 1] < 128) => Len(u) > 1
    BY <1>1, <1>3, <2>1
  <2>3. /\ Len(B(k)) >= k
        /\ (\A i \in 1..k : t[i] < 128) => Len(B(k)) = k
        /\ (\E i \in 1..k : ~(t[i] < 128)) => Len(B(k)) > k
    BY <1>5, <2>1
  <2> HIDE DEF u
  <2>4. \A i \in 1..(k + 1) : i \in 1..k \/ i = k + 1
    OBVIOUS
  <2>5. k + 1 \in 1..(k + 1) /\ \A i \in 1..k : i \in 1..(k + 1)
    OBVIOUS
  <2> DEFINE all == \A i \in 1..k : t[i] < 128
  <2>6. /\ (\A i \in 1..(k + 1) : t[i] < 128) => all /\ t[k + 1] < 128
        /\ (\E i \in 1..(k + 1) : ~(t[i] < 128)) => ~all \/ ~(t[k + 1] < 128)
        /\ ~all => Len(B(k)) > k
        /\ all => Len(B(k)) = k
        /\ Len(B(k)) >= k
    BY <2>3, <2>4, <2>5
  <2> HIDE DEF all
  <2>7. CASE t[k + 1] < 128
    <3>1. Len(B(k + 1)) = Len(B(k)) + 1
      BY <2>2, <2>7
    <3>2. QED BY <2>2, <2>6, <2>7, <3>1
  <2>8. CASE ~(t[k + 1] < 128)
    BY <2>2, <2>6, <2>8
  <2>9. QED BY <2>7, <2>8
<1>6. Nat \subseteq S
  <2> HIDE DEF S
  <2>1. QED BY <1>4, <1>5, SetInduction
<1>7. n \in Nat /\ n <= Len(t)
  BY <1>1
<1>8. n \in S
  BY <1>6, <1>7
<1>9. QED
  BY <1>7, <1>8 DEF B

---------------------------------------------------------------------------
(* Where the loops are.                                                    *)
TextTypes ==
  /\ mem \in Seq(Unit) /\ wide \in BOOLEAN
  /\ tpc \in {"idle", "count", "copy", "search", "done", "undefined"}
  /\ at \in Nat /\ marks \in Seq(Nat) /\ count \in Nat /\ space \in Nat /\ out \in Seq(Unit)

Idle == tpc = "idle" => op = "none" /\ at = 1 /\ marks = <<>> /\ out = <<>>

(* A loop over bytes does not pass the zero unless the text is cut off.    *)
Working ==
  tpc \in {"count", "copy"} =>
    /\ Terminated /\ at >= 1
    /\ op \in (IF wide THEN Narrowing \cup {"strcpy16"} ELSE Widening)
    /\ ~wide /\ ~CutOff => at <= strlen + 1

(* The marks are those of the characters up to a place.                    *)
After(i) == i + 1 + Follow(mem[i])
Reached  == IF marks = <<>> THEN 1 ELSE After(marks[Len(marks)])
Walked ==
  \A i \in 1..Len(marks) :
    /\ marks[i] \in 1..Len(mem) /\ mem[marks[i]] # 0
    /\ marks[i] = IF i = 1 THEN 1 ELSE After(marks[i - 1])

CountInv ==
  tpc = "count" =>
    /\ op \in Counting /\ out = <<>>
    /\ wide /\ Source = <<>> => at = 1
    /\ ~wide => Walked /\ at = Reached

(* The loop that copies passes the same marks as the one that counted.     *)
Counted ==
  /\ Walked /\ Reached \in 1..Len(mem) /\ mem[Reached] = 0
  /\ space = Len(marks) + 1 /\ Len(out) <= Len(marks)
  /\ at = IF Len(out) < Len(marks) THEN marks[Len(out) + 1] ELSE Reached

Copied == at <= strlen + 1 /\ space = strlen + 1 /\ out = SubSeq(mem, 1, at - 1)

Narrowed ==
  /\ at <= strlen + 1 /\ out = Beginning(Source, at - 1)
  /\ op \in Limited /\ at > 1 => Len(Beginning(Source, at - 2)) < strlen
  /\ op = "strcpy16_8" => space = strlen + 1

Widened ==
  /\ op = "strcpy8_16" => space = strlen + 1
  /\ op = "str_n_str8_16" => Counted
  /\ \A t \in Texts : Source = Encoding(t) =>
       /\ Len(out) <= Len(t) /\ out = SubSeq(t, 1, Len(out))
       /\ at = Len(Beginning(t, Len(out))) + 1

CopyInv ==
  tpc = "copy" =>
    /\ op = "strcpy16" => Copied
    /\ op \in Narrowing => Narrowed
    /\ op \in Widening => Widened

(* The places a search has passed are not those of the text it looks for.  *)
SearchInv ==
  tpc = "search" =>
    /\ Terminated /\ op \in Searching
    /\ op = "strrstr16" => at + Len(out) <= strlen + 1
    /\ op = "strstr16" => at >= 1
    /\ \A i \in Places : IF op = "strstr16" THEN at <= i ELSE at >= i

TextInv ==
  /\ TextTypes /\ Idle /\ Working /\ CountInv /\ CopyInv /\ SearchInv
  /\ ConversionsStayInside /\ TextSurvives /\ SearchNeverMisses

LEMMA AtUndefined ==
  ASSUME TextTypes', tpc' = "undefined", op' \notin Searching, ConversionsStayInside'
  PROVE  TextInv'
BY Zenon DEF TextInv, Idle, Working, CountInv, CopyInv, SearchInv, TextSurvives, SearchNeverMisses

LEMMA AtDone ==
  ASSUME TextTypes', tpc' = "done", op' \notin Searching \cup Comparing, TextSurvives'
  PROVE  TextInv'
BY Zenon DEF TextInv, Idle, Working, CountInv, CopyInv, SearchInv, ConversionsStayInside,
   SearchNeverMisses

LEMMA AtWork ==
  ASSUME TextTypes', tpc' \in {"idle", "count", "copy"}, Idle', Working', CountInv', CopyInv'
  PROVE  TextInv'
<1>1. tpc' # "search" /\ tpc' # "done" /\ tpc' # "undefined"
  OBVIOUS
<1>2. QED
  BY <1>1, Zenon DEF TextInv, SearchInv, ConversionsStayInside, TextSurvives, SearchNeverMisses

(* What is known of a text stays known while its memory does not change.   *)
LEMMA SameText ==
  ASSUME mem' = mem
  PROVE  /\ Terminated' = Terminated /\ strlen' = strlen /\ Source' = Source /\ CutOff' = CutOff
<1>1. Terminated' = Terminated /\ strlen' = strlen
  BY DEF Terminated, strlen
<1>2. Source' = Source
  BY <1>1 DEF Source
<1>3. QED BY <1>1, <1>2 DEF CutOff

LEMMA TextsAreTexts == \A t \in Texts : t \in Seq(Unit \ {0}) /\ t \in Seq(Unit)
<1>1. ASSUME NEW t \in Seq(Unit \ {0}) PROVE t \in Seq(Unit)
  OBVIOUS
<1>2. QED BY <1>1, TextsAssumption

LEMMA EmptyIs == <<>> \in Seq(Unit) /\ <<>> \in Seq(Nat) /\ Len(<<>>) = 0
OBVIOUS

LEMMA ZeroIsUnit == 0 \in Unit /\ 65 \in Unit
BY DEF Unit

LEMMA InitText == TextInit => TextInv
<1> SUFFICES ASSUME TextInit PROVE TextInv
  OBVIOUS
<1>1. PICK t \in (IF wide THEN Texts ELSE Rows), b \in Behind : mem = t \o <<0>> \o b
  BY DEF TextInit
<1>2. t \in Seq(Unit \ {0}) /\ b \in Seq(Unit)
  BY TextsAssumption, RowsAssumption, BehindAssumption
<1>3. t \in Seq(Unit) /\ <<0>> \in Seq(Unit)
  <2>1. t \in Seq(Unit)
    BY <1>2
  <2>2. QED BY <2>1, ZeroIsUnit
<1>4. mem \in Seq(Unit)
  <2>1. t \o <<0>> \in Seq(Unit)
    BY <1>3
  <2>2. QED BY <1>1, <1>2, <2>1
<1>5. TextTypes
  BY <1>4, EmptyIs DEF TextInit, TextTypes
<1>6. QED
  BY <1>5, Zenon DEF TextInit, TextInv, Idle, Working, CountInv, CopyInv, SearchInv,
     ConversionsStayInside, TextSurvives, SearchNeverMisses

(* A call begins.                                                          *)
LEMMA CallStep ==
  ASSUME TextInv, NEW f, Call(f),
         f \in (IF wide THEN Narrowing \cup {"strcpy16"} ELSE Widening)
  PROVE  TextInv'
<1>1. /\ tpc = "idle" /\ op' = f /\ mem' = mem /\ wide' = wide /\ at' = at
      /\ marks' = marks /\ count' = count /\ out' = out
  BY DEF Call
<1>2. /\ mem \in Seq(Unit) /\ wide \in BOOLEAN /\ at = 1 /\ marks = <<>> /\ out = <<>>
      /\ count \in Nat /\ space \in Nat
  BY <1>1 DEF TextInv, TextTypes, Idle
<1>3. CASE ~Terminated
  <2>1. tpc' = "undefined" /\ space' = space
    BY <1>3 DEF Call, Undefined
  <2>2. TextTypes'
    BY <1>1, <1>2, <2>1, EmptyIs DEF TextTypes
  <2>3. op' \notin Searching
    BY <1>1 DEF Searching, Narrowing, Widening
  <2>4. ConversionsStayInside'
    BY <1>1, <1>3, SameText, Zenon DEF ConversionsStayInside
  <2>5. QED BY <2>1, <2>2, <2>3, <2>4, AtUndefined
<1>4. CASE Terminated
  <2>1. strlen \in Nat /\ strlen + 1 \in 1..Len(mem) /\ Source \in Seq(Unit \ {0}) /\ Len(Source) = strlen
    BY <1>2, <1>4, StrlenIs
  <2>2. /\ tpc' = IF f \in Counting THEN "count" ELSE "copy"
        /\ space' = IF f \in Counting THEN 0 ELSE strlen + 1
    BY <1>4, Zenon DEF Call
  <2>3. Terminated' /\ strlen' = strlen /\ Source' = Source
    BY <1>1, <1>4, SameText
  <2>4. TextTypes'
    BY <1>1, <1>2, <2>1, <2>2, EmptyIs DEF TextTypes
  <2>5. Idle' /\ tpc' \in {"idle", "count", "copy"}
    BY <2>2, Zenon DEF Idle
  <2>6. Working'
    <3>1. at' >= 1 /\ at' <= strlen' + 1
      BY <1>1, <1>2, <2>1, <2>3
    <3>2. op' \in (IF wide' THEN Narrowing \cup {"strcpy16"} ELSE Widening)
      BY <1>1, Zenon
    <3>3. QED BY <2>3, <3>1, <3>2, Zenon DEF Working
  <2>7. Walked' /\ Reached' = 1
    BY <1>1, <1>2 DEF Walked, Reached
  <2>8. CountInv'
    BY <1>1, <1>2, <2>2, <2>7 DEF CountInv
  <2>9. ASSUME NEW t \in Seq(Unit) PROVE Beginning(t, 0) = <<>> /\ Len(Beginning(t, 0)) = 0
    BY <2>9, BeginningIs, EmptyIs
  <2>10. CopyInv'
    <3> SUFFICES ASSUME tpc' = "copy"
                 PROVE  /\ op' = "strcpy16" => Copied'
                        /\ op' \in Narrowing => Narrowed'
                        /\ op' \in Widening => Widened'
      BY DEF CopyInv
    <3>1. f \notin Counting /\ space' = strlen' + 1
      BY <2>2, <2>3
    <3>2. Copied'
      BY <1>1, <1>2, <2>1, <2>3, <3>1 DEF Copied
    <3>3. Narrowed'
      <4>1. Source \in Seq(Unit)
        BY <2>1
      <4>2. at' <= strlen' + 1 /\ ~(at' > 1) /\ at' - 1 = 0
        BY <1>1, <1>2, <2>1, <2>3
      <4>3. out' = Beginning(Source', at' - 1)
        BY <1>1, <1>2, <2>3, <2>9, <4>1, <4>2
      <4>4. QED BY <3>1, <4>2, <4>3, Zenon DEF Narrowed
    <3>4. Widened'
      <4>1. op' # "str_n_str8_16"
        BY <1>1, <3>1 DEF Counting
      <4>2. ASSUME NEW t \in Texts
            PROVE  /\ Len(out') <= Len(t) /\ out' = SubSeq(t, 1, Len(out'))
                   /\ at' = Len(Beginning(t, Len(out'))) + 1
        <5>1. t \in Seq(Unit) /\ Len(out') = 0
          BY <1>1, <1>2, TextsAreTexts
        <5>2. SubSeq(t, 1, 0) = <<>> /\ Len(t) >= 0
          BY <5>1
        <5>3. Len(Beginning(t, Len(out'))) = 0
          BY <2>9, <5>1
        <5>4. QED BY <1>1, <1>2, <5>1, <5>2, <5>3
      <4>3. QED BY <3>1, <4>1, <4>2, Zenon DEF Widened
    <3>5. QED BY <3>2, <3>3, <3>4
  <2>11. QED BY <2>4, <2>5, <2>6, <2>8, <2>10, AtWork
<1>5. QED
  BY <1>3, <1>4

(* strdump and bytedump.                                                   *)
LEMMA DumpStep ==
  ASSUME TextInv, NEW f \in Dumping, Dump(f)
  PROVE  TextInv'
<1>1. /\ tpc = "idle" /\ op' = f /\ mem' = mem /\ wide' = wide /\ at' = at
      /\ marks' = marks /\ count' = count /\ space' = space
  BY DEF Dump
<1>2. /\ mem \in Seq(Unit) /\ wide \in BOOLEAN /\ at = 1 /\ marks = <<>> /\ out = <<>>
      /\ count \in Nat /\ space \in Nat
  BY <1>1 DEF TextInv, TextTypes, Idle
<1> DEFINE n == IF f = "bytedump" THEN PointerSize ELSE strlen
<1>3. IF Terminated /\ n <= Len(mem)
      THEN out' = SubSeq(mem, 1, n) /\ tpc' = "done" /\ UNCHANGED fault
      ELSE Undefined("read") /\ UNCHANGED out
  BY Zenon DEF Dump
<1>4. f \notin Searching \cup Comparing /\ f \notin Widening \cup Narrowing /\ f # "strcpy16"
  BY DEF Dumping, Searching, Comparing, Widening, Narrowing
<1>5. f = "bytedump" \/ f = "strdump"
  BY DEF Dumping
<1>6. CASE Terminated /\ n <= Len(mem)
  <2>1. n \in Nat
    BY <1>2, <1>6, StrlenIs DEF PointerSize
  <2>2. SubSeq(mem, 1, n) \in Seq(Unit)
    <3> HIDE DEF n
    <3>1. QED BY <1>2, <1>6, <2>1
  <2>3. tpc' = "done" /\ out' = SubSeq(mem, 1, n)
    BY <1>3, <1>6
  <2> HIDE DEF n
  <2>4. TextTypes'
    BY <1>1, <1>2, <2>2, <2>3, EmptyIs DEF TextTypes
  <2>5. f = "strdump" => out' = Source'
    <3>1. f = "strdump" => n = strlen
      BY <1>5 DEF n
    <3>2. QED BY <1>1, <2>3, <3>1, SameText DEF Source
  <2>6. TextSurvives'
    BY <1>1, <1>4, <2>5, Zenon DEF TextSurvives
  <2>7. QED BY <1>1, <1>4, <2>3, <2>4, <2>6, AtDone
<1>7. CASE ~(Terminated /\ n <= Len(mem))
  <2>1. tpc' = "undefined" /\ out' = out
    BY <1>3, <1>7, Zenon DEF Undefined
  <2> HIDE DEF n
  <2>2. TextTypes'
    BY <1>1, <1>2, <2>1, EmptyIs DEF TextTypes
  <2>3. Terminated' => op' = "bytedump"
    <3> SUFFICES ASSUME Terminated, f = "strdump" PROVE FALSE
      BY <1>1, <1>5, SameText
    <3>1. n = strlen
      BY DEF n
    <3>2. strlen + 1 \in 1..Len(mem) /\ strlen \in Nat
      BY <1>2, StrlenIs
    <3>3. QED BY <1>2, <1>7, <3>1, <3>2
  <2>4. ConversionsStayInside'
    BY <2>3, Zenon DEF ConversionsStayInside
  <2>5. QED BY <1>1, <1>4, <2>1, <2>2, <2>4, AtUndefined
<1>8. QED
  BY <1>6, <1>7

(* The result of a conversion becomes a text.                              *)
LEMMA UseStep ==
  ASSUME TextInv, Use
  PROVE  TextInv'
<1>1. /\ tpc' = "idle" /\ op' = "none" /\ at' = 1 /\ marks' = <<>> /\ count' = 0
      /\ space' = 0 /\ out' = <<>> /\ wide' \in BOOLEAN
      /\ mem' = IF op = "str_n_str8_16" /\ out = <<>> THEN <<Garbage16>> ELSE out \o <<0>>
  BY DEF Use
<1>2. out \in Seq(Unit)
  BY DEF TextInv, TextTypes
<1>3. mem' \in Seq(Unit)
  <2>1. <<Garbage16>> \in Seq(Unit) /\ <<0>> \in Seq(Unit)
    BY ZeroIsUnit DEF Garbage16
  <2>2. out \o <<0>> \in Seq(Unit)
    BY <1>2, <2>1
  <2>3. QED BY <1>1, <2>1, <2>2
<1>4. TextTypes'
  BY <1>1, <1>3, EmptyIs DEF TextTypes
<1>5. Idle' /\ Working' /\ CountInv' /\ CopyInv'
  BY <1>1, Zenon DEF Idle, Working, CountInv, CopyInv
<1>6. QED
  BY <1>1, <1>4, <1>5, AtWork

---------------------------------------------------------------------------
(* Comparisons and searches.                                               *)
LEMMA Halves ==
  ASSUME NEW n \in Nat
  PROVE  /\ n \div 2 \in Nat /\ n \div 2 <= n /\ n \div 2 <= (n + 1) \div 2
         /\ n % 2 = 1 => n \div 2 + 1 <= n
         /\ n > 0 => (n - 1) \div 2 \in Nat /\ (n - 1) \div 2 < n
OBVIOUS

(* Texts that are the same have the same bytes, and texts with the same    *)
(* bytes are the same in their first half.                                 *)
LEMMA SameBytesIs ==
  ASSUME NEW s, NEW i \in Nat, NEW n \in Nat
  PROVE  /\ (\A k \in 1..n : mem[i + (k - 1)] = s[k]) => SameBytes(s, i, n)
         /\ SameBytes(s, i, n) => \A k \in 1..(n \div 2) : mem[i + (k - 1)] = s[k]
<1> DEFINE h == n \div 2
<1>1. h \in Nat /\ h <= n /\ (n % 2 = 1 => h + 1 <= n)
  BY Halves
<1>2. SameBytes(s, i, n) <=> /\ \A k \in 0..(h - 1) : mem[i + k] = s[k + 1]
                             /\ n % 2 = 1 => mem[i + h] % 256 = s[h + 1] % 256
  BY Zenon DEF SameBytes
<1> HIDE DEF h
<1>3. ASSUME \A k \in 1..n : mem[i + (k - 1)] = s[k] PROVE SameBytes(s, i, n)
  <2>1. ASSUME NEW k \in 0..(h - 1) PROVE mem[i + k] = s[k + 1]
    <3>1. k + 1 \in 1..n /\ (k + 1) - 1 = k
      BY <1>1
    <3>2. QED BY <1>3, <3>1
  <2>2. ASSUME n % 2 = 1 PROVE mem[i + h] = s[h + 1]
    <3>1. h + 1 \in 1..n /\ (h + 1) - 1 = h
      BY <1>1, <2>2
    <3>2. QED BY <1>3, <3>1
  <2>3. QED BY <1>2, <2>1, <2>2
<1>4. ASSUME SameBytes(s, i, n), NEW k \in 1..h PROVE mem[i + (k - 1)] = s[k]
  <2>1. k - 1 \in 0..(h - 1) /\ (k - 1) + 1 = k
    BY <1>1
  <2>2. QED BY <1>2, <1>4, <2>1
<1>5. QED
  BY <1>3, <1>4 DEF h

PlacesOf(s) ==
  {i \in 1..(Len(Source) + 1) :
     i + Len(s) <= Len(Source) + 1 /\ SubSeq(Source, i, i + Len(s) - 1) = s}

LEMMA PlaceIs ==
  ASSUME mem \in Seq(Unit), Terminated, NEW s \in Seq(Unit), NEW i \in PlacesOf(s)
  PROVE  /\ i \in Nat /\ i >= 1 /\ i + Len(s) <= strlen + 1
         /\ \A k \in 1..Len(s) : mem[i + (k - 1)] = s[k]
<1>1. /\ strlen \in Nat /\ Source \in Seq(Unit \ {0}) /\ Len(Source) = strlen
      /\ \A j \in 1..strlen : Source[j] = mem[j]
  BY StrlenIs
<1>2. /\ i \in Nat /\ i >= 1 /\ i + Len(s) <= strlen + 1 /\ Len(s) \in Nat
      /\ SubSeq(Source, i, i + Len(s) - 1) = s
  BY <1>1 DEF PlacesOf
<1>3. ASSUME NEW k \in 1..Len(s) PROVE mem[i + (k - 1)] = s[k]
  <2> DEFINE e == i + Len(s) - 1
  <2>1. /\ i + (k - 1) \in 1..strlen /\ i + k - 1 = i + (k - 1)
        /\ e \in Nat /\ e <= strlen /\ k \in 1..(e - i + 1)
    BY <1>1, <1>2
  <2>2. SubSeq(Source, i, e) = s
    BY <1>2
  <2> HIDE DEF e
  <2>3. SubSeq(Source, i, e)[k] = Source[i + k - 1]
    BY <1>1, <1>2, <2>1
  <2>4. QED BY <1>1, <2>1, <2>2, <2>3
<1>4. QED
  BY <1>2, <1>3

LEMMA CompareStep ==
  ASSUME TextInv, NEW f \in Comparing, Compare(f)
  PROVE  TextInv'
<1>1. /\ Terminated /\ op' = f /\ tpc' = "done" /\ out' \in Texts
      /\ at' = IF Same(f, out') THEN 1 ELSE 0
      /\ mem' = mem /\ wide' = wide /\ marks' = marks /\ count' = count /\ space' = space
  BY DEF Compare
<1>2. mem \in Seq(Unit) /\ wide \in BOOLEAN /\ marks \in Seq(Nat) /\ count \in Nat /\ space \in Nat
  BY DEF TextInv, TextTypes
<1>3. PICK s : s = out'
  OBVIOUS
<1>4. s \in Seq(Unit \ {0}) /\ s \in Seq(Unit) /\ Len(s) \in Nat
  BY <1>1, <1>3, TextsAreTexts
<1>5. TextTypes'
  BY <1>1, <1>2, <1>3, <1>4 DEF TextTypes
<1> DEFINE n == Len(s)
<1>6. /\ strlen \in Nat /\ strlen + 1 \in 1..Len(mem) /\ mem[strlen + 1] = 0
      /\ Source \in Seq(Unit \ {0}) /\ Len(Source) = strlen
      /\ \A j \in 1..strlen : Source[j] = mem[j]
  BY <1>1, <1>2, StrlenIs
<1>7. Same(f, s) <=> IF f = "strcmp16" THEN strlen = n /\ SameBytes(s \o <<0>>, 1, n + 1)
                     ELSE n # 0 /\ n <= strlen /\ SameBytes(s, 1, n)
  BY Zenon DEF Same
<1>8. /\ s \o <<0>> \in Seq(Unit) /\ Len(s \o <<0>>) = n + 1
      /\ \A i \in 1..n : (s \o <<0>>)[i] = s[i]
      /\ (s \o <<0>>)[n + 1] = 0
  <2>1. <<0>> \in Seq(Unit) /\ Len(<<0>>) = 1 /\ <<0>>[1] = 0 /\ 1 \in 1..Len(<<0>>)
    BY ZeroIsUnit
  <2>2. QED BY <1>4, <2>1, Joined
<1>9. ASSUME s = Source, s # <<>> PROVE Same(f, s)
  <2>1. n = strlen /\ n # 0
    BY <1>4, <1>6, <1>9
  <2>2. SameBytes(s, 1, n)
    <3>1. \A k \in 1..n : 1 + (k - 1) = k /\ mem[k] = s[k]
      BY <1>6, <1>9, <2>1
    <3>2. QED BY <1>4, <3>1, SameBytesIs
  <2>3. SameBytes(s \o <<0>>, 1, n + 1)
    <3>1. ASSUME NEW k \in 1..(n + 1) PROVE 1 + (k - 1) = k /\ mem[k] = (s \o <<0>>)[k]
      <4>1. CASE k = n + 1
        BY <1>6, <1>8, <2>1, <4>1
      <4>2. CASE k # n + 1
        <5>1. k \in 1..n
          BY <1>4, <4>2
        <5>2. QED BY <1>6, <1>8, <1>9, <2>1, <5>1
      <4>3. QED BY <4>1, <4>2
    <3>2. n + 1 \in Nat
      BY <1>4
    <3>3. PICK r : \E m \in Nat : r = s \o <<0>> /\ m = n + 1
      BY <3>2
    <3> DEFINE m == n + 1
    <3>4. m \in Nat /\ \A k \in 1..m : mem[1 + (k - 1)] = r[k]
      BY <3>1, <3>2, <3>3
    <3> HIDE DEF m
    <3>5. SameBytes(r, 1, m)
      BY <3>4, SameBytesIs
    <3>6. QED BY <3>3, <3>5 DEF m
  <2>4. QED BY <1>4, <1>7, <2>1, <2>2, <2>3
<1>10. ASSUME Same(f, s)
       PROVE  n <= strlen /\ \A k \in 1..(n \div 2) : mem[k] = s[k]
  <2>1. n \div 2 \in Nat /\ n \div 2 <= n /\ n \div 2 <= (n + 1) \div 2 /\ n + 1 \in Nat
    BY <1>4, Halves
  <2>2. CASE f = "strcmp16"
    <3>1. strlen = n /\ SameBytes(s \o <<0>>, 1, n + 1)
      BY <1>7, <1>10, <2>2
    <3>2. \A k \in 1..((n + 1) \div 2) : mem[1 + (k - 1)] = (s \o <<0>>)[k]
      BY <2>1, <3>1, SameBytesIs
    <3>3. ASSUME NEW k \in 1..(n \div 2) PROVE mem[k] = s[k]
      <4>1. k \in 1..((n + 1) \div 2) /\ k \in 1..n /\ 1 + (k - 1) = k
        BY <1>4, <2>1
      <4>2. QED BY <1>8, <3>2, <4>1
    <3>4. QED BY <1>6, <3>1, <3>3
  <2>3. CASE f # "strcmp16"
    <3>1. n <= strlen /\ SameBytes(s, 1, n)
      BY <1>7, <1>10, <2>3
    <3>2. \A k \in 1..(n \div 2) : mem[1 + (k - 1)] = s[k] /\ 1 + (k - 1) = k
      BY <1>4, <2>1, <3>1, SameBytesIs
    <3>3. QED BY <3>1, <3>2
  <2>4. QED BY <2>2, <2>3
<1>11. Source' = Source
  BY <1>1, SameText
<1>12. ASSUME Same(f, s)
       PROVE  SubSeq(Source, 1, n \div 2) = SubSeq(s, 1, n \div 2)
  <2> DEFINE h == n \div 2
  <2>1. h \in Nat /\ h <= n /\ h <= strlen
    BY <1>4, <1>6, <1>10, <1>12, Halves
  <2>2. \A k \in 1..h : Source[k] = s[k]
    BY <1>6, <1>10, <1>12, <2>1
  <2> HIDE DEF h, n
  <2>3. SubSeq(Source, 1, h) = [k \in 1..h |-> Source[k]] /\ SubSeq(s, 1, h) = [k \in 1..h |-> s[k]]
    BY <1>4, <1>6, <2>1 DEF n
  <2>4. SubSeq(Source, 1, h) = SubSeq(s, 1, h)
    BY <2>2, <2>3
  <2>5. QED BY <2>4 DEF h
<1>13. f \notin Searching
  BY DEF Comparing, Searching
<1>14. /\ out' = Source' /\ out' # <<>> => at' = 1
       /\ at' = 1 => Len(out') <= Len(Source') /\ SubSeq(Source', 1, Len(out') \div 2)
                                                    = SubSeq(out', 1, Len(out') \div 2)
  <2>1. at' = IF Same(f, s) THEN 1 ELSE 0
    BY <1>1, <1>3
  <2>2. s = Source /\ s # <<>> => at' = 1
    BY <1>9, <2>1
  <2>3. at' = 1 => Same(f, s)
    BY <2>1
  <2>4. at' = 1 => Len(s) <= Len(Source) /\ SubSeq(Source, 1, n \div 2) = SubSeq(s, 1, n \div 2)
    BY <1>6, <1>10, <1>12, <2>3
  <2>5. QED BY <1>3, <1>11, <2>2, <2>4
<1>15. SearchNeverMisses'
  BY <1>1, <1>13, <1>14, Zenon DEF SearchNeverMisses
<1>16. /\ f \notin Widening /\ f \notin Narrowing /\ f \notin {"strcpy16", "strdump"}
  BY DEF Comparing, Widening, Narrowing
<1>17. TextSurvives'
  BY <1>1, <1>16, Zenon DEF TextSurvives
<1>18. QED
  BY <1>1, <1>5, <1>15, <1>17, Zenon DEF TextInv, Idle, Working, CountInv, CopyInv, SearchInv,
     ConversionsStayInside

LEMMA SearchCallStep ==
  ASSUME TextInv, NEW f \in Searching, Search(f)
  PROVE  TextInv'
<1>1. /\ Terminated /\ op' = f /\ out' \in Texts
      /\ at' = FirstPlace(f, Len(out'))
      /\ tpc' = IF strlen < Len(out') THEN "done" ELSE "search"
      /\ mem' = mem /\ wide' = wide /\ marks' = marks /\ count' = count /\ space' = space
  BY DEF Search
<1>2. mem \in Seq(Unit) /\ wide \in BOOLEAN /\ marks \in Seq(Nat) /\ count \in Nat /\ space \in Nat
  BY DEF TextInv, TextTypes
<1>3. PICK s : s = out'
  OBVIOUS
<1>4. s \in Seq(Unit) /\ Len(s) \in Nat
  BY <1>1, <1>3, TextsAreTexts
<1>5. strlen \in Nat
  BY <1>1, <1>2, StrlenIs
<1>6. at' = IF strlen < Len(s) THEN 0 ELSE IF f = "strstr16" THEN 1 ELSE strlen - Len(s) + 1
  BY <1>1, <1>3 DEF FirstPlace
<1>7. TextTypes'
  <2>1. at' \in Nat
    BY <1>4, <1>5, <1>6
  <2>2. QED BY <1>1, <1>2, <1>3, <1>4, <2>1 DEF TextTypes
<1>8. Places' = PlacesOf(s) /\ Terminated' /\ strlen' = strlen
  <2>1. Source' = Source
    BY <1>1, SameText
  <2>2. Places' = PlacesOf(s)
    BY <1>3, <2>1 DEF Places, PlacesOf
  <2>3. QED BY <1>1, <2>2, SameText
<1>9. \A i \in PlacesOf(s) : i \in Nat /\ i >= 1 /\ i + Len(s) <= strlen + 1
  BY <1>1, <1>2, <1>4, PlaceIs
<1>10. f = "strstr16" \/ f = "strrstr16"
  BY DEF Searching
<1>11. /\ f \notin Widening /\ f \notin Narrowing /\ f \notin {"strcpy16", "strdump"}
       /\ f \notin Comparing
  BY DEF Searching, Comparing, Widening, Narrowing
<1>12. CASE strlen < Len(s)
  <2>1. tpc' = "done" /\ PlacesOf(s) = {}
    <3>1. \A i \in PlacesOf(s) : FALSE
      BY <1>4, <1>5, <1>9, <1>12
    <3>2. QED BY <1>1, <1>3, <1>12, <3>1
  <2>2. SearchNeverMisses'
    BY <1>1, <1>8, <1>11, <2>1, Zenon DEF SearchNeverMisses
  <2>3. TextSurvives'
    BY <1>1, <1>11, Zenon DEF TextSurvives
  <2>4. QED
    BY <1>7, <2>1, <2>2, <2>3, Zenon DEF TextInv, Idle, Working, CountInv, CopyInv, SearchInv,
       ConversionsStayInside
<1>13. CASE ~(strlen < Len(s))
  <2>1. tpc' = "search"
    BY <1>1, <1>3, <1>13
  <2>2. /\ op' = "strrstr16" => at' + Len(out') <= strlen' + 1
        /\ op' = "strstr16" => at' >= 1
    BY <1>1, <1>3, <1>4, <1>5, <1>6, <1>8, <1>13
  <2>3. ASSUME NEW i \in Places' PROVE IF op' = "strstr16" THEN at' <= i ELSE at' >= i
    <3>1. i \in Nat /\ i >= 1 /\ i + Len(s) <= strlen + 1
      BY <1>8, <1>9
    <3>2. QED BY <1>1, <1>4, <1>5, <1>6, <1>13, <3>1
  <2>4. SearchInv'
    BY <1>1, <1>8, <2>2, <2>3, Zenon DEF SearchInv
  <2>5. QED
    BY <1>7, <2>1, <2>4, Zenon DEF TextInv, Idle, Working, CountInv, CopyInv,
       ConversionsStayInside, TextSurvives, SearchNeverMisses
<1>14. QED
  BY <1>12, <1>13

LEMMA SearchStepStep ==
  ASSUME TextInv, SearchStep
  PROVE  TextInv'
<1>1. /\ tpc = "search" /\ mem' = mem /\ wide' = wide /\ op' = op /\ marks' = marks
      /\ count' = count /\ space' = space /\ out' = out
  BY DEF SearchStep
<1>2. /\ mem \in Seq(Unit) /\ wide \in BOOLEAN /\ marks \in Seq(Nat) /\ count \in Nat
      /\ space \in Nat /\ out \in Seq(Unit) /\ at \in Nat /\ Len(out) \in Nat
  BY DEF TextInv, TextTypes
<1>3. /\ Terminated /\ op \in Searching
      /\ op = "strrstr16" => at + Len(out) <= strlen + 1
      /\ op = "strstr16" => at >= 1
      /\ \A i \in Places : IF op = "strstr16" THEN at <= i ELSE at >= i
  BY <1>1 DEF TextInv, SearchInv
<1> DEFINE n == Len(out)
<1>4. strlen \in Nat /\ strlen + 1 <= Len(mem)
  BY <1>2, <1>3, StrlenIs
<1>5. Places' = Places /\ Places = PlacesOf(out) /\ Terminated' /\ strlen' = strlen
  <2>1. Source' = Source
    BY <1>1, SameText
  <2>2. Places' = Places /\ Places = PlacesOf(out)
    BY <1>1, <2>1 DEF Places, PlacesOf
  <2>3. QED BY <1>1, <1>3, <2>2, SameText
<1>6. \A i \in Places : /\ i \in Nat /\ i >= 1 /\ i + n <= strlen + 1
                        /\ \A k \in 1..n : mem[i + (k - 1)] = out[k]
  BY <1>2, <1>3, <1>5, PlaceIs
<1>7. op = "strstr16" \/ op = "strrstr16"
  BY <1>3 DEF Searching
<1>8. /\ op \notin Widening /\ op \notin Narrowing /\ op \notin {"strcpy16", "strdump"}
      /\ op \notin Comparing
  BY <1>3 DEF Searching, Comparing, Widening, Narrowing
<1>9. Places # {} => Reaches(at, n) /\ at >= 1 /\ at <= strlen + 1
  <2> SUFFICES ASSUME NEW i \in Places PROVE Reaches(at, n) /\ at >= 1 /\ at <= strlen + 1
    OBVIOUS
  <2>1. i \in Nat /\ i >= 1 /\ i + n <= strlen + 1 /\ IF op = "strstr16" THEN at <= i ELSE at >= i
    BY <1>3, <1>6
  <2>2. at + n <= strlen + 1
    BY <1>2, <1>3, <1>4, <1>7, <2>1
  <2>3. ASSUME n > 0 PROVE at \in 1..Len(mem) /\ at + (n - 1) \div 2 \in 1..Len(mem)
    <3>1. (n - 1) \div 2 \in Nat /\ (n - 1) \div 2 < n
      BY <1>2, <2>3, Halves
    <3> DEFINE h == (n - 1) \div 2
    <3> HIDE DEF h
    <3>2. h \in Nat /\ h < n
      BY <3>1 DEF h
    <3>3. at >= 1
      BY <1>2, <1>3, <1>7, <2>1
    <3>4. at \in 1..Len(mem) /\ at + h \in 1..Len(mem)
      BY <1>2, <1>4, <2>2, <2>3, <3>2, <3>3
    <3>5. QED BY <3>4 DEF h
  <2>4. at >= 1 /\ at <= strlen + 1
    BY <1>2, <1>3, <1>4, <1>7, <2>1, <2>2
  <2>5. DOMAIN mem = 1..Len(mem)
    BY <1>2
  <2> HIDE DEF n
  <2>6. QED BY <2>3, <2>4, <2>5, Zenon DEF Reaches
<1>10. at \in Places => SameBytes(out, at, n)
  BY <1>2, <1>6, SameBytesIs
<1>11. tpc' = "search" => /\ Reaches(at, n) /\ ~SameBytes(out, at, n)
                          /\ at' = IF op = "strstr16" THEN at + 1 ELSE at - 1
  <2> HIDE DEF n
  <2>1. IF ~Reaches(at, n) THEN Undefined("read") /\ UNCHANGED at
        ELSE IF SameBytes(out, at, n)
        THEN tpc' = "done" /\ UNCHANGED <<at, fault>>
        ELSE IF op = "strstr16" /\ at > strlen + 1
        THEN tpc' = "done" /\ at' = 0 /\ UNCHANGED fault
        ELSE at' = (IF op = "strstr16" THEN at + 1 ELSE at - 1) /\ UNCHANGED <<tpc, fault>>
    BY Zenon DEF SearchStep, n
  <2>2. QED BY <2>1, Zenon DEF Undefined
<1>12. /\ tpc' \in {"search", "done", "undefined"} /\ at' \in Nat
       /\ tpc' = "undefined" => ~Reaches(at, n)
       /\ tpc' = "done" => at' = at \/ (op = "strstr16" /\ at > strlen + 1)
  <2>1. IF ~Reaches(at, n) THEN Undefined("read") /\ UNCHANGED at
        ELSE IF SameBytes(out, at, n)
        THEN tpc' = "done" /\ UNCHANGED <<at, fault>>
        ELSE IF op = "strstr16" /\ at > strlen + 1
        THEN tpc' = "done" /\ at' = 0 /\ UNCHANGED fault
        ELSE at' = (IF op = "strstr16" THEN at + 1 ELSE at - 1) /\ UNCHANGED <<tpc, fault>>
    BY Zenon DEF SearchStep
  <2>2. ASSUME n = 0 PROVE SameBytes(out, at, n)
    <3>1. n \in Nat /\ \A k \in 1..n : mem[at + (k - 1)] = out[k]
      BY <1>2, <2>2
    <3> HIDE DEF n
    <3>2. QED BY <1>2, <3>1, SameBytesIs
  <2>3. Reaches(at, n) /\ n # 0 => at \in 1..Len(mem)
    BY <1>2 DEF Reaches
  <2> HIDE DEF n
  <2>4. at' \in Nat
    BY <1>1, <1>2, <2>1, <2>2, <2>3 DEF Undefined
  <2>5. tpc' \in {"search", "done", "undefined"}
    BY <1>1, <2>1, Zenon DEF Undefined
  <2>6. /\ tpc' = "undefined" => ~Reaches(at, n)
        /\ tpc' = "done" => at' = at \/ (op = "strstr16" /\ at > strlen + 1)
    BY <1>1, <2>1, Zenon DEF Undefined
  <2>7. QED BY <2>4, <2>5, <2>6
<1>13. TextTypes'
  BY <1>1, <1>2, <1>12 DEF TextTypes
<1> HIDE DEF n
<1>14. SearchInv'
  <2> SUFFICES ASSUME tpc' = "search"
               PROVE  /\ Terminated' /\ op' \in Searching
                      /\ op' = "strrstr16" => at' + Len(out') <= strlen' + 1
                      /\ op' = "strstr16" => at' >= 1
                      /\ \A i \in Places' : IF op' = "strstr16" THEN at' <= i ELSE at' >= i
    BY DEF SearchInv
  <2>1. at' = IF op = "strstr16" THEN at + 1 ELSE at - 1
    BY <1>11
  <2>2. /\ op' = "strrstr16" => at' + Len(out') <= strlen' + 1
        /\ op' = "strstr16" => at' >= 1
    BY <1>1, <1>2, <1>3, <1>4, <1>5, <2>1
  <2>3. ASSUME NEW i \in Places PROVE IF op = "strstr16" THEN at' <= i ELSE at' >= i
    <3>1. at \notin Places
      BY <1>10, <1>11
    <3>2. i # at /\ i \in Nat /\ IF op = "strstr16" THEN at <= i ELSE at >= i
      BY <1>3, <1>6, <3>1
    <3>3. QED BY <1>2, <2>1, <3>2
  <2>4. QED BY <1>1, <1>3, <1>5, <2>2, <2>3
<1>15. SearchNeverMisses'
  <2>1. ASSUME tpc' \in {"done", "undefined"}, Places' # {}
        PROVE  /\ tpc' = "done" /\ at' # 0
               /\ \A i \in Places' : IF op' = "strstr16" THEN at' <= i ELSE at' >= i
    <3>1. Reaches(at, n) /\ at >= 1 /\ at <= strlen + 1
      BY <1>5, <1>9, <2>1
    <3>2. tpc' = "done"
      BY <1>12, <2>1, <3>1
    <3>3. ~(at > strlen + 1)
      BY <1>2, <1>4, <3>1
    <3>4. at' = at
      BY <1>12, <3>2, <3>3
    <3>5. QED BY <1>1, <1>2, <1>3, <1>5, <3>1, <3>2, <3>4
  <2>2. QED BY <1>1, <1>8, <2>1, Zenon DEF SearchNeverMisses
<1>16. QED
  <2>1. op' \in Searching
    BY <1>1, <1>3
  <2>2. tpc' # "idle" /\ tpc' # "count" /\ tpc' # "copy"
    BY <1>12
  <2>3. TextSurvives'
    BY <1>1, <1>8, Zenon DEF TextSurvives
  <2>4. ConversionsStayInside'
    BY <2>1, Zenon DEF ConversionsStayInside
  <2>5. QED
    BY <1>13, <1>14, <1>15, <2>2, <2>3, <2>4, Zenon DEF TextInv, Idle, Working, CountInv, CopyInv

---------------------------------------------------------------------------
(* The loops that count.                                                   *)

(* A place is a mark after those there are.                                *)
LEMMA MarkStep ==
  ASSUME TextTypes, Walked, at = Reached, at \in 1..Len(mem), mem[at] # 0,
         marks' = Append(marks, at), mem' = mem, at' = at + 1 + Follow(mem[at])
  PROVE  Walked' /\ at' = Reached' /\ marks' \in Seq(Nat)
<1> DEFINE n == Len(marks)
<1>1. /\ marks \in Seq(Nat) /\ n \in Nat /\ at \in Nat
  BY DEF TextTypes
<1>2. /\ marks' \in Seq(Nat) /\ Len(marks') = n + 1 /\ marks'[n + 1] = at
      /\ \A i \in 1..n : marks'[i] = marks[i]
  BY <1>1
<1>3. ASSUME NEW i \in 1..(n + 1)
      PROVE  /\ marks'[i] \in 1..Len(mem) /\ mem[marks'[i]] # 0
             /\ marks'[i] = IF i = 1 THEN 1 ELSE After(marks'[i - 1])
  <2>1. CASE i = n + 1
    <3>1. marks'[i] = at
      BY <1>2, <2>1
    <3>2. CASE n = 0
      <4>1. marks = <<>> /\ i = 1
        BY <1>1, <2>1, <3>2
      <4>2. at = 1
        BY <4>1 DEF Reached
      <4>3. QED BY <3>1, <4>1, <4>2
    <3>3. CASE n # 0
      <4>1. marks # <<>> /\ i # 1 /\ i - 1 = n /\ n \in 1..n
        BY <1>1, <2>1, <3>3
      <4>2. at = After(marks[n]) /\ marks'[n] = marks[n]
        BY <1>2, <4>1 DEF Reached
      <4>3. QED BY <3>1, <4>1, <4>2
    <3>4. QED BY <3>2, <3>3
  <2>2. CASE i # n + 1
    <3>1. i \in 1..n /\ marks'[i] = marks[i]
      BY <1>1, <1>2, <2>2
    <3>2. i = 1 \/ i - 1 \in 1..n
      BY <3>1, <1>1
    <3>3. i # 1 => marks'[i - 1] = marks[i - 1]
      BY <1>2, <3>2
    <3>4. QED BY <3>1, <3>3 DEF Walked
  <2>3. QED BY <2>1, <2>2
<1>4. \A i : After(i)' = After(i)
  BY DEF After
<1>5. Walked'
  BY <1>2, <1>3 DEF Walked, After
<1>6. marks' # <<>>
  BY <1>1, <1>2
<1>7. at' = Reached'
  BY <1>2, <1>6 DEF Reached, After
<1>8. QED
  BY <1>2, <1>5, <1>7

(* A character that is not cut off ends before the end of the text.        *)
LEMMA NotPast ==
  ASSUME mem \in Seq(Unit), Terminated, ~CutOff, at \in Nat, at >= 1, at <= strlen + 1, mem[at] # 0
  PROVE  at <= strlen /\ Follow(mem[at]) \in Nat /\ at + Follow(mem[at]) <= strlen
<1>1. /\ strlen \in Nat /\ mem[strlen + 1] = 0 /\ Len(Source) = strlen
      /\ Source \in Seq(Unit \ {0}) /\ \A j \in 1..strlen : Source[j] = mem[j] /\ mem[j] \in Unit
  <2>1. \A j \in 1..strlen : mem[j] \in Unit \ {0}
    BY StrlenIs
  <2>2. QED BY <2>1, StrlenIs
<1>2. at # strlen + 1
  BY <1>1
<1>3. at \in 1..strlen /\ at <= strlen
  BY <1>1, <1>2
<1>4. at \in DOMAIN Source /\ Source[at] = mem[at] /\ mem[at] \in Nat
  BY <1>1, <1>3 DEF Unit
<1>5. ~(at + Follow(Source[at]) > Len(Source))
  BY <1>4 DEF CutOff
<1>6. Follow(mem[at]) \in 0..3
  BY <1>4, FollowIs
<1>7. QED
  BY <1>1, <1>3, <1>4, <1>5, <1>6

LEMMA CountStep ==
  ASSUME TextInv, Count
  PROVE  TextInv'
<1>1. tpc = "count" /\ mem' = mem /\ wide' = wide /\ op' = op /\ out' = out
  BY DEF Count
<1>2. /\ TextTypes /\ mem \in Seq(Unit) /\ wide \in BOOLEAN /\ at \in Nat /\ marks \in Seq(Nat)
      /\ count \in Nat /\ space \in Nat /\ DOMAIN mem = 1..Len(mem) /\ Len(mem) \in Nat
  BY DEF TextInv, TextTypes
<1>3. /\ Terminated /\ at >= 1 /\ op \in (IF wide THEN Narrowing \cup {"strcpy16"} ELSE Widening)
      /\ ~wide /\ ~CutOff => at <= strlen + 1
      /\ op \in Counting /\ out = <<>>
      /\ wide /\ Source = <<>> => at = 1
      /\ ~wide => Walked /\ at = Reached
  BY <1>1, Zenon DEF TextInv, Working, CountInv
<1>4. /\ strlen \in Nat /\ strlen + 1 \in 1..Len(mem) /\ mem[strlen + 1] = 0
      /\ Source \in Seq(Unit \ {0}) /\ Len(Source) = strlen
  BY <1>2, <1>3, StrlenIs
<1>5. Terminated' /\ strlen' = strlen /\ Source' = Source /\ CutOff' = CutOff
  BY <1>1, <1>3, SameText
<1>6. /\ wide => op \in Narrowing /\ op # "strcpy16" /\ op \notin Widening
      /\ ~wide => op = "str_n_str8_16" /\ op \in Widening /\ op \notin Narrowing
      /\ op \notin Searching
  BY <1>3 DEF Counting, Narrowing, Widening, Searching
<1>7. CASE at \notin DOMAIN mem
  <2>1. /\ tpc' = "undefined" /\ fault' = "read"
        /\ at' = at /\ marks' = marks /\ count' = count /\ space' = space
    BY <1>7, Zenon DEF Count, Undefined
  <2>2. TextTypes'
    BY <1>1, <1>2, <1>3, <2>1, EmptyIs DEF TextTypes
  <2>3. wide => Source # <<>>
    BY <1>2, <1>3, <1>4, <1>7
  <2>4. ~wide => CutOff
    BY <1>2, <1>3, <1>4, <1>7
  <2>5. ConversionsStayInside'
    <3>1. wide => op' \in Narrowing \cap Counting /\ Source' # <<>>
      BY <1>1, <1>3, <1>5, <1>6, <2>3
    <3>2. ~wide => op' \in Widening /\ fault' = "read" /\ CutOff'
      BY <1>1, <1>5, <1>6, <2>1, <2>4
    <3>3. QED BY <1>2, <3>1, <3>2, Zenon DEF ConversionsStayInside
  <2>6. QED BY <1>1, <1>6, <2>1, <2>2, <2>5, AtUndefined
<1>8. CASE at \in DOMAIN mem /\ mem[at] # 0
  <2>1. /\ IF wide THEN CountBytes ELSE CountCharacters
        /\ at \in 1..Len(mem) /\ mem[at] \in Unit
    BY <1>2, <1>8 DEF Count
  <2>2. mem[at] \in Nat
    BY <2>1 DEF Unit
  <2>3. tpc' = "count" /\ space' = space
    BY <1>1, <1>8, <2>1 DEF CountBytes, CountCharacters
  <2>4. CASE wide
    <3> DEFINE n == Len(unicode_to_utf8(mem[at]))
    <3>1. n \in Nat
      BY <2>1, CharacterIs
    <3>2. count' = count + n /\ at' = at + 2 * n /\ marks' = marks
      BY <1>8, <2>1, <2>4 DEF CountBytes
    <3> HIDE DEF n
    <3>3. count' \in Nat /\ at' \in Nat /\ at' >= 1
      BY <1>2, <1>3, <3>1, <3>2
    <3>4. TextTypes'
      BY <1>1, <1>2, <1>3, <2>3, <3>2, <3>3, EmptyIs DEF TextTypes
    <3>5. Source # <<>>
      <4>1. Source = <<>> => at = 1 /\ strlen = 0
        BY <1>3, <1>4, <2>4
      <4>2. QED BY <1>4, <1>8, <4>1
    <3>6. Working'
      BY <1>1, <1>3, <1>5, <2>4, <3>3, Zenon DEF Working
    <3>7. CountInv' /\ Idle' /\ CopyInv'
      BY <1>1, <1>3, <1>5, <2>3, <2>4, <3>5, Zenon DEF CountInv, Idle, CopyInv
    <3>8. QED BY <2>3, <3>4, <3>6, <3>7, AtWork
  <2>5. CASE ~wide
    <3>1. marks' = Append(marks, at) /\ at' = at + 1 + Follow(mem[at]) /\ count' = count
      BY <1>8, <2>1, <2>5 DEF CountCharacters
    <3>2. Walked' /\ at' = Reached' /\ marks' \in Seq(Nat)
      BY <1>1, <1>2, <1>3, <1>8, <2>1, <2>5, <3>1, MarkStep
    <3>3. at' \in Nat /\ at' >= 1
      <4>1. Follow(mem[at]) \in 0..3
        BY <2>2, FollowIs
      <4>2. QED BY <1>2, <3>1, <4>1
    <3>4. TextTypes'
      BY <1>1, <1>2, <1>3, <2>3, <3>1, <3>2, <3>3, EmptyIs DEF TextTypes
    <3>5. ~CutOff => at' <= strlen + 1
      <4> SUFFICES ASSUME ~CutOff PROVE at' <= strlen + 1
        OBVIOUS
      <4>1. Follow(mem[at]) \in Nat /\ at + Follow(mem[at]) <= strlen
        BY <1>2, <1>3, <1>8, <2>5, NotPast
      <4>2. QED BY <1>2, <1>4, <3>1, <4>1
    <3>6. Working'
      BY <1>1, <1>3, <1>5, <3>3, <3>5, Zenon DEF Working
    <3>7. CountInv' /\ Idle' /\ CopyInv'
      BY <1>1, <1>3, <2>3, <2>5, <3>2, Zenon DEF CountInv, Idle, CopyInv
    <3>8. QED BY <2>3, <3>4, <3>6, <3>7, AtWork
  <2>6. QED BY <2>4, <2>5
<1>9. CASE at \in DOMAIN mem /\ mem[at] = 0
  <2>1. /\ IF wide THEN CountBytes ELSE CountCharacters
        /\ at \in 1..Len(mem)
    BY <1>2, <1>9 DEF Count
  <2>2. /\ tpc' = "copy" /\ at' = 1 /\ count' = count /\ marks' = marks
        /\ space' = IF wide THEN count + 1 ELSE Len(marks) + 1
    BY <1>2, <1>9, <2>1 DEF CountBytes, CountCharacters
  <2>3. space' \in Nat /\ Len(marks) \in Nat
    BY <1>2, <2>2
  <2>4. TextTypes'
    BY <1>1, <1>2, <1>3, <2>2, <2>3, EmptyIs DEF TextTypes
  <2>5. at' >= 1 /\ at' <= strlen' + 1
    BY <1>4, <1>5, <2>2
  <2>6. Working'
    BY <1>1, <1>3, <1>5, <2>5, Zenon DEF Working
  <2>7. CountInv' /\ Idle'
    BY <2>2, Zenon DEF CountInv, Idle
  <2>8. CopyInv'
    <3>1. ASSUME wide PROVE Narrowed'
      <4>1. Source \in Seq(Unit)
        BY <1>4
      <4>2. at' <= strlen' + 1 /\ ~(at' > 1) /\ at' - 1 = 0
        BY <2>2, <2>5
      <4>3. out' = Beginning(Source', at' - 1)
        BY <1>1, <1>3, <1>5, <4>1, <4>2, BeginningIs
      <4>4. op' # "strcpy16_8"
        BY <1>1, <1>3 DEF Counting
      <4>5. QED BY <4>2, <4>3, <4>4, Zenon DEF Narrowed
    <3>2. ASSUME ~wide PROVE Widened'
      <4>1. Walked' /\ Reached' = Reached
        BY <1>1, <1>3, <2>2, <3>2 DEF Walked, Reached, After
      <4>2. Reached \in 1..Len(mem) /\ mem[Reached] = 0
        BY <1>3, <1>9, <2>1, <3>2
      <4>3. space' = Len(marks') + 1 /\ Len(out') = 0 /\ Len(out') <= Len(marks')
        BY <1>1, <1>3, <2>2, <2>3, <3>2
      <4>4. at' = IF Len(out') < Len(marks') THEN marks'[Len(out') + 1] ELSE Reached'
        <5>1. CASE Len(marks) = 0
          <6>1. marks = <<>>
            BY <1>2, <5>1
          <6>2. QED BY <2>2, <2>3, <4>1, <4>3, <5>1, <6>1 DEF Reached
        <5>2. CASE Len(marks) # 0
          <6>1. 1 \in 1..Len(marks) /\ 0 < Len(marks)
            BY <2>3, <5>2
          <6>2. marks[1] = 1
            BY <1>3, <3>2, <6>1 DEF Walked
          <6>3. QED BY <2>2, <4>3, <6>1, <6>2
        <5>3. QED BY <5>1, <5>2
      <4>5. Counted'
        BY <1>1, <4>1, <4>2, <4>3, <4>4 DEF Counted
      <4>6. ASSUME NEW t \in Texts
            PROVE  /\ Len(out') <= Len(t) /\ out' = SubSeq(t, 1, Len(out'))
                   /\ at' = Len(Beginning(t, Len(out'))) + 1
        <5>1. t \in Seq(Unit)
          BY TextsAreTexts
        <5>2. SubSeq(t, 1, 0) = <<>> /\ Len(t) >= 0
          BY <5>1
        <5>3. Beginning(t, 0) = <<>> /\ Len(Beginning(t, 0)) = 0
          BY <5>1, BeginningIs, EmptyIs
        <5>4. QED BY <1>1, <1>3, <2>2, <4>3, <5>2, <5>3
      <4>7. op' # "strcpy8_16"
        BY <1>1, <1>6, <3>2
      <4>8. QED BY <4>5, <4>6, <4>7, Zenon DEF Widened
    <3>3. op' # "strcpy16" /\ (op' \in Narrowing => wide) /\ (op' \in Widening => ~wide)
      <4>1. op' # "strcpy16"
        BY <1>1, <1>3 DEF Counting
      <4>2. QED BY <1>1, <1>6, <4>1
    <3>4. QED BY <3>1, <3>2, <3>3, Zenon DEF CopyInv
  <2>9. QED BY <2>2, <2>4, <2>6, <2>7, <2>8, AtWork
<1>10. QED
  BY <1>7, <1>8, <1>9

---------------------------------------------------------------------------
(* The loops that copy.                                                    *)

(* The outcomes of a turn of the loop.                                     *)
LEMMA Turns ==
  ASSUME Copy
  PROVE  /\ tpc = "copy" /\ mem' = mem /\ wide' = wide /\ op' = op /\ marks' = marks
         /\ count' = count /\ space' = space
         /\ \/ /\ tpc' = "undefined" /\ fault' = "read" /\ at' = at /\ out' = out
               /\ \/ at \notin DOMAIN mem
                  \/ /\ at \in DOMAIN mem /\ mem[at] # 0
                     /\ at + Width - 1 \notin DOMAIN mem
            \/ /\ tpc' = "done" /\ at' = at /\ out' = out /\ at \in DOMAIN mem
               /\ mem[at] = 0 \/ (op \in Limited /\ Len(out) >= strlen)
            \/ /\ at \in DOMAIN mem /\ mem[at] # 0 /\ at + Width - 1 \in DOMAIN mem
               /\ ~(op \in Limited /\ Len(out) >= strlen)
               /\ \/ /\ tpc' = "undefined" /\ fault' = "write" /\ at' = at /\ out' = out
                     /\ Len(out) + Len(Units) + 1 > space
                  \/ /\ tpc' = "copy" /\ at' = at + Width /\ out' = out \o Units
                     /\ ~(Len(out) + Len(Units) + 1 > space)
<1>1. /\ tpc = "copy" /\ mem' = mem /\ wide' = wide /\ op' = op /\ marks' = marks
      /\ count' = count /\ space' = space
  BY DEF Copy
<1>2. IF at \notin DOMAIN mem
      THEN Undefined("read") /\ UNCHANGED <<at, out>>
      ELSE IF mem[at] = 0 \/ (op \in Limited /\ Len(out) >= strlen)
      THEN tpc' = "done" /\ UNCHANGED <<at, out, fault>>
      ELSE IF at + Width - 1 \notin DOMAIN mem
      THEN Undefined("read") /\ UNCHANGED <<at, out>>
      ELSE Put(Units)
  BY Zenon DEF Copy
<1>3. CASE at \notin DOMAIN mem
  BY <1>1, <1>2, <1>3, Zenon DEF Undefined
<1>4. CASE at \in DOMAIN mem /\ (mem[at] = 0 \/ (op \in Limited /\ Len(out) >= strlen))
  BY <1>1, <1>2, <1>4, Zenon
<1>5. CASE /\ at \in DOMAIN mem /\ mem[at] # 0 /\ ~(op \in Limited /\ Len(out) >= strlen)
           /\ at + Width - 1 \notin DOMAIN mem
  BY <1>1, <1>2, <1>5, Zenon DEF Undefined
<1>6. CASE /\ at \in DOMAIN mem /\ mem[at] # 0 /\ ~(op \in Limited /\ Len(out) >= strlen)
           /\ at + Width - 1 \in DOMAIN mem
  <2>1. Put(Units)
    BY <1>2, <1>6, Zenon
  <2>2. \/ /\ tpc' = "undefined" /\ fault' = "write" /\ at' = at /\ out' = out
           /\ Len(out) + Len(Units) + 1 > space
        \/ /\ tpc' = tpc /\ at' = at + Width /\ out' = out \o Units
           /\ ~(Len(out) + Len(Units) + 1 > space)
    BY <2>1, Zenon DEF Put, Undefined
  <2>3. QED BY <1>1, <1>6, <2>2, Zenon
<1>7. QED
  BY <1>3, <1>4, <1>5, <1>6, Zenon

(* What holds at every turn.                                               *)
Copying ==
  /\ TextTypes /\ mem \in Seq(Unit) /\ wide \in BOOLEAN /\ at \in Nat /\ marks \in Seq(Nat)
  /\ count \in Nat /\ space \in Nat /\ DOMAIN mem = 1..Len(mem) /\ Len(mem) \in Nat
  /\ out \in Seq(Unit) /\ Len(out) \in Nat
  /\ Terminated /\ at >= 1 /\ op \in (IF wide THEN Narrowing \cup {"strcpy16"} ELSE Widening)
  /\ ~wide /\ ~CutOff => at <= strlen + 1
  /\ strlen \in Nat /\ strlen + 1 \in 1..Len(mem) /\ mem[strlen + 1] = 0
  /\ Source \in Seq(Unit \ {0}) /\ Source \in Seq(Unit) /\ Len(Source) = strlen
  /\ \A j \in 1..strlen : Source[j] = mem[j] /\ mem[j] # 0
  /\ Terminated' /\ strlen' = strlen /\ Source' = Source /\ CutOff' = CutOff

LEMMA IsCopying == TextInv /\ Copy => Copying
<1> SUFFICES ASSUME TextInv, Copy PROVE Copying
  OBVIOUS
<1>1. tpc = "copy" /\ mem' = mem
  BY Turns
<1>2. /\ TextTypes /\ mem \in Seq(Unit) /\ wide \in BOOLEAN /\ at \in Nat /\ marks \in Seq(Nat)
      /\ count \in Nat /\ space \in Nat /\ DOMAIN mem = 1..Len(mem) /\ Len(mem) \in Nat
      /\ out \in Seq(Unit) /\ Len(out) \in Nat
  BY DEF TextInv, TextTypes
<1>3. /\ Terminated /\ at >= 1 /\ op \in (IF wide THEN Narrowing \cup {"strcpy16"} ELSE Widening)
      /\ ~wide /\ ~CutOff => at <= strlen + 1
  BY <1>1, Zenon DEF TextInv, Working
<1>4. /\ strlen \in Nat /\ strlen + 1 \in 1..Len(mem) /\ mem[strlen + 1] = 0
      /\ Source \in Seq(Unit \ {0}) /\ Len(Source) = strlen
      /\ \A j \in 1..strlen : Source[j] = mem[j] /\ mem[j] # 0
  BY <1>2, <1>3, StrlenIs
<1>5. Source \in Seq(Unit)
  BY <1>4
<1>6. Terminated' /\ strlen' = strlen /\ Source' = Source /\ CutOff' = CutOff
  BY <1>1, <1>3, SameText
<1>7. QED
  BY <1>2, <1>3, <1>4, <1>5, <1>6, Zenon DEF Copying

(* strcpy16.                                                               *)
LEMMA CopyUnits ==
  ASSUME TextInv, Copy, op = "strcpy16"
  PROVE  TextInv'
<1>1. Copying
  BY IsCopying
<1>2. tpc = "copy" /\ op' = op /\ mem' = mem /\ wide' = wide /\ marks' = marks
      /\ count' = count /\ space' = space
  BY Turns
<1>3. at <= strlen + 1 /\ space = strlen + 1 /\ out = SubSeq(mem, 1, at - 1)
  BY <1>2 DEF TextInv, CopyInv, Copied
<1>4. /\ op \notin Widening /\ op \notin Narrowing /\ op \notin Searching /\ op \notin Comparing
      /\ wide
  <2>1. op \notin Widening /\ op \notin Narrowing /\ op \notin Searching /\ op \notin Comparing
    BY DEF Widening, Narrowing, Searching, Comparing
  <2>2. QED BY <1>1, <2>1, Zenon DEF Copying
<1>5. Width = 1 /\ Units = <<mem[at]>>
  BY <1>4, Zenon DEF Width, Units
<1>6. /\ at \in Nat /\ strlen \in Nat /\ at >= 1 /\ strlen + 1 \in 1..Len(mem)
      /\ mem[strlen + 1] = 0 /\ DOMAIN mem = 1..Len(mem) /\ Len(mem) \in Nat
      /\ mem \in Seq(Unit) /\ strlen' = strlen /\ Source' = Source
  BY <1>1 DEF Copying
<1>7. at \in DOMAIN mem /\ at + Width - 1 \in DOMAIN mem /\ Len(out) = at - 1
  BY <1>3, <1>5, <1>6
<1>8. CASE tpc' = "done"
  <2>1. at' = at /\ out' = out /\ (mem[at] = 0 \/ Len(out) >= strlen)
    BY <1>8, Turns
  <2>2. at = strlen + 1
    <3>1. mem[at] = 0 => ~(at <= strlen)
      BY <1>1, <1>6 DEF Copying
    <3>2. QED BY <1>3, <1>6, <1>7, <2>1, <3>1
  <2>3. out' = Source'
    <3>1. at - 1 = strlen
      BY <1>6, <2>2
    <3>2. QED BY <1>3, <1>6, <2>1, <3>1 DEF Source
  <2>4. TextTypes'
    BY <1>1, <1>2, <1>8, <2>1 DEF Copying, TextTypes
  <2>5. TextSurvives'
    BY <1>2, <1>4, <2>3, Zenon DEF TextSurvives
  <2>6. QED BY <1>2, <1>4, <1>8, <2>4, <2>5, AtDone
<1>9. CASE tpc' # "done"
  <2>1. /\ mem[at] # 0 /\ ~(op \in Limited /\ Len(out) >= strlen)
        /\ \/ tpc' = "undefined" /\ Len(out) + Len(Units) + 1 > space
           \/ tpc' = "copy" /\ at' = at + Width /\ out' = out \o Units
    BY <1>7, <1>9, Turns
  <2>2. at <= strlen
    BY <1>3, <1>6, <2>1
  <2>3. Len(Units) = 1
    BY <1>5
  <2>4. ~(Len(out) + Len(Units) + 1 > space)
    BY <1>3, <1>6, <1>7, <2>2, <2>3
  <2>5. tpc' = "copy" /\ at' = at + 1 /\ out' = out \o <<mem[at]>>
    BY <1>5, <2>1, <2>4
  <2>6. mem[at] \in Unit
    BY <1>6, <1>7
  <2>7. out' \in Seq(Unit) /\ at' \in Nat
    BY <1>1, <1>6, <2>5, <2>6 DEF Copying
  <2>8. TextTypes'
    BY <1>1, <1>2, <2>5, <2>7 DEF Copying, TextTypes
  <2>9. out' = SubSeq(mem, 1, at' - 1)
    <3>1. at' - 1 = at /\ at \in 1..Len(mem)
      BY <1>6, <1>7, <2>5
    <3>2. SubSeq(mem, 1, at) = SubSeq(mem, 1, at - 1) \o <<mem[at]>>
      BY <1>6, <3>1
    <3>3. QED BY <1>3, <2>5, <3>1, <3>2
  <2>10. Copied'
    BY <1>2, <1>3, <1>6, <2>2, <2>5, <2>9 DEF Copied
  <2>11. CopyInv'
    BY <1>2, <1>4, <2>10, Zenon DEF CopyInv
  <2>12. Idle' /\ CountInv'
    BY <2>5, Zenon DEF Idle, CountInv
  <2>13. Working'
    <3>1. at' >= 1 /\ op' \in (IF wide' THEN Narrowing \cup {"strcpy16"} ELSE Widening)
      BY <1>1, <1>2, <1>6, <2>5 DEF Copying
    <3>2. QED BY <1>1, <1>2, <1>4, <3>1, Zenon DEF Copying, Working
  <2>14. QED BY <2>5, <2>8, <2>11, <2>12, <2>13, AtWork
<1>10. QED
  BY <1>8, <1>9

(* strcpy16_8, read_C and str_str16_8.                                     *)
LEMMA CopyCharacters ==
  ASSUME TextInv, Copy, op \in Narrowing
  PROVE  TextInv'
<1>1. Copying
  BY IsCopying
<1>2. tpc = "copy" /\ op' = op /\ mem' = mem /\ wide' = wide /\ marks' = marks
      /\ count' = count /\ space' = space
  BY Turns
<1>3. /\ at <= strlen + 1 /\ out = Beginning(Source, at - 1)
      /\ op \in Limited /\ at > 1 => Len(Beginning(Source, at - 2)) < strlen
      /\ op = "strcpy16_8" => space = strlen + 1
  BY <1>2, Zenon DEF TextInv, CopyInv, Narrowed
<1>4. /\ op \notin Widening /\ op # "strcpy16" /\ op # "strdump"
      /\ op \notin Searching /\ op \notin Comparing /\ wide
      /\ op \in Limited \/ (op = "str_str16_8" /\ op \notin Limited)
      /\ op = "str_str16_8" => op \notin Limited
      /\ op \in Counting \/ op = "strcpy16_8"
  <2>1. /\ op \notin Widening /\ op # "strcpy16" /\ op # "strdump"
        /\ op \notin Searching /\ op \notin Comparing
        /\ op \in Limited \/ (op = "str_str16_8" /\ op \notin Limited)
        /\ op = "str_str16_8" => op \notin Limited
        /\ op \in Counting \/ op = "strcpy16_8"
    BY DEF Widening, Narrowing, Searching, Comparing, Limited, Counting
  <2>2. wide
    <3>1. op \in (IF wide THEN Narrowing \cup {"strcpy16"} ELSE Widening)
      BY <1>1, Zenon DEF Copying
    <3>2. QED BY <2>1, <3>1, Zenon
  <2>3. QED BY <2>1, <2>2
<1> DEFINE c == mem[at]
           u == unicode_to_utf8(mem[at])
           L == Len(Source)
<1>5. Width = 1 /\ Units = u
  BY <1>4, Zenon DEF Width, Units
<1>6. /\ at \in Nat /\ strlen \in Nat /\ at >= 1 /\ strlen + 1 \in 1..Len(mem)
      /\ mem[strlen + 1] = 0 /\ DOMAIN mem = 1..Len(mem) /\ Len(mem) \in Nat
      /\ mem \in Seq(Unit) /\ strlen' = strlen /\ Source' = Source /\ L = strlen
      /\ Source \in Seq(Unit) /\ out \in Seq(Unit) /\ Len(out) \in Nat
  BY <1>1 DEF Copying
<1>7. at \in DOMAIN mem /\ at + Width - 1 \in DOMAIN mem /\ at - 1 \in 0..L /\ c \in Unit
  BY <1>3, <1>5, <1>6
<1>8. /\ Len(Beginning(Source, at - 1)) >= at - 1
      /\ (\A i \in 1..(at - 1) : Source[i] < 128) => Len(Beginning(Source, at - 1)) = at - 1
  BY <1>6, <1>7, BeginningOfAscii
<1>9. c # 0 => at \in 1..L /\ Source[at] = c /\ at <= strlen
  <2> SUFFICES ASSUME c # 0 PROVE at \in 1..L /\ Source[at] = c /\ at <= strlen
    OBVIOUS
  <2>1. at # strlen + 1
    BY <1>6
  <2>2. at \in 1..strlen
    BY <1>3, <1>6, <2>1
  <2>3. QED BY <1>1, <1>6, <2>2 DEF Copying
<1> HIDE DEF c, L
<1>10. CASE tpc' = "done"
  <2>1. at' = at /\ out' = out /\ (c = 0 \/ (op \in Limited /\ Len(out) >= strlen))
    BY <1>10, Turns DEF c
  <2>2. c = 0 => at - 1 = L
    <3>1. \A j \in 1..strlen : mem[j] # 0
      BY <1>1 DEF Copying
    <3>2. c = 0 => ~(at \in 1..strlen)
      BY <3>1 DEF c
    <3>3. QED BY <1>3, <1>6, <3>2
  <2>3. at - 1 = L <=> op = "str_str16_8" \/ \A i \in 1..(L - 1) : Source[i] < 128
    <3>1. CASE op = "str_str16_8"
      BY <1>4, <2>1, <2>2, <3>1
    <3>2. CASE op \in Limited
      <4>1. ASSUME at - 1 = L, NEW i \in 1..(L - 1) PROVE Source[i] < 128
        <5> SUFFICES ASSUME ~(Source[i] < 128) PROVE FALSE
          OBVIOUS
        <5>1. at > 1 /\ at - 2 = L - 1 /\ L - 1 \in 0..L /\ L \in Nat
          BY <1>6, <4>1
        <5>2. Len(Beginning(Source, L - 1)) < strlen
          BY <1>3, <3>2, <5>1
        <5>3. Len(Beginning(Source, L - 1)) > L - 1
          BY <1>6, <5>1, BeginningOfAscii DEF L
        <5>4. Len(Beginning(Source, L - 1)) \in Nat
          BY <1>6, <5>1, BeginningIs DEF L
        <5>5. QED BY <1>6, <5>1, <5>2, <5>3, <5>4
      <4>2. ASSUME \A i \in 1..(L - 1) : Source[i] < 128, at - 1 # L PROVE FALSE
        <5>1. at - 1 \in Nat /\ at - 1 <= L - 1 /\ c # 0
          BY <1>6, <1>7, <2>2, <4>2
        <5>2. \A i \in 1..(at - 1) : Source[i] < 128
          <6>1. \A i \in 1..(at - 1) : i \in 1..(L - 1)
            BY <1>6, <5>1
          <6>2. QED BY <4>2, <6>1
        <5>3. Len(out) = at - 1
          BY <1>3, <1>8, <5>2
        <5>4. QED BY <1>6, <2>1, <5>1, <5>3
      <4>3. op # "str_str16_8"
        BY <1>4, <3>2
      <4>4. QED BY <4>1, <4>2, <4>3
    <3>3. QED BY <1>4, <3>1, <3>2
  <2>4. TextTypes'
    BY <1>1, <1>2, <1>10, <2>1 DEF Copying, TextTypes
  <2>5. \E n \in 0..Len(Source') :
          /\ out' = Encoding(SubSeq(Source', 1, n))
          /\ n = Len(Source') <=> op' = "str_str16_8" \/ \A i \in 1..(Len(Source') - 1) : Source'[i] < 128
    <3>1. out' = Encoding(SubSeq(Source, 1, at - 1))
      BY <1>3, <2>1, Zenon DEF Beginning
    <3>2. \E n \in 0..L :
            /\ out' = Encoding(SubSeq(Source, 1, n))
            /\ n = L <=> op = "str_str16_8" \/ \A i \in 1..(L - 1) : Source[i] < 128
      BY <1>7, <2>3, <3>1, Zenon
    <3>3. QED BY <1>2, <1>6, <3>2, Zenon DEF L
  <2>6. TextSurvives'
    BY <1>2, <1>4, <2>5, Zenon DEF TextSurvives
  <2>7. QED BY <1>2, <1>4, <1>10, <2>4, <2>6, AtDone
<1>11. CASE tpc' # "done"
  <2>1. /\ c # 0 /\ ~(op \in Limited /\ Len(out) >= strlen)
        /\ \/ /\ tpc' = "undefined" /\ fault' = "write" /\ at' = at /\ out' = out
              /\ Len(out) + Len(Units) + 1 > space
           \/ tpc' = "copy" /\ at' = at + Width /\ out' = out \o Units
    BY <1>7, <1>11, Turns DEF c
  <2>2. at \in 1..L /\ Source[at] = c /\ at <= strlen
    BY <1>9, <2>1
  <2>3. CASE tpc' = "undefined"
    <3>1. fault' = "write" /\ at' = at /\ out' = out /\ Len(out) + Len(u) + 1 > space
      BY <1>5, <2>1, <2>3
    <3>2. TextTypes'
      BY <1>1, <1>2, <2>3, <3>1 DEF Copying, TextTypes
    <3>3. op = "strcpy16_8" => \E i \in DOMAIN Source : Source[i] >= 128
      <4> SUFFICES ASSUME op = "strcpy16_8", \A i \in DOMAIN Source : ~(Source[i] >= 128)
                   PROVE  FALSE
        OBVIOUS
      <4>1. \A i \in 1..L : Source[i] < 128
        <5>1. \A i \in 1..L : i \in DOMAIN Source /\ Source[i] \in Nat
          BY <1>6 DEF L, Unit
        <5>2. QED BY <5>1
      <4>2. \A i \in 1..(at - 1) : Source[i] < 128
        BY <1>6, <1>7, <4>1
      <4>3. Len(out) = at - 1
        BY <1>3, <1>8, <4>2
      <4>4. c < 128
        BY <2>2, <4>1
      <4>5. Len(u) = 1
        BY <1>7, <4>4, CharacterIs DEF c
      <4>6. QED BY <1>3, <1>6, <2>2, <3>1, <4>3, <4>5
    <3>4. op # "strcpy16_8" => op \in Narrowing \cap Counting /\ Source # <<>>
      <4>1. Source # <<>>
        BY <2>2, <1>6 DEF L
      <4>2. QED BY <1>4, <4>1
    <3>5. ConversionsStayInside'
      <4>1. op' = "strcpy16_8" => fault' = "write" /\ \E i \in DOMAIN Source' : Source'[i] >= 128
        BY <1>2, <1>6, <3>1, <3>3
      <4>2. op' # "strcpy16_8" => op' \in Narrowing \cap Counting /\ Source' # <<>>
        BY <1>2, <1>6, <3>4
      <4>3. QED BY <4>1, <4>2, Zenon DEF ConversionsStayInside
    <3>6. QED BY <1>2, <1>4, <2>3, <3>2, <3>5, AtUndefined
  <2>4. CASE tpc' # "undefined"
    <3>1. tpc' = "copy" /\ at' = at + 1 /\ out' = out \o u
      BY <1>5, <2>1, <2>4
    <3>2. Beginning(Source, at) = Beginning(Source, at - 1) \o unicode_to_utf8(Source[at])
      BY <1>6, <2>2, BeginningIs DEF L
    <3>3. at' - 1 = at /\ at' - 2 = at - 1 /\ at' >= 1 /\ at' \in Nat /\ at' <= strlen + 1
      BY <1>6, <2>2, <3>1
    <3>4. out' = Beginning(Source', at' - 1)
      BY <1>3, <1>6, <2>2, <3>1, <3>2, <3>3 DEF c
    <3>5. out' \in Seq(Unit)
      <4>1. at \in 0..L
        BY <1>6, <2>2
      <4>2. QED BY <1>6, <3>3, <3>4, <4>1, BeginningIs DEF L
    <3>6. TextTypes'
      BY <1>1, <1>2, <3>1, <3>3, <3>5 DEF Copying, TextTypes
    <3>7. op \in Limited => Len(Beginning(Source', at' - 2)) < strlen'
      <4>1. op \in Limited => Len(out) < strlen
        BY <1>6, <2>1
      <4>2. QED BY <1>3, <1>6, <3>3, <4>1
    <3>8. Narrowed'
      <4>1. at' <= strlen' + 1
        BY <1>6, <3>3
      <4>2. op' = "strcpy16_8" => space' = strlen' + 1
        BY <1>2, <1>3, <1>6
      <4>3. QED BY <1>2, <3>4, <3>7, <4>1, <4>2, Zenon DEF Narrowed
    <3>9. CopyInv'
      BY <1>2, <1>4, <3>8, Zenon DEF CopyInv
    <3>10. Idle' /\ CountInv'
      BY <3>1, Zenon DEF Idle, CountInv
    <3>11. Working'
      <4>1. at' >= 1 /\ op' \in (IF wide' THEN Narrowing \cup {"strcpy16"} ELSE Widening)
        BY <1>1, <1>2, <3>3 DEF Copying
      <4>2. QED BY <1>1, <1>2, <1>4, <4>1, Zenon DEF Copying, Working
    <3>12. QED BY <3>1, <3>6, <3>9, <3>10, <3>11, AtWork
  <2>5. QED BY <2>3, <2>4
<1>12. QED
  BY <1>10, <1>11

(* What a copy of a text in UTF-8 comes to is its next character.          *)
LEMMA NextCharacter ==
  ASSUME Copying, NEW t \in Seq(Unit \ {0}), t \in Seq(Unit), Source = Encoding(t),
         NEW k \in Nat, k < Len(t), at = Len(Beginning(t, k)) + 1
  PROVE  LET u == unicode_to_utf8(t[k + 1])
         IN  /\ t[k + 1] \in Unit /\ u \in Seq(Unit) /\ Len(u) \in Nat /\ Len(u) >= 1
             /\ at + Len(u) - 1 <= strlen
             /\ \A j \in 1..Len(u) : mem[at + (j - 1)] = u[j]
             /\ Len(Beginning(t, k + 1)) = Len(Beginning(t, k)) + Len(u)
             /\ mem[at] = u[1] /\ mem[at] # 0
<1> DEFINE u == unicode_to_utf8(t[k + 1])
           n == Len(Beginning(t, k))
           m == Len(Beginning(t, k + 1))
<1>1. /\ Len(t) \in Nat /\ k \in 0..Len(t) /\ k + 1 \in 1..Len(t) /\ k + 1 \in 0..Len(t)
      /\ (k + 1) - 1 = k /\ Len(t) \in (k + 1)..Len(t)
  OBVIOUS
<1>2. t[k + 1] \in Unit /\ t[k + 1] # 0
  BY <1>1
<1>3. u \in Seq(Unit) /\ Len(u) \in Nat /\ Len(u) >= 1 /\ u[1] # 0
  BY <1>2, CharacterIs
<1>4. /\ Beginning(t, k) \in Seq(Unit) /\ Beginning(t, k + 1) \in Seq(Unit)
      /\ Beginning(t, k + 1) = Beginning(t, k) \o u
      /\ Beginning(t, Len(t)) = Source
  <2>1. Beginning(t, k) \in Seq(Unit) /\ Beginning(t, k + 1) \in Seq(Unit)
    BY <1>1, BeginningIs
  <2>2. Beginning(t, k + 1) = Beginning(t, k) \o u
    BY <1>1, BeginningIs
  <2>3. QED BY <2>1, <2>2, BeginningIs
<1>5. n \in Nat /\ m \in Nat
  BY <1>4
<1> HIDE DEF u
<1>6. m = n + Len(u) /\ \A j \in 1..Len(u) : Beginning(t, k + 1)[n + j] = u[j]
  BY <1>3, <1>4, Joined
<1>7. /\ Len(Source) >= m + (Len(t) - (k + 1))
      /\ \A i \in 1..m : Source[i] = Beginning(t, k + 1)[i]
  BY <1>1, <1>4, BeginningGrows, ZenonT(30)
<1>8. /\ strlen \in Nat /\ Len(Source) = strlen /\ \A j \in 1..strlen : Source[j] = mem[j]
      /\ at \in Nat
  BY DEF Copying
<1>9. m <= strlen /\ at = n + 1
  BY <1>1, <1>5, <1>7, <1>8
<1> HIDE DEF n, m
<1>10. at + Len(u) - 1 <= strlen
  BY <1>3, <1>5, <1>6, <1>8, <1>9
<1>11. ASSUME NEW j \in 1..Len(u) PROVE mem[at + (j - 1)] = u[j]
  <2>1. at + (j - 1) = n + j /\ n + j \in 1..m /\ n + j \in 1..strlen
    <3>1. j \in Nat /\ j >= 1 /\ j <= Len(u) /\ Len(u) \in Nat
      BY <1>3
    <3>2. m = n + Len(u) /\ n \in Nat /\ m \in Nat /\ m <= strlen /\ at = n + 1 /\ strlen \in Nat
      BY <1>5, <1>6, <1>8, <1>9
    <3>3. QED BY <3>1, <3>2
  <2>2. QED BY <1>6, <1>7, <1>8, <2>1
<1>12. mem[at] = u[1]
  <2>1. 1 \in 1..Len(u) /\ at + (1 - 1) = at
    BY <1>3, <1>8
  <2>2. QED BY <1>11, <2>1
<1>13. QED
  BY <1>2, <1>3, <1>6, <1>10, <1>11, <1>12 DEF u, n, m

(* strcpy8_16 and str_n_str8_16.                                           *)
LEMMA CopyWide ==
  ASSUME TextInv, Copy, op \in Widening
  PROVE  TextInv'
<1>1. Copying
  BY IsCopying
<1>2. tpc = "copy" /\ op' = op /\ mem' = mem /\ wide' = wide /\ marks' = marks
      /\ count' = count /\ space' = space
  BY Turns
<1>3. /\ op = "strcpy8_16" => space = strlen + 1
      /\ op = "str_n_str8_16" => Counted
      /\ \A t \in Texts : Source = Encoding(t) =>
           /\ Len(out) <= Len(t) /\ out = SubSeq(t, 1, Len(out))
           /\ at = Len(Beginning(t, Len(out))) + 1
  BY <1>2, Zenon DEF TextInv, CopyInv, Widened
<1>4. /\ op \notin Narrowing /\ op # "strcpy16" /\ op # "strdump"
      /\ op \notin Searching /\ op \notin Comparing /\ ~wide
      /\ op = "strcpy8_16" \/ op = "str_n_str8_16"
      /\ op = "strcpy8_16" <=> op \in Limited
  <2>1. /\ op \notin Narrowing /\ op # "strcpy16" /\ op # "strdump"
        /\ op \notin Searching /\ op \notin Comparing
        /\ op = "strcpy8_16" \/ op = "str_n_str8_16"
        /\ op = "strcpy8_16" <=> op \in Limited
    BY DEF Widening, Narrowing, Searching, Comparing, Limited
  <2>2. ~wide
    <3>1. op \in (IF wide THEN Narrowing \cup {"strcpy16"} ELSE Widening)
      BY <1>1, Zenon DEF Copying
    <3>2. QED BY <2>1, <3>1
  <2>3. QED BY <2>1, <2>2
<1> DEFINE c == mem[at]
           v == utf8_to_unicode(SubSeq(mem, at, at + Width - 1))
<1>5. Width = 1 + Follow(c) /\ Units = <<v>>
  BY Zenon DEF Width, Units
<1>6. /\ at \in Nat /\ strlen \in Nat /\ at >= 1 /\ strlen + 1 \in 1..Len(mem)
      /\ mem[strlen + 1] = 0 /\ DOMAIN mem = 1..Len(mem) /\ Len(mem) \in Nat
      /\ mem \in Seq(Unit) /\ strlen' = strlen /\ Source' = Source /\ Len(Source) = strlen
      /\ out \in Seq(Unit) /\ Len(out) \in Nat /\ space \in Nat /\ Terminated
      /\ ~CutOff => at <= strlen + 1
  BY <1>1, <1>4 DEF Copying
<1> HIDE DEF v, c
<1>7. Len(Units) = 1
  BY <1>5
<1>8. ~CutOff /\ at \in DOMAIN mem /\ c # 0 =>
        Follow(c) \in Nat /\ at + Follow(c) <= strlen /\ at + Width - 1 \in DOMAIN mem
  <2> SUFFICES ASSUME ~CutOff, c # 0
               PROVE  Follow(c) \in Nat /\ at + Follow(c) <= strlen /\ at + Width - 1 \in DOMAIN mem
    OBVIOUS
  <2>1. Follow(c) \in Nat /\ at + Follow(c) <= strlen
    BY <1>6, NotPast DEF c
  <2>2. QED BY <1>5, <1>6, <2>1
(* A text that was sent in UTF-8 and has not arrived has a character here. *)
<1>9. ASSUME NEW t \in Texts, Source = Encoding(t), Len(out) < Len(t)
      PROVE  c # 0 /\ Len(out) < strlen
  <2>1. t \in Seq(Unit \ {0}) /\ t \in Seq(Unit) /\ Len(t) \in Nat
    BY TextsAreTexts
  <2>2. at = Len(Beginning(t, Len(out))) + 1
    BY <1>3, <1>9
  <2>3. c # 0
    BY <1>1, <1>6, <1>9, <2>1, <2>2, NextCharacter DEF c
  <2>4. Len(Source) >= Len(t)
    BY <1>9, <2>1, BeginningOfAscii, BeginningIs
  <2>5. QED BY <1>6, <1>9, <2>1, <2>3, <2>4
<1>10. CASE tpc' = "done"
  <2>1. at' = at /\ out' = out /\ (c = 0 \/ (op \in Limited /\ Len(out) >= strlen))
    BY <1>10, Turns DEF c
  <2>2. TextTypes'
    BY <1>1, <1>2, <1>10, <2>1 DEF Copying, TextTypes
  <2>3. ASSUME NEW t \in Texts, Source = Encoding(t) PROVE out = t
    <3>1. t \in Seq(Unit) /\ Len(t) \in Nat
      BY TextsAreTexts
    <3>2. Len(out) <= Len(t) /\ out = SubSeq(t, 1, Len(out))
      BY <1>3, <2>3
    <3>3. ~(Len(out) < Len(t))
      BY <1>6, <1>9, <2>1, <2>3
    <3>4. Len(out) = Len(t)
      BY <1>6, <3>1, <3>2, <3>3
    <3>5. SubSeq(t, 1, Len(t)) = t
      BY <3>1
    <3>6. QED BY <3>2, <3>4, <3>5
  <2>4. \A t \in Texts : Source' = Encoding(t) => out' = t
    BY <1>6, <2>1, <2>3
  <2>5. TextSurvives'
    BY <1>2, <1>4, <2>4, Zenon DEF TextSurvives
  <2>6. QED BY <1>2, <1>4, <1>10, <2>2, <2>5, AtDone
<1>11. CASE tpc' = "undefined" /\ fault' = "read"
  <2>1. /\ at' = at /\ out' = out
        /\ at \notin DOMAIN mem \/ (at \in DOMAIN mem /\ c # 0 /\ at + Width - 1 \notin DOMAIN mem)
    BY <1>11, Turns DEF c
  <2>2. TextTypes'
    BY <1>1, <1>2, <1>11, <2>1 DEF Copying, TextTypes
  <2>3. CutOff
    <3>1. ~CutOff => at \in DOMAIN mem
      BY <1>6
    <3>2. QED BY <1>8, <2>1, <3>1
  <2>4. CutOff'
    BY <1>1, <2>3 DEF Copying
  <2>5. ConversionsStayInside'
    BY <1>2, <1>11, <2>4, Zenon DEF ConversionsStayInside
  <2>6. QED BY <1>2, <1>4, <1>11, <2>2, <2>5, AtUndefined
<1>12. CASE /\ at \in DOMAIN mem /\ c # 0 /\ at + Width - 1 \in DOMAIN mem
            /\ ~(op \in Limited /\ Len(out) >= strlen)
            /\ tpc' \notin {"done"}
            /\ ~(tpc' = "undefined" /\ fault' = "read")
  <2>1. op = "str_n_str8_16" => Len(out) < Len(marks) /\ Len(marks) \in Nat
    <3> SUFFICES ASSUME op = "str_n_str8_16" PROVE Len(out) < Len(marks) /\ Len(marks) \in Nat
      OBVIOUS
    <3>1. /\ mem[Reached] = 0 /\ Len(out) <= Len(marks)
          /\ at = IF Len(out) < Len(marks) THEN marks[Len(out) + 1] ELSE Reached
      BY <1>3 DEF Counted
    <3>2. Len(marks) \in Nat
      BY <1>1 DEF Copying
    <3>3. QED BY <1>12, <3>1, <3>2 DEF c
  <2>2. ~(Len(out) + Len(Units) + 1 > space)
    <3>1. CASE op = "strcpy8_16"
      BY <1>3, <1>4, <1>6, <1>7, <1>12, <3>1
    <3>2. CASE op = "str_n_str8_16"
      <4>1. space = Len(marks) + 1
        BY <1>3, <3>2 DEF Counted
      <4>2. QED BY <1>6, <1>7, <2>1, <3>2, <4>1
    <3>3. QED BY <1>4, <3>1, <3>2
  <2>3. tpc' = "copy" /\ at' = at + Width /\ out' = out \o <<v>>
    BY <1>5, <1>12, <2>2, Turns
  <2>4. Follow(c) \in Nat /\ Width \in Nat /\ at \in 1..Len(mem) /\ c \in Unit
    <3>1. at \in 1..Len(mem) /\ c \in Unit
      BY <1>6, <1>12 DEF c
    <3>2. c \in Nat
      BY <3>1 DEF Unit
    <3>3. Follow(c) \in 0..3
      BY <3>2, FollowIs
    <3>4. QED BY <1>5, <3>1, <3>3
  <2> DEFINE e == at + Width - 1
             b == SubSeq(mem, at, e)
  <2>5. e \in Nat /\ e <= Len(mem) /\ at <= e + 1 /\ e - at + 1 = Width /\ Width >= 1
    BY <1>5, <1>6, <1>12, <2>4
  <2> HIDE DEF e
  <2>6. b \in Seq(Unit) /\ Len(b) = e - at + 1 /\ \A j \in 1..(e - at + 1) : b[j] = mem[at + j - 1]
    BY <1>6, <2>4, <2>5
  <2>7. Len(b) = Width /\ \A j \in 1..Width : b[j] = mem[at + (j - 1)]
    <3>1. \A j \in 1..Width : at + j - 1 = at + (j - 1)
      BY <1>6, <2>4
    <3>2. QED BY <2>5, <2>6, <3>1
  <2>8. b[1] = c
    <3>1. 1 \in 1..Width /\ at + (1 - 1) = at
      BY <1>6, <2>4, <2>5
    <3>2. QED BY <2>7, <3>1 DEF c
  <2>9. v = utf8_to_unicode(b)
    BY DEF v, e
  <2> HIDE DEF b
  <2>10. v \in Unit
    BY <1>5, <2>5, <2>6, <2>7, <2>8, <2>9, UnitsAreUnits
  <2>11. /\ out' \in Seq(Unit) /\ at' \in Nat /\ at' >= 1 /\ Len(out') = Len(out) + 1
    BY <1>6, <2>3, <2>4, <2>10
  <2>12. TextTypes'
    BY <1>1, <1>2, <2>3, <2>11 DEF Copying, TextTypes
  <2>13. Working'
    <3>1. ~CutOff => at' <= strlen + 1
      BY <1>5, <1>6, <1>8, <1>12, <2>3, <2>4, SMTT(20)
    <3>2. op' \in (IF wide' THEN Narrowing \cup {"strcpy16"} ELSE Widening)
      BY <1>1, <1>2 DEF Copying
    <3>3. QED BY <1>1, <1>2, <2>11, <3>1, <3>2, Zenon DEF Copying, Working
  <2>14. Idle' /\ CountInv'
    BY <2>3, Zenon DEF Idle, CountInv
  <2>15. op = "str_n_str8_16" => Counted'
    <3> SUFFICES ASSUME op = "str_n_str8_16" PROVE Counted'
      OBVIOUS
    <3>1. /\ Walked /\ Reached \in 1..Len(mem) /\ mem[Reached] = 0
          /\ space = Len(marks) + 1
          /\ at = marks[Len(out) + 1] /\ Len(out) < Len(marks) /\ Len(marks) \in Nat
      BY <1>3, <2>1 DEF Counted
    <3>2. Walked' /\ Reached' = Reached
      BY <1>2, <3>1 DEF Walked, Reached, After
    <3>3. at' = After(at)
      BY <1>5, <1>6, <2>3, <2>4 DEF After, c
    <3>4. at' = IF Len(out') < Len(marks) THEN marks[Len(out') + 1] ELSE Reached
      <4>1. CASE Len(out') < Len(marks)
        <5>1. /\ Len(out') + 1 \in 1..Len(marks) /\ Len(out') + 1 # 1
              /\ (Len(out') + 1) - 1 = Len(out) + 1
          BY <1>6, <2>11, <3>1, <4>1
        <5>2. marks[Len(out') + 1] = After(marks[Len(out) + 1])
          BY <3>1, <5>1 DEF Walked
        <5>3. QED BY <3>1, <3>3, <4>1, <5>2
      <4>2. CASE ~(Len(out') < Len(marks))
        <5>1. Len(marks) = Len(out) + 1 /\ marks # <<>>
          BY <1>6, <2>11, <3>1, <4>2
        <5>2. Reached = After(marks[Len(out) + 1])
          BY <5>1 DEF Reached
        <5>3. QED BY <3>1, <3>3, <4>2, <5>2
      <4>3. QED BY <4>1, <4>2
    <3>5. Len(out') <= Len(marks)
      BY <1>6, <2>11, <3>1
    <3>6. QED BY <1>2, <3>1, <3>2, <3>4, <3>5 DEF Counted
  <2>16. ASSUME NEW t \in Texts, Source = Encoding(t)
         PROVE  /\ Len(out') <= Len(t) /\ out' = SubSeq(t, 1, Len(out'))
                /\ at' = Len(Beginning(t, Len(out'))) + 1
    <3> DEFINE k == Len(out)
    <3>1. t \in Seq(Unit \ {0}) /\ t \in Seq(Unit) /\ Len(t) \in Nat
      BY TextsAreTexts
    <3>2. k <= Len(t) /\ out = SubSeq(t, 1, k) /\ at = Len(Beginning(t, k)) + 1
      BY <1>3, <2>16
    <3>3. k # Len(t)
      <4> SUFFICES ASSUME k = Len(t) PROVE FALSE
        OBVIOUS
      <4>1. Beginning(t, k) = Source
        BY <2>16, <3>1, BeginningIs
      <4>2. at = strlen + 1
        BY <1>6, <3>2, <4>1
      <4>3. QED BY <1>6, <1>12, <4>2 DEF c
    <3>4. k \in Nat /\ k < Len(t)
      BY <1>6, <3>1, <3>2, <3>3
    <3> DEFINE u == unicode_to_utf8(t[k + 1])
    <3>5. /\ t[k + 1] \in Unit /\ u \in Seq(Unit) /\ Len(u) \in Nat /\ Len(u) >= 1
          /\ \A j \in 1..Len(u) : mem[at + (j - 1)] = u[j]
          /\ Len(Beginning(t, k + 1)) = Len(Beginning(t, k)) + Len(u)
          /\ c = u[1]
      <4> HIDE DEF k
      <4>1. QED BY <1>1, <2>16, <3>1, <3>2, <3>4, NextCharacter DEF c
    <3>6. Len(u) = 1 + Follow(u[1]) /\ utf8_to_unicode(u) = t[k + 1]
      BY <3>5, CharacterIs
    <3> HIDE DEF u
    <3>7. Len(u) = Width
      BY <1>5, <3>5, <3>6
    <3>8. b = u
      <4>1. \A j \in 1..Width : b[j] = u[j]
        BY <2>7, <3>5, <3>7
      <4>2. b = [j \in 1..Width |-> b[j]] /\ u = [j \in 1..Width |-> u[j]]
        BY <2>6, <2>7, <3>5, <3>7
      <4>3. QED BY <4>1, <4>2
    <3>9. v = t[k + 1]
      BY <2>9, <3>6, <3>8
    <3>10. Len(out') = k + 1
      BY <2>11
    <3> HIDE DEF k
    <3>11. out' = SubSeq(t, 1, k + 1)
      <4>1. SubSeq(t, 1, k + 1) = SubSeq(t, 1, k) \o <<t[k + 1]>>
        BY <3>1, <3>4
      <4>2. QED BY <2>3, <3>2, <3>9, <4>1
    <3>12. at' = Len(Beginning(t, k + 1)) + 1
      <4>1. Len(Beginning(t, k)) \in Nat
        BY <3>1, <3>4, BeginningIs
      <4> DEFINE x == Len(Beginning(t, k))
                 y == Len(Beginning(t, k + 1))
      <4>2. x \in Nat /\ Len(u) \in Nat /\ y = x + Len(u) /\ at = x + 1 /\ at' = at + Len(u)
        BY <2>3, <3>2, <3>5, <3>7, <4>1
      <4> HIDE DEF x, y
      <4>3. at' = y + 1
        BY <4>2
      <4>4. QED BY <4>3 DEF y
    <3>13. QED BY <3>1, <3>4, <3>10, <3>11, <3>12
  <2>17. Widened'
    BY <1>2, <1>3, <1>6, <2>15, <2>16, Zenon DEF Widened
  <2>18. CopyInv'
    BY <1>2, <1>4, <2>17, Zenon DEF CopyInv
  <2>19. QED BY <2>3, <2>12, <2>13, <2>14, <2>18, AtWork
<1>13. QED
  <2>1. \/ tpc' = "done" \/ (tpc' = "undefined" /\ fault' = "read")
        \/ /\ at \in DOMAIN mem /\ c # 0 /\ at + Width - 1 \in DOMAIN mem
           /\ ~(op \in Limited /\ Len(out) >= strlen)
           /\ tpc' \notin {"done"}
           /\ ~(tpc' = "undefined" /\ fault' = "read")
    <3>1. mem[at] # 0 <=> c # 0
      BY DEF c
    <3>2. QED BY <3>1, Turns, Zenon
  <2>2. QED BY <1>10, <1>11, <1>12, <2>1

---------------------------------------------------------------------------
LEMMA TextStep == TextInv /\ [TextNext]_textVars => TextInv'
<1> SUFFICES ASSUME TextInv, [TextNext]_textVars PROVE TextInv'
  OBVIOUS
<1>1. ASSUME NEW f \in Narrowing \cup {"strcpy16"}, wide, Call(f) PROVE TextInv'
  BY <1>1, CallStep, Zenon
<1>2. ASSUME NEW f \in Widening, ~wide, Call(f) PROVE TextInv'
  BY <1>2, CallStep, Zenon
<1>3. ASSUME NEW f \in Dumping, Dump(f) PROVE TextInv'
  BY <1>3, DumpStep
<1>4. ASSUME NEW f \in Comparing, Compare(f) PROVE TextInv'
  BY <1>4, CompareStep
<1>5. ASSUME NEW f \in Searching, Search(f) PROVE TextInv'
  BY <1>5, SearchCallStep
<1>6. CASE Count
  BY <1>6, CountStep
<1>7. CASE Copy
  <2>1. Copying
    BY <1>7, IsCopying
  <2>2. op \in Narrowing \/ op = "strcpy16" \/ op \in Widening
    BY <2>1 DEF Copying
  <2>3. QED BY <1>7, <2>2, CopyUnits, CopyCharacters, CopyWide
<1>8. CASE SearchStep
  BY <1>8, SearchStepStep
<1>9. CASE Use
  BY <1>9, UseStep
<1>10. CASE UNCHANGED textVars
  <2>1. /\ mem' = mem /\ wide' = wide /\ op' = op /\ tpc' = tpc /\ at' = at /\ marks' = marks
        /\ count' = count /\ space' = space /\ out' = out /\ fault' = fault
    BY <1>10 DEF textVars
  <2>2. /\ Terminated' = Terminated /\ strlen' = strlen /\ Source' = Source /\ CutOff' = CutOff
    BY <2>1, SameText
  <2>3. TextTypes' /\ Idle' /\ Working'
    BY <2>1, <2>2, Zenon DEF TextInv, TextTypes, Idle, Working
  <2>4. Walked' = Walked /\ Reached' = Reached
    BY <2>1 DEF Walked, Reached, After
  <2>5. CountInv'
    BY <2>1, <2>2, <2>4, Zenon DEF TextInv, CountInv
  <2>6. Copied' = Copied /\ Narrowed' = Narrowed /\ Counted' = Counted
    BY <2>1, <2>2, <2>4 DEF Copied, Narrowed, Counted
  <2>7. CopyInv'
    BY <2>1, <2>2, <2>6, Zenon DEF TextInv, CopyInv, Widened
  <2>8. Places' = Places
    BY <2>1, <2>2 DEF Places
  <2>9. SearchInv'
    BY <2>1, <2>2, <2>8, Zenon DEF TextInv, SearchInv
  <2>10. ConversionsStayInside' /\ TextSurvives' /\ SearchNeverMisses'
    BY <2>1, <2>2, <2>8, ZenonT(30) DEF TextInv, ConversionsStayInside, TextSurvives, SearchNeverMisses
  <2>11. QED BY <2>3, <2>5, <2>7, <2>9, <2>10, Zenon DEF TextInv
<1>11. QED
  BY <1>1, <1>2, <1>3, <1>4, <1>5, <1>6, <1>7, <1>8, <1>9, <1>10, Zenon DEF TextNext

LEMMA TextInvariant == TextSpec => []TextInv
BY InitText, TextStep, PTL DEF TextSpec

(* The loops of char16_t.cpp and the copies of utils.cpp leave a memory    *)
(* only through the calls that ConversionsStayInside names.                *)
THEOREM ConversionsStayInsideInvariant == TextSpec => []ConversionsStayInside
<1>1. TextInv => ConversionsStayInside
  BY DEF TextInv
<1>2. QED
  BY <1>1, TextInvariant, PTL

(* What strcpy16, strcpy8_16, str_n_str8_16, read_C and str_str16_8 write  *)
(* is the text they were given, or as much of it as strcpy16_8 has room    *)
(* for.                                                                    *)
THEOREM TextSurvivesInvariant == TextSpec => []TextSurvives
<1>1. TextInv => TextSurvives
  BY DEF TextInv
<1>2. QED
  BY <1>1, TextInvariant, PTL

(* strcmp16 and strcnmp16 never tell the same texts apart, and strstr16    *)
(* and strrstr16 never miss a text that is there.                          *)
THEOREM SearchNeverMissesInvariant == TextSpec => []SearchNeverMisses
<1>1. TextInv => SearchNeverMisses
  BY DEF TextInv
<1>2. QED
  BY <1>1, TextInvariant, PTL
=============================================================================
