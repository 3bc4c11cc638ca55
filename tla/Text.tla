-------------------------------- MODULE Text --------------------------------
(***************************************************************************)
(* The texts of packets and of the database (libSharun/char16_t.cpp, and   *)
(* the copies of utils.cpp), in 16-bit units and in UTF-8: one call after  *)
(* the other, each loop a step at a time, over the memory of the text.     *)
(*                                                                         *)
(* Units and bytes are numbers.  What follows a text in its packet can be  *)
(* read, and what follows that cannot.  An invalid access ends the call.   *)
(***************************************************************************)
EXTENDS Naturals, Sequences

CONSTANTS Texts,   \* the texts of 16-bit units
          Rows,    \* the texts of bytes: rows of the database
          Behind   \* what follows a text in its memory

Unit == {u \in Nat : u < 65536}

ASSUME TextsAssumption  == Texts \subseteq Seq(Unit \ {0})
ASSUME RowsAssumption   == Rows \subseteq Seq(Unit \ {0})
ASSUME BehindAssumption == Behind \subseteq Seq(Unit)

VARIABLES
  mem,    \* the memory of the text: the text, a zero, what follows
  wide,   \* it is of 16-bit units
  op,     \* the function called
  tpc,    \* where it is: "idle", "count", "copy", "search", "done", "undefined"
  at,     \* the unit it reads next; the place strstr16 finds, 0 for NULL
  marks,  \* the characters utf8_to_unicode_length has counted, by their places
  count,  \* the length unicode_to_utf8_length has added up
  space,   \* the units there are at dst
  out,    \* what is written, before its zero; the text strstr16 looks for
  fault   \* "none", or the access outside a memory: "read" or "write"

textVars == <<mem, wide, op, tpc, at, marks, count, space, out, fault>>

Widening  == {"strcpy8_16", "str_n_str8_16"}               \* Query_S, write_C
Narrowing == {"strcpy16_8", "read_C", "str_str16_8"}
Dumping   == {"strdump", "bytedump"}                       \* Query_char
Comparing == {"strcmp16", "strcnmp16"}
Searching == {"strstr16", "strrstr16"}
Counting  == {"str_n_str8_16", "read_C", "str_str16_8"}    \* dst is made for it
Limited   == {"strcpy8_16", "strcpy16_8", "read_C", "strcpy16"}   \* called with len

Terminated == \E k \in DOMAIN mem : mem[k] = 0
strlen     == (CHOOSE k \in DOMAIN mem : mem[k] = 0 /\ \A j \in 1..(k - 1) : mem[j] # 0) - 1
Source     == SubSeq(mem, 1, strlen)

TextInit ==
  /\ wide \in BOOLEAN
  /\ \E t \in (IF wide THEN Texts ELSE Rows), b \in Behind : mem = t \o <<0>> \o b
  /\ op = "none" /\ tpc = "idle" /\ fault = "none"
  /\ at = 1 /\ marks = <<>> /\ count = 0 /\ space = 0 /\ out = <<>>

---------------------------------------------------------------------------
(* Characters. *)

(* The bytes of a character that follow its first: it begins with 110,     *)
(* 1110 or 11110 if there are any.                                         *)
Follow(b) == IF b < 192 \/ b >= 248 THEN 0
             ELSE IF b < 224 THEN 1 ELSE IF b < 240 THEN 2 ELSE 3

(* A unit has 16 bits; a byte no character begins with becomes 0xffff. *)
utf8_to_unicode(b) ==
  IF b[1] < 128 THEN b[1]
  ELSE IF Follow(b[1]) = 1 THEN (b[1] % 32) * 64 + (b[2] % 64)
  ELSE IF Follow(b[1]) = 2 THEN (b[1] % 16) * 4096 + (b[2] % 64) * 64 + (b[3] % 64)
  ELSE IF Follow(b[1]) = 3 THEN (b[2] % 16) * 4096 + (b[3] % 64) * 64 + (b[4] % 64)
  ELSE 65535

(* Mutant: twelve bits in two bytes. *)
unicode_to_utf8Twelve(c) ==
  IF c < 128 THEN <<c>>
  ELSE IF c < 4096 THEN <<192 + (c \div 64), 128 + (c % 64)>>
  ELSE <<224 + (c \div 4096), 128 + ((c \div 64) % 64), 128 + (c % 64)>>

unicode_to_utf8(c) ==
  IF c < 128 THEN <<c>>
  ELSE IF c < 2048 THEN <<192 + (c \div 64), 128 + (c % 64)>>
  ELSE <<224 + (c \div 4096), 128 + ((c \div 64) % 64), 128 + (c % 64)>>

---------------------------------------------------------------------------
(* A call begins: in the loop that counts, or with the length that strcpy* *)
(* passes on as len, for which whoever gives dst has the room.             *)
Undefined(kind) == tpc' = "undefined" /\ fault' = kind

Call(f) ==
  /\ tpc = "idle" /\ op' = f
  /\ IF ~Terminated THEN Undefined("read") /\ UNCHANGED space
     ELSE /\ tpc' = IF f \in Counting THEN "count" ELSE "copy"
          /\ space' = IF f \in Counting THEN 0 ELSE strlen + 1
          /\ UNCHANGED fault
  /\ UNCHANGED <<mem, wide, at, marks, count, out>>

(* Mutant: there is no room for the zero. *)
CountCharactersOnly ==
  /\ IF mem[at] # 0
     THEN /\ marks' = Append(marks, at) /\ at' = at + 1 + Follow(mem[at])
          /\ UNCHANGED <<tpc, space>>
     ELSE tpc' = "copy" /\ space' = Len(marks) /\ at' = 1 /\ UNCHANGED marks
  /\ UNCHANGED count

(* utf8_to_unicode_length. *)
CountCharacters ==
  /\ IF mem[at] # 0
     THEN /\ marks' = Append(marks, at) /\ at' = at + 1 + Follow(mem[at])
          /\ UNCHANGED <<tpc, space>>
     ELSE tpc' = "copy" /\ space' = Len(marks) + 1 /\ at' = 1 /\ UNCHANGED marks
  /\ UNCHANGED count

(* unicode_to_utf8_length goes on by twice as many units as it adds bytes. *)
CountBytes ==
  LET n == Len(unicode_to_utf8(mem[at]))
  IN  /\ IF mem[at] # 0
         THEN count' = count + n /\ at' = at + 2 * n /\ UNCHANGED <<tpc, space>>
         ELSE tpc' = "copy" /\ space' = count + 1 /\ at' = 1 /\ UNCHANGED count
      /\ UNCHANGED marks

Count ==
  /\ tpc = "count"
  /\ IF at \notin DOMAIN mem
     THEN Undefined("read") /\ UNCHANGED <<at, marks, count, space>>
     ELSE (IF wide THEN CountBytes ELSE CountCharacters) /\ UNCHANGED fault
  /\ UNCHANGED <<mem, wide, op, out>>

(* One unit is copied, or becomes a character and a zero after it; with a  *)
(* len the loop ends when len - 1 units are written, though the last ones  *)
(* may have been written together.                                         *)
Width == IF op \in Widening THEN 1 + Follow(mem[at]) ELSE 1
Units ==
  IF op \in Widening THEN <<utf8_to_unicode(SubSeq(mem, at, at + Width - 1))>>
  ELSE IF op \in Narrowing THEN unicode_to_utf8(mem[at]) ELSE <<mem[at]>>

Put(u) ==
  IF Len(out) + Len(u) + 1 > space
  THEN Undefined("write") /\ UNCHANGED <<at, out>>
  ELSE out' = out \o u /\ at' = at + Width /\ UNCHANGED <<tpc, fault>>

Copy ==
  /\ tpc = "copy"
  /\ IF at \notin DOMAIN mem
     THEN Undefined("read") /\ UNCHANGED <<at, out>>
     ELSE IF mem[at] = 0 \/ (op \in Limited /\ Len(out) >= strlen)
     THEN tpc' = "done" /\ UNCHANGED <<at, out, fault>>
     ELSE IF at + Width - 1 \notin DOMAIN mem
     THEN Undefined("read") /\ UNCHANGED <<at, out>>
     ELSE Put(Units)
  /\ UNCHANGED <<mem, wide, op, marks, count, space>>

(* strdump; and bytedump, which copies as many bytes as a pointer has. *)
PointerSize == 8

Dump(f) ==
  /\ tpc = "idle" /\ ~wide /\ op' = f
  /\ LET n == IF f = "bytedump" THEN PointerSize ELSE strlen
     IN  IF Terminated /\ n <= Len(mem)
         THEN out' = SubSeq(mem, 1, n) /\ tpc' = "done" /\ UNCHANGED fault
         ELSE Undefined("read") /\ UNCHANGED out
  /\ UNCHANGED <<mem, wide, at, marks, count, space>>

(* The result is used.  str_n_str8_16 writes the zero after a character,   *)
(* and so none for an empty text.                                          *)
Garbage16 == 65

Use ==
  /\ tpc = "done" /\ op \in Widening \cup Narrowing
  /\ mem' = IF op = "str_n_str8_16" /\ out = <<>> THEN <<Garbage16>> ELSE out \o <<0>>
  /\ wide' = (op \in Widening) /\ tpc' = "idle" /\ op' = "none"
  /\ at' = 1 /\ marks' = <<>> /\ count' = 0 /\ space' = 0 /\ out' = <<>>
  /\ UNCHANGED fault

---------------------------------------------------------------------------
(* Comparisons.  memcmp is given a number of units and takes it for bytes, *)
(* the low byte of a unit first.                                           *)
Reaches(i, n) == n > 0 => i \in DOMAIN mem /\ i + (n - 1) \div 2 \in DOMAIN mem

SameBytes(text, i, n) ==
  /\ \A k \in 0..(n \div 2 - 1) : mem[i + k] = text[k + 1]
  /\ n % 2 = 1 => mem[i + n \div 2] % 256 = text[n \div 2 + 1] % 256

(* strcmp16 and strcnmp16, with the length of the second text; at is 1 if  *)
(* they find the texts the same, and 0 if not.                             *)
Same(f, text) ==
  LET n == Len(text)
  IN  IF f = "strcmp16" THEN strlen = n /\ SameBytes(text \o <<0>>, 1, n + 1)
      ELSE n # 0 /\ n <= strlen /\ SameBytes(text, 1, n)

Compare(f) ==
  /\ tpc = "idle" /\ wide /\ Terminated
  /\ op' = f /\ tpc' = "done"
  /\ out' \in Texts
  /\ at' = IF Same(f, out') THEN 1 ELSE 0
  /\ UNCHANGED <<mem, wide, marks, count, space, fault>>

(* Mutant: strrstr16 begins one place too early. *)
FirstPlaceEarly(f, n) ==
  IF strlen < n THEN 0 ELSE IF f = "strstr16" THEN 1 ELSE strlen - n

(* Where a search begins; 0 if the text is too short. *)
FirstPlace(f, n) ==
  IF strlen < n THEN 0 ELSE IF f = "strstr16" THEN 1 ELSE strlen - n + 1

Search(f) ==
  /\ tpc = "idle" /\ wide /\ Terminated
  /\ op' = f
  /\ out' \in Texts
  /\ at' = FirstPlace(f, Len(out'))
  /\ tpc' = IF strlen < Len(out') THEN "done" ELSE "search"
  /\ UNCHANGED <<mem, wide, marks, count, space, fault>>

(* The end of the text is tested after its units are compared. *)
SearchStep ==
  /\ tpc = "search"
  /\ IF ~Reaches(at, Len(out))
     THEN Undefined("read") /\ UNCHANGED at
     ELSE IF SameBytes(out, at, Len(out))
     THEN tpc' = "done" /\ UNCHANGED <<at, fault>>
     ELSE IF op = "strstr16" /\ at > strlen + 1
     THEN tpc' = "done" /\ at' = 0 /\ UNCHANGED fault
     ELSE at' = (IF op = "strstr16" THEN at + 1 ELSE at - 1) /\ UNCHANGED <<tpc, fault>>
  /\ UNCHANGED <<mem, wide, op, marks, count, space, out>>

TextNext ==
  \/ wide  /\ \E f \in Narrowing \cup {"strcpy16"} : Call(f)
  \/ ~wide /\ \E f \in Widening : Call(f)
  \/ \E f \in Dumping : Dump(f)
  \/ \E f \in Comparing : Compare(f)
  \/ \E f \in Searching : Search(f)
  \/ Count \/ Copy \/ SearchStep \/ Use

TextSpec == TextInit /\ [][TextNext]_textVars

---------------------------------------------------------------------------
Encoding(t) == LET e[n \in 0..Len(t)] == IF n = 0 THEN <<>>
                                         ELSE e[n - 1] \o unicode_to_utf8(t[n])
               IN  e[Len(t)]

(* A character that the end of the text cuts off. *)
CutOff == \E i \in DOMAIN Source : i + Follow(Source[i]) > Len(Source)

(* What a conversion counts is what it writes, and it ends where its text  *)
(* ends, whatever bytes come from the database: the only ones that go      *)
(* outside a memory are those that rely on unicode_to_utf8_length, that    *)
(* write a character of several bytes at the end of len, that read a text  *)
(* cut off inside a character, and bytedump; or whatever uses the empty    *)
(* text of str_n_str8_16.                                                  *)
ConversionsStayInside ==
  tpc = "undefined" /\ op \notin Searching /\ Terminated =>
    \/ op \in Narrowing \cap Counting /\ Source # <<>>
    \/ op = "strcpy16_8" /\ fault = "write" /\ \E i \in DOMAIN Source : Source[i] >= 128
    \/ op \in Widening /\ fault = "read" /\ CutOff
    \/ op = "bytedump"

(* What arrives is what was sent: rows in UTF-8 become their text; a text  *)
(* becomes the bytes of its first characters, and of all of them unless    *)
(* strcpy16_8 is called with len and one before the last is not ASCII.     *)
TextSurvives ==
  tpc = "done" =>
    /\ op \in {"strcpy16", "strdump"} => out = Source
    /\ op \in Widening => \A t \in Texts : Source = Encoding(t) => out = t
    /\ op \in Narrowing => \E n \in 0..Len(Source) :
         /\ out = Encoding(SubSeq(Source, 1, n))
         /\ n = Len(Source) <=> op = "str_str16_8" \/ \A i \in 1..(Len(Source) - 1) : Source[i] < 128

Places == {i \in 1..(Len(Source) + 1) :
             i + Len(out) <= Len(Source) + 1 /\ SubSeq(Source, i, i + Len(out) - 1) = out}

(* Half the bytes are compared, so that texts that differ may pass for the *)
(* same; but never the other way round.  A text that is there is found, at *)
(* the latest where it is, and a search that goes outside is for one that  *)
(* is not.                                                                 *)
SearchNeverMisses ==
  /\ op \in Comparing /\ tpc = "done" =>
       /\ out = Source /\ out # <<>> => at = 1
       /\ at = 1 => Len(out) <= Len(Source) /\ SubSeq(Source, 1, Len(out) \div 2)
                                               = SubSeq(out, 1, Len(out) \div 2)
  /\ op \in Searching /\ tpc \in {"done", "undefined"} /\ Places # {} =>
       /\ tpc = "done" /\ at # 0
       /\ \A i \in Places : IF op = "strstr16" THEN at <= i ELSE at >= i
=============================================================================
