------------------------------ MODULE Cryptor ------------------------------
(***************************************************************************)
(* The stream cipher of a game session (Cryptor.cpp, Session.cpp).  A call *)
(* of ApplyCryptor combines its bytes with the bytes of a key stream made  *)
(* of 4-byte words.  Bytes of the last word that a call leaves over are    *)
(* kept in ChangeData, ChangeLen of them, for the next call.               *)
(*                                                                         *)
(* A word comes from three generators, which move under majority clocking. *)
(* The values of the key buffers are left out: the carry of a sum, which   *)
(* becomes the clock bit of its generator, can be 0 or 1.  A byte of the   *)
(* key stream is known by its number.                                      *)
(*                                                                         *)
(* connexion_list::Decode asks for a negative number of bytes when a       *)
(* packet claims less than its head (GameLink).                            *)
(***************************************************************************)
EXTENDS Integers, FiniteSets

CONSTANTS Size,   \* CryptorKey::Size of the three generators
          Lag,    \* CryptorKey::MaxPos
          Total,  \* bound: the bytes a session carries
          MaxBack \* bound: the bytes asked for below none

Gens == 0..2

ASSUME SizeAssumption == Size \in [Gens -> Nat \ {0, 1}]
ASSUME LagAssumption  == Lag \in [Gens -> Nat] /\ \A j \in Gens : Lag[j] < Size[j]
ASSUME TotalAssumption == Total \in Nat
ASSUME MaxBackAssumption == MaxBack \in Nat

VARIABLES
  pos1, pos2,  \* CryptorKey::Pos1 and Pos2
  bit,         \* CryptorKey::Key
  changeLen,   \* ChangeLen
  part,        \* ChangeData: the number of the word it holds, or NoWord
  left,        \* size, of ApplyCryptor: the bytes of the call still to come
  offset,      \* the bytes of the call that are done
  pc,          \* "idle", or "words" inside ApplyCryptor
  used,        \* history: the key byte each byte of the call was given
  from,        \* history: the bytes of the calls before this one
  words,       \* history: the words made
  back         \* history: the bytes that were asked for below none

gens == <<pos1, pos2, bit, words>>
vars == <<pos1, pos2, bit, words, changeLen, part, left, offset, pc, used, from, back>>

NoWord == -1  \* ChangeData is 0 until a word is left over
NoKey  == -1  \* a byte that is none of the key stream's

Init ==
  /\ pos1 = [j \in Gens |-> 0] /\ pos2 = Lag
  /\ bit = [j \in Gens |-> 0]
  /\ changeLen = 0 /\ part = NoWord /\ left = 0 /\ offset = 0 /\ pc = "idle"
  /\ used = [i \in {} |-> 0] /\ from = 0 /\ words = 0 /\ back = 0

---------------------------------------------------------------------------
(* ((Key0 & Key1) | Key2) & (Key0 | Key1) *)
And(a, b) == a * b
Or(a, b)  == IF a + b = 0 THEN 0 ELSE 1
Result == And(Or(And(bit[0], bit[1]), bit[2]), Or(bit[0], bit[1]))

NextPos(j, p) == (p + 1) % Size[j]

(* The generators whose bit is the result move on, and get a new bit. *)
NextWord ==
  LET move == {j \in Gens : bit[j] = Result}
  IN  /\ pos1' = [j \in Gens |-> IF j \in move THEN NextPos(j, pos1[j]) ELSE pos1[j]]
      /\ pos2' = [j \in Gens |-> IF j \in move THEN NextPos(j, pos2[j]) ELSE pos2[j]]
      /\ bit' \in [Gens -> {0, 1}]
      /\ \A j \in Gens \ move : bit'[j] = bit[j]
      /\ words' = words + 1

(* The next k bytes are combined with the key bytes from b on. *)
Combine(k, b) ==
  /\ used' = [i \in 0..(offset + k - 1) |->
                IF i < offset THEN used[i] ELSE b + (i - offset)]
  /\ offset' = offset + k

---------------------------------------------------------------------------
(* The byte of ChangeData at b; before it is something else. *)
KeyByte(b) == IF part = NoWord \/ b < 0 THEN NoKey ELSE 4 * part + b

(* A call of n bytes begins with the bytes left over from the last word. *)
Leftover(n) == IF n >= changeLen THEN changeLen ELSE n

Apply(n) ==
  /\ pc = "idle" /\ pc' = "words"
  /\ from + offset + n <= Total
  /\ from' = from + offset
  /\ used' = [i \in 0..(Leftover(n) - 1) |-> KeyByte(4 - changeLen + i)]
  /\ offset' = Leftover(n)
  /\ left' = n - Leftover(n)
  /\ changeLen' = changeLen - Leftover(n)
  /\ UNCHANGED <<gens, part, back>>

(* A call of -k bytes combines none, and takes the bytes left over for k   *)
(* more than they are.                                                     *)
ApplyNegative(k) ==
  /\ pc = "idle" /\ back + k <= MaxBack
  /\ back' = back + k
  /\ changeLen' = changeLen + k
  /\ from' = from + offset /\ offset' = 0 /\ used' = [i \in {} |-> 0]
  /\ UNCHANGED <<gens, part, left, pc>>

WholeWord ==
  /\ pc = "words" /\ left >= 4
  /\ NextWord
  /\ Combine(4, 4 * words)
  /\ left' = left - 4
  /\ UNCHANGED <<changeLen, part, from, back, pc>>

(* Mutant: the bytes used are taken for the bytes left over. *)
PartWordUsed ==
  /\ pc = "words" /\ left \in 1..3 /\ pc' = "idle"
  /\ NextWord
  /\ Combine(left, 4 * words)
  /\ changeLen' = left /\ part' = words
  /\ left' = 0
  /\ UNCHANGED <<from, back>>

PartWord ==
  /\ pc = "words" /\ left \in 1..3 /\ pc' = "idle"
  /\ NextWord
  /\ Combine(left, 4 * words)
  /\ changeLen' = 4 - left /\ part' = words
  /\ left' = 0
  /\ UNCHANGED <<from, back>>

Return ==
  /\ pc = "words" /\ left = 0 /\ pc' = "idle"
  /\ UNCHANGED <<gens, changeLen, part, left, offset, used, from, back>>

Next ==
  \/ (\E n \in 0..Total : Apply(n)) \/ (\E k \in 1..4 : ApplyNegative(k))
  \/ WholeWord \/ PartWord \/ Return
Spec == Init /\ [][Next]_vars

---------------------------------------------------------------------------
(* Every variable has its type.                                            *)
TypeOK ==
  /\ pos1 \in [Gens -> Nat] /\ pos2 \in [Gens -> Nat] /\ bit \in [Gens -> {0, 1}]
  /\ changeLen \in Nat /\ part \in {NoWord} \cup Nat /\ back \in Nat /\ left \in Nat /\ offset \in Nat /\ pc \in {"idle", "words"}
  /\ from \in Nat /\ words \in Nat
  /\ used \in [0..(offset - 1) -> Int]

(* Both positions of a generator stay inside its buffer, and as far from   *)
(* each other as they began: Pos1 and Pos2 wrap separately in the code.    *)
PositionsInStep ==
  \A j \in Gens : /\ pos1[j] < Size[j] /\ pos2[j] < Size[j]
                  /\ \/ pos2[j] = pos1[j] + Lag[j]
                     \/ pos2[j] + Size[j] = pos1[j] + Lag[j]

(* However a stream is cut into calls, its byte number n is combined with  *)
(* key byte number n: so the two ends of a session stay together though    *)
(* one encodes whole packets and the other decodes head and body apart.    *)
(* Until a call asks for a negative number of bytes: from then on what is  *)
(* combined gets a key byte that comes earlier in the stream, used before, *)
(* or none at all.                                                         *)
ChunksDoNotMatter ==
  \A i \in 0..(offset - 1) :
    IF back = 0 THEN used[i] = from + i ELSE used[i] \in {NoKey} \cup 0..(from + i - back)

(* For every word at least two of the generators move. *)
TwoMove ==
  [][words' # words =>
       \E j, k \in Gens : j # k /\ pos1'[j] # pos1[j] /\ pos1'[k] # pos1[k]]_vars
=============================================================================
