--------------------------- MODULE SessionProofs ---------------------------
(***************************************************************************)
(* Proofs about sessions: the cipher, for generators of any size and calls *)
(* of any length; the hash, for messages of any length; and the keys both  *)
(* are used for.                                                           *)
(***************************************************************************)
EXTENDS Session, TLAPS

(* The key stream has been made just as far as the data, up to the bytes   *)
(* left over and those asked for below none; nothing is left over while    *)
(* whole words are combined, and what is left over is of the last word     *)
(* until a call asks for less than none.                                   *)
InStream ==
  /\ 4 * words = from + offset + changeLen - back
  /\ part < words
  /\ back = 0 => changeLen <= 3 /\ (changeLen > 0 => part = words - 1)
  /\ left > 0 => changeLen = 0
  /\ pc = "idle" => left = 0

IInv == TypeOK /\ InStream /\ ChunksDoNotMatter

---------------------------------------------------------------------------
(* A position inside its buffer moves to another one inside it.            *)
LEMMA NextPosInside ==
  ASSUME NEW j \in Gens, NEW p \in Nat, p < Size[j]
  PROVE  /\ NextPos(j, p) \in Nat /\ NextPos(j, p) < Size[j] /\ NextPos(j, p) # p
         /\ NextPos(j, p) = IF p + 1 = Size[j] THEN 0 ELSE p + 1
<1> DEFINE n == Size[j]
<1>1. n \in Nat /\ n > 1
  BY SizeAssumption
<1>2. (p + 1) % n = IF p + 1 = n THEN 0 ELSE p + 1
  <2>1. CASE p + 1 = n
    BY <1>1, <2>1
  <2>2. CASE p + 1 # n
    BY <1>1, <2>2
  <2>3. QED BY <2>1, <2>2
<1>3. QED
  BY <1>1, <1>2 DEF NextPos

(* The clocking formula is the majority of the three bits: two generators  *)
(* have the bit it computes.                                               *)
LEMMA MajorityClocks ==
  ASSUME bit \in [Gens -> {0, 1}]
  PROVE  \E j, k \in Gens : j # k /\ bit[j] = Result /\ bit[k] = Result
<1>1. 0 \in Gens /\ 1 \in Gens /\ 2 \in Gens
  BY DEF Gens
<1>2. /\ bit[0] \in {0, 1} /\ bit[1] \in {0, 1} /\ bit[2] \in {0, 1}
  BY <1>1
<1>3. CASE bit[0] = bit[1]
  <2>1. Result = bit[0]
    BY <1>2, <1>3 DEF Result, And, Or
  <2>2. QED BY <1>1, <1>3, <2>1
<1>4. CASE bit[0] # bit[1] /\ bit[0] = bit[2]
  <2>1. Result = bit[0]
    BY <1>2, <1>4 DEF Result, And, Or
  <2>2. QED BY <1>1, <1>4, <2>1
<1>5. CASE bit[0] # bit[1] /\ bit[1] = bit[2]
  <2>1. Result = bit[1]
    BY <1>2, <1>5 DEF Result, And, Or
  <2>2. QED BY <1>1, <1>5, <2>1
<1>6. QED
  BY <1>2, <1>3, <1>4, <1>5

(* NextWord keeps the types of the generators.                             *)
LEMMA NextWordType ==
  ASSUME TypeOK, NextWord
  PROVE  /\ pos1' \in [Gens -> Nat] /\ pos2' \in [Gens -> Nat]
         /\ bit' \in [Gens -> {0, 1}] /\ words' = words + 1
<1>1. \A j \in Gens, p \in Nat : NextPos(j, p) \in Nat
  BY SizeAssumption DEF NextPos
<1>2. QED
  BY <1>1 DEF TypeOK, NextWord

---------------------------------------------------------------------------
LEMMA InitIInv == Init => IInv
<1> SUFFICES ASSUME Init PROVE IInv
  OBVIOUS
<1>1. TypeOK
  BY LagAssumption DEF Init, TypeOK
<1>2. QED
  BY <1>1 DEF Init, IInv, InStream, ChunksDoNotMatter, NoWord

(* Combining bytes with the right key byte continues the correspondence.   *)
LEMMA CombineKeeps ==
  ASSUME IInv, NEW k \in 1..4, Combine(k, 4 * words), changeLen = 0, from' = from,
         back' = back
  PROVE  /\ used' \in [0..(offset' - 1) -> Int] /\ offset' = offset + k /\ offset' \in Nat
         /\ ChunksDoNotMatter'
<1>1. /\ offset \in Nat /\ from \in Nat /\ words \in Nat /\ back \in Nat
      /\ 4 * words = from + offset - back
  BY DEF IInv, TypeOK, InStream
<1>2. offset' = offset + k /\ offset' \in Nat
  BY <1>1 DEF Combine
<1> DEFINE f == [i \in 0..(offset' - 1) |->
                   IF i < offset THEN used[i] ELSE 4 * words + (i - offset)]
<1>0. used' = f
  <2>1. offset + k - 1 = offset' - 1
    BY <1>1, <1>2
  <2>2. used' = [i \in 0..(offset + k - 1) |->
                   IF i < offset THEN used[i] ELSE 4 * words + (i - offset)]
    BY DEF Combine
  <2>3. QED
    BY <2>1, <2>2
<1>3. \A i \in 0..(offset' - 1) :
        /\ used'[i] \in Int
        /\ IF back = 0 THEN used'[i] = from + i ELSE used'[i] \in {NoKey} \cup 0..(from + i - back)
  <2> TAKE i \in 0..(offset' - 1)
  <2>1. used'[i] = IF i < offset THEN used[i] ELSE 4 * words + (i - offset)
    BY <1>0
  <2>2. i < offset => IF back = 0 THEN used[i] = from + i ELSE used[i] \in {NoKey} \cup 0..(from + i - back)
    BY <1>1 DEF IInv, ChunksDoNotMatter
  <2>3. NoKey \in Int
    BY DEF NoKey
  <2>4. i >= offset => used'[i] = from + i - back /\ used'[i] \in Nat
    BY <1>1, <1>2, <2>1
  <2>5. QED
    BY <1>1, <1>2, <2>1, <2>2, <2>3, <2>4
<1>4. used' = [i \in 0..(offset' - 1) |-> used'[i]]
  BY <1>0
<1>5. used' \in [0..(offset' - 1) -> Int]
  BY <1>1, <1>3, <1>4
<1>6. QED
  BY <1>2, <1>3, <1>5 DEF ChunksDoNotMatter

LEMMA NextIInv == IInv /\ [Next]_vars => IInv'
<1> SUFFICES ASSUME IInv, [Next]_vars PROVE IInv'
  OBVIOUS
<1> USE DEF IInv
<1>1. ASSUME NEW n \in 0..Total, Apply(n) PROVE IInv'
  <2> DEFINE lo == Leftover(n)
  <2>1. n \in Nat /\ lo \in Nat /\ lo <= n /\ lo <= changeLen
        /\ (n > lo => lo = changeLen)
    BY TotalAssumption DEF TypeOK, Leftover
  <2>2. /\ from + offset = 4 * words - changeLen + back /\ from' = from + offset /\ offset' = lo
        /\ back' = back /\ back \in Nat /\ changeLen \in Nat /\ words \in Nat /\ part \in Int
        /\ part < words /\ from' \in Nat /\ offset' \in Nat
        /\ back = 0 => changeLen <= 3 /\ (changeLen > 0 => part = words - 1)
    <3>1. part \in Int
      BY DEF TypeOK, NoWord
    <3>2. QED
      BY <1>1, <2>1, <3>1 DEF Apply, TypeOK, InStream
  <2>3. \A i \in 0..(offset' - 1) :
          /\ used'[i] \in Int
          /\ IF back' = 0 THEN used'[i] = from' + i ELSE used'[i] \in {NoKey} \cup 0..(from' + i - back')
    <3> TAKE i \in 0..(offset' - 1)
    <3>1. used'[i] = KeyByte(4 - changeLen + i)
      BY <1>1, <2>2 DEF Apply
    <3>2. i \in Nat /\ i < changeLen /\ from' + i - back = 4 * words - changeLen + i
      BY <2>1, <2>2
    <3>3. CASE part = NoWord \/ 4 - changeLen + i < 0
      <4>1. used'[i] = -1 /\ NoKey = -1
        BY <3>1, <3>3 DEF KeyByte, NoKey
      <4>2. back # 0
        <5>1. ASSUME back = 0 PROVE FALSE
          <6>1. changeLen \in 1..3 /\ part = words - 1
            BY <2>2, <3>2, <5>1
          <6>2. 4 * words >= changeLen
            BY <2>2, <5>1
          <6>3. words >= 1
            BY <2>2, <6>1, <6>2
          <6>4. part # NoWord /\ ~(4 - changeLen + i < 0)
            BY <2>2, <3>2, <6>1, <6>3 DEF NoWord
          <6>5. QED BY <3>3, <6>4
        <5>2. QED BY <5>1
      <4>3. QED
        BY <2>2, <4>1, <4>2
    <3>4. CASE ~(part = NoWord \/ 4 - changeLen + i < 0)
      <4>1. used'[i] = 4 * part + (4 - changeLen + i)
        BY <3>1, <3>4 DEF KeyByte
      <4>2. part \in Nat
        BY <3>4 DEF TypeOK
      <4>3. used'[i] \in Nat /\ used'[i] <= 4 * words - changeLen + i
        BY <2>2, <3>2, <3>4, <4>1, <4>2
      <4>4. back = 0 => used'[i] = 4 * words - changeLen + i
        BY <2>2, <3>2, <4>1
      <4>5. QED
        BY <2>2, <3>2, <4>3, <4>4
    <3>5. QED BY <3>3, <3>4
  <2>4. used' \in [0..(offset' - 1) -> Int]
    <3>1. used' = [i \in 0..(offset' - 1) |-> used'[i]]
      BY <1>1, <2>2 DEF Apply
    <3>2. \A i \in 0..(offset' - 1) : used'[i] \in Int
      BY <2>3
    <3>3. QED BY <3>1, <3>2
  <2>5. TypeOK'
    BY <1>1, <2>1, <2>2, <2>4, SMTT(20) DEF Apply, TypeOK, gens
  <2>6. InStream'
    <3>1. /\ words' = words /\ changeLen' = changeLen - lo /\ left' = n - lo /\ pc' = "words"
          /\ part' = part
      BY <1>1 DEF Apply, gens
    <3> HIDE DEF lo
    <3>3. 4 * words' = from' + offset' + changeLen' - back'
      BY <2>1, <2>2, <3>1
    <3>4. left' > 0 => changeLen' = 0
      BY <2>1, <2>2, <3>1
    <3>5. part' < words' /\ (back' = 0 => changeLen' <= 3 /\ (changeLen' > 0 => part' = words' - 1))
      BY <2>1, <2>2, <3>1
    <3>6. QED
      BY <3>1, <3>3, <3>4, <3>5 DEF InStream
  <2>7. QED
    BY <2>3, <2>5, <2>6 DEF ChunksDoNotMatter
<1>n. ASSUME NEW k \in 1..4, ApplyNegative(k) PROVE IInv'
  <2>1. /\ words' = words /\ changeLen' = changeLen + k /\ left' = left /\ pc' = pc
        /\ part' = part /\ back' = back + k /\ from' = from + offset /\ offset' = 0
        /\ used' = [i \in {} |-> 0] /\ changeLen' \in Nat /\ back' \in Nat /\ from' \in Nat
        /\ pc = "idle"
    BY <1>n DEF ApplyNegative, gens, TypeOK
  <2>2. TypeOK'
    BY <1>n, <2>1 DEF ApplyNegative, gens, TypeOK
  <2>3. InStream'
    BY <2>1 DEF TypeOK, InStream
  <2>4. QED
    BY <2>1, <2>2, <2>3 DEF ChunksDoNotMatter
<1>2. ASSUME WholeWord PROVE IInv'
  <2>1. changeLen = 0 /\ from' = from /\ back' = back /\ Combine(4, 4 * words)
    BY <1>2 DEF WholeWord, InStream, TypeOK
  <2>2. /\ used' \in [0..(offset' - 1) -> Int] /\ offset' = offset + 4 /\ offset' \in Nat
        /\ ChunksDoNotMatter'
    BY <2>1, CombineKeeps
  <2>3. /\ pos1' \in [Gens -> Nat] /\ pos2' \in [Gens -> Nat]
        /\ bit' \in [Gens -> {0, 1}] /\ words' = words + 1
    BY <1>2, NextWordType DEF WholeWord
  <2>4. /\ changeLen' = 0 /\ part' = part /\ back' = back /\ from' = from /\ pc' = "words"
        /\ left \in Nat /\ left >= 4 /\ left' = left - 4
    BY <1>2, <2>1 DEF WholeWord, TypeOK
  <2>5. TypeOK'
    BY <2>2, <2>3, <2>4 DEF TypeOK
  <2>6. InStream'
    <3>1. /\ 4 * words = from + offset - back /\ part < words /\ words \in Nat /\ part \in Int
          /\ from \in Nat /\ offset \in Nat /\ back \in Nat
      BY <2>1 DEF InStream, TypeOK, NoWord
    <3>2. 4 * words' = from' + offset' + changeLen' - back' /\ part' < words'
      BY <2>2, <2>3, <2>4, <3>1
    <3>3. QED
      BY <2>4, <3>2 DEF InStream
  <2>7. QED BY <2>2, <2>5, <2>6
<1>3. ASSUME PartWord PROVE IInv'
  <2>1. changeLen = 0 /\ from' = from /\ back' = back /\ Combine(left, 4 * words) /\ left \in 1..4
    BY <1>3 DEF PartWord, InStream, TypeOK
  <2>2. /\ used' \in [0..(offset' - 1) -> Int] /\ offset' = offset + left /\ offset' \in Nat
        /\ ChunksDoNotMatter'
    BY <2>1, CombineKeeps
  <2>3. /\ pos1' \in [Gens -> Nat] /\ pos2' \in [Gens -> Nat]
        /\ bit' \in [Gens -> {0, 1}] /\ words' = words + 1
    BY <1>3, NextWordType DEF PartWord
  <2>4. TypeOK' /\ InStream'
    BY <1>3, <2>1, <2>2, <2>3 DEF PartWord, TypeOK, InStream
  <2>5. QED BY <2>2, <2>4
<1>4. ASSUME Return PROVE IInv'
  BY <1>4 DEF Return, TypeOK, InStream, ChunksDoNotMatter, gens
<1>5. ASSUME UNCHANGED vars PROVE IInv'
  BY <1>5 DEF vars, TypeOK, InStream, ChunksDoNotMatter
<1>6. QED
  BY <1>1, <1>n, <1>2, <1>3, <1>4, <1>5 DEF Next

(* Type correctness of the cipher.                                         *)
THEOREM CryptorTypeCorrect == Spec => []TypeOK
<1>1. Spec => []IInv
  BY InitIInv, NextIInv, PTL DEF Spec
<1>2. QED
  BY <1>1, PTL DEF IInv

(* Cryptor::ApplyCryptor: cutting a stream into other calls changes        *)
(* nothing.                                                                *)
THEOREM ChunksHold == Spec => []ChunksDoNotMatter
<1>1. Spec => []IInv
  BY InitIInv, NextIInv, PTL DEF Spec
<1>2. QED
  BY <1>1, PTL DEF IInv

---------------------------------------------------------------------------
(* The positions of a generator move together. *)
LEMMA NextWordPositions ==
  ASSUME TypeOK, PositionsInStep, NextWord
  PROVE  PositionsInStep'
<1> SUFFICES ASSUME NEW j \in Gens
             PROVE  /\ pos1'[j] < Size[j] /\ pos2'[j] < Size[j]
                    /\ \/ pos2'[j] = pos1'[j] + Lag[j]
                       \/ pos2'[j] + Size[j] = pos1'[j] + Lag[j]
  BY DEF PositionsInStep
<1>1. /\ pos1[j] \in Nat /\ pos2[j] \in Nat /\ pos1[j] < Size[j] /\ pos2[j] < Size[j]
      /\ pos2[j] = pos1[j] + Lag[j] \/ pos2[j] + Size[j] = pos1[j] + Lag[j]
  BY DEF TypeOK, PositionsInStep
<1>2. Size[j] \in Nat /\ Size[j] > 1 /\ Lag[j] \in Nat /\ Lag[j] < Size[j]
  BY SizeAssumption, LagAssumption
<1>3. CASE bit[j] = Result
  <2>1. pos1'[j] = NextPos(j, pos1[j]) /\ pos2'[j] = NextPos(j, pos2[j])
    BY <1>3 DEF NextWord
  <2>2. /\ NextPos(j, pos1[j]) = IF pos1[j] + 1 = Size[j] THEN 0 ELSE pos1[j] + 1
        /\ NextPos(j, pos2[j]) = IF pos2[j] + 1 = Size[j] THEN 0 ELSE pos2[j] + 1
    BY <1>1, NextPosInside
  <2>3. QED
    BY <1>1, <1>2, <2>1, <2>2
<1>4. CASE bit[j] # Result
  <2>1. pos1'[j] = pos1[j] /\ pos2'[j] = pos2[j]
    BY <1>4 DEF NextWord
  <2>2. QED BY <1>1, <2>1
<1>5. QED BY <1>3, <1>4

LEMMA PositionsInvariant ==
  /\ Init => PositionsInStep
  /\ TypeOK /\ PositionsInStep /\ [Next]_vars => PositionsInStep'
<1>1. Init => PositionsInStep
  BY SizeAssumption, LagAssumption DEF Init, PositionsInStep
<1>2. ASSUME TypeOK, PositionsInStep, [Next]_vars PROVE PositionsInStep'
  <2>1. NextWord \/ UNCHANGED <<pos1, pos2>>
    BY <1>2 DEF Next, Apply, ApplyNegative, WholeWord, PartWord, Return, gens, vars
  <2>2. CASE NextWord
    BY <1>2, <2>2, NextWordPositions
  <2>3. CASE UNCHANGED <<pos1, pos2>>
    BY <1>2, <2>3 DEF PositionsInStep
  <2>4. QED BY <2>1, <2>2, <2>3
<1>3. QED BY <1>1, <1>2

(* Cryptor.cpp:64-74: the key buffers are never read outside, and the two  *)
(* positions of a generator keep their distance.                           *)
THEOREM PositionsHold == Spec => []PositionsInStep
BY CryptorTypeCorrect, PositionsInvariant, PTL DEF Spec

(* Cryptor.cpp:58-75: the clocking formula moves two generators at least.  *)
THEOREM TwoMoveHolds == Spec => TwoMove
<1>1. ASSUME TypeOK, PositionsInStep, [Next]_vars
      PROVE  [words' # words =>
                \E j, k \in Gens : j # k /\ pos1'[j] # pos1[j] /\ pos1'[k] # pos1[k]]_vars
  <2>1. words' = words \/ NextWord
    BY <1>1 DEF Next, Apply, ApplyNegative, WholeWord, PartWord, Return, gens, vars
  <2>2. CASE NextWord
    <3>1. PICK j, k \in Gens : j # k /\ bit[j] = Result /\ bit[k] = Result
      BY <1>1, MajorityClocks DEF TypeOK
    <3>2. \A i \in Gens : bit[i] = Result => pos1'[i] # pos1[i]
      <4> TAKE i \in Gens
      <4> HAVE bit[i] = Result
      <4>1. pos1'[i] = NextPos(i, pos1[i])
        BY <2>2 DEF NextWord
      <4>2. pos1[i] \in Nat /\ pos1[i] < Size[i]
        BY <1>1 DEF TypeOK, PositionsInStep
      <4>3. QED BY <4>1, <4>2, NextPosInside
    <3>3. QED BY <3>1, <3>2
  <2>3. QED BY <2>1, <2>2
<1>2. QED
  BY <1>1, CryptorTypeCorrect, PositionsHold, PTL DEF Spec, TwoMove

---------------------------------------------------------------------------
(* The bytes there are, of the keys and of what is hashed.                 *)
Names == {"", "C1", "C2", "S1", "S2", "128", "digest", "stream", "message", "0x80", "length"}
Atom  == Names \X Nat \X Nat
Byte  == SUBSET Atom

ShaTypes ==
  /\ message \in Seq(Byte) /\ block \in Seq(Byte) /\ hashed \in Seq(Byte)
  /\ lengthLow \in 0..(Wrap - 1) /\ lengthHigh \in Nat
  /\ sha \in {"none", "input", "done"}

(* The blocks and the block that is filled are the message so far, and the *)
(* two halves of the length count it.                                      *)
SoFar ==
  sha = "input" =>
    /\ Len(hashed) % Block = 0 /\ Len(block) < Block /\ Done <= Len(message)
    /\ \A i \in 1..Len(hashed) : hashed[i] = message[i]
    /\ \A i \in 1..Len(block) : block[i] = message[Len(hashed) + i]
    /\ Done = lengthHigh * Wrap + lengthLow

ShaInv == ShaTypes /\ SoFar /\ HashedIsPadded

(* Division with a remainder, for divisors that are not known.             *)
LEMMA Remainder ==
  ASSUME NEW b \in Nat, b > 0, NEW q \in Int, NEW r \in 0..(b - 1)
  PROVE  (b * q + r) % b = r
OBVIOUS

LEMMA Divides ==
  ASSUME NEW b \in Nat, b > 0, NEW m \in Nat
  PROVE  \E q \in Nat, r \in 0..(b - 1) : m = b * q + r /\ m % b = r
OBVIOUS

LEMMA NextRemainder ==
  ASSUME NEW b \in Nat, NEW k \in 0..(b - 1), k + 1 # b
  PROVE  (k + 1) % b = k + 1 /\ k + 1 \in 0..(b - 1) /\ k + 1 # 0
<1>1. b > 0 /\ k + 1 \in 0..(b - 1) /\ k + 1 # 0 /\ b * 0 + (k + 1) = k + 1
  OBVIOUS
<1>2. (b * 0 + (k + 1)) % b = k + 1
  BY <1>1, Remainder
<1>3. QED
  BY <1>1, <1>2

LEMMA AtomsAreTyped ==
  ASSUME NEW s \in Names, NEW m \in Nat, NEW n \in Nat
  PROVE  {<<s, m, n>>} \in Byte
<1>1. <<s, m, n>> \in Names \X Nat \X Nat
  OBVIOUS
<1>2. \A Z : \A a \in Z : {a} \in SUBSET Z
  OBVIOUS
<1>3. QED
  BY <1>1, <1>2, Zenon DEF Atom, Byte

(* One block more is still whole blocks.                                   *)
LEMMA WholeBlocks ==
  ASSUME NEW n \in Nat, n % Block = 0
  PROVE  (n + Block) % Block = 0 /\ (n + 2 * Block) % Block = 0
<1> DEFINE b == Block
<1>1. b \in Nat /\ b > 0
  BY RoomAssumption DEF Block
<1> HIDE DEF b
<1>2. PICK q \in Nat : n = b * q
  <2>1. n % b = 0
    BY DEF b
  <2>2. QED BY <1>1, <2>1, Divides
<1>3. n + b = b * (q + 1) + 0 /\ n + 2 * b = b * (q + 2) + 0
  BY <1>1, <1>2
<1>4. 0 \in 0..(b - 1) /\ q + 1 \in Int /\ q + 2 \in Int
  BY <1>1
<1>5. (n + b) % b = 0 /\ (n + 2 * b) % b = 0
  BY <1>1, <1>3, <1>4, Remainder, ZenonT(30)
<1>6. QED
  BY <1>5 DEF b

(* Two sequences in a row.                                                 *)
LEMMA Joined ==
  ASSUME NEW S, NEW s \in Seq(S), NEW t \in Seq(S)
  PROVE  /\ s \o t \in Seq(S) /\ Len(s \o t) = Len(s) + Len(t)
         /\ \A i \in 1..Len(s) : (s \o t)[i] = s[i]
         /\ \A i \in 1..Len(t) : (s \o t)[Len(s) + i] = t[i]
         /\ \A i \in (Len(s) + 1)..(Len(s) + Len(t)) : (s \o t)[i] = t[i - Len(s)]
OBVIOUS

(* The padding of a block: where each of its parts is.                     *)
LEMMA PaddingIs ==
  ASSUME NEW b \in Seq(Byte), Len(b) < Block, lengthLow \in Nat, lengthHigh \in Nat
  PROVE  LET p == Padding(b)
         IN  /\ p \in Seq(Byte)
             /\ Len(p) = IF Len(b) > Room - 1 THEN 2 * Block ELSE Block
             /\ \A i \in 1..Len(b) : p[i] = b[i]
             /\ p[Len(b) + 1] = Mark
             /\ \A i \in (Len(b) + 2)..(Len(p) - 2) : p[i] = Zero
             /\ p[Len(p) - 1] = {<<"length", lengthHigh, 0>>}
             /\ p[Len(p)] = {<<"length", lengthLow, 0>>}
<1> DEFINE m == Append(b, Mark)
           l == Length
<1>1. Room \in Nat /\ Room > 0 /\ Block = Room + 2 /\ Len(b) \in Nat
  BY RoomAssumption DEF Block
<1>2. Mark \in Byte /\ Zero \in Byte
  <2>1. Mark \in Byte
    <3>1. "0x80" \in Names
      BY DEF Names
    <3>2. QED BY <3>1, AtomsAreTyped DEF Mark
  <2>2. Zero \in Byte
    BY DEF Zero, Byte
  <2>3. QED BY <2>1, <2>2
<1>3. /\ m \in Seq(Byte) /\ Len(m) = Len(b) + 1 /\ m[Len(b) + 1] = Mark
      /\ \A i \in 1..Len(b) : m[i] = b[i]
  BY <1>2
<1>4. /\ l \in Seq(Byte) /\ Len(l) = 2
      /\ l[1] = {<<"length", lengthHigh, 0>>} /\ l[2] = {<<"length", lengthLow, 0>>}
  <2>1. {<<"length", lengthHigh, 0>>} \in Byte /\ {<<"length", lengthLow, 0>>} \in Byte
    <3>1. "length" \in Names
      BY DEF Names
    <3>2. QED BY <3>1, AtomsAreTyped
  <2>2. QED BY <2>1 DEF Length
<1>5. ASSUME NEW n \in Nat
      PROVE  Zeros(n) \in Seq(Byte) /\ Len(Zeros(n)) = n /\ \A i \in 1..n : Zeros(n)[i] = Zero
  BY <1>2 DEF Zeros
<1>6. CASE Len(b) > Room - 1
  <2> DEFINE z == Zeros(Block - Len(m))
             y == Zeros(Room)
  <2>1. Padding(b) = m \o z \o y \o l
    BY <1>6 DEF Padding
  <2>2. Block - Len(m) \in Nat
    BY <1>1, <1>3, <1>6
  <2>3. /\ z \in Seq(Byte) /\ Len(z) = Block - Len(m) /\ \A i \in 1..Len(z) : z[i] = Zero
    BY <1>5, <2>2
  <2>4. /\ y \in Seq(Byte) /\ Len(y) = Room /\ \A i \in 1..Len(y) : y[i] = Zero
    BY <1>1, <1>5
  <2> HIDE DEF m, l, z, y
  <2> DEFINE q == m \o z
             r == q \o y
             p == r \o l
  <2>5. /\ q \in Seq(Byte) /\ Len(q) = Block
        /\ \A i \in 1..Len(m) : q[i] = m[i]
        /\ \A i \in (Len(m) + 1)..Len(q) : q[i] = Zero
    <3>1. q \in Seq(Byte) /\ Len(q) = Len(m) + Len(z)
      BY <1>3, <2>3, Joined
    <3>2. \A i \in 1..Len(m) : q[i] = m[i]
      BY <1>3, <2>3, Joined
    <3>3. \A i \in (Len(m) + 1)..(Len(m) + Len(z)) : q[i] = z[i - Len(m)] /\ i - Len(m) \in 1..Len(z)
      BY <1>1, <1>3, <2>2, <2>3, Joined
    <3>4. Len(m) + Len(z) = Len(q) /\ Len(q) = Block
      BY <1>1, <1>3, <2>2, <2>3, <3>1
    <3>5. QED BY <2>3, <3>1, <3>2, <3>3, <3>4
  <2> HIDE DEF q
  <2>6. /\ r \in Seq(Byte) /\ Len(r) = Block + Room
        /\ \A i \in 1..Len(m) : r[i] = m[i]
        /\ \A i \in (Len(m) + 1)..Len(r) : r[i] = Zero
    <3>1. r \in Seq(Byte) /\ Len(r) = Len(q) + Len(y)
      BY <2>4, <2>5, Joined
    <3>2. \A i \in 1..Len(q) : r[i] = q[i]
      BY <2>4, <2>5, Joined
    <3>3. \A i \in (Len(q) + 1)..(Len(q) + Len(y)) : r[i] = y[i - Len(q)] /\ i - Len(q) \in 1..Len(y)
      BY <1>1, <2>4, <2>5, Joined
    <3>4. Len(q) + Len(y) = Len(r) /\ Len(r) = Block + Room /\ Len(m) <= Len(q) /\ Len(m) \in Nat
      BY <1>1, <1>3, <2>2, <2>4, <2>5, <3>1
    <3>5. \A i \in 1..Len(m) : r[i] = m[i]
      BY <1>1, <2>5, <3>2, <3>4
    <3>6. \A i \in (Len(m) + 1)..Len(r) : r[i] = Zero
      <4> TAKE i \in (Len(m) + 1)..Len(r)
      <4>1. CASE i <= Len(q)
        BY <1>1, <2>5, <3>2, <3>4, <4>1
      <4>2. CASE i > Len(q)
        BY <1>1, <2>4, <2>5, <3>3, <3>4, <4>2
      <4>3. QED BY <1>1, <2>5, <3>4, <4>1, <4>2
    <3>7. QED BY <3>1, <3>4, <3>5, <3>6
  <2> HIDE DEF r
  <2>7. /\ p \in Seq(Byte) /\ Len(p) = 2 * Block
        /\ \A i \in 1..Len(r) : p[i] = r[i]
        /\ p[Len(r) + 1] = l[1] /\ p[Len(r) + 2] = l[2]
    <3>0. r \in Seq(Byte) /\ l \in Seq(Byte)
      BY <1>4, <2>6
    <3>1. p \in Seq(Byte) /\ Len(p) = Len(r) + Len(l)
      BY <3>0, Joined
    <3>2. \A i \in 1..Len(r) : p[i] = r[i]
      BY <3>0, Joined
    <3>3. \A i \in 1..Len(l) : p[Len(r) + i] = l[i]
      BY <3>0, Joined
    <3>4. 1 \in 1..Len(l) /\ 2 \in 1..Len(l) /\ Len(p) = 2 * Block
      BY <1>1, <1>4, <2>6, <3>1
    <3>5. QED
      BY <3>1, <3>2, <3>3, <3>4
  <2> HIDE DEF p
  <2>8. p = Padding(b)
    BY <2>1 DEF p, q, r
  <2>9. /\ p \in Seq(Byte)
        /\ Len(p) = IF Len(b) > Room - 1 THEN 2 * Block ELSE Block
        /\ \A i \in 1..Len(b) : p[i] = b[i]
        /\ p[Len(b) + 1] = Mark
        /\ \A i \in (Len(b) + 2)..(Len(p) - 2) : p[i] = Zero
        /\ p[Len(p) - 1] = {<<"length", lengthHigh, 0>>}
        /\ p[Len(p)] = {<<"length", lengthLow, 0>>}
    <3>1. Len(r) = Len(p) - 2 /\ Len(m) = Len(b) + 1 /\ Len(m) <= Len(r)
      BY <1>1, <1>3, <2>2, <2>6, <2>7
    <3>2. \A i \in 1..Len(b) : p[i] = b[i]
      BY <1>1, <1>3, <2>6, <2>7, <3>1, SMTT(20)
    <3>3. p[Len(b) + 1] = Mark
      BY <1>1, <1>3, <2>6, <2>7, <3>1
    <3>4. \A i \in (Len(b) + 2)..(Len(p) - 2) : p[i] = Zero
      BY <1>1, <2>6, <2>7, <3>1
    <3>5. p[Len(p) - 1] = l[1] /\ p[Len(p)] = l[2]
      <4>1. Len(p) - 1 = Len(r) + 1 /\ Len(p) = Len(r) + 2
        BY <1>1, <2>6, <2>7
      <4>2. QED BY <2>7, <4>1
    <3>6. QED
      BY <1>4, <1>6, <2>7, <3>2, <3>3, <3>4, <3>5
  <2>10. QED
    BY <2>8, <2>9
<1>7. CASE ~(Len(b) > Room - 1)
  <2> DEFINE z == Zeros(Room - Len(m))
  <2>1. Padding(b) = m \o z \o l
    BY <1>7 DEF Padding
  <2>2. Room - Len(m) \in Nat
    BY <1>1, <1>3, <1>7
  <2>3. /\ z \in Seq(Byte) /\ Len(z) = Room - Len(m) /\ \A i \in 1..Len(z) : z[i] = Zero
    BY <1>5, <2>2
  <2> HIDE DEF m, l, z
  <2> DEFINE q == m \o z
             p == q \o l
  <2>4. /\ q \in Seq(Byte) /\ Len(q) = Room
        /\ \A i \in 1..Len(m) : q[i] = m[i]
        /\ \A i \in (Len(m) + 1)..Len(q) : q[i] = Zero
    <3>1. q \in Seq(Byte) /\ Len(q) = Len(m) + Len(z)
      BY <1>3, <2>3, Joined
    <3>2. \A i \in 1..Len(m) : q[i] = m[i]
      BY <1>3, <2>3, Joined
    <3>3. \A i \in (Len(m) + 1)..(Len(m) + Len(z)) : q[i] = z[i - Len(m)] /\ i - Len(m) \in 1..Len(z)
      BY <1>1, <1>3, <2>2, <2>3, Joined
    <3>4. Len(m) + Len(z) = Len(q) /\ Len(q) = Room
      BY <1>1, <1>3, <2>2, <2>3, <3>1
    <3>5. QED BY <2>3, <3>1, <3>2, <3>3, <3>4
  <2> HIDE DEF q
  <2>5. /\ p \in Seq(Byte) /\ Len(p) = Block
        /\ \A i \in 1..Len(q) : p[i] = q[i]
        /\ p[Len(q) + 1] = l[1] /\ p[Len(q) + 2] = l[2]
    <3>0. q \in Seq(Byte) /\ l \in Seq(Byte)
      BY <1>4, <2>4
    <3>1. p \in Seq(Byte) /\ Len(p) = Len(q) + Len(l)
      BY <3>0, Joined
    <3>2. \A i \in 1..Len(q) : p[i] = q[i]
      BY <3>0, Joined
    <3>3. \A i \in 1..Len(l) : p[Len(q) + i] = l[i]
      BY <3>0, Joined
    <3>4. 1 \in 1..Len(l) /\ 2 \in 1..Len(l) /\ Len(p) = Block
      BY <1>1, <1>4, <2>4, <3>1
    <3>5. QED
      BY <3>1, <3>2, <3>3, <3>4
  <2> HIDE DEF p
  <2>6. p = Padding(b)
    BY <2>1 DEF p, q
  <2>7. Len(q) = Len(p) - 2 /\ Len(m) = Len(b) + 1 /\ Len(m) <= Len(q)
    BY <1>1, <1>3, <2>2, <2>4, <2>5
  <2>8. \A i \in 1..Len(b) : p[i] = b[i]
    BY <1>1, <1>3, <2>4, <2>5, <2>7
  <2>9. p[Len(b) + 1] = Mark
    BY <1>1, <1>3, <2>4, <2>5, <2>7
  <2>10. \A i \in (Len(b) + 2)..(Len(p) - 2) : p[i] = Zero
    BY <1>1, <2>4, <2>5, <2>7
  <2>11. p[Len(p) - 1] = l[1] /\ p[Len(p)] = l[2]
    <3>1. Len(p) - 1 = Len(q) + 1 /\ Len(p) = Len(q) + 2
      BY <1>1, <2>4, <2>5
    <3>2. QED BY <2>5, <3>1
  <2>12. QED
    BY <1>4, <1>7, <2>5, <2>6, <2>8, <2>9, <2>10, <2>11
<1>8. QED
  BY <1>6, <1>7

---------------------------------------------------------------------------
LEMMA NewShaInv ==
  ASSUME NEW m \in Seq(Byte), NewSha(m)
  PROVE  ShaInv'
<1>1. ShaTypes'
  BY WrapAssumption DEF NewSha, ShaTypes
<1>2. Block \in Nat /\ Block > 0
  BY RoomAssumption DEF Block
<1>3. SoFar'
  <2>1. /\ Len(hashed') = 0 /\ Len(block') = 0 /\ Len(message') \in Nat
        /\ lengthHigh' = 0 /\ lengthLow' = 0
    BY DEF NewSha
  <2>2. 0 % Block = 0
    BY <1>2
  <2>3. 0 * Wrap + 0 = 0
    BY WrapAssumption
  <2>4. Done' = 0
    BY <2>1 DEF Done
  <2>5. QED
    BY <1>2, <2>1, <2>2, <2>3, <2>4 DEF SoFar, Block
<1>4. HashedIsPadded'
  BY DEF NewSha, HashedIsPadded
<1>5. QED
  BY <1>1, <1>3, <1>4 DEF ShaInv

LEMMA NoShaInv == (NoSha => ShaInv) /\ (DeleteSha => ShaInv')
<1>1. 0 \in 0..(Wrap - 1)
  BY WrapAssumption
<1>2. NoSha => ShaTypes /\ sha = "none"
  BY <1>1 DEF NoSha, ShaTypes
<1>3. DeleteSha => ShaTypes' /\ sha' = "none"
  BY <1>1 DEF DeleteSha, ShaTypes
<1>4. QED
  BY <1>2, <1>3 DEF ShaInv, SoFar, HashedIsPadded

LEMMA StillSha ==
  ASSUME ShaInv, UNCHANGED shaVars
  PROVE  ShaInv'
<1>1. ShaTypes'
  BY DEF ShaInv, ShaTypes, shaVars
<1>2. SoFar'
  BY DEF ShaInv, SoFar, shaVars, Done
<1>3. HashedIsPadded'
  BY DEF ShaInv, HashedIsPadded, shaVars
<1>4. QED
  BY <1>1, <1>2, <1>3 DEF ShaInv

(* Sha_l::Input, a byte.                                                   *)
LEMMA InputKeeps ==
  ASSUME ShaInv, Input
  PROVE  ShaInv'
<1> DEFINE n == Done
           b == Append(block, message[n + 1])
<1> USE DEF ShaInv, ShaTypes
<1>1. /\ Len(hashed) \in Nat /\ Len(block) \in Nat /\ Len(message) \in Nat
      /\ n = Len(hashed) + Len(block) /\ n < Len(message)
      /\ Block \in Nat /\ Block > 2 /\ Wrap \in Nat /\ Wrap > 1
  BY RoomAssumption, WrapAssumption DEF Input, Done, Block
<1>2. /\ Len(hashed) % Block = 0 /\ Len(block) < Block
      /\ \A i \in 1..Len(hashed) : hashed[i] = message[i]
      /\ \A i \in 1..Len(block) : block[i] = message[Len(hashed) + i]
      /\ n = lengthHigh * Wrap + lengthLow
      /\ message' = message /\ sha' = "input"
  BY DEF SoFar, Input
<1>3. message[n + 1] \in Byte
  BY <1>1
<1>4. /\ b \in Seq(Byte) /\ Len(b) = Len(block) + 1
      /\ \A i \in 1..Len(b) : b[i] = message[Len(hashed) + i]
  BY <1>1, <1>2, <1>3
<1>5. /\ lengthLow' \in 0..(Wrap - 1) /\ lengthHigh' \in Nat
      /\ n + 1 = lengthHigh' * Wrap + lengthLow'
  <2>1. /\ lengthLow' = (lengthLow + 1) % Wrap
        /\ lengthHigh' = IF lengthLow' = 0 THEN lengthHigh + 1 ELSE lengthHigh
    BY DEF Input
  <2>2. CASE lengthLow + 1 = Wrap
    <3>1. lengthLow' = 0
      <4>1. Wrap > 0 /\ 0 \in 0..(Wrap - 1) /\ Wrap * 1 + 0 = Wrap
        BY <1>1
      <4>2. (Wrap * 1 + 0) % Wrap = 0
        BY <1>1, <4>1, Remainder
      <4>3. QED BY <2>1, <2>2, <4>1, <4>2
    <3>2. (lengthHigh + 1) * Wrap = lengthHigh * Wrap + Wrap
      BY <1>1
    <3>3. lengthHigh' = lengthHigh + 1 /\ lengthHigh' \in Nat /\ 0 \in 0..(Wrap - 1)
      BY <1>1, <2>1, <3>1
    <3> DEFINE w == lengthHigh * Wrap
               v == (lengthHigh + 1) * Wrap
    <3>4. n = w + lengthLow /\ v = w + Wrap /\ w \in Nat /\ lengthHigh' * Wrap = v
      <4>1. n = w + lengthLow
        BY <1>2
      <4>2. w \in Nat
        BY <1>1
      <4>3. lengthHigh' * Wrap = v /\ v = w + Wrap
        BY <3>2, <3>3
      <4>4. QED BY <4>1, <4>2, <4>3
    <3> HIDE DEF v, w
    <3>5. n + 1 = v + 0
      BY <1>1, <2>2, <3>4
    <3>6. QED
      BY <3>1, <3>3, <3>4, <3>5
  <2>3. CASE lengthLow + 1 # Wrap
    <3>1. lengthLow' = lengthLow + 1 /\ lengthLow' # 0
      <4>1. (lengthLow + 1) % Wrap = lengthLow + 1 /\ lengthLow + 1 # 0
        BY <1>1, <2>3, NextRemainder
      <4>2. QED BY <2>1, <4>1
    <3>2. lengthHigh' = lengthHigh /\ lengthLow' \in 0..(Wrap - 1)
      BY <1>1, <2>1, <2>3, <3>1
    <3> DEFINE w == lengthHigh * Wrap
    <3>3. n = w + lengthLow /\ w \in Nat /\ lengthHigh' * Wrap = w
      <4>1. n = w + lengthLow
        BY <1>2
      <4>2. w \in Nat
        BY <1>1
      <4>3. lengthHigh' * Wrap = w
        BY <3>2
      <4>4. QED BY <4>1, <4>2, <4>3
    <3> HIDE DEF w
    <3>4. n + 1 = w + lengthLow'
      BY <1>1, <3>1, <3>3
    <3>5. QED
      BY <3>2, <3>3, <3>4
  <2>4. QED
    BY <2>2, <2>3
<1>6. Put(b)
  BY DEF Input
<1> HIDE DEF b
<1>7. CASE Len(b) = Block
  <2>1. hashed' = hashed \o b /\ block' = <<>>
    BY <1>6, <1>7 DEF Put
  <2>2. /\ hashed' \in Seq(Byte) /\ Len(hashed') = Len(hashed) + Block
        /\ \A i \in 1..Len(hashed) : hashed'[i] = hashed[i]
        /\ \A i \in (Len(hashed) + 1)..(Len(hashed) + Len(b)) : hashed'[i] = b[i - Len(hashed)]
    BY <1>4, <1>7, <2>1, Joined
  <2>3. \A i \in 1..Len(hashed') : hashed'[i] = message[i]
    <3> TAKE i \in 1..Len(hashed')
    <3>1. CASE i <= Len(hashed)
      BY <1>1, <1>2, <2>2, <3>1
    <3>2. CASE i > Len(hashed)
      <4>1. i - Len(hashed) \in 1..Len(b) /\ hashed'[i] = b[i - Len(hashed)]
        <5>1. /\ i \in Nat /\ Len(hashed) \in Nat /\ i > Len(hashed)
              /\ i <= Len(hashed) + Len(b) /\ Len(b) \in Nat
          BY <1>1, <1>7, <2>2, <3>2
        <5>2. i \in (Len(hashed) + 1)..(Len(hashed) + Len(b))
          BY <5>1
        <5>3. QED BY <2>2, <5>1, <5>2
      <4>2. b[i - Len(hashed)] = message[Len(hashed) + (i - Len(hashed))]
        BY <1>4, <4>1
      <4>3. Len(hashed) + (i - Len(hashed)) = i
        BY <1>1, <2>2
      <4>4. QED BY <4>1, <4>2, <4>3
    <3>3. QED
      BY <1>1, <2>2, <3>1, <3>2
  <2>4. Len(hashed') % Block = 0
    BY <1>1, <1>2, <2>2, WholeBlocks
  <2>5. Done' = n + 1 /\ Len(block') = 0
    BY <1>1, <1>4, <1>7, <2>1, <2>2, SMTT(20) DEF Done
  <2>6. SoFar'
    <3>1. n + 1 <= Len(message') /\ 0 < Block
      BY <1>1, <1>2
    <3>2. \A i \in 1..Len(block') : block'[i] = message'[Len(hashed') + i]
      BY <2>5
    <3> HIDE DEF n, Block
    <3>3. Done' = lengthHigh' * Wrap + lengthLow'
      BY <1>5, <2>5
    <3>4. Len(block') < Block /\ Done' <= Len(message')
      BY <2>5, <3>1
    <3>5. \A i \in 1..Len(hashed') : hashed'[i] = message'[i]
      BY <1>2, <2>3
    <3>6. QED
      BY <2>4, <3>2, <3>3, <3>4, <3>5, Zenon DEF SoFar
  <2>7. QED
    BY <1>2, <1>5, <2>1, <2>2, <2>6 DEF HashedIsPadded
<1>8. CASE Len(b) # Block
  <2>1. block' = b /\ hashed' = hashed
    BY <1>6, <1>8 DEF Put
  <2>2. Done' = n + 1 /\ Len(block') < Block
    <3>1. Len(block') = Len(block) + 1 /\ Len(hashed') = Len(hashed) /\ Len(block') # Block
      BY <1>4, <1>8, <2>1
    <3>2. Done' = Len(hashed') + Len(block')
      BY DEF Done
    <3>3. Len(block) < Block
      BY <1>2
    <3> HIDE DEF n
    <3>4. QED BY <1>1, <3>1, <3>2, <3>3
  <2>3. SoFar'
    <3>1. n + 1 <= Len(message')
      BY <1>1, <1>2
    <3>2. \A i \in 1..Len(block') : block'[i] = message'[Len(hashed') + i]
      BY <1>2, <1>4, <2>1
    <3>3. \A i \in 1..Len(hashed') : hashed'[i] = message'[i]
      BY <1>2, <2>1
    <3>4. Len(hashed') % Block = 0
      BY <1>2, <2>1
    <3> HIDE DEF n
    <3>5. QED
      BY <1>5, <2>2, <3>1, <3>2, <3>3, <3>4 DEF SoFar, Block
  <2>4. QED
    BY <1>2, <1>4, <1>5, <2>1, <2>3 DEF HashedIsPadded
<1>9. QED
  BY <1>7, <1>8

(* Sha_l::PadMessage.                                                      *)
LEMMA PadKeeps ==
  ASSUME ShaInv, PadMessage
  PROVE  ShaInv'
<1> DEFINE p == Padding(block)
           n == Len(message)
           h == Len(hashed)
           b == Len(block)
<1>1. /\ h \in Nat /\ b \in Nat /\ n \in Nat /\ n = h + b /\ b < Block
      /\ Room \in Nat /\ Room > 0 /\ Block = Room + 2 /\ h % Block = 0
  BY RoomAssumption DEF ShaInv, ShaTypes, PadMessage, Done, Block, SoFar
<1>2. /\ \A i \in 1..h : hashed[i] = message[i]
      /\ \A i \in 1..b : block[i] = message[h + i]
      /\ message \in Seq(Byte) /\ block \in Seq(Byte) /\ hashed \in Seq(Byte)
      /\ n = lengthHigh * Wrap + lengthLow
      /\ lengthLow \in 0..(Wrap - 1) /\ lengthHigh \in Nat
  BY DEF ShaInv, ShaTypes, PadMessage, Done, SoFar
<1>3. /\ hashed' = hashed \o p /\ block' = <<>> /\ message' = message /\ sha' = "done"
      /\ lengthLow' = lengthLow /\ lengthHigh' = lengthHigh
  BY DEF PadMessage
<1>4. /\ p \in Seq(Byte)
      /\ Len(p) = IF b > Room - 1 THEN 2 * Block ELSE Block
      /\ \A i \in 1..b : p[i] = block[i]
      /\ p[b + 1] = Mark
      /\ \A i \in (b + 2)..(Len(p) - 2) : p[i] = Zero
      /\ p[Len(p) - 1] = {<<"length", lengthHigh, 0>>}
      /\ p[Len(p)] = {<<"length", lengthLow, 0>>}
  <2>1. lengthLow \in Nat /\ Len(block) < Block
    BY <1>1, <1>2, WrapAssumption
  <2>2. QED BY <1>2, <2>1, PaddingIs
<1> HIDE DEF p
<1> DEFINE total == Len(hashed')
<1>5. /\ hashed' \in Seq(Byte) /\ total = h + Len(p)
      /\ \A i \in 1..h : hashed'[i] = hashed[i]
      /\ \A i \in 1..Len(p) : hashed'[h + i] = p[i]
  BY <1>2, <1>3, <1>4, Joined, SMTT(20)
<1>6. Len(p) \in Nat /\ b + 3 <= Len(p) /\ total - Block < n + 3 /\ n + 3 <= total
  <2> HIDE DEF n, h, b, total
  <2>1. Len(p) = IF b > Room - 1 THEN 2 * Block ELSE Block
    BY <1>4
  <2>2. total = h + Len(p)
    BY <1>5
  <2>3. CASE b > Room - 1
    BY <1>1, <2>1, <2>2, <2>3
  <2>4. CASE ~(b > Room - 1)
    BY <1>1, <2>1, <2>2, <2>4
  <2>5. QED BY <2>3, <2>4
<1>7. total % Block = 0
  BY <1>1, <1>4, <1>5, WholeBlocks
<1>8. \A i \in 1..n : hashed'[i] = message[i]
  <2> TAKE i \in 1..n
  <2>1. CASE i <= h
    BY <1>1, <1>2, <1>5, <2>1
  <2>2. CASE i > h
    <3>1. i - h \in 1..b /\ i - h \in 1..Len(p) /\ h + (i - h) = i
      BY <1>1, <1>6, <2>2
    <3>2. QED BY <1>2, <1>4, <1>5, <3>1, ZenonT(30)
  <2>3. QED BY <1>1, <2>1, <2>2
<1>9. hashed'[n + 1] = Mark
  <2>1. b + 1 \in 1..Len(p) /\ h + (b + 1) = n + 1
    BY <1>1, <1>6
  <2>2. QED BY <1>4, <1>5, <2>1
<1>10. SubSeq(hashed', 1, n + 1) = Append(message, Mark)
  <2> DEFINE s == SubSeq(hashed', 1, n + 1)
             t == Append(message, Mark)
  <2>1. Mark \in Byte
    BY <1>4, <1>6
  <2>2. /\ t \in Seq(Byte) /\ Len(t) = n + 1 /\ t[n + 1] = Mark
        /\ \A i \in 1..n : t[i] = message[i]
    <3>1. message \in Seq(Byte) /\ n = Len(message)
      BY <1>2
    <3>2. QED BY <1>1, <2>1, <3>1
  <2>3. /\ s \in Seq(Byte) /\ Len(s) = n + 1
        /\ \A i \in 1..(n + 1) : s[i] = hashed'[i]
    BY <1>1, <1>5, <1>6
  <2>4. \A i \in 1..(n + 1) : s[i] = t[i]
    BY <1>1, <1>8, <1>9, <2>2, <2>3
  <2> HIDE DEF s, t
  <2>5. s = t
    BY <1>1, <2>2, <2>3, <2>4
  <2>6. QED BY <2>5 DEF s, t
<1>11. \A i \in (n + 2)..(total - 2) : hashed'[i] = Zero
  <2> TAKE i \in (n + 2)..(total - 2)
  <2>1. i - h \in (b + 2)..(Len(p) - 2) /\ i - h \in 1..Len(p) /\ h + (i - h) = i
    BY <1>1, <1>5, <1>6
  <2>2. QED BY <1>4, <1>5, <2>1
<1>12. /\ hashed'[total - 1] = {<<"length", lengthHigh, 0>>}
       /\ hashed'[total] = {<<"length", lengthLow, 0>>}
  <2>1. Len(p) - 1 \in 1..Len(p) /\ Len(p) \in 1..Len(p)
        /\ total - 1 = h + (Len(p) - 1) /\ total = h + Len(p)
    BY <1>1, <1>5, <1>6
  <2>2. QED BY <1>4, <1>5, <2>1
<1>13. lengthHigh \in 0..n
  <2>1. Wrap \in Nat /\ Wrap >= 1
    BY WrapAssumption
  <2> DEFINE w == lengthHigh * Wrap
  <2>2. w >= lengthHigh /\ w \in Nat /\ n = w + lengthLow /\ lengthLow \in Nat
    BY <1>2, <2>1
  <2> HIDE DEF w, n
  <2>3. QED BY <1>1, <1>2, <2>2
<1>14. HashedIsPadded'
  <2>1. \E high \in 0..n, low \in 0..(Wrap - 1) :
             /\ n = high * Wrap + low
             /\ hashed'[total - 1] = {<<"length", high, 0>>}
             /\ hashed'[total] = {<<"length", low, 0>>}
    BY <1>2, <1>12, <1>13
  <2>2. QED
    BY <1>3, <1>6, <1>7, <1>10, <1>11, <2>1 DEF HashedIsPadded, Block
<1>15. QED
  BY <1>2, <1>3, <1>5, <1>14 DEF ShaInv, ShaTypes, SoFar

---------------------------------------------------------------------------
(* The cipher of a session is the cipher by itself: every step of a        *)
(* session is a step of it, or leaves it alone.                            *)
LEMMA SessionSteps ==
  ASSUME TypeOK, [SessionNext]_sessionVars
  PROVE  [Next]_vars
<1>1. CASE EndGenerate
  <2>1. CASE Apply(KeyLen)
    <3>1. from \in Nat /\ offset \in Nat /\ KeyLen \in Nat /\ from + offset + KeyLen <= Total
      BY <2>1, KeyLenAssumption DEF Apply, TypeOK
    <3>2. KeyLen \in 0..Total
      BY <3>1, TotalAssumption
    <3>3. QED BY <2>1, <3>2 DEF Next
  <2>2. CASE UNCHANGED vars
    BY <2>2
  <2>3. QED
    BY <1>1, <2>1, <2>2, Zenon DEF EndGenerate
<1>2. CASE InApply \/ (\E n \in 0..Total : Data(n)) \/ (\E k \in 1..4 : DataNegative(k))
  BY <1>2, Zenon DEF InApply, Data, DataNegative, Next
<1>3. CASE ~EndGenerate /\ ~InApply /\ ~(\E n \in 0..Total : Data(n)) /\ ~(\E k \in 1..4 : DataNegative(k))
  <2>1. UNCHANGED vars
    BY <1>3, Zenon DEF SessionNext, MakeDecryptKey, TakeDigest, MakeEncryptKey, Made, sessionVars
  <2>2. QED BY <2>1
<1>4. QED
  BY <1>1, <1>2, <1>3, Zenon

LEMMA SessionIInv == SessionSpec => []IInv
<1>1. SessionInit => IInv
  BY InitIInv DEF SessionInit
<1>2. IInv /\ [SessionNext]_sessionVars => IInv'
  BY SessionSteps, NextIInv DEF IInv
<1>3. QED
  BY <1>1, <1>2, PTL DEF SessionSpec

(* Session.cpp: the decryptor of a session is a Cryptor, so that all that  *)
(* holds of it holds in a session.                                         *)
THEOREM SessionIsACryptor == SessionSpec => Spec
<1>1. SessionInit => Init
  BY DEF SessionInit
<1>2. IInv /\ [SessionNext]_sessionVars => [Next]_vars
  BY SessionSteps DEF IInv
<1>3. QED
  BY <1>1, <1>2, SessionIInv, PTL DEF SessionSpec, Spec

---------------------------------------------------------------------------
(* The keys.                                                               *)
KeyAtom == (Names \ {"digest"}) \X Nat \X Nat
Places  == 0..(KeyLen - 1)
Key     == [Places -> SUBSET KeyAtom]

KeyTypes ==
  /\ client \in BOOLEAN
  /\ phase \in {"start", "alone", "decryptor", "apply", "encryptor", "ready", "data"}
  /\ decryptKey \in Key /\ encryptKey \in Key
  /\ buf \in Seq(Byte) /\ filled \in Nat
  /\ \E S : hides \in Seq(S)
  /\ \E S : buffers \in Seq(S)

(* Where the decryptor is in its stream.                                   *)
StreamAt ==
  /\ phase \in {"start", "decryptor"} => from = 0 /\ offset = 0 /\ left = 0 /\ pc = "idle"
  /\ phase = "apply" => from = 0 /\ offset + left = KeyLen
  /\ phase \in {"encryptor", "ready"} => from = 0 /\ offset = KeyLen /\ pc = "idle"
  /\ phase \notin {"data"} => back = 0

DecryptKeyIs ==
  \A i \in Places : decryptKey[(i + 31) % KeyLen] =
    {<<"C1", (i + 31) % KeyLen, 0>>, <<"S1", i, 0>>, <<"C2", (i + 48) % KeyLen, 0>>}

EncryptKeyIs ==
  \A i \in Places : encryptKey[(i + 79) % KeyLen] =
    {<<"S2", i, 0>>, <<"stream", (i + 79) % KeyLen, 0>>}

KeysAre ==
  /\ phase \notin {"start", "alone"} => DecryptKeyIs
  /\ phase = "apply" => \A i \in Places : encryptKey[(i + 79) % KeyLen] = {<<"S2", i, 0>>}
  /\ phase \in {"encryptor", "ready"} => EncryptKeyIs

(* A byte of a digest whose message rests on all of the key.               *)
Whole(key) == UNION {key[i] : i \in Places}

Counts(h, a, key) ==
  \E t \in 1..Len(h), n \in 1..Digest : a = {<<"digest", t, n>>} /\ Whole(key) \subseteq h[t]

(* The part of buf that is filled is made of such bytes, all different.    *)
Filled(key) ==
  /\ Len(buf) = BufLen /\ sha \in {"input", "done"}
  /\ filled < BufLen => message = buf
  /\ filled = 0 => buf = FillKey(key)
  /\ \A i \in 1..BufLen : i <= filled => Counts(hides, buf[i], key)
  /\ \A i, j \in 1..BufLen : i <= filled /\ j <= filled /\ buf[i] = buf[j] => i = j

Generated ==
  /\ phase = "decryptor" => Filled(decryptKey)
  /\ phase = "encryptor" => Filled(encryptKey)

(* Generators have been given such a buf.                                  *)
Given(h, b, key) ==
  \E s \in Seq(Byte) : /\ Len(s) = BufLen /\ b = Split(s)
                       /\ \A i \in 1..BufLen : Counts(h, s[i], key)
                       /\ \A i, j \in 1..BufLen : s[i] = s[j] => i = j

BuffersAre ==
  /\ phase \in {"start", "decryptor"} => Len(buffers) = 0
  /\ phase \in {"apply", "encryptor"} => Len(buffers) = 1 /\ Given(hides, buffers[1], decryptKey)
  /\ phase = "ready" => /\ Len(buffers) = 2
                        /\ Given(hides, buffers[1], decryptKey) /\ Given(hides, buffers[2], encryptKey)

KeyInv == KeyTypes /\ StreamAt /\ KeysAre /\ Generated /\ BuffersAre

---------------------------------------------------------------------------
(* Where a byte goes that is moved on by n.                                *)
LEMMA PlaceAfter ==
  ASSUME NEW n \in Nat
  PROVE  \E r \in Places : \A i \in Places :
           (i + n) % KeyLen = IF i + r < KeyLen THEN i + r ELSE i + r - KeyLen
<1>1. KeyLen \in Nat /\ KeyLen > 0
  BY KeyLenAssumption
<1>2. PICK q \in Nat, r \in 0..(KeyLen - 1) : n = KeyLen * q + r
  BY <1>1, Divides
<1>3. ASSUME NEW i \in Places
      PROVE  (i + n) % KeyLen = IF i + r < KeyLen THEN i + r ELSE i + r - KeyLen
  <2>1. i \in Nat /\ i < KeyLen /\ r \in Nat /\ r < KeyLen
    BY <1>1 DEF Places
  <2>2. CASE i + r < KeyLen
    <3>1. i + n = KeyLen * q + (i + r) /\ i + r \in 0..(KeyLen - 1) /\ q \in Int
      BY <1>1, <1>2, <2>1, <2>2
    <3>2. QED BY <1>1, <2>2, <3>1, Remainder
  <2>3. CASE ~(i + r < KeyLen)
    <3>1. i + n = KeyLen * (q + 1) + (i + r - KeyLen) /\ i + r - KeyLen \in 0..(KeyLen - 1)
          /\ q + 1 \in Int
      BY <1>1, <1>2, <2>1, <2>3
    <3>2. QED BY <1>1, <2>3, <3>1, Remainder, ZenonT(30)
  <2>4. QED BY <2>2, <2>3
<1>4. QED
  BY <1>3 DEF Places

(* Both directions of ShiftKey; and a key it gives is one.                 *)
LEMMA ShiftIs ==
  ASSUME NEW n \in Nat, NEW src \in Key
  PROVE  /\ \A i \in Places : (i + n) % KeyLen \in Places
         /\ \A i \in Places : ShiftKey(src, n, TRUE)[(i + n) % KeyLen] = src[i]
         /\ \A i \in Places : ShiftKey(src, n, FALSE)[i] = src[(i + n) % KeyLen]
         /\ ShiftKey(src, n, TRUE) \in Key /\ ShiftKey(src, n, FALSE) \in Key
<1>1. KeyLen \in Nat /\ KeyLen > 0
  BY KeyLenAssumption
<1> DEFINE to(i) == (i + n) % KeyLen
<1>2. PICK r \in Places : \A i \in Places :
        to(i) = IF i + r < KeyLen THEN i + r ELSE i + r - KeyLen
  BY PlaceAfter
<1> HIDE DEF to
<1>3. \A i \in Places : to(i) \in Places
  BY <1>1, <1>2 DEF Places
<1>4. \A i, j \in Places : to(i) = to(j) => i = j
  BY <1>1, <1>2 DEF Places
<1>5. \A k \in Places : \E i \in Places : to(i) = k
  <2> TAKE k \in Places
  <2> DEFINE i == IF r <= k THEN k - r ELSE k - r + KeyLen
  <2>1. i \in Places /\ (IF i + r < KeyLen THEN i + r ELSE i + r - KeyLen) = k
    BY <1>1 DEF Places
  <2>2. to(i) = k
    BY <1>2, <2>1
  <2>3. QED BY <2>1, <2>2
<1> DEFINE at(k) == CHOOSE i \in Places : to(i) = k
<1>6. \A k \in Places : at(k) \in Places /\ to(at(k)) = k
  BY <1>5
<1>7. \A i \in Places : at(to(i)) = i
  <2> TAKE i \in Places
  <2>1. at(to(i)) \in Places /\ to(at(to(i))) = to(i)
    BY <1>3, <1>6
  <2> HIDE DEF at
  <2>2. QED BY <1>4, <2>1
<1>8. ShiftKey(src, n, TRUE) = [k \in Places |-> src[at(k)]]
  BY DEF ShiftKey, Places, to, at
<1>9. ShiftKey(src, n, FALSE) = [i \in Places |-> src[to(i)]]
  BY DEF ShiftKey, Places, to
<1> HIDE DEF at
<1>10. \A i \in Places : ShiftKey(src, n, TRUE)[to(i)] = src[i]
  <2> TAKE i \in Places
  <2>1. to(i) \in Places
    BY <1>3
  <2>2. ShiftKey(src, n, TRUE)[to(i)] = src[at(to(i))]
    BY <1>8, <2>1
  <2>3. QED BY <1>7, <2>2
<1>11. ShiftKey(src, n, TRUE) \in Key /\ ShiftKey(src, n, FALSE) \in Key
  <2>1. \A k \in Places : src[at(k)] \in SUBSET KeyAtom /\ src[to(k)] \in SUBSET KeyAtom
    BY <1>3, <1>6 DEF Key
  <2>2. [k \in Places |-> src[at(k)]] \in Key /\ [k \in Places |-> src[to(k)]] \in Key
    BY <2>1 DEF Key
  <2>3. QED BY <1>8, <1>9, <2>2
<1>12. \A i \in Places : ShiftKey(src, n, FALSE)[i] = src[to(i)]
  BY <1>9
<1>13. QED
  BY <1>3, <1>10, <1>11, <1>12 DEF to

(* Moving on twice.                                                        *)
LEMMA PlaceAfterPlace ==
  ASSUME NEW i \in Places
  PROVE  (((i + 31) % KeyLen) + 17) % KeyLen = (i + 48) % KeyLen
<1>1. KeyLen \in Nat /\ KeyLen > 0 /\ i \in Nat
  BY KeyLenAssumption DEF Places
<1>2. PICK q \in Nat, a \in 0..(KeyLen - 1) : i + 31 = KeyLen * q + a /\ (i + 31) % KeyLen = a
  <2>1. i + 31 \in Nat
    BY <1>1
  <2>2. QED BY <1>1, <2>1, Divides
<1>3. PICK p \in Nat, s \in 0..(KeyLen - 1) : i + 48 = KeyLen * p + s /\ (i + 48) % KeyLen = s
  <2>1. i + 48 \in Nat
    BY <1>1
  <2>2. QED BY <1>1, <2>1, Divides
<1>4. p - q \in Int /\ KeyLen * (p - q) = KeyLen * p - KeyLen * q
  BY <1>1
<1> DEFINE x == KeyLen * p
           y == KeyLen * q
           z == KeyLen * (p - q)
<1>5. x \in Nat /\ y \in Nat /\ z = x - y /\ i + 31 = y + a /\ i + 48 = x + s /\ s \in Nat /\ a \in Nat
  BY <1>1, <1>2, <1>3, <1>4
<1> HIDE DEF x, y, z
<1>6. a + 17 = z + s
  BY <1>1, <1>5
<1>7. (a + 17) % KeyLen = s
  BY <1>1, <1>4, <1>6, Remainder DEF z
<1>8. QED
  BY <1>2, <1>3, <1>7

(* The keys the two ends exchanged, and the sum of two keys.               *)
LEMMA UnknownIs ==
  ASSUME NEW name \in Names \ {"digest"}
  PROVE  Unknown(name) \in Key /\ \A i \in Places : Unknown(name)[i] = {<<name, i, 0>>}
<1>1. \A i \in Places : i \in Nat
  BY KeyLenAssumption DEF Places
<1>2. \A i \in Places : <<name, i, 0>> \in KeyAtom
  BY <1>1 DEF KeyAtom
<1>3. \A i \in Places : {<<name, i, 0>>} \in SUBSET KeyAtom
  BY <1>2
<1>4. Unknown(name) = [i \in Places |-> {<<name, i, 0>>}]
  BY DEF Unknown, Places
<1>5. QED
  BY <1>3, <1>4 DEF Key

LEMMA SumIs ==
  ASSUME NEW a \in Key, NEW b \in Key
  PROVE  XorKey(a, b) \in Key /\ \A i \in Places : XorKey(a, b)[i] = Xor(a[i], b[i])
<1>1. \A i \in Places : a[i] \in SUBSET KeyAtom /\ b[i] \in SUBSET KeyAtom
  BY DEF Key
<1>2. \A i \in Places : Xor(a[i], b[i]) \in SUBSET KeyAtom
  BY <1>1 DEF Xor
<1>3. XorKey(a, b) = [i \in Places |-> Xor(a[i], b[i])]
  BY DEF XorKey, Places
<1>4. QED
  BY <1>2, <1>3 DEF Key

LEMMA AtomsAreAtoms == SUBSET KeyAtom \subseteq Byte
<1>1. KeyAtom \subseteq Atom
  BY DEF KeyAtom, Atom
<1>2. QED
  BY <1>1 DEF Byte

(* SessionKeys: whichever end, the same four keys.                         *)
LEMMA KeysOfBothEnds ==
  /\ SessionKeys.ck1 = C1 /\ SessionKeys.ck2 = C2 /\ SessionKeys.sk1 = S1 /\ SessionKeys.sk2 = S2
  /\ C1 \in Key /\ C2 \in Key /\ S1 \in Key /\ S2 \in Key
  /\ \A i \in Places : /\ C1[i] = {<<"C1", i, 0>>} /\ C2[i] = {<<"C2", i, 0>>}
                       /\ S1[i] = {<<"S1", i, 0>>} /\ S2[i] = {<<"S2", i, 0>>}
<1>1. SessionKeys.ck1 = C1 /\ SessionKeys.ck2 = C2 /\ SessionKeys.sk1 = S1 /\ SessionKeys.sk2 = S2
  BY DEF SessionKeys, Key_l
<1>2. {"C1", "C2", "S1", "S2"} \subseteq Names \ {"digest"}
  BY DEF Names
<1>3. QED
  BY <1>1, <1>2, UnknownIs DEF C1, C2, S1, S2

(* What FillKey gives: bytes, and every byte of the key among them.        *)
LEMMA FillKeyIs ==
  ASSUME NEW key \in Key
  PROVE  /\ FillKey(key) \in Seq(Byte) /\ Len(FillKey(key)) = BufLen /\ BufLen \in Nat /\ BufLen > 1
         /\ \A k \in Places : \E i \in 1..BufLen : FillKey(key)[i] = key[k]
<1>1. KeyLen \in Nat /\ KeyLen > 0 /\ BufLen \in Nat /\ BufLen > KeyLen
  <2>1. 0 \in Gens /\ 1 \in Gens /\ 2 \in Gens
    BY DEF Gens
  <2>2. Size[0] \in Nat /\ Size[1] \in Nat /\ Size[2] \in Nat
    BY <2>1, SizeAssumption
  <2>3. QED BY <2>2, KeyLenAssumption, BufLenAssumption DEF BufLen
<1>2. \A i \in 1..BufLen : (i - 1) % KeyLen \in Places
  BY <1>1 DEF Places
<1>3. {<<"128", 0, 0>>} \in Byte
  <2>1. "128" \in Names /\ 0 \in Nat
    BY DEF Names
  <2>2. QED BY <2>1, AtomsAreTyped
<1> DEFINE f(i) == IF i = 1 THEN {<<"128", 0, 0>>} ELSE key[(i - 1) % KeyLen]
<1>4. \A i \in 1..BufLen : f(i) \in Byte
  BY <1>2, <1>3, AtomsAreAtoms DEF Key
<1>5. FillKey(key) = [i \in 1..BufLen |-> f(i)]
  BY DEF FillKey
<1> HIDE DEF f
<1>6. FillKey(key) \in Seq(Byte) /\ Len(FillKey(key)) = BufLen
  BY <1>1, <1>4, <1>5
<1>7. ASSUME NEW k \in Places PROVE \E i \in 1..BufLen : FillKey(key)[i] = key[k]
  <2> DEFINE i == IF k = 0 THEN KeyLen + 1 ELSE k + 1
  <2>1. k \in Nat /\ k < KeyLen
    BY <1>1, <1>7 DEF Places
  <2>2. i \in 1..BufLen /\ i # 1
    BY <1>1, <2>1
  <2>3. (i - 1) % KeyLen = k
    <3>1. CASE k = 0
      BY <1>1, <3>1
    <3>2. CASE k # 0
      <4>1. i - 1 = KeyLen * 0 + k /\ k \in 0..(KeyLen - 1) /\ 0 \in Int
        BY <1>1, <2>1, <3>2
      <4>2. QED BY <1>1, <4>1, Remainder
    <3>3. QED BY <3>1, <3>2
  <2> HIDE DEF i
  <2>4. FillKey(key)[i] = key[k]
    BY <1>5, <2>2, <2>3 DEF f
  <2>5. QED BY <2>2, <2>4
<1>8. QED
  BY <1>1, <1>6, <1>7

(* A new buf: nothing of it is filled yet.                                 *)
LEMMA GenerateKeyIs ==
  ASSUME NEW key \in Key, GenerateKey(key)
  PROVE  /\ buf' \in Seq(Byte) /\ filled' = 0 /\ ShaInv' /\ sha' = "input"
         /\ Len(buf') = BufLen /\ message' = buf' /\ buf' = FillKey(key)
<1>1. buf' = FillKey(key) /\ filled' = 0 /\ NewSha(FillKey(key))
  BY DEF GenerateKey
<1>2. FillKey(key) \in Seq(Byte) /\ Len(FillKey(key)) = BufLen
  BY FillKeyIs
<1>3. ShaInv'
  BY <1>1, <1>2, NewShaInv
<1>4. message' = FillKey(key) /\ sha' = "input"
  BY <1>1 DEF NewSha
<1>5. QED
  BY <1>1, <1>2, <1>3, <1>4

(* Nothing filled: the clauses about what is filled hold.                  *)
LEMMA FreshIsFilled ==
  ASSUME NEW key \in Key, GenerateKey(key)
  PROVE  /\ Len(buf') = BufLen /\ sha' \in {"input", "done"}
         /\ (filled' < BufLen => message' = buf')
         /\ (filled' = 0 => buf' = FillKey(key))
         /\ \A i \in 1..BufLen : ~(i <= filled')
BY GenerateKeyIs, FillKeyIs

---------------------------------------------------------------------------
LEMMA InitKeyInv == SessionInit => ShaInv /\ KeyInv
<1> SUFFICES ASSUME SessionInit PROVE ShaInv /\ KeyInv
  OBVIOUS
<1>1. KeyTypes
  <2>1. "" \in Names \ {"digest"}
    BY DEF Names
  <2>2. Unknown("") \in Key
    BY <2>1, UnknownIs
  <2>3. hides \in Seq({}) /\ buffers \in Seq({}) /\ buf \in Seq(Byte)
    <3>1. hides = <<>> /\ buffers = <<>> /\ buf = <<>>
      BY DEF SessionInit
    <3>2. \A S : <<>> \in Seq(S)
      OBVIOUS
    <3>3. QED BY <3>1, <3>2
  <2>4. \E S : hides \in Seq(S)
    BY <2>3
  <2>5. \E S : buffers \in Seq(S)
    BY <2>3
  <2>6. client \in BOOLEAN /\ decryptKey \in Key /\ encryptKey \in Key /\ filled \in Nat
    BY <2>2 DEF SessionInit
  <2>7. phase \in {"start", "alone"}
    BY DEF SessionInit
  <2>8. QED BY <2>3, <2>4, <2>5, <2>6, <2>7 DEF KeyTypes
<1>2. StreamAt
  BY DEF SessionInit, Init, StreamAt
<1>3. KeysAre /\ Generated
  BY DEF SessionInit, KeysAre, Generated
<1>4. BuffersAre
  BY DEF SessionInit, BuffersAre
<1>5. ShaInv
  <2>1. CASE NoSha
    BY <2>1, NoShaInv
  <2>2. CASE phase = "alone"
    <3>1. PICK n \in Others : message = [i \in 1..n |-> {<<"message", i, 0>>}]
      BY <2>2 DEF SessionInit
    <3>2. block = <<>> /\ hashed = <<>> /\ lengthLow = 0 /\ lengthHigh = 0 /\ sha = "input"
      BY <2>2 DEF SessionInit
    <3>3. n \in Nat /\ "message" \in Names
      BY OthersAssumption DEF Names
    <3>4. \A i \in 1..n : {<<"message", i, 0>>} \in Byte
      BY <3>3, AtomsAreTyped
    <3>5. message \in Seq(Byte) /\ Len(message) \in Nat
      BY <3>1, <3>3, <3>4
    <3>6. 0 \in 0..(Wrap - 1) /\ 0 = 0 * Wrap + 0 /\ Block \in Nat /\ Block > 0
      BY WrapAssumption, RoomAssumption DEF Block
    <3>7. Len(hashed) = 0 /\ Len(block) = 0 /\ Done = 0 /\ 0 % Block = 0
      BY <3>2, <3>6 DEF Done
    <3>8. ShaTypes
      BY <3>2, <3>5, <3>6 DEF ShaTypes
    <3>9. SoFar
      BY <3>2, <3>5, <3>6, <3>7 DEF SoFar
    <3>10. QED
      BY <3>2, <3>8, <3>9 DEF ShaInv, HashedIsPadded
  <2>3. QED
    BY <2>1, <2>2 DEF SessionInit
<1>6. QED
  BY <1>1, <1>2, <1>3, <1>4, <1>5 DEF KeyInv

(* Nothing changes but the hash.                                           *)
LEMMA StillKeys ==
  ASSUME KeyInv, UNCHANGED <<vars, keyVars>>
  PROVE  KeyTypes' /\ StreamAt' /\ KeysAre' /\ BuffersAre'
<1> USE DEF KeyInv, vars, keyVars
<1>1. KeyTypes'
  BY DEF KeyTypes
<1>2. StreamAt'
  BY DEF StreamAt
<1>3. (DecryptKeyIs => DecryptKeyIs') /\ (EncryptKeyIs => EncryptKeyIs')
  BY DEF DecryptKeyIs, EncryptKeyIs
<1>4. KeysAre'
  BY <1>3 DEF KeysAre
<1>5. BuffersAre'
  BY DEF BuffersAre
<1>7. QED
  BY <1>1, <1>2, <1>4, <1>5

(* The hash goes on: nothing that is known of the keys changes.            *)
LEMMA ShaKeeps ==
  ASSUME ShaInv, KeyInv, ShaNext, UNCHANGED <<vars, keyVars>>
  PROVE  ShaInv' /\ KeyInv'
<1>1. ShaInv'
  BY InputKeeps, PadKeeps DEF ShaNext
<1>2. message' = message /\ sha' \in {"input", "done"} /\ sha = "input"
  BY DEF ShaNext, Input, PadMessage
<1>3. Generated'
  BY <1>2 DEF KeyInv, Generated, Filled, Counts, keyVars
<1>4. QED
  BY <1>1, <1>3, StillKeys DEF KeyInv

LEMMA StillKeeps ==
  ASSUME ShaInv, KeyInv, UNCHANGED sessionVars
  PROVE  ShaInv' /\ KeyInv'
<1>1. ShaInv'
  BY StillSha DEF sessionVars
<1>2. Generated'
  BY DEF KeyInv, Generated, Filled, Counts, keyVars, shaVars, sessionVars
<1>3. UNCHANGED <<vars, keyVars>>
  BY DEF sessionVars
<1>4. QED
  BY <1>1, <1>2, <1>3, StillKeys DEF KeyInv

(* The constructor of Session makes the decryptor's key.                   *)
LEMMA MakeDecryptKeyKeeps ==
  ASSUME KeyInv, MakeDecryptKey
  PROVE  ShaInv' /\ KeyInv'
<1> DEFINE c == ShiftKey(C2, 17, FALSE)
           s == ShiftKey(S1, 31, TRUE)
           t == XorKey(s, C1)
           key == XorKey(c, t)
<1>1. c \in Key /\ s \in Key
  BY KeysOfBothEnds, ShiftIs
<1>2. t \in Key /\ key \in Key
  BY <1>1, KeysOfBothEnds, SumIs
<1>3. decryptKey' = key /\ GenerateKey(decryptKey')
  BY KeysOfBothEnds DEF MakeDecryptKey
<1>4. /\ phase = "start" /\ phase' = "decryptor"
      /\ UNCHANGED <<vars, client, encryptKey, buffers, hides>>
  BY DEF MakeDecryptKey
<1>5. ASSUME NEW i \in Places
      PROVE  key[(i + 31) % KeyLen] =
               {<<"C1", (i + 31) % KeyLen, 0>>, <<"S1", i, 0>>, <<"C2", (i + 48) % KeyLen, 0>>}
  <2> DEFINE k == (i + 31) % KeyLen
  <2>1. k \in Places /\ s[k] = S1[i]
    <3>1. 31 \in Nat /\ S1 \in Key
      BY KeysOfBothEnds
    <3>2. QED BY <3>1, ShiftIs
  <2> HIDE DEF s
  <2>2. c[k] = C2[(k + 17) % KeyLen] /\ (k + 17) % KeyLen \in Places
    <3>1. 17 \in Nat /\ C2 \in Key
      BY KeysOfBothEnds
    <3>2. k \in Places
      BY <2>1
    <3> HIDE DEF k
    <3>3. QED BY <3>1, <3>2, ShiftIs
  <2>3. (k + 17) % KeyLen = (i + 48) % KeyLen
    BY PlaceAfterPlace
  <2> HIDE DEF k, c
  <2>4. /\ c[k] = {<<"C2", (i + 48) % KeyLen, 0>>}
        /\ s[k] = {<<"S1", i, 0>>} /\ C1[k] = {<<"C1", k, 0>>}
    BY <2>1, <2>2, <2>3, KeysOfBothEnds
  <2>5. t[k] = Xor(s[k], C1[k])
    BY <1>1, <2>1, KeysOfBothEnds, SumIs
  <2> HIDE DEF t
  <2>6. key[k] = Xor(c[k], t[k])
    BY <1>1, <1>2, <2>1, SumIs
  <2> HIDE DEF key
  <2>7. \A x, y, z : x # y /\ x # z /\ y # z => Xor({x}, Xor({y}, {z})) = {z, y, x}
    BY DEF Xor
  <2> DEFINE x == <<"C2", (i + 48) % KeyLen, 0>>
             y == <<"S1", i, 0>>
             z == <<"C1", k, 0>>
  <2>8. x # y /\ x # z /\ y # z
    OBVIOUS
  <2> HIDE DEF x, y, z
  <2>9. key[k] = {z, y, x}
    <3>1. c[k] = {x} /\ s[k] = {y} /\ C1[k] = {z}
      BY <2>4 DEF x, y, z
    <3>2. key[k] = Xor({x}, Xor({y}, {z}))
      BY <2>5, <2>6, <3>1
    <3>3. QED BY <2>7, <2>8, <3>2
  <2>10. QED BY <2>9 DEF x, y, z, k
<1> HIDE DEF c, s, t, key
<1>6. /\ buf' \in Seq(Byte) /\ filled' = 0 /\ ShaInv'
  BY <1>2, <1>3, GenerateKeyIs
<1>7. Filled(decryptKey)'
  <2>1. /\ Len(buf') = BufLen /\ sha' \in {"input", "done"}
         /\ (filled' < BufLen => message' = buf')
         /\ (filled' = 0 => buf' = FillKey(key))
         /\ \A i \in 1..BufLen : ~(i <= filled')
    BY <1>2, <1>3, FreshIsFilled
  <2>2. QED BY <1>3, <2>1 DEF Filled
<1>8. KeyTypes'
  BY <1>2, <1>3, <1>4, <1>6 DEF KeyInv, KeyTypes
<1>9. StreamAt'
  BY <1>4 DEF KeyInv, StreamAt, vars
<1>10. KeysAre'
  BY <1>3, <1>4, <1>5 DEF KeysAre, DecryptKeyIs
<1>11. Generated' /\ BuffersAre'
  BY <1>4, <1>7 DEF KeyInv, Generated, BuffersAre
<1>12. QED
  BY <1>6, <1>8, <1>9, <1>10, <1>11 DEF KeyInv

---------------------------------------------------------------------------
(* A digest of all of the key: its message rests on every byte of the key. *)
LEMMA DigestRestsOnAll ==
  ASSUME NEW key \in Key, Filled(key), filled < BufLen, filled \in Nat
  PROVE  Whole(key) \subseteq RestsOn(message)
<1> DEFINE atoms == UNION {message[i] : i \in 1..Len(message)}
           of(a) == IF a[1] = "digest" THEN hides[a[2]] ELSE {a}
<1>1. RestsOn(message) = UNION {of(a) : a \in atoms}
  BY DEF RestsOn
<1>2. message = buf /\ Len(message) = BufLen /\ BufLen \in Nat /\ BufLen > 1
  BY FillKeyIs DEF Filled
<1>3. \A i \in 1..BufLen : message[i] \subseteq atoms
  BY <1>2
<1>4. \A a \in atoms : of(a) \subseteq RestsOn(message)
  BY <1>1
<1>5. CASE filled = 0
  <2> SUFFICES ASSUME NEW x \in Whole(key) PROVE x \in RestsOn(message)
    OBVIOUS
  <2>1. PICK k \in Places : x \in key[k]
    BY DEF Whole
  <2>2. PICK i \in 1..BufLen : FillKey(key)[i] = key[k]
    BY FillKeyIs
  <2>3. message[i] = key[k]
    BY <1>2, <1>5, <2>2 DEF Filled
  <2>4. x \in atoms
    BY <1>3, <2>1, <2>3
  <2>5. x[1] # "digest"
    BY <2>1 DEF Key, KeyAtom
  <2> HIDE DEF atoms
  <2>6. of(x) = {x}
    BY <2>5
  <2> HIDE DEF of
  <2>7. QED BY <1>4, <2>4, <2>6
<1>6. CASE filled # 0
  <2>1. 1 <= filled /\ 1 \in 1..BufLen
    BY <1>2, <1>6
  <2>2. Counts(hides, buf[1], key)
    BY <2>1 DEF Filled
  <2>3. PICK t \in 1..Len(hides), n \in 1..Digest :
          buf[1] = {<<"digest", t, n>>} /\ Whole(key) \subseteq hides[t]
    BY <2>2 DEF Counts
  <2> DEFINE x == <<"digest", t, n>>
  <2>4. x \in atoms
    BY <1>2, <1>3, <2>1, <2>3
  <2> HIDE DEF atoms
  <2>5. of(x) = hides[t]
    OBVIOUS
  <2> HIDE DEF of, x
  <2>6. hides[t] \subseteq RestsOn(message)
    BY <1>4, <2>4, <2>5
  <2>7. QED BY <2>3, <2>6
<1>7. QED
  BY <1>5, <1>6

(* Digests that are known stay what they are when there is one more.       *)
LEMMA StillCounts ==
  ASSUME \E S : hides \in Seq(S), NEW x, hides' = Append(hides, x)
  PROVE  /\ \A a, key : Counts(hides, a, key) => Counts(hides', a, key)
         /\ Len(hides') = Len(hides) + 1 /\ Len(hides) \in Nat /\ hides'[Len(hides) + 1] = x
         /\ \E S : hides' \in Seq(S)
<1>1. PICK S : hides \in Seq(S)
  OBVIOUS
<1>2. hides \in Seq(S \cup {x})
  BY <1>1
<1>3. /\ hides' \in Seq(S \cup {x}) /\ Len(hides') = Len(hides) + 1 /\ Len(hides) \in Nat
      /\ hides'[Len(hides) + 1] = x
      /\ \A t \in 1..Len(hides) : hides'[t] = hides[t]
  BY <1>2
<1>4. ASSUME NEW a, NEW key, Counts(hides, a, key) PROVE Counts(hides', a, key)
  <2>1. PICK t \in 1..Len(hides), n \in 1..Digest :
          a = {<<"digest", t, n>>} /\ Whole(key) \subseteq hides[t]
    BY <1>4 DEF Counts
  <2>2. t \in 1..Len(hides') /\ hides'[t] = hides[t]
    BY <1>3, <2>1
  <2>3. QED BY <2>1, <2>2 DEF Counts, Whole
<1>5. QED
  BY <1>3, <1>4

LEMMA StillGiven ==
  ASSUME \A a, key : Counts(hides, a, key) => Counts(hides', a, key),
         NEW b, NEW k, Given(hides, b, k)
  PROVE  Given(hides', b, k)
BY DEF Given

(* One more digest of the part of buf that is filled.                      *)
LEMMA TakeDigestFills ==
  ASSUME KeyTypes, TakeDigest, NEW key \in Key, Filled(key)
  PROVE  /\ Filled(key)' /\ buf' \in Seq(Byte) /\ filled' \in Nat
<1> DEFINE t == Len(hides')
           new(i) == {<<"digest", t, i - filled>>}
           b(i) == IF i \in (filled + 1)..(filled + Digest) THEN new(i) ELSE buf[i]
<1>1. /\ sha = "done" /\ filled < BufLen /\ filled' = filled + Digest
      /\ hides' = Append(hides, RestsOn(message))
      /\ buf' = [i \in 1..BufLen |-> b(i)]
      /\ IF filled' < BufLen THEN NewSha(buf') ELSE UNCHANGED shaVars
  BY DEF TakeDigest
<1>2. /\ filled \in Nat /\ Digest \in Nat /\ Digest > 0 /\ buf \in Seq(Byte)
      /\ Len(buf) = BufLen /\ BufLen \in Nat /\ BufLen > 1
  BY DigestAssumption, FillKeyIs DEF KeyTypes, Filled
<1>3. /\ \A a, k : Counts(hides, a, k) => Counts(hides', a, k)
      /\ t = Len(hides) + 1 /\ Len(hides) \in Nat /\ hides'[t] = RestsOn(message)
  BY <1>1, StillCounts DEF KeyTypes
<1>4. Whole(key) \subseteq RestsOn(message)
  BY <1>1, <1>2, DigestRestsOnAll
<1>5. \A i \in (filled + 1)..(filled + Digest) : new(i) \in Byte
  <2> TAKE i \in (filled + 1)..(filled + Digest)
  <2>1. "digest" \in Names
    BY DEF Names
  <2>2. i - filled \in Nat /\ t \in Nat
    BY <1>2, <1>3
  <2> HIDE DEF t
  <2>3. QED BY <2>1, <2>2, AtomsAreTyped
<1>6. \A i \in (filled + 1)..(filled + Digest) : Counts(hides', new(i), key)
  <2> TAKE i \in (filled + 1)..(filled + Digest)
  <2>1. i - filled \in 1..Digest /\ t \in 1..Len(hides')
    BY <1>2, <1>3
  <2>2. Whole(key) \subseteq hides'[t]
    BY <1>3, <1>4
  <2> HIDE DEF t
  <2>3. QED BY <2>1, <2>2 DEF Counts, Whole
<1> HIDE DEF new
<1>7. \A i \in 1..BufLen : b(i) \in Byte
  BY <1>2, <1>5
<1>8. \A i \in 1..BufLen : i <= filled' => Counts(hides', b(i), key)
  <2> TAKE i \in 1..BufLen
  <2>1. CASE i <= filled
    <3>1. b(i) = buf[i] /\ Counts(hides, buf[i], key)
      BY <1>2, <2>1 DEF Filled
    <3>2. QED BY <1>3, <3>1
  <2>2. CASE i > filled /\ i <= filled'
    <3>1. i \in (filled + 1)..(filled + Digest)
      BY <1>1, <1>2, <2>2
    <3>2. b(i) = new(i)
      BY <3>1
    <3>3. QED BY <1>6, <3>1, <3>2
  <2>3. QED BY <1>1, <1>2, <2>1, <2>2
<1>9. \A i, j \in 1..BufLen : i <= filled' /\ j <= filled' /\ b(i) = b(j) => i = j
  <2>1. ASSUME NEW i \in 1..BufLen, NEW j \in 1..BufLen, i <= filled, j > filled, j <= filled'
        PROVE  b(i) # b(j)
    <3>1. b(i) = buf[i] /\ Counts(hides, buf[i], key)
      BY <1>2, <2>1 DEF Filled
    <3>2. PICK u \in 1..Len(hides), n \in 1..Digest : buf[i] = {<<"digest", u, n>>}
      BY <3>1 DEF Counts
    <3>3. j \in (filled + 1)..(filled + Digest)
      BY <1>1, <1>2, <2>1
    <3>4. b(j) = {<<"digest", t, j - filled>>}
      BY <3>3 DEF new
    <3>5. u # t
      BY <1>3
    <3> HIDE DEF t
    <3>6. <<"digest", u, n>> # <<"digest", t, j - filled>>
      BY <3>5
    <3> HIDE DEF b
    <3>7. QED BY <3>1, <3>2, <3>4, <3>6
  <2>2. ASSUME NEW i \in 1..BufLen, NEW j \in 1..BufLen, i > filled, j > filled,
               i <= filled', j <= filled', b(i) = b(j)
        PROVE  i = j
    <3>1. i \in (filled + 1)..(filled + Digest) /\ j \in (filled + 1)..(filled + Digest)
      BY <1>1, <1>2, <2>2
    <3>2. b(i) = {<<"digest", t, i - filled>>} /\ b(j) = {<<"digest", t, j - filled>>}
      BY <3>1 DEF new
    <3> HIDE DEF t, b
    <3>3. <<"digest", t, i - filled>> = <<"digest", t, j - filled>>
      BY <2>2, <3>2
    <3>4. i - filled = j - filled
      BY <3>3
    <3>5. QED BY <1>2, <3>4
  <2>3. ASSUME NEW i \in 1..BufLen, NEW j \in 1..BufLen, i <= filled, j <= filled, b(i) = b(j)
        PROVE  i = j
    <3>1. b(i) = buf[i] /\ b(j) = buf[j]
      BY <1>2, <2>3
    <3> HIDE DEF b
    <3>2. QED BY <2>3, <3>1 DEF Filled
  <2> HIDE DEF b
  <2>4. QED
    BY <1>1, <1>2, <2>1, <2>2, <2>3
<1> HIDE DEF b, t
<1>10. buf' \in Seq(Byte) /\ Len(buf') = BufLen /\ \A i \in 1..BufLen : buf'[i] = b(i)
  BY <1>1, <1>2, <1>7
<1>11. filled' \in Nat /\ filled' # 0
  BY <1>1, <1>2
<1>12. sha' \in {"input", "done"} /\ (filled' < BufLen => message' = buf')
  <2>1. CASE filled' < BufLen
    BY <1>1, <2>1 DEF NewSha
  <2>2. CASE ~(filled' < BufLen)
    BY <1>1, <2>2 DEF shaVars
  <2>3. QED BY <2>1, <2>2
<1>13. \A i \in 1..BufLen : i <= filled' => Counts(hides', buf'[i], key)
  BY <1>8, <1>10
<1>14. \A i, j \in 1..BufLen : i <= filled' /\ j <= filled' /\ buf'[i] = buf'[j] => i = j
  BY <1>9, <1>10
<1>15. QED
  BY <1>10, <1>11, <1>12, <1>13, <1>14 DEF Filled

LEMMA TakeDigestKeeps ==
  ASSUME ShaInv, KeyInv, TakeDigest
  PROVE  ShaInv' /\ KeyInv'
<1>1. /\ phase \in {"decryptor", "encryptor"} /\ phase' = phase
      /\ UNCHANGED <<vars, client, decryptKey, encryptKey, buffers>>
  BY DEF TakeDigest
<1>2. decryptKey \in Key /\ encryptKey \in Key
  BY DEF KeyInv, KeyTypes
<1>3. /\ buf' \in Seq(Byte) /\ filled' \in Nat
      /\ (phase = "decryptor" => Filled(decryptKey)')
      /\ (phase = "encryptor" => Filled(encryptKey)')
  <2>1. CASE phase = "decryptor"
    <3>1. PICK key \in Key : key = decryptKey
      BY <1>2
    <3>2. Filled(key)
      BY <2>1, <3>1 DEF KeyInv, Generated
    <3>3. Filled(key)' /\ buf' \in Seq(Byte) /\ filled' \in Nat
      BY <3>2, TakeDigestFills DEF KeyInv
    <3>4. key = decryptKey'
      BY <1>1, <3>1
    <3>5. QED BY <2>1, <3>3, <3>4 DEF Filled
  <2>2. CASE phase = "encryptor"
    <3>1. PICK key \in Key : key = encryptKey
      BY <1>2
    <3>2. Filled(key)
      BY <2>2, <3>1 DEF KeyInv, Generated
    <3>3. Filled(key)' /\ buf' \in Seq(Byte) /\ filled' \in Nat
      BY <3>2, TakeDigestFills DEF KeyInv
    <3>4. key = encryptKey'
      BY <1>1, <3>1
    <3>5. QED BY <2>2, <3>3, <3>4 DEF Filled
  <2>3. QED BY <1>1, <2>1, <2>2
<1>4. Generated'
  BY <1>1, <1>3 DEF Generated, Filled, Counts, Whole
<1>5. /\ \A a, key : Counts(hides, a, key) => Counts(hides', a, key)
      /\ \E S : hides' \in Seq(S)
  BY StillCounts DEF KeyInv, KeyTypes, TakeDigest
<1>6. KeyTypes'
  BY <1>1, <1>3, <1>5 DEF KeyInv, KeyTypes
<1>7. StreamAt'
  BY <1>1 DEF KeyInv, StreamAt, vars
<1>8. KeysAre'
  BY <1>1 DEF KeyInv, KeysAre, DecryptKeyIs, EncryptKeyIs
<1>9. BuffersAre'
  <2>1. \A b, key : Given(hides, b, key) => Given(hides', b, key)
    BY <1>5, StillGiven
  <2>2. QED BY <1>1, <2>1 DEF KeyInv, BuffersAre
<1>10. ShaInv'
  <2>1. CASE filled' < BufLen
    BY <1>3, <2>1, NewShaInv DEF TakeDigest
  <2>2. CASE ~(filled' < BufLen)
    BY <2>2, StillSha DEF TakeDigest
  <2>3. QED BY <2>1, <2>2
<1>11. QED
  BY <1>4, <1>6, <1>7, <1>8, <1>9, <1>10 DEF KeyInv

(* A buf that is full goes to the generators.                              *)
LEMMA FullIsGiven ==
  ASSUME KeyTypes, NEW key, Filled(key), filled >= BufLen
  PROVE  Given(hides, Split(buf), key)
<1>1. BufLen \in Nat /\ filled \in Nat /\ buf \in Seq(Byte) /\ Len(buf) = BufLen
  BY FillKeyIs, UnknownIs DEF KeyTypes, Filled, Names
<1>2. \A i \in 1..BufLen : i <= filled
  BY <1>1
<1>3. /\ \A i \in 1..BufLen : Counts(hides, buf[i], key)
      /\ \A i, j \in 1..BufLen : buf[i] = buf[j] => i = j
  BY <1>2 DEF Filled
<1>4. QED
  BY <1>1, <1>3 DEF Given

LEMMA OneMoreBuffer ==
  ASSUME \E S : buffers \in Seq(S), NEW b, buffers' = Append(buffers, b)
  PROVE  /\ Len(buffers) \in Nat /\ Len(buffers') = Len(buffers) + 1
         /\ buffers'[Len(buffers) + 1] = b
         /\ \A k \in 1..Len(buffers) : buffers'[k] = buffers[k]
         /\ \E S : buffers' \in Seq(S)
<1>1. PICK S : buffers \in Seq(S)
  OBVIOUS
<1>2. buffers \in Seq(S \cup {b})
  BY <1>1
<1>3. /\ buffers' \in Seq(S \cup {b}) /\ Len(buffers') = Len(buffers) + 1
      /\ Len(buffers) \in Nat /\ buffers'[Len(buffers) + 1] = b
      /\ \A k \in 1..Len(buffers) : buffers'[k] = buffers[k]
  BY <1>2
<1>4. QED
  BY <1>3

LEMMA EndGenerateKeeps ==
  ASSUME IInv, ShaInv, KeyInv, EndGenerate
  PROVE  ShaInv' /\ KeyInv'
<1>1. /\ phase \in {"decryptor", "encryptor"} /\ filled >= BufLen
      /\ buffers' = Append(buffers, Split(buf))
      /\ UNCHANGED <<shaVars, client, decryptKey, buf, filled, hides>>
  BY DEF EndGenerate
<1>2. ShaInv'
  BY <1>1, StillSha
<1>3. /\ Len(buffers) \in Nat /\ Len(buffers') = Len(buffers) + 1
      /\ buffers'[Len(buffers) + 1] = Split(buf)
      /\ \A k \in 1..Len(buffers) : buffers'[k] = buffers[k]
      /\ \E S : buffers' \in Seq(S)
  BY <1>1, OneMoreBuffer DEF KeyInv, KeyTypes
<1>4. CASE phase = "decryptor"
  <2>1. /\ phase' = "apply" /\ encryptKey' = ShiftKey(S2, 79, TRUE) /\ Apply(KeyLen)
    BY <1>4, KeysOfBothEnds DEF EndGenerate
  <2>2. /\ encryptKey' \in Key
        /\ \A i \in Places : encryptKey'[(i + 79) % KeyLen] = {<<"S2", i, 0>>}
    <3>1. 79 \in Nat /\ S2 \in Key /\ \A i \in Places : S2[i] = {<<"S2", i, 0>>}
      BY KeysOfBothEnds
    <3>2. /\ ShiftKey(S2, 79, TRUE) \in Key
          /\ \A i \in Places : ShiftKey(S2, 79, TRUE)[(i + 79) % KeyLen] = S2[i]
      BY <3>1, ShiftIs, ZenonT(30)
    <3>3. QED BY <2>1, <3>1, <3>2
  <2>3. StreamAt'
    <3>1. from = 0 /\ offset = 0 /\ changeLen \in Nat /\ KeyLen \in Nat
      BY <1>4, KeyLenAssumption DEF KeyInv, StreamAt, IInv, TypeOK
    <3>2. from' = 0 /\ offset' = Leftover(KeyLen) /\ left' = KeyLen - Leftover(KeyLen)
      BY <2>1, <3>1 DEF Apply
    <3>3. Leftover(KeyLen) \in Nat
      BY <3>1 DEF Leftover
    <3>4. from' = 0 /\ offset' + left' = KeyLen
      BY <3>1, <3>2, <3>3
    <3>5. back' = 0
      BY <1>4, <2>1 DEF Apply, KeyInv, StreamAt
    <3>6. QED BY <2>1, <3>4, <3>5 DEF StreamAt
  <2>4. Len(buffers) = 0 /\ Given(hides, Split(buf), decryptKey)
    BY <1>1, <1>4, FullIsGiven DEF KeyInv, BuffersAre, Generated
  <2>5. Len(buffers') = 1 /\ buffers'[1] = Split(buf)
    BY <1>3, <2>4
  <2>6. BuffersAre'
    BY <1>1, <2>1, <2>4, <2>5 DEF BuffersAre
  <2>7. KeyTypes'
    BY <1>1, <1>3, <2>1, <2>2 DEF KeyInv, KeyTypes
  <2>8. KeysAre'
    BY <1>1, <1>4, <2>1, <2>2 DEF KeyInv, KeysAre, DecryptKeyIs
  <2>9. Generated'
    BY <2>1 DEF Generated
  <2>10. QED
    BY <1>2, <2>3, <2>6, <2>7, <2>8, <2>9 DEF KeyInv
<1>5. CASE phase = "encryptor"
  <2>1. phase' = "ready" /\ UNCHANGED <<vars, encryptKey>>
    BY <1>5 DEF EndGenerate
  <2>2. /\ Len(buffers) = 1 /\ Given(hides, buffers[1], decryptKey)
        /\ Given(hides, Split(buf), encryptKey)
    BY <1>1, <1>5, FullIsGiven DEF KeyInv, BuffersAre, Generated
  <2>3. Len(buffers') = 2 /\ buffers'[1] = buffers[1] /\ buffers'[2] = Split(buf)
    BY <1>3, <2>2
  <2>4. BuffersAre'
    BY <1>1, <2>1, <2>2, <2>3 DEF BuffersAre
  <2>5. KeyTypes'
    BY <1>1, <1>3, <2>1 DEF KeyInv, KeyTypes
  <2>6. StreamAt'
    BY <1>5, <2>1 DEF KeyInv, StreamAt, vars
  <2>7. KeysAre'
    BY <1>1, <1>5, <2>1 DEF KeyInv, KeysAre, DecryptKeyIs, EncryptKeyIs
  <2>8. Generated'
    BY <2>1 DEF Generated
  <2>9. QED
    BY <1>2, <2>4, <2>5, <2>6, <2>7, <2>8 DEF KeyInv
<1>6. QED
  BY <1>1, <1>4, <1>5

(* The encryptor's key goes through the decryptor.                         *)
LEMMA MakeEncryptKeyKeeps ==
  ASSUME IInv, KeyInv, MakeEncryptKey
  PROVE  ShaInv' /\ KeyInv'
<1> DEFINE e(i) == Xor(encryptKey[i], {<<"stream", used[i], 0>>})
           key == [i \in Places |-> e(i)]
<1>1. /\ phase = "apply" /\ pc = "idle" /\ phase' = "encryptor"
      /\ encryptKey' = key /\ GenerateKey(encryptKey')
      /\ UNCHANGED <<vars, client, decryptKey, buffers, hides>>
  BY DEF MakeEncryptKey, Places
<1>2. from = 0 /\ offset = KeyLen /\ KeyLen \in Nat /\ back = 0
  BY <1>1, KeyLenAssumption DEF KeyInv, StreamAt, IInv, InStream, TypeOK
<1>3. \A i \in Places : used[i] = i /\ i \in Nat
  BY <1>2 DEF IInv, ChunksDoNotMatter, Places
<1>4. encryptKey \in Key
  BY DEF KeyInv, KeyTypes
<1>5. \A i \in Places : e(i) \in SUBSET KeyAtom
  <2> TAKE i \in Places
  <2>1. "stream" \in Names \ {"digest"}
    BY DEF Names
  <2>2. i \in Nat /\ used[i] = i
    BY <1>3
  <2>3. <<"stream", i, 0>> \in KeyAtom
    BY <2>1, <2>2 DEF KeyAtom
  <2>4. {<<"stream", used[i], 0>>} \in SUBSET KeyAtom
    BY <2>2, <2>3
  <2>5. encryptKey[i] \in SUBSET KeyAtom
    BY <1>4 DEF Key
  <2>6. \A a, b \in SUBSET KeyAtom : Xor(a, b) \in SUBSET KeyAtom
    BY DEF Xor
  <2>7. QED BY <2>4, <2>5, <2>6
<1>6. key \in Key
  BY <1>5 DEF Key
<1>7. ASSUME NEW i \in Places
      PROVE  key[(i + 79) % KeyLen] = {<<"S2", i, 0>>, <<"stream", (i + 79) % KeyLen, 0>>}
  <2> DEFINE k == (i + 79) % KeyLen
             x == <<"S2", i, 0>>
             y == <<"stream", k, 0>>
  <2>1. k \in Places
    <3>1. 79 \in Nat
      OBVIOUS
    <3>2. QED BY <1>4, <3>1, ShiftIs
  <2>2. encryptKey[k] = {x}
    BY <1>1 DEF KeyInv, KeysAre
  <2>3. used[k] = k
    BY <1>3, <2>1
  <2>4. x # y
    OBVIOUS
  <2> HIDE DEF k
  <2>5. key[k] = Xor({x}, {y})
    BY <2>1, <2>2, <2>3
  <2> HIDE DEF x, y, key
  <2>6. key[k] = {x, y}
    BY <2>4, <2>5 DEF Xor
  <2>7. QED BY <2>6 DEF k, x, y
<1> HIDE DEF key
<1>8. buf' \in Seq(Byte) /\ filled' = 0 /\ ShaInv'
  BY <1>1, <1>6, GenerateKeyIs
<1>9. Filled(encryptKey)'
  <2>1. /\ Len(buf') = BufLen /\ sha' \in {"input", "done"}
        /\ (filled' < BufLen => message' = buf')
        /\ (filled' = 0 => buf' = FillKey(key))
        /\ \A i \in 1..BufLen : ~(i <= filled')
    BY <1>1, <1>6, FreshIsFilled
  <2>2. QED BY <1>1, <2>1 DEF Filled
<1>10. KeyTypes'
  BY <1>1, <1>6, <1>8 DEF KeyInv, KeyTypes
<1>11. StreamAt'
  BY <1>1, <1>2 DEF StreamAt, vars
<1>12. KeysAre'
  BY <1>1, <1>7 DEF KeyInv, KeysAre, DecryptKeyIs, EncryptKeyIs
<1>13. Generated'
  BY <1>1, <1>9 DEF Generated
<1>14. BuffersAre'
  BY <1>1 DEF KeyInv, BuffersAre
<1>15. QED
  BY <1>8, <1>10, <1>11, <1>12, <1>13, <1>14 DEF KeyInv

LEMMA MadeKeeps ==
  ASSUME KeyInv, Made
  PROVE  ShaInv' /\ KeyInv'
<1>1. /\ phase = "ready" /\ phase' = "data" /\ buf' = <<>> /\ filled' = 0
      /\ buffers' = <<>> /\ hides' = <<>> /\ DeleteSha
      /\ UNCHANGED <<vars, client, decryptKey, encryptKey>>
  BY DEF Made
<1>2. \A S : <<>> \in Seq(S)
  OBVIOUS
<1>3. KeyTypes'
  BY <1>1, <1>2 DEF KeyInv, KeyTypes
<1>4. KeysAre'
  BY <1>1 DEF KeyInv, KeysAre, DecryptKeyIs
<1>5. StreamAt' /\ Generated' /\ BuffersAre'
  BY <1>1 DEF StreamAt, Generated, BuffersAre
<1>6. QED
  BY <1>1, <1>3, <1>4, <1>5, NoShaInv DEF KeyInv

(* Inside ApplyCryptor: its call is as long as it was.                     *)
LEMMA InApplyKeeps ==
  ASSUME IInv, ShaInv, KeyInv,
         InApply \/ (\E n \in 0..Total : Data(n)) \/ (\E k \in 1..4 : DataNegative(k))
  PROVE  ShaInv' /\ KeyInv'
<1>1. phase \in {"apply", "data"} /\ UNCHANGED <<shaVars, keyVars>>
  BY DEF InApply, Data, DataNegative
<1>2. phase = "apply" => from' = from /\ offset' + left' = offset + left /\ back' = back
  <2>1. offset \in Nat /\ left \in Nat
    BY DEF IInv, TypeOK
  <2>2. CASE WholeWord
    BY <2>1, <2>2 DEF WholeWord, Combine
  <2>3. CASE PartWord
    BY <2>1, <2>3 DEF PartWord, Combine
  <2>4. CASE Return
    BY <2>4 DEF Return
  <2>5. QED
    BY <2>2, <2>3, <2>4 DEF InApply, Data, DataNegative
<1>3. ShaInv'
  BY <1>1, StillSha
<1>4. KeyTypes' /\ KeysAre' /\ BuffersAre'
  <2>1. KeyTypes'
    BY <1>1 DEF KeyInv, KeyTypes, keyVars
  <2>2. KeysAre'
    BY <1>1 DEF KeyInv, KeysAre, DecryptKeyIs, EncryptKeyIs, keyVars
  <2>3. BuffersAre'
    BY <1>1 DEF KeyInv, BuffersAre, keyVars
  <2>4. QED BY <2>1, <2>2, <2>3
<1>5. StreamAt' /\ Generated'
  BY <1>1, <1>2 DEF KeyInv, StreamAt, Generated, keyVars
<1>6. QED
  BY <1>3, <1>4, <1>5 DEF KeyInv

LEMMA SessionKeeps ==
  ASSUME IInv, ShaInv, KeyInv, [SessionNext]_sessionVars
  PROVE  ShaInv' /\ KeyInv'
<1>1. CASE ShaNext /\ UNCHANGED <<vars, keyVars>>
  BY <1>1, ShaKeeps
<1>2. CASE MakeDecryptKey
  BY <1>2, MakeDecryptKeyKeeps
<1>3. CASE TakeDigest
  BY <1>3, TakeDigestKeeps
<1>4. CASE EndGenerate
  BY <1>4, EndGenerateKeeps
<1>5. CASE MakeEncryptKey
  BY <1>5, MakeEncryptKeyKeeps
<1>6. CASE Made
  BY <1>6, MadeKeeps
<1>7. CASE InApply \/ (\E n \in 0..Total : Data(n)) \/ (\E k \in 1..4 : DataNegative(k))
  BY <1>7, InApplyKeeps
<1>8. CASE UNCHANGED sessionVars
  BY <1>8, StillKeeps
<1>9. QED
  BY <1>1, <1>2, <1>3, <1>4, <1>5, <1>6, <1>7, <1>8, Zenon DEF SessionNext

LEMMA SessionInvariant == SessionSpec => [](IInv /\ ShaInv /\ KeyInv)
<1>1. SessionInit => IInv /\ ShaInv /\ KeyInv
  BY InitIInv, InitKeyInv DEF SessionInit
<1>2. IInv /\ ShaInv /\ KeyInv /\ [SessionNext]_sessionVars => (IInv /\ ShaInv /\ KeyInv)'
  <2> SUFFICES ASSUME IInv, ShaInv, KeyInv, [SessionNext]_sessionVars
               PROVE  IInv' /\ ShaInv' /\ KeyInv'
    OBVIOUS
  <2>1. IInv'
    BY SessionSteps, NextIInv DEF IInv
  <2>2. QED BY <2>1, SessionKeeps
<1>3. QED
  BY <1>1, <1>2, PTL DEF SessionSpec

---------------------------------------------------------------------------
(* Sha.cpp: what is hashed is the message and its padding, whatever place  *)
(* of a block the message ends at, however long it is.                     *)
THEOREM HashedIsPaddedInvariant == SessionSpec => []HashedIsPadded
<1>1. ShaInv => HashedIsPadded
  BY DEF ShaInv
<1>2. QED
  BY <1>1, SessionInvariant, PTL

(* A byte of a generator's buffer is one of buf, and each has its own.     *)
LEMMA GivenCounts ==
  ASSUME NEW b, NEW key, NEW h, Given(h, b, key)
  PROVE  LET bytes == {p \in (1..3) \X (1..BufLen) : p[2] <= 4 * Size[p[1] - 1]}
             at(p) == b[p[1]][p[2]]
         IN  /\ \A p \in bytes : Counts(h, at(p), key)
             /\ \A p, q \in bytes : at(p) = at(q) => p = q
<1> DEFINE bytes == {p \in (1..3) \X (1..BufLen) : p[2] <= 4 * Size[p[1] - 1]}
           at(p) == b[p[1]][p[2]]
           x == 4 * Size[0]
           y == 4 * Size[1]
           z == 4 * Size[2]
           place(p) == p[2] + (IF p[1] = 1 THEN 0 ELSE IF p[1] = 2 THEN x ELSE x + y)
<1>1. PICK s \in Seq(Byte) : /\ Len(s) = BufLen /\ b = Split(s)
                             /\ \A i \in 1..BufLen : Counts(h, s[i], key)
                             /\ \A i, j \in 1..BufLen : s[i] = s[j] => i = j
  BY DEF Given
<1>2. x \in Nat /\ y \in Nat /\ z \in Nat /\ BufLen = x + y + z
  <2>1. 0 \in Gens /\ 1 \in Gens /\ 2 \in Gens
    BY DEF Gens
  <2>2. Size[0] \in Nat /\ Size[1] \in Nat /\ Size[2] \in Nat
    BY <2>1, SizeAssumption
  <2>3. \A k, m, n \in Nat : 4 * (k + m + n) = 4 * k + 4 * m + 4 * n
    OBVIOUS
  <2>4. BufLen = 4 * Size[0] + 4 * Size[1] + 4 * Size[2]
    BY <2>2, <2>3 DEF BufLen
  <2>5. \A n \in Nat : 4 * n \in Nat
    OBVIOUS
  <2>6. x \in Nat /\ y \in Nat /\ z \in Nat
    BY <2>2, <2>5, Zenon
  <2>7. QED BY <2>4, <2>6, Zenon
<1>3. ASSUME NEW p \in bytes
      PROVE  /\ p[1] \in 1..3 /\ p[2] \in 1..BufLen /\ p = <<p[1], p[2]>>
             /\ place(p) \in 1..BufLen /\ at(p) = s[place(p)]
             /\ p[2] <= (IF p[1] = 1 THEN x ELSE IF p[1] = 2 THEN y ELSE z)
  <2>1. p \in (1..3) \X (1..BufLen) /\ p[2] <= 4 * Size[p[1] - 1]
    OBVIOUS
  <2>2. p[1] \in 1..3 /\ p[2] \in 1..BufLen /\ p = <<p[1], p[2]>>
    BY <2>1
  <2> DEFINE i == p[2]
  <2>3. i \in Nat /\ i >= 1
    BY <1>2, <2>2
  <2>4. b[1] = SubSeq(s, 1, x) /\ b[2] = SubSeq(s, x + 1, x + y)
        /\ b[3] = SubSeq(s, x + y + 1, x + y + z)
    <3>1. b[1] = SubSeq(s, 1, 4 * Size[0])
          /\ b[2] = SubSeq(s, 4 * Size[0] + 1, 4 * (Size[0] + Size[1]))
          /\ b[3] = SubSeq(s, 4 * (Size[0] + Size[1]) + 1, BufLen)
      BY <1>1 DEF Split
    <3>2. 4 * (Size[0] + Size[1]) = x + y
      <4>1. 0 \in Gens /\ 1 \in Gens
        BY DEF Gens
      <4>2. QED BY <4>1, SizeAssumption
    <3>3. QED BY <1>2, <3>1, <3>2
  <2>5. CASE p[1] = 1
    <3>1. i <= x /\ place(p) = i /\ at(p) = SubSeq(s, 1, x)[i]
      <4>1. Size[p[1] - 1] = Size[0]
        BY <2>5
      <4>2. i <= x
        BY <2>1, <4>1
      <4>3. b[p[1]] = SubSeq(s, 1, x)
        BY <2>4, <2>5
      <4>4. place(p) = i
        BY <1>2, <2>3, <2>5
      <4>5. QED BY <4>2, <4>3, <4>4
    <3> HIDE DEF i, place, at, x, y, z
    <3>2. SubSeq(s, 1, x)[i] = s[i]
      BY <1>1, <1>2, <2>3, <3>1
    <3>3. i \in 1..BufLen
      BY <1>2, <2>3, <3>1
    <3>4. QED BY <2>2, <2>5, <3>1, <3>2, <3>3 DEF i
  <2>6. CASE p[1] = 2
    <3>1. i <= y /\ place(p) = i + x /\ at(p) = SubSeq(s, x + 1, x + y)[i]
      <4>1. Size[p[1] - 1] = Size[1]
        BY <2>6
      <4>2. i <= y
        BY <2>1, <4>1
      <4>3. b[p[1]] = SubSeq(s, x + 1, x + y)
        BY <2>4, <2>6
      <4>4. place(p) = i + x
        BY <1>2, <2>3, <2>6
      <4>5. QED BY <4>2, <4>3, <4>4
    <3> HIDE DEF i, place, at, x, y, z
    <3>2. SubSeq(s, x + 1, x + y)[i] = s[i + x]
      BY <1>1, <1>2, <2>3, <3>1
    <3>3. i + x \in 1..BufLen
      BY <1>2, <2>3, <3>1
    <3>4. at(p) = s[place(p)] /\ place(p) \in 1..BufLen
      BY <3>1, <3>2, <3>3
    <3>5. p[2] <= (IF p[1] = 1 THEN x ELSE IF p[1] = 2 THEN y ELSE z)
      BY <2>6, <3>1 DEF i
    <3>6. QED BY <2>2, <3>4, <3>5
  <2>7. CASE p[1] = 3
    <3>1. i <= z /\ place(p) = i + (x + y) /\ at(p) = SubSeq(s, x + y + 1, x + y + z)[i]
      <4>1. Size[p[1] - 1] = Size[2]
        BY <2>7
      <4>2. i <= z
        BY <2>1, <4>1
      <4>3. b[p[1]] = SubSeq(s, x + y + 1, x + y + z)
        BY <2>4, <2>7
      <4>4. place(p) = i + (x + y)
        BY <1>2, <2>3, <2>7
      <4>5. QED BY <4>2, <4>3, <4>4
    <3> HIDE DEF i, place, at, x, y, z
    <3>2. SubSeq(s, x + y + 1, x + y + z)[i] = s[i + (x + y)]
      BY <1>1, <1>2, <2>3, <3>1
    <3>3. i + (x + y) \in 1..BufLen
      BY <1>2, <2>3, <3>1
    <3>4. at(p) = s[place(p)] /\ place(p) \in 1..BufLen
      BY <3>1, <3>2, <3>3
    <3>5. p[2] <= (IF p[1] = 1 THEN x ELSE IF p[1] = 2 THEN y ELSE z)
      BY <2>7, <3>1 DEF i
    <3>6. QED BY <2>2, <3>4, <3>5
  <2>8. QED
    BY <2>2, <2>5, <2>6, <2>7
<1>4. \A p \in bytes : Counts(h, at(p), key)
  BY <1>1, <1>3
<1>5. ASSUME NEW p \in bytes, NEW q \in bytes, at(p) = at(q) PROVE p = q
  <2>1. /\ p[1] \in 1..3 /\ p[2] \in 1..BufLen /\ p = <<p[1], p[2]>>
        /\ p[2] <= (IF p[1] = 1 THEN x ELSE IF p[1] = 2 THEN y ELSE z)
        /\ q[1] \in 1..3 /\ q[2] \in 1..BufLen /\ q = <<q[1], q[2]>>
        /\ q[2] <= (IF q[1] = 1 THEN x ELSE IF q[1] = 2 THEN y ELSE z)
    BY <1>3
  <2>2. place(p) = place(q)
    BY <1>1, <1>3, <1>5, SMTT(20)
  <2> DEFINE p1 == p[1]  p2 == p[2]  q1 == q[1]  q2 == q[2]
  <2>3. /\ p1 \in 1..3 /\ p2 \in 1..BufLen /\ q1 \in 1..3 /\ q2 \in 1..BufLen
        /\ p2 <= (IF p1 = 1 THEN x ELSE IF p1 = 2 THEN y ELSE z)
        /\ q2 <= (IF q1 = 1 THEN x ELSE IF q1 = 2 THEN y ELSE z)
        /\ p2 + (IF p1 = 1 THEN 0 ELSE IF p1 = 2 THEN x ELSE x + y)
             = q2 + (IF q1 = 1 THEN 0 ELSE IF q1 = 2 THEN x ELSE x + y)
    BY <2>1, <2>2
  <2> HIDE DEF x, y, z, p1, p2, q1, q2
  <2>4. p1 = q1 /\ p2 = q2
    BY <1>2, <2>3
  <2>5. QED BY <2>1, <2>4 DEF p1, p2, q1, q2
<1>6. QED
  BY <1>4, <1>5

(* Session.cpp, Cryptor::GenerateKey: the two ends make the same keys, and *)
(* every byte of a key counts for every byte of the generators.            *)
THEOREM SecretsAgreeInvariant == SessionSpec => []SecretsAgree
<1>1. ASSUME IInv, KeyInv PROVE SecretsAgree
  <2> SUFFICES ASSUME phase = "ready" PROVE SecretsAgree
    BY DEF SecretsAgree
  <2>1. DecryptKeyIs /\ EncryptKeyIs
    BY <1>1 DEF KeyInv, KeysAre
  <2>2. from + offset = KeyLen
    BY <1>1, KeyLenAssumption DEF KeyInv, StreamAt
  <2>3. Given(hides, buffers[1], decryptKey) /\ Given(hides, buffers[2], encryptKey)
    BY <1>1 DEF KeyInv, BuffersAre
  <2>4. EveryKeyByteCounts
    <3>1. ASSUME NEW k \in 1..2
          PROVE LET key   == IF k = 1 THEN decryptKey ELSE encryptKey
                    bytes == {p \in (1..3) \X (1..BufLen) : p[2] <= 4 * Size[p[1] - 1]}
                    at(p) == buffers[k][p[1]][p[2]]
                IN  /\ \A p \in bytes : Counts(hides, at(p), key)
                    /\ \A p, q \in bytes : at(p) = at(q) => p = q
      <4> DEFINE key == IF k = 1 THEN decryptKey ELSE encryptKey
      <4>1. Given(hides, buffers[k], key)
        BY <2>3
      <4> HIDE DEF key
      <4>2. LET bytes == {p \in (1..3) \X (1..BufLen) : p[2] <= 4 * Size[p[1] - 1]}
                at(p) == buffers[k][p[1]][p[2]]
            IN  /\ \A p \in bytes : Counts(hides, at(p), key)
                /\ \A p, q \in bytes : at(p) = at(q) => p = q
        BY <4>1, GivenCounts
      <4>3. QED BY <4>2 DEF key
    <3>2. QED
      BY <3>1 DEF EveryKeyByteCounts, Counts, Whole, Places
  <2>5. QED
    BY <2>1, <2>2, <2>4 DEF SecretsAgree, DecryptKeyIs, EncryptKeyIs, Places
<1>2. QED
  BY <1>1, SessionInvariant, PTL

(* Session.cpp: in a session too, how data is cut into calls changes       *)
(* nothing.                                                                *)
THEOREM ChunksHoldInSession == SessionSpec => []ChunksDoNotMatter
BY SessionIsACryptor, ChunksHold, PTL
=============================================================================
