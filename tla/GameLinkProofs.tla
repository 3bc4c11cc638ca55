--------------------------- MODULE GameLinkProofs ---------------------------
(***************************************************************************)
(* Proofs about the packets of a game client, for keys and heads of any    *)
(* size and packets that claim any: as long as heads and keys come in one  *)
(* piece and every packet before claimed its head, the server reads the    *)
(* packets that were sent; and a packet whose rest never comes is waited   *)
(* for, unless the count of its bytes overflows.                           *)
(***************************************************************************)
EXTENDS GameLink, TLAPS

(* The types the proof needs. *)
Types ==
  /\ packets \in [1..2 -> Sizes] /\ pc \in PC /\ nb \in 1..2
  /\ sent \in Nat /\ taken \in Nat /\ start \in Nat /\ cipher \in Int
  /\ size \in Nat /\ len \in Int /\ len >= -1 /\ cut \in BOOLEAN /\ sock \in BOOLEAN

(* What has been received when nothing was cut. *)
KeysSoFar == pc \in KeyPC =>
  cipher = 0 /\ nb = 1 /\ taken = (IF pc = "key1" THEN 0 ELSE KeySize)

(* The length of a packet counts its bytes until it only shrinks. *)
BodySoFar == pc = "body" =>
  /\ InStep(nb - 1) =>
       size = packets[nb] /\ start = Before(nb) /\ cipher = start - Keys + Head
  /\ InStep(nb) => len <= size
  /\ InStep(nb - 1) /\ len # -1 => taken = start + len
  /\ len = -1 => ~sock

Frames ==
  /\ pc = "head" /\ InStep(nb - 1) =>
       taken = Before(nb) /\ start = taken /\ cipher = taken - Keys
  /\ pc = "packet" /\ InStep(nb - 1) =>
       size = packets[nb] /\ start = Before(nb) /\ cipher = start - Keys + Head
  /\ pc = "packet" /\ InStep(nb) => taken = start + size
  /\ pc = "done" /\ InStep(2) => taken = Whole /\ cipher = packets[1] + packets[2]
  /\ pc = "undefined" => ~InStep(nb) \/ ~sock

IInv == Types /\ (~cut => KeysSoFar /\ BodySoFar /\ Frames)

(* The sizes the model works with. *)
LEMMA SizeFacts ==
  ASSUME Types
  PROVE  /\ KeySize \in Nat /\ Head \in Nat /\ KeySize > 0 /\ Head > 0 /\ Keys \in Nat
         /\ Keys = 2 * KeySize
         /\ packets[1] \in Nat /\ packets[2] \in Nat /\ packets[nb] \in Nat
         /\ Before(nb) \in Nat /\ Before(nb) = Keys + (IF nb = 1 THEN 0 ELSE packets[1])
<1>1. packets[1] \in Sizes /\ packets[2] \in Sizes /\ packets[nb] \in Sizes /\ nb \in 1..2
  BY DEF Types
<1>2. KeySize \in Nat /\ Head \in Nat /\ KeySize > 0 /\ Head > 0
  BY KeyAssumption, HeadAssumption
<1>3. \A s \in Sizes : s \in Nat
  BY SizesAssumption
<1>4. QED
  BY <1>1, <1>2, <1>3 DEF Keys, Before

(* A packet is in step when those before are and it claims its head. *)
LEMMA StepByStep ==
  ASSUME Types
  PROVE  /\ InStep(nb) <=> InStep(nb - 1) /\ packets[nb] >= Head
         /\ nb = 1 => InStep(nb - 1)
         /\ nb = 2 => (InStep(1) <=> packets[1] >= Head) /\ (InStep(2) <=> InStep(nb))
         /\ InStep(1) => Bytes(packets[1]) = packets[1]
         /\ InStep(2) => Bytes(packets[2]) = packets[2] /\ InStep(1)
<1>1. nb \in 1..2 /\ packets[1] \in Int /\ packets[2] \in Int /\ Head \in Int
  BY SizeFacts DEF Types
<1>2. /\ InStep(0) /\ (InStep(1) <=> packets[1] >= Head)
      /\ (InStep(2) <=> packets[1] >= Head /\ packets[2] >= Head)
  BY <1>1 DEF InStep
<1>3. CASE nb = 1
  BY <1>1, <1>2, <1>3 DEF Bytes
<1>4. CASE nb = 2
  BY <1>1, <1>2, <1>4 DEF Bytes
<1>5. QED
  BY <1>1, <1>3, <1>4

LEMMA InitIInv == Init => IInv
<1> SUFFICES ASSUME Init PROVE IInv
  OBVIOUS
<1>1. Types
  <2>1. pc \in PC
    <3>1. pc = "key1"
      BY DEF Init
    <3>2. QED
      BY <3>1, Zenon DEF PC, KeyPC
  <2>2. Head \in Nat
    BY HeadAssumption
  <2>3. cut \in BOOLEAN /\ sock \in BOOLEAN
    BY Zenon DEF Init
  <2>4. /\ packets \in [1..2 -> Sizes] /\ nb \in 1..2 /\ cipher \in Int
        /\ sent \in Nat /\ taken \in Nat /\ start \in Nat /\ size \in Nat /\ len \in Int /\ len >= -1
    BY <2>2 DEF Init
  <2>5. QED
    BY <2>1, <2>3, <2>4 DEF Types
<1>2. QED
  BY <1>1 DEF Init, IInv, KeysSoFar, BodySoFar, Frames, KeyPC

(* What recv returns is added to what was taken. *)
LEMMA RecvTakes ==
  ASSUME Types, NEW n \in Int, NEW r \in Int, Recv(n, r)
  PROVE  /\ taken' \in Nat /\ sock' \in BOOLEAN /\ (r > 0 => taken' = taken + r)
         /\ (r <= 0 => taken' = taken) /\ (r < 0 => ~sock') /\ r >= -1 /\ (r > 0 => r <= n)
         /\ (~sock => r = -1)
<1>1. CASE sock /\ r \in 1..n /\ taken' = taken + r /\ UNCHANGED sock
  BY <1>1 DEF Types
<1>2. CASE sock /\ r = 0 /\ UNCHANGED <<taken, sock>>
  BY <1>2 DEF Types
<1>3. CASE r = -1 /\ sock' = FALSE /\ UNCHANGED taken
  <2>1. ~sock' /\ sock' \in BOOLEAN
    BY <1>3, Zenon
  <2>2. r = -1 /\ taken' = taken /\ taken \in Nat
    BY <1>3 DEF Types
  <2>3. QED
    BY <2>1, <2>2
<1>4. CASE ~sock /\ r = -1 /\ UNCHANGED <<taken, sock>>
  BY <1>4 DEF Types
<1>5. QED
  BY <1>1, <1>2, <1>3, <1>4 DEF Recv

LEMMA NextIInv == IInv /\ [Next]_vars => IInv'
<1> SUFFICES ASSUME IInv, [Next]_vars PROVE IInv'
  OBVIOUS
<1>0. /\ KeySize \in Nat /\ Head \in Nat /\ KeySize > 0 /\ Head > 0 /\ Keys \in Nat
      /\ Keys = 2 * KeySize
      /\ packets[1] \in Nat /\ packets[2] \in Nat /\ packets[nb] \in Nat
      /\ Before(nb) \in Nat /\ Before(nb) = Keys + (IF nb = 1 THEN 0 ELSE packets[1])
  BY SizeFacts DEF IInv
<1>s. /\ InStep(nb) <=> InStep(nb - 1) /\ packets[nb] >= Head
      /\ nb = 1 => InStep(nb - 1)
      /\ nb = 2 => (InStep(1) <=> packets[1] >= Head) /\ (InStep(2) <=> InStep(nb))
      /\ InStep(1) => Bytes(packets[1]) = packets[1]
      /\ InStep(2) => Bytes(packets[2]) = packets[2] /\ InStep(1)
  BY StepByStep DEF IInv
<1>t. nb \in 1..2 /\ cipher \in Int /\ start \in Nat /\ taken \in Nat /\ size \in Nat /\ len \in Int /\ len >= -1
  BY DEF IInv, Types
<1>1. ASSUME Send PROVE IInv'
  <2>1. Types'
    <3>1. sent' \in Nat
      BY <1>0, <1>1 DEF Send, IInv, Types, MaySend, Whole, Bytes, Keys
    <3>2. QED
      BY <1>1, <3>1 DEF Send, IInv, Types
  <2>2. QED
    BY <1>1, <2>1 DEF Send, IInv, KeysSoFar, BodySoFar, Frames, Before, Whole, Keys, Bytes, InStep
<1>2. ASSUME Leave PROVE IInv'
  BY <1>2 DEF Leave, IInv, Types, KeysSoFar, BodySoFar, Frames, Before, Whole, Keys, Bytes, InStep
<1>3. ASSUME RecvKey PROVE IInv'
  <2>1. PICK r \in -1..KeySize :
          /\ Recv(KeySize, r)
          /\ \/ r = KeySize /\ pc' = (IF pc = "key1" THEN "key2" ELSE "head") /\ UNCHANGED cut
             \/ r # KeySize /\ pc' = "aborted" /\ cut' = (cut \/ r > 0)
             \/ r = KeySize /\ gone /\ pc' = "aborted" /\ UNCHANGED cut
    BY <1>3 DEF RecvKey
  <2>2. taken' \in Nat /\ sock' \in BOOLEAN /\ (r > 0 => taken' = taken + r)
    BY <1>0, <2>1, RecvTakes DEF IInv
  <2>3. Types'
    BY <1>3, <2>1, <2>2 DEF RecvKey, IInv, Types, PC, KeyPC
  <2>4. ASSUME ~cut' PROVE KeysSoFar' /\ BodySoFar' /\ Frames'
    <3>1. ~cut /\ pc \in KeyPC
      BY <1>3, <2>1, <2>4 DEF RecvKey, IInv, Types
    <3>2. cipher = 0 /\ nb = 1 /\ taken = (IF pc = "key1" THEN 0 ELSE KeySize)
      BY <3>1 DEF IInv, KeysSoFar
    <3>3. CASE pc' = "aborted"
      BY <3>3 DEF KeysSoFar, BodySoFar, Frames, KeyPC
    <3>4. CASE r = KeySize /\ pc' = (IF pc = "key1" THEN "key2" ELSE "head")
      <4>1. /\ cipher' = 0 /\ nb' = 1 /\ taken' = taken + KeySize /\ start' = taken'
            /\ packets' = packets
        BY <1>0, <1>3, <2>2, <3>2, <3>4 DEF RecvKey
      <4>2. CASE pc = "key1"
        <5>1. taken' = KeySize /\ pc' = "key2"
          BY <1>0, <3>2, <3>4, <4>1, <4>2
        <5>2. QED BY <4>1, <5>1 DEF KeysSoFar, BodySoFar, Frames, KeyPC
      <4>3. CASE pc = "key2"
        <5>1. pc' = "head"
          BY <3>4, <4>3
        <5>2. taken' = Keys
          BY <1>0, <3>2, <4>1, <4>3
        <5>3. Before(nb)' = Keys /\ Keys - Keys = 0
          BY <1>0, <4>1 DEF Before, Keys
        <5>4. QED
          BY <4>1, <5>1, <5>2, <5>3 DEF KeysSoFar, BodySoFar, Frames, KeyPC, Keys
      <4>4. QED BY <3>1, <4>2, <4>3 DEF KeyPC
    <3>5. QED BY <2>1, <3>3, <3>4
  <2>5. QED BY <2>3, <2>4 DEF IInv
<1>4. ASSUME RecvHead PROVE IInv'
  <2>1. PICK r \in -1..Head :
          /\ Recv(Head, r)
          /\ len' = r
          /\ size' \in (IF r = Head /\ InPlace THEN {packets[nb]} ELSE Sizes)
          /\ cut' = (cut \/ r # Head)
    BY <1>4 DEF RecvHead
  <2>2. taken' \in Nat /\ sock' \in BOOLEAN /\ (r > 0 => taken' = taken + r)
    BY <1>0, <2>1, RecvTakes DEF IInv
  <2>3. Types'
    <3>1. size' \in Nat /\ len' \in Int /\ len' >= -1 /\ cut' \in BOOLEAN
      <4>1. len' \in Int /\ len' >= -1
        BY <1>0, <2>1
      <4>2. size' \in Nat
        <5>1. size' = packets[nb] \/ size' \in Sizes
          BY <2>1
        <5>2. \A g \in Sizes : g \in Nat
          BY SizesAssumption
        <5>3. QED BY <1>0, <5>1, <5>2
      <4>3. cut' \in BOOLEAN
        BY <2>1, Zenon
      <4>4. QED BY <4>1, <4>2, <4>3
    <3>2. pc' \in PC
      BY <1>4 DEF RecvHead, PC
    <3>3. cipher' \in Int
      BY <1>0, <1>4, <1>t DEF RecvHead, Moved, Displaced
    <3>4. QED
      BY <1>4, <2>2, <3>1, <3>2, <3>3 DEF RecvHead, IInv, Types
  <2>4. ASSUME ~cut' PROVE KeysSoFar' /\ BodySoFar' /\ Frames'
    <3>1. ~cut /\ r = Head /\ pc = "head" /\ pc' = "body"
      BY <1>4, <2>1, <2>4 DEF RecvHead, IInv, Types
    <3>2. len' = Head /\ start' = start /\ nb' = nb /\ packets' = packets /\ taken' = taken + Head
      BY <1>0, <1>4, <2>1, <2>2, <3>1 DEF RecvHead
    <3>3. /\ Before(nb)' = Before(nb)
          /\ InStep(nb)' <=> InStep(nb)
          /\ InStep(nb - 1)' <=> InStep(nb - 1)
      BY <3>2 DEF Before, Keys, InStep
    <3>4. ASSUME InStep(nb - 1)
          PROVE  /\ size' = packets[nb]' /\ start' = Before(nb)' /\ cipher' = start' - Keys + Head
                 /\ taken' = start' + len'
      <4>1. taken = Before(nb) /\ start = taken /\ cipher = taken - Keys
        BY <3>1, <3>4 DEF IInv, Frames
      <4>2. InPlace
        <5>1. nb # 1 => Bytes(packets[1]) = packets[1]
          BY <1>s, <1>t, <3>4
        <5>2. QED
          BY <1>0, <4>1, <5>1 DEF InPlace
      <4>3. size' = packets[nb]
        BY <2>1, <3>1, <4>2
      <4>4. cipher' = cipher + Head
        BY <1>0, <1>4, <1>t, <4>1 DEF RecvHead, Moved, Displaced
      <4>5. QED
        BY <1>0, <1>t, <3>2, <3>3, <4>1, <4>3, <4>4
    <3>7. BodySoFar'
      <4>1. InStep(nb)' => len' <= size'
        BY <1>s, <3>2, <3>3, <3>4
      <4>2. len' >= -1 /\ len' # -1
        BY <1>0, <3>2
      <4>3. QED
        BY <3>3, <3>4, <4>1, <4>2 DEF BodySoFar, Keys
    <3>8. KeysSoFar' /\ Frames'
      BY <3>1 DEF KeysSoFar, Frames, KeyPC
    <3>9. QED BY <3>7, <3>8
  <2>5. QED BY <2>3, <2>4 DEF IInv
<1>5. ASSUME RecvBody PROVE IInv'
  <2>1. PICK r \in -1..(size - len) :
          /\ Recv(size - len, r)
          /\ len' = Longer(r)
          /\ pc' = IF size > len' THEN "body" ELSE "packet"
    BY <1>5 DEF RecvBody
  <2>2. /\ size \in Nat /\ len \in Int /\ r \in Int /\ size - len \in Int /\ r >= -1
        /\ r <= size - len
    BY <2>1 DEF IInv, Types
  <2>3. /\ taken' \in Nat /\ sock' \in BOOLEAN /\ (r > 0 => taken' = taken + r)
        /\ (r <= 0 => taken' = taken) /\ (r < 0 => ~sock') /\ (~sock => r = -1)
    BY <2>1, <2>2, RecvTakes DEF IInv
  <2>4. Types'
    BY <1>5, <2>1, <2>2, <2>3 DEF RecvBody, Longer, IInv, Types, PC, KeyPC
  <2>5. ASSUME ~cut' PROVE KeysSoFar' /\ BodySoFar' /\ Frames'
    <3>1. ~cut /\ pc = "body"
      BY <1>5, <2>5 DEF RecvBody
    <3>2. /\ InStep(nb - 1) =>
               size = packets[nb] /\ start = Before(nb) /\ cipher = start - Keys + Head
          /\ InStep(nb) => len <= size
          /\ InStep(nb - 1) /\ len # -1 => taken = start + len
          /\ len >= -1 /\ (len = -1 => ~sock)
      BY <1>t, <3>1 DEF IInv, BodySoFar
    <3>3. /\ size' = size /\ start' = start /\ cipher' = cipher /\ nb' = nb
          /\ packets' = packets
      BY <1>5 DEF RecvBody
    <3>4. /\ Before(nb)' = Before(nb)
          /\ InStep(nb)' <=> InStep(nb)
          /\ InStep(nb - 1)' <=> InStep(nb - 1)
      BY <3>3 DEF Before, Keys, InStep
    <3>5. /\ InStep(nb) => len' <= size
          /\ InStep(nb - 1) /\ len' # -1 => taken' = start + len'
          /\ len' >= -1 /\ (len' = -1 => ~sock')
      <4>1. CASE len = -1
        <5>1. r = -1 /\ ~sock'
          BY <2>3, <3>2, <4>1
        <5>2. QED BY <1>t, <2>1, <3>2, <4>1, <5>1 DEF Longer
      <4>2. CASE len # -1 /\ r < 0
        <5>1. len' = -1 /\ ~sock'
          BY <2>1, <2>2, <2>3, <4>2 DEF Longer
        <5>2. InStep(nb) => -1 <= size
          BY <1>t, <3>2, <4>2
        <5>3. QED BY <5>1, <5>2
      <4>3. CASE len # -1 /\ ~(r < 0)
        <5>1. len \in Nat /\ len' = len + r
          BY <1>t, <2>1, <2>2, <3>2, <4>3 DEF Longer
        <5>2. taken' = taken + r
          BY <2>2, <2>3, <4>3, <1>t
        <5>3. QED
          BY <1>t, <2>2, <3>2, <4>3, <5>1, <5>2
      <4>4. QED BY <4>1, <4>2, <4>3
    <3>6. CASE size > len'
      <4>1. pc' = "body"
        BY <2>1, <3>6
      <4>2. BodySoFar'
        BY <3>2, <3>3, <3>4, <3>5 DEF BodySoFar, Keys
      <4>3. QED
        BY <4>1, <4>2 DEF KeysSoFar, Frames, KeyPC
    <3>7. CASE ~(size > len')
      <4>1. pc' = "packet"
        BY <2>1, <3>7
      <4>2. InStep(nb) => taken' = start + size
        <5>1. HAVE InStep(nb)
        <5>2. size >= Head /\ size \in Int /\ InStep(nb - 1)
          BY <1>0, <1>s, <3>2, <5>1
        <5>3. len' \in Int
          BY <2>4 DEF Types
        <5>4. len' = size
          BY <1>0, <3>5, <3>7, <5>1, <5>2, <5>3
        <5>5. QED
          BY <1>0, <3>5, <5>2, <5>4
      <4>3. QED
        BY <3>2, <3>3, <3>4, <4>1, <4>2 DEF KeysSoFar, BodySoFar, Frames, KeyPC, Keys
    <3>8. QED BY <3>6, <3>7
  <2>6. QED BY <2>4, <2>5 DEF IInv
<1>6. ASSUME RecvNegative PROVE IInv'
  <2>1. /\ pc = "body" /\ size < len /\ pc' \in {"packet", "undefined"}
        /\ packets' = packets /\ nb' = nb /\ size' = size /\ cipher' = cipher
        /\ cut' = cut /\ start' = start
    BY <1>6 DEF RecvNegative
  <2>2. taken' \in Nat /\ len' \in Int /\ len' >= -1 /\ sock' \in BOOLEAN
    <3>1. CASE UNCHANGED <<len, taken, sock>>
      BY <3>1 DEF IInv, Types
    <3>2. ASSUME NEW r \in -1..0, Recv(size - len, r), len' = Longer(r)
          PROVE  taken' \in Nat /\ len' \in Int /\ len' >= -1 /\ sock' \in BOOLEAN
      <4>1. r \in Int /\ size - len \in Int
        BY <1>t
      <4>2. taken' \in Nat /\ sock' \in BOOLEAN
        BY <3>2, <4>1, RecvTakes DEF IInv
      <4>3. len' \in Int /\ len' >= -1
        BY <1>t, <3>2, <4>1 DEF Longer
      <4>4. QED BY <4>2, <4>3
    <3>3. QED BY <1>6, <3>1, <3>2 DEF RecvNegative
  <2>3. Types'
    BY <1>6, <2>1, <2>2 DEF RecvNegative, IInv, Types, PC, KeyPC
  <2>4. ASSUME ~cut' PROVE KeysSoFar' /\ BodySoFar' /\ Frames'
    <3>1. /\ InStep(nb - 1) =>
               size = packets[nb] /\ start = Before(nb) /\ cipher = start - Keys + Head
          /\ InStep(nb) => len <= size
      BY <2>1, <2>4 DEF IInv, BodySoFar
    <3>2. ~InStep(nb)
      BY <1>t, <2>1, <3>1
    <3>3. /\ Before(nb)' = Before(nb)
          /\ InStep(nb)' <=> InStep(nb)
          /\ InStep(nb - 1)' <=> InStep(nb - 1)
      BY <2>1 DEF Before, Keys, InStep
    <3>4. QED
      BY <2>1, <3>1, <3>2, <3>3 DEF KeysSoFar, BodySoFar, Frames, KeyPC, Keys
  <2>5. QED BY <2>3, <2>4 DEF IInv
<1>o. ASSUME Overflow PROVE IInv'
  <2>1. Types'
    BY <1>o DEF Overflow, IInv, Types, PC, KeyPC
  <2>2. ASSUME ~cut' PROVE KeysSoFar' /\ BodySoFar' /\ Frames'
    <3>1. ~cut /\ pc = "body" /\ len = -1 /\ pc' = "undefined" /\ sock' = sock
      BY <1>o, <2>2 DEF Overflow
    <3>2. ~sock
      BY <3>1, Zenon DEF IInv, BodySoFar
    <3>3. ~sock'
      BY <3>1, <3>2, Zenon
    <3>4. QED
      BY <3>1, <3>3 DEF KeysSoFar, BodySoFar, Frames, KeyPC
  <2>3. QED BY <2>1, <2>2 DEF IInv
<1>7. ASSUME DecodeBody PROVE IInv'
  <2>1. Types'
    <3>1. cipher' \in Int
      BY <1>0, <1>7, <1>t DEF DecodeBody, Moved, Displaced
    <3>2. QED
      BY <1>7, <3>1 DEF DecodeBody, IInv, Types, PC, KeyPC
  <2>2. ASSUME ~cut' PROVE KeysSoFar' /\ BodySoFar' /\ Frames'
    <3>1. ~cut /\ pc = "packet" /\ packets' = packets /\ taken' = taken /\ start' = taken
      BY <1>7, <2>2 DEF DecodeBody
    <3>2. ASSUME InStep(nb)
          PROVE  taken = Before(nb) + packets[nb] /\ cipher' = taken - Keys
      <4>1. /\ size = packets[nb] /\ start = Before(nb) /\ cipher = start - Keys + Head
            /\ taken = start + size /\ size >= Head
        BY <1>s, <3>1, <3>2 DEF IInv, Frames
      <4>2. cipher' = cipher + (size - Head)
        <5>1. cipher # Displaced /\ ~(size - Head < 0)
          <6>1. Before(nb) >= Keys
            BY <1>0
          <6>2. cipher >= Head /\ size >= Head
            BY <1>0, <1>t, <4>1, <6>1
          <6>3. QED
            BY <1>0, <1>t, <6>2 DEF Displaced
        <5>2. QED
          BY <1>7, <5>1 DEF DecodeBody, Moved
      <4>3. QED
        BY <1>0, <1>t, <4>1, <4>2
    <3>3. InStep(2)' <=> InStep(2)
      BY <3>1 DEF InStep
    <3>4. CASE nb = 1
      <4>1. nb' = 2 /\ pc' = "head" /\ nb' - 1 = 1
        BY <1>7, <3>4 DEF DecodeBody
      <4>2. InStep(1) => taken' = Keys + packets[1] /\ cipher' = taken' - Keys /\ start' = taken'
        BY <1>0, <3>1, <3>2, <3>4
      <4>3. InStep(nb - 1)' <=> InStep(1)
        BY <3>1, <4>1 DEF InStep
      <4>4. Before(nb)' = Keys + packets[1]
        BY <3>1, <4>1 DEF Before, Keys
      <4>5. QED
        BY <4>1, <4>2, <4>3, <4>4 DEF KeysSoFar, BodySoFar, Frames, KeyPC, Keys
    <3>5. CASE nb # 1
      <4>1. nb = 2 /\ pc' = "done"
        BY <1>7, <1>t, <3>5 DEF DecodeBody
      <4>2. InStep(2) => taken' = Whole /\ cipher' = packets[1] + packets[2]
        BY <1>0, <1>s, <1>t, <3>1, <3>2, <4>1 DEF Whole
      <4>3. Whole' = Whole
        BY <3>1 DEF Whole, Keys, Bytes
      <4>4. QED
        BY <3>1, <3>3, <4>1, <4>2, <4>3 DEF KeysSoFar, BodySoFar, Frames, KeyPC
    <3>6. QED BY <3>4, <3>5
  <2>3. QED BY <2>1, <2>2 DEF IInv
<1>8. ASSUME UNCHANGED vars PROVE IInv'
  BY <1>8 DEF vars, IInv, Types, KeysSoFar, BodySoFar, Frames, Before, Whole, Keys, Bytes, InStep
<1>9. QED
  BY <1>1, <1>2, <1>3, <1>4, <1>5, <1>6, <1>o, <1>7, <1>8 DEF Next, GameD

(* connexion_list::Recv(packet): the packets read are the packets sent,    *)
(* and the cipher is where the client's was, however recv cuts the bodies. *)
THEOREM FramesHold == Spec => []FramesAgree
<1>1. IInv => FramesAgree
  BY DEF IInv, Frames, BodySoFar, FramesAgree
<1>2. Spec => []IInv
  BY InitIInv, NextIInv, PTL DEF Spec
<1>3. QED
  BY <1>1, <1>2, PTL

(* Bytes that are too few stay too few when some of them are taken. *)
LEMMA StillLess ==
  ASSUME NEW s \in Int, NEW t \in Int, NEW n \in Int, NEW l \in Int, NEW m \in Int,
         NEW r \in Int, s - t < n - l, r <= s - t, m <= l + r
  PROVE  n > m /\ s - (t + r) < n - m
OBVIOUS

(* The loop of connexion_list::Recv(packet): GameD does not leave a packet *)
(* whose client has gone before its last byte, or whose socket is closed,  *)
(* until the count of bytes overflows.  It is so from any state.           *)
THEOREM StarvedStays == Spec => NeverLeft
<1>1. ASSUME IInv, Starved, Next PROVE Starved' \/ pc' = "undefined"
  <2>0. /\ pc = "body" /\ size > len /\ size \in Nat /\ len \in Int /\ len >= -1 /\ sent \in Nat /\ taken \in Nat
        /\ (~sock \/ (gone /\ sent - taken < size - len))
    BY <1>1 DEF Starved, IInv, Types
  <2>1. CASE Send
    BY <2>0, <2>1 DEF Send, Starved
  <2>2. CASE Leave
    BY <2>0, <2>2 DEF Leave, Starved
  <2>3. CASE RecvBody
    <3>1. PICK r \in -1..(size - len) :
            /\ Recv(size - len, r)
            /\ len' = Longer(r)
            /\ pc' = IF size > len' THEN "body" ELSE "packet"
      BY <2>3 DEF RecvBody
    <3>2. /\ size' = size /\ gone' = gone /\ sent' = sent /\ r \in Int /\ size - len \in Int
      BY <2>0, <2>3 DEF RecvBody
    <3>3. /\ taken' \in Nat /\ (r > 0 => taken' = taken + r) /\ (r <= 0 => taken' = taken)
          /\ (r < 0 => ~sock') /\ (~sock => r = -1)
      BY <1>1, <3>1, <3>2, RecvTakes DEF IInv
    <3>4. CASE r < 0
      <4>1. len' = -1 /\ ~sock'
        BY <3>1, <3>3, <3>4 DEF Longer
      <4>2. size > -1
        BY <1>1, <2>0 DEF Starved
      <4>3. QED
        BY <2>0, <3>1, <3>2, <4>1, <4>2 DEF Starved
    <3>5. CASE ~(r < 0)
      <4>1. gone /\ sent - taken < size - len /\ r <= sent - taken
        BY <2>0, <3>1, <3>2, <3>3, <3>5 DEF Recv
      <4>2. len' >= -1 /\ len' <= len + r /\ len' \in Int
        BY <2>0, <3>1, <3>2, <3>5 DEF Longer
      <4>3. taken' = taken + r /\ gone'
        BY <2>0, <3>2, <3>3, <3>5, <4>1
      <4>4. size' > len' /\ sent' - taken' < size' - len'
        <5>1. size \in Int /\ len \in Int /\ sent \in Int /\ taken \in Int /\ r \in Int
          BY <2>0, <3>2
        <5>2. sent - taken < size - len /\ r <= sent - taken
          BY <4>1, Zenon
        <5>3. len' \in Int /\ len' <= len + r
          BY <4>2, Zenon
        <5>4. size > len' /\ sent - (taken + r) < size - len'
          BY <5>1, <5>2, <5>3, StillLess
        <5>5. QED
          BY <3>2, <4>3, <5>4
      <4>5. pc' = "body"
        BY <3>1, <3>2, <4>4
      <4>6. QED
        BY <4>3, <4>4, <4>5 DEF Starved
    <3>6. QED BY <3>4, <3>5
  <2>4. CASE Overflow
    BY <2>4 DEF Overflow
  <2>5. CASE RecvKey \/ RecvHead \/ RecvNegative \/ DecodeBody
    BY <2>0, <2>5 DEF RecvKey, RecvHead, RecvNegative, DecodeBody, KeyPC
  <2>6. QED
    BY <1>1, <2>1, <2>2, <2>3, <2>4, <2>5 DEF Next, GameD
<1>2. ASSUME IInv, UNCHANGED vars, Starved PROVE Starved'
  BY <1>2 DEF vars, Starved
<1>3. IInv /\ [Next]_vars => [Starved => Starved' \/ pc' = "undefined"]_vars
  BY <1>1, <1>2
<1>4. QED
  BY InitIInv, NextIInv, <1>3, PTL DEF Spec, NeverLeft
=============================================================================
