------------------------------ MODULE GameLink ------------------------------
(***************************************************************************)
(* One game client of GameD (connexion.cpp): the exchange of keys, and the *)
(* two packets GameD receives before it forgets the connexion.  The client *)
(* sends a stream of bytes; recv returns any number of those that have     *)
(* come, and nothing more once the client has gone.                        *)
(*                                                                         *)
(* A packet is the size it claims, head included: nothing checks that it   *)
(* has room for its own head.  The head is deciphered before its size is   *)
(* read: if it did not come whole, or the cipher is not where the sender's *)
(* was, the size read can be any.  The position of a cipher is the number  *)
(* of bytes it has been applied to, which is all that counts (Cryptor,     *)
(* ChunksDoNotMatter), until it is applied to a negative number of them:   *)
(* from then on it is nowhere (Displaced).                                 *)
(***************************************************************************)
EXTENDS Integers

CONSTANTS KeySize,  \* the bytes of a key: 128
          Head,     \* the bytes of a packet's head: 4
          Sizes     \* the sizes a client can claim, or a bad head be read as

ASSUME KeyAssumption    == KeySize \in Nat \ {0}
ASSUME HeadAssumption   == Head \in Nat \ {0}
ASSUME SizesAssumption  == Sizes \subseteq Nat

VARIABLES
  packets,   \* the sizes the two packets of the client claim
  sent,      \* the bytes the client has sent, keys included
  taken,     \* those recv has returned
  gone,      \* the client has closed its end
  sock,      \* sock # INVALID_SOCKET
  pc,        \* where GameD is
  nb,        \* the packet it receives
  size, len, \* packet::size, and len of Recv(packet); -1 once it only shrinks
  cipher,    \* the position of the session's Decryptor
  cut,       \* history: a key or a head did not come in one piece
  start      \* history: taken, when the packet was begun

vars == <<packets, sent, taken, gone, sock, pc, nb, size, len, cipher, cut, start>>

Keys == 2 * KeySize
Bytes(p) == IF p < Head THEN Head ELSE p  \* a packet has its head at least
Whole == Keys + Bytes(packets[1]) + Bytes(packets[2])
Displaced == -1
Moved(n) == IF cipher = Displaced \/ n < 0 THEN Displaced ELSE cipher + n
KeyPC == {"key1", "key2"}
PC == KeyPC \cup {"head", "body", "packet", "aborted", "done", "undefined"}

Init ==
  /\ packets \in [1..2 -> Sizes]
  /\ sent = 0 /\ taken = 0 /\ gone = FALSE /\ sock = TRUE
  /\ pc = "key1" /\ nb = 1 /\ size = Head /\ len = 0 /\ cipher = 0
  /\ cut = FALSE /\ start = 0

---------------------------------------------------------------------------
(* The client sends its first key, the second one when it has been         *)
(* answered, and its packets when it has the server's keys.                *)
MaySend == CASE pc = "key1" -> KeySize [] pc = "key2" -> Keys [] OTHER -> Whole

Send ==
  /\ ~gone /\ sent < MaySend
  /\ sent' \in (sent + 1)..MaySend
  /\ UNCHANGED <<packets, taken, gone, sock, pc, nb, size, len, cipher, cut, start>>

Leave ==
  /\ ~gone /\ gone' = TRUE
  /\ UNCHANGED <<packets, sent, taken, sock, pc, nb, size, len, cipher, cut, start>>

---------------------------------------------------------------------------
(* connexion_list::Recv(data, n) returns r: bytes that have come; 0 for    *)
(* n = 0, or when the client has closed and nothing is left; -1 when the   *)
(* connection breaks, which closes the socket, and ever after.             *)
Recv(n, r) ==
  \/ /\ sock /\ r \in 1..n /\ r <= sent - taken
     /\ taken' = taken + r /\ UNCHANGED sock
  \/ sock /\ r = 0 /\ (n = 0 \/ (gone /\ sent = taken)) /\ UNCHANGED <<taken, sock>>
  \/ sock /\ r = -1 /\ n # 0 /\ gone /\ sock' = FALSE /\ UNCHANGED taken
  \/ ~sock /\ r = -1 /\ UNCHANGED <<taken, sock>>

(* A key: all of it in one call of recv, or the connexion is deleted, and  *)
(* used (Connexions).  The answer is sent to a client that is there.       *)
RecvKey ==
  /\ pc \in KeyPC
  /\ \E r \in -1..KeySize :
       /\ Recv(KeySize, r)
       /\ \/ r = KeySize /\ pc' = (IF pc = "key1" THEN "key2" ELSE "head") /\ UNCHANGED cut
          \/ r # KeySize /\ pc' = "aborted" /\ cut' = (cut \/ r > 0)
          \/ r = KeySize /\ gone /\ pc' = "aborted" /\ UNCHANGED cut
  /\ start' = taken'
  /\ UNCHANGED <<packets, sent, gone, nb, size, len, cipher>>

(* get_header: the size the client sent, if this is where its packet is.   *)
InPlace == cipher = taken - Keys /\ taken = Keys + (IF nb = 1 THEN 0 ELSE Bytes(packets[1]))

(* Decode(packet, true) deciphers a whole head, whatever has come. *)
RecvHead ==
  /\ pc = "head" /\ pc' = "body"
  /\ \E r \in -1..Head :
       /\ Recv(Head, r)
       /\ len' = r
       /\ size' \in (IF r = Head /\ InPlace THEN {packets[nb]} ELSE Sizes)
       /\ cut' = (cut \/ r # Head)
  /\ cipher' = Moved(Head)
  /\ UNCHANGED <<packets, sent, gone, nb, start>>

(* The length after a call of Recv; without a socket it only shrinks. *)
Longer(r) == IF len < 0 \/ r < 0 THEN -1 ELSE len + r

(* Mutant: the loop goes on when the packet is whole. *)
RecvBodyOn ==
  /\ pc = "body" /\ size >= len
  /\ \E r \in -1..(size - len) :
       /\ Recv(size - len, r)
       /\ len' = Longer(r)
       /\ pc' = IF size >= len' THEN "body" ELSE "packet"
  /\ UNCHANGED <<packets, sent, gone, nb, size, cipher, cut, start>>

(* The loop of Recv(packet), which runs at least once.  It goes on with a  *)
(* client that has gone.                                                   *)
RecvBody ==
  /\ pc = "body" /\ size >= len
  /\ \E r \in -1..(size - len) :
       /\ Recv(size - len, r)
       /\ len' = Longer(r)
       /\ pc' = IF size > len' THEN "body" ELSE "packet"
  /\ UNCHANGED <<packets, sent, gone, nb, size, cipher, cut, start>>

(* A size that is less than what has come makes the call ask for a         *)
(* negative number of bytes: those that have come are written without a    *)
(* bound.  Without them the loop ends.                                     *)
RecvNegative ==
  /\ pc = "body" /\ size < len
  /\ \/ /\ sock /\ sent > taken /\ pc' = "undefined"
        /\ UNCHANGED <<len, taken, sock>>
     \/ \E r \in -1..0 :
          Recv(size - len, r) /\ len' = Longer(r) /\ pc' = "packet"
  /\ UNCHANGED <<packets, sent, gone, nb, size, cipher, cut, start>>

(* Without a socket every call takes one from len, until it overflows. *)
Overflow ==
  /\ pc = "body" /\ len = -1 /\ pc' = "undefined"
  /\ UNCHANGED <<packets, sent, taken, gone, sock, nb, size, len, cipher, cut, start>>

(* Mutant: the body is deciphered with the head once more. *)
DecodeAll ==
  /\ pc = "packet"
  /\ cipher' = Moved(size)
  /\ IF nb = 1 THEN nb' = 2 /\ pc' = "head" ELSE pc' = "done" /\ UNCHANGED nb
  /\ start' = taken
  /\ UNCHANGED <<packets, sent, taken, gone, sock, size, len, cut>>

(* Decode(packet, false), and GameD goes on: the first packet is deleted,  *)
(* the second one dispatched.  A size below Head asks for a negative       *)
(* number of bytes, which leaves the cipher with bytes of a key word it    *)
(* has used, or never made (Cryptor, ApplyNegative).                       *)
DecodeBody ==
  /\ pc = "packet"
  /\ cipher' = Moved(size - Head)
  /\ IF nb = 1 THEN nb' = 2 /\ pc' = "head" ELSE pc' = "done" /\ UNCHANGED nb
  /\ start' = taken
  /\ UNCHANGED <<packets, sent, taken, gone, sock, size, len, cut>>

GameD == RecvKey \/ RecvHead \/ RecvBody \/ RecvNegative \/ Overflow \/ DecodeBody
Next  == Send \/ Leave \/ GameD
Spec  == Init /\ [][Next]_vars

(* GameD runs; a client that stays sends what it has to send. *)
FairSpec == Spec /\ WF_vars(GameD) /\ WF_vars(Send)

---------------------------------------------------------------------------
(* As long as every key and every head has come in one piece, and no       *)
(* packet before has claimed less than its head, the server reads the      *)
(* packets the client sent, whole and at their places, however the network *)
(* cuts their bodies, and its cipher stands where the client's stood when  *)
(* it enciphered the next byte.  GameD leaves what is defined only for a   *)
(* packet that claims too little, or without a socket.                     *)
Before(n) == Keys + (IF n = 1 THEN 0 ELSE packets[1])
InStep(n) == \A i \in 1..n : packets[i] >= Head
FramesAgree ==
  ~cut =>
    /\ pc = "head" /\ InStep(nb - 1) => taken = Before(nb) /\ cipher = taken - Keys
    /\ pc \in {"body", "packet"} /\ InStep(nb - 1) =>
         size = packets[nb] /\ start = Before(nb) /\ cipher = start - Keys + Head
    /\ pc = "packet" /\ InStep(nb) => taken = start + size
    /\ pc = "done" /\ InStep(2) => taken = Whole /\ cipher = packets[1] + packets[2]
    /\ pc = "undefined" => ~InStep(nb) \/ ~sock

(* GameD comes to an end with a client that stays, claims what it sends    *)
(* and whose keys and heads come in one piece.  With a client that goes it *)
(* comes to an end too, or else it waits for the rest of a packet          *)
(* (Starved), and then it never leaves that loop, which keeps every other  *)
(* client waiting, unless its count of bytes overflows.                    *)
Ended == pc \in {"done", "aborted", "undefined"}
Starved == pc = "body" /\ size > len /\ (~sock \/ (gone /\ sent - taken < size - len))
NeverLeft == [][Starved => Starved' \/ pc' = "undefined"]_vars
ClientIsServed ==
  /\ <>(pc = "done" \/ gone \/ cut \/ ~InStep(2))
  /\ gone ~> (Ended \/ Starved)
  /\ NeverLeft
=============================================================================
