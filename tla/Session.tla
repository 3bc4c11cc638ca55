------------------------------ MODULE Session ------------------------------
(***************************************************************************)
(* The keys of a game session (Session.cpp, Cryptor::GenerateKey): two     *)
(* keys of each end are shifted and combined into the decryptor's key,     *)
(* which is hashed until it fills the buffers of its three generators; the *)
(* encryptor's key goes through the decryptor first.  Then the session     *)
(* carries data (Cryptor: the positions here are the decryptor's).         *)
(*                                                                         *)
(* A byte is the set of the unknowns whose sum it is, so that the sum of   *)
(* two bytes is the difference of their sets.  A digest is unknown, and    *)
(* known by the number of its message: no two messages have the same one.  *)
(***************************************************************************)
EXTENDS Sha, Cryptor

CONSTANTS KeyLen,  \* the bytes of a key: 128
          Digest,  \* the bytes of a digest: 20
          Others   \* lengths of messages Sha_l is given by itself

ASSUME KeyLenAssumption == KeyLen \in Nat \ {0}
ASSUME DigestAssumption == Digest \in Nat \ {0}
ASSUME OthersAssumption == Others \subseteq Nat

VARIABLES
  client,      \* i_m_client, of connexion_list::Key
  phase,       \* where the constructor of Session is
  decryptKey, encryptKey,
  buf,         \* buf, of GenerateKey
  filled,      \* i, of GenerateKey
  buffers,     \* the buffers of the generators: of Decryptor, of Encryptor
  hides        \* history: for each digest, the unknowns its message rests on

keyVars == <<client, phase, decryptKey, encryptKey, buf, filled, buffers, hides>>
sessionVars == <<vars, shaVars, keyVars>>

Unknown(name) == [i \in 0..(KeyLen - 1) |-> {<<name, i, 0>>}]
C1 == Unknown("C1")
C2 == Unknown("C2")
S1 == Unknown("S1")
S2 == Unknown("S2")

(* What GameD and its peer keep the keys in: those received, then their own. *)
Key_l == IF client THEN <<S1, S2, C1, C2>> ELSE <<C1, C2, S1, S2>>

Xor(a, b) == (a \ b) \cup (b \ a)
XorKey(a, b) == [i \in 0..(KeyLen - 1) |-> Xor(a[i], b[i])]

(* The key that ShiftKey fills: src[i] goes to i + n, or comes from there. *)
ShiftKey(src, n, direction) ==
  IF direction
  THEN [k \in 0..(KeyLen - 1) |-> src[CHOOSE i \in 0..(KeyLen - 1) : (i + n) % KeyLen = k]]
  ELSE [i \in 0..(KeyLen - 1) |-> src[(i + n) % KeyLen]]

(* Mutant: a client does not take the two pairs of keys the other way round. *)
SessionKeysAsTheyAre == [ck1 |-> Key_l[1], ck2 |-> Key_l[2], sk1 |-> Key_l[3], sk2 |-> Key_l[4]]

(* connexion_list::Key *)
SessionKeys ==
  IF client THEN [ck1 |-> Key_l[3], ck2 |-> Key_l[4], sk1 |-> Key_l[1], sk2 |-> Key_l[2]]
            ELSE [ck1 |-> Key_l[1], ck2 |-> Key_l[2], sk1 |-> Key_l[3], sk2 |-> Key_l[4]]

BufLen == 4 * (Size[0] + Size[1] + Size[2])

(* The buffers take more than a key: 680 bytes for 128. *)
ASSUME BufLenAssumption == KeyLen < BufLen

FillKey(src) ==
  [i \in 1..BufLen |-> IF i = 1 THEN {<<"128", 0, 0>>} ELSE src[(i - 1) % KeyLen]]

(* The part of buf each generator gets. *)
Split(b) ==
  <<SubSeq(b, 1, 4 * Size[0]),
    SubSeq(b, 4 * Size[0] + 1, 4 * (Size[0] + Size[1])),
    SubSeq(b, 4 * (Size[0] + Size[1]) + 1, BufLen)>>

---------------------------------------------------------------------------
(* A session of either end, or a Sha_l on a message of its own. *)
SessionInit ==
  /\ Init
  /\ client \in BOOLEAN
  /\ decryptKey = Unknown("") /\ encryptKey = Unknown("")
  /\ buf = <<>> /\ filled = 0 /\ buffers = <<>> /\ hides = <<>>
  /\ \/ phase = "start" /\ NoSha
     \/ /\ phase = "alone" /\ client = FALSE /\ sha = "input"
        /\ \E n \in Others : message = [i \in 1..n |-> {<<"message", i, 0>>}]
        /\ block = <<>> /\ hashed = <<>> /\ lengthLow = 0 /\ lengthHigh = 0

(* GenerateKey: every part of buf is replaced by the digest of all of it.  *)
GenerateKey(src) ==
  /\ buf' = FillKey(src) /\ filled' = 0
  /\ NewSha(FillKey(src))

MakeDecryptKey ==
  /\ phase = "start" /\ phase' = "decryptor"
  /\ decryptKey' = XorKey(ShiftKey(SessionKeys.ck2, 17, FALSE),
                          XorKey(ShiftKey(SessionKeys.sk1, 31, TRUE), SessionKeys.ck1))
  /\ GenerateKey(decryptKey')
  /\ UNCHANGED <<vars, client, encryptKey, buffers, hides>>

(* The unknowns a message rests on, behind the digests in it. *)
RestsOn(m) ==
  UNION {IF a[1] = "digest" THEN hides[a[2]] ELSE {a} : a \in UNION {m[i] : i \in 1..Len(m)}}

TakeDigest ==
  /\ phase \in {"decryptor", "encryptor"} /\ sha = "done" /\ filled < BufLen
  /\ hides' = Append(hides, RestsOn(message))
  /\ buf' = [i \in 1..BufLen |->
               IF i \in (filled + 1)..(filled + Digest)
               THEN {<<"digest", Len(hides'), i - filled>>} ELSE buf[i]]
  /\ filled' = filled + Digest
  /\ IF filled' < BufLen THEN NewSha(buf') ELSE UNCHANGED shaVars
  /\ UNCHANGED <<vars, client, phase, decryptKey, encryptKey, buffers>>

EndGenerate ==
  /\ phase \in {"decryptor", "encryptor"} /\ sha = "done" /\ filled >= BufLen
  /\ buffers' = Append(buffers, Split(buf))
  /\ IF phase = "encryptor"
     THEN phase' = "ready" /\ UNCHANGED <<vars, encryptKey>>
     ELSE /\ phase' = "apply"
          /\ encryptKey' = ShiftKey(SessionKeys.sk2, 79, TRUE)
          /\ Apply(KeyLen)
  /\ UNCHANGED <<shaVars, client, decryptKey, buf, filled, hides>>

(* ApplyCryptor on EncryptKey has returned. *)
MakeEncryptKey ==
  /\ phase = "apply" /\ pc = "idle" /\ phase' = "encryptor"
  /\ encryptKey' = [i \in 0..(KeyLen - 1) |-> Xor(encryptKey[i], {<<"stream", used[i], 0>>})]
  /\ GenerateKey(encryptKey')
  /\ UNCHANGED <<vars, client, decryptKey, buffers, hides>>

(* The constructor returns; what its keys are is not looked at any more. *)
Made ==
  /\ phase = "ready" /\ phase' = "data"
  /\ buf' = <<>> /\ filled' = 0 /\ buffers' = <<>> /\ hides' = <<>>
  /\ DeleteSha
  /\ UNCHANGED <<vars, client, decryptKey, encryptKey>>

(* Inside ApplyCryptor, and the calls of a session that is ready. *)
InApply == phase \in {"apply", "data"} /\ (WholeWord \/ PartWord \/ Return)
                                       /\ UNCHANGED <<shaVars, keyVars>>
Data(n) == phase = "data" /\ Apply(n) /\ UNCHANGED <<shaVars, keyVars>>
DataNegative(k) == phase = "data" /\ ApplyNegative(k) /\ UNCHANGED <<shaVars, keyVars>>

SessionNext ==
  \/ ShaNext /\ UNCHANGED <<vars, keyVars>>
  \/ MakeDecryptKey \/ TakeDigest \/ EndGenerate \/ MakeEncryptKey
  \/ Made \/ InApply \/ (\E n \in 0..Total : Data(n)) \/ (\E k \in 1..4 : DataNegative(k))

SessionSpec == SessionInit /\ [][SessionNext]_sessionVars

---------------------------------------------------------------------------
(* Nothing of a key is left as it is in the generators: every byte of      *)
(* their buffers is a byte of a digest, each digest rests on every byte of *)
(* the key, and no byte of a digest is in two places.                      *)
EveryKeyByteCounts ==
  \A k \in 1..2 :
    LET key   == IF k = 1 THEN decryptKey ELSE encryptKey
        bytes == {p \in (1..3) \X (1..BufLen) : p[2] <= 4 * Size[p[1] - 1]}
        at(p) == buffers[k][p[1]][p[2]]
    IN  /\ \A p \in bytes : \E t \in 1..Len(hides), n \in 1..Digest :
             /\ at(p) = {<<"digest", t, n>>}
             /\ UNION {key[i] : i \in 0..(KeyLen - 1)} \subseteq hides[t]
        /\ \A p, q \in bytes : at(p) = at(q) => p = q

(* Both ends make the same two keys: they depend on what each end sent and *)
(* not on which end it is, and each byte rests on the keys' bytes that the *)
(* protocol says.  The first byte of data finds the decryptor KeyLen bytes *)
(* into its stream, at both ends; and every byte of a key counts.          *)
SecretsAgree ==
  phase = "ready" =>
    /\ \A i \in 0..(KeyLen - 1) :
         /\ decryptKey[(i + 31) % KeyLen] =
              {<<"C1", (i + 31) % KeyLen, 0>>, <<"S1", i, 0>>, <<"C2", (i + 48) % KeyLen, 0>>}
         /\ encryptKey[(i + 79) % KeyLen] =
              {<<"S2", i, 0>>, <<"stream", (i + 79) % KeyLen, 0>>}
    /\ from + offset = KeyLen
    /\ EveryKeyByteCounts
=============================================================================
