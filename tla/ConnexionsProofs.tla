-------------------------- MODULE ConnexionsProofs --------------------------
(***************************************************************************)
(* Proofs about the connexions of the server, for any number of addresses  *)
(* and HTTP workers.                                                       *)
(***************************************************************************)
EXTENDS Connexions, Integers, FiniteSetTheorems, WellFoundedInduction, TLAPS

AcceptorPC ==
  {"off", "test", "accept", "new", "request", "keys", "packets", "aborted", "exit"}
MainPC     == Listeners \cup {"unstarted", "run", "test", "close", "delete", "done"}
Links      == [Objects -> Objects \cup {NULL}]
ListType   == [first : Objects \cup {NULL}, last : Objects \cup {NULL},
               next : Links, prev : Links]

(* The types the proofs need: those of the objects and their list, and     *)
(* those of the threads.                                                   *)
HeapTypes == list \in ListType /\ alive \subseteq Objects /\ open \subseteq Objects
ThreadTypes ==
  /\ apc \in [Acceptors -> AcceptorPC] /\ cur \in [Acceptors -> Conns \cup {NULL}]
  /\ queue \subseteq Conns /\ players \subseteq Conns
  /\ serving \in [Workers -> Conns \cup {NULL}]
  /\ mpc \in MainPC /\ target \in Objects \cup {NULL}
  /\ mpc = "unstarted" => target \in Acceptors
Types == HeapTypes /\ ThreadTypes

(* What the model takes for a null pointer and for an address is told      *)
(* apart.                                                                  *)
LEMMA Names ==
  /\ NULL \notin Objects /\ NULL \notin Conns
  /\ \A o \in Conns : o \notin Listeners
  /\ Acceptors \subseteq Listeners /\ Listeners \subseteq Objects /\ Conns \subseteq Objects
BY ConnsAssumption DEF Objects, Listeners, Acceptors

---------------------------------------------------------------------------
(* What the constructor and the destructor do to the list. *)

LEMMA NewTypes ==
  ASSUME HeapTypes, NEW o \in Objects, New(o)
  PROVE  HeapTypes'
<1>1. alive' \subseteq Objects /\ open' \subseteq Objects
  BY DEF New, HeapTypes
<1>2. CASE list.first = NULL
  BY <1>1, <1>2 DEF New, Inserted, HeapTypes, ListType
<1>3. CASE list.first # NULL
  <2>1. Write(list.next, list.last, o) \in Links
    BY DEF Write, HeapTypes, ListType, Links
  <2>2. [list.prev EXCEPT ![o] = list.last] \in Links
    BY DEF HeapTypes, ListType, Links
  <2>3. list' = [list EXCEPT !.last = o, !.next = Write(list.next, list.last, o),
                             !.prev = [list.prev EXCEPT ![o] = list.last]]
    BY <1>3 DEF New, Inserted, HeapTypes, ListType
  <2>4. QED
    BY <1>1, <2>1, <2>2, <2>3 DEF HeapTypes, ListType
<1>4. QED
  BY <1>1, <1>2, <1>3

LEMMA DeleteTypes ==
  ASSUME HeapTypes, NEW o \in Objects, Delete(o)
  PROVE  HeapTypes'
<1>1. alive' \subseteq Objects /\ open' \subseteq Objects
  BY DEF Delete, HeapTypes
<1>2. list.next[o] \in Objects \cup {NULL} /\ list.prev[o] \in Objects \cup {NULL}
  BY DEF HeapTypes, ListType, Links
<1>3. /\ [Write(list.next, list.prev[o], list.next[o]) EXCEPT ![o] = NULL] \in Links
      /\ [Write(list.prev, list.next[o], list.prev[o]) EXCEPT ![o] = NULL] \in Links
  BY <1>2 DEF Write, HeapTypes, ListType, Links
<1>4. list' = [list EXCEPT
        !.first = IF list.prev[o] = NULL THEN list.next[o] ELSE list.first,
        !.next  = [Write(list.next, list.prev[o], list.next[o]) EXCEPT ![o] = NULL],
        !.prev  = [Write(list.prev, list.next[o], list.prev[o]) EXCEPT ![o] = NULL]]
  BY DEF Delete, Unlinked, HeapTypes, ListType
<1>5. QED
  BY <1>1, <1>2, <1>3, <1>4 DEF HeapTypes, ListType

---------------------------------------------------------------------------
(* Every variable has its type. *)

LEMMA InitTypes == Init => Types
<1> SUFFICES ASSUME Init PROVE Types
  OBVIOUS
<1>1. list \in ListType
  BY DEF Init, ListType, Links
<1>2. mpc \in MainPC
  BY DEF Init, MainPC, Listeners
<1>3. apc \in [Acceptors -> AcceptorPC] /\ cur \in [Acceptors -> Conns \cup {NULL}]
  BY DEF Init, AcceptorPC
<1>4. QED
  BY <1>1, <1>2, <1>3 DEF Init, Types, HeapTypes, ThreadTypes

LEMMA TypesStep == Types /\ [Next]_vars => Types'
<1> SUFFICES ASSUME HeapTypes, ThreadTypes, [Next]_vars PROVE HeapTypes' /\ ThreadTypes'
  BY DEF Types
<1> USE Names DEF HeapTypes, ThreadTypes, ListType, AcceptorPC, MainPC, Acceptors,
                  Listeners, NextStart, AcceptorGoes, Rest, Others, shared
<1>1. ASSUME NEW a \in Acceptors, LoopTest(a) PROVE HeapTypes' /\ ThreadTypes'
  BY <1>1 DEF LoopTest
<1>2. ASSUME NEW a \in Acceptors, Accept(a) PROVE HeapTypes' /\ ThreadTypes'
  BY <1>2 DEF Accept
<1>3. ASSUME NEW a \in Acceptors, NewConnexion(a) PROVE HeapTypes' /\ ThreadTypes'
  <2>1. PICK o \in Conns : New(o) /\ cur' = [cur EXCEPT ![a] = o]
    BY <1>3 DEF NewConnexion
  <2>2. HeapTypes'
    BY <2>1, NewTypes
  <2>3. ThreadTypes'
    BY <1>3, <2>1 DEF NewConnexion
  <2>4. QED
    BY <2>2, <2>3
<1>4. ASSUME NEW a \in Acceptors, HandOver(a) PROVE HeapTypes' /\ ThreadTypes'
  BY <1>4 DEF HandOver
<1>5. ASSUME NEW a \in Acceptors, ServeInline(a) PROVE HeapTypes' /\ ThreadTypes'
  <2>1. cur[a] \in Objects /\ Delete(cur[a])
    BY <1>5 DEF ServeInline
  <2>2. HeapTypes'
    BY <2>1, DeleteTypes
  <2>3. ThreadTypes'
    BY <1>5 DEF ServeInline
  <2>4. QED
    BY <2>2, <2>3
<1>6. ASSUME NoBrowser PROVE HeapTypes' /\ ThreadTypes'
  BY <1>6 DEF NoBrowser
<1>7. ASSUME ExchangeKeys PROVE HeapTypes' /\ ThreadTypes'
  BY <1>7 DEF ExchangeKeys
<1>8. ASSUME AbortKeys PROVE HeapTypes' /\ ThreadTypes'
  <2>1. cur["game"] \in Objects /\ Delete(cur["game"])
    BY <1>8 DEF AbortKeys
  <2>2. HeapTypes'
    BY <2>1, DeleteTypes
  <2>3. ThreadTypes'
    BY <1>8 DEF AbortKeys
  <2>4. QED
    BY <2>2, <2>3
<1>9. ASSUME ReceivePackets PROVE HeapTypes' /\ ThreadTypes'
  BY <1>9 DEF ReceivePackets
<1>10. ASSUME NEW w \in Workers, Take(w) PROVE HeapTypes' /\ ThreadTypes'
  BY <1>10 DEF Take
<1>11. ASSUME NEW w \in Workers, HTTP_Work(w) PROVE HeapTypes' /\ ThreadTypes'
  <2>1. serving[w] \in Objects /\ Delete(serving[w])
    BY <1>11 DEF HTTP_Work
  <2>2. HeapTypes'
    BY <2>1, DeleteTypes
  <2>3. ThreadTypes'
    BY <1>11 DEF HTTP_Work
  <2>4. QED
    BY <2>2, <2>3
<1>12. ASSUME Listen PROVE HeapTypes' /\ ThreadTypes'
  <2>1. mpc \in Objects /\ New(mpc)
    BY <1>12 DEF Listen
  <2>2. HeapTypes'
    BY <2>1, NewTypes
  <2>3. ThreadTypes'
    BY <1>12 DEF Listen
  <2>4. QED
    BY <2>2, <2>3
<1>13. ASSUME ThreadFails PROVE HeapTypes' /\ ThreadTypes'
  <2>1. target \in Objects /\ Delete(target)
    BY <1>13 DEF ThreadFails
  <2>2. HeapTypes'
    BY <2>1, DeleteTypes
  <2>3. ThreadTypes'
    BY <1>13 DEF ThreadFails
  <2>4. QED
    BY <2>2, <2>3
<1>14. ASSUME DoNotListen PROVE HeapTypes' /\ ThreadTypes'
  BY <1>14 DEF DoNotListen
<1>15. ASSUME Stop PROVE HeapTypes' /\ ThreadTypes'
  BY <1>15 DEF Stop
<1>16. ASSUME CleanupTest PROVE HeapTypes' /\ ThreadTypes'
  BY <1>16 DEF CleanupTest
<1>17. ASSUME CleanupClose PROVE HeapTypes' /\ ThreadTypes'
  BY <1>17 DEF CleanupClose
<1>18. ASSUME CleanupDelete PROVE HeapTypes' /\ ThreadTypes'
  <2>1. target \in Objects /\ Delete(target)
    BY <1>18 DEF CleanupDelete
  <2>2. HeapTypes'
    BY <2>1, DeleteTypes
  <2>3. ThreadTypes'
    BY <1>18 DEF CleanupDelete
  <2>4. QED
    BY <2>2, <2>3
<1>19. ASSUME Crash PROVE HeapTypes' /\ ThreadTypes'
  BY <1>19 DEF Crash
<1>20. CASE UNCHANGED vars
  BY <1>20 DEF vars
<1>21. QED
   BY <1>1, <1>2, <1>3, <1>4, <1>5, <1>6, <1>7, <1>8, <1>9, <1>10, <1>11, <1>12, <1>13,
     <1>14, <1>15, <1>16, <1>17, <1>18, <1>19, <1>20 DEF Next, AcceptorStep, GameStep,
     WorkerStep, CleanupStep

(* THEOREM: every variable keeps its type. *)
THEOREM TypesInvariant == Spec => []Types
BY InitTypes, TypesStep, PTL DEF Spec

---------------------------------------------------------------------------
(* SharedPortTakesNoPlayer: on a shared port there is no HTTP acceptor to  *)
(* make a connexion with an address that the game's acceptor still holds,  *)
(* so a socket closed by NoBrowser stays closed until GameD looks again.   *)
NoPlayer == samePort =>
  /\ players = {} /\ apc["httpd"] = "off" /\ apc["game"] # "packets"
  /\ apc["game"] = "keys" => cur["game"] \notin open

LEMMA NoPlayerStep == Types /\ NoPlayer /\ [Next]_vars => NoPlayer'
<1> SUFFICES ASSUME HeapTypes, ThreadTypes, NoPlayer, [Next]_vars PROVE NoPlayer'
  BY DEF Types
<1> USE Names DEF HeapTypes, ThreadTypes, Acceptors, NoPlayer, AcceptorGoes, Rest,
                  Others, shared, settings
<1>1. ASSUME NEW a \in Acceptors, LoopTest(a), UNCHANGED settings PROVE NoPlayer'
  BY <1>1 DEF LoopTest
<1>2. ASSUME NEW a \in Acceptors, Accept(a), UNCHANGED settings PROVE NoPlayer'
  BY <1>2 DEF Accept
<1>3. ASSUME NEW a \in Acceptors, NewConnexion(a), UNCHANGED settings PROVE NoPlayer'
  BY <1>3 DEF NewConnexion, New
<1>4. ASSUME NEW a \in Acceptors, HandOver(a), UNCHANGED settings PROVE NoPlayer'
  BY <1>4 DEF HandOver
<1>5. ASSUME NEW a \in Acceptors, ServeInline(a), UNCHANGED settings PROVE NoPlayer'
  BY <1>5 DEF ServeInline, Delete
<1>6. ASSUME NoBrowser, UNCHANGED settings PROVE NoPlayer'
  BY <1>6 DEF NoBrowser
<1>7. ASSUME ExchangeKeys, UNCHANGED settings PROVE NoPlayer'
  BY <1>7 DEF ExchangeKeys
<1>8. ASSUME AbortKeys, UNCHANGED settings PROVE NoPlayer'
  BY <1>8 DEF AbortKeys, Delete
<1>9. ASSUME ReceivePackets, UNCHANGED settings PROVE NoPlayer'
  BY <1>9 DEF ReceivePackets
<1>10. ASSUME NEW w \in Workers, Take(w), UNCHANGED settings PROVE NoPlayer'
  BY <1>10 DEF Take
<1>11. ASSUME NEW w \in Workers, HTTP_Work(w), UNCHANGED settings PROVE NoPlayer'
  BY <1>11 DEF HTTP_Work, Delete
<1>12. ASSUME Listen, UNCHANGED settings PROVE NoPlayer'
  BY <1>12 DEF Listen, New, Listeners, NextStart
<1>13. ASSUME ThreadFails, UNCHANGED settings PROVE NoPlayer'
  BY <1>13 DEF ThreadFails, Delete
<1>14. ASSUME DoNotListen, UNCHANGED settings PROVE NoPlayer'
  BY <1>14 DEF DoNotListen
<1>15. ASSUME Stop, UNCHANGED settings PROVE NoPlayer'
  BY <1>15 DEF Stop
<1>16. ASSUME CleanupTest, UNCHANGED settings PROVE NoPlayer'
  BY <1>16 DEF CleanupTest
<1>17. ASSUME CleanupClose, UNCHANGED settings PROVE NoPlayer'
  BY <1>17 DEF CleanupClose
<1>18. ASSUME CleanupDelete, UNCHANGED settings PROVE NoPlayer'
  BY <1>18 DEF CleanupDelete, Delete
<1>19. ASSUME Crash, UNCHANGED settings PROVE NoPlayer'
  BY <1>19 DEF Crash
<1>20. CASE UNCHANGED vars
  BY <1>20 DEF vars
<1>21. QED
   BY <1>1, <1>2, <1>3, <1>4, <1>5, <1>6, <1>7, <1>8, <1>9, <1>10, <1>11, <1>12, <1>13,
     <1>14, <1>15, <1>16, <1>17, <1>18, <1>19, <1>20 DEF Next, AcceptorStep, GameStep,
     WorkerStep, CleanupStep

(* THEOREM: with one port for the game and HTTP nobody becomes a player.   *)
THEOREM SharedPortTakesNoPlayerHolds == Spec => []SharedPortTakesNoPlayer
<1>1. Init => NoPlayer
  BY DEF Init, NoPlayer, Acceptors
<1>2. NoPlayer => SharedPortTakesNoPlayer
  BY DEF NoPlayer, SharedPortTakesNoPlayer
<1>3. QED
  BY <1>1, <1>2, NoPlayerStep, TypesInvariant, PTL DEF Spec

---------------------------------------------------------------------------
(* OneOwner and OnlyAbortAndListCrash.  While the server runs ... *)

(* ... an acceptor that has not started will start at most once, and its   *)
(* listener is there;                                                      *)
Startup ==
  /\ mpc = "game" => apc["game"] = "off"
  /\ mpc \in {"game", "httpd"} => apc["httpd"] = "off"
  /\ mpc = "unstarted" => /\ apc[target] = "off" /\ target \in alive
                          /\ target = "game" => apc["httpd"] = "off"
  /\ \A a \in Acceptors : apc[a] # "off" => a \in alive

(* ... what an acceptor, the queue, a worker or the game has is alive;     *)
Holds(a, o) == cur[a] = o /\ apc[a] \in Holding
Live ==
  /\ \A a \in Acceptors : apc[a] \in Holding => cur[a] \in alive
  /\ queue \subseteq alive /\ players \subseteq alive
  /\ \A w \in Workers : serving[w] \in alive \cup {NULL}

(* ... and no two of them have the same,                                   *)
Apart ==
  \A o \in Conns :
    /\ o \notin queue \cap players
    /\ \A a \in Acceptors : Holds(a, o) =>
         /\ o \notin queue \cup players /\ \A w \in Workers : serving[w] # o
         /\ \A b \in Acceptors : Holds(b, o) => b = a
    /\ \A w \in Workers : serving[w] = o =>
         o \notin queue \cup players /\ \A v \in Workers : serving[v] = o => v = w

(* ... but one of them has every connexion of a client.                    *)
Owned ==
  \A o \in Conns \cap alive :
    \/ o \in queue \cup players
    \/ (\E a \in Acceptors : Holds(a, o)) \/ \E w \in Workers : serving[w] = o

OwnersInv == Running => Startup /\ Live /\ Apart /\ Owned

LEMMA OwnersStep == Types /\ OwnersInv /\ [Next]_vars => OwnersInv'
<1> SUFFICES ASSUME HeapTypes, ThreadTypes, OwnersInv, [Next]_vars, Running'
             PROVE  Startup' /\ Live' /\ Apart' /\ Owned'
  BY DEF Types, OwnersInv
<1> USE Names DEF HeapTypes, ThreadTypes, Acceptors, Listeners, OwnersInv, Running, Startup,
                  Live, Apart, Owned, Holds, Holding, AcceptorGoes, Rest, Others, shared
<1>1. ASSUME NEW a \in Acceptors, LoopTest(a) PROVE Startup' /\ Live' /\ Apart' /\ Owned'
  BY <1>1 DEF LoopTest
<1>2. ASSUME NEW a \in Acceptors, Accept(a) PROVE Startup' /\ Live' /\ Apart' /\ Owned'
  BY <1>2 DEF Accept
<1>3. ASSUME NEW a \in Acceptors, NewConnexion(a)
      PROVE  Startup' /\ Live' /\ Apart' /\ Owned'
  BY <1>3 DEF NewConnexion, New
<1>4. ASSUME NEW a \in Acceptors, HandOver(a) PROVE Startup' /\ Live' /\ Apart' /\ Owned'
  BY <1>4 DEF HandOver
<1>5. ASSUME NEW a \in Acceptors, ServeInline(a) PROVE Startup' /\ Live' /\ Apart' /\ Owned'
  BY <1>5 DEF ServeInline, Delete
<1>6. ASSUME NoBrowser PROVE Startup' /\ Live' /\ Apart' /\ Owned'
  BY <1>6 DEF NoBrowser
<1>7. ASSUME ExchangeKeys PROVE Startup' /\ Live' /\ Apart' /\ Owned'
  BY <1>7 DEF ExchangeKeys
<1>8. ASSUME AbortKeys PROVE Startup' /\ Live' /\ Apart' /\ Owned'
  BY <1>8 DEF AbortKeys, Delete
<1>9. ASSUME ReceivePackets PROVE Startup' /\ Live' /\ Apart' /\ Owned'
  BY <1>9 DEF ReceivePackets
<1>10. ASSUME NEW w \in Workers, Take(w) PROVE Startup' /\ Live' /\ Apart' /\ Owned'
  BY <1>10 DEF Take
<1>11. ASSUME NEW w \in Workers, HTTP_Work(w) PROVE Startup' /\ Live' /\ Apart' /\ Owned'
  BY <1>11 DEF HTTP_Work, Delete
<1>12. ASSUME Listen PROVE Startup' /\ Live' /\ Apart' /\ Owned'
  BY <1>12 DEF Listen, New, NextStart
<1>13. ASSUME ThreadFails PROVE Startup' /\ Live' /\ Apart' /\ Owned'
  BY <1>13 DEF ThreadFails, Delete, NextStart
<1>14. ASSUME DoNotListen PROVE Startup' /\ Live' /\ Apart' /\ Owned'
  BY <1>14 DEF DoNotListen, NextStart
<1>15. ASSUME Stop PROVE Startup' /\ Live' /\ Apart' /\ Owned'
  BY <1>15 DEF Stop
<1>16. ASSUME CleanupTest PROVE Startup' /\ Live' /\ Apart' /\ Owned'
  BY <1>16 DEF CleanupTest
<1>17. ASSUME CleanupClose PROVE Startup' /\ Live' /\ Apart' /\ Owned'
  BY <1>17 DEF CleanupClose
<1>18. ASSUME CleanupDelete PROVE Startup' /\ Live' /\ Apart' /\ Owned'
  BY <1>18 DEF CleanupDelete, Delete
<1>19. ASSUME Crash PROVE Startup' /\ Live' /\ Apart' /\ Owned'
  BY <1>19 DEF Crash
<1>20. CASE UNCHANGED vars
  BY <1>20 DEF vars
<1>21. QED
   BY <1>1, <1>2, <1>3, <1>4, <1>5, <1>6, <1>7, <1>8, <1>9, <1>10, <1>11, <1>12, <1>13,
     <1>14, <1>15, <1>16, <1>17, <1>18, <1>19, <1>20 DEF Next, AcceptorStep, GameStep,
     WorkerStep, CleanupStep

LEMMA InitOwners == Init => OwnersInv
BY Names DEF Init, OwnersInv, Running, Startup, Live, Apart, Owned, Holds, Holding,
   Acceptors

LEMMA OwnersInvariant == Spec => []OwnersInv
BY InitOwners, OwnersStep, TypesInvariant, PTL DEF Spec

(* A set of owners with one owner in it has no other. *)
LEMMA OneOwnerHolds ==
  ASSUME Types, OwnersInv PROVE OneOwner
<1> SUFFICES ASSUME Running, NEW o \in alive \cap Conns PROVE Cardinality(Owners(o)) = 1
  BY DEF OneOwner
<1> USE Names DEF Types, HeapTypes, ThreadTypes, OwnersInv, Apart, Owned, Holds, Owners
<1>1. CASE o \in queue
  <2>1. Owners(o) = {"queue"}
    BY <1>1
  <2>2. QED
    BY <2>1, FS_Singleton DEF Owners
<1>2. CASE o \in players
  <2>1. Owners(o) = {"players"}
    BY <1>2
  <2>2. QED
    BY <2>1, FS_Singleton
<1>3. ASSUME NEW a \in Acceptors, Holds(a, o) PROVE Cardinality(Owners(o)) = 1
  <2>1. Owners(o) = {a}
    BY <1>3
  <2>2. QED
    BY <2>1, FS_Singleton
<1>4. ASSUME NEW w \in Workers, serving[w] = o PROVE Cardinality(Owners(o)) = 1
  <2>1. Owners(o) = {w}
    BY <1>4
  <2>2. QED
    BY <2>1, FS_Singleton
<1>5. QED
  BY <1>1, <1>2, <1>3, <1>4

(* THEOREM: while the server runs every connexion of a client has exactly  *)
(* one owner, which alone may use and delete it.                           *)
THEOREM OneOwnerInvariant == Spec => []OneOwner
BY TypesInvariant, OwnersInvariant, OneOwnerHolds, PTL

---------------------------------------------------------------------------
(* ListIsExact.  The objects in the order of the list: s[1] is the first   *)
(* of the n objects, and their pointers say so.  connexions_last is the    *)
(* last one unless it has been deleted.                                    *)
InOrder(n, s) ==
  /\ s \in [1..n -> alive]
  /\ \A i, j \in 1..n : s[i] = s[j] => i = j
  /\ \A o \in alive : \E i \in 1..n : s[i] = o
  /\ list.first = IF n = 0 THEN NULL ELSE s[1]
  /\ \A i \in 1..n : /\ list.next[s[i]] = IF i = n THEN NULL ELSE s[i + 1]
                     /\ list.prev[s[i]] = IF i = 1 THEN NULL ELSE s[i - 1]
  /\ list.last \in alive => n > 0 /\ list.last = s[n]

(* A deleted object's pointers are forgotten, so a new one has none.       *)
Clean == \A o \in Objects \ alive : list.next[o] = NULL /\ list.prev[o] = NULL

Ordered == \E n \in Nat : \E s \in [1..n -> alive] : InOrder(n, s)
ListInv == ~lost => Clean /\ Ordered

LEMMA NewKeepsList ==
  ASSUME Types, ListInv, NEW o \in Objects, New(o)
  PROVE  ListInv'
<1> SUFFICES ASSUME ~lost, list.first = NULL \/ list.last \in alive PROVE Clean' /\ Ordered'
  BY DEF ListInv, New, LastIsDeleted
<1> USE Names DEF Types, HeapTypes, ListType, Links
<1>1. PICK n \in Nat : \E s \in [1..n -> alive] : InOrder(n, s)
  BY DEF ListInv, Ordered
<1>2. PICK s \in [1..n -> alive] : InOrder(n, s)
  BY <1>1
<1>3. Clean /\ o \notin alive /\ alive' = alive \cup {o} /\ NULL \notin alive
  BY DEF ListInv, New
<1>4. CASE list.first = NULL
  <2>1. n = 0 /\ alive = {}
    <3>1. n = 0
      BY <1>2, <1>3, <1>4 DEF InOrder
    <3>2. QED
      BY <1>2, <3>1 DEF InOrder
  <2>2. /\ list'.first = o /\ list'.last = o
        /\ list'.next = list.next /\ list'.prev = list.prev
    BY <1>4 DEF New, Inserted
  <2>3. InOrder(1, [i \in 1..1 |-> o])'
    BY <1>3, <2>1, <2>2 DEF InOrder, Clean
  <2>4. Clean'
    BY <1>3, <2>2 DEF Clean
  <2>5. [i \in 1..1 |-> o] \in [1..1 -> alive'] /\ 1 \in Nat
    BY <1>3
  <2>6. QED
    BY <2>3, <2>4, <2>5 DEF Ordered
<1>5. CASE list.first # NULL
  <2> DEFINE l == list.last
             r == [i \in 1..n + 1 |-> IF i = n + 1 THEN o ELSE s[i]]
  <2>1. l \in alive /\ n > 0 /\ l = s[n] /\ l # o
    BY <1>2, <1>3, <1>5 DEF InOrder
  <2>2. /\ list'.first = list.first /\ list'.last = o
        /\ list'.next = [list.next EXCEPT ![l] = o]
        /\ list'.prev = [list.prev EXCEPT ![o] = l]
    BY <1>5, <2>1 DEF New, Inserted, Write
  <2>3. Clean'
    BY <1>3, <2>1, <2>2 DEF Clean
  <2>4. r \in [1..n + 1 -> alive'] /\ n + 1 \in Nat
    BY <1>3
  <2>5. InOrder(n + 1, r)'
    <3> HIDE DEF l
    <3>1. \A i \in 1..n : r[i] = s[i] /\ s[i] \in alive /\ s[i] # o
      BY <1>3
    <3>2. r[n + 1] = o
      OBVIOUS
    <3> HIDE DEF r
    <3>3. \A i, j \in 1..n + 1 : r[i] = r[j] => i = j
      <4>1. \A i, j \in 1..n : s[i] = s[j] => i = j
        BY <1>2 DEF InOrder
      <4>2. \A i \in 1..n + 1 : i = n + 1 \/ i \in 1..n
        OBVIOUS
      <4>3. QED
        BY <3>1, <3>2, <4>1, <4>2
    <3>4. \A x \in alive' : \E i \in 1..n + 1 : r[i] = x
      BY <1>2, <1>3, <3>1, <3>2 DEF InOrder
    <3>5. \A i \in 1..n + 1 : list'.next[r[i]] = IF i = n + 1 THEN NULL ELSE r[i + 1]
      <4>1. \A i \in 1..n : i # n => r[i + 1] = s[i + 1] /\ s[i] # l
        BY <1>2, <2>1, <3>1 DEF InOrder
      <4>2. \A i \in 1..n : list.next[s[i]] = IF i = n THEN NULL ELSE s[i + 1]
        BY <1>2 DEF InOrder
      <4>3. list.next[o] = NULL
        BY <1>3 DEF Clean
      <4>4. QED
        BY <2>1, <2>2, <3>1, <3>2, <4>1, <4>2, <4>3
    <3>6. \A i \in 1..n + 1 : list'.prev[r[i]] = IF i = 1 THEN NULL ELSE r[i - 1]
      <4>1. \A i \in 1..n : list.prev[s[i]] = IF i = 1 THEN NULL ELSE s[i - 1]
        BY <1>2 DEF InOrder
      <4>2. \A i \in 1..n : i # 1 => i - 1 \in 1..n
        OBVIOUS
      <4>3. ASSUME NEW i \in 1..n PROVE list'.prev[r[i]] = IF i = 1 THEN NULL ELSE r[i - 1]
        BY <2>2, <3>1, <4>1, <4>2
      <4>4. list'.prev[r[n + 1]] = r[n] /\ n + 1 # 1 /\ n + 1 - 1 = n
        BY <2>1, <2>2, <3>1, <3>2
      <4>5. SUFFICES ASSUME NEW i \in 1..n + 1
                     PROVE  list'.prev[r[i]] = IF i = 1 THEN NULL ELSE r[i - 1]
        OBVIOUS
      <4>6. CASE i = n + 1
        BY <4>4, <4>6
      <4>7. CASE i \in 1..n
        BY <4>3, <4>7
      <4>8. QED
        BY <4>6, <4>7
    <3>7. list'.first = r[1] /\ list'.last = r[n + 1]
      BY <1>2, <2>1, <2>2, <3>1, <3>2 DEF InOrder
    <3>8. QED
      BY <2>4, <3>3, <3>4, <3>5, <3>6, <3>7 DEF InOrder
  <2>6. QED
    BY <2>3, <2>4, <2>5 DEF Ordered
<1>6. QED
  BY <1>4, <1>5

LEMMA DeleteKeepsList ==
  ASSUME Types, ListInv, NEW o \in alive, Delete(o)
  PROVE  ListInv'
<1> SUFFICES ASSUME ~lost PROVE Clean' /\ Ordered'
  BY DEF ListInv, Delete
<1> USE Names DEF Types, HeapTypes, ListType, Links
<1>1. PICK n \in Nat : \E s \in [1..n -> alive] : InOrder(n, s)
  BY DEF ListInv, Ordered
<1>2. PICK s \in [1..n -> alive] : InOrder(n, s)
  BY <1>1
<1>3. /\ Clean /\ alive' = alive \ {o} /\ NULL \notin alive /\ alive \subseteq Objects
      /\ alive \cup alive' = alive
  BY DEF ListInv, Delete
<1>4. PICK k \in 1..n : s[k] = o
  BY <1>2 DEF InOrder
<1> DEFINE p == list.prev[o]
           q == list.next[o]
           r == [i \in 1..n - 1 |-> IF i < k THEN s[i] ELSE s[i + 1]]
<1>5. /\ p = IF k = 1 THEN NULL ELSE s[k - 1]
      /\ q = IF k = n THEN NULL ELSE s[k + 1]
  BY <1>2, <1>4 DEF InOrder
<1>6. /\ list'.last = list.last
      /\ list'.first = IF p = NULL THEN q ELSE list.first
      /\ list'.next = [Write(list.next, p, q) EXCEPT ![o] = NULL]
      /\ list'.prev = [Write(list.prev, q, p) EXCEPT ![o] = NULL]
  BY DEF Delete, Unlinked
<1> HIDE DEF p, q
<1>7. /\ \A x \in Objects \ {o} :
           /\ list'.next[x] = IF x \in alive /\ x = p THEN q ELSE list.next[x]
           /\ list'.prev[x] = IF x \in alive /\ x = q THEN p ELSE list.prev[x]
      /\ list'.next[o] = NULL /\ list'.prev[o] = NULL
  BY <1>3, <1>6 DEF Write
<1>8. Clean'
  BY <1>3, <1>7 DEF Clean
<1>9. /\ \A i \in 1..n : s[i] \in alive /\ (s[i] = o <=> i = k)
      /\ \A i, j \in 1..n : s[i] = s[j] => i = j
  BY <1>2, <1>4 DEF InOrder
<1>10. r \in [1..n - 1 -> alive'] /\ n - 1 \in Nat
  BY <1>3, <1>9
<1>11. InOrder(n - 1, r)'
  <2>1. \A i \in 1..n - 1 : r[i] = IF i < k THEN s[i] ELSE s[i + 1]
    OBVIOUS
  <2> HIDE DEF r
  <2>2. \A i, j \in 1..n - 1 : r[i] = r[j] => i = j
    BY <1>9, <2>1
  <2>3. ASSUME NEW x \in alive' PROVE \E i \in 1..n - 1 : r[i] = x
    <3>1. PICK i \in 1..n : s[i] = x
      BY <1>2, <1>3 DEF InOrder
    <3>2. i # k
      BY <1>3, <1>9, <3>1
    <3>3. CASE i < k
      BY <2>1, <3>1, <3>3
    <3>4. CASE i > k
      <4>1. i - 1 \in 1..n - 1 /\ r[i - 1] = s[i]
        BY <2>1, <3>4
      <4>2. QED
        BY <3>1, <4>1
    <3>5. QED
      BY <3>2, <3>3, <3>4
  <2>4. list'.first = IF n - 1 = 0 THEN NULL ELSE r[1]
    <3>1. list.first = s[1]
      BY <1>2, <1>4 DEF InOrder
    <3>2. CASE k = 1
      BY <1>5, <1>6, <2>1, <3>2
    <3>3. CASE k # 1
      BY <1>3, <1>5, <1>6, <1>9, <2>1, <3>1, <3>3
    <3>4. QED
      BY <3>2, <3>3
  <2>5. ASSUME NEW i \in 1..n - 1
        PROVE  /\ list'.next[r[i]] = IF i = n - 1 THEN NULL ELSE r[i + 1]
               /\ list'.prev[r[i]] = IF i = 1 THEN NULL ELSE r[i - 1]
    <3>1. \A j \in 1..n : /\ list.next[s[j]] = IF j = n THEN NULL ELSE s[j + 1]
                          /\ list.prev[s[j]] = IF j = 1 THEN NULL ELSE s[j - 1]
      BY <1>2 DEF InOrder
    <3>2. CASE i < k - 1
      <4>1. /\ i \in 1..n /\ i + 1 \in 1..n - 1 /\ i # k /\ i # n /\ i # n - 1 /\ k # 1
            /\ k - 1 \in 1..n /\ i # k - 1
        BY <3>2
      <4>2. r[i] = s[i] /\ r[i + 1] = s[i + 1] /\ (i # 1 => r[i - 1] = s[i - 1])
        BY <2>1, <3>2, <4>1
      <4>3. s[i] # o /\ s[i] # p /\ s[i] # q /\ s[i] \in Objects
        BY <1>3, <1>5, <1>9, <3>2, <4>1
      <4>4. list'.next[s[i]] = list.next[s[i]] /\ list'.prev[s[i]] = list.prev[s[i]]
        BY <1>7, <4>3
      <4>5. QED
        BY <3>1, <4>1, <4>2, <4>4
    <3>3. CASE i = k - 1
      <4>1. /\ i \in 1..n /\ i < k /\ k # 1 /\ k - 1 = i /\ (k = n <=> i = n - 1)
            /\ (i # n - 1 => i + 1 \in 1..n - 1 /\ ~(i + 1 < k) /\ i + 1 + 1 = k + 1 /\ k + 1 \in 1..n)
            /\ (i # 1 => i - 1 \in 1..n - 1 /\ i - 1 < k) /\ i # k /\ i # n /\ i # k + 1
        BY <3>3
      <4>2. r[i] = s[i] /\ (i # n - 1 => r[i + 1] = s[k + 1]) /\ (i # 1 => r[i - 1] = s[i - 1])
        BY <2>1, <4>1
      <4>3. s[i] = p /\ s[i] # o /\ s[i] # q /\ s[i] \in alive /\ s[i] \in Objects
        BY <1>3, <1>5, <1>9, <4>1
      <4>4. list'.next[s[i]] = q /\ list'.prev[s[i]] = list.prev[s[i]]
        BY <1>7, <4>3
      <4>5. QED
        BY <1>5, <3>1, <4>1, <4>2, <4>4
    <3>4. CASE i = k
      <4>1. /\ k \in 1..n /\ k + 1 \in 1..n /\ k # n /\ ~(k < k) /\ (k + 1 = n <=> k = n - 1)
            /\ (k # n - 1 => k + 1 \in 1..n - 1 /\ ~(k + 1 < k)) /\ k + 1 # k /\ k + 1 # 1
            /\ (k # 1 => k - 1 \in 1..n - 1 /\ k - 1 \in 1..n /\ k - 1 < k /\ k - 1 # k + 1)
        BY <3>4
      <4>2. /\ r[k] = s[k + 1] /\ (k # n - 1 => r[k + 1] = s[k + 1 + 1])
            /\ (k # 1 => r[k - 1] = s[k - 1])
        BY <2>1, <3>4, <4>1
      <4>3. /\ s[k + 1] = q /\ s[k + 1] # o /\ s[k + 1] # p
            /\ s[k + 1] \in alive /\ s[k + 1] \in Objects
        BY <1>3, <1>5, <1>9, <4>1
      <4>4. list'.next[s[k + 1]] = list.next[s[k + 1]] /\ list'.prev[s[k + 1]] = p
        BY <1>7, <4>3
      <4>5. QED
        BY <1>5, <3>1, <3>4, <4>1, <4>2, <4>4
    <3>5. CASE i > k
      <4>1. /\ i \in 1..n /\ i + 1 \in 1..n /\ i # 1 /\ i - 1 \in 1..n - 1 /\ i - 1 + 1 = i
            /\ k # n /\ k + 1 \in 1..n /\ i + 1 # k + 1 /\ i + 1 # k /\ ~(i - 1 < k)
            /\ (i + 1 = n <=> i = n - 1) /\ i + 1 # 1 /\ i + 1 - 1 = i
            /\ (i # n - 1 => i + 1 \in 1..n - 1 /\ ~(i + 1 < k))
        BY <3>5
      <4>2. r[i] = s[i + 1] /\ (i # n - 1 => r[i + 1] = s[i + 1 + 1]) /\ r[i - 1] = s[i]
        BY <2>1, <3>5, <4>1
      <4>3. s[i + 1] # o /\ s[i + 1] # p /\ s[i + 1] # q /\ s[i + 1] \in Objects
        BY <1>3, <1>5, <1>9, <3>5, <4>1
      <4>4. /\ list'.next[s[i + 1]] = list.next[s[i + 1]]
            /\ list'.prev[s[i + 1]] = list.prev[s[i + 1]]
        BY <1>7, <4>3
      <4>5. /\ list.next[s[i + 1]] = IF i + 1 = n THEN NULL ELSE s[i + 1 + 1]
            /\ list.prev[s[i + 1]] = s[i]
        BY <3>1, <4>1
      <4>6. QED
        BY <4>1, <4>2, <4>4, <4>5
    <3>6. QED
      BY <3>2, <3>3, <3>4, <3>5
  <2>6. list'.last \in alive' => n - 1 > 0 /\ list'.last = r[n - 1]
    <3>1. SUFFICES ASSUME list'.last \in alive' PROVE n - 1 > 0 /\ list'.last = r[n - 1]
      OBVIOUS
    <3>2. list.last = s[n] /\ n # k
      BY <1>2, <1>3, <1>6, <1>9, <3>1 DEF InOrder
    <3>3. n - 1 \in 1..n - 1 /\ ~(n - 1 < k) /\ n - 1 + 1 = n
      BY <3>2
    <3>4. r[n - 1] = s[n]
      BY <2>1, <3>3
    <3>5. list'.last = r[n - 1] /\ n - 1 > 0
      BY <1>6, <3>2, <3>3, <3>4
    <3>6. QED
      BY <3>5
  <2>7. QED
    BY <1>10, <2>2, <2>3, <2>4, <2>5, <2>6 DEF InOrder
<1>12. QED
  BY <1>8, <1>10, <1>11 DEF Ordered

LEMMA SameList ==
  ASSUME ListInv, list' = list, alive' = alive, lost' = lost PROVE ListInv'
<1>1. Clean => Clean'
  BY DEF Clean
<1>2. \A n, s : InOrder(n, s) => InOrder(n, s)'
  BY DEF InOrder
<1>3. Ordered => Ordered'
  BY <1>2 DEF Ordered
<1>4. QED
  BY <1>1, <1>3 DEF ListInv

LEMMA ListStep == Types /\ OwnersInv /\ ListInv /\ [Next]_vars => ListInv'
<1> SUFFICES ASSUME Types, OwnersInv, ListInv, [Next]_vars PROVE ListInv'
  OBVIOUS
<1>1. ASSUME NEW o \in Objects, New(o) PROVE ListInv'
  BY <1>1, NewKeepsList
<1>2. ASSUME NEW o \in alive, Delete(o) PROVE ListInv'
  BY <1>2, DeleteKeepsList
<1>3. ASSUME NEW a \in Acceptors, LoopTest(a) PROVE ListInv'
  BY <1>3, SameList DEF LoopTest, shared, Others, Rest
<1>4. ASSUME NEW a \in Acceptors, Accept(a) PROVE ListInv'
  BY <1>4, SameList DEF Accept, shared, Others, Rest
<1>5. ASSUME NEW a \in Acceptors, NewConnexion(a) PROVE ListInv'
  BY <1>1, <1>5, Names DEF NewConnexion
<1>6. ASSUME NEW a \in Acceptors, HandOver(a) PROVE ListInv'
  BY <1>6, SameList DEF HandOver, shared, Others, Rest
<1>7. ASSUME NEW a \in Acceptors, ServeInline(a) PROVE ListInv'
  BY <1>2, <1>7, Names DEF ServeInline, Types, ThreadTypes, HeapTypes
<1>8. ASSUME NoBrowser PROVE ListInv'
  BY <1>8, SameList DEF NoBrowser, shared, Others, Rest
<1>9. ASSUME ExchangeKeys PROVE ListInv'
  BY <1>9, SameList DEF ExchangeKeys, shared, Others, Rest
<1>10. ASSUME AbortKeys PROVE ListInv'
  BY <1>2, <1>10, Names DEF AbortKeys, Types, ThreadTypes, HeapTypes
<1>11. ASSUME ReceivePackets PROVE ListInv'
  BY <1>11, SameList DEF ReceivePackets, shared, Others, Rest
<1>12. ASSUME NEW w \in Workers, Take(w) PROVE ListInv'
  BY <1>12, SameList DEF Take, shared, Others, Rest
<1>13. ASSUME NEW w \in Workers, HTTP_Work(w) PROVE ListInv'
  BY <1>2, <1>13, Names DEF HTTP_Work, Types, ThreadTypes, HeapTypes
<1>14. ASSUME Listen PROVE ListInv'
  BY <1>1, <1>14, Names DEF Listen
<1>15. ASSUME ThreadFails PROVE ListInv'
  BY <1>2, <1>15 DEF ThreadFails, OwnersInv, Running, Startup
<1>16. ASSUME DoNotListen PROVE ListInv'
  BY <1>16, SameList DEF DoNotListen, shared, Others, Rest
<1>17. ASSUME Stop PROVE ListInv'
  BY <1>17, SameList DEF Stop, shared, Others, Rest
<1>18. ASSUME CleanupTest PROVE ListInv'
  BY <1>18, SameList DEF CleanupTest, shared, Others, Rest
<1>19. ASSUME CleanupClose PROVE ListInv'
  BY <1>19, SameList DEF CleanupClose, shared, Others, Rest
<1>20. ASSUME CleanupDelete PROVE ListInv'
  BY <1>2, <1>20, Names DEF CleanupDelete, Types, ThreadTypes, HeapTypes
<1>21. ASSUME Crash PROVE ListInv'
  BY <1>21, SameList DEF Crash, shared, Others, Rest
<1>22. CASE UNCHANGED vars
  BY <1>22, SameList DEF vars, shared
<1>23. QED
   BY <1>3, <1>4, <1>5, <1>6, <1>7, <1>8, <1>9, <1>10, <1>11, <1>12, <1>13, <1>14, <1>15,
     <1>16, <1>17, <1>18, <1>19, <1>20, <1>21, <1>22 DEF Next, AcceptorStep, GameStep,
     WorkerStep, CleanupStep

LEMMA ListInvariant == Spec => []ListInv
<1>1. Init => ListInv
  <2> SUFFICES ASSUME Init PROVE Clean /\ Ordered
    BY DEF ListInv
  <2>1. Clean
    BY DEF Init, Clean
  <2>2. InOrder(0, <<>>) /\ <<>> \in [1..0 -> alive] /\ 0 \in Nat
    BY DEF Init, InOrder
  <2>3. QED
    BY <2>1, <2>2 DEF Ordered
<1>2. QED
  BY <1>1, ListStep, TypesInvariant, OwnersInvariant, PTL DEF Spec

---------------------------------------------------------------------------
(* Chain collects the objects of the list one by one: an induction over    *)
(* the number of steps, by the least number that does not have a property. *)

Less == OpToRel(<, Nat)

LEMMA SetInduction ==
  ASSUME NEW S, 0 \in S, \A m \in Nat : m \in S => m + 1 \in S
  PROVE  Nat \subseteq S
<1> SUFFICES ASSUME Nat \ S # {} PROVE FALSE
  OBVIOUS
<1>1. IsWellFoundedOn(Less, Nat)
  BY NatLessThanWellFounded DEF Less
<1>2. \A x, y \in Nat : <<x, y>> \in Less <=> x < y
  BY DEF Less, OpToRel
<1>3. PICK x \in Nat \ S : \A y \in Nat \ S : ~ (<<y, x>> \in Less)
  BY <1>1, WFMin
<1>4. x - 1 \in Nat /\ x - 1 < x /\ x - 1 + 1 = x
  BY <1>3
<1>5. x - 1 \notin S
  BY <1>3, <1>4
<1>6. QED
  BY <1>2, <1>3, <1>4, <1>5

(* One more step of Chain. *)
Reach(f) ==
  [m \in 0..Cardinality(Objects) |->
     IF m = 0 THEN {list.first} \ {NULL}
     ELSE f[m - 1] \cup ({list.next[o] : o \in f[m - 1]} \ {NULL})]

LEMMA ChainIsReach == Chain = (CHOOSE c : c = Reach(c))[Cardinality(Objects)]
BY Zenon DEF Chain, Reach

LEMMA FiniteObjects ==
  IsFiniteSet(Objects) /\ Cardinality(Objects) \in Nat
<1>1. IsFiniteSet(Conns)
  BY ConnsAssumption
<1>2. IsFiniteSet(Conns \cup {"game"})
  BY <1>1, FS_AddElement
<1>3. IsFiniteSet(Conns \cup {"game"} \cup {"httpd"})
  BY <1>2, FS_AddElement
<1>4. IsFiniteSet(Conns \cup {"game"} \cup {"httpd"} \cup {"bridge"})
  BY <1>3, FS_AddElement
<1>5. Objects = Conns \cup {"game"} \cup {"httpd"} \cup {"bridge"}
  BY DEF Objects, Listeners
<1>6. QED
  BY <1>4, <1>5, FS_CardinalityType

LEMMA ChainIsAll ==
  ASSUME Types, NEW n \in Nat, NEW s \in [1..n -> alive], InOrder(n, s)
  PROVE  Chain = alive
<1> DEFINE K == Cardinality(Objects)
           upto(m) == {s[i] : i \in {j \in 1..n : j <= m + 1}}
           g == [m \in 0..K |-> upto(m)]
<1> USE Names DEF Types, HeapTypes, ListType, Links
<1>1. K \in Nat /\ IsFiniteSet(Objects)
  BY FiniteObjects
<1>2. n <= K
  <2>1. s \in Injection(1..n, Objects)
    BY DEF InOrder, Injection, IsInjective
  <2>2. Cardinality(1..n) = n
    BY FS_Interval
  <2>3. QED
    BY <1>1, <2>1, <2>2, FS_Injection
<1> HIDE DEF K
<1>3. upto(0) = {list.first} \ {NULL}
  BY DEF InOrder
<1>4. ASSUME NEW m \in Nat
      PROVE  upto(m + 1) = upto(m) \cup ({list.next[o] : o \in upto(m)} \ {NULL})
  <2>1. \A i \in 1..n : list.next[s[i]] = IF i = n THEN NULL ELSE s[i + 1]
    BY DEF InOrder
  <2>2. upto(m + 1) \subseteq upto(m) \cup ({list.next[o] : o \in upto(m)} \ {NULL})
    <3>1. ASSUME NEW i \in 1..n, i <= m + 2
          PROVE  s[i] \in upto(m) \cup ({list.next[o] : o \in upto(m)} \ {NULL})
      <4>1. CASE i <= m + 1
        BY <4>1
      <4>2. CASE i = m + 2
        <5>1. i - 1 \in 1..n /\ i - 1 <= m + 1 /\ i - 1 # n /\ i - 1 + 1 = i
          BY <4>2
        <5>2. s[i - 1] \in upto(m) /\ list.next[s[i - 1]] = s[i] /\ s[i] # NULL
          BY <2>1, <5>1
        <5>3. QED
          BY <5>2
      <4>3. QED
        BY <3>1, <4>1, <4>2
    <3>2. QED
      BY <3>1
  <2>3. upto(m) \subseteq upto(m + 1)
    OBVIOUS
  <2>4. ASSUME NEW o \in upto(m), list.next[o] # NULL PROVE list.next[o] \in upto(m + 1)
    <3>1. PICK i \in 1..n : i <= m + 1 /\ o = s[i]
      OBVIOUS
    <3>2. i + 1 \in 1..n /\ i + 1 <= m + 1 + 1 /\ list.next[s[i]] = s[i + 1]
      BY <2>1, <2>4, <3>1
    <3>3. QED
      BY <3>1, <3>2
  <2>5. QED
    <3> HIDE DEF upto
    <3>1. QED
      BY <2>2, <2>3, <2>4
<1> HIDE DEF upto
<1>5. g = Reach(g)
  <2>1. ASSUME NEW m \in 0..K PROVE Reach(g)[m] = upto(m)
    <3>1. CASE m = 0
      BY <1>1, <1>3, <3>1 DEF Reach, K
    <3>2. CASE m # 0
      <4>1. m - 1 \in 0..K /\ m - 1 \in Nat /\ m - 1 + 1 = m
        BY <1>1, <3>2
      <4>2. g[m - 1] = upto(m - 1)
        BY <4>1
      <4>3. QED
        BY <1>4, <3>2, <4>1, <4>2 DEF Reach, K
    <3>3. QED
      BY <3>1, <3>2
  <2>2. QED
    BY <2>1 DEF Reach, K
<1> DEFINE c == CHOOSE x : x = Reach(x)
<1>6. c = Reach(c)
  BY <1>5
<1> HIDE DEF c
<1>7. c[K] = upto(K)
  <2> DEFINE S == {m \in Nat : m <= K => c[m] = upto(m)}
  <2>1. 0 \in S
    BY <1>1, <1>3, <1>6 DEF Reach, K
  <2>2. ASSUME NEW m \in Nat, m \in S PROVE m + 1 \in S
    <3>1. SUFFICES ASSUME m + 1 <= K PROVE c[m + 1] = upto(m + 1)
      OBVIOUS
    <3>2. m \in 0..K /\ m + 1 \in 0..K /\ m + 1 # 0 /\ m + 1 - 1 = m /\ c[m] = upto(m)
      BY <1>1, <2>2, <3>1
    <3>3. c[m + 1] = c[m] \cup ({list.next[o] : o \in c[m]} \ {NULL})
      BY <1>6, <3>2 DEF Reach, K
    <3>4. QED
      BY <1>4, <3>2, <3>3
  <2>3. Nat \subseteq S
    <3> HIDE DEF S
    <3>1. QED
      BY <2>1, <2>2, SetInduction
  <2>4. QED
    BY <1>1, <2>3
<1>8. upto(K) = alive
  BY <1>1, <1>2 DEF InOrder, upto
<1>9. QED
  BY <1>7, <1>8, ChainIsReach DEF c, K

LEMMA ListIsExactHolds == Types /\ ListInv => ListIsExact
<1> SUFFICES ASSUME Types, ListInv, ~lost PROVE ListIsExact
  BY DEF ListIsExact
<1> USE Names DEF Types, HeapTypes
<1>1. PICK n \in Nat : \E s \in [1..n -> alive] : InOrder(n, s)
  BY DEF ListInv, Ordered
<1>2. PICK s \in [1..n -> alive] : InOrder(n, s)
  BY <1>1
<1>3. Chain = alive
  BY <1>2, ChainIsAll
<1>4. ASSUME NEW o \in alive, list.next[o] # NULL
      PROVE  list.next[o] \in alive /\ list.prev[list.next[o]] = o
  <2>1. PICK i \in 1..n : s[i] = o
    BY <1>2 DEF InOrder
  <2>2. \A j \in 1..n : /\ list.next[s[j]] = IF j = n THEN NULL ELSE s[j + 1]
                        /\ list.prev[s[j]] = IF j = 1 THEN NULL ELSE s[j - 1]
    BY <1>2 DEF InOrder
  <2>3. i # n /\ list.next[o] = s[i + 1]
    BY <1>4, <2>1, <2>2
  <2>4. i + 1 \in 1..n /\ i + 1 - 1 = i /\ i + 1 # 1
    BY <2>3
  <2>5. QED
    BY <2>1, <2>2, <2>3, <2>4
<1>5. list.first # NULL => list.prev[list.first] = NULL
  <2>1. SUFFICES ASSUME list.first # NULL PROVE list.prev[list.first] = NULL
    OBVIOUS
  <2>2. 1 \in 1..n /\ list.first = s[1]
    BY <1>2, <2>1 DEF InOrder
  <2>3. QED
    BY <1>2, <2>2 DEF InOrder
<1>6. QED
  BY <1>3, <1>4, <1>5 DEF ListIsExact

(* THEOREM: as long as no object was put behind a deleted one, the list    *)
(* holds exactly the connexions that exist, linked both ways.              *)
THEOREM ListIsExactInvariant == Spec => []ListIsExact
BY TypesInvariant, ListInvariant, ListIsExactHolds, PTL

---------------------------------------------------------------------------
(* OnlyAbortAndListCrash.  In a list that is in order every neighbour is   *)
(* there.                                                                  *)
LEMMA NeighboursAreThere ==
  ASSUME ListInv, ~lost, NEW o \in alive
  PROVE  ~NeighbourDeleted(o)
<1>1. PICK n \in Nat : \E s \in [1..n -> alive] : InOrder(n, s)
  BY DEF ListInv, Ordered
<1>2. PICK s \in [1..n -> alive] : InOrder(n, s)
  BY <1>1
<1>3. PICK i \in 1..n : s[i] = o
  BY <1>2 DEF InOrder
<1>4. /\ list.next[o] = IF i = n THEN NULL ELSE s[i + 1]
      /\ list.prev[o] = IF i = 1 THEN NULL ELSE s[i - 1]
  BY <1>2, <1>3 DEF InOrder
<1>5. list.next[o] \in alive \cup {NULL}
  <2>1. i # n => i + 1 \in 1..n
    OBVIOUS
  <2>2. QED
    BY <1>4, <2>1
<1>6. list.prev[o] \in alive \cup {NULL}
  <2>1. i # 1 => i - 1 \in 1..n
    OBVIOUS
  <2>2. QED
    BY <1>4, <2>1
<1>7. QED
  BY <1>5, <1>6 DEF NeighbourDeleted

LEMMA OnlyAbortAndListStep ==
  Types /\ OwnersInv /\ ListInv /\ OnlyAbortAndListCrash /\ [Next]_vars
    => OnlyAbortAndListCrash'
<1> SUFFICES ASSUME Types, OwnersInv, ListInv, OnlyAbortAndListCrash, [Next]_vars,
                    Running', crash' # "none"
             PROVE  crash' \in {"aborted", "insert"} \/ (crash' = "unlink" /\ lost')
  BY DEF OnlyAbortAndListCrash
<1>1. CASE Crash
  <2>1. Running /\ lost' = lost
    BY <1>1 DEF Crash, Running, shared
  <2>2. /\ \A a \in Acceptors : apc[a] # "off" => a \in alive
        /\ \A a \in Acceptors : apc[a] \in Holding => cur[a] \in alive
        /\ \A w \in Workers : serving[w] \in alive \cup {NULL}
    BY <2>1 DEF OwnersInv, Startup, Live
  <2>3. mpc \notin {"close", "delete"}
    BY <2>1 DEF Running, Listeners
  <2>4. CASE OwnerUsesDeleted
    BY <2>2, <2>3, <2>4 DEF OwnerUsesDeleted
  <2>5. CASE crash' = "insert"
    BY <2>5
  <2>6. CASE (\E o \in alive : NeighbourDeleted(o)) /\ crash' = "unlink"
    BY <2>1, <2>6, NeighboursAreThere
  <2>7. QED
    BY <1>1, <2>4, <2>5, <2>6 DEF Crash
<1>2. CASE crash = "none" /\ UNCHANGED crash
  BY <1>2
<1>3. CASE UNCHANGED vars
  BY <1>3 DEF vars, shared, OnlyAbortAndListCrash, Running
<1>4. QED
  BY <1>1, <1>2, <1>3 DEF Next

(* THEOREM: while the server runs, nothing uses a deleted connexion but    *)
(* GameD after a key exchange it has given up, the constructor behind a    *)
(* deleted connexions_last and, after that, the destructor between         *)
(* neighbours that were deleted.                                           *)
THEOREM OnlyAbortAndListCrashInvariant == Spec => []OnlyAbortAndListCrash
<1>1. Init => OnlyAbortAndListCrash
  BY DEF Init, OnlyAbortAndListCrash
<1>2. QED
  BY <1>1, TypesInvariant, OwnersInvariant, ListInvariant, OnlyAbortAndListStep, PTL
     DEF Spec
=============================================================================
