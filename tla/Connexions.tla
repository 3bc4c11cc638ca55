----------------------------- MODULE Connexions -----------------------------
(***************************************************************************)
(* The connexions of the server (connexion.cpp, network.cpp): the global   *)
(* list of connexion_list objects, and the threads that make, use and      *)
(* delete them.  The main thread makes the listening connexions and, at    *)
(* shutdown, deletes whatever the list holds; an acceptor makes one for    *)
(* every client; an HTTP worker deletes the one it has served.             *)
(*                                                                         *)
(* Addresses are used again.                                               *)
(***************************************************************************)
EXTENDS Naturals, FiniteSets

CONSTANTS Conns,     \* the addresses of the clients' connexions
          Workers,   \* the HTTP workers
          NULL

ASSUME ConnsAssumption ==
  /\ {"game", "httpd", "bridge", NULL} \cap Conns = {}
  /\ NULL \notin {"game", "httpd", "bridge"}
  /\ IsFiniteSet(Conns)

Acceptors == {"game", "httpd"}
Listeners == {"game", "httpd", "bridge"}
Objects   == Listeners \cup Conns

VARIABLES
  samePort,  \* Net.Ports.Game = Net.Ports.Httpd
  threaded,  \* Thread.Httpd > 1
  list,      \* connexions, connexions_last, and next and prev of every object
  alive,     \* the connexions constructed and not deleted
  open,      \* those whose sock is not INVALID_SOCKET, and whose client is there
  apc,       \* where each acceptor is
  cur,       \* connex_t of GameD, httpd_link->connex of HttpD
  queue,     \* the connexions handed to the HTTP workers
  serving,   \* the connexion each worker serves
  players,   \* the connexions that completed the key exchange
  mpc,       \* where the main thread is
  target,    \* the connexion connexions_cleanup deletes
  crash,     \* "none", or the invalid access that ended the process
  lost       \* history: an object was put behind a deleted one

shared   == <<list, alive, open, lost>>
settings == <<samePort, threaded>>
vars     == <<settings, shared, apc, cur, queue, serving, players, mpc, target, crash>>

Init ==
  /\ samePort \in BOOLEAN /\ threaded \in BOOLEAN
  /\ list = [first |-> NULL, last |-> NULL,
             next |-> [o \in Objects |-> NULL], prev |-> [o \in Objects |-> NULL]]
  /\ alive = {} /\ open = {}
  /\ apc = [a \in Acceptors |-> "off"]
  /\ cur = [a \in Acceptors |-> NULL]
  /\ queue = {} /\ players = {}
  /\ serving = [w \in Workers |-> NULL]
  /\ mpc = "game" /\ target = NULL
  /\ crash = "none" /\ lost = FALSE

---------------------------------------------------------------------------
(* The list.  The destructor leaves connexions_last alone, so a connexion  *)
(* can be put behind a deleted one: if the process outlives that write     *)
(* (see Crash), it is lost, or reaches the object that has the address.    *)

Write(field, o, v) == IF o \in alive' \cup alive THEN [field EXCEPT ![o] = v] ELSE field

Inserted(l, o) ==
  IF l.first = NULL
  THEN [l EXCEPT !.first = o, !.last = o]
  ELSE [l EXCEPT !.last = o,
                 !.next = Write(@, l.last, o),
                 !.prev = [@ EXCEPT ![o] = l.last]]

(* What the constructor, and the destructor of o, would write to is        *)
(* deleted.  The pointers of a deleted object are read by nobody.          *)
LastIsDeleted       == list.first # NULL /\ list.last \notin alive
NeighbourDeleted(o) == ~({list.next[o], list.prev[o]} \subseteq alive \cup {NULL})

Unlinked(l, o) ==
  LET n == l.next[o]
      p == l.prev[o]
  IN  [l EXCEPT !.first = IF p = NULL THEN n ELSE @,
                !.next  = [Write(@, p, n) EXCEPT ![o] = NULL],
                !.prev  = [Write(@, n, p) EXCEPT ![o] = NULL]]

(* The constructor and the destructor of a connexion. *)
New(o) ==
  /\ o \notin alive
  /\ alive' = alive \cup {o} /\ open' = open \cup {o}
  /\ list' = Inserted(list, o)
  /\ lost' = (lost \/ LastIsDeleted)

(* Mutant: the destructor forgets the successor's back pointer. *)
DeleteOneWay(o) ==
  /\ alive' = alive \ {o} /\ open' = open \ {o}
  /\ list' = [Unlinked(list, o) EXCEPT !.prev = list.prev]
  /\ UNCHANGED lost

Delete(o) ==
  /\ alive' = alive \ {o} /\ open' = open \ {o}
  /\ list' = Unlinked(list, o)
  /\ UNCHANGED lost

---------------------------------------------------------------------------
(* network::start: the three listeners in turn; any of them may fail or    *)
(* not be wanted, and there is no HTTP listener on the game's port.  The   *)
(* acceptor runs as soon as its listener is made; the constructor deletes  *)
(* a listener whose thread does not start.                                 *)
NextStart == [game |-> "httpd", httpd |-> "bridge", bridge |-> "run"]

Listen ==
  /\ mpc \in Listeners
  /\ mpc = "httpd" => ~samePort
  /\ New(mpc)
  /\ \/ /\ mpc' = NextStart[mpc]
        /\ apc' = [a \in Acceptors |-> IF a = mpc THEN "test" ELSE apc[a]]
        /\ UNCHANGED target
     \/ mpc \in Acceptors /\ mpc' = "unstarted" /\ target' = mpc /\ UNCHANGED apc
  /\ UNCHANGED <<cur, queue, serving, players>>

ThreadFails ==
  /\ mpc = "unstarted" /\ mpc' = NextStart[target]
  /\ Delete(target)
  /\ UNCHANGED <<apc, cur, queue, serving, players, target>>

DoNotListen ==
  /\ mpc \in Listeners /\ mpc' = NextStart[mpc]
  /\ UNCHANGED <<shared, apc, cur, queue, serving, players, target>>

---------------------------------------------------------------------------
(* An acceptor: HttpD or GameD. *)

AcceptorGoes(a, from, to) == apc[a] = from /\ apc' = [apc EXCEPT ![a] = to]
Rest == UNCHANGED <<serving, mpc, target>>

LoopTest(a) ==
  /\ AcceptorGoes(a, "test", IF a \in open THEN "accept" ELSE "exit")
  /\ a \in alive
  /\ UNCHANGED <<shared, cur, queue, players>> /\ Rest

(* accept returns a client's socket, or an error once the socket is closed *)
Accept(a) ==
  /\ AcceptorGoes(a, "accept", IF a \in open THEN "new" ELSE "test")
  /\ UNCHANGED <<shared, cur, queue, players>> /\ Rest

NewConnexion(a) ==
  /\ AcceptorGoes(a, "new", IF a = "httpd" \/ samePort THEN "request" ELSE "keys")
  /\ \E o \in Conns : New(o) /\ cur' = [cur EXCEPT ![a] = o]
  /\ UNCHANGED <<queue, players>> /\ Rest

(* Mutant: the worker gets the connexion before the acceptor is done with *)
(* it.                                                                    *)
HandOverEarly(a) ==
  /\ AcceptorGoes(a, "request", "keys")
  /\ cur[a] \in alive
  /\ queue' = queue \cup {cur[a]}
  /\ UNCHANGED <<shared, cur, players>> /\ Rest

(* The request is handed to the workers. *)
HandOver(a) ==
  /\ threaded /\ AcceptorGoes(a, "request", "test")
  /\ cur[a] \in alive
  /\ queue' = queue \cup {cur[a]}
  /\ cur' = [cur EXCEPT ![a] = NULL]
  /\ UNCHANGED <<shared, players>> /\ Rest

(* Without workers the acceptor serves the request. *)
ServeInline(a) ==
  /\ ~threaded /\ AcceptorGoes(a, "request", "test")
  /\ cur[a] \in alive
  /\ Delete(cur[a])
  /\ cur' = [cur EXCEPT ![a] = NULL]
  /\ UNCHANGED <<queue, players>> /\ Rest

(* Mutant: a timeout does not close the socket. *)
NoBrowserKeepsSocket ==
  /\ AcceptorGoes("game", "request", "keys")
  /\ cur["game"] \in alive
  /\ UNCHANGED <<shared, cur, queue, players>> /\ Rest

(* GameD takes a client that sends nothing for a player; but then it has   *)
(* gone, or Recv has closed its socket after the timeout.                  *)
NoBrowser ==
  /\ AcceptorGoes("game", "request", "keys")
  /\ cur["game"] \in alive
  /\ open' = open \ {cur["game"]}
  /\ UNCHANGED <<list, alive, lost, cur, queue, players>> /\ Rest

ExchangeKeys ==
  /\ AcceptorGoes("game", "keys", "packets")
  /\ cur["game"] \in alive \cap open
  /\ UNCHANGED <<shared, cur, queue, players>> /\ Rest

(* A short answer: the connexion is deleted, and used again at once. *)
AbortKeys ==
  /\ AcceptorGoes("game", "keys", "aborted")
  /\ cur["game"] \in alive
  /\ Delete(cur["game"])
  /\ UNCHANGED <<cur, queue, players>> /\ Rest

(* GameD receives two packets, and forgets the connexion. *)
ReceivePackets ==
  /\ AcceptorGoes("game", "packets", "test")
  /\ cur["game"] \in alive
  /\ players' = players \cup {cur["game"]}
  /\ cur' = [cur EXCEPT !["game"] = NULL]
  /\ UNCHANGED <<shared, queue>> /\ Rest

---------------------------------------------------------------------------
(* An HTTP worker: it takes a connexion, and HTTP_Work deletes it. *)

Take(w) ==
  /\ serving[w] = NULL
  /\ \E o \in queue : /\ serving' = [serving EXCEPT ![w] = o]
                      /\ queue' = queue \ {o}
  /\ UNCHANGED <<shared, apc, cur, players, mpc, target>>

HTTP_Work(w) ==
  /\ serving[w] \in alive
  /\ Delete(serving[w])
  /\ serving' = [serving EXCEPT ![w] = NULL]
  /\ UNCHANGED <<apc, cur, queue, players, mpc, target>>

---------------------------------------------------------------------------
(* connexions_cleanup, called by network::stop. *)

Others == UNCHANGED <<apc, cur, queue, serving, players>>

Stop ==
  /\ mpc = "run" /\ mpc' = "test"
  /\ UNCHANGED <<shared, target>> /\ Others

CleanupTest ==
  /\ mpc = "test" /\ mpc' = IF list.first = NULL THEN "done" ELSE "close"
  /\ target' = list.first
  /\ UNCHANGED shared /\ Others

CleanupClose ==
  /\ mpc = "close" /\ mpc' = "delete"
  /\ target \in alive
  /\ open' = open \ {target}
  /\ UNCHANGED <<list, alive, lost, target>> /\ Others

CleanupDelete ==
  /\ mpc = "delete" /\ mpc' = "test"
  /\ target \in alive
  /\ Delete(target)
  /\ UNCHANGED target /\ Others

---------------------------------------------------------------------------
(* The use of a deleted connexion ends the process: by its owner; by the   *)
(* constructor, behind a deleted connexions_last; by the destructor,       *)
(* between deleted neighbours.  The writes of these two need not end it:   *)
(* the steps above go on without them.                                     *)
Holding == {"request", "keys", "packets"}

OwnerUsesDeleted ==
  \/ \E a \in Acceptors :
       /\ \/ apc[a] = "test" /\ a \notin alive
          \/ apc[a] \in Holding /\ cur[a] \notin alive
          \/ apc[a] = "aborted"
       /\ crash' = apc[a]
  \/ (\E w \in Workers : serving[w] \notin alive \cup {NULL}) /\ crash' = "work"
  \/ mpc \in {"close", "delete"} /\ target \notin alive /\ crash' = mpc

Constructing == \/ mpc \in Listeners /\ (mpc = "httpd" => ~samePort)
                \/ \E a \in Acceptors : apc[a] = "new"
Deleting(o)  == \/ \E a \in Acceptors : cur[a] = o /\ (\/ apc[a] = "request" /\ ~threaded
                                                     \/ apc[a] = "keys")
                \/ \E w \in Workers : serving[w] = o
                \/ mpc \in {"unstarted", "delete"} /\ target = o

Crash ==
  /\ \/ OwnerUsesDeleted
     \/ Constructing /\ LastIsDeleted /\ crash' = "insert"
     \/ (\E o \in alive : Deleting(o) /\ NeighbourDeleted(o)) /\ crash' = "unlink"
  /\ UNCHANGED <<shared, apc, cur, queue, serving, players, mpc, target>>

AcceptorStep(a) == LoopTest(a) \/ Accept(a) \/ NewConnexion(a) \/ HandOver(a)
                   \/ ServeInline(a)
GameStep        == NoBrowser \/ ExchangeKeys \/ AbortKeys \/ ReceivePackets
WorkerStep(w)   == Take(w) \/ HTTP_Work(w)
CleanupStep     == CleanupTest \/ CleanupClose \/ CleanupDelete

Next ==
  /\ crash = "none" /\ UNCHANGED settings
  /\ \/ /\ \/ \E a \in Acceptors : AcceptorStep(a)
           \/ GameStep
           \/ \E w \in Workers : WorkerStep(w)
           \/ Listen \/ ThreadFails \/ DoNotListen \/ Stop \/ CleanupStep
        /\ UNCHANGED crash
     \/ Crash

Spec == Init /\ [][Next]_vars

---------------------------------------------------------------------------
Running == mpc \in Listeners \cup {"unstarted", "run"}

(* The objects reached from connexions in at most n steps. *)
Chain == LET c[n \in 0..Cardinality(Objects)] ==
               IF n = 0 THEN {list.first} \ {NULL}
               ELSE c[n - 1] \cup ({list.next[o] : o \in c[n - 1]} \ {NULL})
         IN  c[Cardinality(Objects)]

(* Until an object is put behind a deleted one, which connexions_last      *)
(* allows, the list holds exactly the connexions that exist, and its two   *)
(* directions agree.                                                       *)
ListIsExact ==
  ~lost => /\ Chain = alive
           /\ \A o \in alive : LET n == list.next[o]
                               IN  n # NULL => n \in alive /\ list.prev[n] = o
           /\ list.first # NULL => list.prev[list.first] = NULL

(* While the server runs a client's connexion has one owner: the acceptor  *)
(* that made it, the queue, one worker, or the game.                       *)
Owners(o) == {a \in Acceptors : cur[a] = o /\ apc[a] \in Holding}
             \cup {w \in Workers : serving[w] = o}
             \cup {x \in {"queue"} : o \in queue} \cup {x \in {"players"} : o \in players}
OneOwner == Running => \A o \in alive \cap Conns : Cardinality(Owners(o)) = 1

(* While the server runs a deleted connexion is used in three places:      *)
(* GameD goes on with the one whose key exchange it has given up           *)
(* (connexion.cpp:298); the constructor of the next one writes through a   *)
(* connexions_last that the destructor left behind (connexion.cpp:67); and *)
(* once it has, an object that stands behind a deleted one is taken out    *)
(* (connexion.cpp:92-97).  Workers, queue, players and acceptors use none. *)
OnlyAbortAndListCrash ==
  Running /\ crash # "none" =>
    crash \in {"aborted", "insert"} \/ (crash = "unlink" /\ lost)

(* On a port shared with the HTTP listener no game client ever becomes a   *)
(* player: by the time GameD takes it for one its socket is of no use.     *)
SharedPortTakesNoPlayer == samePort => players = {}
=============================================================================
