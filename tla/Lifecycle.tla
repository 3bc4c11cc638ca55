----------------------------- MODULE Lifecycle -----------------------------
(***************************************************************************)
(* The server from its settings to its end (main.cpp, DB_internal.cpp,     *)
(* network.cpp): which threads the main thread makes, what it waits for    *)
(* before it ends, and the list of thread_list objects (thread.cpp) that   *)
(* it deletes last.                                                        *)
(*                                                                         *)
(* Threads are numbered as they are made.  A thread_list has an address,   *)
(* which is used again once it is deleted.  What the threads do while they *)
(* serve is left out (HttpD, MySQL, Connexions); a worker that is joined   *)
(* ends (but see HangsOnlyOnLostStop of FixedThread).                      *)
(***************************************************************************)
EXTENDS Settings, FiniteSets

CONSTANTS Addresses,  \* where thread_list objects can be
          NULL

ASSUME AddressesAssumption == NULL \notin Addresses /\ IsFiniteSet(Addresses)

VARIABLES
  mpc,      \* where the main thread is
  step,     \* where it is in thread_list::start, with the last thread
  left,     \* the workers its loop has still to make, the listeners it has made
  sigint,   \* SIGINT came: main_run is false
  sharun,   \* Sharun is not deleted
  open,     \* the listening sockets that are open
  kind,     \* what each thread is: "fast", "slow", "http", "game", "httpd"
  addr,     \* its thread_list
  tpc,      \* where it is
  list,     \* thread_L, thread_L_last, and next and prev of every object
  alive,    \* the thread_list objects constructed and not deleted
  target,   \* the worker main joins, the object it deletes
  crash     \* "none", or the invalid access that ended the process

(* History variables: no guard reads them. *)
VARIABLES
  failed,   \* database workers that deleted themselves
  lost,     \* an object was put behind a deleted one
  strayed,  \* start() wrote into a deleted thread_list
  behind    \* the threads that were not joined when thread_L_cleanup began

heap    == <<list, alive, lost>>
threads == <<kind, addr, tpc>>
history == <<failed, strayed, behind>>
vars    == <<settingsVars, mpc, step, left, sigint, sharun, open, threads, heap, target, crash,
             history>>

Threads == 1..Len(kind)
Pool(t) == IF kind[t] \in {"fast", "slow"} THEN "db" ELSE kind[t]

Init ==
  /\ SettingsInit
  /\ mpc = "settings" /\ step = "none" /\ left = 0 /\ sigint = FALSE /\ sharun = TRUE
  /\ open = {} /\ kind = <<>> /\ addr = <<>> /\ tpc = <<>>
  /\ list = [first |-> NULL, last |-> NULL,
             next |-> [o \in Addresses |-> NULL], prev |-> [o \in Addresses |-> NULL]]
  /\ alive = {} /\ target = NULL /\ crash = "none"
  /\ failed = {} /\ lost = FALSE /\ strayed = FALSE /\ behind = {}

---------------------------------------------------------------------------
(* The list.  The destructor leaves thread_L_last alone.  If the process   *)
(* outlives a write into a deleted object (see Crash), the write is lost,  *)
(* or reaches the object that has the address.                             *)

Write(field, o, v) == IF o \in alive' \cup alive THEN [field EXCEPT ![o] = v] ELSE field

Inserted(l, o) ==
  IF l.first = NULL
  THEN [l EXCEPT !.first = o, !.last = o]
  ELSE [l EXCEPT !.last = o,
                 !.next = Write(@, l.last, o),
                 !.prev = [@ EXCEPT ![o] = l.last]]

Unlinked(l, o) ==
  LET n == l.next[o]
      p == l.prev[o]
  IN  [l EXCEPT !.first = IF p = NULL THEN n ELSE @,
                !.next  = [Write(@, p, n) EXCEPT ![o] = NULL],
                !.prev  = [Write(@, n, p) EXCEPT ![o] = NULL]]

(* What the constructor, and the destructor of o, would write to is        *)
(* deleted.                                                                *)
LastIsDeleted       == list.first # NULL /\ list.last \notin alive
NeighbourDeleted(o) == ~({list.next[o], list.prev[o]} \subseteq alive \cup {NULL})

(* A new object has an address that was used before, or the first new one. *)
Used == {addr[t] : t \in Threads}
Fresh(o) == o \notin alive /\ (o \in Used \/ \A p \in Addresses \ Used : o <= p)

(* The constructor of thread_list; its thread is of this kind. *)
New(k) ==
  \E o \in Addresses :
    /\ Fresh(o)
    /\ alive' = alive \cup {o}
    /\ list' = Inserted(list, o)
    /\ lost' = (lost \/ LastIsDeleted)
    /\ kind' = Append(kind, k) /\ addr' = Append(addr, o) /\ tpc' = Append(tpc, "made")

(* Mutant: the destructor forgets the successor's back pointer. *)
DeleteOneWay(o) ==
  /\ alive' = alive \ {o}
  /\ list' = [Unlinked(list, o) EXCEPT !.prev = list.prev]
  /\ UNCHANGED lost

(* The destructor of thread_list. *)
Delete(o) ==
  /\ alive' = alive \ {o}
  /\ list' = Unlinked(list, o)
  /\ UNCHANGED lost

---------------------------------------------------------------------------
(* main, up to its loop: settings, opcodes, the database's workers, the    *)
(* listeners, the HTTP workers.                                            *)

MainGoes(from, to) == mpc = from /\ step = "none" /\ mpc' = to /\ UNCHANGED step
Quiet    == UNCHANGED <<settingsVars, sigint, sharun, target, history>>
NoThread == UNCHANGED <<threads, heap, step>>

ReadSettings ==
  /\ mpc = "settings"
  /\ \/ ReadLine /\ UNCHANGED mpc
     \/ CloseFile /\ mpc' = "opcodes"
  /\ UNCHANGED <<step, left, open, threads, heap, sigint, sharun, target, history>>

(* Without opcodes the server ends at once. *)
LoadOpCodes ==
  /\ MainGoes("opcodes", "database") \/ MainGoes("opcodes", "stop")
  /\ UNCHANGED <<left, open, threads, heap>> /\ Quiet

is_MySQL_threaded == set["Thread.DataBase.Fast"] > 0

(* Mutant: the loop over the fast workers ends one too early. *)
DatabaseWorkersShort(k) ==
  IF ~is_MySQL_threaded \/ set["DataBase.Login"] = 0 THEN 0
  ELSE IF k = "fast" THEN set["Thread.DataBase.Fast"] - 1 ELSE set["Thread.DataBase.Slow"]

(* The workers of a kind that are started. *)
DatabaseWorkers(k) ==
  IF ~is_MySQL_threaded \/ set["DataBase.Login"] = 0 THEN 0
  ELSE IF k = "fast" THEN set["Thread.DataBase.Fast"] ELSE set["Thread.DataBase.Slow"]

HttpWorkers(count) ==
  IF count > 0 /\ set["Thread.Httpd"] > 1 THEN set["Thread.Httpd"] ELSE 0

After == [database |-> "fast", fast |-> "slow", slow |-> "game", game |-> "httpd",
          httpd |-> "bridge", bridge |-> "http", http |-> "input"]

(* What the next loop begins with, after this one and count listeners. *)
Begin(count) ==
  CASE mpc = "database" -> DatabaseWorkers("fast")
    [] mpc = "fast"     -> DatabaseWorkers("slow")
    [] mpc = "bridge"   -> HttpWorkers(count)
    [] mpc \in {"game", "httpd"} -> count
    [] OTHER -> 0

(* A loop of database::start or network::start: one worker more, ... *)
MakeWorker ==
  /\ mpc \in {"fast", "slow", "http"} /\ step = "none" /\ left > 0
  /\ left' = left - 1 /\ New(mpc) /\ step' = "create"
  /\ UNCHANGED <<mpc, open>> /\ Quiet

(* ... or on with what comes after. *)
EndLoop ==
  /\ mpc \in {"database", "fast", "slow", "http"} /\ MainGoes(mpc, After[mpc])
  /\ mpc # "database" => left = 0
  /\ left' = Begin(0)
  /\ UNCHANGED <<open, threads, heap>> /\ Quiet

Port(l) == CASE l = "game"   -> set["Net.Ports.Game"]
             [] l = "bridge" -> set["Net.Ports.Bridge"]
             [] l = "httpd"  -> IF set["Net.Ports.Httpd"] = set["Net.Ports.Game"] THEN 0
                                ELSE set["Net.Ports.Httpd"]

(* A listener.  There may be no socket, or its port not be free.  The      *)
(* bridge has no thread.                                                   *)
Listen ==
  /\ mpc \in {"game", "httpd", "bridge"} /\ step = "none" /\ Port(mpc) # 0
  /\ mpc' = After[mpc] /\ left' = Begin(left + 1)
  /\ open' = open \cup {mpc}
  /\ IF mpc = "bridge" THEN NoThread ELSE New(mpc) /\ step' = "create"
  /\ Quiet

DoNotListen ==
  /\ mpc \in {"game", "httpd", "bridge"} /\ MainGoes(mpc, After[mpc])
  /\ left' = Begin(left)
  /\ UNCHANGED <<open, threads, heap>> /\ Quiet

---------------------------------------------------------------------------
(* thread_list::start: the thread runs before `detached` is written.       *)

Newest  == Len(kind)
Begins == [fast |-> "connect", slow |-> "connect", http |-> "register",
          game |-> "accept", httpd |-> "accept"]

Goes(t, to) == tpc' = [tpc EXCEPT ![t] = to]

Create ==
  /\ step = "create"
  /\ \/ step' = "detach" /\ Goes(Newest, Begins[kind[Newest]]) /\ UNCHANGED open
     \/ step' = "none" /\ Goes(Newest, "none") /\ open' = open \ {kind[Newest]}
  /\ UNCHANGED <<mpc, left, kind, addr, heap>> /\ Quiet

Detach ==
  /\ step = "detach" /\ step' = "none"
  /\ strayed' = (strayed \/ addr[Newest] \notin alive)
  /\ UNCHANGED <<settingsVars, mpc, left, sigint, sharun, open, threads, heap, target, failed,
                 behind>>

---------------------------------------------------------------------------
(* The threads.  A thread that uses its thread_list after it was deleted   *)
(* ends the process (Crash).                                               *)

MainStays == UNCHANGED <<settingsVars, mpc, step, left, sigint, sharun, open, target, strayed,
                         behind, kind, addr>>

ConnectFails(t) ==
  /\ tpc[t] = "connect" /\ addr[t] \in alive
  /\ Goes(t, "gone") /\ Delete(addr[t]) /\ failed' = failed \cup {t}
  /\ MainStays

Connect(t) ==
  /\ tpc[t] = "connect" /\ Goes(t, "register")
  /\ MainStays /\ UNCHANGED <<heap, failed>>

(* Fixed_thread_Add.  The first worker of a pool has the pool's cleanup    *)
(* called, and for that waits while Fixed_thread_Close runs.  A worker     *)
(* that comes after that is late: nobody will join it.                     *)
Ended == mpc \in {"cleanup", "unlink", "delete", "return", "done"}
Registered(t) == tpc[t] \in {"work", "told"}
Register(t) ==
  /\ tpc[t] = "register" /\ addr[t] \in alive
  /\ mpc = "close" => \E u \in Threads : Registered(u) /\ Pool(u) = Pool(t)
  /\ Goes(t, IF Ended THEN "late" ELSE "work")
  /\ MainStays /\ UNCHANGED <<heap, failed>>

(* A worker that is joined deletes its thread_list in Fixed_thread_Del. *)
Leave(t) ==
  /\ tpc[t] = "told" /\ Goes(t, "gone") /\ Delete(addr[t])
  /\ MainStays /\ UNCHANGED failed

(* An acceptor whose socket is closed, whenever it comes to see it. *)
StopAccepting(t) ==
  /\ tpc[t] = "accept" /\ kind[t] \notin open /\ addr[t] \in alive
  /\ Goes(t, "log") /\ Delete(addr[t])
  /\ MainStays /\ UNCHANGED failed

(* Its last message reads a setting. *)
Log(t) ==
  /\ tpc[t] = "log" /\ sharun /\ Goes(t, "gone")
  /\ MainStays /\ UNCHANGED <<heap, failed>>

Thread(t) == ConnectFails(t) \/ Connect(t) \/ Register(t) \/ Leave(t) \/ StopAccepting(t) \/ Log(t)

---------------------------------------------------------------------------
(* The end. *)

intHandler ==
  /\ mpc # "settings" /\ ~sigint /\ sigint' = TRUE
  /\ UNCHANGED <<settingsVars, mpc, step, left, sharun, open, threads, heap, target, history>>

(* The loop ends before it waits for a line if main_run is false, and else *)
(* at a line: SIGINT does not wake scanf.                                  *)
Input ==
  /\ MainGoes("input", "stop")
  /\ sigint' = TRUE
  /\ UNCHANGED <<left, open, threads, heap, settingsVars, sharun, target, history>>

(* delete Network: the listeners are closed. *)
StopNetwork ==
  /\ MainGoes("stop", "close") /\ open' = {}
  /\ UNCHANGED <<left, threads, heap>> /\ Quiet

(* Fixed_thread_Close: the registered workers are joined, one by one. *)
Join ==
  /\ mpc = "close" /\ target = NULL
  /\ \E t \in Threads : tpc[t] = "work" /\ Goes(t, "told") /\ target' = t
  /\ UNCHANGED <<settingsVars, mpc, step, left, sigint, sharun, open, kind, addr, heap, history>>

Joined ==
  /\ mpc = "close" /\ target # NULL /\ tpc[target] = "gone" /\ target' = NULL
  /\ UNCHANGED <<settingsVars, mpc, step, left, sigint, sharun, open, threads, heap, history>>

Running == {t \in Threads : tpc[t] \notin {"none", "gone"}}

(* Mutant: the pools whose workers came first are forgotten. *)
EndCloseEarly ==
  /\ target = NULL
  /\ \E p \in {"db", "http"} : \A t \in Threads : Pool(t) = p => ~Registered(t)
  /\ MainGoes("close", "cleanup") /\ behind' = Running
  /\ UNCHANGED <<settingsVars, left, sigint, sharun, open, threads, heap, target, failed, strayed>>

EndClose ==
  /\ target = NULL /\ \A t \in Threads : ~Registered(t)
  /\ MainGoes("close", "cleanup") /\ behind' = Running
  /\ UNCHANGED <<settingsVars, left, sigint, sharun, open, threads, heap, target, failed, strayed>>

(* thread_L_cleanup: the head of the list is read without its mutex. *)
CleanupTest ==
  /\ mpc = "cleanup" /\ mpc' = IF list.first = NULL THEN "delete" ELSE "unlink"
  /\ target' = list.first
  /\ UNCHANGED <<settingsVars, step, left, sigint, sharun, open, threads, heap, history>>

CleanupDelete ==
  /\ MainGoes("unlink", "cleanup") /\ target \in alive
  /\ Delete(target) /\ target' = NULL
  /\ UNCHANGED <<settingsVars, left, sigint, sharun, open, threads, history>>

(* delete Sharun; then main returns, and every thread ends. *)
DeleteSharun ==
  /\ MainGoes("delete", "return") /\ sharun' = FALSE
  /\ UNCHANGED <<settingsVars, left, sigint, open, threads, heap, target, history>>

Return ==
  /\ MainGoes("return", "done")
  /\ UNCHANGED <<left, open, threads, heap>> /\ Quiet

Main == ReadSettings \/ LoadOpCodes \/ MakeWorker \/ EndLoop \/ Listen \/ DoNotListen
        \/ Create \/ Detach \/ Input \/ StopNetwork \/ Join \/ Joined \/ EndClose
        \/ CleanupTest \/ CleanupDelete \/ DeleteSharun \/ Return

(* A thread_list is deleted or used after it was deleted, or Sharun is     *)
(* read; the mutex of the list is destroyed after the list is empty.       *)
UsesDeleted ==
  \/ crash' = "thread_list" /\ \E t \in Threads :
       tpc[t] \in {"connect", "register", "late", "accept"} /\ addr[t] \notin alive
  \/ crash' = "sharun" /\ ~sharun /\ \E t \in Threads : tpc[t] = "log"
  \/ crash' = "cleanup" /\ mpc = "unlink" /\ target \notin alive

(* Who is about to make a thread_list, and which may be deleted now. *)
Constructing == step = "none" /\ \/ mpc \in {"fast", "slow", "http"} /\ left > 0
                                 \/ mpc \in {"game", "httpd"} /\ Port(mpc) # 0
Deleting(o)  == \/ mpc = "unlink" /\ target = o
                \/ \E t \in Threads : /\ addr[t] = o
                                      /\ \/ tpc[t] \in {"connect", "told"}
                                         \/ tpc[t] = "accept" /\ kind[t] \notin open

(* The constructor writes behind a deleted thread_L_last, start into a     *)
(* deleted object, the destructor between deleted neighbours: these writes *)
(* may end the process, or the steps above go on without them.             *)
Crash ==
  /\ \/ UsesDeleted
     \/ Constructing /\ LastIsDeleted /\ crash' = "insert"
     \/ step = "detach" /\ addr[Newest] \notin alive /\ crash' = "detach"
     \/ (\E o \in alive : Deleting(o) /\ NeighbourDeleted(o)) /\ crash' = "unlink"
  /\ UNCHANGED <<settingsVars, mpc, step, left, sigint, sharun, open, threads, heap, target,
                 history>>

Next ==
  /\ crash = "none" /\ mpc # "done"
  /\ \/ (Main \/ intHandler \/ \E t \in Threads : Thread(t)) /\ UNCHANGED crash
     \/ Crash

Spec == Init /\ [][Next]_vars

---------------------------------------------------------------------------
(* The objects reached from thread_L in at most n steps. *)
Chain == LET c[n \in 0..Cardinality(Addresses)] ==
               IF n = 0 THEN {list.first} \ {NULL}
               ELSE c[n - 1] \cup ({list.next[o] : o \in c[n - 1]} \ {NULL})
         IN  c[Cardinality(Addresses)]

(* Unless an object is put behind a deleted one the list holds exactly the *)
(* thread_list objects that exist, both ways; and that, like a write into  *)
(* a deleted one, takes a database worker that could not connect.          *)
ThreadListIsExact ==
  /\ lost \/ strayed => failed # {}
  /\ ~lost => /\ Chain = alive
              /\ \A o \in alive : LET n == list.next[o]
                                  IN  n # NULL => n \in alive /\ list.prev[n] = o

(* Whoever makes a fast query only looks at is_MySQL_threaded, and waits.  *)
(* It has a worker once the listeners are there, unless no login is set,   *)
(* or every fast worker failed or could not be started.                    *)
QueriesHaveWorkers ==
  mpc \in {"game", "httpd", "bridge", "http", "input"} /\ is_MySQL_threaded =>
    \/ set["DataBase.Login"] = 0
    \/ \E t \in Threads : kind[t] = "fast" /\ tpc[t] \in {"made", "connect", "register", "work"}
    \/ Cardinality({t \in Threads : kind[t] = "fast" /\ tpc[t] \in {"none", "gone"}}) =
         set["Thread.DataBase.Fast"]

(* When the list of threads is cleaned up no worker that registered runs   *)
(* any more.  The server then ends with every thread_list deleted exactly  *)
(* once, unless an acceptor or a worker that had not registered is still   *)
(* there: nobody joins these.  Before that nothing uses a deleted object,  *)
(* but for three writes, which take a database worker that could not       *)
(* connect and has deleted its thread_list: of the next constructor        *)
(* (thread.cpp:41), of start (thread.cpp:79), and of a destructor after    *)
(* the first of these (thread.cpp:54-59).                                  *)
EndsClean ==
  /\ Ended => \A t \in Threads : ~Registered(t)
  /\ crash # "none" /\ behind = {} =>
       crash \in {"insert", "detach", "unlink"} /\ failed # {}
  /\ mpc = "done" /\ behind = {} /\ ~lost => alive = {}
=============================================================================
