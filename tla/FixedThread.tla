---------------------------- MODULE FixedThread ----------------------------
(***************************************************************************)
(* A pool of worker threads: the registry Fixed_thread_W_t (a mutex and a  *)
(* doubly linked list of worker nodes, Fixed_Thread.cpp) and the part of   *)
(* thread_list (thread.cpp) that starts, wakes, stops and joins a worker.  *)
(*                                                                         *)
(* A worker registers itself (Fixed_thread_Add), runs a loop that takes    *)
(* the pool's mutex, looks for work and sleeps when there is none, and     *)
(* removes itself when it is told to stop (Fixed_thread_Del).  A caller    *)
(* hands work over under the same mutex and then walks the list WITHOUT    *)
(* it, signalling every worker (Fixed_thread_Signal).  The main thread     *)
(* shuts the pool down (Fixed_thread_Cleanup).  What the work is belongs   *)
(* to the module that extends this one.                                    *)
(*                                                                         *)
(* One step is one access to shared memory that another thread can tell    *)
(* apart.  A thread that is about to touch freed memory or a null pointer  *)
(* crashes the process, and nothing happens afterwards.                    *)
(***************************************************************************)
EXTENDS Naturals

CONSTANTS Workers,  \* the worker threads; also the names of their list nodes
          Callers,  \* the threads that hand work to the pool
          Main,     \* the main thread
          NULL      \* the null pointer

ASSUME NullAssumption == NULL \notin Workers
ASSUME ThreadsAssumption ==
  /\ Workers \cap Callers = {}
  /\ Main \notin Workers \cup Callers

VARIABLES
  init,      \* Fixed_thread_W_t::init
  mtx,       \* Fixed_thread_W_t::mtx, which records no owner
  head,      \* Fixed_thread_W_t::threads[0]
  tail,      \* Fixed_thread_W_t::threads[1]
  next,      \* Fixed_thread_t::next of every node
  prev,      \* Fixed_thread_t::prev of every node
  freed,     \* the workers whose node and thread_list are deleted
  run,       \* thread_list::run of every worker
  onClose,   \* the pool's cleanup is on Fixed_thread_Close_list
  wpc,       \* where every worker is
  seen,      \* threads[0] as a worker read it inside Fixed_thread_Add
  cpc,       \* where every caller is
  cursor,    \* thread_l of Fixed_thread_Signal, for every caller
  mpc,       \* where the main thread is
  joining,   \* the worker the main thread is joining
  crash      \* "none", or the place of the invalid access

(* History variables: no guard reads them. *)
VARIABLES
  broken,    \* the mutex was reinitialised while held, or torn down
  ticket,    \* the order in which the workers were linked
  clock,     \* the next ticket
  missed     \* the signals a worker could not receive: not yet asleep

list  == <<head, tail, next, prev, seen, ticket, clock>>
mutex == <<init, mtx, onClose, broken>>
vars  == <<init, mtx, head, tail, next, prev, freed, run, onClose, wpc, seen,
           cpc, cursor, mpc, joining, crash, broken, ticket, clock, missed>>

---------------------------------------------------------------------------
WorkerPC == {"check_init", "set_init", "init_mutex", "close_add", "add_lock", "add_test",
             "add_link", "loop", "q_lock", "q_in", "q_pop", "pre_wait",
             "asleep", "work", "del_lock", "del_unlink", "del_free", "exit"}
CallerPC == {"idle", "a_lock", "a_in", "a_walk", "w_signal", "w_next"}
MainPC   == {"run", "c_lock", "c_test", "c_pick", "j_run", "j_signal", "j_id",
             "j_wait", "c_destroy", "done"}

(* Where a worker is from the moment it is linked until it unlinks itself. *)
LinkedPC == {"loop", "q_lock", "q_in", "q_pop", "pre_wait", "asleep", "work",
             "del_lock", "del_unlink"}
Linked   == {w \in Workers : wpc[w] \in LinkedPC}

(* A node as create_Fixed_thread_t makes it. *)
NoLinks == [w \in Workers |-> NULL]

Init ==
  /\ init = FALSE
  /\ mtx = "free"                  \* static storage: a zeroed mutex is usable
  /\ head = NULL /\ tail = NULL
  /\ next = NoLinks /\ prev = NoLinks
  /\ freed = {}
  /\ run = [w \in Workers |-> TRUE]
  /\ onClose = FALSE
  /\ wpc = [w \in Workers |-> "check_init"]
  /\ seen = [w \in Workers |-> NULL]
  /\ cpc = [c \in Callers |-> "idle"]
  /\ cursor = [c \in Callers |-> NULL]
  /\ mpc = "run"
  /\ joining = NULL
  /\ crash = "none"
  /\ broken = FALSE
  /\ ticket = [w \in Workers |-> 0]
  /\ clock = 1
  /\ missed = [w \in Workers |-> {}]

---------------------------------------------------------------------------
(* The mutex.  Locking a destroyed one fails, and the code ignores that.   *)

Lock   == mtx # "held" /\ mtx' = IF mtx = "free" THEN "held" ELSE mtx
Unlock == mtx' = IF mtx = "held" THEN "free" ELSE mtx

(* A node, or the thread_list it points to, can be used. *)
Valid(n) == n # NULL /\ n \notin freed

WorkerGoes(w, from, to) == wpc[w] = from /\ wpc' = [wpc EXCEPT ![w] = to]
CallerGoes(c, from, to) == cpc[c] = from /\ cpc' = [cpc EXCEPT ![c] = to]
MainGoes(from, to)      == mpc = from /\ mpc' = to

---------------------------------------------------------------------------
(* Fixed_thread_Add: the first worker to come initialises the mutex, but   *)
(* the test, the assignment and the initialisation are three steps.        *)

CheckInit(w) ==
  /\ WorkerGoes(w, "check_init", IF init THEN "add_lock" ELSE "set_init")
  /\ UNCHANGED <<mutex, list, freed, run, cpc, cursor, mpc, joining, missed>>

SetInit(w) ==
  /\ WorkerGoes(w, "set_init", "init_mutex")
  /\ init' = TRUE
  /\ UNCHANGED <<mtx, onClose, broken, list, freed, run, cpc, cursor, mpc,
                 joining, missed>>

InitMutex(w) ==
  /\ WorkerGoes(w, "init_mutex", "close_add")
  /\ mtx' = "free"
  /\ broken' = (broken \/ mtx = "held")
  /\ UNCHANGED <<init, onClose, list, freed, run, cpc, cursor, mpc, joining, missed>>

(* Fixed_thread_Close_Add; Fixed_thread_Close holds its mutex all along.   *)
(* Its initialisation at first use (Fixed_Thread.cpp:24-27) can be done    *)
(* twice as well, and two workers then change the vector at once; what     *)
(* becomes of the vector is not followed.  Only what is said of the        *)
(* shutdown needs it whole.                                                *)
CloseAdd(w) ==
  /\ WorkerGoes(w, "close_add", "add_lock")
  /\ mpc \in {"run", "done"}
  /\ onClose' = TRUE
  /\ UNCHANGED <<init, mtx, broken, list, freed, run, cpc, cursor, mpc, joining,
                 missed>>

(* Mutant: Fixed_thread_Add links its node without taking the mutex. *)
AddWithoutLock(w) ==
  /\ WorkerGoes(w, "add_lock", "add_test")
  /\ UNCHANGED <<mutex, list, freed, run, cpc, cursor, mpc, joining, missed>>

AddLock(w) ==
  /\ WorkerGoes(w, "add_lock", "add_test")
  /\ Lock
  /\ UNCHANGED <<init, onClose, broken, list, freed, run, cpc, cursor, mpc,
                 joining, missed>>

AddTest(w) ==
  /\ WorkerGoes(w, "add_test", "add_link")
  /\ seen' = [seen EXCEPT ![w] = head]
  /\ UNCHANGED <<mutex, head, tail, next, prev, ticket, clock, freed, run,
                 cpc, cursor, mpc, joining, missed>>

(* The node goes to the end of the list, and the mutex is released. *)
AddLink(w) ==
  /\ WorkerGoes(w, "add_link", "loop")
  /\ \/ /\ seen[w] = NULL
        /\ head' = w
        /\ UNCHANGED <<next, prev>>
     \/ /\ seen[w] # NULL /\ Valid(tail)
        /\ next' = [next EXCEPT ![tail] = w]
        /\ prev' = [prev EXCEPT ![w] = tail]
        /\ UNCHANGED head
  /\ tail' = w
  /\ Unlock
  /\ ticket' = [ticket EXCEPT ![w] = clock]
  /\ clock' = clock + 1
  /\ UNCHANGED <<init, onClose, broken, seen, freed, run, cpc, cursor, mpc,
                 joining, missed>>

---------------------------------------------------------------------------
(* The worker's loop.  Between the release of the mutex and the wait on    *)
(* the condition variable a signal is lost: nothing records it.            *)

(* Mutant: a worker that stops does not call Fixed_thread_Del. *)
LoopTestNoDel(w) ==
  /\ WorkerGoes(w, "loop", IF run[w] THEN "q_lock" ELSE "del_free")
  /\ missed' = [missed EXCEPT ![w] = {}]
  /\ UNCHANGED <<mutex, list, freed, run, cpc, cursor, mpc, joining>>

LoopTest(w) ==
  /\ WorkerGoes(w, "loop", IF run[w] THEN "q_lock" ELSE "del_lock")
  /\ missed' = [missed EXCEPT ![w] = {}]
  /\ UNCHANGED <<mutex, list, freed, run, cpc, cursor, mpc, joining>>

QLock(w) ==
  /\ WorkerGoes(w, "q_lock", "q_in")
  /\ Lock
  /\ UNCHANGED <<init, onClose, broken, list, freed, run, cpc, cursor, mpc,
                 joining, missed>>

(* There is work: it is read from the queue, and then removed from it. *)
QFront(w) ==
  /\ WorkerGoes(w, "q_in", "q_pop")
  /\ UNCHANGED <<mutex, list, freed, run, cpc, cursor, mpc, joining, missed>>

QLeave(w, from, to) ==
  /\ WorkerGoes(w, from, to)
  /\ Unlock
  /\ UNCHANGED <<init, onClose, broken, list, freed, run, cpc, cursor, mpc,
                 joining, missed>>

QEmpty(w) == QLeave(w, "q_in", "pre_wait")
QTake(w)  == QLeave(w, "q_pop", "work")

WorkDone(w) ==
  /\ WorkerGoes(w, "work", "loop")
  /\ UNCHANGED <<mutex, list, freed, run, cpc, cursor, mpc, joining, missed>>

Sleep(w) ==
  /\ WorkerGoes(w, "pre_wait", "asleep")
  /\ UNCHANGED <<mutex, list, freed, run, cpc, cursor, mpc, joining, missed>>

(* POSIX lets a condition variable wake its waiter for no reason. *)
SpuriousWake(w) ==
  /\ WorkerGoes(w, "asleep", "loop")
  /\ UNCHANGED <<mutex, list, freed, run, cpc, cursor, mpc, joining, missed>>

(* thread_list::signal: it wakes a worker that sleeps and no other.  A     *)
(* worker in window is about to sleep all the same, and misses it.         *)
SignalWorker(w, why, window) ==
  /\ wpc' = [wpc EXCEPT ![w] = IF @ = "asleep" THEN "loop" ELSE @]
  /\ missed' = [missed EXCEPT ![w] = IF wpc[w] \in window THEN @ \cup {why}
                                                          ELSE @]

---------------------------------------------------------------------------
(* Fixed_thread_Del, and the end of the worker's thread. *)

DelLock(w) ==
  /\ WorkerGoes(w, "del_lock", "del_unlink")
  /\ Lock
  /\ UNCHANGED <<init, onClose, broken, list, freed, run, cpc, cursor, mpc,
                 joining, missed>>

(* Mutant: removing the last node leaves the end of the list on it, as     *)
(* ~thread_list does with thread_L_last.                                   *)
DelKeepTail(w) ==
  /\ WorkerGoes(w, "del_unlink", "del_free")
  /\ prev[w] \notin freed /\ next[w] \notin freed
  /\ next' = IF prev[w] # NULL THEN [next EXCEPT ![prev[w]] = next[w]] ELSE next
  /\ head' = IF prev[w] # NULL THEN head ELSE next[w]
  /\ prev' = IF next[w] # NULL THEN [prev EXCEPT ![next[w]] = prev[w]] ELSE prev
  /\ Unlock
  /\ UNCHANGED <<init, onClose, broken, tail, seen, ticket, clock, freed, run,
                 cpc, cursor, mpc, joining, missed>>

DelUnlink(w) ==
  /\ WorkerGoes(w, "del_unlink", "del_free")
  /\ prev[w] \notin freed /\ next[w] \notin freed
  /\ next' = IF prev[w] # NULL THEN [next EXCEPT ![prev[w]] = next[w]] ELSE next
  /\ head' = IF prev[w] # NULL THEN head ELSE next[w]
  /\ prev' = IF next[w] # NULL THEN [prev EXCEPT ![next[w]] = prev[w]] ELSE prev
  /\ tail' = IF next[w] # NULL THEN tail ELSE prev[w]
  /\ Unlock
  /\ UNCHANGED <<init, onClose, broken, seen, ticket, clock, freed, run, cpc,
                 cursor, mpc, joining, missed>>

DelFree(w) ==
  /\ WorkerGoes(w, "del_free", "exit")
  /\ freed' = freed \cup {w}
  /\ UNCHANGED <<mutex, list, run, cpc, cursor, mpc, joining, missed>>

---------------------------------------------------------------------------
(* A caller: lock, hand the work over, unlock, then Fixed_thread_Signal.   *)

Arrive(c) ==
  /\ CallerGoes(c, "idle", "a_lock")
  /\ UNCHANGED <<mutex, list, freed, run, wpc, cursor, mpc, joining, missed>>

CallerLock(c) ==
  /\ CallerGoes(c, "a_lock", "a_in")
  /\ Lock
  /\ UNCHANGED <<init, onClose, broken, list, freed, run, wpc, cursor, mpc,
                 joining, missed>>

Push(c) ==
  /\ CallerGoes(c, "a_in", "a_walk")
  /\ Unlock
  /\ UNCHANGED <<init, onClose, broken, list, freed, run, wpc, cursor, mpc,
                 joining, missed>>

WalkTo(c, from, n) ==
  /\ CallerGoes(c, from, IF n = NULL THEN "idle" ELSE "w_signal")
  /\ cursor' = [cursor EXCEPT ![c] = n]
  /\ UNCHANGED <<mutex, list, freed, run, wpc, mpc, joining, missed>>

(* Mutant: only the first worker is signalled. *)
WalkFirstOnly(c) == Valid(cursor[c]) /\ WalkTo(c, "w_next", NULL)

WalkStart(c)  == WalkTo(c, "a_walk", head)
WalkNext(c)   == Valid(cursor[c]) /\ WalkTo(c, "w_next", next[cursor[c]])

(* Mutant: the walk passes the workers without waking them. *)
WalkSilent(c) ==
  /\ CallerGoes(c, "w_signal", "w_next")
  /\ Valid(cursor[c])
  /\ UNCHANGED <<mutex, list, freed, run, wpc, cursor, mpc, joining, missed>>

WalkSignal(c) ==
  /\ CallerGoes(c, "w_signal", "w_next")
  /\ Valid(cursor[c])
  /\ SignalWorker(cursor[c], "add", {"pre_wait"})
  /\ UNCHANGED <<mutex, list, freed, run, cursor, mpc, joining>>

---------------------------------------------------------------------------
(* Fixed_thread_Cleanup, called from Fixed_thread_Close, and the           *)
(* thread_list::join of each worker.                                       *)

CleanupStart ==
  /\ MainGoes("run", IF onClose /\ init THEN "c_lock" ELSE "done")
  /\ UNCHANGED <<mutex, list, freed, run, wpc, cpc, cursor, joining, missed>>

CleanupLock ==
  /\ MainGoes("c_lock", "c_test")
  /\ Lock
  /\ UNCHANGED <<init, onClose, broken, list, freed, run, wpc, cpc, cursor,
                 joining, missed>>

CleanupTest ==
  /\ MainGoes("c_test", IF head # NULL THEN "c_pick" ELSE "c_destroy")
  /\ Unlock
  /\ UNCHANGED <<init, onClose, broken, list, freed, run, wpc, cpc, cursor,
                 joining, missed>>

(* threads[0] is read again after the mutex is released. *)
CleanupPick ==
  /\ MainGoes("c_pick", "j_run")
  /\ Valid(head)
  /\ joining' = head
  /\ UNCHANGED <<mutex, list, freed, run, wpc, cpc, cursor, missed>>

JoinStop ==
  /\ MainGoes("j_run", "j_signal")
  /\ Valid(joining)
  /\ run' = [run EXCEPT ![joining] = FALSE]
  /\ UNCHANGED <<mutex, list, freed, wpc, cpc, cursor, joining, missed>>

(* Mutant: join does not wake the worker. *)
JoinSilent ==
  /\ MainGoes("j_signal", "j_id")
  /\ Valid(joining)
  /\ UNCHANGED <<mutex, list, freed, run, wpc, cpc, cursor, joining, missed>>

JoinSignal ==
  /\ MainGoes("j_signal", "j_id")
  /\ Valid(joining)
  /\ SignalWorker(joining, "stop", {"q_lock", "q_in", "pre_wait"})
  /\ UNCHANGED <<mutex, list, freed, run, cpc, cursor, joining>>

(* pthread_join(id, NULL): id is a field of the thread_list. *)
JoinReadId ==
  /\ MainGoes("j_id", "j_wait")
  /\ Valid(joining)
  /\ UNCHANGED <<mutex, list, freed, run, wpc, cpc, cursor, joining, missed>>

JoinDone ==
  /\ MainGoes("j_wait", "c_lock")
  /\ wpc[joining] = "exit"
  /\ UNCHANGED <<mutex, list, freed, run, wpc, cpc, cursor, joining, missed>>

(* glibc refuses to destroy a mutex that is held; init is cleared anyway. *)
CleanupDestroy ==
  /\ MainGoes("c_destroy", "done")
  /\ mtx' = IF mtx = "held" THEN mtx ELSE "destroyed"
  /\ init' = FALSE
  /\ onClose' = FALSE              \* popped from Fixed_thread_Close_list
  /\ broken' = TRUE
  /\ UNCHANGED <<list, freed, run, wpc, cpc, cursor, joining, missed>>

---------------------------------------------------------------------------
(* An access to freed memory or through a null pointer. *)

WorkerFaults(w) ==
  \/ wpc[w] = "add_link" /\ seen[w] # NULL /\ ~Valid(tail)
  \/ wpc[w] = "del_unlink" /\ {prev[w], next[w]} \cap freed # {}
CallerFaults(c) == cpc[c] \in {"w_signal", "w_next"} /\ ~Valid(cursor[c])
MainFaults ==
  \/ mpc = "c_pick" /\ ~Valid(head)
  \/ mpc \in {"j_run", "j_signal", "j_id"} /\ ~Valid(joining)

Crash ==
  /\ \/ \E w \in Workers : WorkerFaults(w) /\ crash' = wpc[w]
     \/ \E c \in Callers : CallerFaults(c) /\ crash' = cpc[c]
     \/ MainFaults /\ crash' = mpc
  /\ UNCHANGED <<mutex, list, freed, run, wpc, cpc, cursor, mpc, joining, missed>>

---------------------------------------------------------------------------
Register(w)   == CheckInit(w) \/ SetInit(w) \/ InitMutex(w) \/ CloseAdd(w)
                 \/ AddLock(w) \/ AddTest(w) \/ AddLink(w)
Unregister(w) == DelLock(w) \/ DelUnlink(w) \/ DelFree(w)
Serve(w)      == LoopTest(w) \/ QLock(w) \/ QEmpty(w) \/ QFront(w) \/ QTake(w)
                 \/ WorkDone(w) \/ Sleep(w) \/ SpuriousWake(w)
Walk(c)       == WalkStart(c) \/ WalkSignal(c) \/ WalkNext(c)
Cleanup       == CleanupStart \/ CleanupLock \/ CleanupTest \/ CleanupPick
                 \/ JoinStop \/ JoinSignal \/ JoinReadId \/ JoinDone
                 \/ CleanupDestroy

Next ==
  /\ crash = "none"
  /\ \/ /\ \/ \E w \in Workers : Register(w) \/ Serve(w) \/ Unregister(w)
           \/ \E c \in Callers : Arrive(c) \/ CallerLock(c) \/ Push(c) \/ Walk(c)
           \/ Cleanup
        /\ UNCHANGED crash
     \/ Crash

Spec == Init /\ [][Next]_vars

---------------------------------------------------------------------------
(* Every variable has its type. *)
TypeOK ==
  /\ init \in BOOLEAN /\ onClose \in BOOLEAN /\ broken \in BOOLEAN
  /\ mtx \in {"free", "held", "destroyed"}
  /\ head \in Workers \cup {NULL} /\ tail \in Workers \cup {NULL}
  /\ next \in [Workers -> Workers \cup {NULL}]
  /\ prev \in [Workers -> Workers \cup {NULL}]
  /\ seen \in [Workers -> Workers \cup {NULL}]
  /\ freed \in SUBSET Workers
  /\ run \in [Workers -> BOOLEAN]
  /\ wpc \in [Workers -> WorkerPC]
  /\ cpc \in [Callers -> CallerPC]
  /\ cursor \in [Callers -> Workers \cup {NULL}]
  /\ mpc \in MainPC
  /\ joining \in Workers \cup {NULL}
  /\ crash \in {"none"} \cup WorkerPC \cup CallerPC \cup MainPC
  /\ ticket \in [Workers -> Nat] /\ clock \in Nat
  /\ missed \in [Workers -> SUBSET {"add", "stop"}]

(* The threads between a lock and the unlock that ends its section. *)
Inside == {w \in Workers : wpc[w] \in {"add_test", "add_link", "q_in", "q_pop",
                                  "del_unlink"}}
          \cup {c \in Callers : cpc[c] = "a_in"}
          \cup (IF mpc = "c_test" THEN {Main} ELSE {})

(* Two threads are never inside the pool's critical section at once, as    *)
(* long as no late Fixed_thread_Add has reinitialised the mutex while      *)
(* another thread held it: the unsynchronised test of init is the only     *)
(* hole in the locking of Fixed_Thread.cpp and HttpD.cpp.                  *)
MutualExclusion == ~broken => \A t, u \in Inside : t = u

(* The node n is the one that was linked next after u. *)
Follows(u, n) ==
  IF n = NULL
  THEN \A v \in Linked : ticket[v] <= ticket[u]
  ELSE /\ n \in Linked /\ ticket[u] < ticket[n]
       /\ \A v \in Linked : ticket[v] <= ticket[u] \/ ticket[n] <= ticket[v]

(* The registry lists exactly the workers between Fixed_thread_Add and     *)
(* Fixed_thread_Del, in both directions, in the order they registered, its *)
(* two ends included: whatever interleaving of registrations and of        *)
(* removals from the middle or the ends, none is lost and none dangles.    *)
RegistryInOrder ==
  ~broken =>
    /\ head = NULL => Linked = {}
    /\ head # NULL => head \in Linked /\ \A v \in Linked : ticket[head] <= ticket[v]
    /\ tail = NULL => Linked = {}
    /\ tail # NULL => tail \in Linked /\ \A v \in Linked : ticket[v] <= ticket[tail]
    /\ \A u \in Linked : Follows(u, next[u])
    /\ \A u \in Linked :
         IF prev[u] = NULL THEN u = head
                           ELSE prev[u] \in Linked /\ next[prev[u]] = u

(* While the server runs no thread touches a deleted node, and during      *)
(* shutdown only two can: a caller still walking the list in               *)
(* Fixed_thread_Signal, and thread_list::join itself, which uses the       *)
(* thread_list after telling its owner to delete it.  (join never starts   *)
(* on a deleted worker, and unlinking never meets one.)                    *)
FaultsOnlyInShutdown ==
  ~broken /\ crash # "none" =>
    mpc # "run" /\ crash \in {"w_signal", "w_next", "j_signal", "j_id"}

(* pthread_join waits for a worker that sleeps only if the wake-up that    *)
(* thread_list::join sent was lost between the worker's test of run and    *)
(* its wait: that window is the only way shutdown can hang on a worker.    *)
HangsOnlyOnLostStop ==
  mpc = "j_wait" /\ wpc[joining] = "asleep" => "stop" \in missed[joining]
=============================================================================
