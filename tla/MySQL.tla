------------------------------- MODULE MySQL -------------------------------
(***************************************************************************)
(* The database workers (MySQL.cpp) and the queries they serve (SQL_QUEUE, *)
(* DB.cpp).  A client of the database allocates a job, hands it over with  *)
(* MySQL_Add and, unless the query is a slow one, sleeps on the job until  *)
(* a worker has answered it.  Fast workers serve both queues and are       *)
(* registered in both pools; slow workers serve the slow queue, but look   *)
(* at the fast one as well, without its mutex.                             *)
(*                                                                         *)
(* The two registries are those of FixedThread, taken here as sequences:   *)
(* adding and removing an entry is one step, as is every section of the    *)
(* slow mutex, inside which no other shared state changes.  That, and all  *)
(* that rests on a mutex, ends when one is initialised again while it is   *)
(* held (broken).                                                          *)
(***************************************************************************)
EXTENDS Naturals, Sequences, FiniteSets

CONSTANTS Fast,     \* the fast workers
          Slow,     \* the slow workers
          Clients,  \* the threads that make queries
          Jobs,     \* the addresses a job can have; they are used again
          Kinds,    \* the kinds of query the clients make
          NULL

ASSUME KindsAssumption == Kinds \subseteq {"stored", "rows", "slow"}
ASSUME WorkersAssumption ==
  Fast \cap Slow = {} /\ NULL \notin Fast \cup Slow \cup Jobs

Workers == Fast \cup Slow
Pools   == {"fast", "slow"}

VARIABLES
  fastMtx,   \* MySQL_Fast_thread.mtx: the worker that holds it, or NULL
  init,      \* Fixed_thread_W_t::init of each pool
  reg,       \* the registered workers of each pool, in order
  cleared,   \* the fast workers whose slow entry has thread == NULL
  onClose,   \* MySQL_Cleanup is on Fixed_thread_Close_list
  queue,     \* MySQL_Fast_queue and MySQL_Slow_queue
  wpc,       \* where every worker is
  run,       \* thread_list::run
  got,       \* SQL_Comm of MySQL_Thread
  res,       \* what the worker's last query came to
  rows,      \* the job whose unbuffered result is open on the connection
  jobs,      \* the jobs allocated and not deleted
  kind,      \* what each job asks for
  answer,    \* SQL_QUEUE::result
  cpc,       \* where every client is
  mine,      \* the job a client makes or waits for
  at,        \* the pool a client's Fixed_thread_Signal walks
  cursor,    \* the entry it has come to
  mpc,       \* where the main thread is
  closing,   \* the pool MySQL_Cleanup is stopping
  joining,   \* the worker it joins
  crash      \* "none", or the invalid access that ended the process

(* History variables: no guard reads them. *)
VARIABLES
  missed,    \* the signals a worker could not receive
  unheard,   \* the clients whose job was signalled before they slept
  dropped,   \* the jobs a worker forgot for another one
  early,     \* a client woke before its job was signalled
  raced,     \* two workers were removing from the fast queue at once
  broken     \* a mutex of the pools was initialised again while held

work    == <<queue, got, res, rows, jobs, kind, answer, dropped, early, raced>>
pool    == <<init, reg, cleared, onClose, broken>>
client  == <<cpc, mine, at, cursor, unheard>>
main    == <<mpc, closing, joining>>
vars    == <<fastMtx, init, reg, cleared, onClose, queue, wpc, run, got, res, rows,
             jobs, kind, answer, cpc, mine, at, cursor, mpc, closing, joining,
             crash, missed, unheard, dropped, early, raced, broken>>

WorkerPC == {"unstarted", "connect", "check_init", "set_init", "init_mutex", "close",
             "link", "clear", "loop", "lock", "look", "front", "pop", "take", "work",
             "answer", "signal", "pre_wait", "asleep", "del", "del_null", "exit"}
ClientPC == {"idle", "add", "walk", "signal", "next", "pre_wait", "asleep", "woke"}
MainPC   == {"run", "test", "stop", "wake", "wait", "done"}

(* Workers start only when a login is configured, as many of them as the  *)
(* settings say; the start of a thread can fail.                           *)
Init ==
  /\ fastMtx = NULL
  /\ init = [p \in Pools |-> FALSE]
  /\ reg = [p \in Pools |-> <<>>]
  /\ cleared = {} /\ onClose = FALSE
  /\ queue = [p \in Pools |-> <<>>]
  /\ \E started \in SUBSET Workers :
       wpc = [w \in Workers |-> IF w \in started THEN "connect" ELSE "unstarted"]
  /\ run = [w \in Workers |-> TRUE]
  /\ got = [w \in Workers |-> NULL]
  /\ res = [w \in Workers |-> "none"]
  /\ rows = [w \in Workers |-> NULL]
  /\ jobs = {}
  /\ kind = [j \in Jobs |-> "stored"]
  /\ answer = [j \in Jobs |-> "none"]
  /\ cpc = [c \in Clients |-> "idle"]
  /\ mine = [c \in Clients |-> NULL]
  /\ at = [c \in Clients |-> "fast"]
  /\ cursor = [c \in Clients |-> NULL]
  /\ mpc = "run" /\ closing = "fast" /\ joining = NULL
  /\ crash = "none"
  /\ missed = [w \in Workers |-> {}]
  /\ unheard = {} /\ dropped = {}
  /\ early = FALSE /\ raced = FALSE /\ broken = FALSE

---------------------------------------------------------------------------
InSeq(s, x)      == \E i \in DOMAIN s : s[i] = x
Without(s, x)    == SelectSeq(s, LAMBDA y : y # x)
FirstOf(s)       == IF s = <<>> THEN NULL ELSE Head(s)
NextIn(s, x)     == LET i == CHOOSE k \in DOMAIN s : s[k] = x
                    IN  IF i < Len(s) THEN s[i + 1] ELSE NULL

WorkerGoes(w, from, to) == wpc[w] = from /\ wpc' = [wpc EXCEPT ![w] = to]
ClientGoes(c, from, to) == cpc[c] = from /\ cpc' = [cpc EXCEPT ![c] = to]

IsFast(j)   == kind[j] # "slow"
PoolOf(j)   == IF IsFast(j) THEN "fast" ELSE "slow"
Deleted(w)  == wpc[w] \in {"del_null", "exit"}      \* its thread_list is

(* The pool MySQL_Thread adds its worker to next: a fast worker joins the  *)
(* slow pool first.                                                        *)
Target(w) == IF w \in cleared THEN "fast" ELSE "slow"

(* thread_list::signal; a worker in window is about to sleep and misses it *)
SignalWorker(w, why, window) ==
  /\ wpc' = [wpc EXCEPT ![w] = IF @ = "asleep" THEN "loop" ELSE @]
  /\ missed' = [missed EXCEPT ![w] = IF wpc[w] \in window THEN @ \cup {why} ELSE @]

---------------------------------------------------------------------------
(* A worker connects and registers.  A worker that cannot connect ends.    *)

MySQL_Init(w) ==
  /\ \/ WorkerGoes(w, "connect", "check_init")
     \/ WorkerGoes(w, "connect", "exit")
  /\ UNCHANGED <<fastMtx, pool, work, run, client, main, missed>>

(* Fixed_thread_Add: the first entry of a pool initialises its mutex, but  *)
(* the test, the assignment and the initialisation are three steps ...     *)
CheckInit(w) ==
  /\ WorkerGoes(w, "check_init", IF init[Target(w)] THEN "link" ELSE "set_init")
  /\ UNCHANGED <<pool, fastMtx, work, run, client, main, missed>>

SetInit(w) ==
  /\ WorkerGoes(w, "set_init", "init_mutex")
  /\ init' = [init EXCEPT ![Target(w)] = TRUE]
  /\ UNCHANGED <<reg, cleared, onClose, broken, fastMtx, work, run, client, main, missed>>

(* Somebody holds the fast mutex, or can be inside a section of either     *)
(* mutex that is one step here.                                            *)
Holds(p)   == p = "fast" /\ fastMtx # NULL
MayHold(p) ==
  \/ Holds(p) \/ reg[p] # <<>>
  \/ \E v \in Workers : wpc[v] = "link" /\ Target(v) = p
  \/ \E c \in Clients : cpc[c] = "add" /\ PoolOf(mine[c]) = p

InitMutex(w) ==
  /\ WorkerGoes(w, "init_mutex", "close")
  /\ fastMtx' = IF Target(w) = "fast" THEN NULL ELSE fastMtx
  /\ \/ ~Holds(Target(w)) /\ UNCHANGED broken
     \/ MayHold(Target(w)) /\ broken' = TRUE
  /\ UNCHANGED <<init, reg, cleared, onClose, work, run, client, main, missed>>

(* ... and has its cleanup called, which waits while cleanups are running. *)
(* As in FixedThread, the second initialisation of the mutex of            *)
(* Fixed_thread_Close_list (Fixed_Thread.cpp:24-27) is not followed.       *)
CloseAdd(w) ==
  /\ WorkerGoes(w, "close", "link")
  /\ mpc \in {"run", "done"}
  /\ onClose' = TRUE
  /\ UNCHANGED <<init, reg, cleared, broken, fastMtx, work, run, client, main, missed>>

Link(w) ==
  /\ WorkerGoes(w, "link", IF w \in Fast \ cleared THEN "clear" ELSE "loop")
  /\ Target(w) = "fast" => fastMtx = NULL
  /\ reg' = [reg EXCEPT ![Target(w)] = Append(@, w)]
  /\ UNCHANGED <<init, cleared, onClose, broken, fastMtx, work, run, client, main, missed>>

(* MySQL_thread_l2->thread = NULL *)
ClearThread(w) ==
  /\ WorkerGoes(w, "clear", "check_init")
  /\ cleared' = cleared \cup {w}
  /\ UNCHANGED <<init, reg, onClose, broken, fastMtx, work, run, client, main, missed>>

---------------------------------------------------------------------------
(* The worker's loop. *)

LoopTest(w) ==
  /\ WorkerGoes(w, "loop", IF ~run[w] THEN "del" ELSE IF w \in Fast THEN "lock" ELSE "look")
  /\ missed' = [missed EXCEPT ![w] = {}]
  /\ UNCHANGED <<fastMtx, pool, work, run, client, main>>

LockFast(w) ==
  /\ WorkerGoes(w, "lock", "look")
  /\ fastMtx = NULL /\ fastMtx' = w
  /\ UNCHANGED <<pool, work, run, client, main, missed>>

NothingToDo(w) == queue["slow"] = <<>> /\ (w \in Fast => queue["fast"] = <<>>)

LeaveFastQueue(w) == fastMtx' = IF w \in Fast THEN NULL ELSE fastMtx

(* Mutant: the fast mutex is released with the slow one, before the fast   *)
(* queue is used.                                                          *)
LookAndRelease(w) ==
  /\ WorkerGoes(w, "look", IF NothingToDo(w) THEN "pre_wait" ELSE "front")
  /\ LeaveFastQueue(w)
  /\ UNCHANGED <<pool, work, run, client, main, missed>>

(* With the slow mutex, and the fast one if the worker is fast. *)
Look(w) ==
  /\ \/ NothingToDo(w) /\ WorkerGoes(w, "look", "pre_wait")
        /\ LeaveFastQueue(w)
     \/ ~NothingToDo(w) /\ WorkerGoes(w, "look", "front") /\ UNCHANGED fastMtx
  /\ UNCHANGED <<pool, work, run, client, main, missed>>

ReadFront(w) ==
  /\ \/ /\ queue["fast"] = <<>> /\ WorkerGoes(w, "front", "take")
        /\ LeaveFastQueue(w) /\ UNCHANGED got
     \/ /\ queue["fast"] # <<>> /\ WorkerGoes(w, "front", "pop")
        /\ got' = [got EXCEPT ![w] = Head(queue["fast"])] /\ UNCHANGED fastMtx
  /\ raced' = (raced \/ (queue["fast"] # <<>> /\ \E v \in Workers : wpc[v] = "pop"))
  /\ UNCHANGED <<pool, queue, res, rows, jobs, kind, answer, dropped, early, run, client,
                 main, missed>>

Pop(w) ==
  /\ WorkerGoes(w, "pop", "take")
  /\ queue["fast"] # <<>>
  /\ queue' = [queue EXCEPT !["fast"] = Tail(@)]
  /\ LeaveFastQueue(w)
  /\ UNCHANGED <<pool, got, res, rows, jobs, kind, answer, dropped, early, raced, run,
                 client, main, missed>>

(* Mutant: the job that was removed is forgotten. *)
TakeNothing(w) ==
  /\ WorkerGoes(w, "take", "loop")
  /\ UNCHANGED <<fastMtx, pool, work, run, client, main, missed>>

(* A slow job replaces the fast one the worker has already removed. *)
TakeSlow(w) ==
  /\ \/ /\ queue["slow"] = <<>>
        /\ WorkerGoes(w, "take", IF got[w] = NULL THEN "loop" ELSE "work")
        /\ UNCHANGED <<queue, got, dropped>>
     \/ /\ queue["slow"] # <<>>
        /\ WorkerGoes(w, "take", "work")
        /\ got' = [got EXCEPT ![w] = Head(queue["slow"])]
        /\ queue' = [queue EXCEPT !["slow"] = Tail(@)]
        /\ dropped' = dropped \cup ({got[w]} \ {NULL})
  /\ UNCHANGED <<fastMtx, pool, res, rows, jobs, kind, answer, early, raced, run, client,
                 main, missed>>

---------------------------------------------------------------------------
(* MySQL_Work: a connection whose last result is still open refuses the    *)
(* query, and the code takes the missing result for an answer.             *)
MySQL_Work(w) ==
  /\ WorkerGoes(w, "work", "answer")
  /\ got[w] \in jobs
  /\ res' = [res EXCEPT ![w] = IF rows[w] = NULL THEN "ran" ELSE "refused"]
  /\ rows' = IF rows[w] = NULL /\ kind[got[w]] = "rows"
             THEN [rows EXCEPT ![w] = got[w]] ELSE rows
  /\ UNCHANGED <<fastMtx, pool, queue, got, jobs, kind, answer, dropped, early, raced,
                 run, client, main, missed>>

(* Mutant: the client is signalled before the result is written. *)
SignalFirst(w) ==
  /\ WorkerGoes(w, "answer", "signal")
  /\ got[w] \in jobs
  /\ UNCHANGED <<fastMtx, pool, work, run, client, main, missed>>

WriteResult(w) ==
  /\ WorkerGoes(w, "answer", "signal")
  /\ got[w] \in jobs
  /\ answer' = [answer EXCEPT ![got[w]] = res[w]]
  /\ UNCHANGED <<fastMtx, pool, queue, got, res, rows, jobs, kind, dropped, early, raced,
                 run, client, main, missed>>

(* SQL_QUEUE::signal: the client of a job that is not asleep misses it.    *)
(* The worker is done with the job (SQL_Comm = NULL).                      *)
SignalClient(w) ==
  /\ WorkerGoes(w, "signal", "loop")
  /\ got[w] \in jobs /\ IsFast(got[w])
  /\ cpc' = [c \in Clients |-> IF mine[c] = got[w] /\ cpc[c] = "asleep"
                               THEN "woke" ELSE cpc[c]]
  /\ unheard' = unheard \cup {c \in Clients : mine[c] = got[w] /\ cpc[c] # "asleep"}
  /\ got' = [got EXCEPT ![w] = NULL]
  /\ res' = [res EXCEPT ![w] = "none"]
  /\ UNCHANGED <<fastMtx, pool, queue, rows, jobs, kind, answer, dropped, early, raced,
                 run, mine, at, cursor, main, missed>>

Sleep(w) ==
  /\ WorkerGoes(w, "pre_wait", "asleep")
  /\ UNCHANGED <<fastMtx, pool, work, run, client, main, missed>>

SpuriousWake(w) ==
  /\ WorkerGoes(w, "asleep", "loop")
  /\ UNCHANGED <<fastMtx, pool, work, run, client, main, missed>>

---------------------------------------------------------------------------
(* The end of a worker: Fixed_thread_Del for each of its entries.  The     *)
(* first one deletes its thread_list.                                      *)
Home(w) == IF w \in Fast THEN "fast" ELSE "slow"

Del(w) ==
  /\ WorkerGoes(w, "del", IF w \in Fast THEN "del_null" ELSE "exit")
  /\ w \in Fast => fastMtx = NULL
  /\ reg' = [reg EXCEPT ![Home(w)] = Without(@, w)]
  /\ UNCHANGED <<init, cleared, onClose, broken, fastMtx, work, run, client, main, missed>>

DelNull(w) ==
  /\ WorkerGoes(w, "del_null", "exit")
  /\ reg' = [reg EXCEPT !["slow"] = Without(@, w)]
  /\ UNCHANGED <<init, cleared, onClose, broken, fastMtx, work, run, client, main, missed>>

---------------------------------------------------------------------------
(* A client.  Query_Fast and the other queries that wait for an answer     *)
(* differ in whether the result is stored or read row by row.              *)

NewJob(j, k) ==
  /\ jobs' = jobs \cup {j}
  /\ kind' = [kind EXCEPT ![j] = k]

Query(c) ==
  /\ ClientGoes(c, "idle", "add")
  /\ \E j \in Jobs \ jobs, k \in Kinds : NewJob(j, k) /\ mine' = [mine EXCEPT ![c] = j]
  /\ UNCHANGED <<fastMtx, pool, queue, got, res, rows, answer, dropped, early, raced, wpc,
                 run, at, cursor, unheard, main, missed>>

MySQL_Add(c) ==
  /\ ClientGoes(c, "add", "walk")
  /\ LET j == mine[c] IN
       /\ IsFast(j) => fastMtx = NULL
       /\ queue' = [queue EXCEPT ![PoolOf(j)] = Append(@, j)]
       /\ at' = [at EXCEPT ![c] = PoolOf(j)]
       /\ mine' = IF IsFast(j) THEN mine ELSE [mine EXCEPT ![c] = NULL]
  /\ UNCHANGED <<fastMtx, pool, got, res, rows, jobs, kind, answer, dropped, early, raced,
                 wpc, run, cursor, unheard, main, missed>>

(* Mutant: the client does not wait for its answer. *)
WalkToEnd(c, from, n) ==
  /\ cursor' = [cursor EXCEPT ![c] = n]
  /\ \/ n # NULL /\ ClientGoes(c, from, "signal")
     \/ n = NULL /\ ClientGoes(c, from, IF mine[c] = NULL THEN "idle" ELSE "woke")
  /\ UNCHANGED <<fastMtx, pool, work, wpc, run, mine, at, unheard, main, missed>>

(* Fixed_thread_Signal goes on to the entry n, or ends; after the slow     *)
(* pool the fast one is signalled too.                                     *)
WalkTo(c, from, n) ==
  /\ cursor' = [cursor EXCEPT ![c] = n]
  /\ \/ n # NULL /\ ClientGoes(c, from, "signal") /\ UNCHANGED at
     \/ n = NULL /\ at[c] = "slow" /\ ClientGoes(c, from, "walk")
        /\ at' = [at EXCEPT ![c] = "fast"]
     \/ n = NULL /\ at[c] = "fast" /\ UNCHANGED at
        /\ ClientGoes(c, from, IF mine[c] = NULL THEN "idle" ELSE "pre_wait")
  /\ UNCHANGED <<fastMtx, pool, work, wpc, run, mine, unheard, main, missed>>

Present(c) == InSeq(reg[at[c]], cursor[c])
NoThread(c) == at[c] = "slow" /\ cursor[c] \in cleared

WalkStart(c) == WalkTo(c, "walk", FirstOf(reg[at[c]]))
WalkNext(c)  == Present(c) /\ WalkTo(c, "next", NextIn(reg[at[c]], cursor[c]))

(* Mutant: the walk passes the workers without waking them. *)
WalkSilent(c) ==
  /\ ClientGoes(c, "signal", "next")
  /\ Present(c) /\ ~NoThread(c)
  /\ UNCHANGED <<fastMtx, pool, work, wpc, run, mine, at, cursor, unheard, main, missed>>

WalkSignal(c) ==
  /\ ClientGoes(c, "signal", "next")
  /\ Present(c) /\ ~NoThread(c)
  /\ SignalWorker(cursor[c], "add", {"pre_wait"})
  /\ UNCHANGED <<fastMtx, pool, work, run, mine, at, cursor, unheard, main>>

ClientSleep(c) ==
  /\ ClientGoes(c, "pre_wait", "asleep")
  /\ UNCHANGED <<fastMtx, pool, work, wpc, run, mine, at, cursor, unheard, main, missed>>

ClientSpuriousWake(c) ==
  /\ ClientGoes(c, "asleep", "woke")
  /\ early' = (early \/ c \notin unheard)
  /\ UNCHANGED <<fastMtx, pool, queue, got, res, rows, jobs, kind, answer, dropped, raced,
                 wpc, run, mine, at, cursor, unheard, main, missed>>

(* The fields of a deleted job mean nothing. *)
DeleteJob(j) ==
  /\ jobs' = jobs \ {j}
  /\ kind' = [kind EXCEPT ![j] = "stored"]
  /\ answer' = [answer EXCEPT ![j] = "none"]
  /\ dropped' = dropped \ {j}

(* Mutant: the client leaves its rows open. *)
ReturnKeepingRows(c) ==
  /\ ClientGoes(c, "woke", "idle")
  /\ DeleteJob(mine[c])
  /\ mine' = [mine EXCEPT ![c] = NULL]
  /\ unheard' = unheard \ {c}
  /\ UNCHANGED <<fastMtx, pool, queue, got, res, rows, early, raced, wpc, run, at, cursor,
                 main, missed>>

(* Result_Clear, if there is a result. *)
CloseRows(c) ==
  rows' = [w \in Workers |-> IF answer[mine[c]] = "ran" /\ rows[w] = mine[c]
                             THEN NULL ELSE rows[w]]

(* The client uses the result, closes its rows and deletes the job. *)
Return(c) ==
  /\ ClientGoes(c, "woke", "idle")
  /\ CloseRows(c)
  /\ DeleteJob(mine[c])
  /\ mine' = [mine EXCEPT ![c] = NULL]
  /\ unheard' = unheard \ {c}
  /\ UNCHANGED <<fastMtx, pool, queue, got, res, early, raced, wpc, run, at, cursor, main,
                 missed>>

---------------------------------------------------------------------------
(* The main thread: Fixed_thread_Close calls MySQL_Cleanup. *)

Close ==
  /\ mpc = "run"
  /\ mpc' = IF onClose THEN "test" ELSE "done"
  /\ UNCHANGED <<fastMtx, pool, work, wpc, run, client, closing, joining, missed>>

(* Fixed_thread_Cleanup picks the first worker to join ... *)
CleanupPick ==
  /\ mpc = "test" /\ mpc' = "stop"
  /\ init[closing] /\ reg[closing] # <<>>
  /\ closing = "fast" => fastMtx = NULL
  /\ joining' = Head(reg[closing])
  /\ UNCHANGED <<fastMtx, pool, work, wpc, run, client, closing, missed>>

(* ... and ends when there is none; then MySQL_Cleanup empties the queue.  *)
CleanupEnd ==
  /\ mpc = "test"
  /\ ~init[closing] \/ reg[closing] = <<>>
  /\ init' = [init EXCEPT ![closing] = FALSE]
  /\ queue' = [queue EXCEPT ![closing] = <<>>]
  /\ IF closing = "fast"
     THEN closing' = "slow" /\ UNCHANGED <<mpc, onClose>>
     ELSE mpc' = "done" /\ onClose' = FALSE /\ UNCHANGED closing
  /\ UNCHANGED <<fastMtx, reg, cleared, broken, got, res, rows, jobs, kind, answer, dropped, early,
                 raced, wpc, run, client, joining, missed>>

JoinNull == closing = "slow" /\ joining \in cleared

JoinStop ==
  /\ mpc = "stop" /\ mpc' = "wake"
  /\ ~JoinNull
  /\ run' = [run EXCEPT ![joining] = FALSE]
  /\ UNCHANGED <<fastMtx, pool, work, wpc, client, closing, joining, missed>>

(* Mutant: join does not wake the worker. *)
JoinSilent ==
  /\ mpc = "wake" /\ mpc' = "wait"
  /\ ~Deleted(joining)
  /\ UNCHANGED <<fastMtx, pool, work, wpc, run, client, closing, joining, missed>>

JoinSignal ==
  /\ mpc = "wake" /\ mpc' = "wait"
  /\ ~Deleted(joining)
  /\ SignalWorker(joining, "stop", {"lock", "look", "pre_wait"})
  /\ UNCHANGED <<fastMtx, pool, work, run, client, closing, joining>>

JoinDone ==
  /\ mpc = "wait" /\ mpc' = "test"
  /\ wpc[joining] = "exit"
  /\ joining' = NULL
  /\ UNCHANGED <<fastMtx, pool, work, wpc, run, client, closing, missed>>

---------------------------------------------------------------------------
(* Uses of deleted, null or empty objects.  MySQL_Work has freed the text  *)
(* of a slow query, and the destructor of the job frees it again.          *)

WorkerFault(w) ==
  \/ wpc[w] = "pop" /\ queue["fast"] = <<>> /\ crash' = "pop_empty"
  \/ wpc[w] \in {"work", "answer", "signal"} /\ got[w] \notin jobs /\ crash' = "use_deleted"
  \/ wpc[w] = "signal" /\ got[w] \in jobs /\ ~IsFast(got[w]) /\ crash' = "double_free"
ClientFault(c) ==
  \/ cpc[c] \in {"signal", "next"} /\ ~Present(c) /\ crash' = "walk_gone"
  \/ cpc[c] = "signal" /\ Present(c) /\ NoThread(c) /\ crash' = "walk_null"
MainFault ==
  \/ mpc = "stop" /\ JoinNull /\ crash' = "join_null"
  \/ mpc = "wake" /\ Deleted(joining) /\ crash' = "join_gone"

Crash ==
  /\ (\E w \in Workers : WorkerFault(w)) \/ (\E c \in Clients : ClientFault(c)) \/ MainFault
  /\ UNCHANGED <<fastMtx, pool, work, wpc, run, client, main, missed>>

Register(w)   == MySQL_Init(w) \/ CheckInit(w) \/ SetInit(w) \/ InitMutex(w) \/ CloseAdd(w)
                 \/ Link(w) \/ ClearThread(w)
Serve(w)      == Look(w) \/ ReadFront(w) \/ Pop(w) \/ TakeSlow(w) \/ MySQL_Work(w)
                 \/ WriteResult(w) \/ SignalClient(w)
Unregister(w) == Del(w) \/ DelNull(w)
Walk(c)       == WalkStart(c) \/ WalkSignal(c) \/ WalkNext(c)
Cleanup       == Close \/ CleanupPick \/ CleanupEnd \/ JoinStop \/ JoinSignal \/ JoinDone

Next ==
  /\ crash = "none"
  /\ \/ /\ \/ \E w \in Workers : Register(w) \/ LoopTest(w) \/ LockFast(w) \/ Serve(w)
                                 \/ Sleep(w) \/ SpuriousWake(w) \/ Unregister(w)
           \/ \E c \in Clients : Query(c) \/ MySQL_Add(c) \/ Walk(c) \/ ClientSleep(c)
                                 \/ ClientSpuriousWake(c) \/ Return(c)
           \/ Cleanup
        /\ UNCHANGED crash
     \/ Crash

Spec == Init /\ [][Next]_vars

(* Threads run, a mutex that is released again and again is granted, and   *)
(* the database answers.                                                   *)
Step(A) == crash = "none" /\ A /\ UNCHANGED crash
Fairness ==
  /\ \A w \in Workers :
       /\ WF_vars(Step(Register(w) \/ LoopTest(w) \/ Serve(w) \/ Sleep(w)))
       /\ SF_vars(Step(LockFast(w) \/ Link(w) \/ Unregister(w)))
  /\ \A c \in Clients :
       /\ WF_vars(Step(Walk(c) \/ ClientSleep(c) \/ Return(c)))
       /\ SF_vars(Step(MySQL_Add(c)))
  /\ SF_vars(Step(CleanupPick))
  /\ WF_vars(Step(CleanupEnd \/ JoinStop \/ JoinSignal \/ JoinDone))
  /\ WF_vars(crash = "none" /\ Crash)

(* As long as no client woke early, no two workers removed a job from the  *)
(* fast queue at once, and no mutex broke, the protocol of the jobs is     *)
(* intact; the queue can grow without bound otherwise.                     *)
Orderly  == ~early /\ ~raced /\ ~broken
FairSpec == Init /\ [][Next /\ Orderly']_vars /\ Fairness

---------------------------------------------------------------------------
(* Every variable has its type. *)
TypeOK ==
  /\ fastMtx \in Fast \cup {NULL}
  /\ init \in [Pools -> BOOLEAN]
  /\ \A p \in Pools : \A i \in DOMAIN reg[p] : reg[p][i] \in Workers
  /\ cleared \subseteq Fast /\ onClose \in BOOLEAN
  /\ \A p \in Pools : \A i \in DOMAIN queue[p] : queue[p][i] \in Jobs
  /\ wpc \in [Workers -> WorkerPC] /\ run \in [Workers -> BOOLEAN]
  /\ got \in [Workers -> Jobs \cup {NULL}]
  /\ res \in [Workers -> {"none", "ran", "refused"}]
  /\ rows \in [Workers -> Jobs \cup {NULL}]
  /\ jobs \subseteq Jobs
  /\ kind \in [Jobs -> Kinds \cup {"stored"}]
  /\ answer \in [Jobs -> {"none", "ran", "refused"}]
  /\ cpc \in [Clients -> ClientPC] /\ mine \in [Clients -> Jobs \cup {NULL}]
  /\ at \in [Clients -> Pools] /\ cursor \in [Clients -> Workers \cup {NULL}]
  /\ mpc \in MainPC /\ closing \in Pools /\ joining \in Workers \cup {NULL}
  /\ missed \in [Workers -> SUBSET {"add", "stop"}]
  /\ unheard \subseteq Clients /\ dropped \subseteq Jobs
  /\ early \in BOOLEAN /\ raced \in BOOLEAN /\ broken \in BOOLEAN

Held(w) == IF wpc[w] \in {"take", "work", "answer", "signal"} THEN got[w] ELSE NULL
Told(c) == c \in unheard \/ cpc[c] = "woke"

(* Until shutdown every query that has a client is in exactly one place:   *)
(* with its client, at one place of its queue, with one worker, answered,  *)
(* or dropped by a worker that found a slow job as well.                   *)
QueryHasOnePlace ==
  Orderly /\ mpc = "run" =>
    \A c \in Clients : mine[c] # NULL =>
      LET places == {<<"queue", i>> : i \in {k \in DOMAIN queue["fast"] :
                                             queue["fast"][k] = mine[c]}}
                    \cup {<<"worker", w>> : w \in {v \in Workers : Held(v) = mine[c]}}
                    \cup (IF cpc[c] = "add" THEN {<<"client", c>>} ELSE {})
                    \cup (IF Told(c) THEN {<<"told", c>>} ELSE {})
                    \cup (IF mine[c] \in dropped THEN {<<"dropped", c>>} ELSE {})
      IN  Cardinality(places) = 1

(* A client that is told finds its query answered; and unless some queries *)
(* are read row by row, the answer is that the database ran it.            *)
AnswerIsReal ==
  Orderly => \A c \in Clients : cpc[c] = "woke" =>
    answer[mine[c]] \in {"ran"} \cup (IF "rows" \in Kinds THEN {"refused"} ELSE {})

(* A connection is refused to other queries only while the client whose    *)
(* rows are open on it is still there to close them.                       *)
RowsHaveReader ==
  Orderly => \A w \in Workers : rows[w] # NULL =>
    /\ \E c \in Clients : mine[c] = rows[w]
    /\ \A v \in Workers : rows[v] = rows[w] => v = w

(* A fast worker holds the mutex of the fast queue from its look at the    *)
(* queue to its removal, until the mutex is initialised again under it by  *)
(* a worker that registers at the same time: two fast workers are never    *)
(* there together.  Two workers remove from it at once only if there is a  *)
(* slow worker, which goes there without the mutex, or one broke.          *)
FastQueueIsSafe ==
  /\ ~broken =>
       \A w \in Fast : crash = "none" /\ wpc[w] \in {"look", "front", "pop"} => fastMtx = w
  /\ raced => broken \/ \E w \in Slow : wpc[w] # "unstarted"

(* While the server runs and the jobs are orderly, only a slow query can   *)
(* end the process: its client signals an entry without a thread, or its   *)
(* text is freed twice.                                                    *)
OnlySlowQueriesCrash ==
  Orderly /\ mpc = "run" /\ crash # "none" =>
    "slow" \in Kinds /\ crash \in {"walk_null", "double_free"}

(* While the server runs every fast query returns, unless its client or a  *)
(* worker slept through a signal, or no worker could connect.              *)
FastQueriesReturn ==
  \A c \in Clients :
    mine[c] # NULL ~>
      \/ mine[c] = NULL \/ c \in unheard \/ reg["fast"] = <<>> \/ mpc # "run"
      \/ \E w \in Fast : wpc[w] = "asleep" /\ "add" \in missed[w]

(* MySQL_Cleanup ends, unless it crashes, a worker missed its wake-up, or  *)
(* it joins a worker that waits for the cleanups to end before it can      *)
(* register in its second pool.                                            *)
CleanupEnds ==
  mpc # "run" ~>
    \/ mpc = "done" \/ crash # "none"
    \/ mpc = "wait" /\ ("stop" \in missed[joining] \/ wpc[joining] = "close")

(* MySQL.cpp:126: an entry without a thread is never joined, because the   *)
(* worker's entry in the fast pool was joined before.                      *)
NullEntryIsNotJoined == crash # "join_null"
=============================================================================
