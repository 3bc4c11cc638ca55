---------------------------- MODULE MySQLProofs ----------------------------
(***************************************************************************)
(* Proofs about the database workers and the queries they serve, for any   *)
(* number of workers, clients and jobs.                                    *)
(*                                                                         *)
(* Every job that has a client waiting is in one place, and every place    *)
(* says something of its job: the fast queue holds jobs of clients that    *)
(* wait (QueueInv), a worker has such a job or a slow one (GotInv), a      *)
(* dropped job is nowhere else (DroppedInv), an answer was written before  *)
(* its client was told (AnswerInv), and open rows belong to a client that  *)
(* will close them (RowsInv).  Together they are JobsInv, which holds as   *)
(* long as Orderly does; most steps move no job (Quiet), and each of the   *)
(* others has a lemma.  While the server runs the jobs are lost nowhere    *)
(* either (FrontInv, PlaceInv), and a walk is at an entry (WalkInv).       *)
(***************************************************************************)
EXTENDS MySQL, SequenceTheorems, FiniteSetTheorems, TLAPS

LEMMA Names ==
  NULL \notin Jobs /\ NULL \notin Workers /\ Fast \cap Slow = {} /\ Fast \subseteq Workers
BY WorkersAssumption DEF Workers

(* The types the proofs need. *)
Types ==
  /\ wpc \in [Workers -> WorkerPC] /\ got \in [Workers -> Jobs \cup {NULL}]
  /\ res \in [Workers -> {"none", "ran", "refused"}] /\ rows \in [Workers -> Jobs \cup {NULL}]
  /\ queue \in [Pools -> Seq(Jobs)]
  /\ jobs \subseteq Jobs /\ dropped \subseteq Jobs /\ unheard \subseteq Clients
  /\ kind \in [Jobs -> Kinds \cup {"stored"}]
  /\ answer \in [Jobs -> {"none", "ran", "refused"}]
  /\ cpc \in [Clients -> ClientPC] /\ mine \in [Clients -> Jobs \cup {NULL}]
  /\ at \in [Clients -> Pools] /\ closing \in Pools
  /\ \A c \in Clients : cpc[c] = "add" => mine[c] # NULL

LEMMA InitTypes == Init => Types
BY DEF Init, Types, WorkerPC, ClientPC, Pools

LEMMA TypesStep == Types /\ [Next]_vars => Types'
<1> SUFFICES ASSUME Types, [Next]_vars PROVE Types'
  OBVIOUS
<1> USE Names DEF Types, WorkerPC, ClientPC, Pools, WorkerGoes, ClientGoes, work, pool,
              client, main
<1>1. ASSUME NEW w \in Workers, MySQL_Init(w) PROVE Types'
  BY <1>1 DEF MySQL_Init
<1>2. ASSUME NEW w \in Workers, CheckInit(w) PROVE Types'
  BY <1>2 DEF CheckInit
<1>3. ASSUME NEW w \in Workers, SetInit(w) PROVE Types'
  BY <1>3 DEF SetInit
<1>4. ASSUME NEW w \in Workers, InitMutex(w) PROVE Types'
  BY <1>4 DEF InitMutex
<1>5. ASSUME NEW w \in Workers, CloseAdd(w) PROVE Types'
  BY <1>5 DEF CloseAdd
<1>6. ASSUME NEW w \in Workers, Link(w) PROVE Types'
  BY <1>6 DEF Link
<1>7. ASSUME NEW w \in Workers, ClearThread(w) PROVE Types'
  BY <1>7 DEF ClearThread
<1>8. ASSUME NEW w \in Workers, LoopTest(w) PROVE Types'
  BY <1>8 DEF LoopTest
<1>9. ASSUME NEW w \in Workers, LockFast(w) PROVE Types'
  BY <1>9 DEF LockFast
<1>10. ASSUME NEW w \in Workers, Look(w) PROVE Types'
  BY <1>10 DEF Look, LeaveFastQueue
<1>11. ASSUME NEW w \in Workers, ReadFront(w) PROVE Types'
  <2>1. queue["fast"] # <<>> => Head(queue["fast"]) \in Jobs
    OBVIOUS
  <2>2. \/ got' = got
        \/ queue["fast"] # <<>> /\ got' = [got EXCEPT ![w] = Head(queue["fast"])]
    BY <1>11, Zenon DEF ReadFront
  <2>3. got' \in [Workers -> Jobs \cup {NULL}]
    BY <2>1, <2>2
  <2>4. wpc' \in [Workers -> WorkerPC]
    BY <1>11 DEF ReadFront
  <2>5. QED
    BY <2>3, <2>4, <1>11 DEF ReadFront
<1>12. ASSUME NEW w \in Workers, Pop(w) PROVE Types'
  BY <1>12 DEF Pop, LeaveFastQueue
<1>13. ASSUME NEW w \in Workers, TakeSlow(w) PROVE Types'
  <2>1. queue["slow"] # <<>> =>
          Head(queue["slow"]) \in Jobs /\ Tail(queue["slow"]) \in Seq(Jobs)
    OBVIOUS
  <2>2. \/ queue' = queue /\ got' = got /\ dropped' = dropped
        \/ /\ queue["slow"] # <<>> /\ got' = [got EXCEPT ![w] = Head(queue["slow"])]
           /\ queue' = [queue EXCEPT !["slow"] = Tail(@)]
           /\ dropped' = dropped \cup ({got[w]} \ {NULL})
    BY <1>13, Zenon DEF TakeSlow
  <2>3. got' \in [Workers -> Jobs \cup {NULL}]
    BY <2>1, <2>2
  <2>4. queue' \in [Pools -> Seq(Jobs)]
    <3>1. CASE queue' = queue
      BY <3>1
    <3>2. CASE queue["slow"] # <<>> /\ queue' = [queue EXCEPT !["slow"] = Tail(@)]
      <4> DEFINE rest == Tail(queue["slow"])
      <4>1. rest \in Seq(Jobs) /\ queue' = [queue EXCEPT !["slow"] = rest]
        BY <2>1, <3>2
      <4> HIDE DEF rest
      <4>2. QED
        BY <4>1
    <3>3. QED
      BY <2>2, <3>1, <3>2
  <2>5. dropped' \subseteq Jobs
    BY <2>2
  <2>6. wpc' \in [Workers -> WorkerPC]
    BY <1>13 DEF TakeSlow
  <2>7. QED
    BY <2>3, <2>4, <2>5, <2>6, <1>13 DEF TakeSlow
<1>14. ASSUME NEW w \in Workers, MySQL_Work(w) PROVE Types'
  BY <1>14 DEF MySQL_Work
<1>15. ASSUME NEW w \in Workers, WriteResult(w) PROVE Types'
  BY <1>15 DEF WriteResult
<1>16. ASSUME NEW w \in Workers, SignalClient(w) PROVE Types'
  BY <1>16 DEF SignalClient
<1>17. ASSUME NEW w \in Workers, Sleep(w) PROVE Types'
  BY <1>17 DEF Sleep
<1>18. ASSUME NEW w \in Workers, SpuriousWake(w) PROVE Types'
  BY <1>18 DEF SpuriousWake
<1>19. ASSUME NEW w \in Workers, Del(w) PROVE Types'
  BY <1>19 DEF Del
<1>20. ASSUME NEW w \in Workers, DelNull(w) PROVE Types'
  BY <1>20 DEF DelNull
<1>21. ASSUME NEW c \in Clients, Query(c) PROVE Types'
  BY <1>21 DEF Query, NewJob
<1>22. ASSUME NEW c \in Clients, MySQL_Add(c) PROVE Types'
  <2>1. mine[c] \in Jobs
    BY <1>22 DEF MySQL_Add
  <2>2. \A p \in Pools : Append(queue[p], mine[c]) \in Seq(Jobs)
    BY <2>1
  <2>3. queue' \in [Pools -> Seq(Jobs)]
    BY <2>2, <1>22 DEF MySQL_Add, PoolOf
  <2>4. QED
    BY <2>3, <1>22 DEF MySQL_Add, PoolOf
<1>23. ASSUME NEW c \in Clients, WalkStart(c) PROVE Types'
  BY <1>23 DEF WalkStart, WalkTo
<1>24. ASSUME NEW c \in Clients, WalkSignal(c) PROVE Types'
  BY <1>24, ZenonT(30) DEF WalkSignal, SignalWorker
<1>25. ASSUME NEW c \in Clients, WalkNext(c) PROVE Types'
  BY <1>25 DEF WalkNext, WalkTo
<1>26. ASSUME NEW c \in Clients, ClientSleep(c) PROVE Types'
  BY <1>26 DEF ClientSleep
<1>27. ASSUME NEW c \in Clients, ClientSpuriousWake(c) PROVE Types'
  BY <1>27 DEF ClientSpuriousWake
<1>28. ASSUME NEW c \in Clients, Return(c) PROVE Types'
  BY <1>28 DEF Return, CloseRows, DeleteJob
<1>29. ASSUME Close PROVE Types'
  BY <1>29 DEF Close
<1>30. ASSUME CleanupPick PROVE Types'
  BY <1>30 DEF CleanupPick
<1>31. ASSUME CleanupEnd PROVE Types'
  BY <1>31 DEF CleanupEnd
<1>32. ASSUME JoinStop PROVE Types'
  BY <1>32 DEF JoinStop
<1>33. ASSUME JoinSignal PROVE Types'
  BY <1>33 DEF JoinSignal, SignalWorker
<1>34. ASSUME JoinDone PROVE Types'
  BY <1>34 DEF JoinDone
<1>35. ASSUME Crash PROVE Types'
  BY <1>35 DEF Crash
<1>36. CASE UNCHANGED vars
  BY <1>36 DEF vars
<1>37. QED
  BY <1>1, <1>2, <1>3, <1>4, <1>5, <1>6, <1>7, <1>8, <1>9, <1>10, <1>11, <1>12, <1>13,
     <1>14, <1>15, <1>16, <1>17, <1>18, <1>19, <1>20, <1>21, <1>22, <1>23, <1>24, <1>25,
     <1>26, <1>27, <1>28, <1>29, <1>30, <1>31, <1>32, <1>33, <1>34, <1>35, <1>36
     DEF Next, Register, Serve, Unregister, Walk, Cleanup

LEMMA TypesInvariant == Spec => []Types
BY InitTypes, TypesStep, PTL DEF Spec

---------------------------------------------------------------------------
(* A fast worker between its look at the fast queue and its removal, until *)
(* a mutex is initialised again while it is held.                          *)
LockInv ==
  ~broken => \A w \in Fast : wpc[w] \in {"look", "front", "pop"} => fastMtx = w

LEMMA LockStep == Types /\ LockInv /\ [Next]_vars => LockInv'
<1> SUFFICES ASSUME Types, LockInv, [Next]_vars PROVE LockInv'
  OBVIOUS
<1> USE Names DEF Types, LockInv, Workers, WorkerGoes, ClientGoes, work, pool, client, main
<1>1. ASSUME NEW w \in Workers, MySQL_Init(w) PROVE LockInv'
  BY <1>1 DEF MySQL_Init
<1>2. ASSUME NEW w \in Workers, CheckInit(w) PROVE LockInv'
  BY <1>2 DEF CheckInit
<1>3. ASSUME NEW w \in Workers, SetInit(w) PROVE LockInv'
  BY <1>3 DEF SetInit
<1>4. ASSUME NEW w \in Workers, InitMutex(w) PROVE LockInv'
  BY <1>4 DEF InitMutex, Holds
<1>5. ASSUME NEW w \in Workers, CloseAdd(w) PROVE LockInv'
  BY <1>5 DEF CloseAdd
<1>6. ASSUME NEW w \in Workers, Link(w) PROVE LockInv'
  BY <1>6 DEF Link
<1>7. ASSUME NEW w \in Workers, ClearThread(w) PROVE LockInv'
  BY <1>7 DEF ClearThread
<1>8. ASSUME NEW w \in Workers, LoopTest(w) PROVE LockInv'
  BY <1>8 DEF LoopTest
<1>9. ASSUME NEW w \in Workers, LockFast(w) PROVE LockInv'
  BY <1>9 DEF LockFast
<1>10. ASSUME NEW w \in Workers, Look(w) PROVE LockInv'
  BY <1>10 DEF Look, LeaveFastQueue
<1>11. ASSUME NEW w \in Workers, ReadFront(w) PROVE LockInv'
  BY <1>11 DEF ReadFront, LeaveFastQueue
<1>12. ASSUME NEW w \in Workers, Pop(w) PROVE LockInv'
  BY <1>12 DEF Pop, LeaveFastQueue
<1>13. ASSUME NEW w \in Workers, TakeSlow(w) PROVE LockInv'
  BY <1>13 DEF TakeSlow
<1>14. ASSUME NEW w \in Workers, MySQL_Work(w) PROVE LockInv'
  BY <1>14 DEF MySQL_Work
<1>15. ASSUME NEW w \in Workers, WriteResult(w) PROVE LockInv'
  BY <1>15 DEF WriteResult
<1>16. ASSUME NEW w \in Workers, SignalClient(w) PROVE LockInv'
  BY <1>16 DEF SignalClient
<1>17. ASSUME NEW w \in Workers, Sleep(w) PROVE LockInv'
  BY <1>17 DEF Sleep
<1>18. ASSUME NEW w \in Workers, SpuriousWake(w) PROVE LockInv'
  BY <1>18 DEF SpuriousWake
<1>19. ASSUME NEW w \in Workers, Del(w) PROVE LockInv'
  BY <1>19 DEF Del
<1>20. ASSUME NEW w \in Workers, DelNull(w) PROVE LockInv'
  BY <1>20 DEF DelNull
<1>21. ASSUME NEW c \in Clients, Query(c) PROVE LockInv'
  BY <1>21 DEF Query, NewJob
<1>22. ASSUME NEW c \in Clients, MySQL_Add(c) PROVE LockInv'
  BY <1>22 DEF MySQL_Add, PoolOf
<1>23. ASSUME NEW c \in Clients, WalkStart(c) PROVE LockInv'
  BY <1>23 DEF WalkStart, WalkTo
<1>24. ASSUME NEW c \in Clients, WalkSignal(c) PROVE LockInv'
  BY <1>24 DEF WalkSignal, SignalWorker
<1>25. ASSUME NEW c \in Clients, WalkNext(c) PROVE LockInv'
  BY <1>25 DEF WalkNext, WalkTo
<1>26. ASSUME NEW c \in Clients, ClientSleep(c) PROVE LockInv'
  BY <1>26 DEF ClientSleep
<1>27. ASSUME NEW c \in Clients, ClientSpuriousWake(c) PROVE LockInv'
  BY <1>27 DEF ClientSpuriousWake
<1>28. ASSUME NEW c \in Clients, Return(c) PROVE LockInv'
  BY <1>28 DEF Return, CloseRows, DeleteJob
<1>29. ASSUME Close PROVE LockInv'
  BY <1>29 DEF Close
<1>30. ASSUME CleanupPick PROVE LockInv'
  BY <1>30 DEF CleanupPick
<1>31. ASSUME CleanupEnd PROVE LockInv'
  BY <1>31 DEF CleanupEnd
<1>32. ASSUME JoinStop PROVE LockInv'
  BY <1>32 DEF JoinStop
<1>33. ASSUME JoinSignal PROVE LockInv'
  BY <1>33 DEF JoinSignal, SignalWorker
<1>34. ASSUME JoinDone PROVE LockInv'
  BY <1>34 DEF JoinDone
<1>35. ASSUME Crash PROVE LockInv'
  BY <1>35 DEF Crash
<1>36. CASE UNCHANGED vars
  BY <1>36 DEF vars
<1>37. QED
  BY <1>1, <1>2, <1>3, <1>4, <1>5, <1>6, <1>7, <1>8, <1>9, <1>10, <1>11, <1>12, <1>13,
     <1>14, <1>15, <1>16, <1>17, <1>18, <1>19, <1>20, <1>21, <1>22, <1>23, <1>24, <1>25,
     <1>26, <1>27, <1>28, <1>29, <1>30, <1>31, <1>32, <1>33, <1>34, <1>35, <1>36
     DEF Next, Register, Serve, Unregister, Walk, Cleanup

(* Two workers that remove from the fast queue at once.                    *)
RacedInv == raced => broken \/ \E w \in Slow : wpc[w] # "unstarted"

LEMMA RacedStep == Types /\ LockInv /\ RacedInv /\ [Next]_vars => RacedInv'
<1> SUFFICES ASSUME Types, LockInv, RacedInv, [Next]_vars PROVE RacedInv'
  OBVIOUS
<1> USE Names DEF Types, RacedInv, Workers, WorkerGoes, ClientGoes, work, pool, client, main
<1>1. ASSUME NEW w \in Workers, MySQL_Init(w) PROVE RacedInv'
  BY <1>1 DEF MySQL_Init
<1>2. ASSUME NEW w \in Workers, CheckInit(w) PROVE RacedInv'
  BY <1>2 DEF CheckInit
<1>3. ASSUME NEW w \in Workers, SetInit(w) PROVE RacedInv'
  BY <1>3 DEF SetInit
<1>4. ASSUME NEW w \in Workers, InitMutex(w) PROVE RacedInv'
  BY <1>4 DEF InitMutex, Holds
<1>5. ASSUME NEW w \in Workers, CloseAdd(w) PROVE RacedInv'
  BY <1>5 DEF CloseAdd
<1>6. ASSUME NEW w \in Workers, Link(w) PROVE RacedInv'
  BY <1>6 DEF Link
<1>7. ASSUME NEW w \in Workers, ClearThread(w) PROVE RacedInv'
  BY <1>7 DEF ClearThread
<1>8. ASSUME NEW w \in Workers, LoopTest(w) PROVE RacedInv'
  BY <1>8 DEF LoopTest
<1>9. ASSUME NEW w \in Workers, LockFast(w) PROVE RacedInv'
  BY <1>9 DEF LockFast
<1>10. ASSUME NEW w \in Workers, Look(w) PROVE RacedInv'
  BY <1>10 DEF Look, LeaveFastQueue
<1>11. ASSUME NEW w \in Workers, ReadFront(w) PROVE RacedInv'
  <2>1. raced' => raced \/ \E v \in Workers : wpc[v] = "pop"
    BY <1>11 DEF ReadFront
  <2>2. wpc[w] = "front" /\ UNCHANGED broken /\ \A v \in Workers :
          wpc[v] # "unstarted" => wpc'[v] # "unstarted"
    BY <1>11 DEF ReadFront
  <2>3. ASSUME NEW v \in Workers, wpc[v] = "pop", ~broken
        PROVE  \E u \in Slow : wpc[u] # "unstarted"
    BY <2>2, <2>3 DEF LockInv
  <2>4. QED
    BY <2>1, <2>2, <2>3
<1>12. ASSUME NEW w \in Workers, Pop(w) PROVE RacedInv'
  BY <1>12 DEF Pop, LeaveFastQueue
<1>13. ASSUME NEW w \in Workers, TakeSlow(w) PROVE RacedInv'
  BY <1>13 DEF TakeSlow
<1>14. ASSUME NEW w \in Workers, MySQL_Work(w) PROVE RacedInv'
  BY <1>14 DEF MySQL_Work
<1>15. ASSUME NEW w \in Workers, WriteResult(w) PROVE RacedInv'
  BY <1>15 DEF WriteResult
<1>16. ASSUME NEW w \in Workers, SignalClient(w) PROVE RacedInv'
  BY <1>16 DEF SignalClient
<1>17. ASSUME NEW w \in Workers, Sleep(w) PROVE RacedInv'
  BY <1>17 DEF Sleep
<1>18. ASSUME NEW w \in Workers, SpuriousWake(w) PROVE RacedInv'
  BY <1>18 DEF SpuriousWake
<1>19. ASSUME NEW w \in Workers, Del(w) PROVE RacedInv'
  BY <1>19 DEF Del
<1>20. ASSUME NEW w \in Workers, DelNull(w) PROVE RacedInv'
  BY <1>20 DEF DelNull
<1>21. ASSUME NEW c \in Clients, Query(c) PROVE RacedInv'
  BY <1>21 DEF Query, NewJob
<1>22. ASSUME NEW c \in Clients, MySQL_Add(c) PROVE RacedInv'
  BY <1>22 DEF MySQL_Add, PoolOf
<1>23. ASSUME NEW c \in Clients, WalkStart(c) PROVE RacedInv'
  BY <1>23 DEF WalkStart, WalkTo
<1>24. ASSUME NEW c \in Clients, WalkSignal(c) PROVE RacedInv'
  BY <1>24 DEF WalkSignal, SignalWorker
<1>25. ASSUME NEW c \in Clients, WalkNext(c) PROVE RacedInv'
  BY <1>25 DEF WalkNext, WalkTo
<1>26. ASSUME NEW c \in Clients, ClientSleep(c) PROVE RacedInv'
  BY <1>26 DEF ClientSleep
<1>27. ASSUME NEW c \in Clients, ClientSpuriousWake(c) PROVE RacedInv'
  BY <1>27 DEF ClientSpuriousWake
<1>28. ASSUME NEW c \in Clients, Return(c) PROVE RacedInv'
  BY <1>28 DEF Return, CloseRows, DeleteJob
<1>29. ASSUME Close PROVE RacedInv'
  BY <1>29 DEF Close
<1>30. ASSUME CleanupPick PROVE RacedInv'
  BY <1>30 DEF CleanupPick
<1>31. ASSUME CleanupEnd PROVE RacedInv'
  BY <1>31 DEF CleanupEnd
<1>32. ASSUME JoinStop PROVE RacedInv'
  BY <1>32 DEF JoinStop
<1>33. ASSUME JoinSignal PROVE RacedInv'
  BY <1>33 DEF JoinSignal, SignalWorker
<1>34. ASSUME JoinDone PROVE RacedInv'
  BY <1>34 DEF JoinDone
<1>35. ASSUME Crash PROVE RacedInv'
  BY <1>35 DEF Crash
<1>36. CASE UNCHANGED vars
  BY <1>36 DEF vars
<1>37. QED
  BY <1>1, <1>2, <1>3, <1>4, <1>5, <1>6, <1>7, <1>8, <1>9, <1>10, <1>11, <1>12, <1>13,
     <1>14, <1>15, <1>16, <1>17, <1>18, <1>19, <1>20, <1>21, <1>22, <1>23, <1>24, <1>25,
     <1>26, <1>27, <1>28, <1>29, <1>30, <1>31, <1>32, <1>33, <1>34, <1>35, <1>36
     DEF Next, Register, Serve, Unregister, Walk, Cleanup

(* THEOREM: for any number of fast and slow workers, registering at any    *)
(* time, a fast worker has the mutex of the fast queue from its look at    *)
(* the queue to its removal of a job, until a worker that registers at the *)
(* same time initialises the mutex again while it is held; and two workers *)
(* remove a job at once only where a slow one runs, or after that.         *)
THEOREM FastQueueIsSafeInvariant == Spec => []FastQueueIsSafe
<1>1. Init => LockInv /\ RacedInv
  BY DEF Init, LockInv, RacedInv, Workers
<1>2. LockInv /\ RacedInv => FastQueueIsSafe
  BY DEF LockInv, RacedInv, FastQueueIsSafe
<1>3. QED
  BY <1>1, <1>2, LockStep, RacedStep, TypesInvariant, PTL DEF Spec

---------------------------------------------------------------------------
(* A job of a client that waits for its answer, and a slow job, which has  *)
(* no client any more.                                                     *)
Waiting(j) ==
  /\ j \in jobs /\ IsFast(j)
  /\ \E c \in Clients : mine[c] = j /\ cpc[c] # "add" /\ ~Told(c)
Adrift(j) == j \in jobs /\ ~IsFast(j) /\ \A c \in Clients : mine[c] # j

(* A client has a job while it needs one, and no job has two clients.      *)
MineInv ==
  /\ \A c \in Clients :
       /\ mine[c] # NULL =>
            mine[c] \in jobs /\ cpc[c] # "idle" /\ (cpc[c] = "add" \/ IsFast(mine[c]))
       /\ cpc[c] \in {"add", "pre_wait", "asleep", "woke"} \/ c \in unheard => mine[c] # NULL
       /\ c \in unheard => cpc[c] # "add"
  /\ \A c, d \in Clients : mine[c] = mine[d] /\ mine[c] # NULL => c = d

(* What is in the queues,                                                  *)
QueueInv ==
  /\ \A i \in 1..Len(queue["fast"]) : Waiting(queue["fast"][i])
  /\ \A i, k \in 1..Len(queue["fast"]) : queue["fast"][i] = queue["fast"][k] => i = k
  /\ \A i \in 1..Len(queue["slow"]) : Adrift(queue["slow"][i])

(* what the workers have: a job read from the front of the fast queue      *)
(* stays there until it is removed;                                        *)
Busy == {"work", "answer", "signal"}
GotInv ==
  /\ \A w \in Workers :
       /\ wpc[w] \in Busy \cup {"pop"} => got[w] # NULL
       /\ got[w] # NULL =>
            /\ wpc[w] \in Busy \cup {"pop", "take"}
            /\ Waiting(got[w]) \/ (Adrift(got[w]) /\ wpc[w] \in Busy)
       /\ got[w] # NULL /\ IsFast(got[w]) =>
            /\ got[w] \notin dropped
            /\ \A i \in 1..Len(queue["fast"]) :
                 queue["fast"][i] = got[w] => i = 1 /\ wpc[w] = "pop"
            /\ \A v \in Workers : got[v] = got[w] => v = w
  /\ \A v, w \in Workers : wpc[v] = "pop" /\ wpc[w] = "pop" => v = w

(* and the jobs that were forgotten.                                       *)
DroppedInv ==
  \A j \in dropped : Waiting(j) /\ \A i \in 1..Len(queue["fast"]) : queue["fast"][i] # j

(* The result of a job that was carried out.                               *)
Real == {"ran"} \cup (IF "rows" \in Kinds THEN {"refused"} ELSE {})
AnswerInv ==
  /\ \A w \in Workers :
       /\ rows[w] # NULL => "rows" \in Kinds
       /\ wpc[w] = "answer" => res[w] \in Real
       /\ wpc[w] = "signal" => answer[got[w]] \in Real
  /\ \A c \in Clients : Told(c) => answer[mine[c]] \in Real

(* Rows belong to the worker that opened them until their client returns.  *)
RowsInv ==
  /\ \A w \in Workers : rows[w] # NULL =>
       \/ /\ got[w] = rows[w] /\ IsFast(got[w])
          /\ \/ wpc[w] = "answer" /\ res[w] = "ran"
             \/ wpc[w] = "signal" /\ answer[rows[w]] = "ran"
       \/ \E c \in Clients : mine[c] = rows[w] /\ Told(c) /\ answer[rows[w]] = "ran"
  /\ \A v, w \in Workers : rows[v] = rows[w] /\ rows[w] # NULL => v = w

JobsInv == MineInv /\ QueueInv /\ GotInv /\ DroppedInv /\ AnswerInv /\ RowsInv

(* The steps that move no job. *)
Quiet ==
  /\ UNCHANGED <<work, mine, unheard>>
  /\ \A w \in Workers : wpc'[w] # wpc[w] =>
       wpc[w] \notin Busy \cup {"pop", "take"} /\ wpc'[w] \notin Busy \cup {"pop", "take"}
  /\ \A c \in Clients : cpc'[c] # cpc[c] =>
       /\ cpc[c] \in {"walk", "next", "signal", "pre_wait"}
       /\ cpc'[c] \in {"walk", "next", "signal", "pre_wait", "asleep", "idle"}
       /\ cpc'[c] = "idle" => mine[c] = NULL
       /\ cpc'[c] \in {"pre_wait", "asleep"} => mine[c] # NULL

LEMMA QuietKeepsJobs ==
  ASSUME Types, JobsInv, Quiet PROVE JobsInv'
<1> USE Names DEF Types, JobsInv, Quiet, work
<1>1. \A c \in Clients : Told(c)' = Told(c)
  BY DEF Told
<1>2. \A j \in Jobs : IsFast(j)' = IsFast(j)
  BY DEF IsFast
<1>3. \A j : Waiting(j) => Waiting(j)'
  BY <1>1, <1>2 DEF Waiting
<1>4. \A j : Adrift(j) => Adrift(j)'
  BY <1>2 DEF Adrift
<1>5. MineInv'
  BY <1>2, ZenonT(30) DEF MineInv
<1>6. QueueInv'
  BY <1>3, <1>4 DEF QueueInv
<1>7. GotInv'
  BY <1>2, <1>3, <1>4 DEF GotInv, Busy
<1>8. DroppedInv'
  BY <1>3 DEF DroppedInv
<1>9. AnswerInv'
  BY <1>1 DEF AnswerInv, Real, Busy
<1>10. RowsInv'
  BY <1>1, <1>2 DEF RowsInv, Busy
<1>11. QED
  BY <1>5, <1>6, <1>7, <1>8, <1>9, <1>10

LEMMA QuietSteps ==
  ASSUME Types, JobsInv
  PROVE  /\ \A w \in Workers :
              Register(w) \/ LoopTest(w) \/ LockFast(w) \/ Look(w) \/ Sleep(w)
              \/ SpuriousWake(w) \/ Unregister(w) => Quiet
         /\ \A c \in Clients : Walk(c) \/ ClientSleep(c) => Quiet
         /\ Close \/ CleanupPick \/ JoinStop \/ JoinSignal \/ JoinDone \/ Crash => Quiet
         /\ UNCHANGED vars => Quiet
<1> USE Names DEF Types, Quiet, work, pool, client, main, WorkerGoes, ClientGoes, Busy
<1>1. ASSUME NEW w \in Workers, MySQL_Init(w) PROVE Quiet
  BY <1>1 DEF MySQL_Init
<1>2. ASSUME NEW w \in Workers, CheckInit(w) PROVE Quiet
  BY <1>2 DEF CheckInit
<1>3. ASSUME NEW w \in Workers, SetInit(w) PROVE Quiet
  BY <1>3 DEF SetInit
<1>4. ASSUME NEW w \in Workers, InitMutex(w) PROVE Quiet
  BY <1>4 DEF InitMutex
<1>5. ASSUME NEW w \in Workers, CloseAdd(w) PROVE Quiet
  BY <1>5 DEF CloseAdd
<1>6. ASSUME NEW w \in Workers, Link(w) PROVE Quiet
  BY <1>6 DEF Link
<1>7. ASSUME NEW w \in Workers, ClearThread(w) PROVE Quiet
  BY <1>7 DEF ClearThread
<1>8. ASSUME NEW w \in Workers, LoopTest(w) PROVE Quiet
  BY <1>8 DEF LoopTest
<1>9. ASSUME NEW w \in Workers, LockFast(w) PROVE Quiet
  BY <1>9 DEF LockFast
<1>10. ASSUME NEW w \in Workers, Look(w) PROVE Quiet
  BY <1>10 DEF Look, LeaveFastQueue
<1>11. ASSUME NEW w \in Workers, Sleep(w) PROVE Quiet
  BY <1>11 DEF Sleep
<1>12. ASSUME NEW w \in Workers, SpuriousWake(w) PROVE Quiet
  BY <1>12 DEF SpuriousWake
<1>13. ASSUME NEW w \in Workers, Del(w) PROVE Quiet
  BY <1>13 DEF Del
<1>14. ASSUME NEW w \in Workers, DelNull(w) PROVE Quiet
  BY <1>14 DEF DelNull
<1>15. ASSUME NEW c \in Clients, WalkStart(c) PROVE Quiet
  BY <1>15 DEF WalkStart, WalkTo
<1>16. ASSUME NEW c \in Clients, WalkSignal(c) PROVE Quiet
  BY <1>16 DEF WalkSignal, SignalWorker
<1>17. ASSUME NEW c \in Clients, WalkNext(c) PROVE Quiet
  BY <1>17 DEF WalkNext, WalkTo
<1>18. ASSUME NEW c \in Clients, ClientSleep(c) PROVE Quiet
  BY <1>18 DEF ClientSleep, JobsInv, MineInv
<1>19. ASSUME Close PROVE Quiet
  BY <1>19 DEF Close
<1>20. ASSUME CleanupPick PROVE Quiet
  BY <1>20 DEF CleanupPick
<1>21. ASSUME JoinStop PROVE Quiet
  BY <1>21 DEF JoinStop
<1>22. ASSUME JoinSignal PROVE Quiet
  BY <1>22 DEF JoinSignal, SignalWorker
<1>23. ASSUME JoinDone PROVE Quiet
  BY <1>23 DEF JoinDone
<1>24. ASSUME Crash PROVE Quiet
  BY <1>24 DEF Crash
<1>25. ASSUME UNCHANGED vars PROVE Quiet
  BY <1>25 DEF vars
<1>26. QED
  BY <1>1, <1>2, <1>3, <1>4, <1>5, <1>6, <1>7, <1>8, <1>9, <1>10, <1>11, <1>12, <1>13,
     <1>14, <1>15, <1>16, <1>17, <1>18, <1>19, <1>20, <1>21, <1>22, <1>23, <1>24, <1>25
     DEF Register, Unregister, Walk

(* What stays when the clients and their jobs stay. *)
LEMMA SameClients ==
  ASSUME UNCHANGED <<jobs, kind, cpc, mine, unheard>>
  PROVE  /\ \A c \in Clients : Told(c)' <=> Told(c)
         /\ \A j : IsFast(j)' <=> IsFast(j)
         /\ \A j : (Waiting(j)' <=> Waiting(j)) /\ (Adrift(j)' <=> Adrift(j))
         /\ MineInv' <=> MineInv
<1>1. \A c \in Clients : Told(c)' <=> Told(c)
  BY DEF Told
<1>2. \A j : IsFast(j)' <=> IsFast(j)
  BY DEF IsFast
<1>3. \A j : Waiting(j)' <=> Waiting(j)
  BY <1>1, <1>2 DEF Waiting
<1>4. \A j : Adrift(j)' <=> Adrift(j)
  BY <1>2 DEF Adrift
<1>5. MineInv' <=> MineInv
  BY <1>2 DEF MineInv
<1>6. QED
  BY <1>1, <1>2, <1>3, <1>4, <1>5

(* A worker reads the front of the fast queue when no other one has read   *)
(* it and not removed it yet.                                              *)
LEMMA ReadFrontKeepsJobs ==
  ASSUME Types, JobsInv, Orderly', NEW w \in Workers, ReadFront(w)
  PROVE  JobsInv'
<1> DEFINE q == queue["fast"]
<1> USE Names DEF Types, JobsInv, Pools
<1>1. /\ wpc[w] = "front"
      /\ UNCHANGED <<jobs, kind, cpc, mine, unheard, queue, dropped, rows, res, answer>>
      /\ q \in Seq(Jobs)
  BY DEF ReadFront, WorkerGoes, client
<1>2. \/ q = <<>> /\ wpc' = [wpc EXCEPT ![w] = "take"] /\ got' = got
      \/ /\ q # <<>> /\ wpc' = [wpc EXCEPT ![w] = "pop"] /\ got' = [got EXCEPT ![w] = Head(q)]
         /\ \A v \in Workers : wpc[v] # "pop"
  BY Zenon DEF ReadFront, WorkerGoes, Orderly
<1>3. got[w] = NULL
  BY <1>1 DEF GotInv, Busy
<1>4. MineInv' /\ QueueInv' /\ DroppedInv'
  <2> HIDE DEF Types
  <2>1. MineInv' /\ QueueInv'
    BY <1>1, SameClients DEF QueueInv
  <2>2. DroppedInv'
    BY <1>1, SameClients DEF DroppedInv
  <2>3. QED
    BY <2>1, <2>2
<1>5. GotInv'
  <2>1. CASE q = <<>>
    BY <1>1, <1>2, <1>3, <2>1, SameClients DEF GotInv, Busy
  <2>2. CASE q # <<>>
    <3> DEFINE j == Head(q)
    <3>1. j = q[1] /\ 1 \in 1..Len(q) /\ j \in Jobs
      BY <1>1, <2>2
    <3> HIDE DEF j
    <3>2. /\ Waiting(j) /\ IsFast(j) /\ j \notin dropped
          /\ \A k \in 1..Len(q) : q[k] = j => k = 1
      <4>1. Waiting(j) /\ IsFast(j)
        BY <3>1, Zenon DEF QueueInv, Waiting
      <4>2. j \notin dropped
        BY <3>1, Zenon DEF DroppedInv
      <4>3. \A k \in 1..Len(q) : q[k] = j => k = 1
        BY <3>1, Zenon DEF QueueInv
      <4>4. QED
        BY <4>1, <4>2, <4>3
    <3>3. \A v \in Workers : got[v] # j
      <4>1. SUFFICES ASSUME NEW v \in Workers, got[v] = j PROVE FALSE
        OBVIOUS
      <4>2. got[v] # NULL /\ IsFast(got[v])
        BY <3>1, <3>2, <4>1
      <4>3. \A i \in 1..Len(q) : q[i] = got[v] => wpc[v] = "pop"
        BY <4>2, SMT DEF GotInv
      <4>4. wpc[v] = "pop"
        BY <3>1, <4>1, <4>3, Zenon
      <4>5. QED
        BY <1>2, <2>2, <4>4
    <3>4. wpc' = [wpc EXCEPT ![w] = "pop"] /\ got' = [got EXCEPT ![w] = j]
      BY <1>2, <2>2 DEF j
    <3>5. \A v \in Workers : wpc[v] # "pop"
      BY <1>2, <2>2
    <3>6. QED
      BY <1>1, <1>3, <3>1, <3>2, <3>3, <3>4, <3>5, SameClients DEF GotInv, Busy
  <2>3. QED
    BY <2>1, <2>2
<1>6. AnswerInv' /\ RowsInv'
  BY <1>1, <1>2, <1>3, SameClients DEF AnswerInv, RowsInv, Real
<1>7. QED
  BY <1>4, <1>5, <1>6

(* The job a worker removes is the one it read, unless the queue has been  *)
(* emptied since.                                                          *)
LEMMA PopKeepsJobs ==
  ASSUME Types, JobsInv, Orderly', NEW w \in Workers, Pop(w)
  PROVE  JobsInv'
<1> DEFINE q == queue["fast"]
<1> USE Names DEF Types, JobsInv, Pools
<1>1. /\ wpc[w] = "pop" /\ wpc' = [wpc EXCEPT ![w] = "take"]
      /\ UNCHANGED <<jobs, kind, cpc, mine, unheard, dropped, rows, res, answer, got>>
      /\ q # <<>> /\ q \in Seq(Jobs) /\ queue' = [queue EXCEPT !["fast"] = Tail(@)]
  BY DEF Pop, WorkerGoes, client
<1>2. /\ Len(queue'["fast"]) = Len(q) - 1 /\ queue'["slow"] = queue["slow"]
      /\ \A i \in 1..Len(q) - 1 : queue'["fast"][i] = q[i + 1] /\ i + 1 \in 1..Len(q)
  <2>1. queue'["fast"] = Tail(q) /\ queue'["slow"] = queue["slow"]
    BY <1>1
  <2>2. QED
    BY <1>1, <2>1
<1>3. MineInv' /\ QueueInv'
  BY <1>1, <1>2, SameClients DEF QueueInv
<1>4. DroppedInv'
  BY <1>1, <1>2, SameClients DEF DroppedInv
<1>5. GotInv'
  <2>1. got[w] # NULL /\ Waiting(got[w])
    BY <1>1 DEF GotInv, Busy
  <2>2. ASSUME NEW v \in Workers, got[v] # NULL, IsFast(got[v]), NEW i \in 1..Len(q) - 1
        PROVE  queue'["fast"][i] # got[v]
    BY <1>2, <2>2 DEF GotInv
  <2>3. \A v \in Workers : v # w => wpc'[v] = wpc[v] /\ wpc[v] # "pop"
    BY <1>1 DEF GotInv
  <2>4. QED
    BY <1>1, <1>2, <2>1, <2>2, <2>3, SameClients DEF GotInv, Busy
<1>6. AnswerInv' /\ RowsInv'
  BY <1>1, SameClients DEF AnswerInv, RowsInv, Real
<1>7. QED
  BY <1>3, <1>4, <1>5, <1>6

(* A worker that finds a slow job forgets the one it has. *)
LEMMA TakeSlowKeepsJobs ==
  ASSUME Types, JobsInv, Orderly', NEW w \in Workers, TakeSlow(w)
  PROVE  JobsInv'
<1> DEFINE q == queue["slow"]
<1> USE Names DEF Types, JobsInv, Pools
<1>1. /\ wpc[w] = "take" /\ UNCHANGED <<jobs, kind, cpc, mine, unheard, rows, res, answer>>
      /\ q \in Seq(Jobs) /\ (got[w] # NULL => Waiting(got[w]))
  BY DEF TakeSlow, WorkerGoes, client, GotInv, Busy
<1>2. CASE q = <<>>
  <2>1. /\ UNCHANGED <<queue, got, dropped>>
        /\ wpc' = [wpc EXCEPT ![w] = IF got[w] = NULL THEN "loop" ELSE "work"]
    BY <1>2 DEF TakeSlow, WorkerGoes
  <2>2. MineInv' /\ QueueInv' /\ DroppedInv'
    BY <1>1, <2>1, SameClients DEF QueueInv, DroppedInv
  <2>3. GotInv'
    BY <1>1, <2>1, SameClients DEF GotInv, Busy
  <2>4. AnswerInv' /\ RowsInv'
    BY <1>1, <2>1, SameClients DEF AnswerInv, RowsInv, Real
  <2>5. QED
    BY <2>2, <2>3, <2>4
<1>3. CASE q # <<>>
  <2> DEFINE j == Head(q)
  <2>1. /\ queue' = [queue EXCEPT !["slow"] = Tail(q)] /\ got' = [got EXCEPT ![w] = j]
        /\ dropped' = dropped \cup ({got[w]} \ {NULL}) /\ wpc' = [wpc EXCEPT ![w] = "work"]
    BY <1>3, Zenon DEF TakeSlow, WorkerGoes
  <2>2. /\ j = q[1] /\ Len(q) > 0 /\ j \in Jobs /\ Len(Tail(q)) = Len(q) - 1
        /\ \A i \in 1..Len(q) - 1 : Tail(q)[i] = q[i + 1] /\ i + 1 \in 1..Len(q)
    BY <1>1, <1>3
  <2>3. Adrift(j)
    <3>1. 1 \in 1..Len(q)
      BY <1>1, <2>2
    <3>2. QED
      BY <2>2, <3>1, ZenonT(30) DEF QueueInv
  <2>4. queue'["fast"] = queue["fast"] /\ queue'["slow"] = Tail(q)
    BY <2>1
  <2> HIDE DEF j
  <2>5. MineInv' /\ QueueInv'
    BY <1>1, <2>2, <2>4, SameClients DEF QueueInv
  <2>6. DroppedInv'
    <3>1. got[w] # NULL => \A i \in 1..Len(queue["fast"]) : queue["fast"][i] # got[w]
      BY <1>1 DEF GotInv, Waiting
    <3>2. QED
      BY <1>1, <2>1, <2>4, <3>1, SameClients DEF DroppedInv
  <2>7. GotInv'
    <3>1. \A v \in Workers : v # w => got'[v] = got[v] /\ wpc'[v] = wpc[v]
      BY <2>1
    <3>2. got'[w] = j /\ wpc'[w] = "work" /\ j # NULL /\ ~IsFast(j) /\ Adrift(j)
      BY <2>1, <2>2, <2>3 DEF Adrift
    <3>3. \A v \in Workers : v # w /\ got[v] # NULL /\ IsFast(got[v]) => got[v] # got[w]
      BY DEF GotInv
    <3>4. \A x : x \in dropped' => x \in dropped \/ x = got[w]
      BY <2>1
    <3>5. ASSUME NEW v \in Workers
          PROVE  /\ wpc'[v] \in Busy \cup {"pop"} => got'[v] # NULL
                 /\ got'[v] # NULL =>
                      /\ wpc'[v] \in Busy \cup {"pop", "take"}
                      /\ Waiting(got'[v]) \/ (Adrift(got'[v]) /\ wpc'[v] \in Busy)
                 /\ got'[v] # NULL /\ IsFast(got'[v]) =>
                      /\ v # w /\ got'[v] = got[v] /\ got[v] \notin dropped'
                      /\ \A i \in 1..Len(queue["fast"]) :
                           queue["fast"][i] = got[v] => i = 1 /\ wpc'[v] = "pop"
                      /\ \A u \in Workers : got[u] = got[v] => u = v
      <4>1. CASE v = w
        BY <3>2, <4>1 DEF Busy
      <4>2. CASE v # w
        BY <3>1, <3>3, <3>4, <4>2 DEF GotInv
      <4>3. QED
        BY <4>1, <4>2
    <3>6. \A u, v \in Workers : wpc'[u] = "pop" /\ wpc'[v] = "pop" => u = v
      BY <3>1, <3>2 DEF GotInv
    <3>7. ASSUME NEW v \in Workers, got'[v] # NULL, IsFast(got'[v]),
                 NEW u \in Workers, got'[u] = got'[v]
          PROVE  u = v
      <4>1. u # w
        BY <3>2, <3>7
      <4>2. QED
        BY <3>1, <3>5, <3>7, <4>1
    <3>8. QED
      BY <1>1, <2>4, <3>5, <3>6, <3>7, SameClients DEF GotInv
  <2>8. AnswerInv'
    BY <1>1, <2>1, SameClients DEF AnswerInv, Real
  <2>9. RowsInv'
    BY <1>1, <2>1, SameClients DEF RowsInv
  <2>10. QED
    BY <2>5, <2>6, <2>7, <2>8, <2>9
<1>4. QED
  BY <1>2, <1>3

(* A job that is carried out has no open rows yet. *)
LEMMA MySQL_WorkKeepsJobs ==
  ASSUME Types, JobsInv, Orderly', NEW w \in Workers, MySQL_Work(w)
  PROVE  JobsInv'
<1> USE Names DEF Types, JobsInv
<1>1. /\ wpc[w] = "work" /\ wpc' = [wpc EXCEPT ![w] = "answer"]
      /\ UNCHANGED <<jobs, kind, cpc, mine, unheard, queue, dropped, answer, got>>
      /\ res' = [res EXCEPT ![w] = IF rows[w] = NULL THEN "ran" ELSE "refused"]
      /\ \/ rows' = rows
         \/ rows[w] = NULL /\ kind[got[w]] = "rows" /\ rows' = [rows EXCEPT ![w] = got[w]]
  BY DEF MySQL_Work, WorkerGoes, client
<1>2. MineInv' /\ QueueInv' /\ DroppedInv'
  BY <1>1, SameClients DEF QueueInv, DroppedInv
<1>3. GotInv'
  BY <1>1, SameClients DEF GotInv, Busy
<1>4. AnswerInv'
  <2>1. got[w] \in Jobs /\ (kind[got[w]] = "rows" => "rows" \in Kinds)
    BY <1>1 DEF GotInv, Busy
  <2>2. QED
    BY <1>1, <2>1, SameClients DEF AnswerInv, Real
<1>5. RowsInv'
  <2>1. got[w] # NULL /\ got[w] \in Jobs
    BY <1>1 DEF GotInv, Busy
  <2>2. IsFast(got[w]) =>
          /\ \A v \in Workers : got[v] = got[w] => v = w
          /\ \A c \in Clients : mine[c] = got[w] => ~Told(c)
    BY <1>1, <2>1 DEF GotInv, MineInv, Waiting, Adrift
  <2>3. kind[got[w]] = "rows" => IsFast(got[w])
    BY DEF IsFast
  <2>4. IsFast(got[w]) => \A v \in Workers : rows[v] # got[w]
    BY <1>1, <2>1, <2>2 DEF RowsInv
  <2>5. CASE rows' = rows
    BY <1>1, <2>5, SameClients DEF RowsInv
  <2>6. CASE rows[w] = NULL /\ kind[got[w]] = "rows" /\ rows' = [rows EXCEPT ![w] = got[w]]
    <3>1. /\ rows'[w] = got[w]
          /\ \A v \in Workers : v # w => rows'[v] = rows[v] /\ rows[v] # got[w]
      BY <2>3, <2>4, <2>6
    <3>2. wpc'[w] = "answer" /\ res'[w] = "ran" /\ IsFast(got[w])
      BY <1>1, <2>3, <2>6
    <3>3. \A v \in Workers : v # w => wpc'[v] = wpc[v] /\ res'[v] = res[v]
      BY <1>1
    <3>4. QED
      BY <1>1, <3>1, <3>2, <3>3, SameClients DEF RowsInv
  <2>7. QED
    BY <1>1, <2>5, <2>6
<1>6. QED
  BY <1>2, <1>3, <1>4, <1>5

(* Nobody else reads the answer of the job. *)
LEMMA WriteResultKeepsJobs ==
  ASSUME Types, JobsInv, Orderly', NEW w \in Workers, WriteResult(w)
  PROVE  JobsInv'
<1> USE Names DEF Types, JobsInv
<1>1. /\ wpc[w] = "answer" /\ wpc' = [wpc EXCEPT ![w] = "signal"]
      /\ UNCHANGED <<jobs, kind, cpc, mine, unheard, queue, dropped, got, rows, res>>
      /\ answer' = [answer EXCEPT ![got[w]] = res[w]]
  BY DEF WriteResult, WorkerGoes, client
<1>2. MineInv' /\ QueueInv' /\ DroppedInv'
  BY <1>1, SameClients DEF QueueInv, DroppedInv
<1>3. GotInv'
  BY <1>1, SameClients DEF GotInv, Busy
<1>4. /\ got[w] \in Jobs /\ answer'[got[w]] = res[w]
      /\ \A c \in Clients : mine[c] = got[w] => ~Told(c)
  <2>1. got[w] \in Jobs /\ (Waiting(got[w]) \/ Adrift(got[w]))
    BY <1>1 DEF GotInv, Busy
  <2>2. \A c \in Clients : mine[c] = got[w] => ~Told(c)
    BY <2>1 DEF Waiting, Adrift, MineInv
  <2>3. QED
    BY <1>1, <2>1, <2>2
<1>5. AnswerInv'
  BY <1>1, <1>4, SameClients DEF AnswerInv, Real
<1>6. RowsInv'
  <2>1. IsFast(got[w]) => \A v \in Workers : got[v] = got[w] => v = w
    BY <1>4 DEF GotInv
  <2>2. QED
    BY <1>1, <1>4, <2>1, SameClients DEF RowsInv
<1>7. QED
  BY <1>2, <1>3, <1>5, <1>6

(* The client of the job is told, and the worker lets go of it. *)
LEMMA SignalClientKeepsJobs ==
  ASSUME Types, JobsInv, Orderly', NEW w \in Workers, SignalClient(w)
  PROVE  JobsInv'
<1> DEFINE j == got[w]
<1> USE Names DEF Types, JobsInv
<1>1. /\ wpc[w] = "signal" /\ wpc' = [wpc EXCEPT ![w] = "loop"]
      /\ UNCHANGED <<jobs, kind, mine, queue, dropped, rows, answer>>
      /\ got' = [got EXCEPT ![w] = NULL] /\ res' = [res EXCEPT ![w] = "none"]
      /\ j \in jobs /\ IsFast(j) /\ j # NULL
      /\ cpc' = [c \in Clients |-> IF mine[c] = j /\ cpc[c] = "asleep" THEN "woke" ELSE cpc[c]]
      /\ unheard' = unheard \cup {c \in Clients : mine[c] = j /\ cpc[c] # "asleep"}
  BY DEF SignalClient, WorkerGoes
<1>2. /\ Waiting(j) /\ j \notin dropped
      /\ \A i \in 1..Len(queue["fast"]) : queue["fast"][i] # j
      /\ \A v \in Workers : got[v] = j => v = w
  BY <1>1 DEF GotInv, Busy, Adrift
<1>3. PICK c \in Clients : mine[c] = j /\ cpc[c] # "add" /\ ~Told(c)
  BY <1>2 DEF Waiting
<1> HIDE DEF j
<1>4. /\ \A d \in Clients : d # c => mine[d] # j
      /\ \A d \in Clients : d # c => (Told(d)' <=> Told(d)) /\ cpc'[d] = cpc[d]
      /\ Told(c)' /\ \A d \in Clients : cpc'[d] = "add" <=> cpc[d] = "add"
  <2>1. \A d \in Clients : d # c => mine[d] # j
    BY <1>1, <1>3 DEF MineInv
  <2>2. QED
    BY <1>1, <1>3, <2>1 DEF Told
<1>5. \A x : IsFast(x)' <=> IsFast(x)
  BY <1>1 DEF IsFast
<1>6. \A x : x # j /\ Waiting(x) => Waiting(x)'
  BY <1>1, <1>3, <1>4, <1>5 DEF Waiting
<1>7. \A x : Adrift(x) => Adrift(x)'
  BY <1>1, <1>5 DEF Adrift
<1>8. MineInv'
  BY <1>1, <1>3, <1>5 DEF MineInv
<1>9. QueueInv'
  BY <1>1, <1>2, <1>6, <1>7 DEF QueueInv
<1>10. GotInv'
  <2>1. \A v \in Workers : v # w => got'[v] = got[v] /\ wpc'[v] = wpc[v] /\ got[v] # j
    BY <1>1, <1>2
  <2>2. got'[w] = NULL /\ wpc'[w] = "loop"
    BY <1>1
  <2>3. QED
    BY <1>1, <1>5, <1>6, <1>7, <2>1, <2>2 DEF GotInv, Busy
<1>11. DroppedInv'
  BY <1>1, <1>2, <1>6 DEF DroppedInv
<1>12. AnswerInv'
  BY <1>1, <1>3, <1>4 DEF AnswerInv, Real, j
<1>13. RowsInv'
  <2>1. \A v \in Workers : v # w => got'[v] = got[v] /\ wpc'[v] = wpc[v] /\ res'[v] = res[v]
    BY <1>1
  <2>2. \A d \in Clients : Told(d) => Told(d)'
    BY <1>4
  <2>3. rows[w] # NULL /\ got[w] = rows[w] /\ wpc[w] = "signal" /\ answer[rows[w]] = "ran" =>
          mine[c] = rows[w] /\ Told(c)' /\ answer[rows[w]] = "ran"
    BY <1>3, <1>4 DEF j
  <2>4. QED
    BY <1>1, <1>5, <2>1, <2>2, <2>3 DEF RowsInv
<1>14. QED
  BY <1>8, <1>9, <1>10, <1>11, <1>12, <1>13

(* A new job has an address at which there is none. *)
LEMMA QueryKeepsJobs ==
  ASSUME Types, JobsInv, Orderly', NEW c \in Clients, Query(c)
  PROVE  JobsInv'
<1> USE Names DEF Types, JobsInv
<1>1. PICK j \in Jobs \ jobs, k \in Kinds :
        /\ jobs' = jobs \cup {j} /\ kind' = [kind EXCEPT ![j] = k]
        /\ mine' = [mine EXCEPT ![c] = j]
  BY DEF Query, NewJob
<1>2. /\ cpc[c] = "idle" /\ cpc' = [cpc EXCEPT ![c] = "add"] /\ mine[c] = NULL
      /\ UNCHANGED <<wpc, queue, got, res, rows, answer, dropped, unheard>>
  BY DEF Query, ClientGoes, MineInv
<1>3. /\ c \notin unheard /\ \A d \in Clients : Told(d)' <=> Told(d)
  BY <1>2 DEF MineInv, Told
<1>4. \A x \in jobs : x # j /\ (IsFast(x)' <=> IsFast(x))
  BY <1>1 DEF IsFast
<1>5. \A x : Waiting(x) => Waiting(x)'
  BY <1>1, <1>2, <1>3, <1>4 DEF Waiting
<1>6. \A x : Adrift(x) => Adrift(x)'
  BY <1>1, <1>4 DEF Adrift
<1>7. MineInv'
  BY <1>1, <1>2, <1>3, <1>4 DEF MineInv
<1>8. QueueInv'
  BY <1>2, <1>5, <1>6 DEF QueueInv
<1>9. GotInv'
  <2>1. \A w \in Workers : got[w] # NULL => got[w] \in jobs
    BY DEF GotInv, Waiting, Adrift
  <2>2. QED
    BY <1>2, <1>4, <1>5, <1>6, <2>1 DEF GotInv, Busy
<1>10. DroppedInv'
  BY <1>2, <1>5 DEF DroppedInv
<1>11. AnswerInv'
  BY <1>1, <1>2, <1>3 DEF AnswerInv, Real, Told
<1>12. RowsInv'
  <2>1. \A d \in Clients : Told(d) => mine'[d] = mine[d]
    BY <1>1, <1>2, <1>3 DEF Told
  <2>2. \A w \in Workers : got[w] # NULL => got[w] \in jobs
    BY DEF GotInv, Waiting, Adrift
  <2>3. QED
    BY <1>2, <1>3, <1>4, <2>1, <2>2, ZenonT(30) DEF RowsInv
<1>13. QED
  BY <1>7, <1>8, <1>9, <1>10, <1>11, <1>12

(* A job that is handed over waits in its queue; a slow one has lost its   *)
(* client.                                                                 *)
LEMMA MySQL_AddKeepsJobs ==
  ASSUME Types, JobsInv, Orderly', NEW c \in Clients, MySQL_Add(c)
  PROVE  JobsInv'
<1> DEFINE j == mine[c]
           s == queue[PoolOf(j)]
<1> USE Names DEF Types, JobsInv
<1>1. /\ cpc[c] = "add" /\ cpc' = [cpc EXCEPT ![c] = "walk"]
      /\ queue' = [queue EXCEPT ![PoolOf(j)] = Append(@, j)]
      /\ mine' = IF IsFast(j) THEN mine ELSE [mine EXCEPT ![c] = NULL]
      /\ UNCHANGED <<wpc, jobs, kind, got, res, rows, answer, dropped, unheard>>
  BY DEF MySQL_Add, ClientGoes
<1>2. /\ j \in jobs /\ j # NULL /\ j \in Jobs /\ c \notin unheard
      /\ \A d \in Clients : d # c => mine[d] # j
  BY <1>1 DEF MineInv
<1>3. /\ ~Waiting(j) /\ ~Adrift(j)
  BY <1>1, <1>2 DEF Waiting, Adrift
<1>4. /\ PoolOf(j) \in Pools /\ s \in Seq(Jobs) /\ (PoolOf(j) = "fast" <=> IsFast(j))
      /\ Len(queue'[PoolOf(j)]) = Len(s) + 1 /\ queue'[PoolOf(j)][Len(s) + 1] = j
      /\ \A i \in 1..Len(s) : queue'[PoolOf(j)][i] = s[i]
      /\ \A p \in Pools : p # PoolOf(j) => queue'[p] = queue[p]
  <2>1. PoolOf(j) \in Pools /\ s \in Seq(Jobs) /\ (PoolOf(j) = "fast" <=> IsFast(j))
    BY DEF PoolOf, Pools
  <2>2. /\ queue'[PoolOf(j)] = Append(s, j)
        /\ \A p \in Pools : p # PoolOf(j) => queue'[p] = queue[p]
    BY <1>1, <2>1
  <2> HIDE DEF s
  <2>3. QED
    BY <1>2, <2>1, <2>2
<1>5. \A x : IsFast(x)' <=> IsFast(x)
  BY <1>1 DEF IsFast
<1>6. \A d \in Clients : Told(d)' <=> Told(d)
  BY <1>1 DEF Told
<1>7. ~Told(c)
  BY <1>1, <1>2 DEF Told
<1> HIDE DEF j
<1>8. \A x : Waiting(x) => Waiting(x)'
  BY <1>1, <1>3, <1>5, <1>6 DEF Waiting, j
<1>9. \A x : Adrift(x) => Adrift(x)'
  BY <1>1, <1>2, <1>5 DEF Adrift
<1>10. \A x : x = j => (IsFast(x) => Waiting(x)') /\ (~IsFast(x) => Adrift(x)')
  <2>1. SUFFICES ASSUME NEW x, x = j
                 PROVE  (IsFast(x) => Waiting(x)') /\ (~IsFast(x) => Adrift(x)')
    OBVIOUS
  <2>2. (IsFast(x)' <=> IsFast(x)) /\ x \in jobs'
    BY <1>1, <1>2, <1>5, <2>1
  <2>3. IsFast(x) => mine'[c] = x /\ cpc'[c] # "add" /\ ~Told(c)'
    BY <1>1, <1>6, <1>7, <2>1 DEF j
  <2>4. ~IsFast(x) => \A d \in Clients : mine'[d] # x
    BY <1>1, <1>2, <2>1
  <2>5. IsFast(x) => Waiting(x)'
    BY <2>2, <2>3 DEF Waiting
  <2>6. ~IsFast(x) => Adrift(x)'
    BY <2>2, <2>4 DEF Adrift
  <2>7. QED
    BY <2>5, <2>6
<1>11. MineInv'
  BY <1>1, <1>2, <1>5 DEF MineInv, j
<1>12. QueueInv'
  <2>1. \A i \in 1..Len(queue["fast"]) : queue["fast"][i] # j
    BY <1>3 DEF QueueInv
  <2>2. CASE IsFast(j)
    <3>1. PoolOf(j) = "fast" /\ "slow" \in Pools /\ "slow" # PoolOf(j)
      BY <1>4, <2>2 DEF Pools
    <3> DEFINE f == queue["fast"]
               g == queue'["fast"]
    <3>2. /\ queue'["slow"] = queue["slow"] /\ Len(g) = Len(f) + 1 /\ g[Len(f) + 1] = j
          /\ \A i \in 1..Len(f) : g[i] = f[i]
      BY <1>4, <3>1
    <3>3. \A i \in 1..Len(g) : i = Len(f) + 1 \/ i \in 1..Len(f)
      BY <3>2 DEF Pools
    <3> HIDE DEF f, g
    <3>4. \A x : \A i \in 1..Len(g) : x = g[i] => Waiting(x)'
      BY <1>8, <1>10, <2>2, <3>2, <3>3 DEF QueueInv, f
    <3>5. \A i, k \in 1..Len(g) : g[i] = g[k] => i = k
      BY <2>1, <3>2, <3>3 DEF QueueInv, f
    <3>6. \A x : \A i \in 1..Len(queue["slow"]) : x = queue["slow"][i] => Adrift(x)'
      BY <1>9 DEF QueueInv
    <3>7. QED
      BY <3>2, <3>4, <3>5, <3>6 DEF QueueInv, g
  <2>3. CASE ~IsFast(j)
    <3>1. PoolOf(j) = "slow" /\ "fast" \in Pools /\ "fast" # PoolOf(j)
      BY <2>3 DEF Pools, PoolOf
    <3> DEFINE f == queue["slow"]
               g == queue'["slow"]
    <3>2. /\ queue'["fast"] = queue["fast"] /\ Len(g) = Len(f) + 1 /\ g[Len(f) + 1] = j
          /\ \A i \in 1..Len(f) : g[i] = f[i]
      BY <1>4, <3>1
    <3>3. \A i \in 1..Len(g) : i = Len(f) + 1 \/ i \in 1..Len(f)
      BY <3>2 DEF Pools
    <3> HIDE DEF f, g
    <3>4. \A x : \A i \in 1..Len(g) : x = g[i] => Adrift(x)'
      BY <1>9, <1>10, <2>3, <3>2, <3>3 DEF QueueInv, f
    <3>5. \A x : \A i \in 1..Len(queue["fast"]) : x = queue["fast"][i] => Waiting(x)'
      BY <1>8 DEF QueueInv
    <3>6. QED
      BY <3>2, <3>4, <3>5 DEF QueueInv, g
  <2>4. QED
    BY <2>2, <2>3
<1>13. ASSUME NEW x, x # j, NEW i \in 1..Len(queue'["fast"]), queue'["fast"][i] = x
       PROVE  i \in 1..Len(queue["fast"]) /\ queue["fast"][i] = x
  BY <1>4, <1>13 DEF Pools, PoolOf
<1>14. GotInv'
  <2>1. \A w \in Workers : got[w] # j
    BY <1>2, <1>3 DEF GotInv
  <2>2. QED
    BY <1>1, <1>5, <1>8, <1>9, <1>13, <2>1 DEF GotInv, Busy
<1>15. DroppedInv'
  BY <1>1, <1>3, <1>8, <1>13 DEF DroppedInv
<1>16. AnswerInv'
  BY <1>1, <1>6, <1>7 DEF AnswerInv, Real, j
<1>17. RowsInv'
  BY <1>1, <1>5, <1>6, <1>7 DEF RowsInv, j
<1>18. QED
  BY <1>11, <1>12, <1>14, <1>15, <1>16, <1>17

(* A client that wakes in order was told. *)
LEMMA ClientSpuriousWakeKeepsJobs ==
  ASSUME Types, JobsInv, Orderly', NEW c \in Clients, ClientSpuriousWake(c)
  PROVE  JobsInv'
<1> USE Names DEF Types, JobsInv
<1>1. /\ cpc[c] = "asleep" /\ cpc' = [cpc EXCEPT ![c] = "woke"] /\ c \in unheard
      /\ UNCHANGED <<wpc, jobs, kind, got, res, rows, answer, dropped, unheard, queue, mine>>
  BY DEF ClientSpuriousWake, ClientGoes, Orderly
<1>2. /\ \A d \in Clients : Told(d)' <=> Told(d)
      /\ \A d \in Clients : cpc'[d] = "add" <=> cpc[d] = "add"
  BY <1>1 DEF Told
<1>3. \A x : IsFast(x)' <=> IsFast(x)
  BY <1>1 DEF IsFast
<1>4. \A x : (Waiting(x) => Waiting(x)') /\ (Adrift(x) => Adrift(x)')
  BY <1>1, <1>2, <1>3 DEF Waiting, Adrift
<1>5. MineInv'
  BY <1>1, <1>3 DEF MineInv
<1>6. QueueInv'
  BY <1>1, <1>4 DEF QueueInv
<1>7. GotInv'
  BY <1>1, <1>3, <1>4 DEF GotInv
<1>8. DroppedInv'
  BY <1>1, <1>4 DEF DroppedInv
<1>9. AnswerInv' /\ RowsInv'
  BY <1>1, <1>2, <1>3 DEF AnswerInv, RowsInv, Real
<1>10. QED
  BY <1>5, <1>6, <1>7, <1>8, <1>9

(* The client closes the rows it has, and its job is in no other place.    *)
LEMMA ReturnKeepsJobs ==
  ASSUME Types, JobsInv, Orderly', NEW c \in Clients, Return(c)
  PROVE  JobsInv'
<1> DEFINE j == mine[c]
<1> USE Names DEF Types, JobsInv
<1>1. /\ cpc[c] = "woke" /\ cpc' = [cpc EXCEPT ![c] = "idle"]
      /\ mine' = [mine EXCEPT ![c] = NULL] /\ unheard' = unheard \ {c}
      /\ rows' = [w \in Workers |-> IF answer[j] = "ran" /\ rows[w] = j THEN NULL ELSE rows[w]]
      /\ jobs' = jobs \ {j} /\ kind' = [kind EXCEPT ![j] = "stored"]
      /\ answer' = [answer EXCEPT ![j] = "none"] /\ dropped' = dropped \ {j}
      /\ UNCHANGED <<wpc, got, res, queue>>
  BY DEF Return, CloseRows, DeleteJob, ClientGoes
<1>2. /\ j # NULL /\ j \in jobs /\ j \in Jobs /\ Told(c) /\ IsFast(j)
      /\ \A d \in Clients : d # c => mine[d] # j
  BY <1>1 DEF MineInv, Told
<1>3. ~Waiting(j) /\ ~Adrift(j)
  BY <1>2 DEF Waiting, Adrift
<1>4. \A w \in Workers : got[w] # j
  BY <1>2, <1>3 DEF GotInv
<1> HIDE DEF j
<1>5. /\ \A d \in Clients : d # c => mine'[d] = mine[d]
                                     /\ cpc'[d] = cpc[d] /\ (Told(d)' <=> Told(d))
      /\ mine'[c] = NULL /\ cpc'[c] = "idle" /\ ~Told(c)'
  BY <1>1 DEF Told
<1>6. \A x \in Jobs : x # j => (IsFast(x)' <=> IsFast(x)) /\ answer'[x] = answer[x]
  BY <1>1 DEF IsFast
<1>7. \A x : Waiting(x) => Waiting(x)'
  BY <1>1, <1>2, <1>3, <1>5, <1>6 DEF Waiting
<1>8. \A x : Adrift(x) => Adrift(x)'
  BY <1>1, <1>3, <1>5, <1>6 DEF Adrift
<1>9. MineInv'
  BY <1>1, <1>2, <1>5, <1>6 DEF MineInv
<1>10. QueueInv'
  BY <1>1, <1>7, <1>8 DEF QueueInv
<1>11. GotInv'
  BY <1>1, <1>4, <1>6, <1>7, <1>8 DEF GotInv
<1>12. DroppedInv'
  BY <1>1, <1>7 DEF DroppedInv
<1>13. AnswerInv'
  <2>1. \A d \in Clients : Told(d)' => d # c /\ Told(d) /\ mine[d] # j /\ mine[d] \in Jobs
    BY <1>2, <1>5 DEF MineInv, Told
  <2>2. \A w \in Workers : wpc[w] = "signal" => got[w] \in Jobs
    BY DEF GotInv, Busy
  <2>3. QED
    BY <1>1, <1>4, <1>5, <1>6, <2>1, <2>2 DEF AnswerInv, Real
<1>14. RowsInv'
  <2>1. ASSUME NEW w \in Workers, rows[w] = j PROVE answer[j] = "ran"
    BY <1>2, <1>4, <2>1 DEF RowsInv
  <2>2. \A w \in Workers :
          rows'[w] # NULL => rows'[w] = rows[w] /\ rows[w] # j /\ rows[w] \in Jobs
    BY <1>1, <2>1
  <2>3. ASSUME NEW w \in Workers, rows[w] # j, rows[w] \in Jobs,
               NEW d \in Clients, mine[d] = rows[w], Told(d)
        PROVE  mine'[d] = rows[w] /\ Told(d)'
    <3>1. d # c
      BY <2>3 DEF j
    <3>2. QED
      BY <1>5, <2>3, <3>1
  <2>4. ASSUME NEW w \in Workers, rows'[w] # NULL
        PROVE  \/ /\ got[w] = rows[w] /\ IsFast(got[w])
                  /\ \/ wpc[w] = "answer" /\ res[w] = "ran"
                     \/ wpc[w] = "signal" /\ answer'[rows[w]] = "ran"
               \/ \E d \in Clients : mine'[d] = rows[w] /\ Told(d)' /\ answer'[rows[w]] = "ran"
    <3>1. rows[w] # NULL /\ rows[w] # j /\ rows[w] \in Jobs
      BY <2>2, <2>4
    <3>2. answer'[rows[w]] = answer[rows[w]]
      BY <1>6, <3>1
    <3>3. \/ /\ got[w] = rows[w] /\ IsFast(got[w])
             /\ \/ wpc[w] = "answer" /\ res[w] = "ran"
                \/ wpc[w] = "signal" /\ answer[rows[w]] = "ran"
          \/ \E d \in Clients : mine[d] = rows[w] /\ Told(d) /\ answer[rows[w]] = "ran"
      BY <3>1 DEF RowsInv
    <3>4. QED
      BY <2>3, <3>1, <3>2, <3>3
  <2>5. \A v, w \in Workers : rows'[v] = rows'[w] /\ rows'[w] # NULL => v = w
    BY <2>2 DEF RowsInv
  <2>6. \A x : \A w \in Workers : rows'[w] # NULL /\ x = rows[w] => (IsFast(x)' <=> IsFast(x))
    BY <1>6, <2>2
  <2>7. QED
    BY <1>1, <2>2, <2>4, <2>5, <2>6 DEF RowsInv
<1>15. QED
  BY <1>9, <1>10, <1>11, <1>12, <1>13, <1>14

(* A queue is emptied. *)
LEMMA CleanupEndKeepsJobs ==
  ASSUME Types, JobsInv, CleanupEnd
  PROVE  JobsInv'
<1> USE Names DEF Types, JobsInv
<1>1. /\ queue' = [queue EXCEPT ![closing] = <<>>] /\ closing \in Pools
      /\ UNCHANGED <<wpc, jobs, kind, got, res, rows, answer, dropped, unheard, mine, cpc>>
  BY DEF CleanupEnd, client
<1>2. \A p \in Pools : queue'[p] = queue[p] \/ Len(queue'[p]) = 0
  BY <1>1
<1>3. "fast" \in Pools /\ "slow" \in Pools
  BY DEF Pools
<1>4. MineInv' /\ QueueInv'
  BY <1>1, <1>2, <1>3, SameClients DEF QueueInv
<1>5. GotInv'
  BY <1>1, <1>2, <1>3, SameClients DEF GotInv
<1>6. DroppedInv'
  BY <1>1, <1>2, <1>3, SameClients DEF DroppedInv
<1>7. AnswerInv' /\ RowsInv'
  BY <1>1, SameClients DEF AnswerInv, RowsInv, Real
<1>8. QED
  BY <1>4, <1>5, <1>6, <1>7


---------------------------------------------------------------------------
(* A disorder is never forgotten, *)
LEMMA OrderlyStays == [Next]_vars /\ Orderly' => Orderly
<1> SUFFICES ASSUME [Next]_vars, Orderly' PROVE Orderly
  OBVIOUS
<1> USE DEF Orderly, work, pool
<1>1. ASSUME NEW w \in Workers, MySQL_Init(w) PROVE Orderly
  BY <1>1 DEF MySQL_Init
<1>2. ASSUME NEW w \in Workers, CheckInit(w) PROVE Orderly
  BY <1>2 DEF CheckInit
<1>3. ASSUME NEW w \in Workers, SetInit(w) PROVE Orderly
  BY <1>3 DEF SetInit
<1>4. ASSUME NEW w \in Workers, InitMutex(w) PROVE Orderly
  BY <1>4 DEF InitMutex
<1>5. ASSUME NEW w \in Workers, CloseAdd(w) PROVE Orderly
  BY <1>5 DEF CloseAdd
<1>6. ASSUME NEW w \in Workers, Link(w) PROVE Orderly
  BY <1>6 DEF Link
<1>7. ASSUME NEW w \in Workers, ClearThread(w) PROVE Orderly
  BY <1>7 DEF ClearThread
<1>8. ASSUME NEW w \in Workers, LoopTest(w) PROVE Orderly
  BY <1>8 DEF LoopTest
<1>9. ASSUME NEW w \in Workers, LockFast(w) PROVE Orderly
  BY <1>9 DEF LockFast
<1>10. ASSUME NEW w \in Workers, Look(w) PROVE Orderly
  BY <1>10 DEF Look, LeaveFastQueue
<1>11. ASSUME NEW w \in Workers, ReadFront(w) PROVE Orderly
  BY <1>11 DEF ReadFront, LeaveFastQueue
<1>12. ASSUME NEW w \in Workers, Pop(w) PROVE Orderly
  BY <1>12 DEF Pop, LeaveFastQueue
<1>13. ASSUME NEW w \in Workers, TakeSlow(w) PROVE Orderly
  BY <1>13 DEF TakeSlow
<1>14. ASSUME NEW w \in Workers, MySQL_Work(w) PROVE Orderly
  BY <1>14 DEF MySQL_Work
<1>15. ASSUME NEW w \in Workers, WriteResult(w) PROVE Orderly
  BY <1>15 DEF WriteResult
<1>16. ASSUME NEW w \in Workers, SignalClient(w) PROVE Orderly
  BY <1>16 DEF SignalClient
<1>17. ASSUME NEW w \in Workers, Sleep(w) PROVE Orderly
  BY <1>17 DEF Sleep
<1>18. ASSUME NEW w \in Workers, SpuriousWake(w) PROVE Orderly
  BY <1>18 DEF SpuriousWake
<1>19. ASSUME NEW w \in Workers, Del(w) PROVE Orderly
  BY <1>19 DEF Del
<1>20. ASSUME NEW w \in Workers, DelNull(w) PROVE Orderly
  BY <1>20 DEF DelNull
<1>21. ASSUME NEW c \in Clients, Query(c) PROVE Orderly
  BY <1>21 DEF Query, NewJob
<1>22. ASSUME NEW c \in Clients, MySQL_Add(c) PROVE Orderly
  BY <1>22 DEF MySQL_Add, PoolOf
<1>23. ASSUME NEW c \in Clients, WalkStart(c) PROVE Orderly
  BY <1>23 DEF WalkStart, WalkTo
<1>24. ASSUME NEW c \in Clients, WalkSignal(c) PROVE Orderly
  BY <1>24 DEF WalkSignal, SignalWorker
<1>25. ASSUME NEW c \in Clients, WalkNext(c) PROVE Orderly
  BY <1>25 DEF WalkNext, WalkTo
<1>26. ASSUME NEW c \in Clients, ClientSleep(c) PROVE Orderly
  BY <1>26 DEF ClientSleep
<1>27. ASSUME NEW c \in Clients, ClientSpuriousWake(c) PROVE Orderly
  BY <1>27 DEF ClientSpuriousWake
<1>28. ASSUME NEW c \in Clients, Return(c) PROVE Orderly
  BY <1>28 DEF Return, CloseRows, DeleteJob
<1>29. ASSUME Close PROVE Orderly
  BY <1>29 DEF Close
<1>30. ASSUME CleanupPick PROVE Orderly
  BY <1>30 DEF CleanupPick
<1>31. ASSUME CleanupEnd PROVE Orderly
  BY <1>31 DEF CleanupEnd
<1>32. ASSUME JoinStop PROVE Orderly
  BY <1>32 DEF JoinStop
<1>33. ASSUME JoinSignal PROVE Orderly
  BY <1>33 DEF JoinSignal, SignalWorker
<1>34. ASSUME JoinDone PROVE Orderly
  BY <1>34 DEF JoinDone
<1>35. ASSUME Crash PROVE Orderly
  BY <1>35 DEF Crash
<1>36. CASE UNCHANGED vars
  BY <1>36 DEF vars
<1>37. QED
  BY <1>1, <1>2, <1>3, <1>4, <1>5, <1>6, <1>7, <1>8, <1>9, <1>10, <1>11, <1>12, <1>13,
     <1>14, <1>15, <1>16, <1>17, <1>18, <1>19, <1>20, <1>21, <1>22, <1>23, <1>24, <1>25,
     <1>26, <1>27, <1>28, <1>29, <1>30, <1>31, <1>32, <1>33, <1>34, <1>35, <1>36
     DEF Next, Register, Serve, Unregister, Walk, Cleanup

LEMMA JobsStep ==
  Types /\ (Orderly => JobsInv) /\ [Next]_vars => (Orderly => JobsInv)'
<1> SUFFICES ASSUME Types, JobsInv, [Next]_vars, Orderly' PROVE JobsInv'
  BY OrderlyStays
<1>1. Quiet => JobsInv'
  BY QuietKeepsJobs
<1>2. ASSUME NEW w \in Workers,
             Register(w) \/ LoopTest(w) \/ LockFast(w) \/ Serve(w) \/ Sleep(w)
             \/ SpuriousWake(w) \/ Unregister(w)
      PROVE  JobsInv'
  BY <1>1, <1>2, QuietSteps, ReadFrontKeepsJobs, PopKeepsJobs, TakeSlowKeepsJobs,
     MySQL_WorkKeepsJobs, WriteResultKeepsJobs, SignalClientKeepsJobs DEF Serve
<1>3. ASSUME NEW c \in Clients,
             Query(c) \/ MySQL_Add(c) \/ Walk(c) \/ ClientSleep(c)
             \/ ClientSpuriousWake(c) \/ Return(c)
      PROVE  JobsInv'
  BY <1>1, <1>3, QuietSteps, QueryKeepsJobs, MySQL_AddKeepsJobs,
     ClientSpuriousWakeKeepsJobs, ReturnKeepsJobs
<1>4. ASSUME Cleanup \/ Crash PROVE JobsInv'
  BY <1>1, <1>4, QuietSteps, CleanupEndKeepsJobs DEF Cleanup
<1>5. CASE UNCHANGED vars
  BY <1>1, <1>5, QuietSteps
<1>6. QED
  BY <1>2, <1>3, <1>4, <1>5 DEF Next

LEMMA InitJobs == Init => JobsInv
<1> SUFFICES ASSUME Init PROVE JobsInv
  OBVIOUS
<1>1. MineInv /\ QueueInv /\ DroppedInv
  BY Names DEF Init, MineInv, QueueInv, DroppedInv, Pools
<1>2. GotInv /\ AnswerInv /\ RowsInv
  BY Names DEF Init, GotInv, AnswerInv, RowsInv, Told, Busy
<1>3. QED
  BY <1>1, <1>2 DEF JobsInv

LEMMA JobsInvariant == Spec => [](Types /\ (Orderly => JobsInv))
BY InitTypes, TypesStep, InitJobs, JobsStep, PTL DEF Spec

(* THEOREM: a client that wakes because it was told finds its query        *)
(* answered; and unless queries are read row by row, the answer is that    *)
(* the database ran it.                                                    *)
THEOREM AnswerIsRealInvariant == Spec => []AnswerIsReal
<1>1. (Orderly => JobsInv) => AnswerIsReal
  BY DEF JobsInv, AnswerInv, AnswerIsReal, Real, Told
<1>2. QED
  BY <1>1, JobsInvariant, PTL

LEMMA RowsOwner ==
  ASSUME Types, JobsInv, NEW w \in Workers, rows[w] # NULL
  PROVE  /\ \E c \in Clients : mine[c] = rows[w]
         /\ \A v \in Workers : rows[v] = rows[w] => v = w
<1>1. \A v \in Workers : rows[v] = rows[w] => v = w
  BY DEF JobsInv, RowsInv
<1>2. CASE got[w] = rows[w] /\ IsFast(got[w])
  <2>1. Waiting(got[w])
    BY <1>2 DEF JobsInv, GotInv, Adrift
  <2>2. QED
    BY <1>1, <1>2, <2>1 DEF Waiting
<1>3. CASE \E c \in Clients : mine[c] = rows[w]
  BY <1>1, <1>3
<1>4. QED
  BY <1>2, <1>3 DEF JobsInv, RowsInv

(* THEOREM: while rows are open on a connection, and other queries are     *)
(* refused there, the client that reads them still has its job, and they   *)
(* are open on no other connection.                                        *)
THEOREM RowsHaveReaderInvariant == Spec => []RowsHaveReader
<1>1. Types /\ (Orderly => JobsInv) => RowsHaveReader
  BY RowsOwner DEF RowsHaveReader
<1>2. QED
  BY <1>1, JobsInvariant, PTL

---------------------------------------------------------------------------
(* Until the workers are stopped nothing is lost.                          *)
FrontInv ==
  \A w \in Workers : wpc[w] = "pop" =>
    Len(queue["fast"]) > 0 /\ queue["fast"][1] = got[w]
Queued(j) == \E i \in 1..Len(queue["fast"]) : queue["fast"][i] = j
PlaceInv ==
  \A c \in Clients : mine[c] # NULL =>
    \/ cpc[c] = "add" \/ Told(c) \/ mine[c] \in dropped
    \/ Queued(mine[c])
    \/ \E w \in Workers : Held(w) = mine[c]

LEMMA SameQueue ==
  ASSUME queue'["fast"] = queue["fast"] PROVE \A j : Queued(j)' <=> Queued(j)
BY DEF Queued

LEMMA QuietKeepsPlaces ==
  ASSUME Types, Quiet, FrontInv /\ PlaceInv PROVE FrontInv' /\ PlaceInv'
<1> USE DEF Quiet, work
<1>1. \A c \in Clients : Told(c)' <=> Told(c)
  BY DEF Told
<1>2. \A w \in Workers : Held(w)' = Held(w)
  BY DEF Held, Busy
<1>3. \A c \in Clients : cpc'[c] = "add" <=> cpc[c] = "add"
  OBVIOUS
<1>4. FrontInv'
  BY DEF FrontInv
<1>5. PlaceInv'
  BY <1>1, <1>2, <1>3, SameQueue DEF PlaceInv
<1>6. QED
  BY <1>4, <1>5

LEMMA ReadFrontKeepsPlaces ==
  ASSUME Types, JobsInv, FrontInv /\ PlaceInv, Orderly', NEW w \in Workers, ReadFront(w)
  PROVE  FrontInv' /\ PlaceInv'
<1> DEFINE q == queue["fast"]
<1> USE Names DEF Types, JobsInv, Pools
<1>1. /\ wpc[w] = "front" /\ UNCHANGED <<jobs, kind, cpc, mine, unheard, queue, dropped>>
      /\ q \in Seq(Jobs) /\ got[w] = NULL
  BY DEF ReadFront, WorkerGoes, client, GotInv, Busy
<1>2. \/ q = <<>> /\ wpc' = [wpc EXCEPT ![w] = "take"] /\ got' = got
      \/ /\ q # <<>> /\ wpc' = [wpc EXCEPT ![w] = "pop"] /\ got' = [got EXCEPT ![w] = Head(q)]
         /\ \A v \in Workers : wpc[v] # "pop"
  BY Zenon DEF ReadFront, WorkerGoes, Orderly
<1>3. \A v \in Workers : Held(v)' = Held(v)
  BY <1>1, <1>2 DEF Held
<1>4. PlaceInv'
  BY <1>1, <1>3, SameClients, SameQueue DEF PlaceInv
<1>5. FrontInv'
  <2>1. q # <<>> => Len(q) > 0 /\ Head(q) = q[1]
    BY <1>1
  <2>2. QED
    BY <1>1, <1>2, <2>1 DEF FrontInv
<1>6. QED
  BY <1>4, <1>5

(* The job that leaves the queue is the one the worker has.                *)
LEMMA PopKeepsPlaces ==
  ASSUME Types, JobsInv, FrontInv /\ PlaceInv, Orderly', NEW w \in Workers, Pop(w)
  PROVE  FrontInv' /\ PlaceInv'
<1> DEFINE q == queue["fast"]
<1> USE Names DEF Types, JobsInv, Pools
<1>1. /\ wpc[w] = "pop" /\ wpc' = [wpc EXCEPT ![w] = "take"]
      /\ UNCHANGED <<jobs, kind, cpc, mine, unheard, dropped, got>>
      /\ q # <<>> /\ q \in Seq(Jobs) /\ queue' = [queue EXCEPT !["fast"] = Tail(@)]
  BY DEF Pop, WorkerGoes, client
<1>2. Len(queue'["fast"]) = Len(q) - 1 /\ \A i \in 1..Len(q) - 1 : queue'["fast"][i] = q[i + 1]
  <2>1. queue'["fast"] = Tail(q)
    BY <1>1
  <2>2. QED
    BY <1>1, <2>1
<1>3. \A i \in 1..Len(q) : i = 1 \/ (i - 1 \in 1..Len(q) - 1 /\ queue'["fast"][i - 1] = q[i])
  BY <1>1, <1>2
<1>4. got[w] = q[1]
  BY <1>1 DEF FrontInv
<1>5. /\ Held(w)' = got[w] /\ Held(w) = NULL
      /\ \A v \in Workers : v # w => Held(v)' = Held(v) /\ wpc'[v] # "pop"
  BY <1>1 DEF Held, GotInv
<1>6. FrontInv'
  BY <1>1, <1>5 DEF FrontInv
<1>7. ASSUME NEW c \in Clients, mine[c] # NULL
      PROVE  \/ cpc[c] = "add" \/ Told(c) \/ mine[c] \in dropped
             \/ \A j : j = mine[c] => Queued(j)'
             \/ \E v \in Workers : Held(v)' = mine[c]
  <2>1. ASSUME NEW i \in 1..Len(q), q[i] = mine[c]
        PROVE  (\A j : j = mine[c] => Queued(j)') \/ Held(w)' = mine[c]
    <3>1. CASE i = 1
      BY <1>4, <1>5, <2>1, <3>1
    <3>2. CASE i # 1
      <4>1. i - 1 \in 1..Len(queue'["fast"]) /\ queue'["fast"][i - 1] = mine[c]
        BY <1>2, <1>3, <2>1, <3>2
      <4>2. QED
        BY <4>1 DEF Queued
    <3>3. QED
      BY <3>1, <3>2
  <2>2. CASE \E v \in Workers : Held(v) = mine[c]
    BY <1>5, <1>7, <2>2
  <2>3. QED
    BY <1>7, <2>1, <2>2 DEF PlaceInv, Queued
<1>8. PlaceInv'
  BY <1>1, <1>7, SameClients DEF PlaceInv
<1>9. QED
  BY <1>6, <1>8

LEMMA TakeSlowKeepsPlaces ==
  ASSUME Types, JobsInv, FrontInv /\ PlaceInv, NEW w \in Workers, TakeSlow(w)
  PROVE  FrontInv' /\ PlaceInv'
<1> USE Names DEF Types, JobsInv, Pools
<1>1. wpc[w] = "take" /\ UNCHANGED <<jobs, kind, cpc, mine, unheard>>
  BY DEF TakeSlow, WorkerGoes, client
<1>2. \/ /\ queue' = queue /\ got' = got /\ dropped' = dropped
         /\ wpc' = [wpc EXCEPT ![w] = IF got[w] = NULL THEN "loop" ELSE "work"]
      \/ /\ got' = [got EXCEPT ![w] = Head(queue["slow"])]
         /\ queue' = [queue EXCEPT !["slow"] = Tail(@)]
         /\ dropped' = dropped \cup ({got[w]} \ {NULL})
         /\ wpc' = [wpc EXCEPT ![w] = "work"]
  BY Zenon DEF TakeSlow, WorkerGoes
<1>3. /\ queue'["fast"] = queue["fast"]
      /\ \A v \in Workers : v # w => wpc'[v] = wpc[v] /\ got'[v] = got[v] /\ Held(v)' = Held(v)
      /\ wpc'[w] # "pop" /\ Held(w) = got[w]
      /\ Held(w)' = got[w] \/ got[w] \in dropped' \/ got[w] = NULL
      /\ dropped \subseteq dropped'
  BY <1>1, <1>2 DEF Held
<1>4. FrontInv'
  BY <1>3 DEF FrontInv
<1>5. PlaceInv'
  BY <1>1, <1>3, SameClients, SameQueue DEF PlaceInv
<1>6. QED
  BY <1>4, <1>5

LEMMA AnswerKeepsPlaces ==
  ASSUME Types, FrontInv /\ PlaceInv, NEW w \in Workers, MySQL_Work(w) \/ WriteResult(w)
  PROVE  FrontInv' /\ PlaceInv'
<1>1. /\ wpc[w] \in {"work", "answer"} /\ wpc' = [wpc EXCEPT ![w] = wpc'[w]]
      /\ wpc'[w] \in {"answer", "signal"}
      /\ UNCHANGED <<jobs, kind, cpc, mine, unheard, queue, dropped, got>>
  BY DEF Types, MySQL_Work, WriteResult, WorkerGoes, client
<1>2. \A v \in Workers : Held(v)' = Held(v) /\ (wpc'[v] = "pop" => wpc[v] = "pop")
  BY <1>1 DEF Types, Held
<1>3. QED
  BY <1>1, <1>2, SameClients, SameQueue DEF FrontInv, PlaceInv

(* The job the worker is done with is told to its client.                  *)
LEMMA SignalClientKeepsPlaces ==
  ASSUME Types, FrontInv /\ PlaceInv, NEW w \in Workers, SignalClient(w)
  PROVE  FrontInv' /\ PlaceInv'
<1> USE DEF Types
<1>1. /\ wpc[w] = "signal" /\ wpc' = [wpc EXCEPT ![w] = "loop"]
      /\ UNCHANGED <<mine, queue, dropped>> /\ got' = [got EXCEPT ![w] = NULL]
      /\ cpc' = [c \in Clients |-> IF mine[c] = got[w] /\ cpc[c] = "asleep"
                                  THEN "woke" ELSE cpc[c]]
      /\ unheard' = unheard \cup {c \in Clients : mine[c] = got[w] /\ cpc[c] # "asleep"}
  BY DEF SignalClient, WorkerGoes
<1>2. /\ Held(w) = got[w]
      /\ \A v \in Workers : v # w => Held(v)' = Held(v) /\ wpc'[v] = wpc[v] /\ got'[v] = got[v]
      /\ wpc'[w] # "pop"
  BY <1>1 DEF Held
<1>3. \A c \in Clients :
        /\ Told(c) \/ mine[c] = got[w] => Told(c)'
        /\ cpc[c] = "add" => cpc'[c] = "add"
  BY <1>1 DEF Told
<1>4. FrontInv'
  BY <1>1, <1>2 DEF FrontInv
<1>5. PlaceInv'
  BY <1>1, <1>2, <1>3, SameQueue DEF PlaceInv
<1>6. QED
  BY <1>4, <1>5

LEMMA QueryKeepsPlaces ==
  ASSUME Types, FrontInv /\ PlaceInv, NEW c \in Clients, Query(c)
  PROVE  FrontInv' /\ PlaceInv'
<1> USE DEF Types
<1>1. PICK j \in Jobs : mine' = [mine EXCEPT ![c] = j]
  BY DEF Query
<1>2. /\ cpc' = [cpc EXCEPT ![c] = "add"]
      /\ UNCHANGED <<wpc, queue, got, dropped, unheard>>
  BY DEF Query, ClientGoes
<1>3. \A w \in Workers : Held(w)' = Held(w)
  BY <1>2 DEF Held
<1>4. \A d \in Clients : d # c => (Told(d)' <=> Told(d))
                                  /\ mine'[d] = mine[d] /\ cpc'[d] = cpc[d]
  BY <1>1, <1>2 DEF Told
<1>5. FrontInv'
  BY <1>2 DEF FrontInv
<1>6. PlaceInv'
  <2>1. \A d \in Clients : mine[d] # NULL =>
          cpc[d] = "add" \/ Told(d) \/ mine[d] \in dropped \/ Queued(mine[d])
          \/ \E w \in Workers : Held(w) = mine[d]
    BY DEF PlaceInv
  <2>2. cpc'[c] = "add"
    BY <1>2
  <2>3. QED
    BY <1>2, <1>3, <1>4, <2>1, <2>2, SameQueue DEF PlaceInv
<1>7. QED
  BY <1>5, <1>6

LEMMA MySQL_AddKeepsPlaces ==
  ASSUME Types, FrontInv /\ PlaceInv, NEW c \in Clients, MySQL_Add(c)
  PROVE  FrontInv' /\ PlaceInv'
<1> DEFINE j == mine[c]
           q == queue["fast"]
           r == queue'["fast"]
<1> USE DEF Types
<1>1. /\ cpc[c] = "add" /\ cpc' = [cpc EXCEPT ![c] = "walk"] /\ j \in Jobs
      /\ queue' = [queue EXCEPT ![PoolOf(j)] = Append(@, j)]
      /\ mine' = IF IsFast(j) THEN mine ELSE [mine EXCEPT ![c] = NULL]
      /\ UNCHANGED <<wpc, got, dropped, unheard>>
  BY DEF MySQL_Add, ClientGoes
<1>2. q \in Seq(Jobs) /\ r = IF IsFast(j) THEN Append(q, j) ELSE q
  BY <1>1 DEF PoolOf, Pools
<1> HIDE DEF j, q, r
<1>3. /\ Len(q) \in Nat /\ Len(r) \in Nat /\ Len(r) >= Len(q)
      /\ \A i \in 1..Len(q) : r[i] = q[i]
      /\ IsFast(j) => Len(r) \in 1..Len(r) /\ r[Len(r)] = j
  BY <1>1, <1>2
<1>4. 1..Len(q) \subseteq 1..Len(r)
  BY <1>3
<1>5. \A w \in Workers : Held(w)' = Held(w)
  BY <1>1 DEF Held
<1>6. /\ \A d \in Clients : d # c => (Told(d)' <=> Told(d))
                                     /\ mine'[d] = mine[d] /\ cpc'[d] = cpc[d]
      /\ mine'[c] = IF IsFast(j) THEN j ELSE NULL
  BY <1>1 DEF Told, j
<1>7. FrontInv'
  <2>1. Len(q) > 0 => Len(r) > 0 /\ 1 \in 1..Len(q)
    BY <1>3
  <2>2. Len(q) > 0 => Len(r) > 0 /\ r[1] = q[1]
    BY <1>3, <2>1
  <2>3. QED
    BY <1>1, <2>2 DEF FrontInv, q, r
<1>8. PlaceInv'
  <2>1. \A x : Queued(x) => Queued(x)'
    BY <1>3, <1>4 DEF Queued, q, r
  <2>2. \A x : IsFast(j) /\ x = j => Queued(x)'
    BY <1>3 DEF Queued, r
  <2>3. QED
    BY <1>1, <1>5, <1>6, <2>1, <2>2 DEF PlaceInv
<1>9. QED
  BY <1>7, <1>8

LEMMA ClientSpuriousWakeKeepsPlaces ==
  ASSUME Types, FrontInv /\ PlaceInv, NEW c \in Clients, ClientSpuriousWake(c)
  PROVE  FrontInv' /\ PlaceInv'
<1>1. /\ cpc[c] = "asleep" /\ cpc' = [cpc EXCEPT ![c] = "woke"]
      /\ UNCHANGED <<wpc, got, dropped, unheard, queue, mine>>
  BY DEF ClientSpuriousWake, ClientGoes
<1>2. \A w \in Workers : Held(w)' = Held(w)
  BY <1>1 DEF Held
<1>3. \A d \in Clients : (Told(d) => Told(d)') /\ (cpc[d] = "add" => cpc'[d] = "add")
  BY <1>1 DEF Told, Types
<1>4. QED
  BY <1>1, <1>2, <1>3, SameQueue DEF FrontInv, PlaceInv

LEMMA ReturnKeepsPlaces ==
  ASSUME Types, JobsInv, FrontInv /\ PlaceInv, NEW c \in Clients, Return(c)
  PROVE  FrontInv' /\ PlaceInv'
<1> USE DEF Types
<1>1. /\ cpc[c] = "woke" /\ cpc' = [cpc EXCEPT ![c] = "idle"]
      /\ mine' = [mine EXCEPT ![c] = NULL] /\ unheard' = unheard \ {c}
      /\ dropped' = dropped \ {mine[c]} /\ UNCHANGED <<wpc, got, queue>>
  BY DEF Return, DeleteJob, ClientGoes
<1>2. mine[c] # NULL /\ \A d \in Clients : d # c => mine[d] # mine[c]
  BY <1>1 DEF JobsInv, MineInv
<1>3. \A w \in Workers : Held(w)' = Held(w)
  BY <1>1 DEF Held
<1>4. /\ \A d \in Clients : d # c => (Told(d)' <=> Told(d))
                                     /\ mine'[d] = mine[d] /\ cpc'[d] = cpc[d]
      /\ mine'[c] = NULL
  BY <1>1 DEF Told
<1>5. FrontInv'
  BY <1>1 DEF FrontInv
<1>6. PlaceInv'
  BY <1>1, <1>2, <1>3, <1>4, SameQueue DEF PlaceInv
<1>7. QED
  BY <1>5, <1>6

(* and the main thread never goes back to running. *)
LEMMA RunStays == [Next]_vars /\ mpc' = "run" => mpc = "run"
<1> SUFFICES ASSUME [Next]_vars, mpc' = "run" PROVE mpc = "run"
  OBVIOUS
<1> USE DEF main
<1>1. ASSUME NEW w \in Workers, MySQL_Init(w) PROVE mpc = "run"
  BY <1>1 DEF MySQL_Init
<1>2. ASSUME NEW w \in Workers, CheckInit(w) PROVE mpc = "run"
  BY <1>2 DEF CheckInit
<1>3. ASSUME NEW w \in Workers, SetInit(w) PROVE mpc = "run"
  BY <1>3 DEF SetInit
<1>4. ASSUME NEW w \in Workers, InitMutex(w) PROVE mpc = "run"
  BY <1>4 DEF InitMutex
<1>5. ASSUME NEW w \in Workers, CloseAdd(w) PROVE mpc = "run"
  BY <1>5 DEF CloseAdd
<1>6. ASSUME NEW w \in Workers, Link(w) PROVE mpc = "run"
  BY <1>6 DEF Link
<1>7. ASSUME NEW w \in Workers, ClearThread(w) PROVE mpc = "run"
  BY <1>7 DEF ClearThread
<1>8. ASSUME NEW w \in Workers, LoopTest(w) PROVE mpc = "run"
  BY <1>8 DEF LoopTest
<1>9. ASSUME NEW w \in Workers, LockFast(w) PROVE mpc = "run"
  BY <1>9 DEF LockFast
<1>10. ASSUME NEW w \in Workers, Look(w) PROVE mpc = "run"
  BY <1>10 DEF Look, LeaveFastQueue
<1>11. ASSUME NEW w \in Workers, ReadFront(w) PROVE mpc = "run"
  BY <1>11 DEF ReadFront, LeaveFastQueue
<1>12. ASSUME NEW w \in Workers, Pop(w) PROVE mpc = "run"
  BY <1>12 DEF Pop, LeaveFastQueue
<1>13. ASSUME NEW w \in Workers, TakeSlow(w) PROVE mpc = "run"
  BY <1>13 DEF TakeSlow
<1>14. ASSUME NEW w \in Workers, MySQL_Work(w) PROVE mpc = "run"
  BY <1>14 DEF MySQL_Work
<1>15. ASSUME NEW w \in Workers, WriteResult(w) PROVE mpc = "run"
  BY <1>15 DEF WriteResult
<1>16. ASSUME NEW w \in Workers, SignalClient(w) PROVE mpc = "run"
  BY <1>16 DEF SignalClient
<1>17. ASSUME NEW w \in Workers, Sleep(w) PROVE mpc = "run"
  BY <1>17 DEF Sleep
<1>18. ASSUME NEW w \in Workers, SpuriousWake(w) PROVE mpc = "run"
  BY <1>18 DEF SpuriousWake
<1>19. ASSUME NEW w \in Workers, Del(w) PROVE mpc = "run"
  BY <1>19 DEF Del
<1>20. ASSUME NEW w \in Workers, DelNull(w) PROVE mpc = "run"
  BY <1>20 DEF DelNull
<1>21. ASSUME NEW c \in Clients, Query(c) PROVE mpc = "run"
  BY <1>21 DEF Query, NewJob
<1>22. ASSUME NEW c \in Clients, MySQL_Add(c) PROVE mpc = "run"
  BY <1>22 DEF MySQL_Add, PoolOf
<1>23. ASSUME NEW c \in Clients, WalkStart(c) PROVE mpc = "run"
  BY <1>23 DEF WalkStart, WalkTo
<1>24. ASSUME NEW c \in Clients, WalkSignal(c) PROVE mpc = "run"
  BY <1>24 DEF WalkSignal, SignalWorker
<1>25. ASSUME NEW c \in Clients, WalkNext(c) PROVE mpc = "run"
  BY <1>25 DEF WalkNext, WalkTo
<1>26. ASSUME NEW c \in Clients, ClientSleep(c) PROVE mpc = "run"
  BY <1>26 DEF ClientSleep
<1>27. ASSUME NEW c \in Clients, ClientSpuriousWake(c) PROVE mpc = "run"
  BY <1>27 DEF ClientSpuriousWake
<1>28. ASSUME NEW c \in Clients, Return(c) PROVE mpc = "run"
  BY <1>28 DEF Return, CloseRows, DeleteJob
<1>29. ASSUME Close PROVE mpc = "run"
  BY <1>29 DEF Close
<1>30. ASSUME CleanupPick PROVE mpc = "run"
  BY <1>30 DEF CleanupPick
<1>31. ASSUME CleanupEnd PROVE mpc = "run"
  BY <1>31 DEF CleanupEnd
<1>32. ASSUME JoinStop PROVE mpc = "run"
  BY <1>32 DEF JoinStop
<1>33. ASSUME JoinSignal PROVE mpc = "run"
  BY <1>33 DEF JoinSignal, SignalWorker
<1>34. ASSUME JoinDone PROVE mpc = "run"
  BY <1>34 DEF JoinDone
<1>35. ASSUME Crash PROVE mpc = "run"
  BY <1>35 DEF Crash
<1>36. CASE UNCHANGED vars
  BY <1>36 DEF vars
<1>37. QED
  BY <1>1, <1>2, <1>3, <1>4, <1>5, <1>6, <1>7, <1>8, <1>9, <1>10, <1>11, <1>12, <1>13,
     <1>14, <1>15, <1>16, <1>17, <1>18, <1>19, <1>20, <1>21, <1>22, <1>23, <1>24, <1>25,
     <1>26, <1>27, <1>28, <1>29, <1>30, <1>31, <1>32, <1>33, <1>34, <1>35, <1>36
     DEF Next, Register, Serve, Unregister, Walk, Cleanup

LEMMA PlaceStep ==
  /\ Types /\ (Orderly => JobsInv) /\ (Orderly /\ mpc = "run" => FrontInv /\ PlaceInv)
  /\ [Next]_vars
  => (Orderly /\ mpc = "run" => FrontInv /\ PlaceInv)'
<1> SUFFICES ASSUME Types, JobsInv, FrontInv /\ PlaceInv, [Next]_vars, Orderly', mpc' = "run"
             PROVE  FrontInv' /\ PlaceInv'
  BY OrderlyStays, RunStays
<1>1. Quiet => FrontInv' /\ PlaceInv'
  BY QuietKeepsPlaces
<1>2. ASSUME NEW w \in Workers,
             Register(w) \/ LoopTest(w) \/ LockFast(w) \/ Serve(w) \/ Sleep(w)
             \/ SpuriousWake(w) \/ Unregister(w)
      PROVE  FrontInv' /\ PlaceInv'
  BY <1>1, <1>2, QuietSteps, ReadFrontKeepsPlaces, PopKeepsPlaces, TakeSlowKeepsPlaces,
     AnswerKeepsPlaces, SignalClientKeepsPlaces DEF Serve
<1>3. ASSUME NEW c \in Clients,
             Query(c) \/ MySQL_Add(c) \/ Walk(c) \/ ClientSleep(c)
             \/ ClientSpuriousWake(c) \/ Return(c)
      PROVE  FrontInv' /\ PlaceInv'
  BY <1>1, <1>3, QuietSteps, QueryKeepsPlaces, MySQL_AddKeepsPlaces,
     ClientSpuriousWakeKeepsPlaces, ReturnKeepsPlaces
<1>4. ASSUME Cleanup \/ Crash PROVE FrontInv' /\ PlaceInv'
  <2>1. ~CleanupEnd
    BY RunStays DEF CleanupEnd
  <2>2. QED
    BY <1>1, <1>4, <2>1, QuietSteps DEF Cleanup
<1>5. CASE UNCHANGED vars
  BY <1>1, <1>5, QuietSteps
<1>6. QED
  BY <1>2, <1>3, <1>4, <1>5 DEF Next

LEMMA InitPlace == Init => FrontInv /\ PlaceInv
BY DEF Init, FrontInv, PlaceInv

LEMMA PlaceInvariant ==
  Spec => [](/\ Types /\ (Orderly => JobsInv)
             /\ Orderly /\ mpc = "run" => FrontInv /\ PlaceInv)
<1>1. Init => FrontInv /\ PlaceInv
  BY InitPlace
<1>2. QED
  BY <1>1, InitTypes, TypesStep, InitJobs, JobsStep, PlaceStep, PTL DEF Spec

(* The places in which a query can be found. *)
Places(c) ==
  {<<"queue", i>> : i \in {k \in DOMAIN queue["fast"] : queue["fast"][k] = mine[c]}}
  \cup {<<"worker", w>> : w \in {v \in Workers : Held(v) = mine[c]}}
  \cup (IF cpc[c] = "add" THEN {<<"client", c>>} ELSE {})
  \cup (IF Told(c) THEN {<<"told", c>>} ELSE {})
  \cup (IF mine[c] \in dropped THEN {<<"dropped", c>>} ELSE {})

(* A query that waits in the queue or with a worker has a client that was  *)
(* not told, and is in no second place.                                    *)
LEMMA OnePlace ==
  ASSUME Types, JobsInv, PlaceInv, NEW c \in Clients, mine[c] # NULL
  PROVE  Cardinality(Places(c)) = 1
<1> DEFINE j == mine[c]
           q == queue["fast"]
<1>1. j \in Jobs /\ q \in Seq(Jobs) /\ DOMAIN q = 1..Len(q)
  BY DEF Types, Pools
<1>2. Told(c) => cpc[c] # "add"
  BY DEF Told, JobsInv, MineInv
<1>3. Told(c) \/ cpc[c] = "add" => ~Waiting(j) /\ ~Adrift(j)
  BY <1>2 DEF Waiting, Adrift, JobsInv, MineInv
<1>4. \A i \in 1..Len(q) : q[i] = j =>
        Waiting(j) /\ j \notin dropped /\ \A k \in 1..Len(q) : q[k] = j => k = i
  BY DEF JobsInv, QueueInv, DroppedInv
<1>5. j \in dropped => Waiting(j)
  BY DEF JobsInv, DroppedInv
<1>6. ~Adrift(j)
  BY DEF Adrift
<1>7. ASSUME NEW w \in Workers, Held(w) = j
      PROVE  /\ Waiting(j) /\ j \notin dropped /\ \A v \in Workers : Held(v) = j => v = w
             /\ \A i \in 1..Len(q) : q[i] # j
  <2>1. got[w] = j /\ wpc[w] # "pop" /\ \A v \in Workers : Held(v) = j => got[v] = j
    BY <1>7 DEF Held
  <2>2. Waiting(j) /\ IsFast(j)
    BY <1>6, <2>1 DEF JobsInv, GotInv, Waiting
  <2>3. QED
    BY <1>1, <2>1, <2>2 DEF JobsInv, GotInv
<1>8. \E x : Places(c) = {x}
  <2>1. CASE \E i \in 1..Len(q) : q[i] = j
    <3>1. PICK i \in 1..Len(q) : q[i] = j
      BY <2>1
    <3>2. Places(c) = {<<"queue", i>>}
      BY <1>1, <1>2, <1>3, <1>4, <1>7, <3>1 DEF Places
    <3>3. QED
      BY <3>2
  <2>2. CASE \E w \in Workers : Held(w) = j
    <3>1. PICK w \in Workers : Held(w) = j
      BY <2>2
    <3>2. Places(c) = {<<"worker", w>>}
      BY <1>1, <1>2, <1>3, <1>7, <3>1 DEF Places
    <3>3. QED
      BY <3>2
  <2>3. CASE cpc[c] = "add" \/ Told(c)
    <3>1. /\ \A w \in Workers : Held(w) # j
          /\ \A i \in 1..Len(q) : q[i] # j
          /\ j \notin dropped
      BY <1>3, <1>4, <1>5, <1>7, <2>3
    <3>2. Places(c) = {<<IF Told(c) THEN "told" ELSE "client", c>>}
      BY <1>1, <1>2, <2>3, <3>1 DEF Places
    <3>3. QED
      BY <3>2
  <2>4. CASE j \in dropped
    <3>1. Places(c) = {<<"dropped", c>>}
      BY <1>1, <1>3, <1>4, <1>5, <1>7, <2>4 DEF Places
    <3>2. QED
      BY <3>1
  <2>5. QED
    BY <2>1, <2>2, <2>3, <2>4 DEF PlaceInv, Queued
<1>9. QED
  BY <1>8, FS_Singleton

(* THEOREM: until shutdown every query that has a client is with its       *)
(* client, in the queue, with a worker, answered or dropped, and in no two *)
(* of these places.                                                        *)
THEOREM QueryHasOnePlaceInvariant == Spec => []QueryHasOnePlace
<1>1. /\ Types /\ (Orderly => JobsInv)
      /\ Orderly /\ mpc = "run" => FrontInv /\ PlaceInv
      => QueryHasOnePlace
  BY OnePlace DEF QueryHasOnePlace, Places
<1>2. QED
  BY <1>1, PlaceInvariant, PTL

---------------------------------------------------------------------------
(* Until the workers are stopped the registries only grow, and every walk  *)
(* is at an entry.                                                         *)
WalkInv ==
  /\ reg \in [Pools -> Seq(Workers)]
  /\ cursor = [c \in Clients |-> cursor[c]]
  /\ \A w \in Workers : run[w] /\ wpc[w] \notin {"del", "del_null"}
  /\ \A c \in Clients : cpc[c] \in {"signal", "next"} =>
       \E i \in 1..Len(reg[at[c]]) : reg[at[c]][i] = cursor[c]
SlowInv == \A c \in Clients : at[c] = "slow" => "slow" \in Kinds

LEMMA SlowStep == Types /\ SlowInv /\ [Next]_vars => SlowInv'
<1> SUFFICES ASSUME Types, SlowInv, [Next]_vars PROVE SlowInv'
  OBVIOUS
<1> USE Names DEF Types, SlowInv, WorkerGoes, ClientGoes, Pools, client
<1>1. ASSUME NEW w \in Workers, MySQL_Init(w) PROVE SlowInv'
  BY <1>1 DEF MySQL_Init
<1>2. ASSUME NEW w \in Workers, CheckInit(w) PROVE SlowInv'
  BY <1>2 DEF CheckInit
<1>3. ASSUME NEW w \in Workers, SetInit(w) PROVE SlowInv'
  BY <1>3 DEF SetInit
<1>4. ASSUME NEW w \in Workers, InitMutex(w) PROVE SlowInv'
  BY <1>4 DEF InitMutex
<1>5. ASSUME NEW w \in Workers, CloseAdd(w) PROVE SlowInv'
  BY <1>5 DEF CloseAdd
<1>6. ASSUME NEW w \in Workers, Link(w) PROVE SlowInv'
  BY <1>6 DEF Link
<1>7. ASSUME NEW w \in Workers, ClearThread(w) PROVE SlowInv'
  BY <1>7 DEF ClearThread
<1>8. ASSUME NEW w \in Workers, LoopTest(w) PROVE SlowInv'
  BY <1>8 DEF LoopTest
<1>9. ASSUME NEW w \in Workers, LockFast(w) PROVE SlowInv'
  BY <1>9 DEF LockFast
<1>10. ASSUME NEW w \in Workers, Look(w) PROVE SlowInv'
  BY <1>10 DEF Look, LeaveFastQueue
<1>11. ASSUME NEW w \in Workers, ReadFront(w) PROVE SlowInv'
  BY <1>11 DEF ReadFront, LeaveFastQueue
<1>12. ASSUME NEW w \in Workers, Pop(w) PROVE SlowInv'
  BY <1>12 DEF Pop, LeaveFastQueue
<1>13. ASSUME NEW w \in Workers, TakeSlow(w) PROVE SlowInv'
  BY <1>13 DEF TakeSlow
<1>14. ASSUME NEW w \in Workers, MySQL_Work(w) PROVE SlowInv'
  BY <1>14 DEF MySQL_Work
<1>15. ASSUME NEW w \in Workers, WriteResult(w) PROVE SlowInv'
  BY <1>15 DEF WriteResult
<1>16. ASSUME NEW w \in Workers, SignalClient(w) PROVE SlowInv'
  BY <1>16 DEF SignalClient
<1>17. ASSUME NEW w \in Workers, Sleep(w) PROVE SlowInv'
  BY <1>17 DEF Sleep
<1>18. ASSUME NEW w \in Workers, SpuriousWake(w) PROVE SlowInv'
  BY <1>18 DEF SpuriousWake
<1>19. ASSUME NEW w \in Workers, Del(w) PROVE SlowInv'
  BY <1>19 DEF Del
<1>20. ASSUME NEW w \in Workers, DelNull(w) PROVE SlowInv'
  BY <1>20 DEF DelNull
<1>21. ASSUME NEW c \in Clients, Query(c) PROVE SlowInv'
  BY <1>21 DEF Query, NewJob
<1>22. ASSUME NEW c \in Clients, MySQL_Add(c) PROVE SlowInv'
  <2>1. mine[c] \in Jobs /\ at' = [at EXCEPT ![c] = PoolOf(mine[c])]
    BY <1>22 DEF MySQL_Add
  <2>2. PoolOf(mine[c]) = "slow" => "slow" \in Kinds
    BY <2>1 DEF PoolOf, IsFast
  <2>3. QED
    BY <2>1, <2>2
<1>23. ASSUME NEW c \in Clients, WalkStart(c) PROVE SlowInv'
  <2>1. at' = at \/ at' = [at EXCEPT ![c] = "fast"]
    BY <1>23 DEF WalkStart, WalkTo
  <2>2. QED
    BY <2>1
<1>24. ASSUME NEW c \in Clients, WalkSignal(c) PROVE SlowInv'
  BY <1>24 DEF WalkSignal, SignalWorker
<1>25. ASSUME NEW c \in Clients, WalkNext(c) PROVE SlowInv'
  <2>1. at' = at \/ at' = [at EXCEPT ![c] = "fast"]
    BY <1>25 DEF WalkNext, WalkTo
  <2>2. QED
    BY <2>1
<1>26. ASSUME NEW c \in Clients, ClientSleep(c) PROVE SlowInv'
  BY <1>26 DEF ClientSleep
<1>27. ASSUME NEW c \in Clients, ClientSpuriousWake(c) PROVE SlowInv'
  BY <1>27 DEF ClientSpuriousWake
<1>28. ASSUME NEW c \in Clients, Return(c) PROVE SlowInv'
  BY <1>28 DEF Return, CloseRows, DeleteJob
<1>29. ASSUME Close PROVE SlowInv'
  BY <1>29 DEF Close
<1>30. ASSUME CleanupPick PROVE SlowInv'
  BY <1>30 DEF CleanupPick
<1>31. ASSUME CleanupEnd PROVE SlowInv'
  BY <1>31 DEF CleanupEnd
<1>32. ASSUME JoinStop PROVE SlowInv'
  BY <1>32 DEF JoinStop
<1>33. ASSUME JoinSignal PROVE SlowInv'
  BY <1>33 DEF JoinSignal, SignalWorker
<1>34. ASSUME JoinDone PROVE SlowInv'
  BY <1>34 DEF JoinDone
<1>35. ASSUME Crash PROVE SlowInv'
  BY <1>35 DEF Crash
<1>36. CASE UNCHANGED vars
  BY <1>36 DEF vars
<1>37. QED
  BY <1>1, <1>2, <1>3, <1>4, <1>5, <1>6, <1>7, <1>8, <1>9, <1>10, <1>11, <1>12, <1>13,
     <1>14, <1>15, <1>16, <1>17, <1>18, <1>19, <1>20, <1>21, <1>22, <1>23, <1>24, <1>25,
     <1>26, <1>27, <1>28, <1>29, <1>30, <1>31, <1>32, <1>33, <1>34, <1>35, <1>36
     DEF Next, Register, Serve, Unregister, Walk, Cleanup

(* What a walk sees of a registry that only grows. *)
LEMMA GrowingRegistry ==
  ASSUME Types, WalkInv, NEW w \in Workers, Link(w)
  PROVE  WalkInv'
<1> USE Names DEF Types, WalkInv
<1>1. /\ Target(w) \in Pools /\ reg' = [reg EXCEPT ![Target(w)] = Append(@, w)]
      /\ \E to \in {"clear", "loop"} : wpc' = [wpc EXCEPT ![w] = to]
      /\ UNCHANGED <<run, cpc, at, cursor>>
  BY DEF Link, WorkerGoes, Target, Pools, client
<1>2. \A p \in Pools : reg'[p] = reg[p] \/ reg'[p] = Append(reg[p], w)
  BY <1>1
<1>3. ASSUME NEW p \in Pools
      PROVE  /\ reg'[p] \in Seq(Workers)
             /\ \A i \in 1..Len(reg[p]) :
                  i \in 1..Len(reg'[p]) /\ reg'[p][i] = reg[p][i]
  <2> DEFINE s == reg[p]
  <2>1. s \in Seq(Workers)
    OBVIOUS
  <2>2. reg'[p] = s \/ reg'[p] = Append(s, w)
    BY <1>2
  <2> HIDE DEF s
  <2>3. CASE reg'[p] = s
    BY <2>1, <2>3 DEF s
  <2>4. CASE reg'[p] = Append(s, w)
    <3>1. /\ reg'[p] \in Seq(Workers) /\ Len(reg'[p]) = Len(s) + 1
          /\ \A i \in 1..Len(s) : reg'[p][i] = s[i]
      BY <2>1, <2>4
    <3>2. Len(s) \in Nat
      BY <2>1
    <3>3. QED
      BY <3>1, <3>2 DEF s
  <2>5. QED
    BY <2>2, <2>3, <2>4
<1>4. \A p \in Pools : \A i \in 1..Len(reg[p]) :
        i \in 1..Len(reg'[p]) /\ reg'[p][i] = reg[p][i]
  BY <1>3
<1>5. reg' \in [Pools -> Seq(Workers)]
  BY <1>1, <1>3
<1>6. \A v \in Workers : wpc'[v] \notin {"del", "del_null"}
  BY <1>1
<1>7. QED
  BY <1>1, <1>4, <1>5, <1>6

(* A walk goes from entry to entry. *)
LEMMA WalkToKeepsWalks ==
  ASSUME Types, WalkInv, NEW c \in Clients, NEW from, NEW n, WalkTo(c, from, n),
         n # NULL => \E i \in 1..Len(reg[at[c]]) : reg[at[c]][i] = n
  PROVE  WalkInv'
<1> USE DEF Types, WalkInv
<1>1. cursor' = [cursor EXCEPT ![c] = n] /\ UNCHANGED <<reg, wpc, run>>
  BY DEF WalkTo, pool
<1>2. \A d \in Clients : d # c => cpc'[d] = cpc[d] /\ at'[d] = at[d] /\ cursor'[d] = cursor[d]
  BY DEF WalkTo, ClientGoes
<1>3. cpc'[c] \in {"signal", "next"} => n # NULL /\ at'[c] = at[c] /\ cursor'[c] = n
  <2>1. \/ n # NULL /\ at' = at
        \/ n = NULL /\ cpc' = [cpc EXCEPT ![c] = "walk"]
        \/ \E to \in {"idle", "pre_wait"} : n = NULL /\ cpc' = [cpc EXCEPT ![c] = to]
    BY DEF WalkTo, ClientGoes
  <2>2. cpc'[c] \in {"signal", "next"} => n # NULL /\ at' = at
    BY <2>1
  <2>3. cursor'[c] = n
    BY <1>1
  <2>4. QED
    BY <2>2, <2>3, Zenon
<1>4. /\ reg' \in [Pools -> Seq(Workers)] /\ cursor' = [d \in Clients |-> cursor'[d]]
      /\ \A w \in Workers : run'[w] /\ wpc'[w] \notin {"del", "del_null"}
  BY <1>1
<1>5. ASSUME NEW d \in Clients, cpc'[d] \in {"signal", "next"}
      PROVE  \E i \in 1..Len(reg'[at'[d]]) : reg'[at'[d]][i] = cursor'[d]
  <2>1. CASE d = c
    BY <1>1, <1>3, <1>5, <2>1
  <2>2. CASE d # c
    <3>1. \E i \in 1..Len(reg[at[d]]) : reg[at[d]][i] = cursor[d]
      BY <1>2, <1>5, <2>2
    <3>2. QED
      BY <1>1, <1>2, <2>2, <3>1
  <2>3. QED
    BY <2>1, <2>2
<1>6. QED
  BY <1>4, <1>5

LEMMA WalkStep ==
  Types /\ (mpc = "run" => WalkInv) /\ [Next]_vars => (mpc = "run" => WalkInv)'
<1> SUFFICES ASSUME Types, WalkInv, [Next]_vars, mpc' = "run" PROVE WalkInv'
  BY RunStays
<1> USE Names DEF Types, WorkerGoes, ClientGoes, work, pool, client, main
<1>1. ASSUME NEW w \in Workers, MySQL_Init(w) PROVE WalkInv'
  <2>1. /\ UNCHANGED <<reg, cpc, at, cursor, run>>
        /\ \A v \in Workers : wpc'[v] \notin {"del", "del_null"}
    BY <1>1 DEF WalkInv, MySQL_Init
  <2>2. QED
    BY <2>1 DEF WalkInv
<1>2. ASSUME NEW w \in Workers, CheckInit(w) PROVE WalkInv'
  <2>1. /\ UNCHANGED <<reg, cpc, at, cursor, run>>
        /\ \A v \in Workers : wpc'[v] \notin {"del", "del_null"}
    BY <1>2 DEF WalkInv, CheckInit
  <2>2. QED
    BY <2>1 DEF WalkInv
<1>3. ASSUME NEW w \in Workers, SetInit(w) PROVE WalkInv'
  <2>1. /\ UNCHANGED <<reg, cpc, at, cursor, run>>
        /\ \A v \in Workers : wpc'[v] \notin {"del", "del_null"}
    BY <1>3 DEF WalkInv, SetInit
  <2>2. QED
    BY <2>1 DEF WalkInv
<1>4. ASSUME NEW w \in Workers, InitMutex(w) PROVE WalkInv'
  <2>1. /\ UNCHANGED <<reg, cpc, at, cursor, run>>
        /\ \A v \in Workers : wpc'[v] \notin {"del", "del_null"}
    BY <1>4 DEF WalkInv, InitMutex
  <2>2. QED
    BY <2>1 DEF WalkInv
<1>5. ASSUME NEW w \in Workers, CloseAdd(w) PROVE WalkInv'
  <2>1. /\ UNCHANGED <<reg, cpc, at, cursor, run>>
        /\ \A v \in Workers : wpc'[v] \notin {"del", "del_null"}
    BY <1>5 DEF WalkInv, CloseAdd
  <2>2. QED
    BY <2>1 DEF WalkInv
<1>6. ASSUME NEW w \in Workers, Link(w) PROVE WalkInv'
  BY <1>6, GrowingRegistry
<1>7. ASSUME NEW w \in Workers, ClearThread(w) PROVE WalkInv'
  <2>1. /\ UNCHANGED <<reg, cpc, at, cursor, run>>
        /\ \A v \in Workers : wpc'[v] \notin {"del", "del_null"}
    BY <1>7 DEF WalkInv, ClearThread
  <2>2. QED
    BY <2>1 DEF WalkInv
<1>8. ASSUME NEW w \in Workers, LoopTest(w) PROVE WalkInv'
  <2>1. /\ UNCHANGED <<reg, cpc, at, cursor, run>>
        /\ \A v \in Workers : wpc'[v] \notin {"del", "del_null"}
    BY <1>8 DEF WalkInv, LoopTest
  <2>2. QED
    BY <2>1 DEF WalkInv
<1>9. ASSUME NEW w \in Workers, LockFast(w) PROVE WalkInv'
  <2>1. /\ UNCHANGED <<reg, cpc, at, cursor, run>>
        /\ \A v \in Workers : wpc'[v] \notin {"del", "del_null"}
    BY <1>9 DEF WalkInv, LockFast
  <2>2. QED
    BY <2>1 DEF WalkInv
<1>10. ASSUME NEW w \in Workers, Look(w) PROVE WalkInv'
  <2>1. /\ UNCHANGED <<reg, cpc, at, cursor, run>>
        /\ \A v \in Workers : wpc'[v] \notin {"del", "del_null"}
    BY <1>10 DEF WalkInv, Look, LeaveFastQueue
  <2>2. QED
    BY <2>1 DEF WalkInv
<1>11. ASSUME NEW w \in Workers, ReadFront(w) PROVE WalkInv'
  <2>1. /\ UNCHANGED <<reg, cpc, at, cursor, run>>
        /\ \A v \in Workers : wpc'[v] \notin {"del", "del_null"}
    BY <1>11 DEF WalkInv, ReadFront, LeaveFastQueue
  <2>2. QED
    BY <2>1 DEF WalkInv
<1>12. ASSUME NEW w \in Workers, Pop(w) PROVE WalkInv'
  <2>1. /\ UNCHANGED <<reg, cpc, at, cursor, run>>
        /\ \A v \in Workers : wpc'[v] \notin {"del", "del_null"}
    BY <1>12 DEF WalkInv, Pop, LeaveFastQueue
  <2>2. QED
    BY <2>1 DEF WalkInv
<1>13. ASSUME NEW w \in Workers, TakeSlow(w) PROVE WalkInv'
  <2>1. /\ UNCHANGED <<reg, cpc, at, cursor, run>>
        /\ \A v \in Workers : wpc'[v] \notin {"del", "del_null"}
    BY <1>13 DEF WalkInv, TakeSlow
  <2>2. QED
    BY <2>1 DEF WalkInv
<1>14. ASSUME NEW w \in Workers, MySQL_Work(w) PROVE WalkInv'
  <2>1. /\ UNCHANGED <<reg, cpc, at, cursor, run>>
        /\ \A v \in Workers : wpc'[v] \notin {"del", "del_null"}
    BY <1>14 DEF WalkInv, MySQL_Work
  <2>2. QED
    BY <2>1 DEF WalkInv
<1>15. ASSUME NEW w \in Workers, WriteResult(w) PROVE WalkInv'
  <2>1. /\ UNCHANGED <<reg, cpc, at, cursor, run>>
        /\ \A v \in Workers : wpc'[v] \notin {"del", "del_null"}
    BY <1>15 DEF WalkInv, WriteResult
  <2>2. QED
    BY <2>1 DEF WalkInv
<1>16. ASSUME NEW w \in Workers, SignalClient(w) PROVE WalkInv'
  <2>1. /\ UNCHANGED <<reg, at, cursor, run>>
        /\ \A v \in Workers : wpc'[v] \notin {"del", "del_null"}
        /\ \A d \in Clients : cpc'[d] = cpc[d] \/ cpc'[d] = "woke"
    BY <1>16 DEF WalkInv, SignalClient
  <2>2. QED
    BY <2>1 DEF WalkInv
<1>17. ASSUME NEW w \in Workers, Sleep(w) PROVE WalkInv'
  <2>1. /\ UNCHANGED <<reg, cpc, at, cursor, run>>
        /\ \A v \in Workers : wpc'[v] \notin {"del", "del_null"}
    BY <1>17 DEF WalkInv, Sleep
  <2>2. QED
    BY <2>1 DEF WalkInv
<1>18. ASSUME NEW w \in Workers, SpuriousWake(w) PROVE WalkInv'
  <2>1. /\ UNCHANGED <<reg, cpc, at, cursor, run>>
        /\ \A v \in Workers : wpc'[v] \notin {"del", "del_null"}
    BY <1>18 DEF WalkInv, SpuriousWake
  <2>2. QED
    BY <2>1 DEF WalkInv
<1>19. ASSUME NEW w \in Workers, Del(w) PROVE WalkInv'
  <2>1. /\ UNCHANGED <<reg, cpc, at, cursor, run>>
        /\ \A v \in Workers : wpc'[v] \notin {"del", "del_null"}
    BY <1>19 DEF WalkInv, Del
  <2>2. QED
    BY <2>1 DEF WalkInv
<1>20. ASSUME NEW w \in Workers, DelNull(w) PROVE WalkInv'
  <2>1. /\ UNCHANGED <<reg, cpc, at, cursor, run>>
        /\ \A v \in Workers : wpc'[v] \notin {"del", "del_null"}
    BY <1>20 DEF WalkInv, DelNull
  <2>2. QED
    BY <2>1 DEF WalkInv
<1>21. ASSUME NEW c \in Clients, Query(c) PROVE WalkInv'
  BY <1>21 DEF WalkInv, Query, NewJob
<1>22. ASSUME NEW c \in Clients, MySQL_Add(c) PROVE WalkInv'
  BY <1>22 DEF WalkInv, MySQL_Add, PoolOf
<1>23. ASSUME NEW c \in Clients, WalkStart(c) PROVE WalkInv'
  <2> DEFINE s == reg[at[c]]
  <2>1. s \in Seq(Workers)
    BY DEF WalkInv
  <2>2. FirstOf(s) # NULL => \E i \in 1..Len(s) : s[i] = FirstOf(s)
    BY <2>1 DEF FirstOf
  <2>3. QED
    BY <2>2, <1>23, WalkToKeepsWalks DEF WalkStart
<1>24. ASSUME NEW c \in Clients, WalkSignal(c) PROVE WalkInv'
  BY <1>24 DEF WalkInv, WalkSignal, SignalWorker
<1>25. ASSUME NEW c \in Clients, WalkNext(c) PROVE WalkInv'
  <2> DEFINE s == reg[at[c]]
             k == CHOOSE i \in DOMAIN s : s[i] = cursor[c]
  <2>1. s \in Seq(Workers) /\ DOMAIN s = 1..Len(s)
    BY DEF WalkInv
  <2>2. k \in 1..Len(s)
    BY <2>1, <1>25 DEF WalkNext, Present, InSeq
  <2>3. NextIn(s, cursor[c]) = IF k < Len(s) THEN s[k + 1] ELSE NULL
    BY DEF NextIn
  <2> HIDE DEF k
  <2>4. NextIn(s, cursor[c]) # NULL => \E i \in 1..Len(s) : s[i] = NextIn(s, cursor[c])
    BY <2>1, <2>2, <2>3
  <2>5. QED
    BY <2>4, <1>25, WalkToKeepsWalks DEF WalkNext
<1>26. ASSUME NEW c \in Clients, ClientSleep(c) PROVE WalkInv'
  BY <1>26 DEF WalkInv, ClientSleep
<1>27. ASSUME NEW c \in Clients, ClientSpuriousWake(c) PROVE WalkInv'
  BY <1>27 DEF WalkInv, ClientSpuriousWake
<1>28. ASSUME NEW c \in Clients, Return(c) PROVE WalkInv'
  BY <1>28 DEF WalkInv, Return, CloseRows, DeleteJob
<1>29. ASSUME Close PROVE WalkInv'
  BY <1>29 DEF WalkInv, Close
<1>30. ASSUME CleanupPick PROVE WalkInv'
  BY <1>30 DEF WalkInv, CleanupPick
<1>31. ASSUME CleanupEnd PROVE WalkInv'
  BY <1>31 DEF WalkInv, CleanupEnd
<1>32. ASSUME JoinStop PROVE WalkInv'
  BY <1>32 DEF WalkInv, JoinStop
<1>33. ASSUME JoinSignal PROVE WalkInv'
  BY <1>33 DEF WalkInv, JoinSignal, SignalWorker
<1>34. ASSUME JoinDone PROVE WalkInv'
  BY <1>34 DEF WalkInv, JoinDone
<1>35. ASSUME Crash PROVE WalkInv'
  BY <1>35 DEF WalkInv, Crash
<1>36. CASE UNCHANGED vars
  BY <1>36 DEF WalkInv, vars
<1>37. QED
  BY <1>1, <1>2, <1>3, <1>4, <1>5, <1>6, <1>7, <1>8, <1>9, <1>10, <1>11, <1>12, <1>13,
     <1>14, <1>15, <1>16, <1>17, <1>18, <1>19, <1>20, <1>21, <1>22, <1>23, <1>24, <1>25,
     <1>26, <1>27, <1>28, <1>29, <1>30, <1>31, <1>32, <1>33, <1>34, <1>35, <1>36
     DEF Next, Register, Serve, Unregister, Walk, Cleanup

(* What has ended the process. *)
CrashInv == crash # "none" => "slow" \in Kinds /\ crash \in {"walk_null", "double_free"}

LEMMA CrashStep ==
  /\ Types /\ SlowInv /\ (Orderly => JobsInv)
  /\ Orderly /\ mpc = "run" => FrontInv /\ PlaceInv
  /\ mpc = "run" => WalkInv
  /\ Orderly /\ mpc = "run" => CrashInv
  /\ [Next]_vars
  => (Orderly /\ mpc = "run" => CrashInv)'
<1> SUFFICES ASSUME Types, SlowInv, JobsInv, FrontInv, WalkInv, mpc = "run", CrashInv,
                    [Next]_vars
             PROVE  CrashInv'
  BY OrderlyStays, RunStays
<1>1. CASE UNCHANGED crash
  BY <1>1 DEF CrashInv
<1>2. ASSUME NEW w \in Workers, WorkerFault(w) PROVE CrashInv'
  <2>1. ~(wpc[w] = "pop" /\ queue["fast"] = <<>>)
    BY DEF FrontInv
  <2>2. wpc[w] \in Busy => got[w] \in jobs
    BY DEF JobsInv, GotInv, Waiting, Adrift
  <2>3. got[w] \in jobs /\ ~IsFast(got[w]) => "slow" \in Kinds
    BY DEF Types, IsFast
  <2>4. QED
    BY <1>2, <2>1, <2>2, <2>3 DEF WorkerFault, CrashInv, Busy
<1>3. ASSUME NEW c \in Clients, ClientFault(c) PROVE CrashInv'
  <2>1. cpc[c] \in {"signal", "next"} => Present(c)
    <3>1. reg[at[c]] \in Seq(Workers)
      BY DEF Types, WalkInv
    <3>2. QED
      BY <3>1 DEF WalkInv, Present, InSeq
  <2>2. NoThread(c) => "slow" \in Kinds
    BY DEF NoThread, SlowInv
  <2>3. QED
    BY <1>3, <2>1, <2>2 DEF ClientFault, CrashInv
<1>4. ~MainFault
  BY DEF MainFault
<1>5. QED
  BY <1>1, <1>2, <1>3, <1>4 DEF Next, Crash, vars

(* THEOREM: while the server runs, as long as no client woke early and no  *)
(* two workers removed a job at once, only a slow query can end the        *)
(* process.                                                                *)
THEOREM OnlySlowQueriesCrashInvariant == Spec => []OnlySlowQueriesCrash
<1>1. Init => SlowInv /\ WalkInv /\ CrashInv
  <2>1. Init => SlowInv /\ CrashInv
    BY DEF Init, SlowInv, CrashInv
  <2>2. Init => WalkInv
    BY Names DEF Init, WalkInv, Pools
  <2>3. QED
    BY <2>1, <2>2
<1>2. (Orderly /\ mpc = "run" => CrashInv) => OnlySlowQueriesCrash
  BY DEF CrashInv, OnlySlowQueriesCrash
<1>3. QED
  BY <1>1, <1>2, PlaceInvariant, SlowStep, WalkStep, CrashStep, PTL DEF Spec
=============================================================================
