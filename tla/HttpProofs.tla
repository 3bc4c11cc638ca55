----------------------------- MODULE HttpProofs -----------------------------
(***************************************************************************)
(* Proofs about the pool (FixedThread), about the HTTP requests that its   *)
(* workers take (HttpD), and about the answer to one (HttpReply), for any  *)
(* number of workers, listeners and requests, and for any pages and        *)
(* settings.  The pool comes first, and nothing said of it rests on what   *)
(* HttpD adds; HttpReply rests on neither.                                 *)
(***************************************************************************)
EXTENDS HttpD, HttpReply, SequenceTheorems, NaturalsInduction, WellFoundedInduction, TLAPS


(* Every action preserves TypeOK. *)
LEMMA TypeStep ==
  ASSUME TypeOK, [Next]_vars
  PROVE  TypeOK'
<1> USE DEF TypeOK, WorkerPC, CallerPC, MainPC, list, mutex, WorkerGoes,
            CallerGoes, MainGoes, Lock, Unlock, Valid, SignalWorker
<1>1. ASSUME NEW w \in Workers, Register(w), UNCHANGED crash
      PROVE  TypeOK'
  <2>1. CASE CheckInit(w)  BY <1>1, <2>1 DEF CheckInit
  <2>2. CASE SetInit(w)    BY <1>1, <2>2 DEF SetInit
  <2>3. CASE InitMutex(w)  BY <1>1, <2>3 DEF InitMutex
  <2>4. CASE CloseAdd(w)   BY <1>1, <2>4 DEF CloseAdd
  <2>5. CASE AddLock(w)    BY <1>1, <2>5 DEF AddLock
  <2>6. CASE AddTest(w)    BY <1>1, <2>6 DEF AddTest
  <2>7. CASE AddLink(w)    BY <1>1, <2>7 DEF AddLink
  <2> QED BY <1>1, <2>1, <2>2, <2>3, <2>4, <2>5, <2>6, <2>7 DEF Register
<1>2. ASSUME NEW w \in Workers, Serve(w), UNCHANGED crash
      PROVE  TypeOK'
  <2>1. CASE LoopTest(w)     BY <1>2, <2>1 DEF LoopTest
  <2>2. CASE QLock(w)        BY <1>2, <2>2 DEF QLock
  <2>3. CASE QEmpty(w)       BY <1>2, <2>3 DEF QEmpty, QLeave
  <2>4. CASE QFront(w)       BY <1>2, <2>4 DEF QFront
  <2>5. CASE QTake(w)        BY <1>2, <2>5 DEF QTake, QLeave
  <2>6. CASE WorkDone(w)     BY <1>2, <2>6 DEF WorkDone
  <2>7. CASE Sleep(w)        BY <1>2, <2>7 DEF Sleep
  <2>8. CASE SpuriousWake(w) BY <1>2, <2>8 DEF SpuriousWake
  <2> QED BY <1>2, <2>1, <2>2, <2>3, <2>4, <2>5, <2>6, <2>7, <2>8 DEF Serve
<1>3. ASSUME NEW w \in Workers, Unregister(w), UNCHANGED crash
      PROVE  TypeOK'
  <2>1. CASE DelLock(w)   BY <1>3, <2>1 DEF DelLock
  <2>2. CASE DelUnlink(w) BY <1>3, <2>2 DEF DelUnlink
  <2>3. CASE DelFree(w)   BY <1>3, <2>3 DEF DelFree
  <2> QED BY <1>3, <2>1, <2>2, <2>3 DEF Unregister
<1>4. ASSUME NEW c \in Callers, UNCHANGED crash,
             Arrive(c) \/ CallerLock(c) \/ Push(c) \/ Walk(c)
      PROVE  TypeOK'
  <2>1. CASE Arrive(c)     BY <1>4, <2>1 DEF Arrive
  <2>2. CASE CallerLock(c) BY <1>4, <2>2 DEF CallerLock
  <2>3. CASE Push(c)       BY <1>4, <2>3 DEF Push
  <2>4. CASE WalkStart(c)  BY <1>4, <2>4 DEF WalkStart, WalkTo
  <2>5. CASE WalkSignal(c) BY <1>4, <2>5 DEF WalkSignal
  <2>6. CASE WalkNext(c)   BY <1>4, <2>6 DEF WalkNext, WalkTo
  <2> QED BY <1>4, <2>1, <2>2, <2>3, <2>4, <2>5, <2>6 DEF Walk
<1>5. ASSUME Cleanup, UNCHANGED crash
      PROVE  TypeOK'
  <2>1. CASE CleanupStart   BY <1>5, <2>1 DEF CleanupStart
  <2>2. CASE CleanupLock    BY <1>5, <2>2 DEF CleanupLock
  <2>3. CASE CleanupTest    BY <1>5, <2>3 DEF CleanupTest
  <2>4. CASE CleanupPick    BY <1>5, <2>4 DEF CleanupPick
  <2>5. CASE JoinStop       BY <1>5, <2>5 DEF JoinStop
  <2>6. CASE JoinSignal     BY <1>5, <2>6 DEF JoinSignal
  <2>7. CASE JoinReadId     BY <1>5, <2>7 DEF JoinReadId
  <2>8. CASE JoinDone       BY <1>5, <2>8 DEF JoinDone
  <2>9. CASE CleanupDestroy BY <1>5, <2>9, ZenonT(30) DEF CleanupDestroy
  <2> QED BY <1>5, <2>1, <2>2, <2>3, <2>4, <2>5, <2>6, <2>7, <2>8, <2>9
          DEF Cleanup
<1>6. CASE Crash
  BY <1>6 DEF Crash, WorkerFaults, CallerFaults, MainFaults
<1>7. CASE UNCHANGED vars
  BY <1>7 DEF vars
<1> QED BY <1>1, <1>2, <1>3, <1>4, <1>5, <1>6, <1>7 DEF Next

(* The initial state is well typed. *)
LEMMA InitType == Init => TypeOK
<1> SUFFICES ASSUME Init PROVE TypeOK
  OBVIOUS
<1>1. /\ wpc \in [Workers -> WorkerPC] /\ cpc \in [Callers -> CallerPC]
      /\ mpc \in MainPC
  BY DEF Init, WorkerPC, CallerPC, MainPC
<1>2. /\ next \in [Workers -> Workers \cup {NULL}]
      /\ prev \in [Workers -> Workers \cup {NULL}]
      /\ seen \in [Workers -> Workers \cup {NULL}]
      /\ cursor \in [Callers -> Workers \cup {NULL}]
  BY DEF Init, NoLinks
<1>3. /\ run \in [Workers -> BOOLEAN] /\ ticket \in [Workers -> Nat]
      /\ missed \in [Workers -> SUBSET {"add", "stop"}] /\ clock \in Nat
  BY DEF Init
<1> QED BY <1>1, <1>2, <1>3 DEF Init, TypeOK

(* Type correctness of the pool. *)
THEOREM TypeCorrect == Spec => []TypeOK
<1>1. TypeOK /\ [Next]_vars => TypeOK'
  BY TypeStep
<1> QED BY InitType, <1>1, PTL DEF Spec

---------------------------------------------------------------------------
(* The inductive invariant.                                                *)

BeforeLink == {"check_init", "set_init", "init_mutex", "close_add",
               "add_lock", "add_test", "add_link"}
LeavingPC  == {"del_lock", "del_unlink", "del_free", "exit"}

(* The mutex protects the critical sections until it is broken. *)
LockInv ==
  ~broken => /\ mtx # "destroyed"
             /\ mtx = "free" => Inside = {}
             /\ \A t, u \in Inside : t = u

(* The registry is in order, and no node the lock protects is out of date: *)
(* tickets tell the order of registration, a node that is not yet linked   *)
(* points nowhere, and threads[0] is what Fixed_thread_Add read.           *)
ListInv ==
  ~broken =>
    /\ RegistryInOrder
    /\ \A u \in Linked : ticket[u] < clock
    /\ \A u, v \in Linked : ticket[u] = ticket[v] => u = v
    /\ \A w \in Workers : wpc[w] \in BeforeLink =>
         next[w] = NULL /\ prev[w] = NULL
    /\ \A w \in Workers : wpc[w] = "add_link" => seen[w] = head

(* A worker leaves only when the main thread told it to, and the main      *)
(* thread tells the next one only when the last one is gone.               *)
StopInv ==
  /\ \A w \in Workers : wpc[w] \in LeavingPC => ~run[w]
  /\ freed \subseteq {w \in Workers : wpc[w] = "exit"}
  /\ \A w \in Workers : ~run[w] =>
       wpc[w] = "exit" \/ (joining = w /\ mpc \in {"j_signal", "j_id", "j_wait"})
  /\ mpc = "run" => \A w \in Workers : run[w]
  /\ mpc \in {"j_run", "j_signal", "j_id", "j_wait"} => joining \in Workers
  /\ mpc \in {"j_signal", "j_id", "j_wait"} => ~run[joining]
  /\ ~broken => /\ mpc = "c_pick" => head # NULL
                /\ mpc = "j_run" => run[joining]
  /\ \A c \in Callers : cpc[c] \in {"w_signal", "w_next"} => cursor[c] # NULL

(* A joined worker that can still fall asleep has missed its wake-up. *)
WakeInv ==
  mpc \in {"j_id", "j_wait"} =>
    (wpc[joining] \in {"q_lock", "q_in", "pre_wait", "asleep"} =>
       "stop" \in missed[joining])

IInv == /\ TypeOK /\ LockInv /\ ListInv /\ StopInv /\ WakeInv
        /\ FaultsOnlyInShutdown

---------------------------------------------------------------------------
(* Every action preserves the part about the mutex.                        *)
LEMMA LockStep ==
  ASSUME TypeOK, LockInv, [Next]_vars
  PROVE  LockInv'
<1> USE ThreadsAssumption DEF TypeOK, LockInv, Inside, WorkerGoes, CallerGoes,
        MainGoes, Lock, Unlock, list, mutex
<1>1. ASSUME NEW w \in Workers, Register(w)
      PROVE  LockInv'
  <2>1. CASE CheckInit(w)  BY <2>1 DEF CheckInit
  <2>2. CASE SetInit(w)    BY <2>2 DEF SetInit
  <2>3. CASE InitMutex(w)  BY <2>3, ZenonT(30) DEF InitMutex
  <2>4. CASE CloseAdd(w)   BY <2>4 DEF CloseAdd
  <2>5. CASE AddLock(w)    BY <2>5 DEF AddLock
  <2>6. CASE AddTest(w)    BY <2>6 DEF AddTest
  <2>7. CASE AddLink(w)    BY <2>7 DEF AddLink
  <2> QED BY <1>1, <2>1, <2>2, <2>3, <2>4, <2>5, <2>6, <2>7 DEF Register
<1>2. ASSUME NEW w \in Workers, Serve(w)
      PROVE  LockInv'
  <2>1. CASE LoopTest(w)     BY <2>1 DEF LoopTest
  <2>2. CASE QLock(w)        BY <2>2 DEF QLock
  <2>3. CASE QEmpty(w)       BY <2>3 DEF QEmpty, QLeave
  <2>4. CASE QFront(w)       BY <2>4 DEF QFront
  <2>5. CASE QTake(w)        BY <2>5 DEF QTake, QLeave
  <2>6. CASE WorkDone(w)     BY <2>6 DEF WorkDone
  <2>7. CASE Sleep(w)        BY <2>7 DEF Sleep
  <2>8. CASE SpuriousWake(w) BY <2>8 DEF SpuriousWake
  <2> QED BY <1>2, <2>1, <2>2, <2>3, <2>4, <2>5, <2>6, <2>7, <2>8 DEF Serve
<1>3. ASSUME NEW w \in Workers, Unregister(w)
      PROVE  LockInv'
  <2>1. CASE DelLock(w)   BY <2>1 DEF DelLock
  <2>2. CASE DelUnlink(w) BY <2>2 DEF DelUnlink
  <2>3. CASE DelFree(w)   BY <2>3 DEF DelFree
  <2> QED BY <1>3, <2>1, <2>2, <2>3 DEF Unregister
<1>4. ASSUME NEW c \in Callers, Arrive(c) \/ CallerLock(c) \/ Push(c) \/ Walk(c)
      PROVE  LockInv'
  <2>1. CASE Arrive(c)     BY <2>1 DEF Arrive
  <2>2. CASE CallerLock(c) BY <2>2 DEF CallerLock
  <2>3. CASE Push(c)       BY <2>3 DEF Push
  <2>4. CASE WalkStart(c)  BY <2>4 DEF WalkStart, WalkTo
  <2>5. CASE WalkSignal(c) BY <2>5 DEF WalkSignal, SignalWorker
  <2>6. CASE WalkNext(c)   BY <2>6 DEF WalkNext, WalkTo
  <2> QED BY <1>4, <2>1, <2>2, <2>3, <2>4, <2>5, <2>6 DEF Walk
<1>5. ASSUME Cleanup
      PROVE  LockInv'
  <2>1. CASE CleanupStart   BY <2>1 DEF CleanupStart
  <2>2. CASE CleanupLock    BY <2>2 DEF CleanupLock
  <2>3. CASE CleanupTest    BY <2>3 DEF CleanupTest
  <2>4. CASE CleanupPick    BY <2>4 DEF CleanupPick
  <2>5. CASE JoinStop       BY <2>5 DEF JoinStop
  <2>6. CASE JoinSignal     BY <2>6 DEF JoinSignal, SignalWorker
  <2>7. CASE JoinReadId     BY <2>7 DEF JoinReadId
  <2>8. CASE JoinDone       BY <2>8 DEF JoinDone
  <2>9. CASE CleanupDestroy BY <2>9 DEF CleanupDestroy
  <2> QED BY <1>5, <2>1, <2>2, <2>3, <2>4, <2>5, <2>6, <2>7, <2>8, <2>9
          DEF Cleanup
<1>6. CASE Crash
  BY <1>6 DEF Crash
<1>7. CASE UNCHANGED vars
  BY <1>7 DEF vars
<1> QED BY <1>1, <1>2, <1>3, <1>4, <1>5, <1>6, <1>7 DEF Next

---------------------------------------------------------------------------
(* Every action preserves the part about shutdown.  The registry matters   *)
(* once: the node the main thread picks belongs to a worker that runs.     *)
LEMMA StopStep ==
  ASSUME TypeOK, ListInv, StopInv, [Next]_vars
  PROVE  StopInv'
<1> USE NullAssumption DEF TypeOK, StopInv, LeavingPC, WorkerGoes, CallerGoes,
        MainGoes, Valid, list, mutex
<1>1. ASSUME NEW w \in Workers, Register(w)
      PROVE  StopInv'
  <2>1. CASE CheckInit(w)  BY <2>1 DEF CheckInit
  <2>2. CASE SetInit(w)    BY <2>2 DEF SetInit
  <2>3. CASE InitMutex(w)  BY <2>3 DEF InitMutex
  <2>4. CASE CloseAdd(w)   BY <2>4 DEF CloseAdd
  <2>5. CASE AddLock(w)    BY <2>5 DEF AddLock
  <2>6. CASE AddTest(w)    BY <2>6 DEF AddTest
  <2>7. CASE AddLink(w)    BY <2>7 DEF AddLink
  <2> QED BY <1>1, <2>1, <2>2, <2>3, <2>4, <2>5, <2>6, <2>7 DEF Register
<1>2. ASSUME NEW w \in Workers, Serve(w)
      PROVE  StopInv'
  <2>1. CASE LoopTest(w)     BY <2>1 DEF LoopTest
  <2>2. CASE QLock(w)        BY <2>2 DEF QLock
  <2>3. CASE QEmpty(w)       BY <2>3 DEF QEmpty, QLeave
  <2>4. CASE QFront(w)       BY <2>4 DEF QFront
  <2>5. CASE QTake(w)        BY <2>5 DEF QTake, QLeave
  <2>6. CASE WorkDone(w)     BY <2>6 DEF WorkDone
  <2>7. CASE Sleep(w)        BY <2>7 DEF Sleep
  <2>8. CASE SpuriousWake(w) BY <2>8 DEF SpuriousWake
  <2> QED BY <1>2, <2>1, <2>2, <2>3, <2>4, <2>5, <2>6, <2>7, <2>8 DEF Serve
<1>3. ASSUME NEW w \in Workers, Unregister(w)
      PROVE  StopInv'
  <2>1. CASE DelLock(w)   BY <2>1 DEF DelLock
  <2>2. CASE DelUnlink(w) BY <2>2 DEF DelUnlink
  <2>3. CASE DelFree(w)   BY <2>3 DEF DelFree
  <2> QED BY <1>3, <2>1, <2>2, <2>3 DEF Unregister
<1>4. ASSUME NEW c \in Callers, Arrive(c) \/ CallerLock(c) \/ Push(c) \/ Walk(c)
      PROVE  StopInv'
  <2>1. CASE Arrive(c)     BY <2>1 DEF Arrive
  <2>2. CASE CallerLock(c) BY <2>2 DEF CallerLock
  <2>3. CASE Push(c)       BY <2>3 DEF Push
  <2>4. CASE WalkStart(c)  BY <2>4 DEF WalkStart, WalkTo
  <2>5. CASE WalkSignal(c) BY <2>5 DEF WalkSignal, SignalWorker
  <2>6. CASE WalkNext(c)   BY <2>6 DEF WalkNext, WalkTo
  <2> QED BY <1>4, <2>1, <2>2, <2>3, <2>4, <2>5, <2>6 DEF Walk
<1>5. ASSUME Cleanup
      PROVE  StopInv'
  <2>1. CASE CleanupStart   BY <2>1 DEF CleanupStart
  <2>2. CASE CleanupLock    BY <2>2 DEF CleanupLock
  <2>3. CASE CleanupTest    BY <2>3 DEF CleanupTest
  <2>4. CASE CleanupPick
    <3>1. ~broken => run[head]
      BY <2>4 DEF CleanupPick, ListInv, RegistryInOrder, Linked, LinkedPC
    <3> QED BY <2>4, <3>1 DEF CleanupPick
  <2>5. CASE JoinStop       BY <2>5 DEF JoinStop
  <2>6. CASE JoinSignal     BY <2>6 DEF JoinSignal, SignalWorker
  <2>7. CASE JoinReadId     BY <2>7 DEF JoinReadId
  <2>8. CASE JoinDone       BY <2>8 DEF JoinDone
  <2>9. CASE CleanupDestroy BY <2>9 DEF CleanupDestroy
  <2> QED BY <1>5, <2>1, <2>2, <2>3, <2>4, <2>5, <2>6, <2>7, <2>8, <2>9
          DEF Cleanup
<1>6. CASE Crash
  BY <1>6 DEF Crash
<1>7. CASE UNCHANGED vars
  BY <1>7 DEF vars
<1> QED BY <1>1, <1>2, <1>3, <1>4, <1>5, <1>6, <1>7 DEF Next

---------------------------------------------------------------------------
(* A step that leaves the list alone, and the set of linked workers,       *)
(* preserves the part about the registry.                                  *)
LEMMA QuietList ==
  ASSUME TypeOK, TypeOK', ListInv, broken => broken',
         UNCHANGED <<head, tail, next, prev, ticket, clock>>,
         Linked' = Linked,
         \A w \in Workers : wpc'[w] \in BeforeLink => wpc[w] \in BeforeLink,
         \A w \in Workers : wpc'[w] = "add_link" =>
           wpc[w] = "add_link" /\ seen'[w] = seen[w]
  PROVE  ListInv'
BY DEF ListInv, RegistryInOrder, Follows

(* The worker alone in the critical section adds its node at the end. *)
LEMMA LinkInOrder ==
  ASSUME TypeOK, LockInv, ListInv, StopInv, NEW w \in Workers, AddLink(w)
  PROVE  ListInv'
<1> SUFFICES ASSUME ~broken PROVE ListInv'
  BY DEF AddLink, ListInv
<1> USE DEF TypeOK
<1>1. wpc[w] = "add_link" /\ wpc' = [wpc EXCEPT ![w] = "loop"]
  BY DEF AddLink, WorkerGoes
<1>2. /\ w \notin Linked /\ Linked' = Linked \cup {w}
      /\ Linked \subseteq Workers
  BY <1>1 DEF Linked, LinkedPC
<1>3. next[w] = NULL /\ prev[w] = NULL /\ seen[w] = head
  BY <1>1 DEF ListInv, BeforeLink
<1>4. /\ tail' = w /\ clock' = clock + 1
      /\ ticket' = [ticket EXCEPT ![w] = clock]
      /\ UNCHANGED <<broken, seen>>
  BY DEF AddLink
<1>5. \A v \in Workers : wpc[v] \in {"add_link"} => v = w
  BY <1>1 DEF LockInv, Inside
<1>6. /\ \A u \in Linked' : ticket'[u] < clock'
      /\ \A u, v \in Linked' : ticket'[u] = ticket'[v] => u = v
      /\ \A u \in Linked : ticket'[u] = ticket[u] /\ ticket'[u] < ticket'[w]
      /\ ticket' \in [Workers -> Nat]
  BY <1>2, <1>4 DEF ListInv
<1>7. CASE head = NULL
  <2>1. Linked = {}
    BY <1>7 DEF ListInv, RegistryInOrder
  <2>2. head' = w /\ UNCHANGED <<next, prev>>
    BY <1>3, <1>7 DEF AddLink
  <2>3. RegistryInOrder'
    BY <2>1, <2>2, <1>2, <1>3, <1>4, NullAssumption DEF RegistryInOrder, Follows
  <2> QED BY <2>2, <2>3, <1>1, <1>3, <1>4, <1>5, <1>6 DEF ListInv, BeforeLink
<1>8. CASE head # NULL
  <2>1. head \in Linked /\ tail \in Linked /\ tail # w
    BY <1>2, <1>8 DEF ListInv, RegistryInOrder
  <2>2. /\ head' = head
        /\ next' = [next EXCEPT ![tail] = w]
        /\ prev' = [prev EXCEPT ![w] = tail]
    BY <1>3, <1>8 DEF AddLink
  <2>3. \A u \in Linked : ticket[u] <= ticket[tail]
    BY <1>2, <2>1, NullAssumption DEF ListInv, RegistryInOrder
  <2>4. \A u \in Linked : u # tail => next'[u] = next[u] /\ next[u] # NULL
    <3> SUFFICES ASSUME NEW u \in Linked, u # tail, next[u] = NULL PROVE FALSE
      BY <1>2, <2>2
    <3>1. ticket[tail] <= ticket[u]
      BY <2>1 DEF ListInv, RegistryInOrder, Follows
    <3> QED BY <3>1, <1>2, <2>1, <2>3 DEF ListInv
  <2>5. \A u \in Linked' : Follows(u, next[u])'
    <3>1. Follows(w, next[w])'
      BY <1>2, <1>3, <1>6, <2>1, <2>2, NullAssumption DEF Follows
    <3>2. ASSUME NEW u \in Linked, u = tail PROVE Follows(u, next[u])'
      BY <3>2, <1>2, <1>6, <2>1, <2>2, <2>3, NullAssumption DEF Follows
    <3>3. ASSUME NEW u \in Linked, u # tail PROVE Follows(u, next[u])'
      <4>1. Follows(u, next[u]) /\ next[u] # NULL /\ next'[u] = next[u]
        BY <2>4, <3>3 DEF ListInv, RegistryInOrder
      <4> QED BY <4>1, <3>3, <1>2, <1>6, NullAssumption DEF Follows
    <3> QED BY <3>1, <3>2, <3>3, <1>2
  <2>6. \A u \in Linked' :
          IF prev'[u] = NULL THEN u = head'
                             ELSE prev'[u] \in Linked' /\ next'[prev'[u]] = u
    <3>1. ASSUME NEW u \in Linked, prev[u] # NULL
          PROVE  prev[u] \in Linked /\ next'[prev[u]] = u
      <4>1. prev[u] \in Linked /\ next[prev[u]] = u /\ u # w
        BY <3>1, <1>2 DEF ListInv, RegistryInOrder
      <4>2. prev[u] # tail
        BY <4>1, <3>1, <1>2, <2>3, NullAssumption DEF ListInv, RegistryInOrder, Follows
      <4> QED BY <4>1, <4>2, <2>4
    <3>2. ASSUME NEW u \in Linked, prev[u] = NULL PROVE u = head
      BY <3>2 DEF ListInv, RegistryInOrder
    <3> QED BY <3>1, <3>2, <1>2, <2>1, <2>2, NullAssumption
  <2>7. /\ head' \in Linked' /\ \A v \in Linked' : ticket'[head'] <= ticket'[v]
        /\ tail' \in Linked' /\ \A v \in Linked' : ticket'[v] <= ticket'[tail']
    BY <1>2, <1>4, <1>6, <2>1, <2>2, NullAssumption DEF ListInv, RegistryInOrder
  <2>8. RegistryInOrder'
    BY <2>5, <2>6, <2>7, <2>1, <1>4, <2>2, <1>8, NullAssumption DEF RegistryInOrder
  <2> QED BY <2>2, <2>8, <1>1, <1>2, <1>3, <1>4, <1>5, <1>6, <2>1
          DEF ListInv, BeforeLink, Linked, LinkedPC
<1> QED BY <1>7, <1>8

(* The worker alone in the critical section takes its node out. *)
LEMMA UnlinkInOrder ==
  ASSUME TypeOK, LockInv, ListInv, NEW w \in Workers, DelUnlink(w)
  PROVE  ListInv'
<1> SUFFICES ASSUME ~broken PROVE ListInv'
  BY DEF DelUnlink, ListInv
<1> DEFINE p == prev[w]
           n == next[w]
<1> USE DEF TypeOK
<1>1. wpc[w] = "del_unlink" /\ wpc' = [wpc EXCEPT ![w] = "del_free"]
  BY DEF DelUnlink, WorkerGoes
<1>2. /\ w \in Linked /\ Linked' = Linked \ {w}
      /\ Linked \subseteq Workers
  BY <1>1 DEF Linked, LinkedPC
<1>3. /\ next' = IF p # NULL THEN [next EXCEPT ![p] = n] ELSE next
      /\ head' = IF p # NULL THEN head ELSE n
      /\ prev' = IF n # NULL THEN [prev EXCEPT ![n] = p] ELSE prev
      /\ tail' = IF n # NULL THEN tail ELSE p
      /\ UNCHANGED <<broken, seen, ticket, clock>>
  BY DEF DelUnlink, list
<1>4. \A v \in Workers : wpc[v] # "add_link"
  BY <1>1 DEF LockInv, Inside
<1>5. /\ \A u \in Linked : Follows(u, next[u])
      /\ \A u \in Linked : prev[u] # NULL => prev[u] \in Linked /\ next[prev[u]] = u
      /\ \A u \in Linked : prev[u] = NULL => u = head
      /\ \A u, v \in Linked : ticket[u] = ticket[v] => u = v
      /\ head \in Linked /\ \A v \in Linked : ticket[head] <= ticket[v]
      /\ tail \in Linked /\ \A v \in Linked : ticket[v] <= ticket[tail]
  BY <1>2 DEF ListInv, RegistryInOrder
(* Only the predecessor points forward to w, only its successor back. *)
<1>6. \A u \in Linked : next[u] = w => u = p
  <2> SUFFICES ASSUME NEW u \in Linked, next[u] = w PROVE u = p
    OBVIOUS
  <2>1. Follows(u, w)
    BY <1>5
  <2>2. CASE p = NULL
    BY <1>2, <1>5, <2>1, <2>2, NullAssumption DEF Follows
  <2>3. CASE p # NULL
    <3>1. p \in Linked /\ Follows(p, w)
      BY <1>2, <1>5, <2>3
    <3> QED BY <1>2, <1>5, <2>1, <3>1, NullAssumption DEF Follows
  <2> QED BY <2>2, <2>3
<1>7. \A u \in Linked : prev[u] = w => u = n
  BY <1>2, <1>5, NullAssumption
<1>8. n # w /\ p # w
  BY <1>2, <1>5, NullAssumption DEF Follows
<1>9. n # NULL => n \in Linked /\ prev[n] = w
  <2> SUFFICES ASSUME n # NULL PROVE n \in Linked /\ prev[n] = w
    OBVIOUS
  <2>1. n \in Linked /\ Follows(w, n)
    BY <1>2, <1>5 DEF Follows
  <2>2. prev[n] # NULL
    BY <1>2, <1>5, <2>1, NullAssumption DEF Follows
  <2>3. prev[n] \in Linked /\ Follows(prev[n], n)
    BY <1>5, <2>1, <2>2
  <2> QED BY <1>2, <1>5, <2>1, <2>3, NullAssumption, SMTT(20) DEF Follows
<1>10. \A u \in Linked' : Follows(u, next[u])'
  <2>1. ASSUME NEW u \in Linked, u # w, u # p PROVE Follows(u, next[u])'
    <3>1. next'[u] = next[u] /\ next[u] # w /\ Follows(u, next[u])
      BY <1>2, <1>3, <1>5, <1>6, <2>1
    <3> QED BY <3>1, <1>2, <1>3 DEF Follows
  <2>2. ASSUME NEW u \in Linked, u = p PROVE Follows(u, next[u])'
    <3>1. u # NULL /\ next[u] = w /\ next'[u] = n
      BY <1>2, <1>3, <1>5, <2>2, NullAssumption
    <3>2. Follows(u, w) /\ Follows(w, n)
      BY <1>2, <1>5, <3>1
    <3>3. \A v \in Linked' : ticket[v] <= ticket[u] \/ ticket[w] < ticket[v]
      BY <3>2, <1>2, <1>5, NullAssumption DEF Follows
    <3>4. CASE n = NULL
      <4>1. \A v \in Linked' : ticket[v] <= ticket[u]
        BY <3>2, <3>3, <3>4, <1>2 DEF Follows
      <4> QED BY <4>1, <3>1, <3>4, <1>3 DEF Follows
    <3>5. CASE n # NULL
      <4>1. n \in Linked' /\ ticket[w] < ticket[n] /\ ticket[u] < ticket[w]
        BY <3>2, <3>5, <1>2, <1>8, NullAssumption DEF Follows
      <4>2. \A v \in Linked' : ticket[v] <= ticket[u] \/ ticket[n] <= ticket[v]
        BY <3>2, <3>3, <3>5, <1>2 DEF Follows
      <4>3. ticket[u] < ticket[n]
        BY <4>1, <1>2, <2>2
      <4> QED BY <4>1, <4>2, <4>3, <3>1, <3>5, <1>3 DEF Follows
    <3> QED BY <3>4, <3>5
  <2> QED BY <1>2, <2>1, <2>2
<1>11. \A u \in Linked' :
         IF prev'[u] = NULL THEN u = head'
                            ELSE prev'[u] \in Linked' /\ next'[prev'[u]] = u
  <2>1. ASSUME NEW u \in Linked, u # w, u # n
        PROVE  IF prev'[u] = NULL THEN u = head'
                            ELSE prev'[u] \in Linked' /\ next'[prev'[u]] = u
    <3>1. prev'[u] = prev[u] /\ prev[u] # w
      BY <1>2, <1>3, <1>7, <2>1
    <3>2. CASE prev[u] = NULL
      BY <3>1, <3>2, <1>2, <1>3, <1>5, <2>1
    <3>3. CASE prev[u] # NULL
      <4>1. prev[u] \in Linked /\ next[prev[u]] = u /\ prev[u] # p
        BY <1>2, <1>5, <2>1, <3>3
      <4> QED BY <3>1, <3>3, <4>1, <1>2, <1>3
    <3> QED BY <3>2, <3>3
  <2>2. ASSUME NEW u \in Linked, u = n
        PROVE  IF prev'[u] = NULL THEN u = head'
                            ELSE prev'[u] \in Linked' /\ next'[prev'[u]] = u
    <3>1. n # NULL /\ prev'[u] = p
      BY <1>2, <1>3, <2>2, NullAssumption
    <3>2. CASE p = NULL
      BY <3>1, <3>2, <1>3, <2>2
    <3>3. CASE p # NULL
      <4>1. p \in Linked' /\ next'[p] = n
        BY <3>3, <1>2, <1>3, <1>5, <1>8
      <4> QED BY <3>1, <3>3, <4>1, <2>2
    <3> QED BY <3>2, <3>3
  <2> QED BY <1>2, <2>1, <2>2
<1>12. /\ head' = NULL => Linked' = {}
       /\ head' # NULL => head' \in Linked' /\ \A v \in Linked' : ticket'[head'] <= ticket'[v]
  <2>1. CASE p # NULL
    BY <2>1, <1>2, <1>3, <1>5, NullAssumption DEF Follows
  <2>2. CASE p = NULL
    <3>1. w = head /\ head' = n /\ Follows(w, n)
      BY <2>2, <1>2, <1>3, <1>5
    <3>2. \A v \in Linked' : ticket[w] < ticket[v]
      BY <3>1, <1>2, <1>5
    <3>3. CASE n = NULL
      BY <3>1, <3>2, <3>3, <1>2 DEF Follows
    <3>4. CASE n # NULL
      BY <3>1, <3>2, <3>4, <1>2, <1>3, <1>8, <1>9 DEF Follows
    <3> QED BY <3>3, <3>4
  <2> QED BY <2>1, <2>2
<1>13. /\ tail' = NULL => Linked' = {}
       /\ tail' # NULL => tail' \in Linked' /\ \A v \in Linked' : ticket'[v] <= ticket'[tail']
  <2>1. CASE n # NULL
    BY <2>1, <1>2, <1>3, <1>5, NullAssumption DEF Follows
  <2>2. CASE n = NULL
    <3>1. tail' = p /\ \A v \in Linked : ticket[v] <= ticket[w]
      BY <2>2, <1>2, <1>3, <1>5 DEF Follows
    <3>2. p # NULL => p \in Linked /\ Follows(p, w)
      BY <1>2, <1>5
    <3>3. p = NULL => Linked = {w}
      BY <1>2, <1>5, <3>1
    <3> QED BY <3>1, <3>2, <3>3, <1>2, <1>3, <1>5, <1>8, NullAssumption DEF Follows
  <2> QED BY <2>1, <2>2
<1>14. RegistryInOrder'
  BY <1>10, <1>11, <1>12, <1>13, <1>3 DEF RegistryInOrder
<1>15. \A v \in Workers : wpc'[v] \in BeforeLink =>
         v \notin Linked /\ v # w /\ wpc[v] \in BeforeLink
  BY <1>1 DEF BeforeLink, Linked, LinkedPC
<1>16. \A v \in Workers : wpc'[v] \in BeforeLink => next'[v] = NULL /\ prev'[v] = NULL
  BY <1>2, <1>3, <1>5, <1>9, <1>15 DEF ListInv
<1> QED BY <1>1, <1>2, <1>3, <1>4, <1>14, <1>16 DEF ListInv

(* Every action preserves the part about the registry. *)
LEMMA ListStep ==
  ASSUME TypeOK, LockInv, ListInv, StopInv, [Next]_vars
  PROVE  ListInv'
<1>t. TypeOK'
  BY TypeStep
<1> USE <1>t DEF BeforeLink, WorkerGoes, CallerGoes, MainGoes, list, mutex
<1>1. ASSUME NEW w \in Workers, Register(w), ~AddLink(w)
      PROVE  ListInv'
  <2>1. Linked' = Linked
    BY <1>1 DEF Register, CheckInit, SetInit, InitMutex, CloseAdd, AddLock, AddTest,
       Linked, LinkedPC, TypeOK
  <2>2. CASE AddTest(w)
    BY <2>1, <2>2 DEF AddTest, ListInv, RegistryInOrder, Follows, TypeOK
  <2>3. CASE ~AddTest(w)
    <3>1. /\ UNCHANGED <<head, tail, next, prev, ticket, clock, seen>>
          /\ broken => broken'
          /\ \A v \in Workers : /\ wpc'[v] \in BeforeLink => wpc[v] \in BeforeLink
                                /\ wpc'[v] = "add_link" => wpc[v] = "add_link"
      BY <1>1, <2>3 DEF Register, CheckInit, SetInit, InitMutex, CloseAdd, AddLock, TypeOK
    <3> QED BY <2>1, <3>1, QuietList
  <2> QED BY <2>2, <2>3
<1>2. ASSUME NEW w \in Workers, Serve(w)
      PROVE  ListInv'
  <2>1. /\ UNCHANGED <<head, tail, next, prev, ticket, clock, seen, broken>>
        /\ Linked' = Linked
        /\ \A v \in Workers : /\ wpc'[v] \in BeforeLink => wpc[v] \in BeforeLink
                              /\ wpc'[v] = "add_link" => wpc[v] = "add_link"
    BY <1>2 DEF Serve, LoopTest, QLock, QEmpty, QFront, QTake, QLeave, WorkDone, Sleep,
       SpuriousWake, Linked, LinkedPC, TypeOK
  <2> QED BY <2>1, QuietList
<1>3. ASSUME NEW w \in Workers, DelLock(w) \/ DelFree(w)
      PROVE  ListInv'
  <2>1. /\ UNCHANGED <<head, tail, next, prev, ticket, clock, seen, broken>>
        /\ Linked' = Linked
        /\ \A v \in Workers : /\ wpc'[v] \in BeforeLink => wpc[v] \in BeforeLink
                              /\ wpc'[v] = "add_link" => wpc[v] = "add_link"
    BY <1>3 DEF DelLock, DelFree, Linked, LinkedPC, TypeOK
  <2> QED BY <2>1, QuietList
<1>4. ASSUME NEW c \in Callers, Arrive(c) \/ CallerLock(c) \/ Push(c) \/ Walk(c)
      PROVE  ListInv'
  <2>1. /\ UNCHANGED <<head, tail, next, prev, ticket, clock, seen, broken>>
        /\ Linked' = Linked
        /\ \A v \in Workers : /\ wpc'[v] \in BeforeLink => wpc[v] \in BeforeLink
                              /\ wpc'[v] = "add_link" => wpc[v] = "add_link"
    BY <1>4 DEF Arrive, CallerLock, Push, Walk, WalkStart, WalkSignal, WalkNext, WalkTo,
       SignalWorker, Valid, Linked, LinkedPC, TypeOK
  <2> QED BY <2>1, QuietList
<1>5. ASSUME Cleanup
      PROVE  ListInv'
  <2>1. /\ UNCHANGED <<head, tail, next, prev, ticket, clock, seen>>
        /\ broken => broken'
        /\ Linked' = Linked
        /\ \A v \in Workers : /\ wpc'[v] \in BeforeLink => wpc[v] \in BeforeLink
                              /\ wpc'[v] = "add_link" => wpc[v] = "add_link"
    BY <1>5 DEF Cleanup, CleanupStart, CleanupLock, CleanupTest, CleanupPick, JoinStop,
       JoinSignal, JoinReadId, JoinDone, CleanupDestroy, SignalWorker, Valid, Linked,
       LinkedPC, TypeOK
  <2> QED BY <2>1, QuietList
<1>6. ASSUME UNCHANGED <<head, tail, next, prev, ticket, clock, seen, broken, wpc>>
      PROVE  ListInv'
  BY <1>6, QuietList DEF Linked
<1>7. CASE Crash \/ UNCHANGED vars
  BY <1>6, <1>7 DEF Crash, vars
<1> QED BY <1>1, <1>2, <1>3, <1>4, <1>5, <1>7, LinkInOrder, UnlinkInOrder
        DEF Next, Unregister

---------------------------------------------------------------------------
(* Every action preserves the part about the wake-up of a joined worker.   *)
LEMMA WakeStep ==
  ASSUME TypeOK, StopInv, WakeInv, [Next]_vars
  PROVE  WakeInv'
<1> USE DEF TypeOK, StopInv, WakeInv, LeavingPC, WorkerGoes, CallerGoes, MainGoes,
        Valid, list, mutex
<1>1. ASSUME NEW w \in Workers, Register(w)
      PROVE  WakeInv'
  BY <1>1 DEF Register, CheckInit, SetInit, InitMutex, CloseAdd, AddLock, AddTest, AddLink
<1>2. ASSUME NEW w \in Workers, Serve(w)
      PROVE  WakeInv'
  <2>1. CASE LoopTest(w)
    BY <2>1 DEF LoopTest
  <2>2. CASE ~LoopTest(w)
    BY <1>2, <2>2 DEF Serve, QLock, QEmpty, QFront, QTake, QLeave, WorkDone, Sleep,
       SpuriousWake
  <2> QED BY <2>1, <2>2
<1>3. ASSUME NEW w \in Workers, Unregister(w)
      PROVE  WakeInv'
  BY <1>3 DEF Unregister, DelLock, DelUnlink, DelFree
<1>4. ASSUME NEW c \in Callers, Arrive(c) \/ CallerLock(c) \/ Push(c) \/ Walk(c)
      PROVE  WakeInv'
  <2>1. CASE WalkSignal(c)
    BY <2>1 DEF WalkSignal, SignalWorker
  <2>2. CASE ~WalkSignal(c)
    BY <1>4, <2>2 DEF Arrive, CallerLock, Push, Walk, WalkStart, WalkNext, WalkTo
  <2> QED BY <2>1, <2>2
<1>5. ASSUME Cleanup
      PROVE  WakeInv'
  <2>1. CASE JoinSignal
    BY <2>1 DEF JoinSignal, SignalWorker
  <2>2. CASE ~JoinSignal
    BY <1>5, <2>2 DEF Cleanup, CleanupStart, CleanupLock, CleanupTest, CleanupPick,
       JoinStop, JoinReadId, JoinDone, CleanupDestroy
  <2> QED BY <2>1, <2>2
<1>6. CASE Crash \/ UNCHANGED vars
  BY <1>6 DEF Crash, vars
<1> QED BY <1>1, <1>2, <1>3, <1>4, <1>5, <1>6 DEF Next

(* An invalid access happens in one of the four places it may happen in.   *)
LEMMA FaultStep ==
  ASSUME TypeOK, ListInv, StopInv, FaultsOnlyInShutdown, [Next]_vars
  PROVE  FaultsOnlyInShutdown'
<1> USE DEF FaultsOnlyInShutdown
<1>1. CASE Crash
  <2> SUFFICES ASSUME ~broken PROVE FaultsOnlyInShutdown'
    BY <1>1 DEF Crash, mutex
  <2>1. freed \cap Linked = {}
    BY DEF StopInv, Linked, LinkedPC
  <2>2. ASSUME NEW w \in Workers, WorkerFaults(w) PROVE FALSE
    <3>1. CASE wpc[w] = "add_link" /\ seen[w] # NULL /\ ~Valid(tail)
      BY <2>1, <3>1 DEF ListInv, RegistryInOrder, Valid
    <3>2. CASE wpc[w] = "del_unlink" /\ {prev[w], next[w]} \cap freed # {}
      <4>1. w \in Linked
        BY <3>2 DEF Linked, LinkedPC
      <4> QED BY <2>1, <3>2, <4>1, NullAssumption
              DEF ListInv, RegistryInOrder, Follows, TypeOK
    <3> QED BY <2>2, <3>1, <3>2 DEF WorkerFaults
  <2>3. ASSUME NEW c \in Callers, CallerFaults(c)
        PROVE  mpc # "run" /\ cpc[c] \in {"w_signal", "w_next"}
    BY <2>3 DEF CallerFaults, Valid, StopInv, LeavingPC, TypeOK
  <2>4. ASSUME MainFaults
        PROVE  mpc \in {"j_signal", "j_id"}
    BY <2>1, <2>4, NullAssumption
       DEF MainFaults, Valid, StopInv, LeavingPC, ListInv, RegistryInOrder, Linked,
           LinkedPC, TypeOK
  <2>5. mpc' = mpc /\ broken' = broken
    BY <1>1 DEF Crash, mutex
  <2> QED BY <1>1, <2>2, <2>3, <2>4, <2>5 DEF Crash
<1>2. ASSUME crash = "none", UNCHANGED crash
      PROVE  FaultsOnlyInShutdown'
  BY <1>2
<1>3. CASE UNCHANGED vars
  BY <1>3 DEF vars
<1> QED BY <1>1, <1>2, <1>3 DEF Next

---------------------------------------------------------------------------
(* The inductive invariant holds at the start and is preserved. *)
LEMMA InitInv == Init => IInv
<1> SUFFICES ASSUME Init PROVE IInv
  OBVIOUS
<1>1. TypeOK
  BY InitType
<1>2. \A w \in Workers : wpc[w] = "check_init"
  BY DEF Init
<1>3. Linked = {} /\ Inside = {}
  BY <1>2 DEF Linked, LinkedPC, Inside, Init
<1> QED BY <1>1, <1>2, <1>3
        DEF IInv, LockInv, ListInv, StopInv, WakeInv, FaultsOnlyInShutdown,
            RegistryInOrder, BeforeLink, LeavingPC, NoLinks, Init

LEMMA InvStep == IInv /\ [Next]_vars => IInv'
BY TypeStep, LockStep, ListStep, StopStep, WakeStep, FaultStep DEF IInv

THEOREM InvHolds == Spec => []IInv
BY InitInv, InvStep, PTL DEF Spec

(* No two threads are in a critical section of an intact pool. *)
THEOREM MutualExclusionHolds == Spec => []MutualExclusion
<1>1. IInv => MutualExclusion
  BY DEF IInv, LockInv, MutualExclusion
<1> QED BY InvHolds, <1>1, PTL

(* The registry of an intact pool lists the registered workers, in order. *)
THEOREM RegistryHolds == Spec => []RegistryInOrder
<1>1. IInv => RegistryInOrder
  BY DEF IInv, ListInv, RegistryInOrder
<1> QED BY InvHolds, <1>1, PTL

(* An intact pool touches no deleted node but in the two known places. *)
THEOREM FaultsHolds == Spec => []FaultsOnlyInShutdown
<1>1. IInv => FaultsOnlyInShutdown
  BY DEF IInv
<1> QED BY InvHolds, <1>1, PTL

(* Shutdown waits for a sleeping worker only when its wake-up was lost. *)
THEOREM HangsHolds == Spec => []HangsOnlyOnLostStop
<1>1. IInv => HangsOnlyOnLostStop
  BY DEF IInv, WakeInv, HangsOnlyOnLostStop
<1> QED BY InvHolds, <1>1, PTL

---------------------------------------------------------------------------
(* The requests. *)


(* Every step of the HTTP pool is a step of the pool, or stutters in it. *)
LEMMA StepIsPoolStep == [HttpNext]_hvars => [Next]_vars
<1> SUFFICES ASSUME [HttpNext]_hvars PROVE [Next]_vars
  OBVIOUS
<1>1. CASE UNCHANGED hvars
  BY <1>1 DEF hvars
<1>2. CASE HttpNext
  <2>1. CASE \E w \in Workers : HttpFault(w)
    BY <2>1 DEF HttpFault
  <2>2. CASE Crash
    BY <1>2, <2>2 DEF HttpNext, Next
  <2>3. CASE PoolStep /\ UNCHANGED crash
    BY <1>2, <2>3 DEF HttpNext, Next, PoolStep, Serve, Cleanup
  <2>4. CASE HttpD_Cleanup /\ UNCHANGED crash
    BY <1>2, <2>4 DEF HttpNext, Next, HttpD_Cleanup, Cleanup
  <2>5. CASE /\ \E w \in Workers : SeeEmpty(w) \/ ReadFront(w) \/ PopFront(w)
                                   \/ HTTP_Work(w)
             /\ UNCHANGED crash
    BY <1>2, <2>5 DEF HttpNext, Next, Serve, SeeEmpty, ReadFront, PopFront, HTTP_Work
  <2>6. CASE (\E c \in Callers : Accept(c) \/ HttpD_Add(c)) /\ UNCHANGED crash
    BY <1>2, <2>6 DEF HttpNext, Next, Accept, HttpD_Add
  <2> QED BY <1>2, <2>1, <2>2, <2>3, <2>4, <2>5, <2>6 DEF HttpNext
<1> QED BY <1>1, <1>2

(* The HTTP pool is a pool: what FixedThread promises holds of it. *)
THEOREM HttpDIsAPool == HttpSpec => Spec
<1>1. HttpInit => Init
  BY DEF HttpInit
<1> QED BY <1>1, StepIsPoolStep, PTL DEF HttpSpec, Spec

---------------------------------------------------------------------------
(* What the requests add to the inductive invariant. *)

(* A listener on its way to the queue has a request to hand over. *)
HttpTypeInv ==
  /\ HttpTypeOK
  /\ \A c \in Callers : Carrying(c) => carry[c] \in Links

(* A worker between front() and pop() holds the request it will remove. *)
ReqInv ==
  /\ OneOwner
  /\ ~broken => \A w \in Workers : wpc[w] = "q_pop" =>
                  queue # <<>> /\ holds[w] = Head(queue)
  /\ WorkIsSound

(* While the server runs a walk never leaves the registry. *)
WalkInv ==
  /\ ~broken /\ mpc = "run" =>
       \A c \in Callers : cpc[c] \in {"w_signal", "w_next"} => cursor[c] \in Linked
  /\ StrandedOnlyByLostSignal

HInv == IInv /\ HttpTypeInv /\ ReqInv /\ WalkInv

---------------------------------------------------------------------------
(* The steps of the pool that the requests do not notice. *)
LEMMA PoolStepQuiet ==
  ASSUME TypeOK, PoolStep
  PROVE  /\ UNCHANGED requests
         /\ broken => broken'
         /\ \A w \in Workers : Serving(w)' = Serving(w)
         /\ \A w \in Workers : (wpc'[w] = "q_pop") = (wpc[w] = "q_pop")
         /\ \A c \in Callers : Carrying(c)' = Carrying(c)
<1> USE DEF TypeOK, WorkerGoes, CallerGoes, MainGoes, mutex, list, Serving, Carrying, Valid
<1>1. UNCHANGED requests
  BY DEF PoolStep
<1>2. ASSUME NEW w \in Workers, Register(w)
      PROVE  /\ broken => broken'
             /\ wpc[w] \notin {"work", "q_pop"} /\ wpc'[w] \notin {"work", "q_pop"}
             /\ \A v \in Workers : v # w => wpc'[v] = wpc[v]
             /\ cpc' = cpc
  BY <1>2 DEF Register, CheckInit, SetInit, InitMutex, CloseAdd, AddLock, AddTest, AddLink
<1>3. ASSUME NEW w \in Workers,
             Unregister(w) \/ LoopTest(w) \/ QLock(w) \/ Sleep(w) \/ SpuriousWake(w)
      PROVE  /\ broken => broken'
             /\ wpc[w] \notin {"work", "q_pop"} /\ wpc'[w] \notin {"work", "q_pop"}
             /\ \A v \in Workers : v # w => wpc'[v] = wpc[v]
             /\ cpc' = cpc
  BY <1>3 DEF Unregister, DelLock, DelUnlink, DelFree, LoopTest, QLock, Sleep, SpuriousWake
<1>4. ASSUME NEW c \in Callers, CallerLock(c) \/ Walk(c)
      PROVE  /\ broken => broken'
             /\ \A w \in Workers : wpc'[w] # wpc[w] => wpc[w] = "asleep" /\ wpc'[w] = "loop"
             /\ \A d \in Callers : Carrying(d)' = Carrying(d)
  BY <1>4 DEF CallerLock, Walk, WalkStart, WalkNext, WalkTo, WalkSignal, SignalWorker
<1>5. ASSUME CleanupStart \/ CleanupLock \/ CleanupTest \/ CleanupPick \/ JoinStop
             \/ JoinSignal \/ JoinReadId \/ JoinDone
      PROVE  /\ broken => broken'
             /\ \A w \in Workers : wpc'[w] # wpc[w] => wpc[w] = "asleep" /\ wpc'[w] = "loop"
             /\ cpc' = cpc
  BY <1>5 DEF CleanupStart, CleanupLock, CleanupTest, CleanupPick, JoinStop, JoinSignal,
     JoinReadId, JoinDone, SignalWorker
<1> QED BY <1>1, <1>2, <1>3, <1>4, <1>5 DEF PoolStep

(* A step that leaves the requests alone, and who holds them, preserves    *)
(* what is said about them.                                                *)
LEMMA QuietReq ==
  ASSUME HttpTypeInv, ReqInv, UNCHANGED <<requests, fault>>, broken => broken',
         \A w \in Workers : Serving(w)' = Serving(w),
         \A w \in Workers : (wpc'[w] = "q_pop") = (wpc[w] = "q_pop"),
         \A c \in Callers : Carrying(c)' = Carrying(c)
  PROVE  HttpTypeInv' /\ ReqInv'
<1>1. HttpTypeInv'
  BY DEF HttpTypeInv, HttpTypeOK, requests
<1>2. OneOwner'
  BY DEF ReqInv, OneOwner, QueuedOnce, CarriedOnce, ServedOnce, NoneLost, Owned, requests
<1>3. ReqInv'
  BY <1>2 DEF ReqInv, WorkIsSound, requests
<1> QED BY <1>1, <1>3

(* A request keeps an owner when each of its owners keeps it or hands it on. *)
LEMMA StillOwned ==
  ASSUME NoneLost,
         \A l \in links' : l \in links \/ Owned(l)',
         \A l \in links', i \in 1..Len(queue) : queue[i] = l => Owned(l)',
         \A l \in links', c \in Callers : Carrying(c) /\ carry[c] = l => Owned(l)',
         \A l \in links', w \in Workers : Serving(w) /\ holds[w] = l => Owned(l)'
  PROVE  NoneLost'
<1> SUFFICES ASSUME NEW l \in links', l \in links PROVE Owned(l)'
  BY DEF NoneLost
<1> QED BY DEF NoneLost, Owned

(* Every action preserves the part about the requests. *)
LEMMA ReqStep ==
  ASSUME IInv, HttpTypeInv, ReqInv, [HttpNext]_hvars
  PROVE  HttpTypeInv' /\ ReqInv'
<1>t. TypeOK /\ LockInv
  BY DEF IInv
<1> USE <1>t DEF TypeOK, WorkerGoes, CallerGoes, MainGoes, mutex, Serving, Carrying
<1>1. ASSUME NEW w \in Workers, SeeEmpty(w), UNCHANGED fault
      PROVE  HttpTypeInv' /\ ReqInv'
  BY <1>1, QuietReq DEF SeeEmpty, QEmpty, QLeave
<1>2. ASSUME NEW w \in Workers, ReadFront(w), UNCHANGED fault
      PROVE  HttpTypeInv' /\ ReqInv'
  <2>1. /\ wpc[w] = "q_in" /\ wpc' = [wpc EXCEPT ![w] = "q_pop"]
        /\ holds' = [holds EXCEPT ![w] = Head(queue)]
        /\ queue # <<>> /\ UNCHANGED <<cpc, queue, carry, links, broken>>
    BY <1>2 DEF ReadFront, QFront
  <2>2. Head(queue) \in Links
    BY <2>1 DEF HttpTypeInv, HttpTypeOK
  <2>3. HttpTypeInv'
    BY <1>2, <2>1, <2>2 DEF HttpTypeInv, HttpTypeOK
  <2>4. OneOwner'
    <3> SUFFICES ASSUME ~broken PROVE (QueuedOnce /\ CarriedOnce /\ ServedOnce /\ NoneLost)'
      BY <2>1 DEF OneOwner
    <3>1. QueuedOnce /\ CarriedOnce /\ ServedOnce /\ NoneLost
      BY DEF ReqInv, OneOwner
    <3>2. \A v \in Workers : /\ Serving(v)' = Serving(v)
                            /\ Serving(v) => holds'[v] = holds[v]
      BY <2>1 DEF HttpTypeInv, HttpTypeOK
    <3>3. QueuedOnce' /\ CarriedOnce'
      BY <2>1, <3>1 DEF QueuedOnce, CarriedOnce
    <3>4. ServedOnce'
      BY <2>1, <3>1, <3>2 DEF ServedOnce
    <3>5. NoneLost'
      <4>1. \A l \in links', i \in 1..Len(queue) : queue[i] = l => Owned(l)'
        BY <2>1 DEF Owned
      <4>2. \A l \in links', c \in Callers : Carrying(c) /\ carry[c] = l => Owned(l)'
        BY <2>1 DEF Owned
      <4>3. \A l \in links', v \in Workers : Serving(v) /\ holds[v] = l => Owned(l)'
        BY <2>1, <3>2 DEF Owned
      <4>4. \A l \in links' : l \in links \/ Owned(l)'
        BY <2>1
      <4> QED BY <3>1, <4>1, <4>2, <4>3, <4>4, StillOwned
    <3> QED BY <3>3, <3>4, <3>5
  <2>5. ReqInv'
    BY <1>2, <2>1, <2>4 DEF ReqInv, WorkIsSound, HttpTypeInv, HttpTypeOK
  <2> QED BY <2>3, <2>5
<1>3. ASSUME NEW w \in Workers, PopFront(w), UNCHANGED fault
      PROVE  HttpTypeInv' /\ ReqInv'
  <2>1. /\ wpc[w] = "q_pop" /\ wpc' = [wpc EXCEPT ![w] = "work"]
        /\ queue # <<>> /\ queue' = Tail(queue)
        /\ UNCHANGED <<cpc, carry, holds, links, broken>>
    BY <1>3 DEF PopFront, QTake, QLeave
  <2>2. /\ queue \in Seq(Links) /\ queue' \in Seq(Links)
        /\ Len(queue') = Len(queue) - 1 /\ Len(queue) > 0
        /\ \A i \in 1..Len(queue') : queue'[i] = queue[i + 1]
        /\ Head(queue) = queue[1]
    BY <2>1 DEF HttpTypeInv, HttpTypeOK
  <2>3. HttpTypeInv'
    BY <1>3, <2>1, <2>2 DEF HttpTypeInv, HttpTypeOK
  <2> SUFFICES ASSUME ~broken PROVE HttpTypeInv' /\ ReqInv'
    BY <1>3, <2>1, <2>3 DEF ReqInv, OneOwner, WorkIsSound
  <2>4. holds[w] = queue[1]
    BY <2>1, <2>2 DEF ReqInv
  (* The other worker that could hold this request is not in the section. *)
  <2>5. \A v \in Workers : v # w => wpc[v] # "q_pop"
    BY <2>1 DEF LockInv, Inside
  (* Removing the first place moves its request to the worker alone. *)
  <2>6. OneOwner'
    <3>1. QueuedOnce /\ CarriedOnce /\ ServedOnce /\ NoneLost
      BY DEF ReqInv, OneOwner
    <3>2. \A v \in Workers : Serving(v)' <=> Serving(v) \/ v = w
      BY <2>1
    <3>3. QueuedOnce'
      BY <2>1, <2>2, <3>1 DEF QueuedOnce
    <3>4. CarriedOnce'
      BY <2>1, <2>2, <3>1 DEF CarriedOnce
    <3>5. ASSUME NEW v \in Workers, Serving(v)'
          PROVE  /\ holds[v] \in links
                 /\ \A i \in 1..Len(queue') : queue'[i] # holds[v]
                 /\ \A u \in Workers : Serving(u)' /\ holds[u] = holds[v] => u = v
                 /\ \A c \in Callers : Carrying(c) => carry[c] # holds[v]
      <4>1. CASE v = w
        BY <4>1, <2>2, <2>4, <3>1, <3>2 DEF QueuedOnce, CarriedOnce, ServedOnce
      <4>2. CASE v # w
        BY <4>2, <3>5, <2>2, <2>4, <3>1, <3>2 DEF ServedOnce
      <4> QED BY <4>1, <4>2
    <3>6. ServedOnce'
      BY <2>1, <3>5 DEF ServedOnce
    <3>7. NoneLost'
      <4>1. ASSUME NEW l \in links', NEW i \in 1..Len(queue), queue[i] = l
            PROVE  Owned(l)'
        <5>1. CASE i = 1
          BY <2>1, <2>4, <3>2, <4>1, <5>1 DEF Owned
        <5>2. CASE i # 1
          <6>1. i - 1 \in 1..Len(queue') /\ i = (i - 1) + 1
            BY <2>2, <4>1, <5>2
          <6>2. \E k \in 1..Len(queue') : queue'[k] = l
            BY <2>2, <4>1, <6>1
          <6> QED BY <6>2 DEF Owned
        <5> QED BY <5>1, <5>2
      <4>2. \A l \in links', c \in Callers : Carrying(c) /\ carry[c] = l => Owned(l)'
        BY <2>1 DEF Owned
      <4>3. \A l \in links', v \in Workers : Serving(v) /\ holds[v] = l => Owned(l)'
        BY <2>1, <3>2 DEF Owned
      <4>4. \A l \in links' : l \in links \/ Owned(l)'
        BY <2>1
      <4> QED BY <3>1, <4>1, <4>2, <4>3, <4>4, StillOwned
    <3> QED BY <3>3, <3>4, <3>6, <3>7 DEF OneOwner
  <2>7. ReqInv'
    BY <1>3, <2>1, <2>5, <2>6 DEF ReqInv, WorkIsSound
  <2> QED BY <2>3, <2>7
<1>4. ASSUME NEW w \in Workers, HTTP_Work(w), UNCHANGED fault
      PROVE  HttpTypeInv' /\ ReqInv'
  <2>1. /\ wpc[w] = "work" /\ wpc' = [wpc EXCEPT ![w] = "loop"]
        /\ links' = links \ {holds[w]} /\ holds' = [holds EXCEPT ![w] = NULL]
        /\ UNCHANGED <<cpc, carry, queue, broken>>
    BY <1>4 DEF HTTP_Work, WorkDone
  <2>2. HttpTypeInv'
    BY <1>4, <2>1 DEF HttpTypeInv, HttpTypeOK
  <2>3. OneOwner'
    <3> SUFFICES ASSUME ~broken PROVE (QueuedOnce /\ CarriedOnce /\ ServedOnce /\ NoneLost)'
      BY <2>1 DEF OneOwner
    <3>1. QueuedOnce /\ CarriedOnce /\ ServedOnce /\ NoneLost
      BY DEF ReqInv, OneOwner
    <3>2. \A v \in Workers : /\ Serving(v)' <=> Serving(v) /\ v # w
                            /\ v # w => holds'[v] = holds[v]
      BY <2>1 DEF HttpTypeInv, HttpTypeOK
    <3>3. QueuedOnce' /\ CarriedOnce'
      BY <2>1, <3>1 DEF QueuedOnce, CarriedOnce, ServedOnce
    <3>4. ServedOnce'
      BY <2>1, <3>1, <3>2 DEF ServedOnce
    <3>5. NoneLost'
      <4>1. \A l \in links', i \in 1..Len(queue) : queue[i] = l => Owned(l)'
        BY <2>1 DEF Owned
      <4>2. \A l \in links', c \in Callers : Carrying(c) /\ carry[c] = l => Owned(l)'
        BY <2>1 DEF Owned
      <4>3. \A l \in links', v \in Workers : Serving(v) /\ holds[v] = l => Owned(l)'
        BY <2>1, <3>2 DEF Owned
      <4>4. \A l \in links' : l \in links \/ Owned(l)'
        BY <2>1
      <4> QED BY <3>1, <4>1, <4>2, <4>3, <4>4, StillOwned
    <3> QED BY <3>3, <3>4, <3>5
  <2>4. ReqInv'
    BY <1>4, <2>1, <2>3 DEF ReqInv, WorkIsSound, HttpTypeInv, HttpTypeOK
  <2> QED BY <2>2, <2>4
<1>5. ASSUME NEW c \in Callers, Accept(c), UNCHANGED fault
      PROVE  HttpTypeInv' /\ ReqInv'
  <2>1. PICK l \in Links \ links : /\ carry' = [carry EXCEPT ![c] = l]
                                 /\ links' = links \cup {l}
    BY <1>5 DEF Accept
  <2>2. /\ cpc[c] = "idle" /\ cpc' = [cpc EXCEPT ![c] = "a_lock"]
        /\ UNCHANGED <<wpc, queue, holds, broken>>
    BY <1>5 DEF Accept, Arrive
  <2>3. HttpTypeInv'
    BY <1>5, <2>1, <2>2 DEF HttpTypeInv, HttpTypeOK
  <2>4. OneOwner'
    <3> SUFFICES ASSUME ~broken PROVE (QueuedOnce /\ CarriedOnce /\ ServedOnce /\ NoneLost)'
      BY <2>2 DEF OneOwner
    <3>1. QueuedOnce /\ CarriedOnce /\ ServedOnce /\ NoneLost
      BY DEF ReqInv, OneOwner
    <3>2. \A d \in Callers : /\ Carrying(d)' <=> Carrying(d) \/ d = c
                            /\ carry'[d] = IF d = c THEN l ELSE carry[d]
      BY <2>1, <2>2 DEF HttpTypeInv, HttpTypeOK
    <3>3. ~Carrying(c) /\ \A v \in Workers : Serving(v)' = Serving(v)
      BY <2>2
    <3>4. QueuedOnce'
      BY <2>1, <2>2, <3>1 DEF QueuedOnce
    <3>5. CarriedOnce'
      BY <2>1, <2>2, <3>1, <3>2 DEF CarriedOnce, QueuedOnce
    <3>6. ServedOnce'
      BY <2>1, <2>2, <3>1, <3>2, <3>3 DEF ServedOnce
    <3>7. NoneLost'
      <4>1. \A k \in links', i \in 1..Len(queue) : queue[i] = k => Owned(k)'
        BY <2>2 DEF Owned
      <4>2. \A k \in links', d \in Callers : Carrying(d) /\ carry[d] = k => Owned(k)'
        BY <3>2, <3>3 DEF Owned
      <4>3. \A k \in links', v \in Workers : Serving(v) /\ holds[v] = k => Owned(k)'
        BY <2>2, <3>3 DEF Owned
      <4>4. \A k \in links' : k \in links \/ Owned(k)'
        BY <2>1, <3>2 DEF Owned
      <4> QED BY <3>1, <4>1, <4>2, <4>3, <4>4, StillOwned
    <3> QED BY <3>4, <3>5, <3>6, <3>7
  <2>5. ReqInv'
    BY <1>5, <2>2, <2>4 DEF ReqInv, WorkIsSound
  <2> QED BY <2>3, <2>5
<1>6. ASSUME NEW c \in Callers, HttpD_Add(c), UNCHANGED fault
      PROVE  HttpTypeInv' /\ ReqInv'
  <2>1. /\ cpc[c] = "a_in" /\ cpc' = [cpc EXCEPT ![c] = "a_walk"]
        /\ queue' = Append(queue, carry[c]) /\ carry' = [carry EXCEPT ![c] = NULL]
        /\ UNCHANGED <<wpc, holds, links, broken>>
    BY <1>6 DEF HttpD_Add, Push
  <2>2. /\ queue \in Seq(Links) /\ carry[c] \in Links
        /\ queue' \in Seq(Links) /\ Len(queue') = Len(queue) + 1
        /\ \A i \in 1..Len(queue) : queue'[i] = queue[i]
        /\ queue'[Len(queue) + 1] = carry[c]
    BY <2>1 DEF HttpTypeInv, HttpTypeOK
  <2>3. HttpTypeInv'
    BY <1>6, <2>1, <2>2 DEF HttpTypeInv, HttpTypeOK
  <2>4. \A v \in Workers : wpc[v] # "q_pop" \/ broken
    BY <2>1, ThreadsAssumption DEF LockInv, Inside
  <2>5. OneOwner'
    <3> SUFFICES ASSUME ~broken PROVE (QueuedOnce /\ CarriedOnce /\ ServedOnce /\ NoneLost)'
      BY <2>1 DEF OneOwner
    <3>1. QueuedOnce /\ CarriedOnce /\ ServedOnce /\ NoneLost
      BY DEF ReqInv, OneOwner
    <3>2. \A d \in Callers : /\ Carrying(d)' <=> Carrying(d) /\ d # c
                            /\ d # c => carry'[d] = carry[d]
      BY <2>1 DEF HttpTypeInv, HttpTypeOK
    <3>3. Carrying(c) /\ \A v \in Workers : Serving(v)' = Serving(v)
      BY <2>1
    <3>4. \A i \in 1..Len(queue') :
            i \in 1..Len(queue) \/ (i = Len(queue) + 1 /\ queue'[i] = carry[c])
      BY <2>2
    <3>5. QueuedOnce'
      BY <2>1, <2>2, <3>1, <3>3, <3>4 DEF QueuedOnce, CarriedOnce
    <3>6. CarriedOnce'
      BY <2>1, <2>2, <3>1, <3>2, <3>3, <3>4 DEF CarriedOnce
    <3>7. ServedOnce'
      <4>1. \A v \in Workers : Serving(v) => carry[c] # holds[v]
        BY <3>1, <3>3 DEF ServedOnce
      <4>2. \A v \in Workers : Serving(v) =>
              \A i \in 1..Len(queue') : queue'[i] # holds[v]
        BY <2>2, <3>1, <3>4, <4>1 DEF ServedOnce
      <4> QED BY <2>1, <3>1, <3>2, <3>3, <4>2 DEF ServedOnce
    <3>8. NoneLost'
      <4>1. \A l \in links', i \in 1..Len(queue) : queue[i] = l => Owned(l)'
        BY <2>2 DEF Owned
      <4>2. ASSUME NEW l \in links', NEW d \in Callers, Carrying(d), carry[d] = l
            PROVE  Owned(l)'
        <5>1. CASE d = c
          <6>1. Len(queue) + 1 \in 1..Len(queue') /\ queue'[Len(queue) + 1] = l
            BY <2>2, <4>2, <5>1
          <6>2. \E k \in 1..Len(queue') : queue'[k] = l
            BY <6>1
          <6> QED BY <6>2 DEF Owned
        <5>2. CASE d # c
          <6>1. Carrying(d)' /\ carry'[d] = l
            BY <2>1, <4>2, <5>2 DEF HttpTypeInv, HttpTypeOK
          <6> QED BY <6>1 DEF Owned
        <5> QED BY <5>1, <5>2
      <4>3. \A l \in links', v \in Workers : Serving(v) /\ holds[v] = l => Owned(l)'
        BY <2>1, <3>3 DEF Owned
      <4>4. \A l \in links' : l \in links \/ Owned(l)'
        BY <2>1
      <4> QED BY <3>1, <4>1, <4>2, <4>3, <4>4, StillOwned
    <3> QED BY <3>5, <3>6, <3>7, <3>8
  <2>6. ReqInv'
    BY <1>6, <2>1, <2>4, <2>5 DEF ReqInv, WorkIsSound
  <2> QED BY <2>3, <2>6
<1>7. ASSUME PoolStep, UNCHANGED fault
      PROVE  HttpTypeInv' /\ ReqInv'
  BY <1>7, PoolStepQuiet, QuietReq
<1>8. ASSUME HttpD_Cleanup, UNCHANGED fault
      PROVE  HttpTypeInv' /\ ReqInv'
  BY <1>8 DEF HttpD_Cleanup, CleanupDestroy, HttpTypeInv, HttpTypeOK, ReqInv, OneOwner,
     WorkIsSound, list
<1>9. ASSUME Crash, UNCHANGED <<requests, fault>>
      PROVE  HttpTypeInv' /\ ReqInv'
  BY <1>9, QuietReq DEF Crash
(* Nothing is taken from an empty queue, and a request is deleted once. *)
<1>10. ASSUME NEW w \in Workers, HttpFault(w)
       PROVE  HttpTypeInv' /\ ReqInv'
  <2>1. broken
    BY <1>10 DEF HttpFault, ReqInv, OneOwner, ServedOnce
  <2> QED BY <1>10, <2>1 DEF HttpFault, HttpTypeInv, HttpTypeOK, ReqInv, OneOwner,
             WorkIsSound, vars, requests
<1>11. CASE UNCHANGED hvars
  BY <1>11, QuietReq DEF hvars, vars
<1> QED BY <1>1, <1>2, <1>3, <1>4, <1>5, <1>6, <1>7, <1>8, <1>9, <1>10, <1>11
        DEF HttpNext

---------------------------------------------------------------------------
(* A step that keeps the registered workers, their order, the walks and    *)
(* the sleepers preserves what is said about them.                         *)
LEMMA QuietWalk ==
  ASSUME WalkInv, broken => broken', mpc' = "run" => mpc = "run",
         queue' # <<>> => queue # <<>>,
         Linked \subseteq Linked', \A u \in Linked : ticket'[u] = ticket[u],
         cursor' = cursor,
         \A c \in Callers : cpc'[c] = cpc[c] \/ {cpc[c], cpc'[c]} \cap
           {"a_walk", "w_signal", "w_next"} = {},
         \A w \in Workers : wpc'[w] \in {"pre_wait", "asleep"} =>
           wpc[w] \in {"pre_wait", "asleep"} /\ missed'[w] = missed[w]
  PROVE  WalkInv'
<1> USE DEF WalkInv
<1>1. SUFFICES ASSUME ~broken', mpc' = "run"
               PROVE  /\ \A c \in Callers : cpc'[c] \in {"w_signal", "w_next"} =>
                           cursor'[c] \in Linked'
                      /\ StrandedOnlyByLostSignal'
  BY DEF StrandedOnlyByLostSignal
<1>2. \A c \in Callers : cpc[c] \in {"w_signal", "w_next"} => cursor[c] \in Linked
  BY <1>1
<1>3. \A c \in Callers : cpc'[c] \in {"w_signal", "w_next"} => cursor'[c] \in Linked'
  BY <1>2
<1>4. \A w \in Workers : wpc[w] \in {"pre_wait", "asleep"} => w \in Linked
  BY DEF Linked, LinkedPC
<1>5. ASSUME NEW c \in Callers, NEW w \in Linked, WillSignal(c, w)
      PROVE  WillSignal(c, w)'
  BY <1>2, <1>5 DEF WillSignal
<1>6. ASSUME NEW w \in Workers, wpc'[w] \in {"pre_wait", "asleep"}, queue' # <<>>
      PROVE  "add" \in missed'[w] \/ \E c \in Callers : WillSignal(c, w)'
  BY <1>1, <1>4, <1>5, <1>6 DEF StrandedOnlyByLostSignal
<1> QED BY <1>1, <1>3, <1>6 DEF StrandedOnlyByLostSignal

(* Every action preserves the part about the walks. *)
LEMMA WalkStep ==
  ASSUME IInv, IInv', HttpTypeInv, WalkInv, [HttpNext]_hvars
  PROVE  WalkInv'
<1>t. TypeOK /\ TypeOK' /\ StopInv /\ ListInv
  BY DEF IInv
<1> USE <1>t DEF TypeOK, WorkerGoes, CallerGoes, MainGoes, mutex, list, requests
<1> DEFINE Quiet(w) ==
      Register(w) \/ DelLock(w) \/ DelFree(w) \/ LoopTest(w) \/ QLock(w)
        \/ Sleep(w) \/ SpuriousWake(w) \/ (QEmpty(w) /\ queue = <<>>)
        \/ QFront(w) \/ QTake(w) \/ WorkDone(w)
<1>1. ASSUME NEW w \in Workers, Quiet(w), queue' # <<>> => queue # <<>>
      PROVE  WalkInv'
  <2>1. /\ broken => broken'
        /\ UNCHANGED <<mpc, cursor, cpc>>
        /\ Linked \subseteq Linked'
        /\ \A u \in Linked : ticket'[u] = ticket[u]
    BY <1>1 DEF Register, CheckInit, SetInit, InitMutex, CloseAdd, AddLock, AddTest,
       AddLink, DelLock, DelFree, LoopTest, QLock, Sleep, SpuriousWake, QEmpty, QFront,
       QTake, QLeave, WorkDone, Linked, LinkedPC
  <2>2. CASE QEmpty(w) /\ queue = <<>>
    BY <1>1, <2>1, <2>2 DEF WalkInv, StrandedOnlyByLostSignal
  <2>3. CASE ~(QEmpty(w) /\ queue = <<>>)
    <3>1. \A u \in Workers : wpc'[u] \in {"pre_wait", "asleep"} =>
            wpc[u] \in {"pre_wait", "asleep"} /\ missed'[u] = missed[u]
      BY <1>1, <2>3 DEF Register, CheckInit, SetInit, InitMutex, CloseAdd, AddLock,
         AddTest, AddLink, DelLock, DelFree, LoopTest, QLock, Sleep, SpuriousWake, QFront,
         QTake, QLeave, WorkDone
    <3> QED BY <1>1, <2>1, <3>1, QuietWalk
  <2> QED BY <2>2, <2>3
<1>2. ASSUME NEW w \in Workers, DelUnlink(w)
      PROVE  WalkInv'
  BY <1>2 DEF DelUnlink, StopInv, LeavingPC, WalkInv, StrandedOnlyByLostSignal
<1>3. ASSUME NEW c \in Callers, Arrive(c) \/ CallerLock(c), queue' = queue
      PROVE  WalkInv'
  <2>1. /\ UNCHANGED <<broken, mpc, cursor, wpc, missed, ticket>>
        /\ \A d \in Callers : cpc'[d] = cpc[d] \/ {cpc[d], cpc'[d]} \cap
             {"a_walk", "w_signal", "w_next"} = {}
    BY <1>3 DEF Arrive, CallerLock
  <2> QED BY <1>3, <2>1, QuietWalk DEF Linked
<1>4. ASSUME NEW c \in Callers, HttpD_Add(c)
      PROVE  WalkInv'
  <2>1. /\ UNCHANGED <<broken, mpc, cursor, wpc, missed, ticket>>
        /\ cpc' = [cpc EXCEPT ![c] = "a_walk"]
    BY <1>4 DEF HttpD_Add, Push
  <2>2. \A w : WillSignal(c, w)'
    BY <2>1 DEF WillSignal
  <2> QED BY <2>1, <2>2 DEF WalkInv, StrandedOnlyByLostSignal, Linked
<1>5. ASSUME NEW c \in Callers, Walk(c), queue' = queue
      PROVE  WalkInv'
  <2>1. /\ UNCHANGED <<broken, mpc, head, next, ticket>>
        /\ Linked' = Linked
    BY <1>5 DEF Walk, WalkStart, WalkNext, WalkTo, WalkSignal, SignalWorker, Linked,
       LinkedPC, Valid
  <2> SUFFICES ASSUME ~broken, mpc = "run" PROVE WalkInv'
    BY <2>1 DEF WalkInv, StrandedOnlyByLostSignal
  <2>2. /\ RegistryInOrder
        /\ \A d \in Callers : cpc[d] \in {"w_signal", "w_next"} => cursor[d] \in Linked
        /\ \A u, v \in Linked : ticket[u] = ticket[v] => u = v
        /\ Linked \subseteq Workers
    BY DEF ListInv, WalkInv, Linked
  <2>3. \A w \in Workers : wpc'[w] \in {"pre_wait", "asleep"} =>
          w \in Linked /\ wpc[w] \in {"pre_wait", "asleep"}
    BY <1>5 DEF Walk, WalkStart, WalkNext, WalkTo, WalkSignal, SignalWorker, Linked,
       LinkedPC, Valid
  (* What is enough: the walk of c moves on, and still meets every sleeper. *)
  <2>4. ASSUME cpc'[c] \in {"w_signal", "w_next"} => cursor'[c] \in Linked,
               \A d \in Callers : d # c => cpc'[d] = cpc[d] /\ cursor'[d] = cursor[d],
               \A w \in Linked : WillSignal(c, w) /\ wpc'[w] \in {"pre_wait", "asleep"} =>
                 WillSignal(c, w)' \/ "add" \in missed'[w],
               \A w \in Workers : missed[w] \subseteq missed'[w]
        PROVE  WalkInv'
    <3>1. \A d \in Callers, w \in Linked : d # c /\ WillSignal(d, w) => WillSignal(d, w)'
      BY <2>1, <2>4 DEF WillSignal
    <3>2. \A d \in Callers : cpc'[d] \in {"w_signal", "w_next"} => cursor'[d] \in Linked'
      BY <2>1, <2>2, <2>4
    <3>3. ASSUME NEW w \in Workers, wpc'[w] \in {"pre_wait", "asleep"}, queue' # <<>>
          PROVE  "add" \in missed'[w] \/ \E d \in Callers : WillSignal(d, w)'
      <4>1. "add" \in missed[w] \/ \E d \in Callers : WillSignal(d, w)
        BY <1>5, <2>3, <3>3 DEF WalkInv, StrandedOnlyByLostSignal
      <4> QED BY <2>3, <2>4, <3>1, <3>3, <4>1
    <3> QED BY <3>2, <3>3 DEF WalkInv, StrandedOnlyByLostSignal
  <2>5. CASE WalkStart(c)
    <3>1. /\ cpc[c] = "a_walk" /\ cursor' = [cursor EXCEPT ![c] = head]
          /\ cpc' = [cpc EXCEPT ![c] = IF head = NULL THEN "idle" ELSE "w_signal"]
          /\ UNCHANGED <<wpc, missed>>
      BY <2>5 DEF WalkStart, WalkTo
    <3>2. head = NULL => Linked = {}
      BY <2>2 DEF RegistryInOrder
    <3>3. head # NULL => head \in Linked /\ \A w \in Linked : ticket[head] <= ticket[w]
      BY <2>2 DEF RegistryInOrder
    <3>4. \A w \in Linked : WillSignal(c, w)'
      BY <2>1, <3>1, <3>2, <3>3 DEF WillSignal
    <3> QED BY <2>4, <3>1, <3>3, <3>4
  <2>6. CASE WalkSignal(c)
    <3>1. /\ cpc[c] = "w_signal" /\ cursor' = cursor /\ cursor[c] \in Linked
          /\ cpc' = [cpc EXCEPT ![c] = "w_next"]
          /\ \A w \in Workers : missed[w] \subseteq missed'[w]
          /\ wpc'[cursor[c]] = "pre_wait" => "add" \in missed'[cursor[c]]
          /\ wpc'[cursor[c]] # "asleep"
      BY <2>2, <2>6 DEF WalkSignal, SignalWorker, Valid
    <3>2. \A w \in Linked : ticket[cursor[c]] <= ticket[w] /\ w # cursor[c] =>
            ticket[cursor[c]] < ticket[w]
      <4>1. \A w \in Linked : ticket[w] \in Nat
        BY <2>2
      <4> QED BY <2>2, <3>1, <4>1
    <3>3. \A w \in Linked : WillSignal(c, w) /\ wpc'[w] \in {"pre_wait", "asleep"} =>
            WillSignal(c, w)' \/ "add" \in missed'[w]
      BY <2>1, <3>1, <3>2 DEF WillSignal
    <3> QED BY <2>4, <3>1, <3>3
  <2>7. CASE WalkNext(c)
    <3> DEFINE n == next[cursor[c]]
    <3>1. /\ cpc[c] = "w_next" /\ cursor' = [cursor EXCEPT ![c] = n]
          /\ cpc' = [cpc EXCEPT ![c] = IF n = NULL THEN "idle" ELSE "w_signal"]
          /\ UNCHANGED <<wpc, missed>> /\ cursor[c] \in Linked
      BY <2>2, <2>7 DEF WalkNext, WalkTo
    <3>2. Follows(cursor[c], n)
      BY <2>2, <3>1 DEF RegistryInOrder
    <3>3. n # NULL => n \in Linked
      BY <3>2 DEF Follows
    <3>4. ASSUME NEW w \in Linked, ticket[cursor[c]] < ticket[w]
          PROVE  n # NULL /\ ticket[n] <= ticket[w]
      <4> DEFINE s == ticket[cursor[c]]
                 t == ticket[w]
      <4>1. s \in Nat /\ t \in Nat /\ s < t /\ ~(t <= s)
        BY <2>2, <3>1, <3>4
      <4>2. n # NULL
        BY <3>2, <4>1 DEF Follows
      <4> QED BY <3>2, <4>1, <4>2 DEF Follows
    <3>5. \A w \in Linked : WillSignal(c, w) => WillSignal(c, w)'
      BY <2>1, <3>1, <3>4 DEF WillSignal
    <3> QED BY <2>4, <3>1, <3>3, <3>5
  <2> QED BY <1>5, <2>5, <2>6, <2>7 DEF Walk
<1>6. ASSUME mpc' # "run"
      PROVE  WalkInv'
  BY <1>6 DEF WalkInv, StrandedOnlyByLostSignal
<1>7. ASSUME Cleanup
      PROVE  mpc' # "run"
  BY <1>7 DEF Cleanup, CleanupStart, CleanupLock, CleanupTest, CleanupPick, JoinStop,
     JoinSignal, JoinReadId, JoinDone, CleanupDestroy
<1>8. ASSUME UNCHANGED <<broken, mpc, cursor, cpc, wpc, missed, ticket, queue>>
      PROVE  WalkInv'
  BY <1>8, QuietWalk DEF Linked
<1>9. CASE PoolStep
  <2>1. queue' = queue
    BY <1>9 DEF PoolStep
  <2>2. CASE \E w \in Workers : Register(w) \/ Unregister(w) \/ LoopTest(w)
                                \/ QLock(w) \/ Sleep(w) \/ SpuriousWake(w)
    <3>1. PICK w \in Workers : Register(w) \/ Unregister(w) \/ LoopTest(w)
                               \/ QLock(w) \/ Sleep(w) \/ SpuriousWake(w)
      BY <2>2
    <3>2. CASE DelUnlink(w)
      BY <1>2, <3>2
    <3>3. CASE ~DelUnlink(w)
      <4>1. Quiet(w)
        BY <3>1, <3>3 DEF Unregister
      <4>2. queue' # <<>> => queue # <<>>
        BY <2>1
      <4> HIDE DEF Quiet
      <4> QED BY <1>1, <4>1, <4>2
    <3> QED BY <3>2, <3>3
  <2>3. CASE \E c \in Callers : CallerLock(c) \/ Walk(c)
    BY <1>3, <1>5, <2>1, <2>3
  <2>4. CASE \/ CleanupStart \/ CleanupLock \/ CleanupTest \/ CleanupPick \/ JoinStop
             \/ JoinSignal \/ JoinReadId \/ JoinDone
    BY <1>6, <1>7, <2>4 DEF Cleanup
  <2> QED BY <1>9, <2>2, <2>3, <2>4 DEF PoolStep
<1>10. CASE \E w \in Workers : SeeEmpty(w) \/ ReadFront(w) \/ PopFront(w) \/ HTTP_Work(w)
  BY <1>10, <1>1 DEF SeeEmpty, ReadFront, PopFront, HTTP_Work
<1>11. CASE \E c \in Callers : Accept(c) \/ HttpD_Add(c)
  BY <1>11, <1>3, <1>4 DEF Accept
<1>12. CASE HttpD_Cleanup
  BY <1>12, <1>6, <1>7 DEF HttpD_Cleanup, Cleanup
<1>13. CASE Crash /\ UNCHANGED requests
  BY <1>13, <1>8 DEF Crash
<1>14. CASE (\E w \in Workers : HttpFault(w)) \/ UNCHANGED hvars
  BY <1>14, <1>8 DEF HttpFault, hvars, vars
<1> QED BY <1>9, <1>10, <1>11, <1>12, <1>13, <1>14 DEF HttpNext

---------------------------------------------------------------------------
THEOREM HInvHolds == HttpSpec => []HInv
<1>1. HttpInit => HInv
  <2> SUFFICES ASSUME HttpInit PROVE HInv
    OBVIOUS
  <2>1. IInv
    BY InitInv DEF HttpInit
  <2>2. /\ \A w \in Workers : wpc[w] = "check_init"
        /\ \A c \in Callers : cpc[c] = "idle"
        /\ queue = <<>> /\ links = {} /\ fault = "none"
    BY DEF HttpInit, Init
  <2>3. HttpTypeInv
    BY <2>2 DEF HttpInit, HttpTypeInv, HttpTypeOK, Carrying
  <2>4. ReqInv
    BY <2>2 DEF ReqInv, OneOwner, QueuedOnce, CarriedOnce, ServedOnce, NoneLost, Serving,
       Carrying, WorkIsSound
  <2>5. WalkInv
    BY <2>2 DEF WalkInv, StrandedOnlyByLostSignal
  <2> QED BY <2>1, <2>3, <2>4, <2>5 DEF HInv
<1>2. HInv /\ [HttpNext]_hvars => HInv'
  <2> SUFFICES ASSUME HInv, [HttpNext]_hvars PROVE HInv'
    OBVIOUS
  <2>1. IInv'
    BY StepIsPoolStep, InvStep DEF HInv
  <2> QED BY <2>1, ReqStep, WalkStep DEF HInv
<1> QED BY <1>1, <1>2, PTL DEF HttpSpec

(* Type correctness of the requests. *)
THEOREM HttpTypeCorrect == HttpSpec => []HttpTypeOK
<1>1. HInv => HttpTypeOK
  BY DEF HInv, HttpTypeInv
<1> QED BY HInvHolds, <1>1, PTL

(* Every request of an intact pool has exactly one owner. *)
THEOREM OneOwnerHolds == HttpSpec => []OneOwner
<1>1. HInv => OneOwner
  BY DEF HInv, ReqInv
<1> QED BY HInvHolds, <1>1, PTL

(* No worker of an intact pool pops an empty queue or serves a deleted     *)
(* request.                                                                *)
THEOREM WorkIsSoundHolds == HttpSpec => []WorkIsSound
<1>1. HInv => WorkIsSound
  BY DEF HInv, ReqInv
<1> QED BY HInvHolds, <1>1, PTL

(* Only a signal lost before the wait leaves a worker asleep beside a      *)
(* request.                                                                *)
THEOREM StrandedHolds == HttpSpec => []StrandedOnlyByLostSignal
<1>1. HInv => StrandedOnlyByLostSignal
  BY DEF HInv, WalkInv
<1> QED BY HInvHolds, <1>1, PTL
---------------------------------------------------------------------------
(* The refinement.  What WorkQueue calls serving, for one worker. *)
Served(w) == IF ~broken /\ Serving(w) THEN holds[w] ELSE NULL

(* A step that leaves the queue and what the workers serve as they are,    *)
(* while the mutex keeps its state, is invisible to WorkQueue.             *)
LEMMA QueueStutter ==
  ASSUME UNCHANGED <<broken, queue>>, \A w \in Workers : Served(w)' = Served(w)
  PROVE  UNCHANGED Queue!vars
<1>1. [w \in Workers |-> Served(w)'] = [w \in Workers |-> Served(w)]
  OBVIOUS
<1> QED BY <1>1 DEF Queue!vars, Served, Serving

(* A mutex that was reinitialised while held, or destroyed, stays broken. *)
LEMMA BrokenForGood ==
  ASSUME [Next]_vars, broken PROVE broken'
<1> USE DEF mutex
<1>1. ASSUME NEW w \in Workers, Register(w) \/ Serve(w) \/ Unregister(w)
      PROVE  broken'
  BY <1>1 DEF Register, CheckInit, SetInit, InitMutex, CloseAdd, AddLock, AddTest, AddLink,
     Serve, LoopTest, QLock, QEmpty, QFront, QTake, QLeave, WorkDone, Sleep, SpuriousWake,
     Unregister, DelLock, DelUnlink, DelFree
<1>2. ASSUME NEW c \in Callers, Arrive(c) \/ CallerLock(c) \/ Push(c) \/ Walk(c)
      PROVE  broken'
  BY <1>2 DEF Arrive, CallerLock, Push, Walk, WalkStart, WalkNext, WalkTo, WalkSignal
<1>3. ASSUME Cleanup PROVE broken'
  BY <1>3 DEF Cleanup, CleanupStart, CleanupLock, CleanupTest, CleanupPick, JoinStop,
     JoinSignal, JoinReadId, JoinDone, CleanupDestroy
<1> QED BY <1>1, <1>2, <1>3 DEF Next, Crash, vars

(* Once the mutex is gone WorkQueue is closed and stays so. *)
LEMMA QueueClosed ==
  ASSUME broken' PROVE Queue!Close \/ UNCHANGED Queue!vars
BY DEF Queue!Close, Queue!vars

(* Every step of the HTTP pool is a step of WorkQueue or invisible in it. *)
LEMMA QueueStep ==
  ASSUME HInv, [HttpNext]_hvars
  PROVE  [Queue!Next]_Queue!vars
<1>t. TypeOK /\ HttpTypeOK /\ OneOwner /\ ReqInv
  BY DEF HInv, IInv, HttpTypeInv, ReqInv
<1> USE <1>t DEF TypeOK, HttpTypeOK, WorkerGoes, CallerGoes, MainGoes, mutex, Serving,
                 Carrying, requests
<1>1. CASE broken'
  BY <1>1, QueueClosed DEF Queue!Next
<1>2. CASE ~broken'
  <2>1. broken => broken'
    BY StepIsPoolStep, BrokenForGood DEF HInv, IInv
  <2>2. ~broken
    BY <1>2, <2>1
  <2>3. ASSUME NEW c \in Callers, HttpD_Add(c)
        PROVE  Queue!Put(carry[c])
    BY <1>2, <2>2, <2>3 DEF HttpD_Add, Push, Queue!Put
  <2>4. ASSUME NEW c \in Callers, HttpD_Add(c)
        PROVE  carry[c] \in Links
    BY <2>2, <2>4 DEF HttpD_Add, Push, OneOwner, CarriedOnce
  <2>5. ASSUME NEW w \in Workers, PopFront(w)
        PROVE  Queue!Take(w)
    <3>1. /\ wpc[w] = "q_pop" /\ wpc' = [wpc EXCEPT ![w] = "work"]
          /\ queue # <<>> /\ queue' = Tail(queue) /\ holds' = holds
      BY <2>5 DEF PopFront, QTake, QLeave
    <3>2. holds[w] = Head(queue)
      BY <2>2, <3>1 DEF ReqInv
    <3> QED BY <1>2, <2>2, <3>1, <3>2 DEF Queue!Take
  <2>6. ASSUME NEW w \in Workers, HTTP_Work(w)
        PROVE  Queue!Finish(w)
    <3>1. /\ wpc[w] = "work" /\ wpc' = [wpc EXCEPT ![w] = "loop"]
          /\ holds[w] \in Links /\ holds' = [holds EXCEPT ![w] = NULL]
          /\ queue' = queue
      BY <2>6 DEF HTTP_Work, WorkDone
    <3> QED BY <1>2, <2>2, <3>1, LinksAssumption DEF Queue!Finish
  <2>7. ASSUME UNCHANGED <<broken, queue>>,
               \A w \in Workers : Served(w)' = Served(w)
        PROVE  UNCHANGED Queue!vars
    BY <2>7, QueueStutter
  <2>8. CASE PoolStep
    <3>1. \A w \in Workers : Served(w)' = Served(w)
      BY <1>2, <2>2, <2>8, PoolStepQuiet DEF Served
    <3>2. queue' = queue
      BY <2>8 DEF PoolStep
    <3>3. TypeOK'
      BY StepIsPoolStep, TypeStep
    <3>4. broken' = broken
      BY <1>2, <2>2, <3>3
    <3> QED BY <2>7, <3>1, <3>2, <3>4
  <2>9. CASE \E c \in Callers : Accept(c) \/ HttpD_Add(c)
    <3>1. ASSUME NEW c \in Callers, Accept(c)
          PROVE  UNCHANGED Queue!vars
      BY <2>7, <3>1 DEF Accept, Arrive, Served
    <3> QED BY <2>3, <2>4, <2>9, <3>1 DEF Queue!Next
  <2>10. CASE \E w \in Workers : SeeEmpty(w) \/ ReadFront(w) \/ PopFront(w) \/ HTTP_Work(w)
    <3>1. ASSUME NEW w \in Workers, SeeEmpty(w)
          PROVE  UNCHANGED Queue!vars
      BY <2>7, <3>1 DEF SeeEmpty, QEmpty, QLeave, Served
    <3>2. ASSUME NEW w \in Workers, ReadFront(w)
          PROVE  UNCHANGED Queue!vars
      BY <2>7, <3>2 DEF ReadFront, QFront, Served
    <3> QED BY <2>5, <2>6, <2>10, <3>1, <3>2 DEF Queue!Next
  <2>11. CASE HttpD_Cleanup
    BY <1>2, <2>11 DEF HttpD_Cleanup, CleanupDestroy
  <2>12. CASE (Crash /\ UNCHANGED requests) \/ (\E w \in Workers : HttpFault(w))
              \/ UNCHANGED hvars
    BY <2>7, <2>12 DEF Crash, HttpFault, hvars, vars, Served
  <2> QED BY <2>8, <2>9, <2>10, <2>11, <2>12 DEF HttpNext
<1> QED BY <1>1, <1>2

(* The HTTP pool keeps the promise of WorkQueue: while its mutex is intact *)
(* requests are taken in the order they came, each by one worker, and a    *)
(* worker finishes the request it took.                                    *)
THEOREM WorkQueueImplemented == HttpSpec => ImplementsWorkQueue
<1>1. HttpInit => Queue!Init
  BY DEF HttpInit, Init, Queue!Init, Serving
<1> QED BY <1>1, HInvHolds, QueueStep, PTL DEF HttpSpec, ImplementsWorkQueue, Queue!Spec

---------------------------------------------------------------------------
(***************************************************************************)
(* HTTP answering (HttpReply).  First the induction that what follows      *)
(* rests on.                                                               *)
(***************************************************************************)
Less == OpToRel(<, Nat)

LEMMA SetInduction ==
  ASSUME NEW S, 0 \in S, \A m \in Nat : m \in S => m + 1 \in S
  PROVE  Nat \subseteq S
<1> SUFFICES ASSUME Nat \ S # {} PROVE FALSE
  OBVIOUS
<1>1. IsWellFoundedOn(Less, Nat)
  BY NatLessThanWellFounded DEF Less
<1>2. \A x, y \in Nat : <<x, y>> \in Less <=> x < y
  BY DEF Less, OpToRel
<1>3. PICK x \in Nat \ S : \A y \in Nat \ S : ~ (<<y, x>> \in Less)
  BY <1>1, WFMin
<1>4. x - 1 \in Nat /\ x - 1 < x /\ x - 1 + 1 = x
  BY <1>3
<1>5. x - 1 \notin S
  BY <1>3, <1>4
<1>6. QED
  BY <1>2, <1>3, <1>4, <1>5

---------------------------------------------------------------------------
(* FlattenSeq, a sequence at a time.                                       *)
FirstOf(s, n) == FlattenSeq(SubSeq(s, 1, n))

Joins(f, s, m) ==
  f = [n \in 1..m |-> IF n = 1 THEN s[n] ELSE f[n - 1] \o s[n]]

LEMMA JoinsExists == \A s : \A m \in Nat : \E f : Joins(f, s, m)
<1> SUFFICES ASSUME NEW s PROVE \A m \in Nat : \E f : Joins(f, s, m)
  OBVIOUS
<1> DEFINE S == {m \in Nat : \E f : Joins(f, s, m)}
<1>1. 0 \in S
  <2> DEFINE f == [n \in 1..0 |-> <<>>]
  <2>1. Joins(f, s, 0)
    BY DEF Joins
  <2>2. QED BY <2>1
<1>2. ASSUME NEW m \in Nat, m \in S PROVE m + 1 \in S
  <2>1. PICK f : Joins(f, s, m)
    BY <1>2
  <2> DEFINE g == [n \in 1..(m + 1) |->
                     IF n # m + 1 THEN f[n] ELSE IF n = 1 THEN s[n] ELSE f[m] \o s[n]]
             h == [n \in 1..(m + 1) |-> IF n = 1 THEN s[n] ELSE g[n - 1] \o s[n]]
  <2>2. f = [n \in 1..m |-> IF n = 1 THEN s[n] ELSE f[n - 1] \o s[n]]
    BY <2>1 DEF Joins
  <2>3. ASSUME NEW n \in 1..(m + 1) PROVE g[n] = h[n]
    <3>1. CASE n = m + 1
      <4>1. CASE n = 1
        BY <3>1, <4>1
      <4>2. CASE n # 1
        <5>1. n - 1 = m /\ m \in 1..(m + 1) /\ m # m + 1
          BY <3>1, <4>2
        <5>2. g[n - 1] = f[m] /\ g[n] = f[m] \o s[n]
          BY <3>1, <4>2, <5>1
        <5>3. QED BY <4>2, <5>2
      <4>3. QED BY <4>1, <4>2
    <3>2. CASE n # m + 1 /\ n = 1
      <4>1. n \in 1..m
        BY <3>2
      <4>2. QED BY <2>2, <3>2, <4>1
    <3>3. CASE n # m + 1 /\ n # 1
      <4>1. n \in 1..m /\ n - 1 \in 1..(m + 1) /\ n - 1 # m + 1
        BY <3>3
      <4>2. g[n - 1] = f[n - 1] /\ g[n] = f[n]
        BY <3>3, <4>1
      <4>3. f[n] = f[n - 1] \o s[n]
        BY <2>2, <3>3, <4>1
      <4>4. QED BY <3>3, <4>2, <4>3
    <3>4. QED BY <3>1, <3>2, <3>3
  <2>4. g = h
    <3>1. g = [n \in 1..(m + 1) |-> g[n]] /\ h = [n \in 1..(m + 1) |-> h[n]]
      OBVIOUS
    <3> HIDE DEF g, h
    <3>2. QED BY <2>3, <3>1
  <2>5. Joins(g, s, m + 1)
    BY <2>4 DEF Joins
  <2>6. QED BY <2>5
<1>3. Nat \subseteq S
  <2> HIDE DEF S
  <2>1. QED BY <1>1, <1>2, SetInduction
<1>4. QED
  BY <1>3

LEMMA FlattenIsLast ==
  ASSUME NEW s, Len(s) \in Nat, Len(s) # 0
  PROVE  \E f : Joins(f, s, Len(s)) /\ FlattenSeq(s) = f[Len(s)]
<1> DEFINE e[n \in 1..Len(s)] == IF n = 1 THEN s[n] ELSE e[n - 1] \o s[n]
<1>1. FlattenSeq(s) = e[Len(s)]
  BY Zenon DEF FlattenSeq
<1>2. \E f : f = [n \in 1..Len(s) |-> IF n = 1 THEN s[n] ELSE f[n - 1] \o s[n]]
  BY JoinsExists DEF Joins
<1>3. e = [n \in 1..Len(s) |-> IF n = 1 THEN s[n] ELSE e[n - 1] \o s[n]]
  BY <1>2, Zenon
<1> HIDE DEF e
<1>4. QED
  BY <1>1, <1>3 DEF Joins

LEMMA JoinsAt ==
  ASSUME NEW f, NEW s, NEW m, Joins(f, s, m), NEW n \in 1..m
  PROVE  f[n] = (IF n = 1 THEN s[n] ELSE f[n - 1] \o s[n])
BY Zenon DEF Joins

LEMMA JoinsAgree ==
  ASSUME NEW f, NEW g, NEW r, NEW s, NEW m \in Nat, NEW k \in Nat, k <= m,
         Joins(f, s, m), Joins(g, r, k), \A n \in 1..k : r[n] = s[n], k # 0
  PROVE  g[k] = f[k]
<1> DEFINE S == {n \in Nat : n \in 1..k => g[n] = f[n]}
<1>1. 0 \in S
  OBVIOUS
<1>2. ASSUME NEW n \in Nat, n \in S PROVE n + 1 \in S
  <2> SUFFICES ASSUME n + 1 <= k PROVE g[n + 1] = f[n + 1]
    OBVIOUS
  <2>1. n + 1 \in 1..k /\ n + 1 \in 1..m /\ (n + 1) - 1 = n
    OBVIOUS
  <2>2. g[n + 1] = (IF n + 1 = 1 THEN r[n + 1] ELSE g[(n + 1) - 1] \o r[n + 1])
    BY <2>1, JoinsAt
  <2>3. f[n + 1] = (IF n + 1 = 1 THEN s[n + 1] ELSE f[(n + 1) - 1] \o s[n + 1])
    BY <2>1, JoinsAt
  <2>4. n + 1 # 1 => g[n] = f[n]
    BY <1>2, <2>1
  <2>5. r[n + 1] = s[n + 1]
    BY <2>1
  <2>6. CASE n + 1 = 1
    BY <2>2, <2>3, <2>5, <2>6, Zenon
  <2>7. CASE n + 1 # 1
    BY <2>1, <2>2, <2>3, <2>4, <2>5, <2>7, Zenon
  <2>8. QED BY <2>6, <2>7, Zenon
<1>3. Nat \subseteq S
  <2> HIDE DEF S
  <2>1. QED BY <1>1, <1>2, SetInduction
<1>4. QED
  BY <1>3

LEMMA Joined ==
  ASSUME NEW S, NEW s \in Seq(S), NEW r \in Seq(S)
  PROVE  /\ s \o r \in Seq(S) /\ Len(s \o r) = Len(s) + Len(r)
         /\ \A i \in 1..Len(s) : (s \o r)[i] = s[i]
         /\ \A i \in 1..Len(r) : (s \o r)[Len(s) + i] = r[i]
OBVIOUS

(* What is known of the beginnings of what a sequence is flattened to.     *)
LEMMA FlattenIs ==
  ASSUME NEW T, NEW s \in Seq(Seq(T))
  PROVE  /\ FirstOf(s, 0) = <<>> /\ FirstOf(s, Len(s)) = FlattenSeq(s)
         /\ \A n \in 0..Len(s) : FirstOf(s, n) \in Seq(T)
         /\ \A n \in 1..Len(s) : FirstOf(s, n) = FirstOf(s, n - 1) \o s[n]
<1>1. Len(s) \in Nat /\ \A n \in 1..Len(s) : s[n] \in Seq(T)
  OBVIOUS
<1>2. PICK f : Joins(f, s, Len(s))
  BY <1>1, JoinsExists
<1>3. ASSUME NEW n \in 1..Len(s) PROVE FirstOf(s, n) = f[n]
  <2> DEFINE r == SubSeq(s, 1, n)
  <2>1. Len(r) = n /\ n \in Nat /\ n # 0 /\ n <= Len(s) /\ \A i \in 1..n : r[i] = s[i]
    BY <1>1
  <2> HIDE DEF r
  <2>2. PICK g : Joins(g, r, Len(r)) /\ FlattenSeq(r) = g[Len(r)]
    BY <2>1, FlattenIsLast
  <2>3. Joins(g, r, n)
    BY <2>1, <2>2
  <2>4. Len(s) \in Nat /\ n \in Nat /\ n <= Len(s) /\ n # 0 /\ \A i \in 1..n : r[i] = s[i]
    BY <1>1, <2>1
  <2>5. FlattenSeq(r) = f[n]
    <3>1. g[n] = f[n]
      BY <1>2, <2>3, <2>4, JoinsAgree
    <3>2. QED BY <2>1, <2>2, <3>1, Zenon
  <2>6. QED BY <2>1, <2>5, Zenon DEF FirstOf, r
<1>4. FirstOf(s, 0) = <<>>
  <2>1. SubSeq(s, 1, 0) = <<>> /\ Len(<<>>) = 0
    BY <1>1
  <2>2. FlattenSeq(<<>>) = <<>>
    BY <2>1, Zenon DEF FlattenSeq
  <2>3. QED BY <2>1, <2>2, Zenon DEF FirstOf
<1>5. SubSeq(s, 1, Len(s)) = s
  OBVIOUS
<1>6. FirstOf(s, Len(s)) = FlattenSeq(s)
  BY <1>5, Zenon DEF FirstOf
<1>7. \A n \in 1..Len(s) : f[n] = (IF n = 1 THEN s[n] ELSE f[n - 1] \o s[n])
  BY <1>1, <1>2 DEF Joins
<1>8. ASSUME NEW n \in 1..Len(s) PROVE FirstOf(s, n) = FirstOf(s, n - 1) \o s[n]
  <2>1. CASE n = 1
    <3>1. s[1] \in Seq(T) /\ n - 1 = 0
      BY <1>1, <2>1
    <3>2. <<>> \o s[1] = s[1]
      BY <3>1
    <3>3. QED BY <1>3, <1>4, <1>7, <2>1, <3>1, <3>2
  <2>2. CASE n # 1
    <3>1. n - 1 \in 1..Len(s)
      BY <1>1, <2>2
    <3>2. QED BY <1>3, <1>7, <2>2, <3>1
  <2>3. QED BY <2>1, <2>2
<1> DEFINE S == {n \in Nat : n <= Len(s) => FirstOf(s, n) \in Seq(T)}
<1>9. 0 \in S
  <2>1. <<>> \in Seq(T)
    OBVIOUS
  <2>2. QED BY <1>4, <2>1
<1>10. ASSUME NEW n \in Nat, n \in S PROVE n + 1 \in S
  <2> SUFFICES ASSUME n + 1 <= Len(s) PROVE FirstOf(s, n + 1) \in Seq(T)
    OBVIOUS
  <2>1. n + 1 \in 1..Len(s) /\ (n + 1) - 1 = n /\ n <= Len(s)
    BY <1>1
  <2>2. FirstOf(s, n + 1) = FirstOf(s, n) \o s[n + 1]
    BY <1>8, <2>1
  <2>3. FirstOf(s, n) \in Seq(T) /\ s[n + 1] \in Seq(T)
    BY <1>1, <1>10, <2>1
  <2>4. FirstOf(s, n) \o s[n + 1] \in Seq(T)
    BY <2>3, Joined
  <2>5. QED BY <2>2, <2>4
<1>11. Nat \subseteq S
  <2> HIDE DEF S
  <2>1. QED BY <1>9, <1>10, SetInduction
<1>12. \A n \in 0..Len(s) : FirstOf(s, n) \in Seq(T)
  <2> SUFFICES ASSUME NEW n \in 0..Len(s) PROVE FirstOf(s, n) \in Seq(T)
    OBVIOUS
  <2>1. n \in Nat /\ n <= Len(s)
    BY <1>1
  <2>2. QED BY <1>11, <2>1
<1>13. QED
  BY <1>4, <1>6, <1>8, <1>12

LEMMA FlattenType ==
  ASSUME NEW T, NEW s \in Seq(Seq(T))
  PROVE  FlattenSeq(s) \in Seq(T)
<1>1. Len(s) \in 0..Len(s)
  OBVIOUS
<1>2. QED
  BY <1>1, FlattenIs

LEMMA FlattenOne ==
  ASSUME NEW T, NEW x \in Seq(T)
  PROVE  FlattenSeq(<<x>>) = x
<1> DEFINE s == <<x>>
<1>1. s \in Seq(Seq(T)) /\ Len(s) = 1 /\ s[1] = x
  OBVIOUS
<1>2. <<>> \o x = x
  OBVIOUS
<1> HIDE DEF s
<1>3. FlattenSeq(s) = FirstOf(s, 1) /\ FirstOf(s, 0) = <<>>
  BY <1>1, FlattenIs
<1>4. 1 \in 1..Len(s) /\ 1 - 1 = 0
  BY <1>1
<1>5. FirstOf(s, 1) = FirstOf(s, 1 - 1) \o s[1]
  BY <1>1, <1>4, FlattenIs
<1>6. FlattenSeq(s) = x
  BY <1>1, <1>2, <1>3, <1>4, <1>5, Zenon
<1>7. QED
  BY <1>6 DEF s

Cat(s, r) == s \o r

LEMMA CatAssociative ==
  ASSUME NEW T, NEW x \in Seq(T), NEW y \in Seq(T), NEW z \in Seq(T)
  PROVE  Cat(Cat(x, y), z) = Cat(x, Cat(y, z))
BY ConcatAssociative DEF Cat

LEMMA FlattenJoined ==
  ASSUME NEW T, NEW s \in Seq(Seq(T)), NEW r \in Seq(Seq(T))
  PROVE  FlattenSeq(s \o r) = FlattenSeq(s) \o FlattenSeq(r)
<1> DEFINE b == s \o r
<1>1. /\ b \in Seq(Seq(T)) /\ Len(b) = Len(s) + Len(r)
      /\ \A i \in 1..Len(s) : b[i] = s[i]
      /\ \A i \in 1..Len(r) : b[Len(s) + i] = r[i]
  BY Joined
<1>2. Len(s) \in Nat /\ Len(r) \in Nat
  OBVIOUS
<1> HIDE DEF b
<1>3. FirstOf(b, Len(s)) = FlattenSeq(s)
  <2>1. SubSeq(b, 1, Len(s)) = s
    BY <1>1, <1>2
  <2>2. QED BY <2>1, Zenon DEF FirstOf
<1>4. FlattenSeq(s) \in Seq(T)
  BY FlattenType
<1> DEFINE S == {n \in Nat : n <= Len(r) =>
                   FirstOf(b, Len(s) + n) = FlattenSeq(s) \o FirstOf(r, n)}
<1>5. 0 \in S
  <2>1. FirstOf(r, 0) = <<>>
    BY FlattenIs
  <2>2. FlattenSeq(s) \o <<>> = FlattenSeq(s) /\ Len(s) + 0 = Len(s)
    BY <1>2, <1>4
  <2>3. QED BY <1>3, <2>1, <2>2
<1>6. ASSUME NEW n \in Nat, n \in S PROVE n + 1 \in S
  <2> SUFFICES ASSUME n + 1 <= Len(r)
               PROVE  FirstOf(b, Len(s) + (n + 1)) = FlattenSeq(s) \o FirstOf(r, n + 1)
    OBVIOUS
  <2> DEFINE k == Len(s) + (n + 1)
  <2>1. /\ k \in 1..Len(b) /\ k - 1 = Len(s) + n /\ n + 1 \in 1..Len(r)
        /\ (n + 1) - 1 = n /\ n \in 0..Len(r)
    BY <1>1, <1>2
  <2>2. b[k] = r[n + 1] /\ r[n + 1] \in Seq(T)
    BY <1>1, <2>1
  <2> HIDE DEF k
  <2>3. FirstOf(b, k) = FirstOf(b, k - 1) \o b[k]
    BY <1>1, <2>1, FlattenIs
  <2>4. FirstOf(r, n + 1) = FirstOf(r, (n + 1) - 1) \o r[n + 1] /\ FirstOf(r, n) \in Seq(T)
    BY <2>1, FlattenIs
  <2>5. FirstOf(b, Len(s) + n) = FlattenSeq(s) \o FirstOf(r, n)
    BY <1>6, <2>1
  <2>6. FirstOf(b, k) = Cat(FirstOf(b, Len(s) + n), r[n + 1])
    <3>1. k - 1 = Len(s) + n
      BY <2>1
    <3>2. QED BY <2>2, <2>3, <3>1, Zenon DEF Cat
  <2>7. FirstOf(r, n + 1) = Cat(FirstOf(r, n), r[n + 1])
    BY <2>1, <2>4, Zenon DEF Cat
  <2>8. FirstOf(b, Len(s) + n) = Cat(FlattenSeq(s), FirstOf(r, n))
    BY <2>5, Zenon DEF Cat
  <2>9. Cat(Cat(FlattenSeq(s), FirstOf(r, n)), r[n + 1])
          = Cat(FlattenSeq(s), Cat(FirstOf(r, n), r[n + 1]))
    <3>1. FlattenSeq(s) \in Seq(T) /\ FirstOf(r, n) \in Seq(T) /\ r[n + 1] \in Seq(T)
      BY <1>4, <2>2, <2>4
    <3>2. QED BY <3>1, CatAssociative
  <2>10. FirstOf(b, k) = Cat(FlattenSeq(s), FirstOf(r, n + 1))
    BY <2>6, <2>7, <2>8, <2>9, Zenon
  <2>11. QED BY <2>10, Zenon DEF k, Cat
<1>7. Nat \subseteq S
  <2> HIDE DEF S
  <2>1. QED BY <1>5, <1>6, SetInduction
<1>8. FirstOf(b, Len(b)) = FlattenSeq(b) /\ FirstOf(r, Len(r)) = FlattenSeq(r)
  BY <1>1, FlattenIs
<1>9. FirstOf(b, Len(s) + Len(r)) = FlattenSeq(s) \o FirstOf(r, Len(r))
  BY <1>2, <1>7
<1>10. QED
  BY <1>1, <1>8, <1>9 DEF b

---------------------------------------------------------------------------
(* A reply.  The status lines that have been sent are h.                   *)
Words == {"status", "length", "body", "text/html", "application/octet-stream", "none"} \cup Pages

ReplyTypes ==
  /\ method \in {"GET", "HEAD", "POST"} /\ value \in Values
  /\ disk \in [Pages -> States]
  /\ \A p \in Pages \ {"200"} : disk[p] \in {"html", "closed", "absent"}
  /\ page \in Seq(Tokens) /\ text \in Seq(Tokens)
  /\ status \in Pages \cup {"none"} /\ left \in Nat /\ sock \in BOOLEAN
  /\ sent \in Seq(Seq(Words))
  /\ pc \in {"find", "head", "open", "change", "send", "body", "done"}
  /\ pc \notin {"find", "done"} => status # "none"
  /\ invalid \in BOOLEAN /\ (invalid => pc = "open")
  /\ pc \in {"find", "head", "open"} => page = <<>> /\ text = <<>>

Lines(h) ==
  /\ h \in 0..Len(sent)
  /\ \A i \in 1..h : sent[i][1] = "status" /\ (i < h => Missing(sent[i][2]))
  /\ \A i \in (h + 1)..Len(sent) :
       h > 0 /\ sent[i] = <<IF i = h + 1 THEN "length" ELSE "body", sent[h][2]>>

(* The line that is being sent, or the last, is that of the page, if       *)
(* anything has come after it, or would if it was sent.                    *)
Begun(h) == sock \/ h < Len(sent)

Shown(h) ==
  /\ pc \in {"find", "head", "open", "change", "send"} => h = Len(sent)
  /\ (pc = "find" => h = 0) /\ (pc = "head" /\ h > 0 => Missing(sent[h][2]))
  /\ pc = "open" /\ h > 0 => Missing(sent[h][2]) \/ sent[h][2] = status
  /\ pc \notin {"find", "head"} /\ Begun(h) /\ ~invalid =>
       h > 0 /\ sent[h][2] = (IF status = "none" THEN "501" ELSE status)

TypeShown(h) ==
  /\ pc = "open" /\ sock /\ ~invalid =>
       /\ disk[status] = "html"  => sent[h][3] = "text/html"
       /\ disk[status] = "plain" => sent[h][3] # "text/html"
  /\ pc \in {"change", "send", "body", "done"} /\ status # "none" /\ Begun(h) =>
       (sent[h][3] = "text/html" <=> page # <<>>)

Ended(h) ==
  /\ (pc \in {"change", "send", "body"} => left > 0) /\ (pc = "body" /\ sock => h < Len(sent))
  /\ pc = "done" /\ status = "none" => h = Len(sent) /\ Missing("501")
  /\ pc = "done" /\ status # "none" /\ sock =>
       h < Len(sent) /\ (method = "HEAD" \/ (left = 0 /\ h + 1 < Len(sent)))

LineInv == \E h \in 0..Len(sent) : Lines(h) /\ Shown(h) /\ TypeShown(h) /\ Ended(h)

(* What is in the text that has to be replaced in turn is something that   *)
(* the page leads to.                                                      *)
LeadInv ==
  pc = "change" /\ ~Circular =>
    \A i \in DOMAIN text : text[i] \in Chained => \E n \in 0..4 : text[i] \in Leads[n]

ReplyInv == ReplyTypes /\ LineInv /\ LeadInv /\ ChangeKeepsTheMeaning

---------------------------------------------------------------------------
LEMMA BecomesType ==
  ASSUME value \in Values, NEW t
  PROVE  Becomes(t) \in Seq(Tokens)
<1>1. ASSUME t \in Settings PROVE value[t] \in Seq(Tokens)
  BY <1>1, ValuesAssumption
<1>2. {"sign", "system", "</BODY>", "copyright", "</HEAD>", "<BODY>", "<HEAD>", "text"} \subseteq Tokens
  BY DEF Tokens, Placeholders, Settings, Tags
<1>3. /\ <<"sign", "system", "</BODY>">> \in Seq(Tokens) /\ <<"copyright", "</HEAD>">> \in Seq(Tokens)
      /\ <<"<BODY>">> \in Seq(Tokens) /\ <<"<HEAD>">> \in Seq(Tokens) /\ <<"text">> \in Seq(Tokens)
      /\ PlayersList \in Seq(Tokens)
  BY <1>2 DEF PlayersList
<1>4. QED
  BY <1>1, <1>3 DEF Becomes

LEMMA AdjustType ==
  ASSUME value \in Values, text \in Seq(Tokens), NEW i \in DOMAIN text, Adjust(i)
  PROVE  text' \in Seq(Tokens)
<1>1. SubSeq(text, 1, i - 1) \in Seq(Tokens) /\ SubSeq(text, i + 1, Len(text)) \in Seq(Tokens)
  OBVIOUS
<1>2. Becomes(text[i]) \in Seq(Tokens)
  BY BecomesType
<1>3. QED
  BY <1>1, <1>2, Joined DEF Adjust

LEMMA SendType ==
  ASSUME sent \in Seq(Seq(Words)), NEW part \in Seq(Words), Send(part), sock \in BOOLEAN
  PROVE  sent' \in Seq(Seq(Words)) /\ sock' \in BOOLEAN
<1>1. Append(sent, part) \in Seq(Seq(Words))
  OBVIOUS
<1>2. QED
  BY <1>1, Zenon DEF Send

LEMMA ReplyTypeInit == ReplyInit => ReplyTypes
<1> SUFFICES ASSUME ReplyInit PROVE ReplyTypes
  OBVIOUS
<1>1. disk \in [Pages -> States] /\ \A p \in Pages \ {"200"} : disk[p] \in {"html", "closed", "absent"}
  BY Zenon DEF ReplyInit
<1>2. sock \in BOOLEAN /\ invalid \in BOOLEAN /\ ~invalid
  BY Zenon DEF ReplyInit
<1>3. <<>> \in Seq(Tokens) /\ <<>> \in Seq(Seq(Words))
  OBVIOUS
<1>4. /\ method \in {"GET", "HEAD", "POST"} /\ value \in Values /\ pc = "find" /\ status = "none"
      /\ page = <<>> /\ text = <<>> /\ sent = <<>> /\ left = 0
  BY Zenon DEF ReplyInit
<1>5. QED
  BY <1>1, <1>2, <1>3, <1>4 DEF ReplyTypes

LEMMA ReplyTypeStep ==
  ASSUME ReplyTypes, pc = "body" => left > 0, [ReplyNext]_replyVars
  PROVE  ReplyTypes'
<1> USE DEF ReplyTypes, request, transform, output
<1>1. CASE Find
  BY <1>1 DEF Find, Pages
<1>2. CASE SendHead
  <2>1. ASSUME NEW suffix \in SuffixesOf(status)
        PROVE  Append(Line("status"), mime_type[suffix]) \in Seq(Words)
    <3>1. suffix \in {"html", "plain"} /\ status \in Words
      BY <2>1 DEF SuffixesOf, mime_type, Pages, Words
    <3>2. mime_type[suffix] \in Words /\ Line("status") \in Seq(Words)
      BY <3>1 DEF mime_type, Line, Words
    <3>3. QED BY <3>2
  <2>2. sent' \in Seq(Seq(Words)) /\ sock' \in BOOLEAN
    BY <1>2, <2>1, SendType DEF SendHead
  <2>3. QED BY <1>2, <2>2 DEF SendHead
<1>3. CASE Open /\ ~invalid
  <2>1. NextPage[status] \in Pages \cup {"none"}
    BY <1>3 DEF Open, NextPage, Pages
  <2>2. Texts \subseteq Seq(Tokens)
    BY TextsAssumption
  <2>3. left' \in Nat
    BY <1>3, ChunksAssumption DEF Open
  <2>4. page' \in Seq(Tokens) /\ text' \in Seq(Tokens)
    BY <1>3, <2>2 DEF Open
  <2>5. QED BY <1>3, <2>1, <2>3, <2>4 DEF Open
<1>4. CASE Change
  <2>1. text' \in Seq(Tokens)
    BY <1>4, AdjustType DEF Change
  <2>2. QED BY <1>4, <2>1 DEF Change
<1>5. CASE SendLength
  <2>1. Line("length") \in Seq(Words)
    BY DEF Line, Pages, Words
  <2>2. sent' \in Seq(Seq(Words)) /\ sock' \in BOOLEAN
    BY <1>5, <2>1, SendType DEF SendLength
  <2>3. QED BY <1>5, <2>2 DEF SendLength
<1>6. CASE SendBody /\ left > 0
  <2>1. <<"body", status>> \in Seq(Words)
    BY DEF Pages, Words
  <2>2. sent' \in Seq(Seq(Words)) /\ sock' \in BOOLEAN
    BY <1>6, <2>1, SendType DEF SendBody
  <2>3. QED BY <1>6, <2>2 DEF SendBody
<1>7. CASE Vanish
  BY <1>7 DEF Vanish, States
<1>8. CASE UNCHANGED replyVars
  BY <1>8 DEF replyVars
<1>9. QED
  BY <1>1, <1>2, <1>3, <1>4, <1>5, <1>6, <1>7, <1>8 DEF ReplyNext, Answer, SendBody

---------------------------------------------------------------------------
LEMMA Appended ==
  ASSUME NEW S, NEW s \in Seq(S), NEW x \in S
  PROVE  /\ Append(s, x) \in Seq(S) /\ Len(Append(s, x)) = Len(s) + 1
         /\ \A i \in 1..Len(s) : Append(s, x)[i] = s[i]
         /\ Append(s, x)[Len(s) + 1] = x
OBVIOUS

LEMMA LineOf ==
  ASSUME ReplyTypes, status # "none", NEW suffix \in SuffixesOf(status)
  PROVE  LET line == Append(Line("status"), mime_type[suffix])
         IN  /\ line \in Seq(Words)
             /\ line[1] = "status" /\ line[2] = status
             /\ disk[status] = "html"  => line[3] = "text/html"
             /\ disk[status] = "plain" => line[3] # "text/html"
<1>1. suffix \in {"html", "plain"} /\ status \in Words /\ status \in Pages
  BY DEF ReplyTypes, SuffixesOf, mime_type, Words, Pages
<1>2. mime_type[suffix] = (IF suffix = "html" THEN "text/html" ELSE "application/octet-stream")
  BY <1>1 DEF mime_type
<1>3. disk[status] = "html" => suffix = "html"
  BY DEF SuffixesOf, mime_type
<1>4. disk[status] = "plain" => suffix = "plain"
  <2>1. disk[status] = "plain" => status = "200"
    BY <1>1 DEF ReplyTypes
  <2>2. QED BY <2>1 DEF SuffixesOf, mime_type
<1>5. mime_type[suffix] \in Words /\ "status" \in Words
  BY <1>2 DEF Words
<1> DEFINE m == mime_type[suffix]
<1> HIDE DEF m
<1>6. m \in Words
  BY <1>5 DEF m
<1>7. /\ Append(<<"status", status>>, m) \in Seq(Words)
      /\ Append(<<"status", status>>, m)[1] = "status" /\ Append(<<"status", status>>, m)[2] = status
      /\ Append(<<"status", status>>, m)[3] = m
  BY <1>1, <1>5, <1>6
<1>8. QED
  BY <1>2, <1>3, <1>4, <1>7 DEF Line, m

LEMMA LineStep ==
  ASSUME ReplyTypes, LineInv, [ReplyNext]_replyVars
  PROVE  LineInv'
<1>1. PICK h \in 0..Len(sent) : Lines(h) /\ Shown(h) /\ TypeShown(h) /\ Ended(h)
  BY DEF LineInv
<1>2. SUFFICES \E k : Lines(k)' /\ Shown(k)' /\ TypeShown(k)' /\ Ended(k)'
  BY DEF LineInv, Lines
<1>3. /\ sent \in Seq(Seq(Words)) /\ Len(sent) \in Nat /\ h \in Nat /\ sock \in BOOLEAN
      /\ pc \in {"find", "head", "open", "change", "send", "body", "done"}
  BY DEF ReplyTypes
<1> DEFINE Goal(k) == Lines(k)' /\ Shown(k)' /\ TypeShown(k)' /\ Ended(k)'
<1>4. CASE Find
  <2>1. h = 0 /\ Len(sent) = 0
    BY <1>1, <1>4 DEF Find, Shown
  <2>2. pc' = "head" /\ UNCHANGED <<sent, sock, disk, page, left, method, invalid>>
    BY <1>4 DEF Find, output, request, transform
  <2>3. Goal(0)
    BY <2>1, <2>2 DEF Lines, Shown, TypeShown, Ended, Begun
  <2>4. QED BY <2>3
<1>5. CASE SendHead /\ ~invalid
  <2>1. /\ pc = "head" /\ pc' = "open" /\ h = Len(sent) /\ (h > 0 => Missing(sent[h][2]))
        /\ UNCHANGED <<disk, page, left, method, status>> /\ status # "none"
    BY <1>1, <1>5 DEF SendHead, Shown, request, transform, ReplyTypes
  <2>2. /\ \A i \in 1..h : sent[i][1] = "status" /\ Missing(sent[i][2])
    <3>1. \A i \in 1..h : i = h \/ i < h
      BY <1>3
    <3>2. QED BY <1>1, <1>3, <2>1, <3>1 DEF Lines
  <2>3. CASE invalid' /\ UNCHANGED <<sent, sock>>
    <3>1. Goal(h)
      BY <1>1, <1>3, <2>1, <2>2, <2>3 DEF Lines, Shown, TypeShown, Ended, Begun, Missing
    <3>2. QED BY <3>1
  <2>4. CASE sock' = FALSE /\ UNCHANGED <<sent, invalid>>
    <3>1. Goal(h)
      BY <1>1, <1>3, <2>1, <2>2, <2>4 DEF Lines, Shown, TypeShown, Ended, Begun, Missing
    <3>2. QED BY <3>1
  <2>5. ASSUME NEW suffix \in SuffixesOf(status), sock, UNCHANGED <<sock, invalid>>,
               sent' = Append(sent, Append(Line("status"), mime_type[suffix]))
        PROVE  \E k : Goal(k)
    <3> DEFINE line == Append(Line("status"), mime_type[suffix])
    <3>1. /\ line \in Seq(Words) /\ line[1] = "status" /\ line[2] = status
          /\ disk[status] = "html"  => line[3] = "text/html"
          /\ disk[status] = "plain" => line[3] # "text/html"
      BY <2>1, LineOf
    <3> HIDE DEF line
    <3>2. /\ Len(sent') = h + 1 /\ \A i \in 1..h : sent'[i] = sent[i]
          /\ sent'[h + 1] = line
      BY <1>3, <2>1, <2>5, <3>1, Appended DEF line
    <3>3. Lines(h + 1)'
      <4>1. \A i \in 1..(h + 1) : i = h + 1 \/ i \in 1..h
        BY <1>3
      <4>2. h + 1 \in 0..Len(sent') /\ \A i \in ((h + 1) + 1)..Len(sent') : FALSE
        BY <1>3, <3>2
      <4>3. \A i \in 1..(h + 1) : sent'[i][1] = "status"
        BY <2>2, <3>1, <3>2, <4>1
      <4>4. \A i \in 1..(h + 1) : i < h + 1 => disk'[sent'[i][2]] \in {"closed", "absent"}
        <5>1. ASSUME NEW i \in 1..(h + 1), i < h + 1
              PROVE  disk'[sent'[i][2]] \in {"closed", "absent"}
          <6>1. i \in 1..h
            BY <1>3, <5>1
          <6>2. QED BY <2>1, <2>2, <3>2, <6>1 DEF Missing
        <5>2. QED BY <5>1
      <4>5. QED BY <4>2, <4>3, <4>4 DEF Lines, Missing
    <3>4. Shown(h + 1)'
      BY <1>3, <2>1, <3>1, <3>2 DEF Shown
    <3>5. TypeShown(h + 1)'
      BY <2>1, <3>1, <3>2 DEF TypeShown
    <3>6. Ended(h + 1)'
      BY <2>1 DEF Ended
    <3>7. QED BY <3>3, <3>4, <3>5, <3>6
  <2>6. QED
    BY <1>5, <2>3, <2>4, <2>5, Zenon DEF SendHead, Send
<1>6. CASE Open /\ ~invalid
  <2>1. pc = "open" /\ UNCHANGED <<disk, sent, sock, method, invalid>> /\ h = Len(sent) /\ page = <<>>
        /\ status \in Pages /\ ~invalid'
    BY <1>1, <1>6 DEF Open, Shown, request, ReplyTypes
  <2>2. Lines(h)'
    BY <1>1, <2>1 DEF Lines, Missing
  <2>3. /\ h > 0 => Missing(sent[h][2]) \/ sent[h][2] = status
        /\ sock => h > 0 /\ sent[h][2] = status
        /\ sock /\ disk[status] = "html"  => sent[h][3] = "text/html"
        /\ sock /\ disk[status] = "plain" => sent[h][3] # "text/html"
    BY <1>1, <1>6, <2>1 DEF Shown, TypeShown, Begun, Pages
  <2>4. ~ (h < Len(sent)) /\ ~ (h < Len(sent)')
    BY <1>3, <2>1
  <2>5. CASE disk[status] \in Texted /\ pc' = "change" /\ page' \in Texts /\ left' = 1 /\ UNCHANGED status
    <3>1. page' # <<>>
      BY <2>5, TextsAssumption
    <3>2. Goal(h)
      BY <2>1, <2>2, <2>3, <2>4, <2>5, <3>1 DEF Shown, TypeShown, Ended, Begun, Texted, Pages
    <3>3. QED BY <3>2
  <2>6. CASE disk[status] = "plain" /\ pc' = "send" /\ left' \in 1..Chunks /\ UNCHANGED <<status, page>>
    <3>1. left' > 0
      BY <2>6, ChunksAssumption
    <3>2. Goal(h)
      BY <3>1, <2>1, <2>2, <2>3, <2>4, <2>6 DEF Shown, TypeShown, Ended, Begun, Pages
    <3>3. QED BY <3>2
  <2>7. CASE /\ disk[status] \in {"closed", "absent"} /\ status' = NextPage[status]
             /\ pc' = (IF status' = "none" THEN "done" ELSE "head") /\ UNCHANGED <<page, left>>
    <3>1. h > 0 => Missing(sent[h][2])
      BY <2>3, <2>7 DEF Missing
    <3>2. CASE status' # "none"
      <4>1. Goal(h)
        BY <2>1, <2>2, <2>7, <3>1, <3>2 DEF Shown, TypeShown, Ended, Begun, Missing
      <4>2. QED BY <4>1
    <3>3. CASE status' = "none"
      <4>1. status = "501"
        BY <2>1, <2>7, <3>3 DEF NextPage, Pages
      <4>2. Missing("501")'
        BY <2>1, <2>7, <4>1 DEF Missing
      <4>3. Shown(h)'
        BY <2>1, <2>3, <2>4, <2>7, <3>3, <4>1 DEF Shown, Begun
      <4>4. TypeShown(h)' /\ Ended(h)'
        BY <2>1, <2>7, <3>3, <4>2 DEF TypeShown, Ended
      <4>5. QED BY <2>2, <4>3, <4>4
    <3>4. QED BY <3>2, <3>3
  <2>8. QED
    BY <1>6, <2>5, <2>6, <2>7, Zenon DEF Open, transform
<1>7. CASE Change
  <2>1. /\ pc = "change" /\ pc' \in {"change", "send"} /\ status # "none"
        /\ UNCHANGED <<disk, sent, sock, method, invalid, status, page, left>>
    BY <1>7 DEF Change, request, output, ReplyTypes
  <2>2. Goal(h)
    BY <1>1, <2>1 DEF Lines, Shown, TypeShown, Ended, Begun, Missing
  <2>3. QED BY <2>2
<1>8. CASE SendLength
  <2>1. /\ pc = "send" /\ pc' = (IF method = "HEAD" THEN "done" ELSE "body") /\ h = Len(sent)
        /\ UNCHANGED <<disk, page, left, method, status, invalid>> /\ status # "none" /\ ~invalid
    BY <1>1, <1>8 DEF SendLength, Shown, request, transform, ReplyTypes
  <2>2. sock => h > 0 /\ sent[h][2] = status /\ (sent[h][3] = "text/html" <=> page # <<>>)
    BY <1>1, <2>1 DEF Shown, TypeShown, Begun
  <2>3. left > 0
    BY <1>1, <2>1 DEF Ended
  <2>4. CASE sock' = FALSE /\ UNCHANGED sent
    <3>1. ~Begun(h)'
      BY <1>3, <2>1, <2>4 DEF Begun
    <3>2. Goal(h)
      BY <1>1, <2>1, <2>3, <2>4, <3>1 DEF Lines, Shown, TypeShown, Ended, Missing
    <3>3. QED BY <3>2
  <2>5. CASE sock /\ sent' = Append(sent, Line("length")) /\ UNCHANGED sock
    <3>1. Line("length") = <<"length", status>> /\ <<"length", status>> \in Seq(Words)
      BY <2>1 DEF Line, ReplyTypes, Words
    <3>2. /\ Len(sent') = h + 1 /\ \A i \in 1..h : sent'[i] = sent[i]
          /\ sent'[h + 1] = <<"length", status>>
      BY <1>3, <2>1, <2>5, <3>1, Appended
    <3>3. h \in 1..h
      BY <1>3, <2>2, <2>5
    <3>4. Lines(h)'
      BY <1>1, <1>3, <2>1, <2>2, <2>5, <3>2, <3>3 DEF Lines, Missing
    <3>5. Shown(h)' /\ TypeShown(h)'
      BY <1>3, <2>1, <2>2, <2>5, <3>2, <3>3 DEF Shown, TypeShown
    <3>6. Ended(h)'
      BY <1>3, <2>1, <2>3, <3>2 DEF Ended
    <3>7. QED BY <3>4, <3>5, <3>6
  <2>6. QED
    BY <1>8, <2>4, <2>5, Zenon DEF SendLength, Send
<1>9. CASE SendBody
  <2>1. /\ pc = "body" /\ left' = left - 1 /\ left > 0 /\ left \in Nat
        /\ pc' = (IF left' = 0 \/ ~sock' THEN "done" ELSE "body")
        /\ UNCHANGED <<disk, page, method, status, invalid>> /\ status # "none" /\ ~invalid
    BY <1>1, <1>9 DEF SendBody, Ended, request, transform, ReplyTypes
  <2>2. /\ Begun(h) => h > 0 /\ sent[h][2] = status /\ (sent[h][3] = "text/html" <=> page # <<>>)
        /\ sock => h < Len(sent)
    BY <1>1, <2>1 DEF Shown, TypeShown, Ended
  <2>3. CASE sock' = FALSE /\ UNCHANGED sent
    <3>1. Begun(h)' => Begun(h)
      BY <2>3 DEF Begun
    <3>2. Goal(h)
      BY <1>1, <2>1, <2>2, <2>3, <3>1 DEF Lines, Shown, TypeShown, Ended, Missing
    <3>3. QED BY <3>2
  <2>4. CASE sock /\ sent' = Append(sent, <<"body", status>>) /\ UNCHANGED sock
    <3>1. <<"body", status>> \in Seq(Words)
      BY <2>1 DEF ReplyTypes, Words
    <3>2. /\ Len(sent') = Len(sent) + 1 /\ \A i \in 1..Len(sent) : sent'[i] = sent[i]
          /\ sent'[Len(sent) + 1] = <<"body", status>>
      BY <1>3, <2>4, <3>1, Appended
    <3>3. h \in 1..Len(sent) /\ h < Len(sent) /\ sent[h][2] = status
      BY <1>3, <2>2, <2>4 DEF Begun
    <3>4. Lines(h)'
      <4>1. \A i \in 1..h : i \in 1..Len(sent)
        BY <1>3, <3>3
      <4>2. h \in 0..Len(sent') /\ \A i \in 1..h : sent'[i][1] = "status" /\ (i < h => Missing(sent[i][2]))
        BY <1>1, <1>3, <3>2, <3>3, <4>1 DEF Lines
      <4>3. \A i \in 1..h : i < h => disk'[sent'[i][2]] \in {"closed", "absent"}
        BY <2>1, <3>2, <4>1, <4>2 DEF Missing
      <4>4. ASSUME NEW i \in (h + 1)..Len(sent')
            PROVE  sent'[i] = <<IF i = h + 1 THEN "length" ELSE "body", sent'[h][2]>>
        <5>1. CASE i = Len(sent) + 1
          <6>1. i # h + 1
            BY <1>3, <3>3, <5>1
          <6>2. QED BY <3>2, <3>3, <5>1, <6>1
        <5>2. CASE i # Len(sent) + 1
          <6>1. i \in (h + 1)..Len(sent) /\ i \in 1..Len(sent)
            BY <1>3, <3>2, <5>2
          <6>2. QED BY <1>1, <3>2, <3>3, <6>1 DEF Lines
        <5>3. QED BY <5>1, <5>2
      <4>5. \A i \in 1..h : sent'[i][1] = "status"
        BY <4>2
      <4>6. h > 0 /\ h \in 0..Len(sent')
        BY <1>3, <3>3, <4>2
      <4>7. QED BY <4>3, <4>4, <4>5, <4>6 DEF Lines, Missing
    <3>5. Shown(h)' /\ TypeShown(h)'
      BY <1>3, <2>1, <2>2, <2>4, <3>2, <3>3 DEF Shown, TypeShown, Begun
    <3>6. Ended(h)'
      BY <1>3, <2>1, <2>4, <3>2, <3>3 DEF Ended
    <3>7. QED BY <3>4, <3>5, <3>6
  <2>5. QED
    BY <1>9, <2>3, <2>4, Zenon DEF SendBody, Send
<1>10. CASE Vanish
  <2>1. /\ \A p : Missing(p) => Missing(p)'
        /\ UNCHANGED <<sent, sock, method, invalid, status, page, left, pc>>
        /\ pc # "done" /\ \A p : disk'[p] \in {"html", "plain"} => disk'[p] = disk[p]
    BY <1>10 DEF Vanish, Missing, request, output, transform, ReplyTypes
  <2>2. Lines(h)'
    BY <1>1, <2>1 DEF Lines, Missing
  <2>3. Shown(h)'
    BY <1>1, <2>1 DEF Shown, Begun, Missing
  <2>4. TypeShown(h)' /\ Ended(h)'
    BY <1>1, <2>1 DEF TypeShown, Ended, Begun
  <2>5. QED BY <2>2, <2>3, <2>4
<1>11. CASE UNCHANGED replyVars
  <2>1. Goal(h)
    BY <1>1, <1>11 DEF Lines, Shown, TypeShown, Ended, Begun, Missing, replyVars, request, output, transform
  <2>2. QED BY <2>1
<1>12. QED
  BY <1>4, <1>5, <1>6, <1>7, <1>8, <1>9, <1>10, <1>11 DEF ReplyNext, Answer

LEMMA LineInit == ReplyInit => LineInv
<1> SUFFICES ASSUME ReplyInit PROVE LineInv
  OBVIOUS
<1>1. pc = "find" /\ sent = <<>> /\ status = "none" /\ Len(<<>>) = 0
  BY Zenon DEF ReplyInit
<1>2. Len(sent) = 0 /\ 0 \in 0..Len(sent)
  BY <1>1
<1>3. Lines(0) /\ Shown(0) /\ TypeShown(0) /\ Ended(0)
  BY <1>1, <1>2 DEF Lines, Shown, TypeShown, Ended
<1>4. QED
  BY <1>2, <1>3 DEF LineInv

LEMMA EmptyIs ==
  ASSUME NEW S, NEW s \in Seq(S)
  PROVE  s = <<>> <=> Len(s) = 0
OBVIOUS

LEMMA LinesShow == ASSUME ReplyTypes, LineInv PROVE ReplyIsOfOnePage
<1>1. PICK h \in 0..Len(sent) : Lines(h) /\ Shown(h) /\ TypeShown(h) /\ Ended(h)
  BY DEF LineInv
<1>2. /\ sent \in Seq(Seq(Words)) /\ Len(sent) \in Nat /\ h \in Nat /\ h <= Len(sent)
      /\ pc \in {"find", "head", "open", "change", "send", "body", "done"} /\ (invalid => pc = "open")
  BY DEF ReplyTypes
<1>3. /\ \A i \in 1..h : sent[i][1] = "status" /\ (i < h => Missing(sent[i][2]))
      /\ \A i \in (h + 1)..Len(sent) :
           h > 0 /\ sent[i] = <<IF i = h + 1 THEN "length" ELSE "body", sent[h][2]>>
  BY <1>1 DEF Lines
<1> DEFINE IsHeads(n) == /\ \A i \in 1..n : sent[i][1] = "status"
                         /\ n < Len(sent) => sent[n + 1][1] # "status"
<1>4. IsHeads(h)
  <2>1. h < Len(sent) => h + 1 \in (h + 1)..Len(sent)
    BY <1>2
  <2>2. h < Len(sent) => sent[h + 1] = <<"length", sent[h][2]>>
    BY <1>3, <2>1
  <2>3. h < Len(sent) => sent[h + 1][1] = "length"
    BY <2>2
  <2>4. QED BY <1>3, <2>3
<1>5. \A n \in 0..Len(sent) : IsHeads(n) => n = h
  <2> SUFFICES ASSUME NEW n \in 0..Len(sent), IsHeads(n), n # h PROVE FALSE
    OBVIOUS
  <2>1. CASE n < h
    <3>1. n + 1 \in 1..h /\ n < Len(sent)
      BY <1>2, <2>1
    <3>2. QED BY <1>4, <3>1
  <2>2. CASE n > h
    <3>1. h + 1 \in 1..n /\ h < Len(sent)
      BY <1>2, <2>2
    <3>2. QED BY <1>4, <3>1
  <2>3. QED BY <1>2, <2>1, <2>2
<1>6. Heads = SubSeq(sent, 1, h)
  <2>1. (CHOOSE n \in 0..Len(sent) : IsHeads(n)) = h
    BY <1>4, <1>5
  <2>2. QED BY <2>1, Zenon DEF Heads
<1>7. /\ Len(Heads) = h /\ (Heads = <<>> <=> h = 0)
      /\ \A i \in 1..h : Heads[i] = sent[i]
      /\ h > 0 => Last(Heads) = sent[h]
  <2>1. Len(Heads) = h /\ \A i \in 1..h : Heads[i] = sent[i]
    BY <1>2, <1>6
  <2>2. Heads \in Seq(Seq(Words))
    BY <1>2, <1>6
  <2>3. h > 0 => h \in 1..h
    BY <1>2
  <2>4. QED BY <2>1, <2>2, <2>3, EmptyIs DEF Last
<1> DEFINE shown == IF Heads = <<>> THEN "none" ELSE Last(Heads)[2]
           rest  == SubSeq(sent, Len(Heads) + 1, Len(sent))
           reply == [i \in 1..Len(rest) |-> <<IF i = 1 THEN "length" ELSE "body", shown>>]
<1>8. h > 0 => shown = sent[h][2]
  BY <1>2, <1>7
<1>9. /\ rest \in Seq(Seq(Words)) /\ Len(rest) = Len(sent) - h
      /\ \A i \in 1..Len(rest) : rest[i] = sent[h + i]
      /\ rest = <<>> <=> h = Len(sent)
  <2>1. /\ rest \in Seq(Seq(Words)) /\ Len(rest) = Len(sent) - h
        /\ \A i \in 1..Len(rest) : rest[i] = sent[h + i]
    <3>1. rest = SubSeq(sent, h + 1, Len(sent))
      BY <1>7
    <3> HIDE DEF rest
    <3>2. rest \in Seq(Seq(Words)) /\ Len(rest) = Len(sent) - h
      BY <1>2, <3>1
    <3>3. \A i \in 1..Len(rest) : rest[i] = sent[h + i]
      BY <1>2, <3>1, <3>2
    <3>4. QED BY <3>2, <3>3
  <2> HIDE DEF rest
  <2>2. rest = <<>> <=> Len(rest) = 0
    BY <2>1, EmptyIs
  <2>3. Len(rest) = 0 <=> h = Len(sent)
    BY <1>2, <2>1
  <2>4. QED BY <2>1, <2>2, <2>3
<1> HIDE DEF shown, rest
<1>10. \A i \in 1..(Len(Heads) - 1) : Missing(Heads[i][2])
  <2>1. \A i \in 1..(Len(Heads) - 1) : i \in 1..h /\ i < h
    BY <1>2, <1>7
  <2>2. QED BY <1>3, <1>7, <2>1
<1>11. rest = reply
  <2>1. ASSUME NEW i \in 1..Len(rest) PROVE rest[i] = reply[i]
    <3>1. h + i \in (h + 1)..Len(sent) /\ (h + i = h + 1 <=> i = 1)
      BY <1>2, <1>9
    <3>2. h > 0 /\ sent[h + i] = <<IF i = 1 THEN "length" ELSE "body", sent[h][2]>>
      BY <1>3, <3>1
    <3>3. rest[i] = <<IF i = 1 THEN "length" ELSE "body", shown>>
      BY <1>8, <1>9, <3>2
    <3>4. QED BY <3>3
  <2>2. rest = [i \in 1..Len(rest) |-> rest[i]]
    BY <1>9
  <2>3. reply = [i \in 1..Len(rest) |-> reply[i]]
    OBVIOUS
  <2> HIDE DEF reply
  <2>4. QED BY <2>1, <2>2, <2>3
<1>12. rest # <<>> => Heads # <<>> /\ (Last(Heads)[3] = "text/html" <=> page # <<>>)
  <2> SUFFICES ASSUME rest # <<>>
               PROVE  Heads # <<>> /\ (Last(Heads)[3] = "text/html" <=> page # <<>>)
    OBVIOUS
  <2>1. h < Len(sent)
    BY <1>2, <1>9
  <2>2. pc \in {"body", "done"} /\ (pc = "done" => status # "none") /\ Begun(h) /\ ~invalid
    BY <1>1, <1>2, <2>1 DEF Shown, Ended, Begun
  <2>3. status # "none"
    BY <2>2 DEF ReplyTypes
  <2>4. h > 0
    BY <1>1, <2>2 DEF Shown
  <2>5. sent[h][3] = "text/html" <=> page # <<>>
    BY <1>1, <2>2, <2>3 DEF TypeShown
  <2>6. QED BY <1>7, <2>4, <2>5
<1>13. ASSUME pc = "done", sock
       PROVE  IF rest = <<>> THEN shown = "501" /\ Missing("501")
              ELSE method = "HEAD" \/ (left = 0 /\ Len(rest) > 1)
  <2>1. Begun(h) /\ ~invalid
    BY <1>2, <1>13 DEF Begun
  <2>2. h > 0 /\ sent[h][2] = (IF status = "none" THEN "501" ELSE status)
    BY <1>1, <1>13, <2>1 DEF Shown
  <2>3. CASE status = "none"
    <3>1. h = Len(sent) /\ Missing("501")
      BY <1>1, <1>13, <2>3 DEF Ended
    <3>2. QED BY <1>8, <1>9, <2>2, <2>3, <3>1
  <2>4. CASE status # "none"
    <3>1. h < Len(sent) /\ (method = "HEAD" \/ (left = 0 /\ h + 1 < Len(sent)))
      BY <1>1, <1>13, <2>4 DEF Ended
    <3>2. rest # <<>> /\ (h + 1 < Len(sent) => Len(rest) > 1)
      BY <1>2, <1>9, <3>1
    <3>3. QED BY <3>1, <3>2
  <2>5. QED BY <2>3, <2>4
<1>14. QED
  BY <1>10, <1>11, <1>12, <1>13, Zenon DEF ReplyIsOfOnePage, rest, shown

---------------------------------------------------------------------------
(* What a page means.  The two recursive definitions unfold.               *)
Steps(e) ==
  /\ e[0] = [t \in Tokens |-> <<t>>]
  /\ \A n \in 0..5 : e[n + 1] = Replaced(e[n])

LEMMA ExpansionIs == \E e : Steps(e) /\ Expansion = e[6]
<1> DEFINE e[n \in 0..6] == IF n = 0 THEN [t \in Tokens |-> <<t>>] ELSE Replaced(e[n - 1])
<1>1. Expansion = e[6]
  BY Zenon DEF Expansion
<1>2. \E f : f = [n \in 0..6 |-> IF n = 0 THEN [t \in Tokens |-> <<t>>] ELSE Replaced(f[n - 1])]
  <2> DEFINE a0 == [t \in Tokens |-> <<t>>]
             a1 == Replaced(a0)
             a2 == Replaced(a1)
             a3 == Replaced(a2)
             a4 == Replaced(a3)
             a5 == Replaced(a4)
             a6 == Replaced(a5)
             f == [n \in 0..6 |-> IF n = 0 THEN a0 ELSE IF n = 1 THEN a1 ELSE IF n = 2 THEN a2
                    ELSE IF n = 3 THEN a3 ELSE IF n = 4 THEN a4 ELSE IF n = 5 THEN a5 ELSE a6]
             g == [n \in 0..6 |-> IF n = 0 THEN a0 ELSE Replaced(f[n - 1])]
  <2>1. /\ a1 = Replaced(a0) /\ a2 = Replaced(a1) /\ a3 = Replaced(a2)
        /\ a4 = Replaced(a3) /\ a5 = Replaced(a4) /\ a6 = Replaced(a5)
    OBVIOUS
  <2> HIDE DEF a0, a1, a2, a3, a4, a5, a6
  <2>2. ASSUME NEW n \in 0..6 PROVE f[n] = g[n]
    <3>1. n \in {0, 1, 2, 3, 4, 5, 6}
      OBVIOUS
    <3>2. QED BY <2>1, <3>1
  <2>3. f = [n \in 0..6 |-> f[n]] /\ g = [n \in 0..6 |-> g[n]]
    OBVIOUS
  <2>4. f = g
    <3> HIDE DEF f, g
    <3>1. QED BY <2>2, <2>3
  <2>5. f = [n \in 0..6 |-> IF n = 0 THEN a0 ELSE Replaced(f[n - 1])]
    BY <2>4
  <2> HIDE DEF f
  <2>6. QED BY <2>5, Zenon DEF a0
<1>3. e = [n \in 0..6 |-> IF n = 0 THEN [t \in Tokens |-> <<t>>] ELSE Replaced(e[n - 1])]
  BY <1>2, Zenon
<1> HIDE DEF e
<1>4. e[0] = [t \in Tokens |-> <<t>>]
  BY <1>3
<1>5. ASSUME NEW n \in 0..5 PROVE e[n + 1] = Replaced(e[n])
  <2>1. n + 1 \in 0..6 /\ n + 1 # 0 /\ (n + 1) - 1 = n
    OBVIOUS
  <2>2. e[n + 1] = (IF n + 1 = 0 THEN [t \in Tokens |-> <<t>>] ELSE Replaced(e[(n + 1) - 1]))
    BY <1>3, <2>1, Zenon
  <2>3. QED BY <2>1, <2>2
<1>6. QED
  BY <1>1, <1>4, <1>5 DEF Steps

LEMMA LeadsIs ==
  /\ Leads[0] = ToSet(page)
  /\ \A n \in 0..4 : Leads[n + 1] = UNION {Uses(t) : t \in Leads[n]}
<1> DEFINE All(s) == UNION {Uses(t) : t \in s}
           l[n \in 0..5] == IF n = 0 THEN ToSet(page) ELSE All(l[n - 1])
<1>1. Leads = l
  BY Zenon DEF Leads
<1>2. \E f : f = [n \in 0..5 |-> IF n = 0 THEN ToSet(page) ELSE All(f[n - 1])]
  <2> DEFINE a0 == ToSet(page)
             a1 == All(a0)
             a2 == All(a1)
             a3 == All(a2)
             a4 == All(a3)
             a5 == All(a4)
             f == [n \in 0..5 |-> IF n = 0 THEN a0 ELSE IF n = 1 THEN a1 ELSE IF n = 2 THEN a2
                    ELSE IF n = 3 THEN a3 ELSE IF n = 4 THEN a4 ELSE a5]
             g == [n \in 0..5 |-> IF n = 0 THEN a0 ELSE All(f[n - 1])]
  <2>1. a1 = All(a0) /\ a2 = All(a1) /\ a3 = All(a2) /\ a4 = All(a3) /\ a5 = All(a4)
    OBVIOUS
  <2> HIDE DEF a0, a1, a2, a3, a4, a5, All
  <2>2. ASSUME NEW n \in 0..5 PROVE f[n] = g[n]
    <3>1. n \in {0, 1, 2, 3, 4, 5}
      OBVIOUS
    <3>2. QED BY <2>1, <3>1
  <2>3. f = [n \in 0..5 |-> f[n]] /\ g = [n \in 0..5 |-> g[n]]
    OBVIOUS
  <2>4. f = g
    <3> HIDE DEF f, g
    <3>1. QED BY <2>2, <2>3
  <2>5. f = [n \in 0..5 |-> IF n = 0 THEN a0 ELSE All(f[n - 1])]
    BY <2>4
  <2> HIDE DEF f
  <2>6. QED BY <2>5, Zenon DEF a0
<1>3. l = [n \in 0..5 |-> IF n = 0 THEN ToSet(page) ELSE All(l[n - 1])]
  BY <1>2, Zenon
<1> HIDE DEF l
<1>4. Leads[0] = ToSet(page)
  BY <1>1, <1>3
<1>5. ASSUME NEW n \in 0..4 PROVE Leads[n + 1] = All(Leads[n])
  <2> HIDE DEF All
  <2>1. n + 1 \in 0..5 /\ n + 1 # 0 /\ (n + 1) - 1 = n
    OBVIOUS
  <2>2. l[n + 1] = (IF n + 1 = 0 THEN ToSet(page) ELSE All(l[(n + 1) - 1]))
    BY <1>3, <2>1, Zenon
  <2>3. QED BY <1>1, <2>1, <2>2
<1>6. QED
  BY <1>4, <1>5

---------------------------------------------------------------------------
(* The expansion of a text is that of its parts.                           *)
Mapped(e, s) == [i \in DOMAIN s |-> e[s[i]]]
FullBy(e, s) == FlattenSeq(Mapped(e, s))

LEMMA MappedType ==
  ASSUME NEW e \in [Tokens -> Seq(Tokens)], NEW s \in Seq(Tokens)
  PROVE  /\ Mapped(e, s) \in Seq(Seq(Tokens)) /\ Len(Mapped(e, s)) = Len(s)
         /\ \A i \in 1..Len(s) : Mapped(e, s)[i] = e[s[i]]
BY DEF Mapped

LEMMA ReplacedType ==
  ASSUME value \in Values, NEW e \in [Tokens -> Seq(Tokens)]
  PROVE  Replaced(e) \in [Tokens -> Seq(Tokens)]
<1>1. ASSUME NEW t \in Tokens PROVE <<t>> \in Seq(Tokens)
  OBVIOUS
<1>2. ASSUME NEW t \in Tokens PROVE FlattenSeq(Mapped(e, Becomes(t))) \in Seq(Tokens)
  <2>1. Becomes(t) \in Seq(Tokens)
    BY BecomesType
  <2>2. Mapped(e, Becomes(t)) \in Seq(Seq(Tokens))
    BY <2>1, MappedType
  <2>3. QED BY <2>2, FlattenType
<1>3. Replaced(e) = [t \in Tokens |-> IF t \notin Placeholders THEN <<t>>
                                      ELSE FlattenSeq(Mapped(e, Becomes(t)))]
  BY Zenon DEF Replaced, Mapped
<1>4. QED
  BY <1>1, <1>2, <1>3

LEMMA StepsType ==
  ASSUME value \in Values, NEW e, Steps(e)
  PROVE  \A n \in 0..6 : e[n] \in [Tokens -> Seq(Tokens)]
<1>0. e[0] \in [Tokens -> Seq(Tokens)]
  <2>1. \A t \in Tokens : <<t>> \in Seq(Tokens)
    OBVIOUS
  <2>2. QED BY <2>1 DEF Steps
<1> DEFINE S == {n \in Nat : n <= 6 => e[n] \in [Tokens -> Seq(Tokens)]}
<1>1. 0 \in S
  BY <1>0
<1>2. ASSUME NEW n \in Nat, n \in S PROVE n + 1 \in S
  <2> SUFFICES ASSUME n + 1 <= 6 PROVE e[n + 1] \in [Tokens -> Seq(Tokens)]
    OBVIOUS
  <2>1. n \in 0..5 /\ e[n] \in [Tokens -> Seq(Tokens)]
    BY <1>2
  <2>2. e[n + 1] = Replaced(e[n])
    BY <2>1, Zenon DEF Steps
  <2>3. QED BY <2>1, <2>2, ReplacedType
<1>3. Nat \subseteq S
  <2> HIDE DEF S
  <2>1. QED BY <1>1, <1>2, SetInduction
<1>4. \A n \in 0..6 : n \in Nat /\ n <= 6
  OBVIOUS
<1>5. QED
  BY <1>3, <1>4

LEMMA FullJoined ==
  ASSUME NEW e \in [Tokens -> Seq(Tokens)], NEW s \in Seq(Tokens), NEW r \in Seq(Tokens)
  PROVE  FullBy(e, s \o r) = FullBy(e, s) \o FullBy(e, r)
<1>1. e \in [Tokens -> Seq(Tokens)]
  OBVIOUS
<1>2. /\ s \o r \in Seq(Tokens) /\ Len(s \o r) = Len(s) + Len(r)
      /\ \A i \in 1..Len(s) : (s \o r)[i] = s[i]
      /\ \A i \in 1..Len(r) : (s \o r)[Len(s) + i] = r[i]
  BY Joined
<1> DEFINE ms == Mapped(e, s)
           mr == Mapped(e, r)
           mb == Mapped(e, s \o r)
<1>3. ms \in Seq(Seq(Tokens)) /\ Len(ms) = Len(s) /\ \A i \in 1..Len(s) : ms[i] = e[s[i]]
  BY <1>1, MappedType
<1>4. mr \in Seq(Seq(Tokens)) /\ Len(mr) = Len(r) /\ \A i \in 1..Len(r) : mr[i] = e[r[i]]
  BY <1>1, MappedType
<1>5. /\ mb \in Seq(Seq(Tokens)) /\ Len(mb) = Len(s) + Len(r)
      /\ \A i \in 1..(Len(s) + Len(r)) : mb[i] = e[(s \o r)[i]]
  <2> DEFINE b == s \o r
  <2> HIDE DEF b
  <2>1. b \in Seq(Tokens) /\ Len(b) = Len(s) + Len(r)
    BY <1>2 DEF b
  <2>2. /\ Mapped(e, b) \in Seq(Seq(Tokens)) /\ Len(Mapped(e, b)) = Len(b)
        /\ \A i \in 1..Len(b) : Mapped(e, b)[i] = e[b[i]]
    BY <1>1, <2>1, MappedType
  <2>3. QED BY <2>1, <2>2 DEF b
<1> HIDE DEF ms, mr, mb
<1>6. /\ ms \o mr \in Seq(Seq(Tokens)) /\ Len(ms \o mr) = Len(s) + Len(r)
      /\ \A i \in 1..Len(s) : (ms \o mr)[i] = ms[i]
      /\ \A i \in 1..Len(r) : (ms \o mr)[Len(s) + i] = mr[i]
  <2>1. ms \in Seq(Seq(Tokens)) /\ mr \in Seq(Seq(Tokens))
    BY <1>3, <1>4
  <2>2. /\ ms \o mr \in Seq(Seq(Tokens)) /\ Len(ms \o mr) = Len(ms) + Len(mr)
        /\ \A i \in 1..Len(ms) : (ms \o mr)[i] = ms[i]
        /\ \A i \in 1..Len(mr) : (ms \o mr)[Len(ms) + i] = mr[i]
    BY <2>1, Joined
  <2>3. QED BY <1>3, <1>4, <2>2
<1>7. Len(s) \in Nat /\ Len(r) \in Nat
  OBVIOUS
<1>8. ASSUME NEW i \in 1..(Len(s) + Len(r)) PROVE mb[i] = (ms \o mr)[i]
  <2>1. CASE i <= Len(s)
    <3>1. i \in 1..Len(s)
      BY <1>7, <2>1
    <3>2. mb[i] = e[s[i]] /\ (ms \o mr)[i] = e[s[i]]
      BY <1>2, <1>3, <1>5, <1>6, <3>1
    <3>3. QED BY <3>2
  <2>2. CASE i > Len(s)
    <3>1. PICK j \in 1..Len(r) : i = Len(s) + j
      <4>1. i - Len(s) \in 1..Len(r) /\ i = Len(s) + (i - Len(s))
        BY <1>7, <2>2
      <4>2. QED BY <4>1
    <3>2. (s \o r)[i] = r[j] /\ (ms \o mr)[i] = mr[j]
      BY <1>2, <1>6, <3>1
    <3>3. mb[i] = e[(s \o r)[i]] /\ mr[j] = e[r[j]]
      BY <1>4, <1>5
    <3>4. QED BY <3>2, <3>3
  <2>3. i <= Len(s) \/ i > Len(s)
    BY <1>7
  <2>4. QED BY <2>1, <2>2, <2>3
<1>9. mb = ms \o mr
  <2> DEFINE q == ms \o mr
  <2>1. q \in Seq(Seq(Tokens)) /\ Len(q) = Len(mb) /\ \A i \in 1..Len(q) : mb[i] = q[i]
    BY <1>5, <1>6, <1>8
  <2> HIDE DEF q
  <2>2. mb = q
    BY <1>5, <2>1
  <2>3. QED BY <2>2 DEF q
<1>10. FlattenSeq(ms \o mr) = FlattenSeq(ms) \o FlattenSeq(mr)
  BY <1>3, <1>4, FlattenJoined
<1>11. QED
  BY <1>9, <1>10, Zenon DEF FullBy, ms, mr, mb

LEMMA FullOne ==
  ASSUME NEW e \in [Tokens -> Seq(Tokens)], NEW t \in Tokens
  PROVE  FullBy(e, <<t>>) = e[t]
<1> DEFINE m == Mapped(e, <<t>>)
<1>1. <<t>> \in Seq(Tokens) /\ Len(<<t>>) = 1 /\ <<t>>[1] = t /\ 1 \in 1..1
  OBVIOUS
<1>2. m \in Seq(Seq(Tokens)) /\ Len(m) = 1 /\ m[1] = e[t]
  BY <1>1, MappedType
<1>3. FullBy(e, <<t>>) = FlattenSeq(m)
  BY Zenon DEF FullBy
<1> HIDE DEF m
<1>4. m = <<e[t]>>
  BY <1>2
<1>5. e[t] \in Seq(Tokens)
  OBVIOUS
<1>6. QED
  BY <1>3, <1>4, <1>5, FlattenOne

LEMMA FullType ==
  ASSUME NEW e \in [Tokens -> Seq(Tokens)], NEW s \in Seq(Tokens)
  PROVE  FullBy(e, s) \in Seq(Tokens)
<1>1. Mapped(e, s) \in Seq(Seq(Tokens))
  BY MappedType
<1>2. QED
  BY <1>1, FlattenType DEF FullBy

LEMMA ReplacedIs ==
  ASSUME NEW e, NEW t \in Tokens
  PROVE  Replaced(e)[t] = IF t \notin Placeholders THEN <<t>> ELSE FullBy(e, Becomes(t))
<1>1. FullBy(e, Becomes(t)) = FlattenSeq([i \in DOMAIN Becomes(t) |-> e[Becomes(t)[i]]])
  BY Zenon DEF FullBy, Mapped
<1>2. Replaced(e)[t] = IF t \notin Placeholders THEN <<t>>
                       ELSE FlattenSeq([i \in DOMAIN Becomes(t) |-> e[Becomes(t)[i]]])
  BY Zenon DEF Replaced
<1>3. QED
  BY <1>1, <1>2

---------------------------------------------------------------------------
(* What is replaced does not depend on the state but by the settings.      *)
LEMMA BecomesKept ==
  ASSUME UNCHANGED value
  PROVE  \A t : Becomes(t)' = Becomes(t) /\ Uses(t)' = Uses(t)
BY Zenon DEF Becomes, Uses, PlayersList, Chained

LEMMA ExpansionIsNext == \E e : Steps(e)' /\ Expansion' = e[6]
<1>1. (\E e : Steps(e) /\ Expansion = e[6])'
  BY ExpansionIs, PTL
<1>2. QED
  BY <1>1

LEMMA ExpansionKept ==
  ASSUME UNCHANGED value
  PROVE  Expansion' = Expansion
<1>1. PICK f : Steps(f)' /\ Expansion' = f[6]
  BY ExpansionIsNext
<1>2. PICK e : Steps(e) /\ Expansion = e[6]
  BY ExpansionIs
<1>3. ASSUME NEW g PROVE Replaced(g)' = Replaced(g)
  <2>1. ASSUME NEW t \in Tokens PROVE FullBy(g, Becomes(t)') = FullBy(g, Becomes(t))
    BY BecomesKept
  <2>2. Replaced(g) = [t \in Tokens |-> IF t \notin Placeholders THEN <<t>>
                                        ELSE FullBy(g, Becomes(t))]
    BY Zenon DEF Replaced, FullBy, Mapped
  <2>3. Replaced(g)' = [t \in Tokens |-> IF t \notin Placeholders THEN <<t>>
                                         ELSE FullBy(g, Becomes(t)')]
    BY Zenon DEF Replaced, FullBy, Mapped
  <2>4. QED BY <2>1, <2>2, <2>3
<1> DEFINE S == {n \in Nat : n <= 6 => f[n] = e[n]}
<1>4. 0 \in S
  BY <1>1, <1>2 DEF Steps
<1>5. ASSUME NEW n \in Nat, n \in S PROVE n + 1 \in S
  <2> SUFFICES ASSUME n + 1 <= 6 PROVE f[n + 1] = e[n + 1]
    OBVIOUS
  <2>1. n \in 0..5 /\ f[n] = e[n]
    BY <1>5
  <2>2. e[n + 1] = Replaced(e[n])
    BY <1>2, <2>1, Zenon DEF Steps
  <2>3. f[n + 1] = Replaced(f[n])'
    BY <1>1, <2>1, Zenon DEF Steps
  <2>4. QED BY <1>3, <2>1, <2>2, <2>3
<1>6. Nat \subseteq S
  <2> HIDE DEF S
  <2>1. QED BY <1>4, <1>5, SetInduction
<1>7. f[6] = e[6]
  <2>1. 6 \in S
    BY <1>6
  <2>2. QED BY <2>1
<1>8. QED
  BY <1>1, <1>2, <1>7

LEMMA LeadsKept ==
  ASSUME UNCHANGED <<value, page>>
  PROVE  (\A n \in 0..5 : Leads[n]' = Leads[n]) /\ (Circular' <=> Circular)
<1>1. Leads[0] = ToSet(page) /\ \A n \in 0..4 : Leads[n + 1] = UNION {Uses(t) : t \in Leads[n]}
  BY LeadsIs
<1>2. (/\ Leads[0] = ToSet(page)
       /\ \A n \in 0..4 : Leads[n + 1] = UNION {Uses(t) : t \in Leads[n]})'
  BY LeadsIs, PTL
<1> DEFINE S == {n \in Nat : n <= 5 => Leads[n]' = Leads[n]}
<1>3. 0 \in S
  <2>1. ToSet(page)' = ToSet(page)
    BY Zenon DEF ToSet
  <2>2. QED BY <1>1, <1>2, <2>1
<1>4. ASSUME NEW n \in Nat, n \in S PROVE n + 1 \in S
  <2> SUFFICES ASSUME n + 1 <= 5 PROVE Leads[n + 1]' = Leads[n + 1]
    OBVIOUS
  <2>1. n \in 0..4 /\ Leads[n]' = Leads[n]
    BY <1>4
  <2>2. Leads[n + 1] = UNION {Uses(t) : t \in Leads[n]}
    BY <1>1, <2>1
  <2>3. Leads[n + 1]' = UNION {Uses(t)' : t \in Leads[n]'}
    BY <1>2, <2>1
  <2>4. \A t : Uses(t)' = Uses(t)
    BY BecomesKept
  <2>5. QED BY <2>1, <2>2, <2>3, <2>4
<1>5. Nat \subseteq S
  <2> HIDE DEF S
  <2>1. QED BY <1>3, <1>4, SetInduction
<1>6. \A n \in 0..5 : n \in Nat /\ n <= 5
  OBVIOUS
<1>7. \A n \in 0..5 : Leads[n]' = Leads[n]
  BY <1>5, <1>6
<1>8. Leads[5]' = Leads[5]
  BY <1>7
<1>9. QED
  BY <1>7, <1>8 DEF Circular

---------------------------------------------------------------------------
(* A token that is replaced in turn k times is done after k steps.         *)
Same(e, k, t) == \A n \in k..6 : e[n][t] = e[6][t]

LEMMA SameLater ==
  ASSUME NEW e, NEW t, NEW k \in Nat, NEW m \in Nat, k <= m, Same(e, k, t)
  PROVE  Same(e, m, t)
<1>1. \A n \in m..6 : n \in k..6
  OBVIOUS
<1>2. QED
  BY <1>1 DEF Same

LEMMA SameStep ==
  ASSUME value \in Values, NEW e, Steps(e), NEW t \in Placeholders, NEW k \in 0..5,
         \A i \in DOMAIN Becomes(t) : Same(e, k, Becomes(t)[i])
  PROVE  Same(e, k + 1, t)
<1>1. t \in Tokens
  BY DEF Tokens
<1>2. ASSUME NEW n \in k..5 PROVE e[n + 1][t] = FullBy(e[6], Becomes(t))
  <2>1. n \in 0..5 /\ n \in k..6
    OBVIOUS
  <2>2. e[n + 1] = Replaced(e[n])
    BY <2>1, Zenon DEF Steps
  <2>3. e[n + 1][t] = FullBy(e[n], Becomes(t))
    BY <1>1, <2>2, ReplacedIs
  <2>4. Mapped(e[n], Becomes(t)) = Mapped(e[6], Becomes(t))
    <3>1. \A i \in DOMAIN Becomes(t) : e[n][Becomes(t)[i]] = e[6][Becomes(t)[i]]
      BY <2>1 DEF Same
    <3>2. QED BY <3>1 DEF Mapped
  <2>5. QED BY <2>3, <2>4 DEF FullBy
<1>3. e[6][t] = FullBy(e[6], Becomes(t))
  <2>1. 5 \in k..5 /\ 5 + 1 = 6
    OBVIOUS
  <2>2. e[5 + 1][t] = FullBy(e[6], Becomes(t))
    BY <1>2, <2>1
  <2>3. QED BY <2>1, <2>2
<1>4. ASSUME NEW n \in (k + 1)..6 PROVE e[n][t] = FullBy(e[6], Becomes(t))
  <2>1. PICK m \in k..5 : n = m + 1
    <3>1. n - 1 \in k..5 /\ n = (n - 1) + 1
      OBVIOUS
    <3>2. QED BY <3>1
  <2>2. QED BY <1>2, <2>1
<1>5. QED
  BY <1>3, <1>4 DEF Same

LEMMA SamePlain ==
  ASSUME NEW e, Steps(e), NEW t \in Tokens, t \notin Placeholders
  PROVE  Same(e, 0, t)
<1>1. e[0][t] = <<t>>
  BY DEF Steps
<1>2. ASSUME NEW n \in 0..5 PROVE e[n + 1][t] = <<t>>
  <2>1. e[n + 1] = Replaced(e[n])
    BY Zenon DEF Steps
  <2>2. QED BY <2>1, ReplacedIs
<1>3. ASSUME NEW n \in 0..6 PROVE e[n][t] = <<t>>
  <2>1. CASE n = 0
    BY <1>1, <2>1
  <2>2. CASE n # 0
    <3>1. PICK m \in 0..5 : n = m + 1
      <4>1. n - 1 \in 0..5 /\ n = (n - 1) + 1
        BY <2>2
      <4>2. QED BY <4>1
    <3>2. QED BY <1>2, <3>1
  <2>3. QED BY <2>1, <2>2
<1>4. QED
  BY <1>3 DEF Same

LEMMA ChainedAre == Chained \subseteq Placeholders /\ Placeholders \subseteq Tokens
BY DEF Chained, Placeholders, Tokens, Tags

LEMMA BecomesChained ==
  ASSUME value \in Values, NEW t \in Chained, NEW i \in DOMAIN Becomes(t),
         Becomes(t)[i] \in Chained
  PROVE  Becomes(t)[i] \in Uses(t)
<1>1. CASE t \in Settings
  <2>1. Becomes(t) = value[t]
    BY <1>1 DEF Becomes
  <2>2. Becomes(t)[i] \in ToSet(value[t])
    BY <2>1, Zenon DEF ToSet
  <2>3. QED BY <1>1, <2>2 DEF Uses
<1>2. CASE t = "</body>"
  <2>1. Becomes(t) = <<"sign", "system", "</BODY>">>
    BY <1>2 DEF Becomes, Settings
  <2>2. Uses(t) = {"sign"}
    BY <1>2 DEF Uses, Settings
  <2>3. QED BY <2>1, <2>2 DEF Chained, Settings
<1>3. CASE t = "</head>"
  <2>1. Becomes(t) = <<"copyright", "</HEAD>">>
    BY <1>3 DEF Becomes, Settings
  <2>2. Uses(t) = {"copyright"}
    BY <1>3 DEF Uses, Settings
  <2>3. QED BY <2>1, <2>2 DEF Chained, Settings
<1>4. QED
  BY <1>1, <1>2, <1>3 DEF Chained

LEMMA BecomesPlain ==
  ASSUME NEW t \in Placeholders, t \notin Chained, NEW i \in DOMAIN Becomes(t)
  PROVE  Becomes(t)[i] \in Tokens \ Placeholders
<1>1. t \in {"system", "players", "<body>", "<head>"}
  BY DEF Placeholders, Chained, Settings, Tags
<1>2. Becomes(t) \in {<<"text">>, <<>>, <<"<BODY>">>, <<"<HEAD>">>}
  BY <1>1 DEF Becomes, Settings, PlayersList
<1>3. Becomes(t)[i] \in {"text", "<BODY>", "<HEAD>"}
  BY <1>2
<1>4. QED
  BY <1>3 DEF Tokens, Placeholders, Settings, Tags

LEMMA SameUnchained ==
  ASSUME value \in Values, NEW e, Steps(e), NEW t \in Tokens, t \notin Chained
  PROVE  Same(e, 1, t)
<1>1. CASE t \in Placeholders
  <2>1. \A i \in DOMAIN Becomes(t) : Same(e, 0, Becomes(t)[i])
    BY <1>1, BecomesPlain, SamePlain
  <2>2. Same(e, 0 + 1, t)
    BY <1>1, <2>1, SameStep
  <2>3. QED BY <2>2
<1>2. CASE t \notin Placeholders
  <2>1. Same(e, 0, t)
    BY <1>2, SamePlain
  <2>2. QED BY <2>1, SameLater
<1>3. QED
  BY <1>1, <1>2

LEMMA BecomesTokens ==
  ASSUME value \in Values, NEW t, NEW i \in DOMAIN Becomes(t)
  PROVE  Becomes(t)[i] \in Tokens
<1>1. Becomes(t) \in Seq(Tokens)
  BY BecomesType
<1>2. QED
  BY <1>1

LEMMA SameLed ==
  ASSUME value \in Values, NEW e, Steps(e), ~Circular
  PROVE  \A m \in 0..5 : \A t \in Leads[m] \cap Tokens : Same(e, 6 - m, t)
<1> DEFINE S == {d \in Nat : d <= 5 => \A t \in Leads[5 - d] \cap Tokens : Same(e, d + 1, t)}
<1>1. 0 \in S
  <2>1. 5 - 0 = 5 /\ Leads[5] = {}
    BY DEF Circular
  <2>2. QED BY <2>1
<1>2. ASSUME NEW d \in Nat, d \in S PROVE d + 1 \in S
  <2> SUFFICES ASSUME d + 1 <= 5, NEW t \in Leads[5 - (d + 1)] \cap Tokens
               PROVE  Same(e, (d + 1) + 1, t)
    OBVIOUS
  <2>1. \A u \in Leads[5 - d] \cap Tokens : Same(e, d + 1, u)
    BY <1>2
  <2>2. CASE t \notin Chained
    <3>1. Same(e, 1, t)
      BY <2>2, SameUnchained
    <3>2. QED BY <3>1, SameLater
  <2>3. CASE t \in Chained
    <3>1. 5 - (d + 1) \in 0..4 /\ (5 - (d + 1)) + 1 = 5 - d /\ d + 1 \in 0..5
      OBVIOUS
    <3>2. Leads[5 - d] = UNION {Uses(u) : u \in Leads[5 - (d + 1)]}
      BY <3>1, LeadsIs
    <3>3. Uses(t) \subseteq Leads[5 - d]
      BY <3>2
    <3>4. ASSUME NEW i \in DOMAIN Becomes(t) PROVE Same(e, d + 1, Becomes(t)[i])
      <4>1. Becomes(t)[i] \in Tokens
        BY BecomesTokens
      <4>2. CASE Becomes(t)[i] \in Chained
        <5>1. Becomes(t)[i] \in Leads[5 - d]
          BY <2>3, <3>3, <4>2, BecomesChained
        <5>2. QED BY <2>1, <4>1, <5>1
      <4>3. CASE Becomes(t)[i] \notin Chained
        <5>1. Same(e, 1, Becomes(t)[i])
          BY <4>1, <4>3, SameUnchained
        <5>2. QED BY <5>1, SameLater
      <4>4. QED BY <4>2, <4>3
    <3>5. t \in Placeholders
      BY <2>3, ChainedAre
    <3>6. QED BY <3>1, <3>4, <3>5, SameStep
  <2>4. QED BY <2>2, <2>3
<1>3. Nat \subseteq S
  <2> HIDE DEF S
  <2>1. QED BY <1>1, <1>2, SetInduction
<1>4. ASSUME NEW m \in 0..5, NEW t \in Leads[m] \cap Tokens PROVE Same(e, 6 - m, t)
  <2> DEFINE d == 5 - m
  <2>1. d \in Nat /\ d <= 5 /\ 5 - d = m /\ d + 1 = 6 - m
    OBVIOUS
  <2> HIDE DEF d
  <2>2. \A u \in Leads[5 - d] \cap Tokens : Same(e, d + 1, u)
    BY <1>3, <2>1
  <2>3. QED BY <2>1, <2>2
<1>5. QED
  BY <1>4

(* A placeholder means what it becomes.                                    *)
LEMMA BecomesMeans ==
  ASSUME value \in Values, ~Circular, NEW t \in Placeholders,
         t \in Chained => \E n \in 0..4 : t \in Leads[n]
  PROVE  FullBy(Expansion, Becomes(t)) = Expansion[t]
<1>1. PICK e : Steps(e) /\ Expansion = e[6]
  BY ExpansionIs
<1>2. ASSUME NEW i \in DOMAIN Becomes(t) PROVE Same(e, 5, Becomes(t)[i])
  <2>1. Becomes(t)[i] \in Tokens
    BY BecomesTokens
  <2>2. CASE Becomes(t)[i] \in Chained
    <3>1. t \in Chained
      BY <2>2, BecomesPlain, ChainedAre
    <3>2. PICK n \in 0..4 : t \in Leads[n]
      BY <3>1
    <3>3. Leads[n + 1] = UNION {Uses(u) : u \in Leads[n]}
      BY LeadsIs
    <3>4. Becomes(t)[i] \in Leads[n + 1]
      BY <2>2, <3>1, <3>2, <3>3, BecomesChained
    <3>5. n + 1 \in 0..5 /\ 6 - (n + 1) \in Nat /\ 6 - (n + 1) <= 5
      OBVIOUS
    <3>6. Same(e, 6 - (n + 1), Becomes(t)[i])
      BY <1>1, <2>1, <3>4, <3>5, SameLed
    <3>7. QED BY <3>5, <3>6, SameLater
  <2>3. CASE Becomes(t)[i] \notin Chained
    <3>1. Same(e, 1, Becomes(t)[i])
      BY <1>1, <2>1, <2>3, SameUnchained
    <3>2. QED BY <3>1, SameLater
  <2>4. QED BY <2>2, <2>3
<1>3. Mapped(e[5], Becomes(t)) = Mapped(e[6], Becomes(t))
  <2>1. \A i \in DOMAIN Becomes(t) : e[5][Becomes(t)[i]] = e[6][Becomes(t)[i]]
    <3>1. 5 \in 5..6
      OBVIOUS
    <3>2. QED BY <1>2, <3>1, Zenon DEF Same
  <2>2. QED BY <2>1 DEF Mapped
<1>4. e[6] = Replaced(e[5])
  <2>1. 5 \in 0..5 /\ 5 + 1 = 6
    OBVIOUS
  <2>2. e[5 + 1] = Replaced(e[5])
    BY <1>1, <2>1, Zenon DEF Steps
  <2>3. QED BY <2>1, <2>2
<1>5. e[6][t] = FullBy(e[5], Becomes(t))
  <2>1. t \in Tokens
    BY ChainedAre
  <2>2. QED BY <1>4, <2>1, ReplacedIs
<1>6. QED
  BY <1>1, <1>3, <1>5 DEF FullBy

LEMMA AdjustSplits ==
  ASSUME value \in Values, text \in Seq(Tokens), NEW i \in DOMAIN text, Adjust(i)
  PROVE  \E a, c \in Seq(Tokens) :
           /\ text = (a \o <<text[i]>>) \o c
           /\ text' = (a \o Becomes(text[i])) \o c
           /\ \A j \in DOMAIN a : \E k \in DOMAIN text : a[j] = text[k]
           /\ \A j \in DOMAIN c : \E k \in DOMAIN text : c[j] = text[k]
<1> DEFINE a == SubSeq(text, 1, i - 1)
           c == SubSeq(text, i + 1, Len(text))
<1>1. i \in 1..Len(text) /\ Len(text) \in Nat /\ text[i] \in Tokens
  OBVIOUS
<1>2. a \in Seq(Tokens) /\ Len(a) = i - 1 /\ \A j \in 1..(i - 1) : a[j] = text[j]
  BY <1>1
<1>3. c \in Seq(Tokens) /\ Len(c) = Len(text) - i /\ \A j \in 1..(Len(text) - i) : c[j] = text[i + j]
  BY <1>1
<1>4. text' = (a \o Becomes(text[i])) \o c
  BY Zenon DEF Adjust
<1> HIDE DEF a, c
<1>5. ASSUME NEW j \in DOMAIN a PROVE \E k \in DOMAIN text : a[j] = text[k]
  <2>1. j \in 1..(i - 1) /\ j \in DOMAIN text
    BY <1>1, <1>2
  <2>2. QED BY <1>2, <2>1
<1>6. ASSUME NEW j \in DOMAIN c PROVE \E k \in DOMAIN text : c[j] = text[k]
  <2>1. j \in 1..(Len(text) - i) /\ i + j \in DOMAIN text
    BY <1>1, <1>3
  <2>2. QED BY <1>3, <2>1
<1>7. text = (a \o <<text[i]>>) \o c
  <2> DEFINE b == a \o <<text[i]>>
             d == b \o c
  <2>1. <<text[i]>> \in Seq(Tokens) /\ Len(<<text[i]>>) = 1 /\ <<text[i]>>[1] = text[i]
    BY <1>1
  <2>2. /\ b \in Seq(Tokens) /\ Len(b) = i
        /\ \A j \in 1..(i - 1) : b[j] = a[j]
        /\ b[i] = text[i]
    <3> DEFINE s == <<text[i]>>
    <3> HIDE DEF s
    <3>1. s \in Seq(Tokens) /\ Len(s) = 1 /\ s[1] = text[i]
      BY <2>1 DEF s
    <3>2. /\ a \o s \in Seq(Tokens) /\ Len(a \o s) = Len(a) + Len(s)
          /\ \A j \in 1..Len(a) : (a \o s)[j] = a[j]
          /\ \A j \in 1..Len(s) : (a \o s)[Len(a) + j] = s[j]
      <4>1. a \in Seq(Tokens) /\ s \in Seq(Tokens)
        BY <1>2, <3>1
      <4>2. QED BY <4>1, Joined
    <3>3. Len(a) + 1 = i /\ 1 \in 1..Len(s)
      BY <1>1, <1>2, <3>1
    <3>4. (a \o s)[Len(a) + 1] = s[1]
      BY <3>2, <3>3
    <3>5. QED BY <1>2, <3>1, <3>2, <3>3, <3>4 DEF s
  <2> HIDE DEF b
  <2>3. /\ d \in Seq(Tokens) /\ Len(d) = Len(b) + Len(c)
        /\ \A j \in 1..Len(b) : d[j] = b[j]
        /\ \A j \in 1..Len(c) : d[Len(b) + j] = c[j]
    <3>1. b \in Seq(Tokens) /\ c \in Seq(Tokens)
      BY <1>3, <2>2
    <3>2. QED BY <3>1, Joined
  <2> HIDE DEF d
  <2>4. Len(d) = Len(text)
    BY <1>1, <1>3, <2>2, <2>3
  <2>5. ASSUME NEW j \in 1..Len(text) PROVE d[j] = text[j]
    <3>1. CASE j < i
      <4>1. j \in 1..(i - 1) /\ j \in 1..Len(b)
        BY <1>1, <2>2, <3>1
      <4>2. QED BY <1>2, <2>2, <2>3, <4>1
    <3>2. CASE j = i
      <4>1. j \in 1..Len(b)
        BY <1>1, <2>2, <3>2
      <4>2. QED BY <2>2, <2>3, <3>2, <4>1
    <3>3. CASE j > i
      <4>1. j - i \in 1..Len(c) /\ j = i + (j - i) /\ j - i \in 1..(Len(text) - i)
        BY <1>1, <1>3, <3>3
      <4>2. d[i + (j - i)] = c[j - i] /\ c[j - i] = text[i + (j - i)]
        BY <1>3, <2>2, <2>3, <4>1
      <4>3. QED BY <4>1, <4>2
    <3>4. QED BY <1>1, <3>1, <3>2, <3>3
  <2>6. d = text
    BY <2>3, <2>4, <2>5
  <2>7. QED BY <2>6 DEF b, d
<1>8. QED
  BY <1>2, <1>3, <1>4, <1>5, <1>6, <1>7

LEMMA AdjustMeans ==
  ASSUME value \in Values, text \in Seq(Tokens), ~Circular, NEW i \in DOMAIN text, Adjust(i),
         text[i] \in Placeholders, text[i] \in Chained => \E n \in 0..4 : text[i] \in Leads[n]
  PROVE  FullBy(Expansion, text') = FullBy(Expansion, text)
<1> DEFINE F(s) == FullBy(Expansion, s)
<1>1. PICK a \in Seq(Tokens), c \in Seq(Tokens) :
         /\ text = (a \o <<text[i]>>) \o c
         /\ text' = (a \o Becomes(text[i])) \o c
  BY AdjustSplits
<1>2. Expansion \in [Tokens -> Seq(Tokens)]
  <2>1. 6 \in 0..6
    OBVIOUS
  <2>2. QED BY <2>1, ExpansionIs, StepsType
<1>3. <<text[i]>> \in Seq(Tokens) /\ Becomes(text[i]) \in Seq(Tokens) /\ text[i] \in Tokens
  BY BecomesType
<1>4. a \o <<text[i]>> \in Seq(Tokens) /\ a \o Becomes(text[i]) \in Seq(Tokens)
  BY <1>3, Joined
<1>5. F(<<text[i]>>) = F(Becomes(text[i]))
  BY <1>2, <1>3, FullOne, BecomesMeans
<1>6. F(a \o <<text[i]>>) = F(a) \o F(<<text[i]>>)
  BY <1>2, <1>3, FullJoined
<1>7. F(a \o Becomes(text[i])) = F(a) \o F(Becomes(text[i]))
  BY <1>2, <1>3, FullJoined
<1>8. /\ F((a \o <<text[i]>>) \o c) = F(a \o <<text[i]>>) \o F(c)
      /\ F((a \o Becomes(text[i])) \o c) = F(a \o Becomes(text[i])) \o F(c)
  BY <1>2, <1>4, FullJoined
<1> HIDE DEF F
<1>9. F(text') = F(text)
  <2>1. F(text') = F((a \o Becomes(text[i])) \o c)
    BY <1>1
  <2>2. F(text) = F((a \o <<text[i]>>) \o c)
    BY <1>1
  <2>3. QED BY <1>5, <1>6, <1>7, <1>8, <2>1, <2>2
<1>10. QED
  BY <1>9 DEF F

LEMMA AdjustLeads ==
  ASSUME value \in Values, text \in Seq(Tokens), ~Circular, NEW i \in DOMAIN text, Adjust(i),
         \A j \in DOMAIN text : text[j] \in Chained => \E n \in 0..4 : text[j] \in Leads[n],
         text[i] \in Placeholders, NEW j \in DOMAIN text', text'[j] \in Chained
  PROVE  \E n \in 0..4 : text'[j] \in Leads[n]
<1>1. PICK a \in Seq(Tokens), c \in Seq(Tokens) :
         /\ text' = (a \o Becomes(text[i])) \o c
         /\ \A m \in DOMAIN a : \E k \in DOMAIN text : a[m] = text[k]
         /\ \A m \in DOMAIN c : \E k \in DOMAIN text : c[m] = text[k]
  BY AdjustSplits
<1> DEFINE b == Becomes(text[i])
<1>2. b \in Seq(Tokens)
  BY BecomesType
<1> HIDE DEF b
<1>3. /\ a \o b \in Seq(Tokens) /\ Len(a \o b) = Len(a) + Len(b)
      /\ \A m \in 1..Len(a) : (a \o b)[m] = a[m]
      /\ \A m \in 1..Len(b) : (a \o b)[Len(a) + m] = b[m]
  BY <1>2, Joined
<1> DEFINE ab == a \o b
<1>4. ab \in Seq(Tokens) /\ Len(ab) = Len(a) + Len(b) /\ text' = ab \o c
  BY <1>1, <1>3 DEF b
<1>5. \A m \in 1..Len(ab) : (\E k \in DOMAIN a : ab[m] = a[k]) \/ (\E k \in DOMAIN b : ab[m] = b[k])
  <2> SUFFICES ASSUME NEW m \in 1..Len(ab)
               PROVE  (\E k \in DOMAIN a : ab[m] = a[k]) \/ (\E k \in DOMAIN b : ab[m] = b[k])
    OBVIOUS
  <2>1. Len(a) \in Nat /\ Len(b) \in Nat /\ DOMAIN a = 1..Len(a) /\ DOMAIN b = 1..Len(b)
    BY <1>2
  <2>2. CASE m <= Len(a)
    <3>1. m \in 1..Len(a)
      BY <2>1, <2>2
    <3>2. QED BY <1>3, <2>1, <3>1
  <2>3. CASE m > Len(a)
    <3>1. m - Len(a) \in 1..Len(b) /\ m = Len(a) + (m - Len(a))
      <4>1. Len(ab) = Len(a) + Len(b)
        BY <1>4
      <4>2. QED BY <2>1, <2>3, <4>1
    <3>2. ab[Len(a) + (m - Len(a))] = b[m - Len(a)]
      BY <1>3, <3>1
    <3>3. QED BY <2>1, <3>1, <3>2
  <2>4. QED BY <2>1, <2>2, <2>3
<1> HIDE DEF ab
<1>6. /\ Len(ab \o c) = Len(ab) + Len(c) /\ ab \o c \in Seq(Tokens)
      /\ \A m \in 1..Len(ab) : (ab \o c)[m] = ab[m]
      /\ \A m \in 1..Len(c) : (ab \o c)[Len(ab) + m] = c[m]
  <2>1. ab \in Seq(Tokens)
    BY <1>4
  <2>2. QED BY <2>1, Joined
<1>7. (\E m \in 1..Len(ab) : text'[j] = ab[m]) \/ (\E m \in DOMAIN c : text'[j] = c[m])
  <2>1. Len(ab) \in Nat /\ Len(c) \in Nat /\ DOMAIN c = 1..Len(c)
    BY <1>4
  <2>2. j \in 1..(Len(ab) + Len(c))
    BY <1>4, <1>6
  <2>3. CASE j <= Len(ab)
    <3>1. j \in 1..Len(ab)
      BY <2>1, <2>2, <2>3
    <3>2. QED BY <1>4, <1>6, <3>1
  <2>4. CASE j > Len(ab)
    <3>1. j - Len(ab) \in 1..Len(c) /\ j = Len(ab) + (j - Len(ab))
      BY <2>1, <2>2, <2>4
    <3>2. text'[Len(ab) + (j - Len(ab))] = c[j - Len(ab)]
      BY <1>4, <1>6, <3>1
    <3>3. QED BY <2>1, <3>1, <3>2
  <2>5. QED BY <2>1, <2>2, <2>3, <2>4
<1>8. (\E k \in DOMAIN text : text'[j] = text[k]) \/ (\E k \in DOMAIN b : text'[j] = b[k])
  <2>1. CASE \E m \in 1..Len(ab) : text'[j] = ab[m]
    <3>1. PICK m \in 1..Len(ab) : text'[j] = ab[m]
      BY <2>1
    <3>2. (\E k \in DOMAIN a : ab[m] = a[k]) \/ (\E k \in DOMAIN b : ab[m] = b[k])
      BY <1>5, Zenon
    <3>3. CASE \E k \in DOMAIN a : ab[m] = a[k]
      BY <1>1, <3>1, <3>3, Zenon
    <3>4. CASE \E k \in DOMAIN b : ab[m] = b[k]
      BY <3>1, <3>4, Zenon
    <3>5. QED BY <3>2, <3>3, <3>4
  <2>2. CASE \E m \in DOMAIN c : text'[j] = c[m]
    BY <1>1, <2>2, Zenon
  <2>3. QED BY <1>7, <2>1, <2>2
<1>9. CASE \E k \in DOMAIN text : text'[j] = text[k]
  BY <1>9
<1>10. CASE \E k \in DOMAIN b : text'[j] = b[k]
  <2>1. PICK k \in DOMAIN Becomes(text[i]) : text'[j] = Becomes(text[i])[k]
    BY <1>10 DEF b
  <2>2. text[i] \in Chained
    BY <2>1, BecomesPlain, ChainedAre
  <2>3. text'[j] \in Uses(text[i])
    BY <2>1, <2>2, BecomesChained
  <2>4. PICK n \in 0..4 : text[i] \in Leads[n]
    BY <2>2
  <2>5. Leads[n + 1] = UNION {Uses(t) : t \in Leads[n]}
    BY LeadsIs
  <2>6. text'[j] \in Leads[n + 1]
    BY <2>3, <2>4, <2>5
  <2>7. n # 4
    BY <2>6 DEF Circular
  <2>8. n + 1 \in 0..4
    BY <2>7
  <2>9. QED BY <2>6, <2>8
<1>11. QED
  BY <1>8, <1>9, <1>10

LEMMA MeaningStep ==
  ASSUME ReplyTypes, LeadInv, ChangeKeepsTheMeaning, [ReplyNext]_replyVars
  PROVE  LeadInv' /\ ChangeKeepsTheMeaning'
<1>1. /\ Full(text) = FullBy(Expansion, text) /\ Full(page) = FullBy(Expansion, page)
      /\ Full(text)' = FullBy(Expansion', text') /\ Full(page)' = FullBy(Expansion', page')
  BY Zenon DEF Full, FullBy, Mapped
<1>2. value \in Values /\ text \in Seq(Tokens) /\ page \in Seq(Tokens)
  BY DEF ReplyTypes
<1>3. UNCHANGED value
  BY DEF ReplyNext, replyVars, request, Answer, Find, SendHead, Open, Change, SendLength, SendBody, Vanish
<1>4. Expansion' = Expansion
  BY <1>3, ExpansionKept
<1>5. CASE pc' \notin {"change", "send"}
  BY <1>5 DEF LeadInv, ChangeKeepsTheMeaning
<1>6. CASE UNCHANGED <<page, text, pc>>
  <2>1. (\A n \in 0..5 : Leads[n]' = Leads[n]) /\ (Circular' <=> Circular)
    BY <1>3, <1>6, LeadsKept
  <2>2. \A n \in 0..4 : n \in 0..5
    OBVIOUS
  <2>3. LeadInv'
    BY <1>6, <2>1, <2>2 DEF LeadInv
  <2>4. ChangeKeepsTheMeaning'
    BY <1>1, <1>4, <1>6, <2>1 DEF ChangeKeepsTheMeaning
  <2>5. QED BY <2>3, <2>4
<1>7. CASE Open
  <2>1. CASE pc' = "change" /\ text' = page'
    <3>1. ChangeKeepsTheMeaning'
      BY <1>1, <2>1 DEF ChangeKeepsTheMeaning
    <3>2. Leads[0]' = ToSet(page')
      <4>1. (/\ Leads[0] = ToSet(page)
             /\ \A n \in 0..4 : Leads[n + 1] = UNION {Uses(t) : t \in Leads[n]})'
        BY LeadsIs, PTL
      <4>2. QED BY <4>1
    <3>3. ASSUME NEW i \in DOMAIN text' PROVE text'[i] \in Leads[0]'
      <4>1. text'[i] \in ToSet(text')
        BY Zenon DEF ToSet
      <4>2. QED BY <2>1, <3>2, <4>1
    <3>4. 0 \in 0..4
      OBVIOUS
    <3>5. LeadInv'
      BY <3>3, <3>4 DEF LeadInv
    <3>6. QED BY <3>1, <3>5
  <2>2. CASE pc' = "send" /\ UNCHANGED <<page, text>>
    <3>1. page = <<>> /\ text = <<>>
      BY <1>7 DEF Open, ReplyTypes
    <3>2. QED BY <1>1, <2>2, <3>1 DEF LeadInv, ChangeKeepsTheMeaning
  <2>3. CASE pc' \in {"head", "done"}
    BY <2>3 DEF LeadInv, ChangeKeepsTheMeaning
  <2>4. QED BY <1>7, <2>1, <2>2, <2>3, Zenon DEF Open, transform
<1>8. CASE Change
  <2>1. pc = "change" /\ UNCHANGED page
    BY <1>8 DEF Change
  <2>2. (\A n \in 0..5 : Leads[n]' = Leads[n]) /\ (Circular' <=> Circular)
    BY <1>3, <2>1, LeadsKept
  <2> SUFFICES ASSUME ~Circular PROVE LeadInv' /\ ChangeKeepsTheMeaning'
    BY <2>2 DEF LeadInv, ChangeKeepsTheMeaning
  <2>3. FullBy(Expansion, text) = FullBy(Expansion, page)
    BY <1>1, <2>1 DEF ChangeKeepsTheMeaning
  <2>4. \A j \in DOMAIN text : text[j] \in Chained => \E n \in 0..4 : text[j] \in Leads[n]
    BY <2>1 DEF LeadInv
  <2>5. CASE UNCHANGED text /\ pc' = "send"
    BY <1>1, <1>4, <2>1, <2>3, <2>5 DEF LeadInv, ChangeKeepsTheMeaning
  <2>6. ASSUME NEW i \in DOMAIN text, Found(i), Adjust(i), UNCHANGED pc
        PROVE  LeadInv' /\ ChangeKeepsTheMeaning'
    <3>1. text[i] \in Placeholders
      BY <2>6 DEF Found
    <3>2. FullBy(Expansion, text') = FullBy(Expansion, text)
      BY <1>2, <2>4, <2>6, <3>1, AdjustMeans
    <3>3. \A j \in DOMAIN text' : text'[j] \in Chained => \E n \in 0..4 : text'[j] \in Leads[n]
      BY <1>2, <2>4, <2>6, <3>1, AdjustLeads
    <3>4. \A n \in 0..4 : n \in 0..5
      OBVIOUS
    <3>5. LeadInv'
      BY <2>2, <3>3, <3>4 DEF LeadInv
    <3>6. ChangeKeepsTheMeaning'
      BY <1>1, <1>4, <2>1, <2>3, <3>2 DEF ChangeKeepsTheMeaning
    <3>7. QED BY <3>5, <3>6
  <2>7. QED
    BY <1>8, <2>5, <2>6, Zenon DEF Change
<1>9. QED
  <2>1. CASE Find \/ SendHead \/ SendLength \/ SendBody
    <3>1. pc' \notin {"change", "send"}
      BY <2>1 DEF Find, SendHead, SendLength, SendBody
    <3>2. QED BY <1>5, <3>1
  <2>2. CASE Vanish \/ UNCHANGED replyVars
    <3>1. UNCHANGED <<page, text, pc>>
      BY <2>2 DEF Vanish, replyVars, transform
    <3>2. QED BY <1>6, <3>1
  <2>3. QED
    BY <1>7, <1>8, <2>1, <2>2 DEF ReplyNext, Answer

---------------------------------------------------------------------------
LEMMA ReplyInvHolds == ReplySpec => []ReplyInv
<1>1. ReplyInit => ReplyInv
  <2> SUFFICES ASSUME ReplyInit PROVE ReplyInv
    OBVIOUS
  <2>1. pc = "find"
    BY Zenon DEF ReplyInit
  <2>2. LeadInv /\ ChangeKeepsTheMeaning
    BY <2>1 DEF LeadInv, ChangeKeepsTheMeaning
  <2>3. QED BY <2>2, ReplyTypeInit, LineInit DEF ReplyInv
<1>2. ReplyInv /\ [ReplyNext]_replyVars => ReplyInv'
  <2> SUFFICES ASSUME ReplyInv, [ReplyNext]_replyVars PROVE ReplyInv'
    OBVIOUS
  <2>1. ReplyTypes /\ LineInv /\ LeadInv /\ ChangeKeepsTheMeaning
    BY DEF ReplyInv
  <2>2. pc = "body" => left > 0
    BY <2>1 DEF LineInv, Ended
  <2>3. ReplyTypes'
    BY <2>1, <2>2, ReplyTypeStep
  <2>4. QED BY <2>1, <2>3, LineStep, MeaningStep DEF ReplyInv
<1>3. QED
  BY <1>1, <1>2, PTL DEF ReplySpec

(* A reply is of one page, whatever pages are missing or disappear and     *)
(* whenever the client leaves.                                             *)
THEOREM ReplyIsOfOnePageInvariant == ReplySpec => []ReplyIsOfOnePage
<1>1. ReplyInv => ReplyIsOfOnePage
  BY LinesShow DEF ReplyInv
<1>2. QED
  BY <1>1, ReplyInvHolds, PTL

(* HTTP_Transform_Change keeps what a page means, for all pages and all    *)
(* settings that do not lead back to themselves.                           *)
THEOREM ChangeKeepsTheMeaningInvariant == ReplySpec => []ChangeKeepsTheMeaning
<1>1. ReplyInv => ChangeKeepsTheMeaning
  BY DEF ReplyInv
<1>2. QED
  BY <1>1, ReplyInvHolds, PTL
=============================================================================
