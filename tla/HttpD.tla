------------------------------- MODULE HttpD -------------------------------
(***************************************************************************)
(* The HTTP worker pool (HttpD.cpp): the registry of FixedThread with the  *)
(* queue of requests it serves.  A listener makes a request (httpd_link_t) *)
(* for every connection it accepts and hands it over with HttpD_Add; a     *)
(* worker takes the oldest request and runs HTTP_Work, which answers and   *)
(* deletes the request.  Every step is a step of FixedThread; this module  *)
(* says what happens to the requests in it.                                *)
(***************************************************************************)
EXTENDS FixedThread, Sequences, FiniteSets

CONSTANTS Links   \* the addresses a request can have; they are used again

ASSUME LinksAssumption == NULL \notin Links

VARIABLES
  queue,     \* httpd_queue
  carry,     \* the request each listener is handing over
  holds,     \* httpd_link of HttpD_Thread, for every worker
  links,     \* the requests allocated and not deleted
  fault      \* "none", or the place where a worker's work crashed

requests == <<queue, carry, holds, links>>
hvars    == <<vars, requests, fault>>

HttpInit ==
  /\ Init
  /\ queue = <<>>
  /\ carry = [c \in Callers |-> NULL]
  /\ holds = [w \in Workers |-> NULL]
  /\ links = {}
  /\ fault = "none"

---------------------------------------------------------------------------
(* The listener allocates a request, its Recv returns, and it calls        *)
(* HttpD_Add.                                                              *)
Accept(c) ==
  /\ Arrive(c)
  /\ \E l \in Links \ links :
       /\ carry' = [carry EXCEPT ![c] = l]
       /\ links' = links \cup {l}
  /\ UNCHANGED <<queue, holds>>

(* Mutant: the request goes to the wrong end of the queue. *)
HttpD_AddFront(c) ==
  /\ Push(c)
  /\ queue' = <<carry[c]>> \o queue
  /\ carry' = [carry EXCEPT ![c] = NULL]
  /\ UNCHANGED <<holds, links>>

HttpD_Add(c) ==
  /\ Push(c)
  /\ queue' = Append(queue, carry[c])
  /\ carry' = [carry EXCEPT ![c] = NULL]
  /\ UNCHANGED <<holds, links>>

(* The three outcomes of the worker's look at the queue, and its work. *)
SeeEmpty(w) == QEmpty(w) /\ queue = <<>> /\ UNCHANGED requests

ReadFront(w) ==
  /\ QFront(w)
  /\ queue # <<>>
  /\ holds' = [holds EXCEPT ![w] = Head(queue)]
  /\ UNCHANGED <<queue, carry, links>>

(* Mutant: the request stays in the queue. *)
PopNothing(w) == QTake(w) /\ queue # <<>> /\ UNCHANGED requests

PopFront(w) ==
  /\ QTake(w)
  /\ queue # <<>>
  /\ queue' = Tail(queue)
  /\ UNCHANGED <<carry, holds, links>>

HTTP_Work(w) ==
  /\ WorkDone(w)
  /\ holds[w] \in links
  /\ links' = links \ {holds[w]}
  /\ holds' = [holds EXCEPT ![w] = NULL]
  /\ UNCHANGED <<queue, carry>>

(* HttpD_Cleanup: the requests nobody served are dropped, not deleted. *)
HttpD_Cleanup ==
  /\ CleanupDestroy
  /\ queue' = <<>>
  /\ UNCHANGED <<carry, holds, links>>

(* pop() of an empty queue, or the use of a deleted request. *)
HttpFault(w) ==
  /\ \/ wpc[w] = "q_pop" /\ queue = <<>>
     \/ wpc[w] = "work" /\ holds[w] \notin links
  /\ fault' = wpc[w]
  /\ UNCHANGED <<vars, requests>>

---------------------------------------------------------------------------
(* The steps that do not concern the requests. *)
PoolStep ==
  /\ \/ \E w \in Workers : Register(w) \/ Unregister(w) \/ LoopTest(w)
                           \/ QLock(w) \/ Sleep(w) \/ SpuriousWake(w)
     \/ \E c \in Callers : CallerLock(c) \/ Walk(c)
     \/ CleanupStart \/ CleanupLock \/ CleanupTest \/ CleanupPick \/ JoinStop
     \/ JoinSignal \/ JoinReadId \/ JoinDone
  /\ UNCHANGED requests

HttpNext ==
  /\ crash = "none" /\ fault = "none"
  /\ \/ /\ \/ \E w \in Workers : SeeEmpty(w) \/ ReadFront(w) \/ PopFront(w)
                                 \/ HTTP_Work(w)
           \/ \E c \in Callers : Accept(c) \/ HttpD_Add(c)
           \/ PoolStep
           \/ HttpD_Cleanup
        /\ UNCHANGED <<crash, fault>>
     \/ Crash /\ UNCHANGED <<requests, fault>>
     \/ \E w \in Workers : HttpFault(w)

HttpSpec == HttpInit /\ [][HttpNext]_hvars

(* While main waits for commands: every thread keeps running, a mutex that *)
(* is released again and again is in the end granted to a thread that      *)
(* waits for it, and HTTP_Work returns.  No request has to come.           *)
HttpStep(A) == crash = "none" /\ fault = "none" /\ A /\ UNCHANGED <<crash, fault>>
Keep(A)     == HttpStep(A /\ UNCHANGED requests)
HttpFairness ==
  /\ \A w \in Workers :
       /\ WF_hvars(Keep(Register(w) \/ LoopTest(w) \/ Sleep(w)))
       /\ WF_hvars(HttpStep(SeeEmpty(w) \/ ReadFront(w) \/ PopFront(w)
                            \/ HTTP_Work(w)))
       /\ SF_hvars(Keep(AddLock(w) \/ QLock(w)))
  /\ \A c \in Callers :
       /\ WF_hvars(Keep(Walk(c)))
       /\ WF_hvars(HttpStep(HttpD_Add(c)))
       /\ SF_hvars(Keep(CallerLock(c)))
RunningSpec == HttpInit /\ [][HttpNext /\ mpc' = "run"]_hvars /\ HttpFairness

---------------------------------------------------------------------------
(* The variables of this module have their types. *)
HttpTypeOK ==
  /\ queue \in Seq(Links)
  /\ carry \in [Callers -> Links \cup {NULL}]
  /\ holds \in [Workers -> Links \cup {NULL}]
  /\ links \in SUBSET Links
  /\ fault \in {"none", "q_pop", "work"}

Carrying(c) == cpc[c] \in {"a_lock", "a_in"}
Serving(w)  == wpc[w] = "work"

(* A request that is queued is allocated, and queued once. *)
QueuedOnce ==
  /\ \A i \in 1..Len(queue) : queue[i] \in links
  /\ \A i, j \in 1..Len(queue) : queue[i] = queue[j] => i = j

(* A request a listener hands over is allocated, not queued, its own. *)
CarriedOnce ==
  \A c \in Callers : Carrying(c) =>
    /\ carry[c] \in links
    /\ \A i \in 1..Len(queue) : queue[i] # carry[c]
    /\ \A d \in Callers : Carrying(d) /\ carry[d] = carry[c] => c = d

(* A request a worker serves is allocated, not queued, its own. *)
ServedOnce ==
  \A w \in Workers : Serving(w) =>
    /\ holds[w] \in links
    /\ \A i \in 1..Len(queue) : queue[i] # holds[w]
    /\ \A v \in Workers : Serving(v) /\ holds[v] = holds[w] => v = w
    /\ \A c \in Callers : Carrying(c) => carry[c] # holds[w]

Owned(l) ==
  \/ \E i \in 1..Len(queue) : queue[i] = l
  \/ \E c \in Callers : Carrying(c) /\ carry[c] = l
  \/ \E w \in Workers : Serving(w) /\ holds[w] = l
NoneLost == \A l \in links : Owned(l)

(* Every request that is not deleted has exactly one owner: the listener   *)
(* that makes it, one place in httpd_queue, or the worker that serves it.  *)
(* So no request is lost, served twice or deleted twice, whatever the      *)
(* threads do while the lock protects the queue.                           *)
OneOwner == ~broken => QueuedOnce /\ CarriedOnce /\ ServedOnce /\ NoneLost

(* The walk of a caller over the registry that still has to signal w. *)
WillSignal(c, w) ==
  \/ cpc[c] = "a_walk"
  \/ cpc[c] = "w_signal" /\ ticket[cursor[c]] <= ticket[w]
  \/ cpc[c] = "w_next" /\ ticket[cursor[c]] < ticket[w]

(* While the server runs, a worker sleeps beside a request only if a       *)
(* listener is about to signal it, or its signal came between the unlock   *)
(* and the wait: no other order of the steps strands a request.            *)
StrandedOnlyByLostSignal ==
  ~broken /\ mpc = "run" /\ queue # <<>> =>
    \A w \in Workers : wpc[w] \in {"pre_wait", "asleep"} =>
      "add" \in missed[w] \/ \E c \in Callers : WillSignal(c, w)

(* No worker removes a request from an empty queue, or works on a request  *)
(* that is already deleted.                                                *)
WorkIsSound == ~broken => fault = "none"

(* Every request is taken by a worker, unless a worker sleeps through a    *)
(* signal it lost; then the next HttpD_Add that starts to signal while a   *)
(* worker sleeps sees to it that the request is taken.                     *)
InQueue(l) == \E i \in 1..Len(queue) : queue[i] = l
Asleep     == {w \in Linked : wpc[w] = "asleep"}
RequestsAreTaken ==
  []~broken => \A l \in Links :
    /\ InQueue(l) ~> ~InQueue(l) \/ \E w \in Asleep : "add" \in missed[w]
    /\ InQueue(l) /\ Asleep # {} /\ (\E c \in Callers : cpc[c] = "a_walk")
         ~> ~InQueue(l)

---------------------------------------------------------------------------
(* The pool implements WorkQueue until the mutex is reinitialised while    *)
(* held or destroyed; from then on WorkQueue is closed.                    *)
Queue == INSTANCE WorkQueue WITH
  Requests <- Links,
  None     <- NULL,
  open     <- ~broken,
  pending  <- IF broken THEN <<>> ELSE queue,
  serving  <- [w \in Workers |-> IF ~broken /\ Serving(w) THEN holds[w] ELSE NULL]
ImplementsWorkQueue == Queue!Spec
=============================================================================
