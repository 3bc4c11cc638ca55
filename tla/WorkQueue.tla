----------------------------- MODULE WorkQueue -----------------------------
(***************************************************************************)
(* What the pool of HTTP workers promises the listener: a request handed   *)
(* over is served by one worker, and requests are taken in the order in    *)
(* which they were handed over.  The promise holds while the queue is      *)
(* open; a closed queue forgets what it held.                              *)
(***************************************************************************)
EXTENDS Sequences

CONSTANTS Workers, Requests, None

VARIABLES open,     \* the queue works
          pending,  \* the requests nobody serves yet, oldest first
          serving   \* the request each worker serves, or None

vars == <<open, pending, serving>>

Init ==
  /\ open = TRUE
  /\ pending = <<>>
  /\ serving = [w \in Workers |-> None]

Put(r) ==
  /\ open /\ UNCHANGED <<open, serving>>
  /\ pending' = Append(pending, r)

Take(w) ==
  /\ open /\ UNCHANGED open
  /\ pending # <<>> /\ serving[w] = None
  /\ pending' = Tail(pending)
  /\ serving' = [serving EXCEPT ![w] = Head(pending)]

Finish(w) ==
  /\ open /\ UNCHANGED <<open, pending>>
  /\ serving[w] # None
  /\ serving' = [serving EXCEPT ![w] = None]

Close ==
  /\ open' = FALSE
  /\ pending' = <<>>
  /\ serving' = [w \in Workers |-> None]

Next == \/ \E r \in Requests : Put(r)
        \/ \E w \in Workers : Take(w) \/ Finish(w)
        \/ Close

Spec == Init /\ [][Next]_vars
=============================================================================
