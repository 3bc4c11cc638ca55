------------------------------ MODULE MCMySQL ------------------------------
(* Instances of MySQL for TLC.                                             *)
EXTENDS MySQL, TLC

Symmetry == Permutations(Fast) \cup Permutations(Slow) \cup Permutations(Clients)
            \cup Permutations(Jobs)

Started(S) == {w \in S : wpc[w] # "unstarted"}
Busy       == {c \in Clients : cpc[c] # "idle"}

(* The bounds of the safety run, which takes two servers together: one     *)
(* with a fast and a slow worker and all clients, one with all its workers *)
(* fast and one client at a time.  One slow query is under way at a time.  *)
TwoServers ==
  /\ Orderly
  /\ Cardinality({j \in jobs : ~IsFast(j)}) <= 1
  /\ \/ Cardinality(Started(Fast)) = 1 /\ Started(Slow) = Slow
     \/ Started(Fast) = Fast /\ Started(Slow) = {} /\ Cardinality(Busy) <= 1
     \/ Started(Workers) = {}

(* All but missed, which no guard and none of the run's invariants reads.  *)
View == <<fastMtx, init, reg, cleared, onClose, queue, wpc, run, got, res, rows, jobs,
          kind, answer, cpc, mine, at, cursor, mpc, closing, joining, crash, unheard,
          dropped, early, raced, broken>>
=============================================================================
