---------------------------- MODULE MCThreading ----------------------------
(***************************************************************************)
(* The signalized puffer, the object pool and the barrier for TLC: one of  *)
(* them is used, the others stay as they were made.  They share no state,  *)
(* so the behaviours are those of each of them.                            *)
(***************************************************************************)
EXTENDS SignalPuffer, RecyclePuffer, Barrier

VARIABLE used

Parts == {"puffer", "pool", "barrier"}

Only(part, partVars) == used # part => UNCHANGED partVars

ThreadingInit == used \in Parts /\ Init /\ PoolInit /\ BarrierInit

ThreadingNext ==
  /\ UNCHANGED used
  /\ \/ used = "puffer" /\ Next
     \/ used = "pool" /\ PoolNext
     \/ used = "barrier" /\ BarrierNext
  /\ Only("puffer", vars) /\ Only("pool", poolVars) /\ Only("barrier", barrierVars)

(* Fairness of the part in use.  Nobody has to call the pool or wait at    *)
(* the barrier, so only the consumers need to be told: they call again.    *)
PufferFairness ==
  /\ \A p \in Producers : WF_vars(used = "puffer" /\ Recv(p))
  /\ \A c \in Consumers : WF_vars(used = "puffer" /\ (Supply(c) \/ SupplyCall(c)))

ThreadingSpec ==
  /\ ThreadingInit /\ [][ThreadingNext]_<<used, vars, poolVars, barrierVars>>
  /\ PufferFairness /\ PoolFairness /\ BarrierFairness
=============================================================================
