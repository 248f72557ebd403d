---------------------------- MODULE RoundBarrier ----------------------------
(***************************************************************************)
(* What barrier_wait promises a team of threads: nobody returns from its   *)
(* n-th wait before everybody has begun its n-th, and once everybody has,  *)
(* everybody returns.                                                      *)
(***************************************************************************)
EXTENDS Naturals

CONSTANTS Team, Rounds

VARIABLES
  arrived,   (* arrived[t]: how many waits t has begun                     *)
  passed     (* passed[t]: how many of them have let t through             *)

vars == <<arrived, passed>>

Init == /\ arrived = [t \in Team |-> 0]
        /\ passed = [t \in Team |-> 0]

Arrive(t) == /\ arrived[t] = passed[t]
             /\ arrived[t] < Rounds
             /\ arrived' = [arrived EXCEPT ![t] = @ + 1]
             /\ UNCHANGED passed

Pass(t) == /\ passed[t] < arrived[t]
           /\ \A u \in Team : passed[t] < arrived[u]
           /\ passed' = [passed EXCEPT ![t] = @ + 1]
           /\ UNCHANGED arrived

(* The last one to arrive passes at once.                                  *)
ArriveAndPass(t) == /\ arrived[t] = passed[t]
                    /\ arrived[t] < Rounds
                    /\ \A u \in Team \ {t} : passed[t] < arrived[u]
                    /\ arrived' = [arrived EXCEPT ![t] = @ + 1]
                    /\ passed' = [passed EXCEPT ![t] = @ + 1]

Next == \E t \in Team : Arrive(t) \/ Pass(t) \/ ArriveAndPass(t)

Spec == Init /\ [][Next]_vars

FairSpec == Spec /\ \A t \in Team : WF_vars(Pass(t))
=============================================================================
