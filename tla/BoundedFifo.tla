---------------------------- MODULE BoundedFifo ----------------------------
(***************************************************************************)
(* What a signalized puffer promises (docs/components.md: it "send[s] data *)
(* from one thread to another and collects data in between", up to a given *)
(* number of items): a first-in first-out channel of bounded capacity.  A  *)
(* sender that has offered an item is blocked until there is room, a       *)
(* receiver that has asked for one until there is one.                     *)
(***************************************************************************)
EXTENDS Naturals, Sequences

CONSTANTS Senders, Receivers, Capacity, Values, None

VARIABLES
  queue,     (* the items in between, oldest first                         *)
  offer,     (* offer[s]: the item s is about to hand over, or None        *)
  delivered  (* delivered[r]: the item r received last, None once r asks   *)
             (* for the next one                                           *)

vars == <<queue, offer, delivered>>

Init == /\ queue = <<>>
        /\ offer = [s \in Senders |-> None]
        /\ delivered = [r \in Receivers |-> None]

Offer(s, v) == /\ offer[s] = None
               /\ offer' = [offer EXCEPT ![s] = v]
               /\ UNCHANGED <<queue, delivered>>

Put(s) == /\ offer[s] # None
          /\ Len(queue) < Capacity
          /\ queue' = Append(queue, offer[s])
          /\ offer' = [offer EXCEPT ![s] = None]
          /\ UNCHANGED delivered

Ask(r) == /\ delivered[r] # None
          /\ delivered' = [delivered EXCEPT ![r] = None]
          /\ UNCHANGED <<queue, offer>>

Take(r) == /\ delivered[r] = None
           /\ queue # <<>>
           /\ delivered' = [delivered EXCEPT ![r] = Head(queue)]
           /\ queue' = Tail(queue)
           /\ UNCHANGED offer

Next == \/ \E s \in Senders : Put(s) \/ \E v \in Values : Offer(s, v)
        \/ \E r \in Receivers : Ask(r) \/ Take(r)

Spec == Init /\ [][Next]_vars

(* Nobody who could move is kept waiting: an offered item is put once      *)
(* there is room for it, a waiting receiver gets an item once there is one.*)
FairSpec == /\ Spec
            /\ \A s \in Senders : WF_vars(Put(s))
            /\ \A r \in Receivers : WF_vars(Take(r))
=============================================================================
