------------------------------- MODULE Queue -------------------------------
(***************************************************************************)
(* The double-ended queue of src/lib/lib_queue.c over doubly linked nodes. *)
(* queue_pop_tail leaves head as it is when it frees the only node; the    *)
(* model goes no further once the node head then points to is read, and    *)
(* the last two properties say of which calls that comes.                  *)
(***************************************************************************)
EXTENDS Integers, Sequences, SequencesExt, FiniteSets

CONSTANTS
  QueueData,   (* the data pushed                                          *)
  QueueMax     (* a bound on the length of the queue                       *)

ASSUME QueueAssumption == QueueMax \in Nat \ {0}

Null == 0

VARIABLES
  head, tail,  (* this->head and this->tail: nodes                         *)
  dlist,       (* the nodes that exist: their data, next and prev          *)
  counter,     (* this->counter                                            *)
  deque,       (* what a queue would hold                                  *)
  misread,     (* 1 once a freed node was read                             *)
  ending       (* what queue_dtor has done: "leaks", "spins", or not yet   *)

queueVars == <<head, tail, dlist, counter, deque, misread, ending>>

QueueInit ==
  /\ head = Null /\ tail = Null /\ counter = 0
  /\ dlist = [n \in {} |-> 0]
  /\ deque = <<>>
  /\ misread = 0 /\ ending = "open"

Open     == misread = 0 /\ ending = "open"
Freed(n) == n # Null /\ n \notin DOMAIN dlist
Fresh    == CHOOSE n \in 1 .. QueueMax + 1 : n \notin DOMAIN dlist /\ n # head
Drop(D, n) == [m \in DOMAIN D \ {n} |-> D[m]]
Link(D, n, node) == [m \in DOMAIN D \cup {n} |-> IF m = n THEN node ELSE D[m]]

Misreads == /\ misread' = 1
            /\ UNCHANGED <<head, tail, dlist, counter, deque, ending>>

(* make_dlist, and the first node of the queue.                            *)
Alone(x) == [data |-> x, next |-> Null, prev |-> Null]
OnlyNode(x) == /\ dlist' = Link(dlist, Fresh, Alone(x))
               /\ head' = Fresh /\ tail' = Fresh

PushHead(x) ==
  /\ Open /\ counter < QueueMax
  /\ IF Freed(head) THEN Misreads
     ELSE /\ IF head = Null THEN OnlyNode(x)
             ELSE /\ dlist' = Link([dlist EXCEPT ![head].prev = Fresh],
                                   Fresh, [Alone(x) EXCEPT !.next = head])
                  /\ head' = Fresh
                  /\ UNCHANGED tail
          /\ counter' = counter + 1
          /\ deque' = <<x>> \o deque
          /\ UNCHANGED <<misread, ending>>

PushTail(x) ==
  /\ Open /\ counter < QueueMax
  /\ IF tail = Null THEN OnlyNode(x)
     ELSE /\ dlist' = Link([dlist EXCEPT ![tail].next = Fresh],
                           Fresh, [Alone(x) EXCEPT !.prev = tail])
          /\ tail' = Fresh
          /\ UNCHANGED head
  /\ counter' = counter + 1
  /\ deque' = Append(deque, x)
  /\ UNCHANGED <<misread, ending>>

(* Mutant: the new head keeps its prev.                                    *)
PopHeadKeepsPrev ==
  /\ Open /\ head # Null
  /\ IF Freed(head) THEN Misreads
     ELSE LET next == dlist[head].next IN
          /\ dlist' = Drop(dlist, head)
          /\ head' = next
          /\ tail' = IF next = Null THEN Null ELSE tail
          /\ counter' = counter - 1
          /\ deque' = Tail(deque)
          /\ UNCHANGED <<misread, ending>>

(* On an empty queue, head NULL, the pops only return NULL.                *)
PopHead ==
  /\ Open /\ head # Null
  /\ IF Freed(head) THEN Misreads
     ELSE LET next == dlist[head].next IN
          /\ dlist' = Drop(IF next = Null THEN dlist ELSE [dlist EXCEPT ![next].prev = Null],
                           head)
          /\ head' = next
          /\ tail' = IF next = Null THEN Null ELSE tail
          /\ counter' = counter - 1
          /\ deque' = Tail(deque)
          /\ UNCHANGED <<misread, ending>>

PopTail ==
  /\ Open /\ tail # Null
  /\ LET prev == dlist[tail].prev IN
       /\ dlist' = Drop(IF prev = Null THEN dlist ELSE [dlist EXCEPT ![prev].next = Null],
                        tail)
       /\ tail' = prev
  /\ counter' = counter - 1
  /\ deque' = Front(deque)
  /\ UNCHANGED <<head, misread, ending>>

(* queue_peek_head; queue_peek_tail reads a node that exists.              *)
PeekHead == Open /\ Freed(head) /\ Misreads

(* queue_is_empty says the opposite: the loop of queue_dtor pops nothing   *)
(* from a queue that holds something, and pops an empty one for ever.      *)
QueueIsEmpty == 0 < counter
QueueDtor ==
  /\ Open
  /\ IF QueueIsEmpty
       THEN ending' = "leaks" /\ UNCHANGED misread
       ELSE IF Freed(head) THEN misread' = 1 /\ UNCHANGED ending
       ELSE ending' = "spins" /\ UNCHANGED misread
  /\ UNCHANGED <<head, tail, dlist, counter, deque>>

QueueNext == \/ \E x \in QueueData : PushHead(x) \/ PushTail(x)
             \/ PopHead \/ PopTail \/ PeekHead \/ QueueDtor

QueueSpec == QueueInit /\ [][QueueNext]_queueVars

-----------------------------------------------------------------------------
(* The n-th node from the head along next, from the tail along prev.       *)
FromHead[n \in 1 .. QueueMax] ==
  IF n = 1 THEN head ELSE dlist[FromHead[n - 1]].next
FromTail[n \in 1 .. QueueMax] ==
  IF n = 1 THEN tail ELSE dlist[FromTail[n - 1]].prev

(* Both ways along the links the queue is the deque its calls make, and    *)
(* its counter the length; a freed node is read only when the one element  *)
(* left had gone by queue_pop_tail and nothing was pushed at the tail      *)
(* since (lib_queue.c:103-180).                                            *)
QueueIsDeque ==
  LET L == Len(deque) IN
    /\ counter = L
    /\ Cardinality(DOMAIN dlist) = L
    /\ \A i \in 1 .. L : /\ dlist[FromHead[i]].data = deque[i]
                         /\ dlist[FromTail[i]].data = deque[L + 1 - i]
    /\ L > 0 => /\ misread = 0
                /\ dlist[FromHead[L]].next = Null /\ dlist[FromTail[L]].prev = Null
    /\ L = 0 => tail = Null

(* What queue_test does and the queue does not stand: it empties the queue *)
(* with queue_pop_tail and goes on with queue_push_head and queue_pop_head *)
(* (lib_queue.c:26-48).  No call reads a freed node.                       *)
NeverMisreads == misread = 0
=============================================================================
