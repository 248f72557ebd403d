-------------------------------- MODULE Heap --------------------------------
(***************************************************************************)
(* The heap of src/lib/lib_heap.c: the greatest element first, in an array *)
(* that doubles and halves.  The i-th cell, counted from 0, is data[i + 1]. *)
(* _heap_pop of an empty heap and _heapify of a single element read        *)
(* data[UINT_MAX]; the model goes no further then.                         *)
(***************************************************************************)
EXTENDS Integers, Sequences, FiniteSets

CONSTANTS
  HeapItems,   (* the integers pushed                                      *)
  BaseSize,    (* base_size                                                *)
  HeapMax      (* a bound on the elements in the heap                      *)

ASSUME HeapAssumption ==
  HeapItems \subseteq Int /\ BaseSize \in Nat \ {0} /\ HeapMax \in Nat

VARIABLES
  data,    (* the first count cells of h->data                             *)
  size,    (* h->size                                                      *)
  pushed,  (* pushed[v]: how many v there are                              *)
  strayed  (* the call that read outside of the array, or "none"           *)

heapVars == <<data, size, pushed, strayed>>

HeapInit == /\ data = <<>>
            /\ size = BaseSize
            /\ pushed = [v \in HeapItems |-> 0]
            /\ strayed = "none"

count == Len(data)
Put(D, i, v) == [D EXCEPT ![i + 1] = v]
Cell(D, i) == D[i + 1]
Above(i) == (i - 1) \div 2     (* parent                                  *)

(* One turn of the loop of _heap_push: a parent less than the value comes  *)
(* down, and index goes up to where it was.                                *)
Rises(s, value) ==
  LET parent == Above(s.index) IN
    IF s.index = 0 \/ Cell(s.cells, parent) >= value THEN s
    ELSE [cells |-> Put(s.cells, s.index, Cell(s.cells, parent)), index |-> parent]

(* The loop, which ends after Len(D) turns at the latest.                  *)
SiftUp(D, index, value) ==
  LET turn[n \in 0 .. Len(D)] ==
        IF n = 0 THEN [cells |-> D, index |-> index] ELSE Rises(turn[n - 1], value)
      last == turn[Len(D)]
  IN  Put(last.cells, last.index, value)

(* Mutant: the left child is the one to swap with.                         *)
GreaterChildLeft(D, index) == 2 * index + 1

(* The child to swap with, Len(D) or more when there is none.              *)
GreaterChild(D, index) ==
  LET swap == 2 * index + 1 IN
    IF swap + 1 < Len(D) /\ Cell(D, swap + 1) >= Cell(D, swap) THEN swap + 1 ELSE swap

(* The same for the loop of _heap_pop and the inner one of _heapify.       *)
Sinks(s, temp) ==
  LET swap == GreaterChild(s.cells, s.index) IN
    IF swap >= Len(s.cells) \/ temp >= Cell(s.cells, swap) THEN s
    ELSE [cells |-> Put(s.cells, s.index, Cell(s.cells, swap)), index |-> swap]

SiftDown(D, index, temp) ==
  LET turn[n \in 0 .. Len(D)] ==
        IF n = 0 THEN [cells |-> D, index |-> index] ELSE Sinks(turn[n - 1], temp)
      last == turn[Len(D)]
  IN  Put(last.cells, last.index, temp)

Strays(call) == strayed' = call /\ UNCHANGED <<data, size, pushed>>

HeapPush(v) ==
  /\ strayed = "none" /\ count < HeapMax
  /\ size' = IF count = size THEN 2 * size ELSE size
  /\ data' = SiftUp(Append(data, v), count, v)
  /\ pushed' = [pushed EXCEPT ![v] = @ + 1]
  /\ UNCHANGED strayed

(* Of the last element nothing is left; of an empty heap --count is        *)
(* UINT_MAX.                                                               *)
HeapPop ==
  /\ strayed = "none"
  /\ \/ count = 0 /\ Strays("_heap_pop")
     \/ /\ count > 0
        /\ LET left == count - 1 IN
             /\ size' = IF left <= size \div 4 /\ size > BaseSize THEN size \div 2 ELSE size
             /\ data' = IF left = 0 THEN <<>>
                        ELSE SiftDown(SubSeq(data, 1, left), 0, data[count])
        /\ pushed' = [pushed EXCEPT ![data[1]] = @ - 1]
        /\ UNCHANGED strayed

(* _heapify: every element that has a child, from the last one to the      *)
(* first.                                                                  *)
HeapifyFrom(D, item) ==
  LET done[n \in 0 .. item + 1] ==
        IF n = 0 THEN D
        ELSE SiftDown(done[n - 1], item + 1 - n, Cell(done[n - 1], item + 1 - n))
  IN  done[item + 1]

(* A heap that is made of the array, in memory with room for it.  Of an    *)
(* array of one the last element with a child is (1 >> 1) - 1, UINT_MAX.   *)
Heapify(D) ==
  /\ strayed = "none" /\ data = <<>> /\ Len(D) <= 2 * size
  /\ \/ Len(D) = 1 /\ Strays("_heapify")
     \/ /\ Len(D) > 1
        /\ data' = HeapifyFrom(D, Len(D) \div 2 - 1)
        /\ pushed' = [v \in HeapItems |-> Cardinality({i \in 1 .. Len(D) : D[i] = v})]
        /\ size' = IF Len(D) > size THEN 2 * size ELSE size
        /\ UNCHANGED strayed

HeapNext == \/ \E v \in HeapItems : HeapPush(v)
            \/ HeapPop
            \/ \E n \in 1 .. HeapMax : \E D \in [1 .. n -> HeapItems] : Heapify(D)

HeapSpec == HeapInit /\ [][HeapNext]_heapVars

-----------------------------------------------------------------------------
(* However it grew, shrank and was made, the heap holds what was pushed    *)
(* and not popped, its memory has room for that, and no element is greater *)
(* than its parent, so heap_front is the greatest.  Two calls leave the    *)
(* array, both on an empty heap: the pop, and _heapify of one element,     *)
(* although it is said to take any array but the empty one                 *)
(* (lib_heap.c:23-104, comment at :76).                                    *)
HeapIsBag ==
  /\ \A v \in HeapItems : pushed[v] = Cardinality({i \in 1 .. count : data[i] = v})
  /\ \A i \in 1 .. count - 1 : Cell(data, i) <= Cell(data, Above(i))
  /\ BaseSize <= size /\ count <= size
  /\ strayed # "none" => count = 0
=============================================================================
