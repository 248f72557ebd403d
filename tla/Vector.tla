------------------------------- MODULE Vector -------------------------------
(***************************************************************************)
(* The growing array of src/lib/lib_vector.c.  "mem" is the memory of      *)
(* items, as long as it really is; a cell nobody has written holds Junk,   *)
(* and so does a cell filled from outside of the memory.  The model goes   *)
(* no further than a write outside of it, or the use of an index the code  *)
(* takes for another.                                                      *)
(***************************************************************************)
EXTENDS Integers, Sequences, SequencesExt, FiniteSets

CONSTANTS
  Elems,      (* the elements, positive integers                           *)
  InitSize,   (* init_size: a positive one, or VECTOR_INIT_SIZE            *)
  ItemSize,   (* item_size in bytes                                        *)
  VectorMax   (* a bound on the length of the vector                       *)

ASSUME VectorAssumption ==
  Elems \subseteq Int /\ {InitSize, ItemSize, VectorMax} \subseteq Nat \ {0}

Junk == 0

VARIABLES
  items,      (* the memory: items[i + 1] is VECTOR_INDEX(i)               *)
  itemsNum,   (* items_num                                                 *)
  allocNum,   (* items_alloc_num                                           *)
  list,       (* the elements a vector would hold                          *)
  out, due,   (* what pop or shift returned last, and should have returned *)
  skewed,     (* 1 once an index was used that the code does not support   *)
  emptied,    (* 1 since vector_remove_all, until the vector grows         *)
  overrun     (* 1 once a cell outside of the memory was written           *)

vectorVars == <<items, itemsNum, allocNum, list, out, due, skewed, emptied, overrun>>

Cells0(n) == [i \in 1 .. n |-> Junk]

VectorInit ==
  /\ items = Cells0(InitSize) /\ itemsNum = 0 /\ allocNum = InitSize
  /\ list = <<>>
  /\ out = Junk /\ due = Junk
  /\ skewed = 0 /\ emptied = 0 /\ overrun = 0

At(M, i) == IF i \in 1 .. Len(M) THEN M[i] ELSE Junk

(* realloc: what is beyond the old memory is not written.                  *)
Realloc(M, n) == [i \in 1 .. n |-> At(M, i)]

(* VECTOR_HASSPACE and vector_grow(v, size): the memory and its number of  *)
(* items.                                                                  *)
HasSpace   == itemsNum + 1 <= allocNum
Grown(size) == LET n == IF size > allocNum THEN size ELSE 2 * allocNum
               IN  IF HasSpace THEN [mem |-> items, num |-> allocNum]
                   ELSE [mem |-> Realloc(items, n), num |-> n]

(* memmove of n cells from the s-th to the d-th.                           *)
Moved(M, d, s, n) == [i \in 1 .. Len(M) |->
                       IF i \in d .. d + n - 1 THEN At(M, i - d + s) ELSE M[i]]

Sane == overrun = 0 /\ skewed = 0

(* An operation that leaves the memory M with n elements; it has written   *)
(* cells up to the w-th one.                                               *)
Writes(G, M, n, w) ==
  /\ items' = M /\ itemsNum' = n /\ allocNum' = G.num
  /\ overrun' = IF w <= Len(M) THEN 0 ELSE 1
  /\ emptied' = IF G.num > allocNum THEN 0 ELSE emptied

(* vector_push: vector_insert at -1.                                       *)
Push(e) ==
  /\ Sane /\ itemsNum < VectorMax
  /\ LET G == Grown(0)
         w == itemsNum + 1
     IN  Writes(G, [i \in 1 .. Len(G.mem) |-> IF i = w THEN e ELSE G.mem[i]], w, w)
  /\ UNCHANGED <<out, due, skewed>>
  /\ list' = Append(list, e)

(* vector_insert at an index within the bounds, which it overwrites.       *)
Overwrite(e, index) ==
  /\ Sane /\ index \in 0 .. itemsNum - 1
  /\ items' = [items EXCEPT ![index + 1] = e]
  /\ UNCHANGED <<itemsNum, allocNum, out, due, skewed, emptied, overrun>>
  /\ list' = [list EXCEPT ![index + 1] = e]

(* Mutant: the cells from index on are not moved away.                     *)
InsertAtUnmoved(e, index) ==
  /\ Sane /\ itemsNum < VectorMax
  /\ LET G == Grown(0)
         n == itemsNum + 1
         put == [i \in 1 .. Len(G.mem) |->
                  IF i = index + 1 /\ index < n THEN e ELSE G.mem[i]]
     IN  Writes(G, put, n, IF index < n THEN n ELSE 0)
  /\ skewed' = IF index > itemsNum THEN 1 ELSE 0
  /\ list' = IF index > itemsNum THEN <<>> ELSE InsertAt(list, index + 1, e)
  /\ UNCHANGED <<out, due>>

(* vector_insert_at; beyond the end it counts a cell nobody writes.        *)
InsertAtIndex(e, index) ==
  /\ Sane /\ itemsNum < VectorMax
  /\ LET G == Grown(0)
         n == itemsNum + 1
         M == IF index < itemsNum
                THEN Moved(G.mem, index + 2, index + 1, itemsNum - index) ELSE G.mem
         put == [i \in 1 .. Len(M) |-> IF i = index + 1 /\ index < n THEN e ELSE M[i]]
     IN  Writes(G, put, n, IF index < n THEN n ELSE 0)
  /\ skewed' = IF index > itemsNum THEN 1 ELSE 0
  /\ list' = IF index > itemsNum THEN <<>> ELSE InsertAt(list, index + 1, e)
  /\ UNCHANGED <<out, due>>

(* vector_unshift grows by one cell only, if it does.                      *)
Unshift(e) ==
  /\ Sane /\ itemsNum < VectorMax
  /\ LET G == Grown(itemsNum + 1)
         M == Moved(G.mem, 2, 1, itemsNum)
     IN  Writes(G, [i \in 1 .. Len(M) |-> IF i = 1 THEN e ELSE M[i]],
                itemsNum + 1, itemsNum + 1)
  /\ UNCHANGED <<out, due, skewed>>
  /\ list' = <<e>> \o list

Keeps == UNCHANGED <<allocNum, skewed, emptied, overrun>>

PopLast ==
  /\ Sane /\ itemsNum > 0
  /\ out' = At(items, itemsNum) /\ itemsNum' = itemsNum - 1
  /\ UNCHANGED items /\ Keeps
  /\ due' = Last(list)
  /\ list' = Front(list)

(* vector_shift moves as many cells as there are elements: of a full       *)
(* vector the last one comes from outside of the memory.                   *)
Shift ==
  /\ Sane /\ itemsNum > 0
  /\ out' = At(items, 1) /\ itemsNum' = itemsNum - 1
  /\ items' = Moved(items, 1, 2, itemsNum)
  /\ Keeps
  /\ due' = Head(list)
  /\ list' = Tail(list)

(* vector_remove moves one element only, and takes no index 0.             *)
RemoveIndex(index) ==
  /\ Sane /\ index \in 1 .. itemsNum - 1
  /\ items' = Moved(items, index + 1, index + 2, 1)
  /\ itemsNum' = itemsNum - 1
  /\ skewed' = IF index < itemsNum - 2 THEN 1 ELSE 0
  /\ list' = IF index < itemsNum - 2 THEN <<>> ELSE RemoveAt(list, index + 1)
  /\ UNCHANGED <<allocNum, out, due, emptied, overrun>>

(* vector_remove_all: realloc to items_alloc_num BYTES.                    *)
RemoveAll ==
  /\ Sane /\ itemsNum > 0
  /\ items' = Realloc(items, allocNum \div ItemSize)
  /\ itemsNum' = 0 /\ list' = <<>>
  /\ emptied' = 1
  /\ UNCHANGED <<allocNum, out, due, skewed, overrun>>

Transpose(i, j) ==
  /\ Sane /\ {i, j} \subseteq 1 .. itemsNum /\ i < j
  /\ items' = [items EXCEPT ![i] = items[j], ![j] = items[i]]
  /\ UNCHANGED <<itemsNum, out, due>> /\ Keeps
  /\ list' = [list EXCEPT ![i] = list[j], ![j] = list[i]]

(* vector_copy, after which the copy is used.                              *)
Copy ==
  /\ Sane /\ itemsNum > 0
  /\ items' = [i \in 1 .. allocNum |-> IF i <= itemsNum THEN At(items, i) ELSE Junk]
  /\ emptied' = 0
  /\ UNCHANGED <<itemsNum, allocNum, list, out, due, skewed, overrun>>

(* vector_cmp_all: the index of the greatest element, the first of equals. *)
CmpAll[n \in 1 .. VectorMax] ==
  IF n = 1 THEN 1 ELSE IF items[n] > items[CmpAll[n - 1]] THEN n ELSE CmpAll[n - 1]

VectorNext ==
  \/ \E e \in Elems :
       \/ Push(e) \/ Unshift(e)
       \/ \E i \in 0 .. VectorMax : Overwrite(e, i) \/ InsertAtIndex(e, i)
  \/ PopLast \/ Shift \/ RemoveAll \/ Copy
  \/ \E i \in 1 .. VectorMax : RemoveIndex(i)
  \/ \E i, j \in 1 .. VectorMax : Transpose(i, j)

VectorSpec == VectorInit /\ [][VectorNext]_vectorVars

-----------------------------------------------------------------------------
(* The vector holds the elements a list would after the same calls, in its *)
(* order, and pop and shift return the one they take, unless an element    *)
(* was inserted beyond the end or removed before the last two; nothing is  *)
(* written outside of the memory but after vector_remove_all               *)
(* (lib_vector.c:43-157).                                                  *)
VectorIsList ==
  /\ skewed = 0 /\ overrun = 0 =>
       /\ itemsNum = Len(list) /\ SubSeq(items, 1, itemsNum) = list
       /\ out = due
       /\ itemsNum > 0 => \A i \in 1 .. itemsNum : list[i] <= items[CmpAll[itemsNum]]
  /\ overrun = 1 => emptied = 1
=============================================================================
