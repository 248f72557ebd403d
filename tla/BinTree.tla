------------------------------- MODULE BinTree -------------------------------
(***************************************************************************)
(* The binary tree of src/lib/lib_bintree.c: values with a reference count *)
(* each, with pointers to the greatest and to the least node that are      *)
(* repaired when their node goes.  A tree is a record; "node" is the part  *)
(* of the memory its nodes are in, so a pointer outside of DOMAIN node is  *)
(* dangling.  What the recycle puffer keeps is free memory.                *)
(*                                                                         *)
(* The comparison reads what the data pointers point to at the moment of   *)
(* the call: the operators take it as the function val.                    *)
(***************************************************************************)
EXTENDS Integers, FiniteSets, FiniteSetsExt

NIL == 0

(* make_bintree; top, bottom and root are nodes, nodes and dups the two    *)
(* counters.                                                               *)
EmptyTree == [root |-> NIL, top |-> NIL, bottom |-> NIL, nodes |-> 0, dups |-> 0,
              node |-> [n \in {} |-> 0]]

Left(T, n)  == T.node[n].left
Right(T, n) == T.node[n].right

(* _get_rightest_value and _get_leftest_value: the way along the pointers, *)
(* as far as it goes.                                                      *)
Rightest(T, n) ==
  LET way[m \in Nat] == IF m \notin DOMAIN T.node THEN m
                        ELSE IF Right(T, m) = NIL THEN m
                        ELSE way[Right(T, m)]
  IN  way[n]
Leftest(T, n) ==
  LET way[m \in Nat] == IF m \notin DOMAIN T.node THEN m
                        ELSE IF Left(T, m) = NIL THEN m
                        ELSE way[Left(T, m)]
  IN  way[n]

(* _search_value: the node of the value or NIL, and the last one before it. *)
Search(T, val, d) ==
  LET way[s \in Nat \X Nat] ==
        IF s[1] \notin DOMAIN T.node THEN s
        ELSE IF val[T.node[s[1]].data] = val[d] THEN s
        ELSE way[<<IF val[d] < val[T.node[s[1]].data] THEN Left(T, s[1]) ELSE Right(T, s[1]), s[1]>>]
  IN  way[<<T.root, NIL>>]

RefreshTop(T) ==
  [T EXCEPT !.top = Rightest(T, IF Left(T, @) # NIL THEN Left(T, @) ELSE T.root)]
RefreshBottom(T) ==
  [T EXCEPT !.bottom = Leftest(T, IF Right(T, @) # NIL THEN Right(T, @) ELSE T.root)]

(* What _trash_bintreenode and _pop_from_tree do for top and bottom.       *)
Repair(T, n) ==
  LET U == IF n = T.top THEN RefreshTop(T) ELSE T
  IN  IF n = U.bottom THEN RefreshBottom(U) ELSE U

(* The node leaves the tree's memory: trashed, or given to the caller.     *)
Release(T, n) == [T EXCEPT !.node = [m \in DOMAIN @ \ {n} |-> @[m]]]
Trash(T, n)   == Release(Repair(T, n), n)

(* The pointer to n, from its parent or from the root, becomes m.          *)
Relink(T, n, parent, m) ==
  IF parent = NIL THEN [T EXCEPT !.root = m]
  ELSE IF Left(T, parent) = n THEN [T EXCEPT !.node[parent].left = m]
  ELSE [T EXCEPT !.node[parent].right = m]

(* Mutant: the tree does not count the duplicate.                          *)
MergeUncounted(T, n, d, ref) == [T EXCEPT !.node[n].ref = @ + ref, !.node[n].data = d]

(* A value the tree has goes into its node: the references are added up,   *)
(* but dups grows by one only.                                             *)
Merge(T, n, d, ref) ==
  [T EXCEPT !.dups = @ + 1, !.node[n].ref = @ + ref, !.node[n].data = d]

(* The memory the puffer gives, and the tree with this node as the leaf of *)
(* a value that the search has missed below p.                             *)
NewNode(T) == CHOOSE n \in 1 .. Cardinality(DOMAIN T.node) + 1 : n \notin DOMAIN T.node

WithLeaf(T, val, d, ref, p, new) ==
  LET leaf == [data |-> d, left |-> NIL, right |-> NIL, ref |-> ref]
      grown == [T EXCEPT !.nodes = @ + 1,
                         !.node = [m \in DOMAIN @ \cup {new} |-> IF m = new THEN leaf ELSE @[m]]]
  IN  IF p = NIL THEN [grown EXCEPT !.root = new]
      ELSE IF val[T.node[p].data] < val[d]
        THEN [grown EXCEPT !.node[p].right = new]
        ELSE [grown EXCEPT !.node[p].left = new]

(* What _insert does for top and bottom with the node n of d.              *)
EndsMoved(T, val, d, n) ==
  IF T.nodes = 1 THEN [T EXCEPT !.top = n, !.bottom = n]
  ELSE IF val[T.node[T.top].data] < val[d] THEN [T EXCEPT !.top = n]
  ELSE IF val[d] < val[T.node[T.bottom].data] THEN [T EXCEPT !.bottom = n]
  ELSE T

(* _insert, with _insert_into_tree.                                        *)
Insert(T, val, d, ref) ==
  LET s == Search(T, val, d)
      new == NewNode(T)
  IN  IF s[1] = NIL THEN EndsMoved(WithLeaf(T, val, d, ref, s[2], new), val, d, new)
      ELSE EndsMoved(Merge(T, s[1], d, ref), val, d, s[1])

(* The child that takes the place of a node which has one or none.         *)
Child(T, n)   == IF Left(T, n) = NIL THEN Right(T, n) ELSE Left(T, n)
HasBoth(T, n) == Left(T, n) # NIL /\ Right(T, n) # NIL

(* _pop_from_tree of such a node, with all its references.                 *)
Unhook(T, val, d) ==
  LET s == Search(T, val, d)
      n == s[1]
      cut == [Relink(T, n, s[2], Child(T, n)) EXCEPT
                !.nodes = @ - 1, !.dups = @ - (T.node[n].ref - 1),
                !.node[n].left = NIL, !.node[n].right = NIL]
  IN  [tree |-> Trash(cut, n), data |-> T.node[n].data, ref |-> T.node[n].ref]

(* A node with two children keeps its place and takes over the greatest    *)
(* value of its left side, whose node is popped instead (it has no right   *)
(* child); dups loses what THAT one had.                                   *)
Replace(T, val, n) ==
  LET P == Unhook(T, val, T.node[Rightest(T, Left(T, n))].data)
  IN  [P.tree EXCEPT !.node[n].data = P.data, !.node[n].ref = P.ref]

(* _pop_from_tree: the data and the references popped, and the tree left.  *)
Pop(T, val, d) ==
  LET n == Search(T, val, d)[1] IN
  IF n = NIL THEN [tree |-> T, data |-> NIL, ref |-> 0]
  ELSE IF ~HasBoth(T, n) THEN Unhook(T, val, d)
  ELSE [tree |-> Replace(T, val, n), data |-> T.node[n].data, ref |-> T.node[n].ref]

(* _deref_from_tree: one reference of the value; its node goes with the    *)
(* last one.                                                               *)
Deref(T, val, d) ==
  LET s == Search(T, val, d)
      n == s[1]
      cut == [Relink(T, n, s[2], Child(T, n)) EXCEPT !.nodes = @ - 1]
  IN  IF n = NIL THEN T
      ELSE IF T.node[n].ref > 1 THEN [T EXCEPT !.node[n].ref = @ - 1, !.dups = @ - 1]
      ELSE IF ~HasBoth(T, n) THEN Trash(cut, n)
      ELSE Replace(T, val, n)

(* bintree_reset: the nodes are trashed, root is NULL, nodes is 0; top and *)
(* bottom still point to the last node trashed, and dups is as it was.     *)
Reset(T) == [T EXCEPT !.root = NIL, !.nodes = 0, !.node = [n \in {} |-> 0]]

Refnum(T) == T.nodes + T.dups
TopData(T) == IF T.top = NIL THEN NIL ELSE T.node[T.top].data
BottomData(T) == IF T.bottom = NIL THEN NIL ELSE T.node[T.bottom].data

(* The nodes below n, n included: those in every set that has n and the    *)
(* children of its members.                                                *)
Below(T, n) ==
  LET closed == {M \in SUBSET DOMAIN T.node :
                   \A p \in M : {Left(T, p), Right(T, p)} \subseteq M \cup {NIL}}
  IN  IF n = NIL THEN {} ELSE {m \in DOMAIN T.node : \A M \in closed : n \in M => m \in M}

-----------------------------------------------------------------------------
(* A tree that is used through all of its operations.                      *)
CONSTANTS
  Keys,      (* the values, positive integers                              *)
  MaxRefs,   (* a bound on the references in the tree and in hand          *)
  MaxLag     (* a bound on how far the counter dups falls below 0          *)

ASSUME KeysAssumption == IsFiniteSet(Keys) /\ Keys \subseteq Nat \ {NIL}

VARIABLES
  tree,
  hand,     (* the node the caller popped and has not inserted again       *)
  bag,      (* bag[k]: the references of k that are in the tree            *)
  inexact   (* 1 once an operation has got dups wrong                      *)

treeVars == <<tree, hand, bag, inexact>>

NoNode == [data |-> NIL, ref |-> 0]

TreeInit == /\ tree = EmptyTree
            /\ hand = NoNode
            /\ bag = [k \in Keys |-> 0]
            /\ inexact = 0

Id == [k \in Keys |-> k]

(* The sum of f over the keys.                                             *)
Refs(f) ==
  LET last == Max(Keys \cup {0})
      sum[k \in 0 .. last] == IF k = 0 THEN 0 ELSE sum[k - 1] + IF k \in Keys THEN f[k] ELSE 0
  IN  sum[last]
alone == 0

(* The references of the node that takes the place of d's node when that   *)
(* one goes, or "alone" when it has no two children and none does.         *)
Heir(T, d) ==
  LET n == Search(T, Id, d)[1] IN
    IF n = NIL THEN alone
    ELSE IF ~HasBoth(T, n) THEN alone
    ELSE T.node[Rightest(T, Left(T, n))].ref

(* dups drifts without an end; the bound MaxLag cuts that off.             *)
Becomes(T, wrong) ==
  /\ -MaxLag <= T.dups /\ T.dups < MaxRefs
  /\ tree' = T
  /\ inexact' = IF wrong THEN 1 ELSE inexact

InsertData(k) ==
  /\ Refs(bag) + hand.ref < MaxRefs
  /\ Becomes(Insert(tree, Id, k, 1), FALSE)
  /\ bag' = [bag EXCEPT ![k] = @ + 1]
  /\ UNCHANGED hand

(* One reference of k goes: bintree_delete_value, and what                 *)
(* bintree_pop_top_data and bintree_pop_bottom_data do with theirs.        *)
Dereference(k, d) ==
  /\ Becomes(Deref(tree, Id, d), bag[k] = 1 /\ Heir(tree, d) > 1)
  /\ bag' = [bag EXCEPT ![k] = @ - 1]
  /\ UNCHANGED hand

DeleteValue(k) == bag[k] > 0 /\ Dereference(k, k)

PopTopData ==
  /\ tree.nodes > 0
  /\ Dereference(Max({k \in Keys : bag[k] > 0}), TopData(tree))

PopBottomData ==
  /\ tree.nodes > 0
  /\ Dereference(Min({k \in Keys : bag[k] > 0}), BottomData(tree))

(* bintree_pop_node (or one of its two relatives) and bintree_insert_node. *)
PopNode(k) ==
  /\ hand = NoNode /\ bag[k] > 0
  /\ LET P == Pop(tree, Id, k) IN
       /\ Becomes(P.tree, Heir(tree, k) \notin {alone, bag[k]})
       /\ hand' = [data |-> P.data, ref |-> P.ref]
  /\ bag' = [bag EXCEPT ![k] = 0]

InsertNode ==
  /\ hand # NoNode
  /\ Becomes(Insert(tree, Id, hand.data, hand.ref), hand.ref > 1)
  /\ bag' = [bag EXCEPT ![hand.data] = @ + hand.ref]
  /\ hand' = NoNode

ResetTree ==
  /\ tree.nodes > 0
  /\ Becomes(Reset(tree), tree.dups # 0)
  /\ bag' = [k \in Keys |-> 0]
  /\ UNCHANGED hand

TreeNext == \/ \E k \in Keys : InsertData(k) \/ DeleteValue(k) \/ PopNode(k)
            \/ PopTopData \/ PopBottomData \/ InsertNode \/ ResetTree

TreeSpec == TreeInit /\ [][TreeNext]_treeVars

-----------------------------------------------------------------------------
(* The tree is the bag: it is ordered, each value with references has one  *)
(* node that counts them, no other node exists, nodes counts the nodes,    *)
(* and top and bottom are the greatest and the least, however nodes were   *)
(* replaced by others before (lib_bintree.c:367,419,504).                  *)
TreeIsBag ==
  LET N == Below(tree, tree.root)
      data(n) == tree.node[n].data
  IN  /\ N = DOMAIN tree.node /\ tree.root \in N \cup {NIL}
      /\ \A n \in N : /\ {Left(tree, n), Right(tree, n)} \subseteq N \cup {NIL}
                      /\ \A m \in Below(tree, Left(tree, n)) : data(m) < data(n)
                      /\ \A m \in Below(tree, Right(tree, n)) : data(n) < data(m)
                      /\ tree.node[n].ref = bag[data(n)]
      /\ {data(n) : n \in N} = {k \in Keys : bag[k] > 0}
      /\ tree.nodes = Cardinality(N)
      /\ N # {} => /\ tree.top \in N /\ \A n \in N : data(n) <= data(tree.top)
                   /\ tree.bottom \in N /\ \A n \in N : data(tree.bottom) <= data(n)

(* bintree_get_refnum is the number of references, as long as no node was  *)
(* inserted that has several, none with several took over the place of one *)
(* that went, and the tree had no duplicates when it was reset             *)
(* (lib_bintree.c:316,355,414,145).                                        *)
RefnumExact == inexact = 0 => Refnum(tree) = Refs(bag)

(* Both: the tree as a bag, and the number of references it reports.       *)
TreeCountsBag == TreeIsBag /\ RefnumExact
=============================================================================
