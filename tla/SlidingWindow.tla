---------------------------- MODULE SlidingWindow ----------------------------
(***************************************************************************)
(* The sliding window of integers of src/lib/lib_puffers.c with the        *)
(* plugins of src/lib/lib_swplugins.c: minimum and maximum, sum and        *)
(* percentile.  The window copies each value into the next cell of a ring  *)
(* of num_limit + 1 cells and passes the POINTER to the cell on to the     *)
(* plugins, whose trees keep it.                                           *)
(***************************************************************************)
EXTENDS BinTree, Sequences, SequencesExt

CONSTANTS
  Values,      (* the integers added                                       *)
  NumLimit,    (* num_limit                                                *)
  TimeLimit,   (* time_limit, in ticks; 0 for none                         *)
  Percentiles  (* what the percentile plugin is made with; 0 stands for a  *)
               (* window without this plugin                               *)

ASSUME WindowAssumption ==
  /\ Values \subseteq Int
  /\ NumLimit \in Nat \ {0} /\ TimeLimit \in Nat
  /\ Percentiles \subseteq {0} \cup 10 .. 90

Cells == 1 .. NumLimit + 1

VARIABLES
  window,   (* trackeditems: the cell and the age of each item             *)
  storage,  (* storage[c]: what is in the c-th cell                        *)
  nextCell, (* the storage's index                                         *)
  minmax,   (* the tree of the minmax plugin                               *)
  stat,     (* its stat: the cells of the minimum and of the maximum       *)
  sum,      (* the summer's sum                                            *)
  pct,      (* the percentile plugin's percentile, trees and counters      *)
  crash,    (* 1 once the percentile plugin has read through NULL, 2 once  *)
            (* slidingwindow_dtor has freed the address of a function      *)
  twice     (* 1 once a value was added that was in the window             *)

winVars == <<window, storage, nextCell, minmax, stat, sum, pct, crash, twice>>

(* _swpercentilepriv_ctor: how many values there must be.                  *)
Required(p) == IF p < 50 THEN 100 \div p ELSE 100 \div (100 - p)

NewPlugin(p) ==
  [p |-> p, mintree |-> EmptyTree, maxtree |-> EmptyTree, Mxc |-> 0, Mnc |-> 0]

WindowInit ==
  /\ window = <<>> /\ nextCell = 1
  /\ storage = [c \in Cells |-> 0]
  /\ minmax = EmptyTree
  /\ stat = [min |-> NIL, max |-> NIL]
  /\ sum = 0
  /\ \E p \in Percentiles : pct = NewPlugin(p)
  /\ crash = 0 /\ twice = 0

(* n times op, from x.                                                     *)
Times(n, op(_), x) == LET t[k \in 0 .. n] == IF k = 0 THEN x ELSE op(t[k - 1]) IN t[n]

-----------------------------------------------------------------------------
(* The percentile plugin.  Exceeds and FallsShort compare a/b with its     *)
(* ratio p/(100-p); a division by zero gives infinity.                     *)
Exceeds(P, a, b)    == b = 0 \/ a * (100 - P.p) > P.p * b
FallsShort(P, a, b) == b # 0 /\ a * (100 - P.p) < P.p * b

(* A value goes from one tree to the other.                                *)
LeastToMaxtree(P, v) ==
  LET d == BottomData(P.mintree)
  IN  [P EXCEPT !.mintree = Deref(@, v, d), !.maxtree = Insert(@, v, d, 1),
                !.Mnc = @ - 1, !.Mxc = @ + 1]
GreatestToMintree(P, v) ==
  LET d == TopData(P.maxtree)
  IN  [P EXCEPT !.mintree = Insert(@, v, d, 1), !.maxtree = Deref(@, v, d),
                !.Mnc = @ + 1, !.Mxc = @ - 1]

(* _swpercentile_balancer: its two loops, which take one value at a time   *)
(* and so have at most as many turns as there are values.                  *)
MinTurn(P, v) == IF P.Mnc < 1 \/ Exceeds(P, P.Mxc + 1, P.Mnc - 1) THEN P
                 ELSE LeastToMaxtree(P, v)
MaxTurn(P, v) == IF P.Mxc < 1 \/ FallsShort(P, P.Mxc - 1, P.Mnc + 1) THEN P
                 ELSE GreatestToMintree(P, v)
ReduceMin(P, v) == Times(P.Mnc, LAMBDA Q : MinTurn(Q, v), P)
ReduceMax(P, v) == Times(P.Mxc, LAMBDA Q : MaxTurn(Q, v), P)

Balanced(P, v) ==
  IF P.Mxc + P.Mnc < Required(P.p) THEN P
  ELSE IF P.Mnc = 0 \/ (P.Mxc # 0 /\ Exceeds(P, P.Mxc, P.Mnc)) THEN ReduceMax(P, v)
  ELSE ReduceMin(P, v)

(* Below the required number every value goes into maxtree, then where it  *)
(* belongs by the greatest of maxtree, which must not be empty.            *)
ToMaxtree(P, v, d) == \/ P.Mxc + P.Mnc < Required(P.p)
                      \/ v[d] <= v[TopData(P.maxtree)]
ReadsNull(P) == P.p # 0 /\ P.Mxc + P.Mnc >= Required(P.p) /\ TopData(P.maxtree) = NIL

PctAdd(P, v, d) ==
  IF P.p = 0 THEN P ELSE
  Balanced(IF ToMaxtree(P, v, d)
             THEN [P EXCEPT !.maxtree = Insert(@, v, d, 1), !.Mxc = @ + 1]
             ELSE [P EXCEPT !.mintree = Insert(@, v, d, 1), !.Mnc = @ + 1], v)

(* _swpercentile_rem_pipe: a reference of the value goes from BOTH trees;  *)
(* when too few are left, all of them go to maxtree.                       *)
AllToMaxtree(P, v) == Times(P.Mnc, LAMBDA Q : LeastToMaxtree(Q, v), P)

(* Mutant: the value goes from maxtree only.                               *)
PctRemMaxtree(P, v, d) ==
  LET mx == Deref(P.maxtree, v, d)
      Q == [P EXCEPT !.maxtree = mx, !.Mxc = Refnum(mx), !.Mnc = Refnum(P.mintree)]
  IN  IF P.p = 0 THEN P ELSE
      Balanced(IF Q.Mxc + Q.Mnc < Required(P.p) THEN AllToMaxtree(Q, v) ELSE Q, v)

PctRem(P, v, d) ==
  LET mx == Deref(P.maxtree, v, d)
      mn == Deref(P.mintree, v, d)
      Q == [P EXCEPT !.mintree = mn, !.maxtree = mx, !.Mnc = Refnum(mn), !.Mxc = Refnum(mx)]
  IN  IF P.p = 0 THEN P ELSE
      Balanced(IF Q.Mxc + Q.Mnc < Required(P.p) THEN AllToMaxtree(Q, v) ELSE Q, v)

(* _swpercentile_pipe: what the plugin reports after each of the two.      *)
Candidates(P) ==
  IF P.Mxc + P.Mnc < Required(P.p)
    THEN [processed |-> 0, left |-> NIL, right |-> NIL]
    ELSE [processed |-> 1,
          left  |-> IF FallsShort(P, P.Mxc, P.Mnc) THEN NIL ELSE TopData(P.maxtree),
          right |-> IF Exceeds(P, P.Mxc, P.Mnc) THEN NIL ELSE BottomData(P.mintree)]

-----------------------------------------------------------------------------
(* The pipes of the minmax and of the sum plugin.  Nobody reads dups of    *)
(* the minmax plugin's tree, which drifts (see TreeCountsBag).             *)
Uncounted(T) == [T EXCEPT !.dups = 0]
MinMaxAdd(T, v, d) == Uncounted(Insert(T, v, d, 1))
MinMaxRem(T, v, d) == Uncounted(Deref(T, v, d))
SumAdd(s, x) == s + x
SumRem(s, x) == s - x

(* _slidingwindow_rem: the first item leaves and passes to the plugins.    *)
WindowItems == [window |-> window, minmax |-> minmax, sum |-> sum, pct |-> pct]

Leaves(S) ==
  LET d == S.window[1].cell
  IN  [window |-> Tail(S.window),
       minmax |-> MinMaxRem(S.minmax, storage, d),
       sum    |-> SumRem(S.sum, storage[d]),
       pct    |-> PctRem(S.pct, storage, d)]

Without(n) == Times(n, Leaves, WindowItems)

(* slidingwindow_refresh: what is too old goes first, then what there is   *)
(* no room for.  The items that go are the first ones.                     *)
Outdated(w) == IF TimeLimit = 0 THEN 0
               ELSE Cardinality({i \in 1 .. Len(w) : \A j \in 1 .. i : w[j].age >= TimeLimit})

(* Mutant: the window takes one item more before it drops any.             *)
ObsoleteLate(w) == LET n == Outdated(w) IN
                     IF Len(w) - n > NumLimit THEN n + 1 ELSE n

Obsolete(w) == LET n == Outdated(w) IN
                 IF Len(w) - n = NumLimit THEN n + 1 ELSE n

StatOf(T) == [min |-> BottomData(T), max |-> TopData(T)]

Takes(w, T, s, P) == /\ window' = w /\ minmax' = T /\ stat' = StatOf(minmax')
                     /\ sum' = s /\ pct' = P

(* A window with the percentile plugin is followed until a value comes     *)
(* twice or the plugin reads through NULL.                                 *)
Goes == crash = 0 /\ (pct.p = 0 \/ twice = 0)

(* slidingwindow_add_int: refresh, store, and the add pipes.               *)
Stored(x) == [storage EXCEPT ![nextCell] = x]
Following(c) == (c % (NumLimit + 1)) + 1

AddInt(x) ==
  /\ Goes
  /\ \E S \in {Without(Obsolete(window))}, v \in {Stored(x)} :
       /\ twice' = IF \E i \in 1 .. Len(S.window) : storage[S.window[i].cell] = x
                     THEN 1 ELSE twice
       /\ IF ReadsNull(S.pct)
            THEN crash' = 1 /\ UNCHANGED <<window, storage, nextCell, minmax, stat, sum, pct>>
            ELSE /\ storage' = v
                 /\ nextCell' = Following(nextCell)
                 /\ Takes(Append(S.window, [cell |-> nextCell, age |-> 0]),
                          MinMaxAdd(S.minmax, v, nextCell),
                          SumAdd(S.sum, x),
                          PctAdd(S.pct, v, nextCell))
                 /\ UNCHANGED crash

(* slidingwindow_refresh and slidingwindow_clear.                          *)
Drops(n) ==
  /\ Goes /\ n > 0
  /\ \E S \in {Without(n)} : Takes(S.window, S.minmax, S.sum, S.pct)
  /\ UNCHANGED <<storage, nextCell, crash, twice>>
RefreshWindow == Drops(Obsolete(window))
ClearWindow   == Drops(Len(window))

(* Time passes.                                                            *)
Tick ==
  /\ Goes
  /\ \E i \in 1 .. Len(window) : window[i].age < TimeLimit
  /\ window' = [i \in 1 .. Len(window) |->
                 [window[i] EXCEPT !.age = IF @ < TimeLimit THEN @ + 1 ELSE @]]
  /\ UNCHANGED <<storage, nextCell, minmax, stat, sum, pct, crash, twice>>

(* slidingwindow_dtor: swstorage_disposer frees the storage's function     *)
(* pointer, which no allocation returned.  Nothing of the window is left.  *)
WindowDtor ==
  /\ Goes
  /\ crash' = 2
  /\ nextCell' = 1 /\ storage' = [c \in Cells |-> 0]
  /\ Takes(<<>>, EmptyTree, 0, NewPlugin(0))
  /\ UNCHANGED twice

WindowNext == \/ \E x \in Values : AddInt(x)
              \/ RefreshWindow \/ ClearWindow \/ Tick \/ WindowDtor

WindowSpec == WindowInit /\ [][WindowNext]_winVars

-----------------------------------------------------------------------------
InWindow == {window[i].cell : i \in 1 .. Len(window)}
DataOf(T) == {T.node[n].data : n \in DOMAIN T.node}
Count(x) == Cardinality({c \in InWindow : storage[c] = x})
WindowSum ==
  LET total[k \in 0 .. Len(window)] ==
        IF k = 0 THEN 0 ELSE total[k - 1] + storage[window[k].cell]
  IN  total[Len(window)]

(* The minmax and the sum plugin report the values of the window and of    *)
(* nothing else, through any mixture of items that left by number, by age  *)
(* and by clear; no tree keeps a pointer to a cell whose item has left and *)
(* that the next value overwrites (lib_puffers.c:408-497).                 *)
PluginsFollow ==
  crash = 0 =>
    /\ Len(window) <= NumLimit
    /\ sum = WindowSum
    /\ DataOf(minmax) \subseteq InWindow
    /\ \A n \in DOMAIN minmax.node : minmax.node[n].ref = Count(storage[minmax.node[n].data])
    /\ \A c \in InWindow : storage[c] \in {storage[d] : d \in DataOf(minmax)}
    /\ IF window = <<>> THEN stat = [min |-> NIL, max |-> NIL]
       ELSE /\ {stat.min, stat.max} \subseteq InWindow
            /\ \A c \in InWindow : storage[stat.min] <= storage[c] /\ storage[c] <= storage[stat.max]

(* As long as no value was in the window twice, the percentile plugin has  *)
(* each of its values in one of its two trees, the lesser ones in maxtree, *)
(* counts them right, reports the neighbours of the split and nothing that *)
(* has left the window, and from 50 on never reads through NULL            *)
(* (lib_swplugins.c:254-373).                                              *)
PercentileSplits ==
  twice = 0 /\ pct.p # 0 =>
    /\ pct.p >= 50 => crash # 1
    /\ crash = 0 =>
         LET C == Candidates(pct)
             low == DataOf(pct.maxtree)
             high == DataOf(pct.mintree)
         IN  /\ low \cup high = InWindow
             /\ \A c \in low, d \in high : storage[c] < storage[d]
             /\ pct.Mxc = Cardinality(low) /\ pct.Mnc = Cardinality(high)
             /\ pct.Mxc + pct.Mnc >= Required(pct.p) /\ pct.p >= 50 => pct.Mxc > 0
             /\ C.processed = 1 => C.left # NIL \/ C.right # NIL
             /\ C.left # NIL => C.left \in low /\ \A c \in low : storage[c] <= storage[C.left]
             /\ C.right # NIL => C.right \in high /\ \A c \in high : storage[c] >= storage[C.right]
=============================================================================
