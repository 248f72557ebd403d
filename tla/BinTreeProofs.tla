--------------------------- MODULE BinTreeProofs ---------------------------
(***************************************************************************)
(* Theorems about the binary tree and the sliding window over it:          *)
(* TreeCountsBagHolds (for every set of keys, the tree is the bag of the   *)
(* references in it), PluginsFollowHolds and PercentileSplitsHolds (for    *)
(* every size, age limit, percentile and all values, the plugins report    *)
(* what the window has).                                                   *)
(*                                                                         *)
(* The argument does not follow the recursion of the tree.  A tree is      *)
(* given a set S[n] of nodes for each of its nodes n, the part of the tree *)
(* below n: S is "closed" under the children, the sides of a node are      *)
(* apart, and the values of a side are on their side of the node's value.  *)
(* Every operation of the code changes one pointer, one value or one node, *)
(* and what that does to S is said by a set expression; so what a search   *)
(* or a way to the right finds follows from the sets, by their sizes, and  *)
(* no invariant speaks of paths.                                           *)
(*                                                                         *)
(* What Insert and Deref do to any tree is carried over to the trees of    *)
(* the plugins: InsertKept and DerefKept for minmax, where alike values    *)
(* share a node, the Plain lemmas for percentile, where none are alike.    *)
(***************************************************************************)
EXTENDS SlidingWindow, WellFoundedInduction, SequenceTheorems, FiniteSetTheorems, TLAPS

(* Every set of natural numbers has a least one: the induction of all      *)
(* proofs below, since a rule of induction takes a predicate as parameter. *)
LEMMA LeastNat ==
  ASSUME NEW T, T \subseteq Nat, T # {}
  PROVE  \E n \in T : \A m \in T : n <= m
<1> DEFINE R == OpToRel(<, Nat)
<1>1. IsWellFoundedOn(R, Nat)
  BY NatLessThanWellFounded, Zenon
<1>2. \A x, y \in Nat : x < y => <<x, y>> \in R
  <2> SUFFICES ASSUME NEW x \in Nat, NEW y \in Nat, x < y PROVE <<x, y>> \in R
    OBVIOUS
  <2> QED BY Zenon DEF OpToRel
<1> HIDE DEF R
<1>3. PICK n \in T : \A y \in T : ~ (<<y, n>> \in R)
  BY <1>1, WFMin, Zenon
<1>4. \A y \in T : ~ (y < n)
  BY <1>2, <1>3, Zenon
<1>5. \A y \in T : n <= y
  BY <1>4
<1> QED BY <1>5, Zenon

(* A loop of n turns, t[k] being the k-th of them: there is a function     *)
(* that says what each turn leaves.                                        *)
TurnsOf(S, s, t, n, f) ==
  /\ f \in [0 .. n -> S]
  /\ \A k \in 0 .. n : f[k] = IF k = 0 THEN s ELSE t[k][f[k - 1]]

(* Such a function there is, for any number of turns.                      *)
LEMMA LoopTurns ==
  ASSUME NEW S, NEW s \in S, NEW N \in Nat, NEW t \in [1 .. N -> [S -> S]]
  PROVE  \E f : TurnsOf(S, s, t, N, f)
<1> DEFINE Upto(m) == \E f : TurnsOf(S, s, t, m, f)
           Bad == {m \in 0 .. N : ~ Upto(m)}
<1>1. Bad = {}
  <2> SUFFICES ASSUME Bad # {} PROVE FALSE
    OBVIOUS
  <2> HIDE DEF Upto
  <2>1. PICK m \in Bad : \A k \in Bad : m <= k
    <3>1. Bad \subseteq Nat
      OBVIOUS
    <3> HIDE DEF Bad
    <3> QED BY <3>1, LeastNat
  <2>2. m \in 0 .. N /\ ~ Upto(m) /\ (m > 0 => Upto(m - 1))
    BY <2>1
  <2> USE DEF Upto
  <2> HIDE DEF Bad
  <2>3. CASE m = 0
    <3> DEFINE f == [k \in 0 .. 0 |-> s]
    <3>1. TurnsOf(S, s, t, 0, f)
      BY DEF TurnsOf
    <3> QED BY <2>2, <2>3, <3>1
  <2>4. CASE m > 0
    <3>1. PICK f : TurnsOf(S, s, t, m - 1, f)
      BY <2>2, <2>4
    <3>2. t[m] \in [S -> S] /\ f[m - 1] \in S /\ m - 1 \in 0 .. m - 1
      BY <2>2, <2>4, <3>1 DEF TurnsOf
    <3> DEFINE h == [k \in 0 .. m |-> IF k = m THEN t[m][f[m - 1]] ELSE f[k]]
    <3>3. ASSUME NEW k \in 0 .. m, k # m PROVE k \in 0 .. m - 1 /\ h[k] = f[k] /\ f[k] \in S
      <4>1. k \in 0 .. m - 1
        BY <2>2, <3>3
      <4> QED BY <3>1, <3>3, <4>1 DEF TurnsOf
    <3>4. h[m] = t[m][f[m - 1]] /\ h[m] \in S
      BY <2>2, <3>2
    <3>5. h \in [0 .. m -> S]
      BY <3>3, <3>4
    <3>6. ASSUME NEW k \in 0 .. m PROVE h[k] = IF k = 0 THEN s ELSE t[k][h[k - 1]]
      <4>1. CASE k = 0
        BY <2>4, <3>1, <3>3, <4>1 DEF TurnsOf
      <4>2. CASE k # 0
        <5>1. k - 1 \in 0 .. m /\ k - 1 # m
          BY <2>2, <4>2
        <5>2. h[k - 1] = f[k - 1]
          BY <3>3, <5>1
        <5>3. h[k] = t[k][f[k - 1]]
          <6>1. CASE k = m
            BY <3>4, <6>1
          <6>2. CASE k # m
            BY <3>1, <3>3, <4>2, <6>2 DEF TurnsOf
          <6> QED BY <6>1, <6>2
        <5> QED BY <4>2, <5>2, <5>3
      <4> QED BY <4>1, <4>2
    <3> HIDE DEF h
    <3>7. TurnsOf(S, s, t, m, h)
      BY <3>5, <3>6 DEF TurnsOf
    <3> QED BY <2>2, <3>7
  <2> QED BY <2>2, <2>3, <2>4
<1> HIDE DEF Upto
<1>2. Upto(N)
  BY <1>1
<1> QED BY <1>2 DEF Upto

(* A loop whose k-th turn leads from P[k - 1] to P[k] ends in P[N].        *)
LEMMA TurnsHold ==
  ASSUME NEW N \in Nat, NEW P, NEW g, g[0] \in P[0],
         \A k \in 1 .. N : g[k - 1] \in P[k - 1] => g[k] \in P[k]
  PROVE  \A k \in 0 .. N : g[k] \in P[k]
<1> DEFINE Bad == {k \in 0 .. N : g[k] \notin P[k]}
<1>1. Bad = {}
  <2> SUFFICES ASSUME Bad # {} PROVE FALSE
    OBVIOUS
  <2>1. PICK k \in Bad : \A j \in Bad : k <= j
    <3>1. Bad \subseteq Nat
      OBVIOUS
    <3> HIDE DEF Bad
    <3> QED BY <3>1, LeastNat
  <2>2. k \in 0 .. N /\ g[k] \notin P[k]
    BY <2>1
  <2>3. k # 0
    BY <2>2
  <2>4. k - 1 \in 0 .. N /\ ~ (k <= k - 1) /\ k \in 1 .. N
    BY <2>2, <2>3
  <2>5. g[k - 1] \in P[k - 1]
    BY <2>1, <2>4
  <2> QED BY <2>2, <2>4, <2>5
<1> QED BY <1>1

-----------------------------------------------------------------------------
(* The shape of a binary tree of the nodes N, with its root r, the left    *)
(* and right children L and R, NIL where there is none, and the values D.  *)
(* S[m] is the set of nodes below m, with m; it says which values go where *)
(* (Sorted), that the values below a node are neighbours (Convex), and     *)
(* that what is below two nodes is below one of them through the other     *)
(* (Nested).                                                               *)
Split(N, r, L, R, S) ==
  /\ S \in [N \cup {NIL} -> SUBSET N] /\ S[NIL] = {} /\ S[r] = N
  /\ \A m \in N : S[m] = {m} \cup S[L[m]] \cup S[R[m]]

Sorted(N, L, R, D, S) ==
  \A m \in N : /\ \A x \in S[L[m]] : D[x] < D[m]
               /\ \A x \in S[R[m]] : D[m] < D[x]

Convex(N, D, S) ==
  \A m, x, y, z \in N : x \in S[m] /\ z \in S[m] /\ D[x] < D[y] /\ D[y] < D[z] => y \in S[m]

Nested(N, S) ==
  \A x, y, z \in N : z \in S[x] /\ z \in S[y] => x \in S[y] \/ y \in S[x]

Shape(N, r, L, R, D, S) ==
  /\ NIL \notin N /\ r \in N \cup {NIL}
  /\ L \in [N -> N \cup {NIL}] /\ R \in [N -> N \cup {NIL}]
  /\ D \in [N -> Int] /\ \A x, y \in N : D[x] = D[y] => x = y
  /\ Split(N, r, L, R, S)
  /\ Sorted(N, L, R, D, S)
  /\ Convex(N, D, S)
  /\ Nested(N, S)

(* A tree seen in a mirror is a tree.                                      *)
LEMMA MirrorIs ==
  ASSUME NEW N, NEW r, NEW L, NEW R, NEW D, NEW S, Shape(N, r, L, R, D, S)
  PROVE  Shape(N, r, R, L, [x \in N |-> -D[x]], S)
<1> DEFINE E == [x \in N |-> -D[x]]
<1>1. D \in [N -> Int] /\ \A x, y \in N : D[x] = D[y] => x = y
  BY DEF Shape
<1>2. E \in [N -> Int] /\ \A x \in N : E[x] = -D[x]
  BY <1>1
<1>3. \A x, y \in N : E[x] = E[y] => x = y
  BY <1>1, <1>2
<1>4. \A x, y \in N : E[x] < E[y] <=> D[y] < D[x]
  BY <1>1, <1>2
<1> HIDE DEF E
<1>5. Split(N, r, R, L, S)
  BY DEF Shape, Split
<1>6. Sorted(N, R, L, E, S)
  <2>1. \A m \in N : S[L[m]] \subseteq N /\ S[R[m]] \subseteq N
    BY DEF Shape, Split
  <2> QED BY <1>4, <2>1, Zenon DEF Shape, Sorted
<1>7. Convex(N, E, S)
  BY <1>4, Zenon DEF Shape, Convex
<1> QED BY <1>2, <1>3, <1>5, <1>6, <1>7, Zenon DEF Shape, E

(* A node is in neither of its sides, and nothing is in both.              *)
LEMMA SidesApart ==
  ASSUME NEW N, NEW r, NEW L, NEW R, NEW D, NEW S, Shape(N, r, L, R, D, S), NEW m \in N
  PROVE  /\ m \notin S[L[m]] /\ m \notin S[R[m]]
         /\ S[L[m]] \cap S[R[m]] = {}
         /\ S[L[m]] \subseteq N /\ S[R[m]] \subseteq N
         /\ m \in S[m]
         /\ \A x \in S[m] : /\ D[x] < D[m] => x \in S[L[m]]
                            /\ D[m] < D[x] => x \in S[R[m]]
<1>1. L[m] \in N \cup {NIL} /\ R[m] \in N \cup {NIL} /\ D \in [N -> Int]
  BY DEF Shape
<1>2. S[L[m]] \subseteq N /\ S[R[m]] \subseteq N /\ S[m] = {m} \cup S[L[m]] \cup S[R[m]]
  BY <1>1 DEF Shape, Split
<1>3. /\ \A x \in S[L[m]] : D[x] < D[m]
      /\ \A x \in S[R[m]] : D[m] < D[x]
  BY DEF Shape, Sorted
<1>4. \A x \in N : D[x] \in Int
  BY <1>1
<1>5. m \notin S[L[m]] /\ m \notin S[R[m]]
  BY <1>3, <1>4
<1>6. ASSUME NEW x \in S[L[m]] PROVE x \notin S[R[m]]
  BY <1>2, <1>3, <1>4, <1>6
<1>7. ASSUME NEW x \in S[m]
      PROVE  /\ D[x] < D[m] => x \in S[L[m]]
             /\ D[m] < D[x] => x \in S[R[m]]
  BY <1>2, <1>3, <1>4, <1>7
<1> QED BY <1>2, <1>5, <1>6, <1>7

(* One link leads to a node, but for the root, to which none leads.        *)
LEMMA OneParent ==
  ASSUME NEW N, NEW r, NEW L, NEW R, NEW D, NEW S, Shape(N, r, L, R, D, S), NEW n \in N
  PROVE  /\ \A m \in N : L[m] = n \/ R[m] = n => n # r
         /\ \A m, p \in N : (L[m] = n \/ R[m] = n) /\ (L[p] = n \/ R[p] = n) => m = p
         /\ \A m \in N : ~ (L[m] = n /\ R[m] = n)
<1>1. /\ \A m \in N : /\ m \notin S[L[m]] /\ m \notin S[R[m]] /\ S[L[m]] \cap S[R[m]] = {}
                      /\ m \in S[m]
      /\ \A m \in N : \A x \in S[m] : /\ D[x] < D[m] => x \in S[L[m]]
                                      /\ D[m] < D[x] => x \in S[R[m]]
  BY SidesApart
<1>2. /\ S[r] = N /\ D \in [N -> Int] /\ \A x, y \in N : D[x] = D[y] => x = y
      /\ \A m \in N : S[m] = {m} \cup S[L[m]] \cup S[R[m]]
  BY DEF Shape, Split
<1>3. ASSUME NEW m \in N, L[m] = n \/ R[m] = n PROVE n # r
  BY <1>1, <1>2, <1>3
<1>4. \A m \in N : ~ (L[m] = n /\ R[m] = n)
  BY <1>1
<1>5. ASSUME NEW m \in N, NEW p \in N, L[m] = n \/ R[m] = n, L[p] = n \/ R[p] = n, D[m] < D[p]
      PROVE  FALSE
  <2>1. n \in S[m] /\ n \in S[p] /\ n \in S[n]
    BY <1>1, <1>2, <1>5
  <2>2. m \in S[p] \/ p \in S[m]
    BY <2>1 DEF Shape, Nested
  <2>3. D[m] \in Int /\ D[p] \in Int /\ D[n] \in Int
    BY <1>2
  <2>4. CASE p \in S[m]
    <3>1. p \in S[R[m]]
      BY <1>1, <1>5, <2>4
    <3>2. R[m] # n
      BY <1>1, <1>5, <3>1
    <3>3. L[m] = n /\ D[n] < D[m]
      BY <1>5, <2>1, <3>2 DEF Shape, Sorted
    <3>4. D[n] < D[p] /\ L[p] = n
      BY <1>5, <2>1, <2>3, <3>3 DEF Shape, Sorted
    <3>5. m \in S[p]
      BY <1>5, <2>1, <3>3, <1>1 DEF Shape, Convex
    <3> QED BY <1>1, <1>5, <3>3, <3>4, <3>5
  <2>5. CASE m \in S[p]
    <3>1. m \in S[L[p]]
      BY <1>1, <1>5, <2>5
    <3>2. L[p] # n
      BY <1>1, <1>5, <3>1
    <3>3. R[p] = n /\ D[p] < D[n]
      BY <1>5, <2>1, <3>2 DEF Shape, Sorted
    <3>4. R[m] = n
      BY <1>5, <2>1, <2>3, <3>3 DEF Shape, Sorted
    <3>5. p \in S[m]
      BY <1>5, <2>1, <3>3, <1>1 DEF Shape, Convex
    <3> QED BY <1>1, <1>5, <3>3, <3>4, <3>5
  <2> QED BY <2>2, <2>4, <2>5
<1>6. ASSUME NEW m \in N, NEW p \in N, L[m] = n \/ R[m] = n, L[p] = n \/ R[p] = n PROVE m = p
  <2>1. ~ (D[m] < D[p]) /\ ~ (D[p] < D[m])
    BY <1>5, <1>6
  <2> QED BY <1>2, <2>1
<1> QED BY <1>3, <1>4, <1>6

(* A leaf on the free right side of p, where its value belongs: it becomes *)
(* a node below p and below all that p is below.                           *)
GrowsRight(N, r, L, R, D, S, new, p, v, M, A, B, E) ==
  /\ Shape(N, r, L, R, D, S)
  /\ new \notin N /\ new # NIL /\ p \in N /\ R[p] = NIL
  /\ v \in Int /\ D[p] < v
  /\ \A y \in N \ S[p] : \/ D[y] < v /\ D[y] < D[p]
                         \/ v < D[y] /\ D[p] < D[y]
  /\ M = N \cup {new}
  /\ A \in [M -> M \cup {NIL}] /\ B \in [M -> M \cup {NIL}] /\ E \in [M -> Int]
  /\ A[new] = NIL /\ B[new] = NIL /\ E[new] = v
  /\ \A m \in N : A[m] = L[m] /\ B[m] = (IF m = p THEN new ELSE R[m]) /\ E[m] = D[m]

(* The new leaf is below all the nodes that p is below.                    *)
LEMMA GrownRight ==
  ASSUME NEW N, NEW r, NEW L, NEW R, NEW D, NEW S, NEW new, NEW p, NEW v,
         NEW M, NEW A, NEW B, NEW E,
         GrowsRight(N, r, L, R, D, S, new, p, v, M, A, B, E)
  PROVE  \E Z : Shape(M, r, A, B, E, Z)
<1> USE DEF GrowsRight
<1> DEFINE Z == [m \in M \cup {NIL} |-> IF m = new THEN {new}
                                        ELSE IF p \in S[m] THEN S[m] \cup {new} ELSE S[m]]
<1>1. /\ NIL \notin N /\ r \in N \cup {NIL} /\ D \in [N -> Int]
      /\ L \in [N -> N \cup {NIL}] /\ R \in [N -> N \cup {NIL}]
      /\ \A x, y \in N : D[x] = D[y] => x = y
      /\ S \in [N \cup {NIL} -> SUBSET N] /\ S[NIL] = {} /\ S[r] = N
      /\ \A m \in N : S[m] = {m} \cup S[L[m]] \cup S[R[m]]
  BY DEF Shape, Split
<1>2. \A m \in N : /\ m \notin S[L[m]] /\ m \notin S[R[m]] /\ S[L[m]] \cap S[R[m]] = {}
                   /\ m \in S[m]
  BY SidesApart
<1>3. /\ Z[new] = {new} /\ Z[NIL] = {}
      /\ \A m \in N \cup {NIL} : Z[m] = IF p \in S[m] THEN S[m] \cup {new} ELSE S[m]
  BY <1>1
<1>4. Z \in [M \cup {NIL} -> SUBSET M]
  BY <1>1
<1> HIDE DEF Z
<1>0. \A m \in N \cup {NIL} : \A q \in M :
        q \in Z[m] <=> q \in S[m] \/ (q = new /\ p \in S[m])
  <2> SUFFICES ASSUME NEW m \in N \cup {NIL}, NEW q \in M
               PROVE  q \in Z[m] <=> q \in S[m] \/ (q = new /\ p \in S[m])
    OBVIOUS
  <2>1. S[m] \subseteq N /\ new \notin S[m]
    BY <1>1
  <2>2. CASE p \in S[m]
    <3>1. Z[m] = S[m] \cup {new}
      BY <1>3, <2>2
    <3> QED BY <2>1, <2>2, <3>1
  <2>3. CASE p \notin S[m]
    <3>1. Z[m] = S[m]
      BY <1>3, <2>3
    <3> QED BY <2>1, <2>3, <3>1
  <2> QED BY <2>2, <2>3
<1>01. \A m \in N \cup {NIL} : \A q \in N : q \in Z[m] <=> q \in S[m]
  <2>1. \A q \in N : q \in M /\ q # new
    OBVIOUS
  <2> QED BY <1>0, <2>1
<1>5. \A y \in N : y # p => \/ D[y] < v /\ D[y] < D[p]
                            \/ v < D[y] /\ D[p] < D[y]
  <2> SUFFICES ASSUME NEW y \in N, y # p
               PROVE  \/ D[y] < v /\ D[y] < D[p]
                      \/ v < D[y] /\ D[p] < D[y]
    OBVIOUS
  <2>1. CASE y \in S[p]
    <3>1. y \in S[L[p]]
      BY <1>1, <2>1
    <3>2. D[y] < D[p]
      BY <3>1 DEF Shape, Sorted
    <3> QED BY <1>1, <3>2
  <2> QED BY <2>1
<1>6. \A y \in N : D[y] # v
  BY <1>1, <1>5
<1>7. \A x, y \in M : E[x] = E[y] => x = y
  BY <1>1, <1>6
<1>8. Split(M, r, A, B, Z)
  <2>1. Z[r] = M
    <3>1. r # NIL /\ r \in N
      BY <1>1
    <3> QED BY <1>1, <1>3, <3>1
  <2>2. ASSUME NEW m \in M PROVE Z[m] = {m} \cup Z[A[m]] \cup Z[B[m]]
    <3>1. CASE m = new
      BY <1>3, <3>1
    <3>2. CASE m \in N
      <4>1. /\ A[m] = L[m] /\ B[m] = (IF m = p THEN new ELSE R[m])
            /\ L[m] \in N \cup {NIL} /\ R[m] \in N \cup {NIL}
            /\ S[m] = {m} \cup S[L[m]] \cup S[R[m]]
            /\ S[L[m]] \subseteq N /\ S[R[m]] \subseteq N
        BY <1>1, <3>2
      <4>2. Z[m] \subseteq M /\ Z[A[m]] \subseteq M /\ Z[B[m]] \subseteq M
        BY <1>4, <4>1
      <4>3. ASSUME NEW q \in N PROVE q \in Z[m] <=> q = m \/ q \in Z[A[m]] \/ q \in Z[B[m]]
        <5>1. q # new /\ (q \in Z[m] <=> q \in S[m]) /\ (q \in Z[A[m]] <=> q \in S[L[m]])
          BY <1>01, <3>2, <4>1
        <5>2. q \in Z[B[m]] <=> q \in S[R[m]]
          <6>1. CASE m = p
            <7>1. B[m] = new /\ R[m] = NIL
              BY <4>1, <6>1
            <7>2. Z[B[m]] = {new} /\ S[R[m]] = {}
              BY <1>1, <1>3, <7>1
            <7> QED BY <5>1, <7>2
          <6>2. CASE m # p
            BY <1>01, <4>1, <6>2
          <6> QED BY <6>1, <6>2
        <5> QED BY <4>1, <5>1, <5>2
      <4>4. new \in Z[m] <=> new \in Z[A[m]] \/ new \in Z[B[m]]
        <5>1. (new \in Z[m] <=> p \in S[m]) /\ (new \in Z[A[m]] <=> p \in S[L[m]])
          <6>1. new \notin S[m] /\ new \notin S[L[m]]
            BY <3>2, <4>1
          <6> QED BY <1>0, <3>2, <4>1, <6>1
        <5>2. CASE m = p
          BY <1>2, <1>3, <4>1, <5>1, <5>2
        <5>3. CASE m # p
          <6>1. B[m] = R[m] /\ new \notin S[R[m]]
            BY <4>1, <5>3
          <6>2. new \in Z[B[m]] <=> p \in S[R[m]]
            BY <1>0, <4>1, <6>1
          <6> QED BY <4>1, <5>1, <5>3, <6>2
        <5> QED BY <5>2, <5>3
      <4> QED BY <3>2, <4>2, <4>3, <4>4
    <3> QED BY <3>1, <3>2
  <2> QED BY <1>3, <1>4, <2>1, <2>2 DEF Split
<1>9. Sorted(M, A, B, E, Z)
  <2> SUFFICES ASSUME NEW m \in M
               PROVE  /\ \A x \in Z[A[m]] : E[x] < E[m]
                      /\ \A x \in Z[B[m]] : E[m] < E[x]
    BY DEF Sorted
  <2>1. CASE m = new
    BY <1>3, <2>1
  <2>2. CASE m \in N
    <3>1. A[m] = L[m] /\ B[m] = (IF m = p THEN new ELSE R[m]) /\ E[m] = D[m]
          /\ L[m] \in N \cup {NIL} /\ R[m] \in N \cup {NIL}
          /\ S[L[m]] \subseteq N /\ S[R[m]] \subseteq N
      BY <1>1, <2>2
    <3>2. /\ \A x \in S[L[m]] : D[x] < D[m]
          /\ \A x \in S[R[m]] : D[m] < D[x]
      BY <2>2 DEF Shape, Sorted
    <3>3. p \in S[L[m]] => v < D[m]
      BY <1>1, <1>2, <1>5, <2>2, <3>2
    <3>4. p \in S[R[m]] => D[m] < v
      BY <1>1, <1>2, <1>5, <2>2, <3>2
    <3>5. ASSUME NEW x \in Z[A[m]] PROVE E[x] < E[m]
      <4>1. x \in M /\ (x \in S[L[m]] \/ (x = new /\ p \in S[L[m]]))
        BY <1>0, <1>4, <3>1, <3>5
      <4> QED BY <3>1, <3>2, <3>3, <4>1
    <3>6. ASSUME NEW x \in Z[B[m]] PROVE E[m] < E[x]
      <4>1. CASE m = p
        <5>1. x = new
          BY <1>3, <3>1, <3>6, <4>1
        <5> QED BY <3>1, <4>1, <5>1
      <4>2. CASE m # p
        <5>1. x \in M /\ (x \in S[R[m]] \/ (x = new /\ p \in S[R[m]]))
          BY <1>0, <1>4, <3>1, <3>6, <4>2
        <5> QED BY <3>1, <3>2, <3>4, <5>1
      <4> QED BY <4>1, <4>2
    <3> QED BY <3>5, <3>6
  <2> QED BY <2>1, <2>2
<1>10. Convex(M, E, Z)
  <2> SUFFICES ASSUME NEW m \in M, NEW x \in M, NEW y \in M, NEW z \in M,
                      x \in Z[m], z \in Z[m], E[x] < E[y], E[y] < E[z]
               PROVE  y \in Z[m]
    BY DEF Convex
  <2>1. E[x] \in Int /\ E[y] \in Int /\ E[z] \in Int
    OBVIOUS
  <2>2. m # new /\ m \in N
    BY <1>3, <2>1
  <2>3. \A a, b, c \in N : a \in S[m] /\ c \in S[m] /\ D[a] < D[b] /\ D[b] < D[c] => b \in S[m]
    BY <2>2 DEF Shape, Convex
  <2>4. /\ \A q \in N : q \in Z[m] <=> q \in S[m]
        /\ new \in Z[m] <=> p \in S[m]
    <3>1. S[m] \subseteq N /\ new \notin S[m]
      BY <1>1, <2>2
    <3> QED BY <1>0, <2>2, <3>1
  <2>5. CASE y = new
    <3>1. x \in N /\ z \in N /\ D[x] < v /\ v < D[z] /\ x \in S[m] /\ z \in S[m]
      BY <2>1, <2>4, <2>5
    <3>2. x = p \/ D[x] < D[p]
      BY <1>1, <1>5, <3>1
    <3>3. D[p] < D[z]
      BY <1>1, <3>1
    <3>4. p \in S[m]
      BY <2>3, <3>1, <3>2, <3>3
    <3> QED BY <2>4, <2>5, <3>4
  <2>6. CASE y \in N /\ x = new
    <3>1. z \in N /\ p \in S[m] /\ v < D[y] /\ D[y] < D[z] /\ z \in S[m]
      BY <2>1, <2>4, <2>6
    <3>2. D[p] < D[y]
      BY <1>1, <2>6, <3>1
    <3> QED BY <2>3, <2>4, <2>6, <3>1, <3>2
  <2>7. CASE y \in N /\ z = new
    <3>1. x \in N /\ p \in S[m] /\ D[y] < v /\ D[x] < D[y] /\ x \in S[m]
      BY <2>1, <2>4, <2>7
    <3>2. y = p \/ D[y] < D[p]
      BY <1>1, <1>5, <2>7, <3>1
    <3> QED BY <2>3, <2>4, <2>7, <3>1, <3>2
  <2>8. CASE x \in N /\ y \in N /\ z \in N
    <3>1. D[x] < D[y] /\ D[y] < D[z] /\ x \in S[m] /\ z \in S[m]
      BY <2>4, <2>8
    <3> QED BY <2>3, <2>4, <2>8, <3>1
  <2> QED BY <2>5, <2>6, <2>7, <2>8
<1>11. Nested(M, Z)
  <2> SUFFICES ASSUME NEW x \in M, NEW y \in M, NEW z \in M, z \in Z[x], z \in Z[y]
               PROVE  x \in Z[y] \/ y \in Z[x]
    BY DEF Nested
  <2>1. \A a, b, c \in N : c \in S[a] /\ c \in S[b] => a \in S[b] \/ b \in S[a]
    BY DEF Shape, Nested
  <2>2. \A q, m \in N : q \in Z[m] <=> q \in S[m]
    BY <1>01
  <2>3. ASSUME NEW m \in N PROVE new \in Z[m] <=> p \in S[m]
    <3>1. S[m] \subseteq N /\ new \notin S[m]
      BY <1>1
    <3> QED BY <1>0, <3>1
  <2>4. CASE x = new \/ y = new
    BY <1>3, <2>4
  <2>5. CASE x \in N /\ y \in N /\ z \in N
    BY <2>1, <2>2, <2>5
  <2>6. CASE x \in N /\ y \in N /\ z = new
    BY <2>1, <2>2, <2>3, <2>6
  <2> QED BY <2>4, <2>5, <2>6
<1>12. NIL \notin M /\ r \in M \cup {NIL}
  BY <1>1
<1> QED BY <1>7, <1>8, <1>9, <1>10, <1>11, <1>12, Zenon DEF Shape

(* ... and on the free left side.                                          *)
GrowsLeft(N, r, L, R, D, S, new, p, v, M, A, B, E) ==
  /\ Shape(N, r, L, R, D, S)
  /\ new \notin N /\ new # NIL /\ p \in N /\ L[p] = NIL
  /\ v \in Int /\ v < D[p]
  /\ \A y \in N \ S[p] : \/ D[y] < v /\ D[y] < D[p]
                         \/ v < D[y] /\ D[p] < D[y]
  /\ M = N \cup {new}
  /\ A \in [M -> M \cup {NIL}] /\ B \in [M -> M \cup {NIL}] /\ E \in [M -> Int]
  /\ A[new] = NIL /\ B[new] = NIL /\ E[new] = v
  /\ \A m \in N : B[m] = R[m] /\ A[m] = (IF m = p THEN new ELSE L[m]) /\ E[m] = D[m]

(* And, in the mirror, on the left.                                        *)
LEMMA GrownLeft ==
  ASSUME NEW N, NEW r, NEW L, NEW R, NEW D, NEW S, NEW new, NEW p, NEW v,
         NEW M, NEW A, NEW B, NEW E,
         GrowsLeft(N, r, L, R, D, S, new, p, v, M, A, B, E)
  PROVE  \E Z : Shape(M, r, A, B, E, Z)
<1> USE DEF GrowsLeft
<1>1. PICK D1, E1 : D1 = [x \in N |-> -D[x]] /\ E1 = [x \in M |-> -E[x]]
  OBVIOUS
<1>2. Shape(N, r, R, L, D1, S) /\ D \in [N -> Int]
  BY <1>1, MirrorIs DEF Shape
<1>3. PICK w \in Int : w = -v
  OBVIOUS
<1>4. /\ D1[p] < w /\ E1 \in [M -> Int] /\ E1[new] = w
      /\ \A m \in N : E1[m] = D1[m]
  BY <1>1, <1>2, <1>3
<1>5. \A y \in N \ S[p] : \/ D1[y] < w /\ D1[y] < D1[p]
                          \/ w < D1[y] /\ D1[p] < D1[y]
  BY <1>1, <1>2, <1>3
<1>6. E = [x \in M |-> -E1[x]]
  BY <1>1
<1>7. GrowsRight(N, r, R, L, D1, S, new, p, w, M, B, A, E1)
  BY <1>2, <1>4, <1>5 DEF GrowsRight
<1>8. PICK Z : Shape(M, r, B, A, E1, Z)
  BY <1>7, GrownRight
<1>9. Shape(M, r, A, B, E, Z)
  BY <1>6, <1>8, MirrorIs
<1> QED BY <1>9

(* A first node.                                                           *)
LEMMA GrownFirst ==
  ASSUME NEW new, new # NIL, NEW M, M = {new}, NEW A, NEW B, NEW E,
         A \in [M -> M \cup {NIL}], B \in [M -> M \cup {NIL}], E \in [M -> Int],
         A[new] = NIL, B[new] = NIL
  PROVE  \E Z : Shape(M, new, A, B, E, Z)
<1> DEFINE Z == [m \in M \cup {NIL} |-> IF m = new THEN {new} ELSE {}]
<1>1. Z[new] = {new} /\ Z[NIL] = {} /\ Z \in [M \cup {NIL} -> SUBSET M]
  OBVIOUS
<1> HIDE DEF Z
<1>2. Shape(M, new, A, B, E, Z)
  BY <1>1 DEF Shape, Split, Sorted, Convex, Nested
<1> QED BY <1>2

(* A node with one child at most goes, and the child takes its place.      *)
CutsOff(N, r, L, R, D, S, n, c, M, q, A, B, E, Z) ==
  /\ Shape(N, r, L, R, D, S)
  /\ n \in N /\ ((L[n] = NIL /\ c = R[n]) \/ (R[n] = NIL /\ c = L[n]))
  /\ M = N \ {n} /\ q = (IF n = r THEN c ELSE r)
  /\ A = [m \in M |-> IF L[m] = n THEN c ELSE L[m]]
  /\ B = [m \in M |-> IF R[m] = n THEN c ELSE R[m]]
  /\ E = [m \in M |-> D[m]]
  /\ Z = [m \in M \cup {NIL} |-> S[m] \ {n}]

(* Without n, the sides are what they were, n taken out of them.           *)
LEMMA CutIs ==
  ASSUME NEW N, NEW r, NEW L, NEW R, NEW D, NEW S, NEW n, NEW c,
         NEW M, NEW q, NEW A, NEW B, NEW E, NEW Z,
         CutsOff(N, r, L, R, D, S, n, c, M, q, A, B, E, Z)
  PROVE  Shape(M, q, A, B, E, Z)
<1> USE DEF CutsOff
<1>1. /\ NIL \notin N /\ r \in N \cup {NIL} /\ D \in [N -> Int]
      /\ L \in [N -> N \cup {NIL}] /\ R \in [N -> N \cup {NIL}]
      /\ \A x, y \in N : D[x] = D[y] => x = y
      /\ S \in [N \cup {NIL} -> SUBSET N] /\ S[NIL] = {} /\ S[r] = N
      /\ \A m \in N : S[m] = {m} \cup S[L[m]] \cup S[R[m]]
  BY DEF Shape, Split
<1>2. \A m \in N : /\ m \notin S[L[m]] /\ m \notin S[R[m]] /\ m \in S[m]
  BY SidesApart
<1>3. S[n] = {n} \cup S[c] /\ n \notin S[c] /\ c \in N \cup {NIL}
  BY <1>1, <1>2
<1>4. c \in M \cup {NIL}
  BY <1>1, <1>2, <1>3
<1>5. Z \in [M \cup {NIL} -> SUBSET M] /\ \A m \in M \cup {NIL} : Z[m] = S[m] \ {n}
  BY <1>1
<1>6. A \in [M -> M \cup {NIL}] /\ B \in [M -> M \cup {NIL}] /\ E \in [M -> Int]
  BY <1>1, <1>4
<1>7. /\ \A m \in M : A[m] = (IF L[m] = n THEN c ELSE L[m])
      /\ \A m \in M : B[m] = (IF R[m] = n THEN c ELSE R[m])
      /\ \A m \in M : E[m] = D[m]
  OBVIOUS
<1>0. /\ Shape(N, r, L, R, D, S) /\ n \in N /\ M = N \ {n} /\ q = (IF n = r THEN c ELSE r)
  OBVIOUS
<1> HIDE DEF CutsOff
<1>8. \A m \in M : Z[A[m]] = S[L[m]] \ {n} /\ Z[B[m]] = S[R[m]] \ {n}
  BY <1>0, <1>1, <1>3, <1>4, <1>5, <1>6, <1>7
<1>9. Split(M, q, A, B, Z)
  <2>1. Z[q] = M /\ q \in M \cup {NIL}
    BY <1>0, <1>1, <1>3, <1>4, <1>5
  <2>2. ASSUME NEW m \in M PROVE Z[m] = {m} \cup Z[A[m]] \cup Z[B[m]]
    <3>1. S[m] = {m} \cup S[L[m]] \cup S[R[m]] /\ m # n
      BY <1>0, <1>1
    <3>2. Z[m] = S[m] \ {n} /\ Z[A[m]] = S[L[m]] \ {n} /\ Z[B[m]] = S[R[m]] \ {n}
      BY <1>5, <1>8
    <3> QED BY <3>1, <3>2
  <2>3. Z[NIL] = {}
    BY <1>0, <1>1, <1>5
  <2> QED BY <1>0, <1>5, <2>1, <2>2, <2>3 DEF Split
<1>10. Sorted(M, A, B, E, Z)
  <2> SUFFICES ASSUME NEW m \in M
               PROVE  /\ \A x \in Z[A[m]] : E[x] < E[m]
                      /\ \A x \in Z[B[m]] : E[m] < E[x]
    BY DEF Sorted
  <2>1. /\ \A x \in S[L[m]] : D[x] < D[m]
        /\ \A x \in S[R[m]] : D[m] < D[x]
    BY <1>0 DEF Shape, Sorted
  <2>2. Z[A[m]] \subseteq M /\ Z[B[m]] \subseteq M
    BY <1>0, <1>5, <1>6
  <2> QED BY <1>0, <1>7, <1>8, <2>1, <2>2
<1>11. Convex(M, E, Z)
  <2>1. \A m, x, y, z \in M : x \in S[m] /\ z \in S[m] /\ D[x] < D[y] /\ D[y] < D[z] => y \in S[m]
    BY <1>0 DEF Shape, Convex
  <2> QED BY <1>0, <1>5, <1>7, <2>1 DEF Convex
<1>12. Nested(M, Z)
  <2>1. \A x, y, z \in M : z \in S[x] /\ z \in S[y] => x \in S[y] \/ y \in S[x]
    BY <1>0 DEF Shape, Nested
  <2> QED BY <1>0, <1>5, <2>1 DEF Nested
<1>13. q \in M \cup {NIL} /\ NIL \notin M /\ \A x, y \in M : E[x] = E[y] => x = y
  BY <1>0, <1>1, <1>4, <1>7
<1> QED BY <1>6, <1>9, <1>10, <1>11, <1>12, <1>13, Zenon DEF Shape

(* Other values in the same order.                                         *)
LEMMA RelabelledIs ==
  ASSUME NEW N, NEW r, NEW L, NEW R, NEW D, NEW S, Shape(N, r, L, R, D, S),
         NEW E \in [N -> Int], \A x, y \in N : D[x] < D[y] <=> E[x] < E[y]
  PROVE  Shape(N, r, L, R, E, S)
<1>1. D \in [N -> Int] /\ \A x, y \in N : D[x] = D[y] => x = y
  BY DEF Shape
<1>2. \A x, y \in N : E[x] = E[y] => x = y
  <2> SUFFICES ASSUME NEW x \in N, NEW y \in N, E[x] = E[y] PROVE x = y
    OBVIOUS
  <2>1. ~ (D[x] < D[y]) /\ ~ (D[y] < D[x])
    OBVIOUS
  <2> QED BY <1>1, <2>1
<1>3. Sorted(N, L, R, E, S)
  <2>1. \A m \in N : S[L[m]] \subseteq N /\ S[R[m]] \subseteq N
    BY DEF Shape, Split
  <2> QED BY <2>1, Zenon DEF Shape, Sorted
<1>4. Convex(N, E, S)
  BY Zenon DEF Shape, Convex
<1> QED BY <1>2, <1>3, <1>4, Zenon DEF Shape
(* A way that ends where it stays: there is the recursive function that    *)
(* says where each one leads (any place, for one without an end).          *)
Leads(X, next, f) ==
  /\ f \in [X -> X]
  /\ \A x \in X : f[x] = f[next[x]] /\ (next[x] = x => f[x] = x)

(* Such a function there is, for all ways.                                 *)
LEMMA WalkExists ==
  ASSUME NEW X, NEW next \in [X -> X]
  PROVE  \E f : Leads(X, next, f)
<1> DEFINE Closed == {M \in SUBSET X : \A p \in M : next[p] \in M}
           End(x) == {y \in X : next[y] = y /\ \A M \in Closed : x \in M => y \in M}
           one == [M \in SUBSET X |-> IF M = {} THEN CHOOSE y \in X : TRUE ELSE CHOOSE y \in M : TRUE]
           f == [x \in X |-> one[End(x)]]
<1>1. ASSUME NEW x \in X, next[x] = x PROVE End(x) = {x}
  <2>1. {x} \in Closed
    BY <1>1
  <2>2. x \in End(x)
    BY <1>1
  <2>3. ASSUME NEW y \in End(x) PROVE y = x
    <3>1. \A M \in Closed : x \in M => y \in M
      OBVIOUS
    <3> HIDE DEF Closed, End
    <3>2. y \in {x}
      BY <2>1, <3>1
    <3> QED BY <3>2
  <2> HIDE DEF End
  <2> QED BY <2>2, <2>3
<1>2. ASSUME NEW x \in X PROVE End(x) = End(next[x])
  <2>1. ASSUME NEW y \in End(next[x]) PROVE y \in End(x)
    <3>1. \A M \in Closed : x \in M => next[x] \in M
      OBVIOUS
    <3> HIDE DEF Closed
    <3> QED BY <2>1, <3>1
  <2>2. ASSUME NEW y \in End(x), next[x] # x PROVE y \in End(next[x])
    <3> SUFFICES ASSUME NEW M \in Closed, next[x] \in M PROVE y \in M
      OBVIOUS
    <3>1. M \cup {x} \in Closed
      OBVIOUS
    <3>2. y \in M \cup {x}
      <4> HIDE DEF Closed
      <4> QED BY <3>1
    <3>3. y # x
      BY <2>2
    <3> QED BY <3>2, <3>3
  <2> HIDE DEF End
  <2> QED BY <2>1, <2>2
<1>3. \A x \in X : End(x) \subseteq X
  OBVIOUS
<1>4. \A M \in SUBSET X : (X # {} => one[M] \in X) /\ (M # {} => one[M] \in M)
  OBVIOUS
<1> HIDE DEF Closed, End, one
<1>5. f \in [X -> X]
  BY <1>3, <1>4
<1>6. ASSUME NEW x \in X PROVE f[x] = f[next[x]]
  <2>1. f[x] = one[End(x)] /\ f[next[x]] = one[End(next[x])]
    OBVIOUS
  <2> HIDE DEF f
  <2> QED BY <1>2, <2>1
<1>7. ASSUME NEW x \in X, next[x] = x PROVE f[x] = x
  <2>1. f[x] = one[{x}] /\ {x} \in SUBSET X
    BY <1>1, <1>7
  <2> QED BY <1>4, <2>1
<1> HIDE DEF f
<1>8. Leads(X, next, f)
  BY <1>5, <1>6, <1>7 DEF Leads
<1> QED BY <1>8

(* The sides of a node have fewer nodes.                                   *)
LEMMA SidesSmaller ==
  ASSUME NEW N, NEW r, NEW L, NEW R, NEW D, NEW S, Shape(N, r, L, R, D, S), IsFiniteSet(N)
  PROVE  /\ \A m \in N \cup {NIL} : Cardinality(S[m]) \in Nat /\ Cardinality(S[m]) <= Cardinality(N)
         /\ \A m \in N : /\ Cardinality(S[L[m]]) < Cardinality(S[m])
                         /\ Cardinality(S[R[m]]) < Cardinality(S[m])
<1>1. /\ L \in [N -> N \cup {NIL}] /\ R \in [N -> N \cup {NIL}]
      /\ S \in [N \cup {NIL} -> SUBSET N]
      /\ \A m \in N : S[m] = {m} \cup S[L[m]] \cup S[R[m]]
  BY DEF Shape, Split
<1>2. \A m \in N \cup {NIL} : /\ IsFiniteSet(S[m]) /\ Cardinality(S[m]) \in Nat
                              /\ Cardinality(S[m]) <= Cardinality(N)
  <2> TAKE m \in N \cup {NIL}
  <2>1. S[m] \in SUBSET N
    BY <1>1
  <2>2. IsFiniteSet(S[m]) /\ Cardinality(S[m]) <= Cardinality(N)
    BY <2>1, FS_Subset
  <2> QED BY <2>2, FS_CardinalityType
<1>3. ASSUME NEW m \in N, NEW c \in {L[m], R[m]} PROVE Cardinality(S[c]) < Cardinality(S[m])
  <2>1. c \in N \cup {NIL} /\ m \in S[m] /\ m \notin S[c] /\ S[c] \in SUBSET S[m]
    <3>1. m \notin S[L[m]] /\ m \notin S[R[m]] /\ m \in S[m]
      BY SidesApart
    <3> QED BY <1>1, <3>1
  <2>2. Cardinality(S[c]) <= Cardinality(S[m]) /\ Cardinality(S[c]) # Cardinality(S[m])
    BY <1>2, <2>1, FS_Subset
  <2> QED BY <1>2, <2>1, <2>2
<1> QED BY <1>2, <1>3

(* What is below a node that is below another is below the other.          *)
LEMMA BelowBelow ==
  ASSUME NEW N, NEW r, NEW L, NEW R, NEW D, NEW S, Shape(N, r, L, R, D, S), IsFiniteSet(N)
  PROVE  \A n \in N : \A p \in S[n] : S[p] \subseteq S[n]
<1>1. /\ L \in [N -> N \cup {NIL}] /\ R \in [N -> N \cup {NIL}]
      /\ S \in [N \cup {NIL} -> SUBSET N] /\ S[NIL] = {}
      /\ \A m \in N : S[m] = {m} \cup S[L[m]] \cup S[R[m]]
  BY DEF Shape, Split
<1> DEFINE Bad == {n \in N : \E p \in S[n] : ~ (S[p] \subseteq S[n])}
           Sizes == {k \in Nat : \E n \in Bad : Cardinality(S[n]) = k}
<1>2. Bad = {}
  <2> SUFFICES ASSUME Bad # {} PROVE FALSE
    OBVIOUS
  <2>1. \A n \in Bad : n \in N /\ Cardinality(S[n]) \in Nat
    BY SidesSmaller
  <2>2. Sizes # {} /\ Sizes \subseteq Nat
    BY <2>1
  <2>3. PICK k \in Sizes : \A j \in Sizes : k <= j
    <3> HIDE DEF Sizes
    <3> QED BY <2>2, LeastNat
  <2>4. PICK n \in Bad : Cardinality(S[n]) = k
    BY <2>3
  <2>5. n \in N
    BY <2>4
  <2>6. \A c \in {L[n], R[n]} : c \notin Bad
    <3>1. \A c \in Bad : ~ (Cardinality(S[c]) < k)
      BY <2>1, <2>3
    <3> HIDE DEF Bad
    <3>2. Cardinality(S[L[n]]) < k /\ Cardinality(S[R[n]]) < k
      BY <2>4, <2>5, SidesSmaller
    <3> QED BY <3>1, <3>2
  <2>7. \A c \in {L[n], R[n]} : \A p \in S[c] : S[p] \subseteq S[c]
    BY <1>1, <2>5, <2>6
  <2>8. PICK p \in S[n] : ~ (S[p] \subseteq S[n])
    BY <2>4
  <2> HIDE DEF Bad
  <2>9. p = n \/ p \in S[L[n]] \/ p \in S[R[n]]
    BY <1>1, <2>5
  <2>10. S[L[n]] \subseteq S[n] /\ S[R[n]] \subseteq S[n]
    BY <1>1, <2>5
  <2> QED BY <2>7, <2>8, <2>9, <2>10
<1> QED BY <1>2

(* What has a node and the children of its members has all below the node. *)
LEMMA ClosedHasBelow ==
  ASSUME NEW N, NEW r, NEW L, NEW R, NEW D, NEW S, Shape(N, r, L, R, D, S), IsFiniteSet(N),
         NEW M, M \subseteq N, \A p \in M : L[p] \in M \cup {NIL} /\ R[p] \in M \cup {NIL}
  PROVE  \A n \in M : S[n] \subseteq M
<1>1. /\ L \in [N -> N \cup {NIL}] /\ R \in [N -> N \cup {NIL}]
      /\ S \in [N \cup {NIL} -> SUBSET N] /\ S[NIL] = {}
      /\ \A m \in N : S[m] = {m} \cup S[L[m]] \cup S[R[m]]
  BY DEF Shape, Split
<1> DEFINE Bad == {n \in M : ~ (S[n] \subseteq M)}
           Sizes == {k \in Nat : \E n \in Bad : Cardinality(S[n]) = k}
<1>2. Bad = {}
  <2> SUFFICES ASSUME Bad # {} PROVE FALSE
    OBVIOUS
  <2>1. \A n \in Bad : n \in N /\ Cardinality(S[n]) \in Nat
    BY SidesSmaller
  <2>2. Sizes # {} /\ Sizes \subseteq Nat
    BY <2>1
  <2>3. PICK k \in Sizes : \A j \in Sizes : k <= j
    <3> HIDE DEF Sizes
    <3> QED BY <2>2, LeastNat
  <2>4. PICK n \in Bad : Cardinality(S[n]) = k
    BY <2>3
  <2>5. n \in N /\ n \in M
    BY <2>4
  <2>6. \A c \in {L[n], R[n]} : c \notin Bad
    <3>1. \A c \in Bad : ~ (Cardinality(S[c]) < k)
      BY <2>1, <2>3
    <3> HIDE DEF Bad
    <3>2. Cardinality(S[L[n]]) < k /\ Cardinality(S[R[n]]) < k
      BY <2>4, <2>5, SidesSmaller
    <3> QED BY <3>1, <3>2
  <2>7. S[L[n]] \subseteq M /\ S[R[n]] \subseteq M
    BY <1>1, <2>5, <2>6
  <2>8. S[n] \subseteq M
    BY <1>1, <2>5, <2>7
  <2> QED BY <2>4, <2>8
<1> QED BY <1>2

(* The way to the right, from every node, ends at the greatest below it.   *)
LEMMA RightmostIs ==
  ASSUME NEW N, NEW r, NEW L, NEW R, NEW D, NEW S, Shape(N, r, L, R, D, S), IsFiniteSet(N),
         NEW f, \A m \in N : f[m] = IF R[m] = NIL THEN m ELSE f[R[m]]
  PROVE  \A n \in N : /\ f[n] \in S[n] /\ R[f[n]] = NIL
                      /\ \A y \in S[n] : D[y] <= D[f[n]]
<1>1. /\ L \in [N -> N \cup {NIL}] /\ R \in [N -> N \cup {NIL}] /\ NIL \notin N
      /\ D \in [N -> Int]
      /\ S \in [N \cup {NIL} -> SUBSET N] /\ S[NIL] = {}
      /\ \A m \in N : S[m] = {m} \cup S[L[m]] \cup S[R[m]]
  BY DEF Shape, Split
<1>2. \A m \in N : /\ m \in S[m]
                   /\ \A x \in S[L[m]] : D[x] < D[m]
                   /\ \A x \in S[R[m]] : D[m] < D[x]
  BY SidesApart DEF Shape, Sorted
<1> DEFINE Good(n) == /\ f[n] \in S[n] /\ R[f[n]] = NIL
                      /\ \A y \in S[n] : D[y] <= D[f[n]]
           Bad == {n \in N : ~ Good(n)}
           Sizes == {k \in Nat : \E n \in Bad : Cardinality(S[n]) = k}
<1>3. Bad = {}
  <2> SUFFICES ASSUME Bad # {} PROVE FALSE
    OBVIOUS
  <2>1. \A n \in Bad : n \in N /\ Cardinality(S[n]) \in Nat
    BY SidesSmaller
  <2>2. Sizes # {} /\ Sizes \subseteq Nat
    BY <2>1
  <2>3. PICK k \in Sizes : \A j \in Sizes : k <= j
    <3> HIDE DEF Sizes
    <3> QED BY <2>2, LeastNat
  <2>4. PICK n \in Bad : Cardinality(S[n]) = k
    BY <2>3
  <2>5. n \in N /\ ~ Good(n)
    BY <2>4
  <2>6. R[n] \notin Bad
    <3>1. \A c \in Bad : ~ (Cardinality(S[c]) < k)
      BY <2>1, <2>3
    <3> HIDE DEF Bad
    <3>2. Cardinality(S[R[n]]) < k
      BY <2>4, <2>5, SidesSmaller
    <3> QED BY <3>1, <3>2
  <2>7. R[n] # NIL => R[n] \in N /\ Good(R[n])
    <3> HIDE DEF Good
    <3> QED BY <1>1, <2>5, <2>6
  <2> HIDE DEF Bad
  <2>8. CASE R[n] = NIL
    <3>1. f[n] = n
      BY <2>5, <2>8
    <3>2. ASSUME NEW y \in S[n] PROVE D[y] <= D[n]
      <4>1. y \in N /\ (y = n \/ y \in S[L[n]])
        BY <1>1, <2>5, <2>8
      <4> QED BY <1>1, <1>2, <2>5, <4>1
    <3> QED BY <1>2, <2>5, <2>8, <3>1, <3>2
  <2>9. CASE R[n] # NIL
    <3>1. PICK c, e : c = R[n] /\ c \in N /\ e = f[c] /\ f[n] = e
      BY <2>5, <2>7, <2>9
    <3>2. e \in S[c] /\ R[e] = NIL /\ \A y \in S[c] : D[y] <= D[e]
      BY <2>7, <2>9, <3>1
    <3>3. S[c] \subseteq S[n] /\ c \in S[c] /\ e \in N /\ D[n] < D[c]
      BY <1>1, <1>2, <2>5, <3>1, <3>2
    <3>4. D[c] \in Int /\ D[e] \in Int /\ D[n] \in Int /\ D[c] <= D[e]
      BY <1>1, <2>5, <3>2, <3>3
    <3>5. ASSUME NEW y \in S[n] PROVE D[y] <= D[e]
      <4>1. y \in N /\ D[y] \in Int
        BY <1>1, <2>5
      <4>2. y = n \/ y \in S[L[n]] \/ y \in S[c]
        BY <1>1, <2>5, <3>1
      <4>3. y \in S[c] \/ D[y] <= D[n]
        BY <1>2, <2>5, <3>4, <4>1, <4>2
      <4> QED BY <3>2, <3>3, <3>4, <4>1, <4>3
    <3> QED BY <2>5, <3>1, <3>2, <3>3, <3>5
  <2> QED BY <2>8, <2>9
<1> HIDE DEF Good
<1>4. \A n \in N : Good(n)
  BY <1>3
<1> QED BY <1>4 DEF Good

(* ... and one to the left at the least.                                   *)
LEMMA LeftmostIs ==
  ASSUME NEW N, NEW r, NEW L, NEW R, NEW D, NEW S, Shape(N, r, L, R, D, S), IsFiniteSet(N),
         NEW f, \A m \in N : f[m] = IF L[m] = NIL THEN m ELSE f[L[m]]
  PROVE  \A n \in N : /\ f[n] \in S[n] /\ L[f[n]] = NIL
                      /\ \A y \in S[n] : D[f[n]] <= D[y]
<1>1. PICK E : E = [x \in N |-> -D[x]]
  OBVIOUS
<1>2. Shape(N, r, R, L, E, S)
  BY <1>1, MirrorIs
<1>3. \A n \in N : /\ f[n] \in S[n] /\ L[f[n]] = NIL
                   /\ \A y \in S[n] : E[y] <= E[f[n]]
  BY <1>2, RightmostIs
<1>4. S \in [N \cup {NIL} -> SUBSET N] /\ D \in [N -> Int]
  BY DEF Shape, Split
<1>5. ASSUME NEW n \in N, NEW y \in S[n] PROVE D[f[n]] <= D[y]
  <2>1. y \in N /\ f[n] \in N /\ E[y] <= E[f[n]]
    BY <1>3, <1>4
  <2>2. E[y] = -D[y] /\ E[f[n]] = -D[f[n]] /\ D[y] \in Int /\ D[f[n]] \in Int
    BY <1>1, <1>4, <2>1
  <2> QED BY <2>1, <2>2
<1> QED BY <1>3, <1>5

(* A search for v that has come to c, from p unless c is the root: the     *)
(* value is nowhere but below c, and a node that is not below p is on the  *)
(* same side of v as of p.                                                 *)
Found(N, r, L, R, D, S, v, c, p) ==
  /\ c \in N \cup {NIL} /\ p \in N \cup {NIL}
  /\ \A y \in N : D[y] = v => y \in S[c]
  /\ p = NIL => c = r
  /\ p # NIL =>
       /\ D[p] # v
       /\ c = IF v < D[p] THEN L[p] ELSE R[p]
       /\ \A y \in N \ S[p] : \/ D[y] < v /\ D[y] < D[p]
                              \/ v < D[y] /\ D[p] < D[y]

(* One turn of the search keeps what is known of the way.                  *)
LEMMA FoundOn ==
  ASSUME NEW N, NEW r, NEW L, NEW R, NEW D, NEW S, Shape(N, r, L, R, D, S),
         NEW v \in Int, NEW c \in N, NEW p, Found(N, r, L, R, D, S, v, c, p), D[c] # v,
         NEW q, q = IF v < D[c] THEN L[c] ELSE R[c]
  PROVE  Found(N, r, L, R, D, S, v, q, c)
<1>1. /\ L \in [N -> N \cup {NIL}] /\ R \in [N -> N \cup {NIL}] /\ NIL \notin N
      /\ D \in [N -> Int] /\ \A x, y \in N : D[x] = D[y] => x = y
      /\ S \in [N \cup {NIL} -> SUBSET N] /\ S[NIL] = {} /\ S[r] = N
      /\ \A m \in N : S[m] = {m} \cup S[L[m]] \cup S[R[m]]
  BY DEF Shape, Split
<1>2. \A m \in N : /\ m \in S[m]
                   /\ \A x \in S[L[m]] : D[x] < D[m]
                   /\ \A x \in S[R[m]] : D[m] < D[x]
                   /\ \A x \in S[m] : /\ D[x] < D[m] => x \in S[L[m]]
                                      /\ D[m] < D[x] => x \in S[R[m]]
  BY SidesApart DEF Shape, Sorted
<1>3. \A m, x, y, z \in N : x \in S[m] /\ z \in S[m] /\ D[x] < D[y] /\ D[y] < D[z] => y \in S[m]
  BY DEF Shape, Convex
<1>4. q \in N \cup {NIL} /\ D[c] \in Int
  BY <1>1
<1>5. ASSUME NEW y \in N, D[y] = v PROVE y \in S[q]
  <2>1. y \in S[c]
    BY <1>5 DEF Found
  <2>2. CASE v < D[c]
    BY <1>2, <1>5, <2>1, <2>2
  <2>3. CASE ~ (v < D[c])
    <3>1. D[c] < D[y]
      BY <1>4, <1>5, <2>3
    <3> QED BY <1>2, <1>5, <2>1, <2>3, <3>1
  <2> QED BY <2>2, <2>3
<1>6. ASSUME NEW y \in N \ S[c]
      PROVE  \/ D[y] < v /\ D[y] < D[c]
             \/ v < D[y] /\ D[c] < D[y]
  <2>1. y \in N /\ y # c /\ D[y] \in Int /\ D[y] # D[c]
    BY <1>1, <1>2, <1>6
  <2>2. p # NIL /\ p \in N
    BY <1>1, <1>6 DEF Found
  <2>3. /\ D[p] # v /\ c = (IF v < D[p] THEN L[p] ELSE R[p]) /\ D[p] \in Int
    BY <1>1, <2>2 DEF Found
  <2>4. c \in S[p] /\ p \in S[p]
    BY <1>1, <1>2, <2>2, <2>3
  <2>5. CASE y \notin S[p]
    <3>1. \/ D[y] < v /\ D[y] < D[p]
          \/ v < D[y] /\ D[p] < D[y]
      BY <2>1, <2>2, <2>5 DEF Found
    <3>2. ~ (D[c] < D[y] /\ D[y] < D[p]) /\ ~ (D[p] < D[y] /\ D[y] < D[c])
      BY <1>3, <2>1, <2>2, <2>4, <2>5
    <3> QED BY <1>4, <2>1, <2>3, <3>1, <3>2
  <2>6. CASE y \in S[p]
    <3>1. CASE v < D[p]
      <4>1. c = L[p] /\ D[c] < D[p]
        BY <1>2, <2>2, <2>3, <3>1
      <4>2. ~ (D[y] < D[p])
        BY <1>2, <1>6, <2>2, <2>6, <4>1
      <4> QED BY <1>4, <2>1, <2>3, <3>1, <4>1, <4>2
    <3>2. CASE D[p] < v
      <4>1. c = R[p] /\ D[p] < D[c]
        BY <1>2, <2>2, <2>3, <3>2
      <4>2. ~ (D[p] < D[y])
        BY <1>2, <1>6, <2>2, <2>6, <4>1
      <4> QED BY <1>4, <2>1, <2>3, <3>2, <4>1, <4>2
    <3> QED BY <2>3, <3>1, <3>2
  <2> QED BY <2>5, <2>6
<1> QED BY <1>1, <1>4, <1>5, <1>6 DEF Found

(* Where the search goes on from s.                                        *)
Turned(L, R, D, v, s) == <<IF v < D[s[1]] THEN L[s[1]] ELSE R[s[1]], s[1]>>

(* f says where the search ends that goes on from each s.                  *)
Seeks(N, L, R, D, v, f) ==
  \A s \in (N \cup {NIL}) \X (N \cup {NIL}) :
    f[s] = IF s[1] = NIL THEN s ELSE IF D[s[1]] = v THEN s ELSE f[Turned(L, R, D, v, s)]

(* So the search ends with the node of the value, or below its parent.     *)
LEMMA SearchEnds ==
  ASSUME NEW N, NEW r, NEW L, NEW R, NEW D, NEW S, Shape(N, r, L, R, D, S), IsFiniteSet(N),
         NEW v \in Int, NEW f, Seeks(N, L, R, D, v, f)
  PROVE  \E c, p : /\ f[<<r, NIL>>] = <<c, p>> /\ Found(N, r, L, R, D, S, v, c, p)
                   /\ c # NIL => D[c] = v
<1>1. /\ L \in [N -> N \cup {NIL}] /\ R \in [N -> N \cup {NIL}] /\ NIL \notin N
      /\ D \in [N -> Int] /\ r \in N \cup {NIL}
      /\ S \in [N \cup {NIL} -> SUBSET N] /\ S[NIL] = {} /\ S[r] = N
  BY DEF Shape, Split
<1> DEFINE Ended(s) == \E c, p : /\ f[s] = <<c, p>> /\ Found(N, r, L, R, D, S, v, c, p)
                                 /\ c # NIL => D[c] = v
           Bad == {s \in (N \cup {NIL}) \X (N \cup {NIL}) :
                     Found(N, r, L, R, D, S, v, s[1], s[2]) /\ ~ Ended(s)}
           Sizes == {k \in Nat : \E s \in Bad : Cardinality(S[s[1]]) = k}
<1>2. Bad = {}
  <2> SUFFICES ASSUME Bad # {} PROVE FALSE
    OBVIOUS
  <2> HIDE DEF Ended
  <2>1. \A s \in Bad : s[1] \in N \cup {NIL} /\ Cardinality(S[s[1]]) \in Nat
    BY SidesSmaller
  <2>2. Sizes # {} /\ Sizes \subseteq Nat
    BY <2>1
  <2>3. PICK k \in Sizes : \A j \in Sizes : k <= j
    <3> HIDE DEF Sizes
    <3> QED BY <2>2, LeastNat
  <2>4. PICK s \in Bad : Cardinality(S[s[1]]) = k
    BY <2>3
  <2>5. PICK c \in N \cup {NIL}, p \in N \cup {NIL} : s = <<c, p>>
    OBVIOUS
  <2>6. /\ s[1] = c /\ s[2] = p /\ Found(N, r, L, R, D, S, v, c, p) /\ ~ Ended(s)
        /\ f[s] = IF c = NIL THEN s ELSE IF D[c] = v THEN s ELSE f[Turned(L, R, D, v, s)]
    BY <2>5 DEF Seeks
  <2>7. \A t \in Bad : ~ (Cardinality(S[t[1]]) < k)
    BY <2>1, <2>3
  <2>8. ASSUME NEW q \in N \cup {NIL}, Found(N, r, L, R, D, S, v, q, c), c # NIL,
               Cardinality(S[q]) < k
        PROVE  Ended(<<q, c>>)
    <3>1. PICK t : t = <<q, c>>
      OBVIOUS
    <3>2. t \in (N \cup {NIL}) \X (N \cup {NIL}) /\ t[1] = q /\ t[2] = c
      BY <3>1
    <3>3. t \notin Bad
      BY <2>7, <2>8, <3>2
    <3> QED BY <2>8, <3>1, <3>2, <3>3
  <2> HIDE DEF Bad, Sizes
  <2>9. CASE c = NIL \/ D[c] = v
    <3>1. f[s] = <<c, p>>
      BY <2>5, <2>6, <2>9
    <3> QED BY <2>6, <2>9, <3>1 DEF Ended
  <2>10. CASE c # NIL /\ D[c] # v
    <3>1. PICK q : q = IF v < D[c] THEN L[c] ELSE R[c]
      OBVIOUS
    <3>2. c \in N /\ q \in N \cup {NIL} /\ q \in {L[c], R[c]}
      BY <1>1, <2>10, <3>1
    <3>3. Found(N, r, L, R, D, S, v, q, c)
      BY <2>6, <2>10, <3>1, <3>2, FoundOn
    <3>4. Cardinality(S[q]) < k
      <4>1. Cardinality(S[L[c]]) < Cardinality(S[c]) /\ Cardinality(S[R[c]]) < Cardinality(S[c])
        BY <3>2, SidesSmaller
      <4> QED BY <2>4, <2>6, <3>2, <4>1
    <3>5. Ended(<<q, c>>)
      BY <2>8, <2>10, <3>2, <3>3, <3>4
    <3>6. f[s] = f[<<q, c>>]
      BY <2>6, <2>10, <3>1 DEF Turned
    <3> QED BY <2>6, <3>5, <3>6 DEF Ended
  <2> QED BY <2>9, <2>10
<1>3. Found(N, r, L, R, D, S, v, r, NIL)
  BY <1>1 DEF Found
<1>4. PICK s : s = <<r, NIL>>
  OBVIOUS
<1>5. s \in (N \cup {NIL}) \X (N \cup {NIL}) /\ s[1] = r /\ s[2] = NIL
  BY <1>1, <1>4
<1> HIDE DEF Ended
<1>6. Ended(s)
  BY <1>2, <1>3, <1>5
<1> QED BY <1>4, <1>6 DEF Ended

-----------------------------------------------------------------------------
(* A tree as the code keeps it: its nodes are the memory it has, P is what *)
(* the data pointers may be and val what they point to.                    *)
NodeRecs(P) == [data : P, left : Nat, right : Nat, ref : Nat \ {0}]

Typed(T, P) ==
  /\ T \in [root : Nat, top : Nat, bottom : Nat, nodes : Int, dups : Int, node : {T.node}]
  /\ DOMAIN T.node \subseteq Nat \ {NIL} /\ IsFiniteSet(DOMAIN T.node)
  /\ T.node \in [DOMAIN T.node -> NodeRecs(P)]

(* N are nodes of T with the links L and R and the values D.               *)
Linked(T, val, N, L, R, D) ==
  /\ N \subseteq DOMAIN T.node
  /\ \A m \in N : /\ L[m] = T.node[m].left /\ R[m] = T.node[m].right
                  /\ D[m] = val[T.node[m].data]

(* _get_rightest_value: the greatest value of a side, in a node without a  *)
(* right child.                                                            *)
LEMMA RightestIs ==
  ASSUME NEW T, NEW P, Typed(T, P), NEW val, NEW N, NEW r, NEW L, NEW R, NEW D, NEW S,
         Linked(T, val, N, L, R, D), Shape(N, r, L, R, D, S), NEW n \in N \cup {NIL}
  PROVE  /\ n = NIL => Rightest(T, n) = NIL
         /\ n # NIL => /\ Rightest(T, n) \in S[n] /\ R[Rightest(T, n)] = NIL
                       /\ \A y \in S[n] : D[y] <= D[Rightest(T, n)]
<1> DEFINE Is(g) == g = [m \in Nat |-> IF m \notin DOMAIN T.node THEN m
                                       ELSE IF Right(T, m) = NIL THEN m
                                       ELSE g[Right(T, m)]]
           next == [m \in Nat |-> IF m \notin DOMAIN T.node THEN m
                                  ELSE IF Right(T, m) = NIL THEN m ELSE Right(T, m)]
<1>1. \A m \in DOMAIN T.node : Right(T, m) \in Nat
  BY DEF Typed, NodeRecs, Right
<1>2. /\ next \in [Nat -> Nat]
      /\ \A m \in Nat : next[m] = IF m \notin DOMAIN T.node THEN m
                                   ELSE IF Right(T, m) = NIL THEN m ELSE Right(T, m)
  BY <1>1
<1>3. \E g : Is(g)
  <2> HIDE DEF next
  <2>1. PICK g : Leads(Nat, next, g)
    BY <1>2, WalkExists, Zenon
  <2>2. \A m \in Nat : g[m] = IF m \notin DOMAIN T.node THEN m
                             ELSE IF Right(T, m) = NIL THEN m ELSE g[Right(T, m)]
    BY <1>2, <2>1 DEF Leads
  <2>3. g = [m \in Nat |-> g[m]]
    BY <2>1 DEF Leads
  <2>4. Is(g)
    BY <2>2, <2>3
  <2> QED BY <2>4
<1>4. PICK g : g = (CHOOSE f : Is(f)) /\ Is(g)
  <2> HIDE DEF Is
  <2> QED BY <1>3, Zenon
<1>5. Rightest(T, n) = g[n]
  <2>1. Rightest(T, n) = (CHOOSE f : Is(f))[n]
    BY DEF Rightest
  <2> QED BY <1>4, <2>1, Zenon
<1>6. \A m \in Nat : g[m] = IF m \notin DOMAIN T.node THEN m
                           ELSE IF Right(T, m) = NIL THEN m ELSE g[Right(T, m)]
  BY <1>4, Zenon
<1> HIDE DEF Is
<1>7. N \subseteq DOMAIN T.node /\ DOMAIN T.node \subseteq Nat \ {NIL} /\ IsFiniteSet(N)
  BY FS_Subset DEF Typed, Linked
<1>8. g[NIL] = NIL
  BY <1>6, <1>7 DEF NIL
<1>9. \A m \in N : g[m] = IF R[m] = NIL THEN m ELSE g[R[m]]
  BY <1>6, <1>7 DEF Linked, Right
<1>10. \A m \in N : /\ g[m] \in S[m] /\ R[g[m]] = NIL
                    /\ \A y \in S[m] : D[y] <= D[g[m]]
  BY <1>7, <1>9, RightmostIs
<1> QED BY <1>5, <1>8, <1>10

(* _get_leftest_value: the least one, in a node without a left child.      *)
LEMMA LeftestIs ==
  ASSUME NEW T, NEW P, Typed(T, P), NEW val, NEW N, NEW r, NEW L, NEW R, NEW D, NEW S,
         Linked(T, val, N, L, R, D), Shape(N, r, L, R, D, S), NEW n \in N \cup {NIL}
  PROVE  /\ n = NIL => Leftest(T, n) = NIL
         /\ n # NIL => /\ Leftest(T, n) \in S[n] /\ L[Leftest(T, n)] = NIL
                       /\ \A y \in S[n] : D[Leftest(T, n)] <= D[y]
<1> DEFINE Is(g) == g = [m \in Nat |-> IF m \notin DOMAIN T.node THEN m
                                       ELSE IF Left(T, m) = NIL THEN m
                                       ELSE g[Left(T, m)]]
           next == [m \in Nat |-> IF m \notin DOMAIN T.node THEN m
                                  ELSE IF Left(T, m) = NIL THEN m ELSE Left(T, m)]
<1>1. \A m \in DOMAIN T.node : Left(T, m) \in Nat
  BY DEF Typed, NodeRecs, Left
<1>2. /\ next \in [Nat -> Nat]
      /\ \A m \in Nat : next[m] = IF m \notin DOMAIN T.node THEN m
                                   ELSE IF Left(T, m) = NIL THEN m ELSE Left(T, m)
  BY <1>1
<1>3. \E g : Is(g)
  <2> HIDE DEF next
  <2>1. PICK g : Leads(Nat, next, g)
    BY <1>2, WalkExists, Zenon
  <2>2. \A m \in Nat : g[m] = IF m \notin DOMAIN T.node THEN m
                             ELSE IF Left(T, m) = NIL THEN m ELSE g[Left(T, m)]
    BY <1>2, <2>1 DEF Leads
  <2>3. g = [m \in Nat |-> g[m]]
    BY <2>1 DEF Leads
  <2>4. Is(g)
    BY <2>2, <2>3
  <2> QED BY <2>4
<1>4. PICK g : g = (CHOOSE f : Is(f)) /\ Is(g)
  <2> HIDE DEF Is
  <2> QED BY <1>3, Zenon
<1>5. Leftest(T, n) = g[n]
  <2>1. Leftest(T, n) = (CHOOSE f : Is(f))[n]
    BY DEF Leftest
  <2> QED BY <1>4, <2>1, Zenon
<1>6. \A m \in Nat : g[m] = IF m \notin DOMAIN T.node THEN m
                           ELSE IF Left(T, m) = NIL THEN m ELSE g[Left(T, m)]
  BY <1>4, Zenon
<1> HIDE DEF Is
<1>7. N \subseteq DOMAIN T.node /\ DOMAIN T.node \subseteq Nat \ {NIL} /\ IsFiniteSet(N)
  BY FS_Subset DEF Typed, Linked
<1>8. g[NIL] = NIL
  BY <1>6, <1>7 DEF NIL
<1>9. \A m \in N : g[m] = IF L[m] = NIL THEN m ELSE g[L[m]]
  BY <1>6, <1>7 DEF Linked, Left
<1>10. \A m \in N : /\ g[m] \in S[m] /\ L[g[m]] = NIL
                    /\ \A y \in S[m] : D[g[m]] <= D[y]
  BY <1>7, <1>9, LeftmostIs
<1> QED BY <1>5, <1>8, <1>10

(* L, R, D and S are the links, the values and the sides of T's nodes.     *)
Tree(T, P, val, L, R, D, S) ==
  /\ Typed(T, P) /\ val \in [P -> Int]
  /\ Linked(T, val, DOMAIN T.node, L, R, D)
  /\ Shape(DOMAIN T.node, T.root, L, R, D, S)

(* What _search_value finds in a whole tree.                               *)
LEMMA SearchIs ==
  ASSUME NEW T, NEW P, NEW val, NEW L, NEW R, NEW D, NEW S, Tree(T, P, val, L, R, D, S),
         NEW d \in P
  PROVE  \E c, p : /\ Search(T, val, d) = <<c, p>>
                   /\ Found(DOMAIN T.node, T.root, L, R, D, S, val[d], c, p)
                   /\ c # NIL => D[c] = val[d]
<1> USE DEF Tree
<1> DEFINE N == DOMAIN T.node
           v == val[d]
           on(s) == <<IF val[d] < val[T.node[s[1]].data] THEN Left(T, s[1]) ELSE Right(T, s[1]), s[1]>>
           Is(g) == g = [s \in Nat \X Nat |->
                           IF s[1] \notin DOMAIN T.node THEN s
                           ELSE IF val[T.node[s[1]].data] = val[d] THEN s
                           ELSE g[<<IF val[d] < val[T.node[s[1]].data] THEN Left(T, s[1])
                                                                      ELSE Right(T, s[1]), s[1]>>]]
           next == [s \in Nat \X Nat |->
                      IF s[1] \notin N THEN s ELSE IF val[T.node[s[1]].data] = v THEN s ELSE on(s)]
<1>1. \A m \in N : Left(T, m) \in Nat /\ Right(T, m) \in Nat
  BY DEF Typed, NodeRecs, Left, Right
<1>2. ASSUME NEW s \in Nat \X Nat, s[1] \in N PROVE on(s) \in Nat \X Nat
  <2>1. PICK q : q = IF val[d] < val[T.node[s[1]].data] THEN Left(T, s[1]) ELSE Right(T, s[1])
    OBVIOUS
  <2>2. q \in Nat /\ s[1] \in Nat
    BY <1>1, <1>2, <2>1
  <2> QED BY <2>1, <2>2
<1> HIDE DEF on
<1>3. /\ next \in [Nat \X Nat -> Nat \X Nat]
      /\ \A s \in Nat \X Nat :
           next[s] = IF s[1] \notin N THEN s ELSE IF val[T.node[s[1]].data] = v THEN s ELSE on(s)
  BY <1>2
<1>4. \E g : Is(g)
  <2> HIDE DEF next
  <2>1. PICK g : Leads(Nat \X Nat, next, g)
    BY <1>3, WalkExists, Zenon
  <2>2. ASSUME NEW s \in Nat \X Nat
        PROVE  g[s] = IF s[1] \notin N THEN s ELSE IF val[T.node[s[1]].data] = v THEN s ELSE g[on(s)]
    BY <1>3, <2>1 DEF Leads
  <2>3. g = [s \in Nat \X Nat |-> g[s]]
    BY <2>1 DEF Leads
  <2>4. g = [s \in Nat \X Nat |->
               IF s[1] \notin N THEN s ELSE IF val[T.node[s[1]].data] = v THEN s ELSE g[on(s)]]
    BY <2>2, <2>3
  <2>5. Is(g)
    BY <2>4, Zenon DEF on
  <2> QED BY <2>5
<1>5. PICK g : g = (CHOOSE f : Is(f)) /\ Is(g)
  <2> HIDE DEF Is
  <2> QED BY <1>4, Zenon
<1>6. Search(T, val, d) = g[<<T.root, NIL>>]
  <2>1. Search(T, val, d) = (CHOOSE f : Is(f))[<<T.root, NIL>>]
    BY DEF Search
  <2> QED BY <1>5, <2>1, Zenon
<1>7. \A s \in Nat \X Nat :
        g[s] = IF s[1] \notin N THEN s ELSE IF val[T.node[s[1]].data] = v THEN s ELSE g[on(s)]
  BY <1>5, Zenon DEF on
<1> HIDE DEF Is
<1>8. /\ N \subseteq Nat \ {NIL} /\ IsFiniteSet(N) /\ v \in Int
      /\ \A m \in N : L[m] = T.node[m].left /\ R[m] = T.node[m].right /\ D[m] = val[T.node[m].data]
  BY DEF Typed, Linked
<1>9. ASSUME NEW s \in (N \cup {NIL}) \X (N \cup {NIL})
      PROVE  g[s] = IF s[1] = NIL THEN s ELSE IF D[s[1]] = v THEN s ELSE g[Turned(L, R, D, v, s)]
  <2>1. PICK c \in N \cup {NIL} : c = s[1]
    OBVIOUS
  <2>2. s \in Nat \X Nat
    BY <1>8 DEF NIL
  <2>3. g[s] = IF c \notin N THEN s ELSE IF val[T.node[c].data] = v THEN s ELSE g[on(s)]
    BY <1>7, <2>1, <2>2
  <2>4. c = NIL <=> c \notin N
    BY <1>8
  <2>5. c \in N => on(s) = Turned(L, R, D, v, s) /\ val[T.node[c].data] = D[c]
    BY <1>8, <2>1 DEF on, Turned, Left, Right
  <2> QED BY <2>1, <2>3, <2>4, <2>5
<1>10. Seeks(N, L, R, D, v, g)
  BY <1>9, Zenon DEF Seeks
<1>11. \E c, p : /\ g[<<T.root, NIL>>] = <<c, p>> /\ Found(N, T.root, L, R, D, S, v, c, p)
                 /\ c # NIL => D[c] = v
  BY <1>8, <1>10, SearchEnds
<1> QED BY <1>6, <1>11

-----------------------------------------------------------------------------
(* top and bottom, if there are nodes, are the greatest and the least.     *)
Ends(T, val) ==
  \A n \in DOMAIN T.node :
    /\ T.top \in DOMAIN T.node /\ val[T.node[n].data] <= val[T.node[T.top].data]
    /\ T.bottom \in DOMAIN T.node /\ val[T.node[T.bottom].data] <= val[T.node[n].data]

(* U is T when c has taken the place of n, which is to be trashed.         *)
Cut(T, U, n, c) ==
  /\ U.root = (IF n = T.root THEN c ELSE T.root) /\ U.top = T.top /\ U.bottom = T.bottom
  /\ DOMAIN U.node = DOMAIN T.node
  /\ \A m \in DOMAIN T.node \ {n} :
       /\ U.node[m].data = T.node[m].data /\ U.node[m].ref = T.node[m].ref
       /\ U.node[m].left = (IF T.node[m].left = n THEN c ELSE T.node[m].left)
       /\ U.node[m].right = (IF T.node[m].right = n THEN c ELSE T.node[m].right)
  /\ U.node[n].left \in {NIL, T.node[n].left} /\ U.node[n].right \in {NIL, T.node[n].right}

(* The pointer to n, wherever it is, is relinked.                          *)
LEMMA RelinkIs ==
  ASSUME NEW T, NEW P, NEW val, NEW L, NEW R, NEW D, NEW S, Tree(T, P, val, L, R, D, S),
         NEW n \in DOMAIN T.node, NEW c \in Nat, NEW p,
         \/ p = NIL /\ n = T.root
         \/ p \in DOMAIN T.node /\ (L[p] = n \/ R[p] = n)
  PROVE  /\ Typed(Relink(T, n, p, c), P) /\ Cut(T, Relink(T, n, p, c), n, c)
         /\ Relink(T, n, p, c).nodes = T.nodes /\ Relink(T, n, p, c).dups = T.dups
         /\ Relink(T, n, p, c).node[n].left = T.node[n].left
         /\ Relink(T, n, p, c).node[n].right = T.node[n].right
<1> USE DEF Tree
<1>1. /\ T \in [root : Nat, top : Nat, bottom : Nat, nodes : Int, dups : Int, node : {T.node}]
      /\ DOMAIN T.node \subseteq Nat \ {NIL} /\ IsFiniteSet(DOMAIN T.node)
      /\ T.node \in [DOMAIN T.node -> NodeRecs(P)]
  BY DEF Typed
<1>2. /\ \A m \in DOMAIN T.node : L[m] = n \/ R[m] = n => n # T.root
      /\ \A m, q \in DOMAIN T.node : (L[m] = n \/ R[m] = n) /\ (L[q] = n \/ R[q] = n) => m = q
      /\ \A m \in DOMAIN T.node : ~ (L[m] = n /\ R[m] = n)
  BY OneParent
<1>3. L[n] # n /\ R[n] # n
  BY SidesApart
<1>4. \A m \in DOMAIN T.node : L[m] = T.node[m].left /\ R[m] = T.node[m].right
  BY DEF Linked
<1>5. CASE p = NIL
  <2>1. PICK U : U = [T EXCEPT !.root = c]
    OBVIOUS
  <2>2. Relink(T, n, p, c) = U /\ n = T.root
    BY <1>1, <1>5, <2>1 DEF Relink
  <2>3. /\ U \in [root : Nat, top : Nat, bottom : Nat, nodes : Int, dups : Int, node : {T.node}]
        /\ U.root = c /\ U.top = T.top /\ U.bottom = T.bottom /\ U.node = T.node
        /\ U.nodes = T.nodes /\ U.dups = T.dups
    BY <1>1, <2>1
  <2>4. Typed(U, P)
    BY <1>1, <2>3 DEF Typed
  <2>5. Cut(T, U, n, c)
    BY <1>2, <1>4, <2>2, <2>3 DEF Cut
  <2> QED BY <2>2, <2>3, <2>4, <2>5
<1>6. CASE p # NIL
  <2>1. p \in DOMAIN T.node /\ p # n /\ n # T.root
    BY <1>2, <1>3, <1>6
  <2>2. PICK x : x = T.node[p] /\ x \in NodeRecs(P)
    BY <1>1, <2>1
  <2>3. PICK y : y = (IF T.node[p].left = n THEN [x EXCEPT !.left = c] ELSE [x EXCEPT !.right = c])
    OBVIOUS
  <2>4. /\ y \in NodeRecs(P) /\ y.data = x.data /\ y.ref = x.ref
        /\ y.left = (IF x.left = n THEN c ELSE x.left)
        /\ y.right = (IF x.right = n THEN c ELSE x.right)
    <3>1. x.left = n \/ x.right = n
      BY <1>4, <1>6, <2>1, <2>2
    <3>2. ~ (x.left = n /\ x.right = n)
      BY <1>2, <1>4, <2>1, <2>2
    <3> QED BY <2>2, <2>3, <3>1, <3>2 DEF NodeRecs
  <2>5. PICK V : V = [T.node EXCEPT ![p] = y]
    OBVIOUS
  <2>6. PICK U : U = [T EXCEPT !.node = V]
    OBVIOUS
  <2>7. Relink(T, n, p, c) = U
    BY <1>1, <1>6, <2>1, <2>2, <2>3, <2>5, <2>6 DEF Relink, Left
  <2>8. /\ DOMAIN V = DOMAIN T.node /\ V \in [DOMAIN T.node -> NodeRecs(P)]
        /\ V[p] = y /\ \A m \in DOMAIN T.node : m # p => V[m] = T.node[m]
    BY <1>1, <2>1, <2>4, <2>5
  <2>9. /\ U \in [root : Nat, top : Nat, bottom : Nat, nodes : Int, dups : Int, node : {V}]
        /\ U.root = T.root /\ U.top = T.top /\ U.bottom = T.bottom /\ U.node = V
        /\ U.nodes = T.nodes /\ U.dups = T.dups
    BY <1>1, <2>6
  <2>10. Typed(U, P)
    BY <1>1, <2>8, <2>9 DEF Typed
  <2>11. ASSUME NEW m \in DOMAIN T.node
         PROVE  /\ V[m].data = T.node[m].data /\ V[m].ref = T.node[m].ref
                /\ V[m].left = (IF T.node[m].left = n THEN c ELSE T.node[m].left)
                /\ V[m].right = (IF T.node[m].right = n THEN c ELSE T.node[m].right)
    <3>1. CASE m = p
      BY <2>2, <2>4, <2>8, <3>1
    <3>2. CASE m # p
      <4>1. V[m] = T.node[m]
        BY <2>8, <3>2
      <4>2. T.node[m].left # n /\ T.node[m].right # n
        BY <1>2, <1>4, <1>6, <2>1, <3>2
      <4> QED BY <4>1, <4>2
    <3> QED BY <3>1, <3>2
  <2>12. V[n] = T.node[n]
    BY <2>1, <2>8
  <2>13. Cut(T, U, n, c)
    BY <2>1, <2>8, <2>9, <2>11, <2>12 DEF Cut
  <2> QED BY <2>7, <2>9, <2>10, <2>12, <2>13
<1> QED BY <1>5, <1>6

(* A tree whose nodes have their values in order, with top and bottom as   *)
(* they should be.                                                         *)
Shaped(T, val) ==
  \E L, R, D, S : /\ Linked(T, val, DOMAIN T.node, L, R, D)
                  /\ Shape(DOMAIN T.node, T.root, L, R, D, S)

Sound(T, P, val) == Typed(T, P) /\ Shaped(T, val) /\ Ends(T, val)

(* U is T but for top and bottom.                                          *)
SameButEnds(T, U) ==
  /\ U.root = T.root /\ U.node = T.node /\ U.nodes = T.nodes /\ U.dups = T.dups

(* The way from y leads to the greatest of M, if it is a node with nothing *)
(* greater than what is below it.                                          *)
LEMMA RefreshTopIs ==
  ASSUME NEW T, NEW P, Typed(T, P), NEW val, NEW N, NEW L, NEW R, NEW D, NEW S,
         Linked(T, val, N, L, R, D), Shape(N, T.root, L, R, D, S),
         T.node[T.top].left # NIL =>
           /\ T.node[T.top].left \in N
           /\ \A y \in N : \A z \in S[T.node[T.top].left] :
                y \in S[T.node[T.top].left] \/ D[y] <= D[z]
  PROVE  /\ Typed(RefreshTop(T), P) /\ SameButEnds(T, RefreshTop(T))
         /\ RefreshTop(T).bottom = T.bottom
         /\ \A y \in N : RefreshTop(T).top \in N /\ D[y] <= D[RefreshTop(T).top]
<1>1. /\ T \in [root : Nat, top : Nat, bottom : Nat, nodes : Int, dups : Int, node : {T.node}]
      /\ DOMAIN T.node \subseteq Nat \ {NIL} /\ IsFiniteSet(DOMAIN T.node)
      /\ T.node \in [DOMAIN T.node -> NodeRecs(P)]
  BY DEF Typed
<1>2. /\ T.root \in N \cup {NIL} /\ NIL \notin N /\ D \in [N -> Int]
      /\ S \in [N \cup {NIL} -> SUBSET N] /\ S[T.root] = N /\ S[NIL] = {}
  BY DEF Shape, Split
<1>3. PICK y0 : y0 = IF T.node[T.top].left # NIL THEN T.node[T.top].left ELSE T.root
  OBVIOUS
<1>4. y0 \in N \cup {NIL}
  BY <1>2, <1>3
<1>5. PICK t : t = Rightest(T, y0)
  OBVIOUS
<1>6. /\ y0 = NIL => t = NIL
      /\ y0 # NIL => /\ t \in S[y0] /\ R[t] = NIL
                     /\ \A y \in S[y0] : D[y] <= D[t]
  BY <1>4, <1>5, RightestIs
<1>7. t \in Nat
  BY <1>1, <1>2, <1>4, <1>6 DEF Linked, NIL
<1>8. PICK U : U = [T EXCEPT !.top = t]
  OBVIOUS
<1>9. U = RefreshTop(T)
  BY <1>1, <1>3, <1>5, <1>8 DEF RefreshTop, Left
<1>10. /\ U \in [root : Nat, top : Nat, bottom : Nat, nodes : Int, dups : Int, node : {T.node}]
       /\ U.node = T.node /\ U.top = t /\ U.bottom = T.bottom
       /\ U.root = T.root /\ U.nodes = T.nodes /\ U.dups = T.dups
  BY <1>1, <1>7, <1>8
<1>11. Typed(U, P) /\ SameButEnds(T, U)
  BY <1>1, <1>10 DEF Typed, SameButEnds
<1>12. ASSUME NEW y \in N PROVE t \in N /\ D[y] <= D[t]
  <2>1. y0 # NIL
    BY <1>2, <1>3, <1>12
  <2>2. t \in S[y0] /\ t \in N /\ \A x \in S[y0] : D[x] <= D[t]
    BY <1>2, <1>4, <1>6, <2>1
  <2>3. y \in S[y0] \/ D[y] <= D[t]
    BY <1>2, <1>3, <1>12, <2>2
  <2> QED BY <2>2, <2>3
<1> QED BY <1>9, <1>10, <1>11, <1>12

(* And, in the mirror, to the least.                                       *)
LEMMA RefreshBottomIs ==
  ASSUME NEW T, NEW P, Typed(T, P), NEW val, NEW N, NEW L, NEW R, NEW D, NEW S,
         Linked(T, val, N, L, R, D), Shape(N, T.root, L, R, D, S),
         T.node[T.bottom].right # NIL =>
           /\ T.node[T.bottom].right \in N
           /\ \A y \in N : \A z \in S[T.node[T.bottom].right] :
                y \in S[T.node[T.bottom].right] \/ D[z] <= D[y]
  PROVE  /\ Typed(RefreshBottom(T), P) /\ SameButEnds(T, RefreshBottom(T))
         /\ RefreshBottom(T).top = T.top
         /\ \A y \in N : RefreshBottom(T).bottom \in N /\ D[RefreshBottom(T).bottom] <= D[y]
<1>1. /\ T \in [root : Nat, top : Nat, bottom : Nat, nodes : Int, dups : Int, node : {T.node}]
      /\ DOMAIN T.node \subseteq Nat \ {NIL} /\ IsFiniteSet(DOMAIN T.node)
      /\ T.node \in [DOMAIN T.node -> NodeRecs(P)]
  BY DEF Typed
<1>2. /\ T.root \in N \cup {NIL} /\ NIL \notin N /\ D \in [N -> Int]
      /\ S \in [N \cup {NIL} -> SUBSET N] /\ S[T.root] = N /\ S[NIL] = {}
  BY DEF Shape, Split
<1>3. PICK y0 : y0 = IF T.node[T.bottom].right # NIL THEN T.node[T.bottom].right ELSE T.root
  OBVIOUS
<1>4. y0 \in N \cup {NIL}
  BY <1>2, <1>3
<1>5. PICK t : t = Leftest(T, y0)
  OBVIOUS
<1>6. /\ y0 = NIL => t = NIL
      /\ y0 # NIL => /\ t \in S[y0] /\ L[t] = NIL
                     /\ \A y \in S[y0] : D[t] <= D[y]
  BY <1>4, <1>5, LeftestIs
<1>7. t \in Nat
  BY <1>1, <1>2, <1>4, <1>6 DEF Linked, NIL
<1>8. PICK U : U = [T EXCEPT !.bottom = t]
  OBVIOUS
<1>9. U = RefreshBottom(T)
  BY <1>1, <1>3, <1>5, <1>8 DEF RefreshBottom, Right
<1>10. /\ U \in [root : Nat, top : Nat, bottom : Nat, nodes : Int, dups : Int, node : {T.node}]
       /\ U.node = T.node /\ U.bottom = t /\ U.top = T.top
       /\ U.root = T.root /\ U.nodes = T.nodes /\ U.dups = T.dups
  BY <1>1, <1>7, <1>8
<1>11. Typed(U, P) /\ SameButEnds(T, U)
  BY <1>1, <1>10 DEF Typed, SameButEnds
<1>12. ASSUME NEW y \in N PROVE t \in N /\ D[t] <= D[y]
  <2>1. y0 # NIL
    BY <1>2, <1>3, <1>12
  <2>2. t \in S[y0] /\ t \in N /\ \A x \in S[y0] : D[t] <= D[x]
    BY <1>2, <1>4, <1>6, <2>1
  <2>3. y \in S[y0] \/ D[t] <= D[y]
    BY <1>2, <1>3, <1>12, <2>2
  <2> QED BY <2>2, <2>3
<1> QED BY <1>9, <1>10, <1>11, <1>12

(* What is left of T without n.                                            *)
Rid(T, W, n) ==
  /\ DOMAIN W.node = DOMAIN T.node \ {n}
  /\ \A m \in DOMAIN T.node \ {n} : /\ W.node[m].data = T.node[m].data
                                    /\ W.node[m].ref = T.node[m].ref

(* What is next to the greatest node is below its left side, or no greater *)
(* than all of that: a node that is not below n has no value between those *)
(* below n.                                                                *)
LEMMA NextIsBelow ==
  ASSUME NEW N, NEW r, NEW L, NEW R, NEW D, NEW S, Shape(N, r, L, R, D, S),
         NEW n \in N, NEW y \in N, y # n
  PROVE  /\ D[y] <= D[n] => \A z \in S[L[n]] : y \in S[L[n]] \/ D[y] <= D[z]
         /\ D[n] <= D[y] => \A z \in S[R[n]] : y \in S[R[n]] \/ D[z] <= D[y]
<1>1. /\ D \in [N -> Int] /\ \A x, z \in N : D[x] = D[z] => x = z
      /\ S[n] = {n} \cup S[L[n]] \cup S[R[n]]
  BY DEF Shape, Split
<1>2. /\ S[L[n]] \subseteq N /\ S[R[n]] \subseteq N /\ n \in S[n]
      /\ \A x \in S[n] : /\ D[x] < D[n] => x \in S[L[n]]
                         /\ D[n] < D[x] => x \in S[R[n]]
  BY SidesApart
<1>3. /\ \A x \in S[L[n]] : D[x] < D[n]
      /\ \A x \in S[R[n]] : D[n] < D[x]
  BY DEF Shape, Sorted
<1>4. \A x, z \in N : x \in S[n] /\ z \in S[n] /\ D[x] < D[y] /\ D[y] < D[z] => y \in S[n]
  BY DEF Shape, Convex
<1>5. D[y] \in Int /\ D[n] \in Int /\ D[y] # D[n]
  BY <1>1
<1>6. ASSUME D[y] <= D[n], NEW z \in S[L[n]], ~ (D[y] <= D[z]) PROVE y \in S[L[n]]
  <2>1. z \in N /\ z \in S[n] /\ D[z] \in Int
    BY <1>1, <1>2
  <2>2. D[z] < D[y] /\ D[y] < D[n]
    BY <1>5, <1>6, <2>1
  <2> QED BY <1>2, <1>4, <2>1, <2>2
<1>7. ASSUME D[n] <= D[y], NEW z \in S[R[n]], ~ (D[z] <= D[y]) PROVE y \in S[R[n]]
  <2>1. z \in N /\ z \in S[n] /\ D[z] \in Int
    BY <1>1, <1>2
  <2>2. D[y] < D[z] /\ D[n] < D[y]
    BY <1>5, <1>7, <2>1
  <2> QED BY <1>2, <1>4, <2>1, <2>2
<1> QED BY <1>6, <1>7

(* _trash_bintreenode of the node that was cut off: top and bottom are     *)
(* repaired before its memory goes.                                        *)
LEMMA TrashIs ==
  ASSUME NEW T, NEW P, NEW val, NEW L, NEW R, NEW D, NEW S, Tree(T, P, val, L, R, D, S),
         Ends(T, val),
         NEW n \in DOMAIN T.node, NEW c, (L[n] = NIL /\ c = R[n]) \/ (R[n] = NIL /\ c = L[n]),
         NEW U, Typed(U, P), Cut(T, U, n, c)
  PROVE  /\ Sound(Trash(U, n), P, val) /\ Rid(T, Trash(U, n), n)
         /\ Trash(U, n).nodes = U.nodes /\ Trash(U, n).dups = U.dups
<1> USE DEF Tree
<1> DEFINE N == DOMAIN T.node
           M == N \ {n}
<1>1. PICK A, B, E, Z : /\ A = [m \in M |-> IF L[m] = n THEN c ELSE L[m]]
                        /\ B = [m \in M |-> IF R[m] = n THEN c ELSE R[m]]
                        /\ E = [m \in M |-> D[m]]
                        /\ Z = [m \in M \cup {NIL} |-> S[m] \ {n}]
  OBVIOUS
<1>2. \A m \in N : L[m] = T.node[m].left /\ R[m] = T.node[m].right /\ D[m] = val[T.node[m].data]
  BY DEF Linked
<1>3. /\ U.root = (IF n = T.root THEN c ELSE T.root) /\ U.top = T.top /\ U.bottom = T.bottom
      /\ DOMAIN U.node = N
      /\ \A m \in M :
           /\ U.node[m].data = T.node[m].data /\ U.node[m].ref = T.node[m].ref
           /\ U.node[m].left = (IF T.node[m].left = n THEN c ELSE T.node[m].left)
           /\ U.node[m].right = (IF T.node[m].right = n THEN c ELSE T.node[m].right)
      /\ U.node[n].left \in {NIL, L[n]} /\ U.node[n].right \in {NIL, R[n]}
  BY <1>2 DEF Cut
<1>4. Shape(M, U.root, A, B, E, Z)
  <2>1. CutsOff(N, T.root, L, R, D, S, n, c, M, U.root, A, B, E, Z)
    BY <1>1, <1>3 DEF CutsOff
  <2> QED BY <2>1, CutIs
<1>5. Linked(U, val, M, A, B, E)
  BY <1>1, <1>2, <1>3 DEF Linked
<1>6. /\ D \in [N -> Int] /\ NIL \notin N
      /\ L \in [N -> N \cup {NIL}] /\ R \in [N -> N \cup {NIL}]
  BY DEF Shape
<1>7. n \notin S[L[n]] /\ n \notin S[R[n]]
      /\ \A m \in N : m \in S[m]
  BY SidesApart
<1>8. /\ L[n] # NIL => L[n] \in M /\ Z[L[n]] = S[L[n]]
      /\ R[n] # NIL => R[n] \in M /\ Z[R[n]] = S[R[n]]
  <2>1. L[n] # n /\ R[n] # n
    BY <1>7
  <2>2. \A m \in M : Z[m] = S[m] \ {n}
    BY <1>1
  <2>3. S[L[n]] \ {n} = S[L[n]] /\ S[R[n]] \ {n} = S[R[n]]
    BY <1>7
  <2> QED BY <1>6, <2>1, <2>2, <2>3
<1>9. \A y \in N : /\ T.top \in N /\ D[y] <= D[T.top]
                   /\ T.bottom \in N /\ D[T.bottom] <= D[y]
  BY <1>2 DEF Ends
<1>10. \A y \in M : y \in N /\ y # n /\ E[y] = D[y]
  BY <1>1
<1>11. PICK U1 : U1 = IF n = U.top THEN RefreshTop(U) ELSE U
  OBVIOUS
<1> HIDE DEF M, N
<1>12. /\ Typed(U1, P) /\ SameButEnds(U, U1) /\ U1.bottom = T.bottom
       /\ \A y \in M : U1.top \in M /\ E[y] <= E[U1.top]
  <2>1. CASE n # T.top
    <3>1. \A y \in M : U.top \in M /\ E[y] <= E[U.top]
      BY <1>1, <1>3, <1>9, <1>10, <2>1 DEF M
    <3> QED BY <1>3, <1>11, <2>1, <3>1 DEF SameButEnds
  <2>2. CASE n = T.top
    <3>1. ASSUME U.node[U.top].left # NIL
          PROVE  /\ U.node[U.top].left \in M
                 /\ \A y \in M : \A z \in Z[U.node[U.top].left] :
                      y \in Z[U.node[U.top].left] \/ E[y] <= E[z]
      <4>1. U.node[U.top].left = L[n] /\ L[n] # NIL
        BY <1>3, <2>2, <3>1
      <4>2. L[n] \in M /\ Z[L[n]] = S[L[n]]
        BY <1>8, <4>1
      <4>3. S[L[n]] \subseteq M
        BY <1>7, SidesApart DEF M, N
      <4>4. ASSUME NEW y \in M, NEW z \in S[L[n]] PROVE y \in S[L[n]] \/ E[y] <= E[z]
        <5>1. D[y] <= D[n] /\ y \in N /\ y # n /\ n \in N
          BY <1>9, <1>10, <2>2 DEF N
        <5>2. y \in S[L[n]] \/ D[y] <= D[z]
          BY <5>1, NextIsBelow DEF N
        <5> QED BY <1>10, <4>3, <5>2
      <4> QED BY <4>1, <4>2, <4>4
    <3>2. /\ Typed(RefreshTop(U), P) /\ SameButEnds(U, RefreshTop(U))
          /\ RefreshTop(U).bottom = U.bottom
          /\ \A y \in M : RefreshTop(U).top \in M /\ E[y] <= E[RefreshTop(U).top]
      BY <1>4, <1>5, <3>1, RefreshTopIs
    <3> QED BY <1>3, <1>11, <2>2, <3>2
  <2> QED BY <2>1, <2>2
<1>13. U1.root = U.root /\ U1.node = U.node /\ U1.nodes = U.nodes /\ U1.dups = U.dups
  BY <1>12 DEF SameButEnds
<1>14. Shape(M, U1.root, A, B, E, Z) /\ Linked(U1, val, M, A, B, E)
  BY <1>4, <1>5, <1>13 DEF Linked
<1>15. PICK U2 : U2 = IF n = U1.bottom THEN RefreshBottom(U1) ELSE U1
  OBVIOUS
<1>16. /\ Typed(U2, P) /\ SameButEnds(U1, U2) /\ U2.top = U1.top
       /\ \A y \in M : U2.bottom \in M /\ E[U2.bottom] <= E[y]
  <2>1. CASE n # T.bottom
    <3>1. \A y \in M : U1.bottom \in M /\ E[U1.bottom] <= E[y]
      BY <1>1, <1>9, <1>10, <1>12, <2>1 DEF M
    <3> QED BY <1>12, <1>15, <2>1, <3>1 DEF SameButEnds
  <2>2. CASE n = T.bottom
    <3>1. ASSUME U1.node[U1.bottom].right # NIL
          PROVE  /\ U1.node[U1.bottom].right \in M
                 /\ \A y \in M : \A z \in Z[U1.node[U1.bottom].right] :
                      y \in Z[U1.node[U1.bottom].right] \/ E[z] <= E[y]
      <4>1. U1.node[U1.bottom].right = R[n] /\ R[n] # NIL
        BY <1>3, <1>12, <1>13, <2>2, <3>1
      <4>2. R[n] \in M /\ Z[R[n]] = S[R[n]]
        BY <1>8, <4>1
      <4>3. S[R[n]] \subseteq M
        BY <1>7, SidesApart DEF M, N
      <4>4. ASSUME NEW y \in M, NEW z \in S[R[n]] PROVE y \in S[R[n]] \/ E[z] <= E[y]
        <5>1. D[n] <= D[y] /\ y \in N /\ y # n /\ n \in N
          BY <1>9, <1>10, <2>2 DEF N
        <5>2. y \in S[R[n]] \/ D[z] <= D[y]
          BY <5>1, NextIsBelow DEF N
        <5> QED BY <1>10, <4>3, <5>2
      <4> QED BY <4>1, <4>2, <4>4
    <3>2. /\ Typed(RefreshBottom(U1), P) /\ SameButEnds(U1, RefreshBottom(U1))
          /\ RefreshBottom(U1).top = U1.top
          /\ \A y \in M : RefreshBottom(U1).bottom \in M /\ E[RefreshBottom(U1).bottom] <= E[y]
      BY <1>12, <1>14, <3>1, RefreshBottomIs
    <3> QED BY <1>12, <1>15, <2>2, <3>2
  <2> QED BY <2>1, <2>2
<1>17. U2.root = U.root /\ U2.node = U.node /\ U2.nodes = U.nodes /\ U2.dups = U.dups
  BY <1>13, <1>16 DEF SameButEnds
<1>18. Repair(U, n) = U2
  BY <1>11, <1>15, Zenon DEF Repair
<1>19. PICK W : W = Trash(U, n)
  OBVIOUS
<1>20. PICK V : V = [m \in M |-> U.node[m]]
  OBVIOUS
<1>21. W = [U2 EXCEPT !.node = V]
  <2>1. U2 \in [root : Nat, top : Nat, bottom : Nat, nodes : Int, dups : Int, node : {U2.node}]
    BY <1>16 DEF Typed
  <2>2. M = DOMAIN U2.node \ {n} /\ U2.node = U.node
    BY <1>3, <1>17 DEF M
  <2>3. V = [m \in DOMAIN U2.node \ {n} |-> U2.node[m]]
    BY <1>20, <2>2
  <2>4. W = Release(U2, n)
    BY <1>18, <1>19, Zenon DEF Trash
  <2> QED BY <2>1, <2>3, <2>4 DEF Release
<1>22. /\ W \in [root : Nat, top : Nat, bottom : Nat, nodes : Int, dups : Int, node : {V}]
       /\ W.root = U.root /\ W.top = U2.top /\ W.bottom = U2.bottom
       /\ W.nodes = U.nodes /\ W.dups = U.dups /\ W.node = V
  <2>1. U2 \in [root : Nat, top : Nat, bottom : Nat, nodes : Int, dups : Int, node : {U2.node}]
    BY <1>16 DEF Typed
  <2> QED BY <1>17, <1>21, <2>1
<1>23. DOMAIN V = M /\ \A m \in M : V[m] = U.node[m]
  BY <1>20
<1>24. Typed(W, P)
  <2>1. /\ N \subseteq Nat \ {NIL} /\ IsFiniteSet(N) /\ U.node \in [N -> NodeRecs(P)]
    BY <1>3 DEF Typed, N
  <2>2. M \subseteq Nat \ {NIL} /\ IsFiniteSet(M)
    BY <2>1, FS_Subset DEF M
  <2>3. V \in [M -> NodeRecs(P)]
    BY <1>20, <2>1 DEF M
  <2> QED BY <1>22, <1>23, <2>2, <2>3 DEF Typed
<1>25. Shaped(W, val)
  <2>1. Linked(W, val, M, A, B, E)
    BY <1>5, <1>22, <1>23 DEF Linked
  <2> QED BY <1>4, <1>22, <1>23, <2>1 DEF Shaped
<1>26. \A m \in M : W.node[m].data = T.node[m].data /\ W.node[m].ref = T.node[m].ref
  BY <1>3, <1>22, <1>23
<1>27. Ends(W, val)
  <2>1. \A m \in M : E[m] = val[W.node[m].data]
    BY <1>2, <1>10, <1>26
  <2>2. \A y \in M : /\ W.top \in M /\ E[y] <= E[W.top]
                     /\ W.bottom \in M /\ E[W.bottom] <= E[y]
    BY <1>12, <1>16, <1>22
  <2> QED BY <1>22, <1>23, <2>1, <2>2 DEF Ends
<1>28. Rid(T, W, n)
  BY <1>22, <1>23, <1>26 DEF Rid, M, N
<1> QED BY <1>19, <1>22, <1>24, <1>25, <1>27, <1>28 DEF Sound

(* What n and p of the search mean for a node that was found.              *)
LEMMA SearchFinds ==
  ASSUME NEW T, NEW P, NEW val \in [P -> Int], Sound(T, P, val), NEW d \in P
  PROVE  \E n, p : /\ Search(T, val, d) = <<n, p>> /\ n \in DOMAIN T.node \cup {NIL}
                   /\ n = NIL => \A m \in DOMAIN T.node : val[T.node[m].data] # val[d]
                   /\ n # NIL => /\ val[T.node[n].data] = val[d]
                                 /\ \/ p = NIL /\ n = T.root
                                    \/ /\ p \in DOMAIN T.node
                                       /\ T.node[p].left = n \/ T.node[p].right = n
<1>1. PICK L, R, D, S : Tree(T, P, val, L, R, D, S)
  BY DEF Sound, Shaped, Tree
<1>2. PICK n, p : /\ Search(T, val, d) = <<n, p>>
                  /\ Found(DOMAIN T.node, T.root, L, R, D, S, val[d], n, p)
                  /\ n # NIL => D[n] = val[d]
  BY <1>1, SearchIs
<1>3. /\ n \in DOMAIN T.node \cup {NIL} /\ p \in DOMAIN T.node \cup {NIL}
      /\ \A y \in DOMAIN T.node : D[y] = val[d] => y \in S[n]
      /\ p = NIL => n = T.root
      /\ p # NIL => n = IF val[d] < D[p] THEN L[p] ELSE R[p]
  BY <1>2 DEF Found
<1>4. \A m \in DOMAIN T.node : /\ L[m] = T.node[m].left /\ R[m] = T.node[m].right
                               /\ D[m] = val[T.node[m].data]
  BY <1>1 DEF Tree, Linked
<1>5. S[NIL] = {}
  BY <1>1 DEF Tree, Shape, Split
<1>6. n = NIL => \A m \in DOMAIN T.node : val[T.node[m].data] # val[d]
  BY <1>3, <1>4, <1>5
<1>7. n # NIL => /\ val[T.node[n].data] = val[d]
                 /\ \/ p = NIL /\ n = T.root
                    \/ /\ p \in DOMAIN T.node
                       /\ T.node[p].left = n \/ T.node[p].right = n
  BY <1>2, <1>3, <1>4
<1> QED BY <1>2, <1>3, <1>6, <1>7

(* No two nodes have one value.                                            *)
LEMMA OneNodeEach ==
  ASSUME NEW T, NEW P, NEW val \in [P -> Int], Sound(T, P, val)
  PROVE  \A m, n \in DOMAIN T.node : val[T.node[m].data] = val[T.node[n].data] => m = n
<1>1. PICK L, R, D, S : Tree(T, P, val, L, R, D, S)
  BY DEF Sound, Shaped, Tree
<1> QED BY <1>1 DEF Tree, Linked, Shape

(* A node with one child at most is cut off and trashed, whatever becomes  *)
(* of the counters and whether or not its own links are reset.             *)
LEMMA CutAndTrashIs ==
  ASSUME NEW T, NEW P, NEW val \in [P -> Int], Sound(T, P, val),
         NEW n \in DOMAIN T.node, ~HasBoth(T, n),
         NEW p, \/ p = NIL /\ n = T.root
                \/ p \in DOMAIN T.node /\ (T.node[p].left = n \/ T.node[p].right = n),
         NEW V, V = Relink(T, n, p, Child(T, n)), NEW U, Typed(U, P),
         U.root = V.root, U.top = V.top, U.bottom = V.bottom, DOMAIN U.node = DOMAIN V.node,
         \A m \in DOMAIN T.node \ {n} : U.node[m] = V.node[m],
         U.node[n].left \in {NIL, V.node[n].left}, U.node[n].right \in {NIL, V.node[n].right}
  PROVE  /\ Sound(Trash(U, n), P, val) /\ Rid(T, Trash(U, n), n)
         /\ Trash(U, n).nodes = U.nodes /\ Trash(U, n).dups = U.dups
<1>1. PICK L, R, D, S : Tree(T, P, val, L, R, D, S)
  BY DEF Sound, Shaped, Tree
<1>2. Typed(T, P) /\ Ends(T, val)
  BY DEF Sound
<1>3. \A m \in DOMAIN T.node : L[m] = T.node[m].left /\ R[m] = T.node[m].right
  BY <1>1 DEF Tree, Linked
<1>4. PICK c : c = Child(T, n)
  OBVIOUS
<1>5. (L[n] = NIL /\ c = R[n]) \/ (R[n] = NIL /\ c = L[n])
  BY <1>3, <1>4 DEF Child, HasBoth, Left, Right
<1>6. c \in Nat
  BY <1>1, <1>2, <1>5 DEF Tree, Shape, Typed, NIL
<1>7. \/ p = NIL /\ n = T.root
      \/ p \in DOMAIN T.node /\ (L[p] = n \/ R[p] = n)
  BY <1>3
<1>8. /\ Typed(V, P) /\ Cut(T, V, n, c)
      /\ V.node[n].left = T.node[n].left /\ V.node[n].right = T.node[n].right
  BY <1>1, <1>2, <1>4, <1>6, <1>7, RelinkIs
<1>9. Cut(T, U, n, c)
  BY <1>8 DEF Cut
<1> QED BY <1>1, <1>2, <1>5, <1>9, TrashIs

(* The search for the value of a node finds the node.                      *)
LEMMA SearchFindsNode ==
  ASSUME NEW T, NEW P, NEW val \in [P -> Int], Sound(T, P, val), NEW d \in P,
         NEW n \in DOMAIN T.node, val[T.node[n].data] = val[d]
  PROVE  \E p : /\ Search(T, val, d) = <<n, p>>
                /\ \/ p = NIL /\ n = T.root
                   \/ p \in DOMAIN T.node /\ (T.node[p].left = n \/ T.node[p].right = n)
<1>1. PICK m, p : /\ Search(T, val, d) = <<m, p>> /\ m \in DOMAIN T.node \cup {NIL}
                  /\ m = NIL => \A x \in DOMAIN T.node : val[T.node[x].data] # val[d]
                  /\ m # NIL => /\ val[T.node[m].data] = val[d]
                                /\ \/ p = NIL /\ m = T.root
                                   \/ /\ p \in DOMAIN T.node
                                      /\ T.node[p].left = m \/ T.node[p].right = m
  BY SearchFinds
<1>2. m # NIL
  BY <1>1
<1>3. m = n
  BY <1>1, <1>2, OneNodeEach
<1> QED BY <1>1, <1>2, <1>3

(* _pop_from_tree of a node with one child at most.                        *)
LEMMA UnhookIs ==
  ASSUME NEW T, NEW P, NEW val \in [P -> Int], Sound(T, P, val), NEW d \in P,
         NEW n \in DOMAIN T.node, val[T.node[n].data] = val[d], ~HasBoth(T, n)
  PROVE  /\ Sound(Unhook(T, val, d).tree, P, val)
         /\ Rid(T, Unhook(T, val, d).tree, n)
         /\ Unhook(T, val, d).tree.nodes = T.nodes - 1
         /\ Unhook(T, val, d).tree.dups = T.dups - (T.node[n].ref - 1)
         /\ Unhook(T, val, d).data = T.node[n].data /\ Unhook(T, val, d).ref = T.node[n].ref
<1>1. PICK p : /\ Search(T, val, d) = <<n, p>>
               /\ \/ p = NIL /\ n = T.root
                  \/ p \in DOMAIN T.node /\ (T.node[p].left = n \/ T.node[p].right = n)
  BY SearchFindsNode
<1>2. PICK V : V = Relink(T, n, p, Child(T, n))
  OBVIOUS
<1>3. /\ Typed(V, P) /\ V.nodes = T.nodes /\ V.dups = T.dups /\ DOMAIN V.node = DOMAIN T.node
  <2>1. PICK L, R, D, S : Tree(T, P, val, L, R, D, S)
    BY DEF Sound, Shaped, Tree
  <2>2. /\ \A m \in DOMAIN T.node : L[m] = T.node[m].left /\ R[m] = T.node[m].right
        /\ Child(T, n) \in Nat
    BY <2>1 DEF Tree, Linked, Shape, Child, Left, Right, Typed, NIL
  <2>3. \/ p = NIL /\ n = T.root
        \/ p \in DOMAIN T.node /\ (L[p] = n \/ R[p] = n)
    BY <1>1, <2>2
  <2>4. Typed(V, P) /\ Cut(T, V, n, Child(T, n)) /\ V.nodes = T.nodes /\ V.dups = T.dups
    BY <1>2, <2>1, <2>2, <2>3, RelinkIs
  <2> QED BY <2>4 DEF Cut
<1>4. PICK x, y : x = T.nodes - 1 /\ y = T.dups - (T.node[n].ref - 1)
  OBVIOUS
<1>5. x \in Int /\ y \in Int
  BY <1>4 DEF Sound, Typed, NodeRecs
<1>6. PICK z : z = [V.node[n] EXCEPT !.left = NIL, !.right = NIL]
  OBVIOUS
<1>7. PICK W : W = [V.node EXCEPT ![n] = z]
  OBVIOUS
<1>8. PICK U : U = [V EXCEPT !.nodes = x, !.dups = y, !.node = W]
  OBVIOUS
<1>9. /\ V \in [root : Nat, top : Nat, bottom : Nat, nodes : Int, dups : Int, node : {V.node}]
      /\ DOMAIN V.node \subseteq Nat \ {NIL} /\ IsFiniteSet(DOMAIN V.node)
      /\ V.node \in [DOMAIN V.node -> NodeRecs(P)]
  BY <1>3 DEF Typed
<1>10. z \in NodeRecs(P) /\ z.left = NIL /\ z.right = NIL
  BY <1>3, <1>6, <1>9 DEF NodeRecs, NIL
<1>11. /\ W \in [DOMAIN V.node -> NodeRecs(P)] /\ DOMAIN W = DOMAIN V.node
       /\ W[n] = z /\ \A m \in DOMAIN T.node \ {n} : W[m] = V.node[m]
  BY <1>3, <1>7, <1>9, <1>10
<1>12. /\ U \in [root : Nat, top : Nat, bottom : Nat, nodes : Int, dups : Int, node : {W}]
       /\ U.root = V.root /\ U.top = V.top /\ U.bottom = V.bottom /\ U.node = W
       /\ U.nodes = x /\ U.dups = y
  BY <1>5, <1>8, <1>9
<1>13. Typed(U, P)
  BY <1>9, <1>11, <1>12 DEF Typed
<1>14. [Relink(T, n, p, Child(T, n)) EXCEPT
          !.nodes = @ - 1, !.dups = @ - (T.node[n].ref - 1),
          !.node[n].left = NIL, !.node[n].right = NIL] = U
  <2>1. [V EXCEPT !.nodes = @ - 1, !.dups = @ - (T.node[n].ref - 1),
                  !.node[n].left = NIL, !.node[n].right = NIL] = U
    BY <1>3, <1>4, <1>6, <1>7, <1>8, <1>9 DEF NodeRecs
  <2> QED BY <1>2, <2>1
<1>15. Unhook(T, val, d) = [tree |-> Trash(U, n), data |-> T.node[n].data, ref |-> T.node[n].ref]
  BY <1>1, <1>14 DEF Unhook
<1>16. /\ Sound(Trash(U, n), P, val) /\ Rid(T, Trash(U, n), n)
       /\ Trash(U, n).nodes = U.nodes /\ Trash(U, n).dups = U.dups
  BY <1>1, <1>2, <1>3, <1>10, <1>11, <1>12, <1>13, CutAndTrashIs
<1> QED BY <1>4, <1>12, <1>15, <1>16

(* The same of _deref_from_tree, which leaves dups and the node's links.   *)
LEMMA DropIs ==
  ASSUME NEW T, NEW P, NEW val \in [P -> Int], Sound(T, P, val),
         NEW n \in DOMAIN T.node, ~HasBoth(T, n),
         NEW p, \/ p = NIL /\ n = T.root
                \/ p \in DOMAIN T.node /\ (T.node[p].left = n \/ T.node[p].right = n),
         NEW W, W = Trash([Relink(T, n, p, Child(T, n)) EXCEPT !.nodes = @ - 1], n)
  PROVE  /\ Sound(W, P, val) /\ Rid(T, W, n)
         /\ W.nodes = T.nodes - 1 /\ W.dups = T.dups
<1>2. PICK V : V = Relink(T, n, p, Child(T, n))
  OBVIOUS
<1>3. /\ Typed(V, P) /\ V.nodes = T.nodes /\ V.dups = T.dups /\ DOMAIN V.node = DOMAIN T.node
  <2>1. PICK L, R, D, S : Tree(T, P, val, L, R, D, S)
    BY DEF Sound, Shaped, Tree
  <2>2. /\ \A m \in DOMAIN T.node : L[m] = T.node[m].left /\ R[m] = T.node[m].right
        /\ Child(T, n) \in Nat
    BY <2>1 DEF Tree, Linked, Shape, Child, Left, Right, Typed, NIL
  <2>3. \/ p = NIL /\ n = T.root
        \/ p \in DOMAIN T.node /\ (L[p] = n \/ R[p] = n)
    BY <2>2
  <2>4. Typed(V, P) /\ Cut(T, V, n, Child(T, n)) /\ V.nodes = T.nodes /\ V.dups = T.dups
    BY <1>2, <2>1, <2>2, <2>3, RelinkIs
  <2> QED BY <2>4 DEF Cut
<1>4. PICK x : x = T.nodes - 1
  OBVIOUS
<1>5. x \in Int
  BY <1>4 DEF Sound, Typed
<1>8. PICK U : U = [V EXCEPT !.nodes = x]
  OBVIOUS
<1>9. /\ V \in [root : Nat, top : Nat, bottom : Nat, nodes : Int, dups : Int, node : {V.node}]
      /\ DOMAIN V.node \subseteq Nat \ {NIL} /\ IsFiniteSet(DOMAIN V.node)
      /\ V.node \in [DOMAIN V.node -> NodeRecs(P)]
  BY <1>3 DEF Typed
<1>12. /\ U \in [root : Nat, top : Nat, bottom : Nat, nodes : Int, dups : Int, node : {V.node}]
       /\ U.root = V.root /\ U.top = V.top /\ U.bottom = V.bottom /\ U.node = V.node
       /\ U.nodes = x /\ U.dups = V.dups
  BY <1>5, <1>8, <1>9
<1>13. Typed(U, P)
  BY <1>9, <1>12 DEF Typed
<1>14. W = Trash(U, n)
  <2>1. [V EXCEPT !.nodes = @ - 1] = U
    BY <1>3, <1>4, <1>8
  <2> QED BY <1>2, <2>1
<1>16. /\ Sound(Trash(U, n), P, val) /\ Rid(T, Trash(U, n), n)
       /\ Trash(U, n).nodes = U.nodes /\ Trash(U, n).dups = U.dups
  BY <1>2, <1>3, <1>12, <1>13, CutAndTrashIs
<1> QED BY <1>3, <1>4, <1>12, <1>14, <1>16

(* What is left of T when n has taken over what h has, and h is gone.      *)
Inherited(T, W, n, h) ==
  /\ DOMAIN W.node = DOMAIN T.node \ {h}
  /\ W.node[n].data = T.node[h].data /\ W.node[n].ref = T.node[h].ref
  /\ \A m \in DOMAIN T.node \ {n, h} : /\ W.node[m].data = T.node[m].data
                                       /\ W.node[m].ref = T.node[m].ref

(* The node with the greatest value to the left of n: it has no right      *)
(* child, and there is no value between its own and that of n.             *)
LEMMA HeirIs ==
  ASSUME NEW T, NEW P, NEW val \in [P -> Int], Sound(T, P, val),
         NEW n \in DOMAIN T.node, Left(T, n) # NIL,
         NEW h, h = Rightest(T, Left(T, n))
  PROVE  /\ h \in DOMAIN T.node /\ h # n /\ ~HasBoth(T, h)
         /\ \A y \in DOMAIN T.node \ {n, h} :
              /\ val[T.node[y].data] < val[T.node[n].data] <=> val[T.node[y].data] < val[T.node[h].data]
              /\ val[T.node[n].data] < val[T.node[y].data] <=> val[T.node[h].data] < val[T.node[y].data]
<1> DEFINE N == DOMAIN T.node
<1>1. PICK L, R, D, S : Tree(T, P, val, L, R, D, S)
  BY DEF Sound, Shaped, Tree
<1>2. /\ Typed(T, P) /\ Linked(T, val, N, L, R, D) /\ Shape(N, T.root, L, R, D, S)
      /\ \A m \in N : L[m] = T.node[m].left /\ R[m] = T.node[m].right /\ D[m] = val[T.node[m].data]
  BY <1>1 DEF Tree, Linked
<1>3. D \in [N -> Int] /\ L[n] \in N /\ \A x, y \in N : D[x] = D[y] => x = y
  BY <1>2 DEF Shape, Left
<1>4. h \in S[L[n]] /\ R[h] = NIL /\ \A y \in S[L[n]] : D[y] <= D[h]
  <2>1. h = Rightest(T, L[n]) /\ L[n] # NIL
    BY <1>2 DEF Left
  <2> QED BY <1>2, <1>3, <2>1, RightestIs
<1>5. h \in N /\ h # n /\ D[h] < D[n]
  <2>1. S[L[n]] \subseteq N /\ n \notin S[L[n]]
    BY <1>2, SidesApart
  <2>2. D[h] < D[n]
    BY <1>2, <1>4 DEF Shape, Sorted
  <2> QED BY <1>4, <2>1, <2>2
<1>6. ~HasBoth(T, h)
  BY <1>2, <1>4, <1>5 DEF HasBoth, Right
<1>7. ASSUME NEW y \in N \ {n, h}
      PROVE  /\ D[y] < D[n] <=> D[y] < D[h]
             /\ D[n] < D[y] <=> D[h] < D[y]
  <2>1. y \in N /\ y # n /\ y # h /\ n \in N
    BY <1>7
  <2>2. D[y] \in Int /\ D[n] \in Int /\ D[h] \in Int /\ D[y] # D[n] /\ D[y] # D[h]
    BY <1>3, <1>5, <2>1
  <2>3. D[y] <= D[n] => y \in S[L[n]] \/ D[y] <= D[h]
    BY <1>2, <1>4, <2>1, NextIsBelow
  <2>4. D[y] <= D[n] => D[y] <= D[h]
    BY <1>4, <2>3
  <2> QED BY <1>5, <2>2, <2>4
<1>8. \A y \in N \ {n, h} :
        /\ val[T.node[y].data] < val[T.node[n].data] <=> val[T.node[y].data] < val[T.node[h].data]
        /\ val[T.node[n].data] < val[T.node[y].data] <=> val[T.node[h].data] < val[T.node[y].data]
  BY <1>2, <1>5, <1>7
<1> QED BY <1>5, <1>6, <1>8

(* The node keeps its place and its heir is popped instead.                *)
LEMMA ReplaceIs ==
  ASSUME NEW T, NEW P, NEW val \in [P -> Int], Sound(T, P, val),
         NEW n \in DOMAIN T.node, Left(T, n) # NIL,
         NEW h, h = Rightest(T, Left(T, n)), NEW W, W = Replace(T, val, n)
  PROVE  /\ h \in DOMAIN T.node /\ h # n
         /\ Sound(W, P, val) /\ Inherited(T, W, n, h)
         /\ W.nodes = T.nodes - 1 /\ W.dups = T.dups - (T.node[h].ref - 1)
<1>1. /\ h \in DOMAIN T.node /\ h # n /\ ~HasBoth(T, h)
      /\ \A y \in DOMAIN T.node \ {n, h} :
           /\ val[T.node[y].data] < val[T.node[n].data] <=> val[T.node[y].data] < val[T.node[h].data]
           /\ val[T.node[n].data] < val[T.node[y].data] <=> val[T.node[h].data] < val[T.node[y].data]
  BY HeirIs
<1>2. T.node[h] \in NodeRecs(P) /\ T.node[h].data \in P
  BY <1>1 DEF Sound, Typed, NodeRecs
<1>3. PICK X : X = Unhook(T, val, T.node[h].data)
  OBVIOUS
<1>4. PICK V : V = X.tree
  OBVIOUS
<1>5. /\ Sound(V, P, val) /\ Rid(T, V, h)
      /\ V.nodes = T.nodes - 1 /\ V.dups = T.dups - (T.node[h].ref - 1)
      /\ X.data = T.node[h].data /\ X.ref = T.node[h].ref
  BY <1>1, <1>2, <1>3, <1>4, UnhookIs
<1> DEFINE M == DOMAIN T.node \ {h}
<1>6. /\ DOMAIN V.node = M /\ n \in M
      /\ \A m \in M : V.node[m].data = T.node[m].data /\ V.node[m].ref = T.node[m].ref
  BY <1>1, <1>5 DEF Rid
<1>7. /\ V \in [root : Nat, top : Nat, bottom : Nat, nodes : Int, dups : Int, node : {V.node}]
      /\ M \subseteq Nat \ {NIL} /\ IsFiniteSet(M)
      /\ V.node \in [M -> NodeRecs(P)]
  BY <1>5, <1>6 DEF Sound, Typed
<1> HIDE DEF M
<1>8. PICK z : z = [V.node[n] EXCEPT !.data = X.data, !.ref = X.ref]
  OBVIOUS
<1>9. PICK Y : Y = [V.node EXCEPT ![n] = z]
  OBVIOUS
<1>10. W = [V EXCEPT !.node = Y]
  <2>0. X = Unhook(T, val, T.node[Rightest(T, Left(T, n))].data)
    BY <1>3, Zenon
  <2>1. W = [V EXCEPT !.node[n].data = X.data, !.node[n].ref = X.ref]
    BY <1>4, <2>0 DEF Replace
  <2>2. /\ V \in [root : Nat, top : Nat, bottom : Nat, nodes : Int, dups : Int, node : {V.node}]
        /\ n \in DOMAIN V.node /\ V.node \in [DOMAIN V.node -> NodeRecs(P)]
    BY <1>6, <1>7
  <2>3. PICK da, re : da = X.data /\ re = X.ref
    OBVIOUS
  <2>4. W = [V EXCEPT !.node[n].data = da, !.node[n].ref = re]
    BY <2>1, <2>3
  <2>5. z = [V.node[n] EXCEPT !.data = da, !.ref = re]
    BY <1>8, <2>3
  <2>6. PICK A : A = V.node
    OBVIOUS
  <2>7. /\ n \in DOMAIN A /\ A = [m \in DOMAIN A |-> A[m]]
        /\ A[n] \in [data : P, left : Nat, right : Nat, ref : Nat \ {0}]
    BY <2>2, <2>6 DEF NodeRecs
  <2>8. [A EXCEPT ![n].data = da, ![n].ref = re] = [A EXCEPT ![n] = z]
    BY <2>5, <2>6, <2>7
  <2>9. W = [V EXCEPT !.node = [A EXCEPT ![n].data = da, ![n].ref = re]]
    BY <2>2, <2>4, <2>6, <2>7
  <2> QED BY <1>9, <2>6, <2>8, <2>9
<1>11. /\ z \in NodeRecs(P) /\ z.data = X.data /\ z.ref = X.ref
       /\ z.left = V.node[n].left /\ z.right = V.node[n].right
  <2>1. V.node[n] \in NodeRecs(P)
    BY <1>6, <1>7
  <2> QED BY <1>2, <1>5, <1>8, <2>1 DEF NodeRecs
<1>12. /\ Y \in [M -> NodeRecs(P)] /\ DOMAIN Y = M
       /\ Y[n] = z /\ \A m \in M \ {n} : Y[m] = V.node[m]
  BY <1>6, <1>7, <1>9, <1>11
<1>13. /\ W \in [root : Nat, top : Nat, bottom : Nat, nodes : Int, dups : Int, node : {Y}]
       /\ W.root = V.root /\ W.top = V.top /\ W.bottom = V.bottom /\ W.node = Y
       /\ W.nodes = V.nodes /\ W.dups = V.dups
  BY <1>7, <1>10
<1>14. Typed(W, P)
  BY <1>7, <1>12, <1>13 DEF Typed
<1>15. PICK E : E = [m \in M |-> val[Y[m].data]]
  OBVIOUS
<1>16. /\ \A m \in M : E[m] = IF m = n THEN val[T.node[h].data] ELSE val[T.node[m].data]
       /\ \A m \in M : E[m] = val[W.node[m].data]
       /\ E \in [M -> Int]
  <2>1. \A m \in M : E[m] = val[Y[m].data]
    BY <1>15
  <2>2. \A m \in M : Y[m] \in NodeRecs(P) /\ Y[m].data \in P
    BY <1>12 DEF NodeRecs
  <2>3. E \in [M -> Int]
    BY <1>15, <2>2
  <2>4. Y[n].data = T.node[h].data /\ \A m \in M \ {n} : Y[m].data = T.node[m].data
    BY <1>5, <1>6, <1>11, <1>12
  <2>5. \A m \in M : E[m] = val[W.node[m].data]
    BY <1>13, <2>1
  <2> QED BY <2>1, <2>3, <2>4, <2>5
<1>17. PICK A, B, D, Z : Tree(V, P, val, A, B, D, Z)
  BY <1>5 DEF Sound, Shaped, Tree
<1>18. /\ Shape(M, V.root, A, B, D, Z) /\ D \in [M -> Int]
       /\ \A m \in M : A[m] = V.node[m].left /\ B[m] = V.node[m].right /\ D[m] = val[T.node[m].data]
  BY <1>6, <1>17 DEF Tree, Linked, Shape
<1>19. \A x, y \in M : D[x] < D[y] <=> E[x] < E[y]
  <2> SUFFICES ASSUME NEW x \in M, NEW y \in M PROVE D[x] < D[y] <=> E[x] < E[y]
    OBVIOUS
  <2>1. CASE x # n /\ y # n
    BY <1>16, <1>18, <2>1
  <2>2. CASE x = n /\ y # n
    <3>1. y \in DOMAIN T.node \ {n, h}
      BY <2>2 DEF M
    <3> QED BY <1>1, <1>16, <1>18, <2>2, <3>1
  <2>3. CASE x # n /\ y = n
    <3>1. x \in DOMAIN T.node \ {n, h}
      BY <2>3 DEF M
    <3> QED BY <1>1, <1>16, <1>18, <2>3, <3>1
  <2>4. CASE x = n /\ y = n
    BY <1>16, <1>18, <2>4
  <2> QED BY <2>1, <2>2, <2>3, <2>4
<1>20. Shaped(W, val)
  <2>1. Shape(M, V.root, A, B, E, Z)
    BY <1>16, <1>18, <1>19, RelabelledIs
  <2>2. \A m \in M : W.node[m].left = A[m] /\ W.node[m].right = B[m]
    BY <1>11, <1>12, <1>13, <1>18
  <2>3. DOMAIN W.node = M /\ W.root = V.root
    BY <1>12, <1>13
  <2>4. Linked(W, val, DOMAIN W.node, A, B, E)
    BY <1>16, <2>2, <2>3 DEF Linked
  <2> QED BY <2>1, <2>3, <2>4 DEF Shaped
<1>21. Ends(W, val)
  <2>1. \A m \in M : /\ V.top \in M /\ D[m] <= D[V.top]
                     /\ V.bottom \in M /\ D[V.bottom] <= D[m]
    BY <1>5, <1>6, <1>18 DEF Sound, Ends
  <2>2. \A m \in M : /\ V.top \in M /\ E[m] <= E[V.top]
                     /\ V.bottom \in M /\ E[V.bottom] <= E[m]
    <3> TAKE m \in M
    <3>1. /\ V.top \in M /\ ~ (D[V.top] < D[m])
          /\ V.bottom \in M /\ ~ (D[m] < D[V.bottom])
      BY <1>18, <2>1
    <3>2. ~ (E[V.top] < E[m]) /\ ~ (E[m] < E[V.bottom])
      BY <1>19, <3>1
    <3> QED BY <1>16, <3>1, <3>2
  <2> QED BY <1>12, <1>13, <1>16, <2>2 DEF Ends
<1>22. Inherited(T, W, n, h)
  BY <1>5, <1>6, <1>11, <1>12, <1>13 DEF Inherited, M
<1> QED BY <1>1, <1>5, <1>13, <1>14, <1>20, <1>21, <1>22 DEF Sound

(* The tree counts x references of d; it counts its nodes.                 *)
Has(T, d, x) == \E n \in DOMAIN T.node : T.node[n].data = d /\ T.node[n].ref = x
Counted(T)   == T.nodes = Cardinality(DOMAIN T.node)

(* The tree without n has what it had, but for the value of n.             *)
LEMMA RidHas ==
  ASSUME NEW T, NEW P, NEW val \in [P -> Int], Sound(T, P, val), NEW n \in DOMAIN T.node,
         NEW W, Rid(T, W, n), W.nodes = T.nodes - 1
  PROVE  /\ \A e, x : Has(W, e, x) <=> Has(T, e, x) /\ e # T.node[n].data
         /\ Counted(T) => Counted(W)
<1>1. /\ DOMAIN W.node = DOMAIN T.node \ {n}
      /\ \A m \in DOMAIN T.node \ {n} : /\ W.node[m].data = T.node[m].data
                                        /\ W.node[m].ref = T.node[m].ref
  BY DEF Rid
<1>2. \A m \in DOMAIN T.node : T.node[m].data = T.node[n].data => m = n
  BY OneNodeEach
<1>3. Cardinality(DOMAIN W.node) = Cardinality(DOMAIN T.node) - 1
  <2>1. IsFiniteSet(DOMAIN T.node)
    BY DEF Sound, Typed
  <2>2. Cardinality(DOMAIN T.node \ {n}) = Cardinality(DOMAIN T.node) - 1
    BY <2>1, FS_RemoveElement
  <2> QED BY <1>1, <2>2
<1> QED BY <1>1, <1>2, <1>3 DEF Has, Counted

(* And so has the one whose node n took over the value of the node h.      *)
LEMMA InheritedHas ==
  ASSUME NEW T, NEW P, NEW val \in [P -> Int], Sound(T, P, val), NEW n \in DOMAIN T.node,
         NEW h \in DOMAIN T.node, h # n,
         NEW W, Inherited(T, W, n, h), W.nodes = T.nodes - 1
  PROVE  /\ \A e, x : Has(W, e, x) <=> Has(T, e, x) /\ e # T.node[n].data
         /\ Counted(T) => Counted(W)
<1>1. /\ DOMAIN W.node = DOMAIN T.node \ {h}
      /\ W.node[n].data = T.node[h].data /\ W.node[n].ref = T.node[h].ref
      /\ \A m \in DOMAIN T.node \ {n, h} : /\ W.node[m].data = T.node[m].data
                                           /\ W.node[m].ref = T.node[m].ref
  BY DEF Inherited
<1>2. \A m \in DOMAIN T.node : T.node[m].data = T.node[n].data => m = n
  BY OneNodeEach
<1>3. Cardinality(DOMAIN W.node) = Cardinality(DOMAIN T.node) - 1
  <2>1. IsFiniteSet(DOMAIN T.node)
    BY DEF Sound, Typed
  <2>2. Cardinality(DOMAIN T.node \ {h}) = Cardinality(DOMAIN T.node) - 1
    BY <2>1, FS_RemoveElement
  <2> QED BY <1>1, <2>2
<1>4. ASSUME NEW e, NEW x, Has(W, e, x) PROVE Has(T, e, x) /\ e # T.node[n].data
  <2>1. PICK m \in DOMAIN W.node : W.node[m].data = e /\ W.node[m].ref = x
    BY <1>4 DEF Has
  <2>2. CASE m = n
    BY <1>1, <1>2, <2>1, <2>2 DEF Has
  <2>3. CASE m # n
    BY <1>1, <1>2, <2>1, <2>3 DEF Has
  <2> QED BY <2>2, <2>3
<1>5. ASSUME NEW e, NEW x, Has(T, e, x), e # T.node[n].data PROVE Has(W, e, x)
  <2>1. PICK m \in DOMAIN T.node : T.node[m].data = e /\ T.node[m].ref = x
    BY <1>5 DEF Has
  <2>2. CASE m = h
    BY <1>1, <1>5, <2>1, <2>2 DEF Has
  <2>3. CASE m # h
    BY <1>1, <1>5, <2>1, <2>3 DEF Has
  <2> QED BY <2>2, <2>3
<1> QED BY <1>3, <1>4, <1>5 DEF Counted

(* The node whose references dups loses when n goes.                       *)
Leaver(T, n) == IF HasBoth(T, n) THEN Rightest(T, Left(T, n)) ELSE n

(* The node that leaves is one of the tree.                                *)
LEMMA LeaverIs ==
  ASSUME NEW T, NEW P, NEW val \in [P -> Int], Sound(T, P, val), NEW n \in DOMAIN T.node
  PROVE  Leaver(T, n) \in DOMAIN T.node /\ T.node[Leaver(T, n)].ref \in Nat \ {0}
<1>1. Leaver(T, n) \in DOMAIN T.node
  BY HeirIs DEF Leaver, HasBoth
<1> QED BY <1>1 DEF Sound, Typed, NodeRecs

(* bintree_pop_node of a value the tree has: the value is gone with all    *)
(* its references, which the caller gets.                                  *)
LEMMA PopIs ==
  ASSUME NEW T, NEW P, NEW val \in [P -> Int], Sound(T, P, val), NEW d \in P,
         NEW n \in DOMAIN T.node, val[T.node[n].data] = val[d],
         NEW X, X = Pop(T, val, d)
  PROVE  /\ Sound(X.tree, P, val)
         /\ X.data = T.node[n].data /\ X.ref = T.node[n].ref
         /\ \A e, x : Has(X.tree, e, x) <=> Has(T, e, x) /\ e # T.node[n].data
         /\ Counted(T) => Counted(X.tree)
         /\ X.tree.nodes = T.nodes - 1
         /\ X.tree.dups = T.dups - (T.node[Leaver(T, n)].ref - 1)
<1>1. Search(T, val, d)[1] = n /\ n # NIL
  <2>1. \E p : Search(T, val, d) = <<n, p>>
    BY SearchFindsNode
  <2> QED BY <2>1 DEF Sound, Typed
<1>2. CASE ~HasBoth(T, n)
  <2>1. X = Unhook(T, val, d)
    BY <1>1, <1>2, Zenon DEF Pop
  <2>2. /\ Sound(X.tree, P, val) /\ Rid(T, X.tree, n)
        /\ X.tree.nodes = T.nodes - 1 /\ X.tree.dups = T.dups - (T.node[n].ref - 1)
        /\ X.data = T.node[n].data /\ X.ref = T.node[n].ref
    BY <1>2, <2>1, UnhookIs
  <2>3. /\ \A e, x : Has(X.tree, e, x) <=> Has(T, e, x) /\ e # T.node[n].data
        /\ Counted(T) => Counted(X.tree)
    BY <2>2, RidHas
  <2> QED BY <1>2, <2>2, <2>3 DEF Leaver
<1>3. CASE HasBoth(T, n)
  <2>1. X = [tree |-> Replace(T, val, n), data |-> T.node[n].data, ref |-> T.node[n].ref]
    BY <1>1, <1>3, Zenon DEF Pop
  <2>2. PICK W, h : W = Replace(T, val, n) /\ h = Rightest(T, Left(T, n))
    OBVIOUS
  <2>3. /\ h \in DOMAIN T.node /\ h # n
        /\ Sound(W, P, val) /\ Inherited(T, W, n, h)
        /\ W.nodes = T.nodes - 1 /\ W.dups = T.dups - (T.node[h].ref - 1)
    BY <1>3, <2>2, ReplaceIs DEF HasBoth
  <2>4. /\ \A e, x : Has(W, e, x) <=> Has(T, e, x) /\ e # T.node[n].data
        /\ Counted(T) => Counted(W)
    BY <2>3, InheritedHas
  <2>5. h = Leaver(T, n)
    BY <1>3, <2>2 DEF Leaver
  <2>6. X.tree = W /\ X.data = T.node[n].data /\ X.ref = T.node[n].ref
    BY <2>1, <2>2
  <2> HIDE DEF Leaver
  <2> QED BY <2>3, <2>4, <2>5, <2>6
<1> QED BY <1>2, <1>3

(* bintree_delete_value of a value the tree has: one reference goes, and   *)
(* the value with the last one.                                            *)
LEMMA DerefIs ==
  ASSUME NEW T, NEW P, NEW val \in [P -> Int], Sound(T, P, val), NEW d \in P,
         NEW n \in DOMAIN T.node, val[T.node[n].data] = val[d],
         NEW W, W = Deref(T, val, d)
  PROVE  /\ Sound(W, P, val)
         /\ \A e, x : Has(W, e, x) <=>
              \/ Has(T, e, x) /\ e # T.node[n].data
              \/ e = T.node[n].data /\ T.node[n].ref > 1 /\ x = T.node[n].ref - 1
         /\ Counted(T) => Counted(W)
         /\ T.node[n].ref > 1 => W.nodes = T.nodes /\ W.dups = T.dups - 1
         /\ T.node[n].ref = 1 =>
              /\ W.nodes = T.nodes - 1
              /\ W.dups = T.dups - (T.node[Leaver(T, n)].ref - 1)
<1>1. PICK p : /\ Search(T, val, d) = <<n, p>>
               /\ \/ p = NIL /\ n = T.root
                  \/ p \in DOMAIN T.node /\ (T.node[p].left = n \/ T.node[p].right = n)
  BY SearchFindsNode
<1>2. /\ T \in [root : Nat, top : Nat, bottom : Nat, nodes : Int, dups : Int, node : {T.node}]
      /\ DOMAIN T.node \subseteq Nat \ {NIL} /\ IsFiniteSet(DOMAIN T.node)
      /\ T.node \in [DOMAIN T.node -> NodeRecs(P)]
  BY DEF Sound, Typed
<1>3. n # NIL /\ T.node[n] \in NodeRecs(P) /\ T.node[n].ref \in Nat \ {0}
  BY <1>2 DEF NodeRecs
<1>4. CASE T.node[n].ref > 1
  <2>1. PICK z : z = [T.node[n] EXCEPT !.ref = T.node[n].ref - 1]
    OBVIOUS
  <2>2. PICK Y : Y = [T.node EXCEPT ![n] = z]
    OBVIOUS
  <2>3. PICK y : y = T.dups - 1
    OBVIOUS
  <2>4. W = [T EXCEPT !.node = Y, !.dups = y]
    <3>1. W = [T EXCEPT !.node[n].ref = @ - 1, !.dups = @ - 1]
      BY <1>1, <1>3, <1>4 DEF Deref
    <3> QED BY <1>2, <2>1, <2>2, <2>3, <3>1 DEF NodeRecs
  <2>5. /\ z \in NodeRecs(P) /\ z.data = T.node[n].data /\ z.ref = T.node[n].ref - 1
        /\ z.left = T.node[n].left /\ z.right = T.node[n].right
    BY <1>3, <1>4, <2>1 DEF NodeRecs
  <2>6. /\ Y \in [DOMAIN T.node -> NodeRecs(P)] /\ DOMAIN Y = DOMAIN T.node
        /\ Y[n] = z /\ \A m \in DOMAIN T.node \ {n} : Y[m] = T.node[m]
    BY <1>2, <2>2, <2>5
  <2>7. /\ W \in [root : Nat, top : Nat, bottom : Nat, nodes : Int, dups : Int, node : {Y}]
        /\ W.root = T.root /\ W.top = T.top /\ W.bottom = T.bottom /\ W.node = Y
        /\ W.nodes = T.nodes /\ W.dups = T.dups - 1
    <3>1. y \in Int
      BY <1>2, <2>3
    <3> QED BY <1>2, <2>3, <2>4, <3>1
  <2>8. Typed(W, P)
    BY <1>2, <2>6, <2>7 DEF Typed
  <2>9. \A m \in DOMAIN T.node : /\ W.node[m].left = T.node[m].left
                                 /\ W.node[m].right = T.node[m].right
                                 /\ W.node[m].data = T.node[m].data
    BY <2>5, <2>6, <2>7
  <2>10. DOMAIN W.node = DOMAIN T.node
    BY <2>6, <2>7
  <2>11. Shaped(W, val)
    <3>1. PICK L, R, D, S : /\ Linked(T, val, DOMAIN T.node, L, R, D)
                            /\ Shape(DOMAIN T.node, T.root, L, R, D, S)
      BY DEF Sound, Shaped
    <3>2. Linked(W, val, DOMAIN W.node, L, R, D)
      BY <2>9, <2>10, <3>1 DEF Linked
    <3> QED BY <2>7, <2>10, <3>1, <3>2 DEF Shaped
  <2>12. Ends(W, val)
    BY <2>7, <2>9, <2>10 DEF Sound, Ends
  <2>13. \A e, x : Has(W, e, x) <=>
              \/ Has(T, e, x) /\ e # T.node[n].data
              \/ e = T.node[n].data /\ T.node[n].ref > 1 /\ x = T.node[n].ref - 1
    <3>1. \A m \in DOMAIN T.node : T.node[m].data = T.node[n].data => m = n
      BY OneNodeEach
    <3>2. W.node[n].ref = T.node[n].ref - 1
          /\ \A m \in DOMAIN T.node \ {n} : W.node[m].ref = T.node[m].ref
      BY <2>5, <2>6, <2>7
    <3> QED BY <1>4, <2>9, <2>10, <3>1, <3>2 DEF Has
  <2>14. Counted(T) => Counted(W)
    BY <2>7, <2>10 DEF Counted
  <2> QED BY <1>4, <2>7, <2>8, <2>11, <2>12, <2>13, <2>14 DEF Sound
<1>5. CASE T.node[n].ref = 1 /\ ~HasBoth(T, n)
  <2>1. W = Trash([Relink(T, n, p, Child(T, n)) EXCEPT !.nodes = @ - 1], n)
    BY <1>1, <1>3, <1>5 DEF Deref
  <2>2. /\ Sound(W, P, val) /\ Rid(T, W, n)
        /\ W.nodes = T.nodes - 1 /\ W.dups = T.dups
    BY <1>1, <1>5, <2>1, DropIs
  <2>3. /\ \A e, x : Has(W, e, x) <=> Has(T, e, x) /\ e # T.node[n].data
        /\ Counted(T) => Counted(W)
    BY <2>2, RidHas
  <2>4. W.dups = T.dups - (T.node[Leaver(T, n)].ref - 1)
    BY <1>2, <1>5, <2>2 DEF Leaver
  <2> QED BY <1>5, <2>2, <2>3, <2>4
<1>6. CASE T.node[n].ref = 1 /\ HasBoth(T, n)
  <2>1. W = Replace(T, val, n)
    BY <1>1, <1>3, <1>6 DEF Deref
  <2>2. PICK h : h = Rightest(T, Left(T, n))
    OBVIOUS
  <2>3. /\ h \in DOMAIN T.node /\ h # n
        /\ Sound(W, P, val) /\ Inherited(T, W, n, h)
        /\ W.nodes = T.nodes - 1 /\ W.dups = T.dups - (T.node[h].ref - 1)
    BY <1>6, <2>1, <2>2, ReplaceIs DEF HasBoth
  <2>4. /\ \A e, x : Has(W, e, x) <=> Has(T, e, x) /\ e # T.node[n].data
        /\ Counted(T) => Counted(W)
    BY <2>3, InheritedHas
  <2>5. h = Leaver(T, n)
    BY <1>6, <2>2 DEF Leaver
  <2> HIDE DEF Leaver
  <2> QED BY <1>6, <2>3, <2>4, <2>5
<1> QED BY <1>3, <1>4, <1>5, <1>6

(* Only the node n, which has the value of d, may be beyond top or bottom: *)
(* _insert puts that right.                                                *)
LEMMA EndsMovedIs ==
  ASSUME NEW U, NEW P, NEW val \in [P -> Int], Typed(U, P), Counted(U), NEW d \in P,
         NEW n \in DOMAIN U.node, val[U.node[n].data] = val[d],
         \A m \in DOMAIN U.node \ {n} :
           /\ U.top \in DOMAIN U.node /\ val[U.node[m].data] <= val[U.node[U.top].data]
           /\ U.bottom \in DOMAIN U.node /\ val[U.node[U.bottom].data] <= val[U.node[m].data],
         NEW W, W = EndsMoved(U, val, d, n)
  PROVE  Typed(W, P) /\ SameButEnds(U, W) /\ Ends(W, val)
<1> DEFINE M == DOMAIN U.node
<1>1. /\ U \in [root : Nat, top : Nat, bottom : Nat, nodes : Int, dups : Int, node : {U.node}]
      /\ M \subseteq Nat \ {NIL} /\ IsFiniteSet(M)
      /\ U.node \in [M -> NodeRecs(P)]
  BY DEF Typed
<1>2. U.nodes = Cardinality(M)
  BY DEF Counted
<1>3. n \in M /\ n \in Nat
  BY <1>1
<1>4. PICK E : E = [m \in M |-> val[U.node[m].data]]
  OBVIOUS
<1>5. E \in [M -> Int] /\ E[n] = val[d] /\ \A m \in M : E[m] = val[U.node[m].data]
  <2>1. \A m \in M : U.node[m].data \in P
    BY <1>1 DEF NodeRecs
  <2> QED BY <1>3, <1>4, <2>1
<1>6. \A m \in M \ {n} : /\ U.top \in M /\ E[m] <= E[U.top]
                         /\ U.bottom \in M /\ E[U.bottom] <= E[m]
  BY <1>5
<1> HIDE DEF M
<1>7. CASE U.nodes = 1
  <2>1. M = {n}
    <3>1. IsFiniteSet(M) /\ Cardinality(M) = 1
      BY <1>1, <1>2, <1>7
    <3>2. \E x : M = {x}
      BY <3>1, FS_Singleton
    <3> QED BY <1>3, <3>2
  <2>2. W = [U EXCEPT !.top = n, !.bottom = n]
    BY <1>7 DEF EndsMoved
  <2>3. /\ W \in [root : Nat, top : Nat, bottom : Nat, nodes : Int, dups : Int, node : {U.node}]
        /\ W.root = U.root /\ W.node = U.node /\ W.nodes = U.nodes /\ W.dups = U.dups
        /\ W.top = n /\ W.bottom = n
    BY <1>1, <1>3, <2>2
  <2>4. Ends(W, val)
    BY <1>5, <2>1, <2>3 DEF Ends, M
  <2> QED BY <1>1, <2>3, <2>4 DEF Typed, SameButEnds, M
<1>8. CASE U.nodes # 1
  <2>1. \E m \in M : m # n
    <3>1. M # {n}
      BY <1>2, <1>8, FS_Singleton
    <3> QED BY <1>3, <3>1
  <2>2. U.top \in M /\ U.bottom \in M /\ E[U.top] \in Int /\ E[U.bottom] \in Int /\ E[n] \in Int
    BY <1>3, <1>5, <1>6, <2>1
  <2>3. E[U.top] = val[U.node[U.top].data] /\ E[U.bottom] = val[U.node[U.bottom].data]
    BY <1>5, <2>2
  <2>4. E[U.bottom] <= E[U.top]
    BY <1>5, <1>6, <2>1, <2>2
  <2>5. PICK t, b : /\ t = (IF E[U.top] < E[n] THEN n ELSE U.top)
                    /\ b = (IF ~ (E[U.top] < E[n]) /\ E[n] < E[U.bottom] THEN n ELSE U.bottom)
    OBVIOUS
  <2>6. W = [U EXCEPT !.top = t, !.bottom = b]
    BY <1>1, <1>5, <1>8, <2>3, <2>5 DEF EndsMoved
  <2>7. t \in M /\ b \in M /\ t \in Nat /\ b \in Nat
    BY <1>1, <1>3, <2>2, <2>5
  <2>8. /\ W \in [root : Nat, top : Nat, bottom : Nat, nodes : Int, dups : Int, node : {U.node}]
        /\ W.root = U.root /\ W.node = U.node /\ W.nodes = U.nodes /\ W.dups = U.dups
        /\ W.top = t /\ W.bottom = b
    BY <1>1, <2>6, <2>7
  <2>9. \A m \in M : E[m] <= E[t] /\ E[b] <= E[m]
    <3> TAKE m \in M
    <3>1. E[m] \in Int
      BY <1>5
    <3>2. CASE m = n
      BY <2>2, <2>4, <2>5, <3>2
    <3>3. CASE m # n
      <4>1. E[m] <= E[U.top] /\ E[U.bottom] <= E[m]
        BY <1>6, <3>3
      <4> QED BY <2>2, <2>4, <2>5, <3>1, <4>1
    <3> QED BY <3>2, <3>3
  <2>10. Ends(W, val)
    BY <1>5, <2>7, <2>8, <2>9 DEF Ends, M
  <2> QED BY <1>1, <2>8, <2>10 DEF Typed, SameButEnds, M
<1> QED BY <1>7, <1>8

(* _insert of a value the tree has.                                        *)
LEMMA MergeIs ==
  ASSUME NEW T, NEW P, NEW val \in [P -> Int], Sound(T, P, val), Counted(T), NEW d \in P,
         NEW ref \in Nat \ {0}, NEW n \in DOMAIN T.node, val[T.node[n].data] = val[d],
         NEW U, U = Merge(T, n, d, ref)
  PROVE  /\ Typed(U, P) /\ Shaped(U, val) /\ Ends(U, val) /\ Counted(U)
         /\ U.nodes = T.nodes /\ U.dups = T.dups + 1
         /\ U.node[n].data = d /\ DOMAIN U.node = DOMAIN T.node
         /\ \A e, x : Has(U, e, x) <=>
              \/ Has(T, e, x) /\ e # T.node[n].data
              \/ e = d /\ x = T.node[n].ref + ref
<1>2. /\ T \in [root : Nat, top : Nat, bottom : Nat, nodes : Int, dups : Int, node : {T.node}]
      /\ DOMAIN T.node \subseteq Nat \ {NIL} /\ IsFiniteSet(DOMAIN T.node)
      /\ T.node \in [DOMAIN T.node -> NodeRecs(P)]
  BY DEF Sound, Typed
<1>3. T.node[n] \in NodeRecs(P) /\ T.node[n].ref \in Nat \ {0}
  BY <1>2 DEF NodeRecs
<1>4. PICK x0, y0 : x0 = T.node[n].ref + ref /\ y0 = T.dups + 1
  OBVIOUS
<1>5. x0 \in Nat \ {0} /\ y0 \in Int
  BY <1>2, <1>3, <1>4
<1>6. PICK z : z = [T.node[n] EXCEPT !.ref = x0, !.data = d]
  OBVIOUS
<1>7. PICK Y : Y = [T.node EXCEPT ![n] = z]
  OBVIOUS
<1>8. U = [T EXCEPT !.dups = y0, !.node = Y]
  BY <1>2, <1>4, <1>6, <1>7 DEF Merge, NodeRecs
<1>9. /\ z \in NodeRecs(P) /\ z.data = d /\ z.ref = x0
      /\ z.left = T.node[n].left /\ z.right = T.node[n].right
  BY <1>3, <1>5, <1>6 DEF NodeRecs
<1>10. /\ Y \in [DOMAIN T.node -> NodeRecs(P)] /\ DOMAIN Y = DOMAIN T.node
       /\ Y[n] = z /\ \A m \in DOMAIN T.node \ {n} : Y[m] = T.node[m]
  BY <1>2, <1>7, <1>9
<1>11. /\ U \in [root : Nat, top : Nat, bottom : Nat, nodes : Int, dups : Int, node : {Y}]
       /\ U.root = T.root /\ U.top = T.top /\ U.bottom = T.bottom /\ U.node = Y
       /\ U.nodes = T.nodes /\ U.dups = y0
  BY <1>2, <1>5, <1>8
<1>12. Typed(U, P)
  BY <1>2, <1>10, <1>11 DEF Typed
<1>13. \A m \in DOMAIN T.node : /\ U.node[m].left = T.node[m].left
                                /\ U.node[m].right = T.node[m].right
                                /\ val[U.node[m].data] = val[T.node[m].data]
  BY <1>9, <1>10, <1>11
<1>14. DOMAIN U.node = DOMAIN T.node
  BY <1>10, <1>11
<1>15. Shaped(U, val)
  <2>1. PICK L, R, D, S : /\ Linked(T, val, DOMAIN T.node, L, R, D)
                          /\ Shape(DOMAIN T.node, T.root, L, R, D, S)
    BY DEF Sound, Shaped
  <2>2. Linked(U, val, DOMAIN U.node, L, R, D)
    BY <1>13, <1>14, <2>1 DEF Linked
  <2> QED BY <1>11, <1>14, <2>1, <2>2 DEF Shaped
<1>16. Ends(U, val)
  BY <1>11, <1>13, <1>14 DEF Sound, Ends
<1>17. \A e, x : Has(U, e, x) <=>
              \/ Has(T, e, x) /\ e # T.node[n].data
              \/ e = d /\ x = T.node[n].ref + ref
  <2>1. \A m \in DOMAIN T.node : T.node[m].data = T.node[n].data => m = n
    BY OneNodeEach
  <2>2. /\ U.node[n].ref = x0 /\ U.node[n].data = d
        /\ \A m \in DOMAIN T.node \ {n} : U.node[m].ref = T.node[m].ref /\ U.node[m].data = T.node[m].data
    BY <1>9, <1>10, <1>11
  <2> QED BY <1>4, <1>14, <2>1, <2>2 DEF Has
<1>18. Counted(U) /\ U.node[n].data = d
  BY <1>9, <1>10, <1>11, <1>14 DEF Counted
<1> QED BY <1>4, <1>11, <1>12, <1>14, <1>15, <1>16, <1>17, <1>18

(* The memory has room for a new node.                                     *)
LEMMA NewNodeIs ==
  ASSUME NEW T, NEW P, Typed(T, P)
  PROVE  NewNode(T) \in Nat \ {0} /\ NewNode(T) \notin DOMAIN T.node
<1> DEFINE N == DOMAIN T.node
           C == Cardinality(N)
<1>1. IsFiniteSet(N) /\ C \in Nat
  BY FS_CardinalityType DEF Typed
<1> HIDE DEF C, N
<1>2. \E n \in 1 .. C + 1 : n \notin N
  <2> SUFFICES ASSUME \A n \in 1 .. C + 1 : n \in N PROVE FALSE
    OBVIOUS
  <2>1. 1 .. C + 1 \subseteq N
    OBVIOUS
  <2>2. Cardinality(1 .. C + 1) = C + 1
    <3>1. /\ 1 \in Int /\ C + 1 \in Int /\ ~ (1 > C + 1) /\ (C + 1) - 1 + 1 = C + 1
      BY <1>1
    <3>2. Cardinality(1 .. C + 1) = IF 1 > C + 1 THEN 0 ELSE (C + 1) - 1 + 1
      BY <3>1, FS_Interval
    <3> QED BY <3>1, <3>2
  <2>3. Cardinality(1 .. C + 1) <= Cardinality(N)
    BY <1>1, <2>1, FS_Subset
  <2> QED BY <1>1, <2>2, <2>3 DEF C
<1>3. NewNode(T) \in 1 .. C + 1 /\ NewNode(T) \notin N
  BY <1>2 DEF NewNode, C, N
<1> QED BY <1>1, <1>3 DEF N

(* U is T with the leaf, as far as the records go.                         *)
Leafed(T, U, val, d, ref, p, new) ==
  /\ U.root = (IF p = NIL THEN new ELSE T.root) /\ U.top = T.top /\ U.bottom = T.bottom
  /\ U.nodes = T.nodes + 1 /\ U.dups = T.dups
  /\ DOMAIN U.node = DOMAIN T.node \cup {new}
  /\ U.node[new].data = d /\ U.node[new].ref = ref
  /\ U.node[new].left = NIL /\ U.node[new].right = NIL
  /\ \A m \in DOMAIN T.node :
       /\ U.node[m].data = T.node[m].data /\ U.node[m].ref = T.node[m].ref
       /\ U.node[m].left =
            (IF m = p /\ ~ (val[T.node[p].data] < val[d]) THEN new ELSE T.node[m].left)
       /\ U.node[m].right =
            (IF m = p /\ val[T.node[p].data] < val[d] THEN new ELSE T.node[m].right)

(* _insert_into_tree of a value the search has missed: one leaf more.      *)
LEMMA WithLeafIs ==
  ASSUME NEW T, NEW P, Typed(T, P), NEW val, NEW d \in P, NEW ref \in Nat \ {0},
         NEW p \in DOMAIN T.node \cup {NIL}, NEW new \in Nat \ {0}, new \notin DOMAIN T.node,
         NEW U, U = WithLeaf(T, val, d, ref, p, new)
  PROVE  Typed(U, P) /\ Leafed(T, U, val, d, ref, p, new)
<1> DEFINE N == DOMAIN T.node
           M == N \cup {new}
<1>1. /\ T \in [root : Nat, top : Nat, bottom : Nat, nodes : Int, dups : Int, node : {T.node}]
      /\ N \subseteq Nat \ {NIL} /\ IsFiniteSet(N)
      /\ T.node \in [N -> NodeRecs(P)]
  BY DEF Typed
<1>2. M \subseteq Nat \ {NIL} /\ IsFiniteSet(M)
  BY <1>1, FS_AddElement DEF NIL
<1>3. PICK leaf : leaf = [data |-> d, left |-> NIL, right |-> NIL, ref |-> ref]
  OBVIOUS
<1>4. /\ leaf \in NodeRecs(P) /\ leaf.data = d /\ leaf.ref = ref
      /\ leaf.left = NIL /\ leaf.right = NIL
  BY <1>3 DEF NodeRecs, NIL
<1>5. PICK Y : Y = [m \in M |-> IF m = new THEN leaf ELSE T.node[m]]
  OBVIOUS
<1>6. /\ Y \in [M -> NodeRecs(P)] /\ DOMAIN Y = M /\ Y[new] = leaf
      /\ \A m \in N : Y[m] = T.node[m]
  BY <1>1, <1>4, <1>5
<1>7. PICK x0 : x0 = T.nodes + 1
  OBVIOUS
<1>8. x0 \in Int
  BY <1>1, <1>7
<1>9. PICK G : G = [T EXCEPT !.nodes = x0, !.node = Y]
  OBVIOUS
<1>10. G = [T EXCEPT !.nodes = @ + 1,
                     !.node = [m \in DOMAIN @ \cup {new} |-> IF m = new THEN leaf ELSE @[m]]]
  BY <1>1, <1>5, <1>7, <1>9
<1>11. U = IF p = NIL THEN [G EXCEPT !.root = new]
           ELSE IF val[T.node[p].data] < val[d]
             THEN [G EXCEPT !.node[p].right = new]
             ELSE [G EXCEPT !.node[p].left = new]
  BY <1>3, <1>10 DEF WithLeaf
<1>12. /\ G \in [root : Nat, top : Nat, bottom : Nat, nodes : Int, dups : Int, node : {Y}]
       /\ G.root = T.root /\ G.top = T.top /\ G.bottom = T.bottom /\ G.node = Y
       /\ G.nodes = x0 /\ G.dups = T.dups
  BY <1>1, <1>8, <1>9
<1> HIDE DEF M, N
<1>13. CASE p = NIL
  <2>1. /\ U \in [root : Nat, top : Nat, bottom : Nat, nodes : Int, dups : Int, node : {Y}]
        /\ U.root = new /\ U.top = T.top /\ U.bottom = T.bottom /\ U.node = Y
        /\ U.nodes = x0 /\ U.dups = T.dups
    BY <1>11, <1>12, <1>13
  <2>2. Typed(U, P)
    BY <1>2, <1>6, <2>1 DEF Typed
  <2>3. \A m \in N : m # p
    BY <1>1, <1>13
  <2>4. Leafed(T, U, val, d, ref, p, new)
    BY <1>4, <1>6, <1>7, <1>13, <2>1, <2>3 DEF Leafed, M, N
  <2> QED BY <2>2, <2>4
<1>14. CASE p # NIL
  <2>1. p \in N /\ p \in M /\ p # new
    BY <1>14 DEF M, N
  <2>2. PICK x : x = T.node[p] /\ x \in NodeRecs(P)
    BY <1>1, <2>1
  <2>3. PICK y : y = IF val[T.node[p].data] < val[d] THEN [x EXCEPT !.right = new]
                                                     ELSE [x EXCEPT !.left = new]
    OBVIOUS
  <2>4. /\ y \in NodeRecs(P) /\ y.data = x.data /\ y.ref = x.ref
        /\ y.left = (IF ~ (val[T.node[p].data] < val[d]) THEN new ELSE x.left)
        /\ y.right = (IF val[T.node[p].data] < val[d] THEN new ELSE x.right)
    BY <2>2, <2>3 DEF NodeRecs
  <2>5. PICK V : V = [Y EXCEPT ![p] = y]
    OBVIOUS
  <2>6. U = [G EXCEPT !.node = V]
    BY <1>6, <1>11, <1>12, <1>14, <2>1, <2>2, <2>3, <2>5
  <2>7. /\ V \in [M -> NodeRecs(P)] /\ DOMAIN V = M /\ V[p] = y
        /\ \A m \in M \ {p} : V[m] = Y[m]
    BY <1>6, <2>1, <2>4, <2>5
  <2>8. /\ U \in [root : Nat, top : Nat, bottom : Nat, nodes : Int, dups : Int, node : {V}]
        /\ U.root = T.root /\ U.top = T.top /\ U.bottom = T.bottom /\ U.node = V
        /\ U.nodes = x0 /\ U.dups = T.dups
    BY <1>12, <2>6
  <2>9. Typed(U, P)
    BY <1>2, <2>7, <2>8 DEF Typed
  <2>10. ASSUME NEW m \in N
         PROVE  /\ V[m].data = T.node[m].data /\ V[m].ref = T.node[m].ref
                /\ V[m].left =
                     (IF m = p /\ ~ (val[T.node[p].data] < val[d]) THEN new ELSE T.node[m].left)
                /\ V[m].right =
                     (IF m = p /\ val[T.node[p].data] < val[d] THEN new ELSE T.node[m].right)
    <3>1. CASE m = p
      BY <2>2, <2>4, <2>7, <3>1
    <3>2. CASE m # p
      BY <1>6, <2>7, <3>2 DEF M
    <3> QED BY <3>1, <3>2
  <2>11. V[new] = leaf
    BY <1>6, <2>1, <2>7 DEF M
  <2>12. Leafed(T, U, val, d, ref, p, new)
    BY <1>4, <1>7, <1>14, <2>7, <2>8, <2>10, <2>11 DEF Leafed, M, N
  <2> QED BY <2>9, <2>12
<1> QED BY <1>13, <1>14

(* The leaf keeps the order, as it is where the search has ended.          *)
LEMMA LeafedIsShaped ==
  ASSUME NEW T, NEW P, NEW val, NEW L, NEW R, NEW D, NEW S, Tree(T, P, val, L, R, D, S),
         NEW d \in P, NEW ref, NEW p, Found(DOMAIN T.node, T.root, L, R, D, S, val[d], NIL, p),
         NEW new \in Nat \ {0}, new \notin DOMAIN T.node,
         NEW U, Typed(U, P), Leafed(T, U, val, d, ref, p, new)
  PROVE  Shaped(U, val)
<1> DEFINE N == DOMAIN T.node
           M == N \cup {new}
<1>1. /\ Shape(N, T.root, L, R, D, S) /\ val \in [P -> Int]
      /\ \A m \in N : L[m] = T.node[m].left /\ R[m] = T.node[m].right /\ D[m] = val[T.node[m].data]
  BY DEF Tree, Linked
<1>2. PICK v : v = val[d]
  OBVIOUS
<1>3. /\ p \in N \cup {NIL} /\ v \in Int
      /\ p = NIL => NIL = T.root
      /\ p # NIL => /\ D[p] # v
                    /\ NIL = IF v < D[p] THEN L[p] ELSE R[p]
                    /\ \A y \in N \ S[p] : \/ D[y] < v /\ D[y] < D[p]
                                           \/ v < D[y] /\ D[p] < D[y]
  BY <1>1, <1>2 DEF Found
<1>4. /\ NIL \notin N /\ D \in [N -> Int]
      /\ L \in [N -> N \cup {NIL}] /\ R \in [N -> N \cup {NIL}]
      /\ S[NIL] = {} /\ S[T.root] = N
  BY <1>1 DEF Shape, Split
<1>5. PICK A, B, E : /\ A = [m \in M |-> U.node[m].left]
                     /\ B = [m \in M |-> U.node[m].right]
                     /\ E = [m \in M |-> val[U.node[m].data]]
  OBVIOUS
<1>6. /\ DOMAIN U.node = M /\ U.root = (IF p = NIL THEN new ELSE T.root)
      /\ A[new] = NIL /\ B[new] = NIL /\ E[new] = v
  BY <1>2, <1>5 DEF Leafed
<1>7. ASSUME NEW m \in N
      PROVE  /\ A[m] = (IF m = p /\ ~ (D[p] < v) THEN new ELSE L[m])
             /\ B[m] = (IF m = p /\ D[p] < v THEN new ELSE R[m])
             /\ E[m] = D[m]
  <2>1. A[m] = U.node[m].left /\ B[m] = U.node[m].right /\ E[m] = val[U.node[m].data]
    BY <1>5
  <2>2. /\ U.node[m].data = T.node[m].data
        /\ U.node[m].left =
             (IF m = p /\ ~ (val[T.node[p].data] < val[d]) THEN new ELSE T.node[m].left)
        /\ U.node[m].right =
             (IF m = p /\ val[T.node[p].data] < val[d] THEN new ELSE T.node[m].right)
    BY DEF Leafed
  <2> QED BY <1>1, <1>2, <2>1, <2>2
<1>8. A \in [M -> M \cup {NIL}] /\ B \in [M -> M \cup {NIL}] /\ E \in [M -> Int]
  <2>1. ASSUME NEW m \in M PROVE A[m] \in M \cup {NIL} /\ B[m] \in M \cup {NIL} /\ E[m] \in Int
    <3>1. CASE m = new
      BY <1>3, <1>6, <3>1
    <3>2. CASE m # new
      <4>1. m \in N
        BY <3>2
      <4>2. L[m] \in N \cup {NIL} /\ R[m] \in N \cup {NIL} /\ D[m] \in Int
        BY <1>4, <4>1
      <4> QED BY <1>7, <4>1, <4>2
    <3> QED BY <3>1, <3>2
  <2>2. /\ A = [m \in M |-> A[m]] /\ B = [m \in M |-> B[m]] /\ E = [m \in M |-> E[m]]
    BY <1>5
  <2> QED BY <2>1, <2>2
<1>9. M = N \cup {new} /\ new # NIL /\ new \notin N
  BY DEF NIL
<1>10. Linked(U, val, M, A, B, E)
  BY <1>5, <1>6 DEF Linked
<1> HIDE DEF M, N
<1>11. \E Z : Shape(M, U.root, A, B, E, Z)
  <2>1. CASE p = NIL
    <3>1. N = {}
      BY <1>3, <1>4, <2>1
    <3>2. M = {new} /\ U.root = new
      BY <1>6, <1>9, <2>1, <3>1
    <3> QED BY <1>6, <1>8, <1>9, <3>2, GrownFirst
  <2>2. CASE p # NIL /\ v < D[p]
    <3>1. p \in N /\ ~ (D[p] < v) /\ L[p] = NIL
      BY <1>3, <1>4, <2>2
    <3>2. \A m \in N : B[m] = R[m] /\ A[m] = (IF m = p THEN new ELSE L[m]) /\ E[m] = D[m]
      BY <1>7, <3>1
    <3>3. GrowsLeft(N, T.root, L, R, D, S, new, p, v, M, A, B, E)
      BY <1>1, <1>3, <1>6, <1>8, <1>9, <2>2, <3>1, <3>2 DEF GrowsLeft
    <3> QED BY <1>6, <2>2, <3>3, GrownLeft
  <2>3. CASE p # NIL /\ ~ (v < D[p])
    <3>1. p \in N /\ D[p] < v /\ R[p] = NIL
      BY <1>3, <1>4, <2>3
    <3>2. \A m \in N : A[m] = L[m] /\ B[m] = (IF m = p THEN new ELSE R[m]) /\ E[m] = D[m]
      BY <1>7, <3>1
    <3>3. GrowsRight(N, T.root, L, R, D, S, new, p, v, M, A, B, E)
      BY <1>1, <1>3, <1>6, <1>8, <1>9, <2>3, <3>1, <3>2 DEF GrowsRight
    <3> QED BY <1>6, <2>3, <3>3, GrownRight
  <2> QED BY <2>1, <2>2, <2>3
<1> QED BY <1>6, <1>10, <1>11 DEF Shaped

(* W has ref more references of the value, which d now stands for.         *)
Inserted(T, W, val, d, ref) ==
  \/ \E n \in DOMAIN T.node :
       /\ val[T.node[n].data] = val[d]
       /\ \A e, x : Has(W, e, x) <=>
                    (Has(T, e, x) /\ e # T.node[n].data) \/ (e = d /\ x = T.node[n].ref + ref)
  \/ /\ \A n \in DOMAIN T.node : val[T.node[n].data] # val[d]
     /\ \A e, x : Has(W, e, x) <=> Has(T, e, x) \/ (e = d /\ x = ref)

(* bintree_insert_data and bintree_insert_node: the value has ref more     *)
(* references, and the counters have grown by one.                         *)
LEMMA InsertIs ==
  ASSUME NEW T, NEW P, NEW val \in [P -> Int], Sound(T, P, val), Counted(T), NEW d \in P,
         NEW ref \in Nat \ {0}, NEW W, W = Insert(T, val, d, ref)
  PROVE  /\ Sound(W, P, val) /\ Counted(W)
         /\ W.nodes + W.dups = T.nodes + T.dups + 1
         /\ Inserted(T, W, val, d, ref)
<1>1. PICK L, R, D, S : Tree(T, P, val, L, R, D, S)
  BY DEF Sound, Shaped, Tree
<1>2. PICK c, p : /\ Search(T, val, d) = <<c, p>>
                  /\ Found(DOMAIN T.node, T.root, L, R, D, S, val[d], c, p)
                  /\ c # NIL => D[c] = val[d]
  BY <1>1, SearchIs
<1>3. /\ T.nodes \in Int /\ T.dups \in Int /\ NIL \notin DOMAIN T.node
      /\ \A m \in DOMAIN T.node : D[m] = val[T.node[m].data]
  BY <1>1 DEF Tree, Typed, Linked
<1>4. c \in DOMAIN T.node \cup {NIL} /\ p \in DOMAIN T.node \cup {NIL}
  BY <1>2 DEF Found
<1>5. CASE c # NIL
  <2>1. c \in DOMAIN T.node /\ val[T.node[c].data] = val[d]
    BY <1>2, <1>3, <1>4, <1>5
  <2>2. PICK U : U = Merge(T, c, d, ref)
    OBVIOUS
  <2>3. /\ Typed(U, P) /\ Shaped(U, val) /\ Ends(U, val) /\ Counted(U)
        /\ U.nodes = T.nodes /\ U.dups = T.dups + 1
        /\ U.node[c].data = d /\ DOMAIN U.node = DOMAIN T.node
        /\ \A e, x : Has(U, e, x) <=>
             \/ Has(T, e, x) /\ e # T.node[c].data
             \/ e = d /\ x = T.node[c].ref + ref
    BY <2>1, <2>2, MergeIs
  <2>4. W = EndsMoved(U, val, d, c)
    <3>1. Search(T, val, d)[1] = c
      BY <1>2
    <3>2. Insert(T, val, d, ref) = EndsMoved(Merge(T, c, d, ref), val, d, c)
      BY <1>5, <3>1, Zenon DEF Insert
    <3> QED BY <2>2, <3>2, Zenon
  <2>5. \A m \in DOMAIN U.node \ {c} :
          /\ U.top \in DOMAIN U.node /\ val[U.node[m].data] <= val[U.node[U.top].data]
          /\ U.bottom \in DOMAIN U.node /\ val[U.node[U.bottom].data] <= val[U.node[m].data]
    BY <2>3 DEF Ends
  <2>6. Typed(W, P) /\ SameButEnds(U, W) /\ Ends(W, val)
    BY <2>1, <2>3, <2>4, <2>5, EndsMovedIs
  <2>7. W.root = U.root /\ W.node = U.node /\ W.nodes = U.nodes /\ W.dups = U.dups
    BY <2>6 DEF SameButEnds
  <2>8. Shaped(W, val) /\ Counted(W) /\ \A e, x : Has(W, e, x) <=> Has(U, e, x)
    BY <2>3, <2>7 DEF Shaped, Linked, Counted, Has
  <2>9. \A e, x : Has(W, e, x) <=>
                   (Has(T, e, x) /\ e # T.node[c].data) \/ (e = d /\ x = T.node[c].ref + ref)
    BY <2>3, <2>8
  <2>10. Inserted(T, W, val, d, ref)
    BY <2>1, <2>9 DEF Inserted
  <2> QED BY <1>3, <2>3, <2>6, <2>7, <2>8, <2>10 DEF Sound
<1>6. CASE c = NIL
  <2>1. PICK new : new = NewNode(T)
    OBVIOUS
  <2>2. new \in Nat \ {0} /\ new \notin DOMAIN T.node
    BY <1>1, <2>1, NewNodeIs DEF Tree
  <2>3. PICK U : U = WithLeaf(T, val, d, ref, p, new)
    OBVIOUS
  <2>4. Typed(U, P) /\ Leafed(T, U, val, d, ref, p, new)
    BY <1>1, <1>4, <2>2, <2>3, WithLeafIs DEF Tree
  <2>5. Shaped(U, val)
    BY <1>1, <1>2, <1>6, <2>2, <2>4, LeafedIsShaped
  <2>6. /\ U.top = T.top /\ U.bottom = T.bottom
        /\ U.nodes = T.nodes + 1 /\ U.dups = T.dups
        /\ DOMAIN U.node = DOMAIN T.node \cup {new}
        /\ U.node[new].data = d /\ U.node[new].ref = ref
        /\ \A m \in DOMAIN T.node : U.node[m].data = T.node[m].data /\ U.node[m].ref = T.node[m].ref
    BY <2>4 DEF Leafed
  <2>7. W = EndsMoved(U, val, d, new)
    <3>1. Search(T, val, d)[1] = NIL /\ Search(T, val, d)[2] = p
      BY <1>2, <1>6
    <3>2. Insert(T, val, d, ref)
            = EndsMoved(WithLeaf(T, val, d, ref, Search(T, val, d)[2], NewNode(T)), val, d, NewNode(T))
      BY <3>1, Zenon DEF Insert
    <3> QED BY <2>1, <2>3, <3>1, <3>2, Zenon
  <2>8. Counted(U)
    <3>1. IsFiniteSet(DOMAIN T.node)
      BY <1>1 DEF Tree, Typed
    <3>2. Cardinality(DOMAIN T.node \cup {new}) = Cardinality(DOMAIN T.node) + 1
      BY <2>2, <3>1, FS_AddElement
    <3> QED BY <2>6, <3>2 DEF Counted
  <2>9. \A m \in DOMAIN U.node \ {new} :
          /\ U.top \in DOMAIN U.node /\ val[U.node[m].data] <= val[U.node[U.top].data]
          /\ U.bottom \in DOMAIN U.node /\ val[U.node[U.bottom].data] <= val[U.node[m].data]
    BY <2>6 DEF Sound, Ends
  <2>10. Typed(W, P) /\ SameButEnds(U, W) /\ Ends(W, val)
    <3>1. new \in DOMAIN U.node /\ val[U.node[new].data] = val[d]
      BY <2>6
    <3> QED BY <2>4, <2>7, <2>8, <2>9, <3>1, EndsMovedIs
  <2>11. W.root = U.root /\ W.node = U.node /\ W.nodes = U.nodes /\ W.dups = U.dups
    BY <2>10 DEF SameButEnds
  <2>12. Shaped(W, val) /\ Counted(W)
    BY <2>5, <2>8, <2>11 DEF Shaped, Linked, Counted
  <2>13. \A n \in DOMAIN T.node : val[T.node[n].data] # val[d]
    <3>1. S[NIL] = {}
      BY <1>1 DEF Tree, Shape, Split
    <3>2. \A y \in DOMAIN T.node : D[y] = val[d] => y \in S[c]
      BY <1>2 DEF Found
    <3> QED BY <1>3, <1>6, <3>1, <3>2
  <2>14. \A e, x : Has(W, e, x) <=> Has(T, e, x) \/ (e = d /\ x = ref)
    <3>1. \A m \in DOMAIN T.node : m # new
      BY <2>2
    <3> QED BY <2>6, <2>11, <3>1 DEF Has
  <2>15. W.nodes + W.dups = T.nodes + T.dups + 1
    BY <1>3, <2>6, <2>11
  <2>16. Inserted(T, W, val, d, ref)
    BY <2>13, <2>14 DEF Inserted
  <2> QED BY <2>10, <2>12, <2>15, <2>16 DEF Sound
<1> QED BY <1>5, <1>6

-----------------------------------------------------------------------------
(* What is below a node, as the invariant says it.                         *)
LEMMA BelowIs ==
  ASSUME NEW T, NEW P, NEW val, NEW L, NEW R, NEW D, NEW S, Tree(T, P, val, L, R, D, S),
         NEW n \in DOMAIN T.node \cup {NIL}
  PROVE  Below(T, n) = S[n]
<1> DEFINE N == DOMAIN T.node
<1>1. /\ Shape(N, T.root, L, R, D, S) /\ IsFiniteSet(N)
      /\ \A m \in N : L[m] = T.node[m].left /\ R[m] = T.node[m].right
  BY DEF Tree, Linked, Typed
<1>2. /\ NIL \notin N /\ S[NIL] = {} /\ S \in [N \cup {NIL} -> SUBSET N]
      /\ L \in [N -> N \cup {NIL}] /\ R \in [N -> N \cup {NIL}]
      /\ \A m \in N : S[m] = {m} \cup S[L[m]] \cup S[R[m]]
  BY <1>1 DEF Shape, Split
<1>3. CASE n = NIL
  BY <1>2, <1>3 DEF Below
<1>4. CASE n # NIL
  <2>1. n \in N
    BY <1>4
  <2> DEFINE closed == {M \in SUBSET N : \A p \in M : {Left(T, p), Right(T, p)} \subseteq M \cup {NIL}}
  <2>2. Below(T, n) = {m \in N : \A M \in closed : n \in M => m \in M}
    BY <1>4 DEF Below
  <2>3. ASSUME NEW M \in closed, n \in M
        PROVE  S[n] \subseteq M
    <3>1. \A p \in M : L[p] \in M \cup {NIL} /\ R[p] \in M \cup {NIL}
      BY <1>1 DEF Left, Right
    <3> QED BY <1>1, <2>3, <3>1, ClosedHasBelow
  <2>4. S[n] \in SUBSET N /\ n \in S[n]
    BY <1>2, <2>1
  <2>5. S[n] \in closed
    <3>1. ASSUME NEW p \in S[n] PROVE {Left(T, p), Right(T, p)} \subseteq S[n] \cup {NIL}
      <4>1. S[p] \subseteq S[n] /\ p \in N
        BY <1>1, <2>1, <2>4, BelowBelow
      <4>2. L[p] # NIL => L[p] \in S[p]
        BY <1>2, <4>1
      <4>3. R[p] # NIL => R[p] \in S[p]
        BY <1>2, <4>1
      <4> QED BY <1>1, <4>1, <4>2, <4>3 DEF Left, Right
    <3> QED BY <2>4, <3>1
  <2> HIDE DEF closed
  <2>6. Below(T, n) \subseteq S[n]
    BY <2>2, <2>4, <2>5
  <2>7. S[n] \subseteq Below(T, n)
    BY <2>2, <2>3, <2>4
  <2> QED BY <2>6, <2>7
<1> QED BY <1>3, <1>4

(* A finite set of numbers has a greatest and a least one.                 *)
LEMMA MaxIs ==
  \A X \in SUBSET Nat : IsFiniteSet(X) /\ X # {} => \E x \in X : \A y \in X : x >= y
<1> DEFINE Bad(X) == IsFiniteSet(X) /\ X # {} /\ ~ \E x \in X : \A y \in X : x >= y
           Sizes == {k \in Nat : \E X \in SUBSET Nat : Bad(X) /\ Cardinality(X) = k}
<1> SUFFICES ASSUME \E X \in SUBSET Nat : Bad(X) PROVE FALSE
  OBVIOUS
<1>1. Sizes # {} /\ Sizes \subseteq Nat
  <2>1. PICK X \in SUBSET Nat : Bad(X)
    OBVIOUS
  <2>2. Cardinality(X) \in Nat
    BY <2>1, FS_CardinalityType
  <2> QED BY <2>1, <2>2
<1>2. PICK k \in Sizes : \A j \in Sizes : k <= j
  <2> HIDE DEF Sizes
  <2> QED BY <1>1, LeastNat
<1>3. PICK X \in SUBSET Nat : Bad(X) /\ Cardinality(X) = k
  BY <1>2
<1>4. PICK x \in X : x \in Nat
  BY <1>3
<1>5. PICK Y : Y = X \ {x}
  OBVIOUS
<1>6. IsFiniteSet(Y) /\ Y \in SUBSET Nat /\ k \in Nat
  BY <1>1, <1>2, <1>3, <1>5, FS_Subset
<1>7. Cardinality(Y) = k - 1 /\ Cardinality(Y) \in Nat
  <2>1. Cardinality(X \ {x}) = Cardinality(X) - 1
    BY <1>3, <1>4, FS_RemoveElement
  <2> QED BY <1>3, <1>5, <1>6, <2>1, FS_CardinalityType
<1>8. ~ Bad(Y)
  <2>1. k - 1 \notin Sizes
    BY <1>2, <1>6
  <2> QED BY <1>6, <1>7, <2>1
<1>9. CASE Y = {}
  <2>1. X = {x}
    BY <1>4, <1>5, <1>9
  <2> QED BY <1>3, <1>4, <2>1
<1>10. CASE Y # {}
  <2>1. PICK y \in Y : \A z \in Y : y >= z
    BY <1>6, <1>8, <1>10
  <2>2. y \in X /\ y \in Nat
    BY <1>3, <1>5
  <2>3. \A z \in X : z \in Nat
    BY <1>3
  <2>4. PICK w \in {x, y} : w >= x /\ w >= y
    BY <1>4, <2>2
  <2>5. w \in X /\ \A z \in X : w >= z
    BY <1>4, <1>5, <2>1, <2>2, <2>3, <2>4
  <2> QED BY <1>3, <2>5
<1> QED BY <1>9, <1>10

(* Max and Min are what their names say.                                   *)
LEMMA MaxOf ==
  ASSUME NEW X \in SUBSET Nat, IsFiniteSet(X), X # {}
  PROVE  Max(X) \in X /\ \A y \in X : y <= Max(X)
<1>1. \E x \in X : \A y \in X : x >= y
  BY MaxIs
<1>2. Max(X) \in X /\ \A y \in X : Max(X) >= y
  BY <1>1 DEF Max
<1> QED BY <1>2

(* Of a set of natural numbers there is always a least.                    *)
LEMMA MinOf ==
  ASSUME NEW X \in SUBSET Nat, X # {}
  PROVE  Min(X) \in X /\ \A y \in X : Min(X) <= y
<1>1. \E x \in X : \A y \in X : x =< y
  BY LeastNat
<1> QED BY <1>1 DEF Min

(* The partial sums of Refs.                                               *)
LastKey == Max(Keys \cup {0})

SumsOf(f, g) ==
  /\ g \in [0 .. LastKey -> Int] /\ g[0] = 0
  /\ \A k \in 1 .. LastKey : g[k] = g[k - 1] + IF k \in Keys THEN f[k] ELSE 0

(* The keys are among the numbers the sum runs over.                       *)
LEMMA LastKeyIs == LastKey \in Nat /\ \A k \in Keys : k \in 1 .. LastKey
<1>1. Keys \cup {0} \in SUBSET Nat /\ IsFiniteSet(Keys \cup {0}) /\ \A k \in Keys : k \in Nat /\ k # 0
  <2>1. IsFiniteSet(Keys \cup {0})
    BY KeysAssumption, FS_AddElement, Zenon
  <2> QED BY <2>1, KeysAssumption DEF NIL
<1>2. LastKey \in Nat /\ \A k \in Keys \cup {0} : k <= LastKey
  BY <1>1, MaxOf DEF LastKey
<1> QED BY <1>1, <1>2

(* Refs is the last of the partial sums.                                   *)
LEMMA RefsIs ==
  ASSUME NEW f \in [Keys -> Int]
  PROVE  \E g : SumsOf(f, g) /\ Refs(f) = g[LastKey]
<1> DEFINE K == LastKey
           Is(g) == g = [k \in 0 .. Max(Keys \cup {0}) |->
                           IF k = 0 THEN 0 ELSE g[k - 1] + IF k \in Keys THEN f[k] ELSE 0]
           t == [k \in 1 .. K |-> [c \in Int |-> c + IF k \in Keys THEN f[k] ELSE 0]]
<1>1. K \in Nat
  BY LastKeyIs
<1>2. \A k \in 1 .. K : (IF k \in Keys THEN f[k] ELSE 0) \in Int
  OBVIOUS
<1>3. t \in [1 .. K -> [Int -> Int]]
      /\ \A k \in 1 .. K : \A c \in Int : t[k][c] = c + IF k \in Keys THEN f[k] ELSE 0
  BY <1>2
<1> HIDE DEF t, K
<1>4. \E g : Is(g) /\ g \in [0 .. K -> Int]
  <2>1. PICK g : TurnsOf(Int, 0, t, K, g)
    <3> DEFINE X == Int
    <3>1. 0 \in X /\ t \in [1 .. K -> [X -> X]] /\ K \in Nat
      BY <1>1, <1>3
    <3> HIDE DEF X
    <3>2. \E g : TurnsOf(X, 0, t, K, g)
      BY <3>1, LoopTurns
    <3> QED BY <3>2 DEF X
  <2>2. /\ g \in [0 .. K -> Int]
        /\ \A k \in 0 .. K : g[k] = IF k = 0 THEN 0 ELSE t[k][g[k - 1]]
    BY <2>1 DEF TurnsOf
  <2>3. ASSUME NEW k \in 0 .. K, k # 0
        PROVE  g[k] = g[k - 1] + IF k \in Keys THEN f[k] ELSE 0
    <3>1. k \in 1 .. K /\ k - 1 \in 0 .. K
      BY <1>1, <2>3
    <3> QED BY <1>3, <2>2, <2>3, <3>1
  <2>4. \A k \in 0 .. K : g[k] = IF k = 0 THEN 0 ELSE g[k - 1] + IF k \in Keys THEN f[k] ELSE 0
    BY <2>2, <2>3
  <2>5. g = [k \in 0 .. K |-> g[k]]
    BY <2>2
  <2>6. Is(g)
    BY <2>4, <2>5 DEF K, LastKey
  <2> QED BY <2>2, <2>6
<1>5. PICK g : g = (CHOOSE h : Is(h)) /\ Is(g)
  <2>1. \E g : Is(g)
    BY <1>4
  <2> HIDE DEF Is
  <2> QED BY <2>1, Zenon
<1>6. Refs(f) = g[K]
  <2>1. Refs(f) = (CHOOSE h : Is(h))[K]
    BY DEF Refs, K, LastKey
  <2> QED BY <1>5, <2>1, Zenon
<1>7. \A k \in 0 .. K : g[k] = IF k = 0 THEN 0 ELSE g[k - 1] + IF k \in Keys THEN f[k] ELSE 0
  BY <1>5, Zenon DEF K, LastKey
<1>8. g[0] = 0 /\ \A k \in 1 .. K : g[k] = g[k - 1] + IF k \in Keys THEN f[k] ELSE 0
  <2> HIDE DEF Is
  <2> QED BY <1>1, <1>7
<1>9. g = [k \in 0 .. K |-> g[k]]
  <2>1. g = [k \in 0 .. K |-> IF k = 0 THEN 0 ELSE g[k - 1] + IF k \in Keys THEN f[k] ELSE 0]
    BY <1>5, Zenon DEF K, LastKey
  <2> HIDE DEF Is
  <2> QED BY <2>1
<1> HIDE DEF Is
<1>10. \A k \in 0 .. K : g[k] \in Int
  <2> DEFINE Q == [k \in 0 .. K |-> Int]
  <2>1. \A k \in 0 .. K : Q[k] = Int
    OBVIOUS
  <2> HIDE DEF Q
  <2>2. g[0] \in Q[0]
    BY <1>1, <1>8, <2>1
  <2>3. ASSUME NEW k \in 1 .. K, g[k - 1] \in Q[k - 1] PROVE g[k] \in Q[k]
    <3>1. k - 1 \in 0 .. K /\ k \in 0 .. K
      BY <1>1
    <3> QED BY <1>2, <1>8, <2>1, <2>3, <3>1
  <2>4. \A k \in 0 .. K : g[k] \in Q[k]
    BY <1>1, <2>2, <2>3, TurnsHold
  <2> QED BY <2>1, <2>4
<1>11. g \in [0 .. K -> Int]
  BY <1>9, <1>10
<1> QED BY <1>6, <1>8, <1>11 DEF SumsOf, K

(* The references are a number.                                            *)
LEMMA RefsInt ==
  ASSUME NEW f \in [Keys -> Nat]
  PROVE  Refs(f) \in Int
<1>1. f \in [Keys -> Int]
  OBVIOUS
<1>2. PICK g : SumsOf(f, g) /\ Refs(f) = g[LastKey]
  BY <1>1, RefsIs
<1> QED BY <1>2, LastKeyIs DEF SumsOf

(* Refs of a bag in which one key has another number.                      *)
LEMMA RefsChanged ==
  ASSUME NEW f \in [Keys -> Nat], NEW h \in [Keys -> Nat], NEW k \in Keys,
         \A j \in Keys : j # k => h[j] = f[j]
  PROVE  Refs(h) = Refs(f) - f[k] + h[k]
<1> DEFINE K == LastKey
<1>1. PICK v : v = h[k]
  OBVIOUS
<1>2. /\ h \in [Keys -> Int] /\ f \in [Keys -> Int] /\ f[k] \in Int /\ v \in Int
      /\ h[k] = v /\ \A j \in Keys : j # k => h[j] = f[j]
  BY <1>1
<1>3. PICK a, b : /\ SumsOf(f, a) /\ Refs(f) = a[K]
                  /\ SumsOf(h, b) /\ Refs(h) = b[K]
  BY <1>2, RefsIs
<1>4. K \in Nat /\ k \in 1 .. K
  BY LastKeyIs
<1>5. /\ a \in [0 .. K -> Int] /\ a[0] = 0
      /\ \A j \in 1 .. K : a[j] = a[j - 1] + IF j \in Keys THEN f[j] ELSE 0
      /\ b[0] = 0
      /\ \A j \in 1 .. K : b[j] = b[j - 1] + IF j \in Keys THEN h[j] ELSE 0
  BY <1>3 DEF SumsOf
<1> DEFINE Q == [j \in 0 .. K |-> {x \in Int : x = a[j] + IF k <= j THEN v - f[k] ELSE 0}]
<1>6. \A j \in 0 .. K : \A x : x \in Q[j] <=> x \in Int /\ x = a[j] + IF k <= j THEN v - f[k] ELSE 0
  OBVIOUS
<1> HIDE DEF Q, K
<1>7. b[0] \in Q[0]
  BY <1>4, <1>5, <1>6
<1>8. ASSUME NEW j \in 1 .. K, b[j - 1] \in Q[j - 1] PROVE b[j] \in Q[j]
  <2>1. j - 1 \in 0 .. K /\ j \in 0 .. K /\ j \in Int
    BY <1>4
  <2>2. /\ b[j - 1] \in Int /\ b[j - 1] = a[j - 1] + IF k <= j - 1 THEN v - f[k] ELSE 0
        /\ a[j - 1] \in Int /\ a[j] \in Int
    BY <1>5, <1>6, <1>8, <2>1
  <2>3. CASE j \in Keys
    <3>1. a[j] = a[j - 1] + f[j] /\ b[j] = b[j - 1] + h[j] /\ f[j] \in Int /\ h[j] \in Int
      BY <1>2, <1>5, <2>3
    <3>2. CASE j = k
      BY <1>2, <1>4, <1>6, <2>1, <2>2, <3>1, <3>2
    <3>3. CASE j # k
      <4>1. h[j] = f[j] /\ (k <= j <=> k <= j - 1)
        BY <1>2, <1>4, <2>1, <2>3, <3>3
      <4> QED BY <1>2, <1>6, <2>1, <2>2, <3>1, <4>1
    <3> QED BY <3>2, <3>3
  <2>4. CASE j \notin Keys
    <3>1. a[j] = a[j - 1] + 0 /\ b[j] = b[j - 1] + 0
      BY <1>5, <2>4
    <3>2. k <= j <=> k <= j - 1
      BY <1>4, <2>1, <2>4
    <3> QED BY <1>2, <1>6, <2>1, <2>2, <3>1, <3>2
  <2> QED BY <2>3, <2>4
<1>9. \A j \in 0 .. K : b[j] \in Q[j]
  BY <1>4, <1>7, <1>8, TurnsHold
<1>10. b[K] = a[K] + (v - f[k]) /\ a[K] \in Int
  <2>1. K \in 0 .. K /\ k <= K
    BY <1>4
  <2> QED BY <1>5, <1>6, <1>9, <2>1
<1>11. Refs(h) = Refs(f) - f[k] + v
  BY <1>2, <1>3, <1>10 DEF K
<1> QED BY <1>1, <1>11

(* A bag without references has the sum 0.                                 *)
LEMMA RefsOfNone == Refs([k \in Keys |-> 0]) = 0
<1> DEFINE f == [k \in Keys |-> 0]
           K == LastKey
<1>1. f \in [Keys -> Int] /\ \A k \in Keys : f[k] = 0
  OBVIOUS
<1> HIDE DEF f
<1>2. PICK g : SumsOf(f, g) /\ Refs(f) = g[K]
  BY <1>1, RefsIs
<1>3. /\ g[0] = 0
      /\ \A j \in 1 .. K : g[j] = g[j - 1] + IF j \in Keys THEN f[j] ELSE 0
  BY <1>2 DEF SumsOf
<1>4. K \in Nat
  BY LastKeyIs
<1> DEFINE Q == [j \in 0 .. K |-> {0}]
<1>5. \A j \in 0 .. K : Q[j] = {0}
  OBVIOUS
<1> HIDE DEF Q, K
<1>6. g[0] \in Q[0]
  BY <1>3, <1>4, <1>5
<1>7. ASSUME NEW j \in 1 .. K, g[j - 1] \in Q[j - 1] PROVE g[j] \in Q[j]
  <2>1. j - 1 \in 0 .. K /\ j \in 0 .. K
    BY <1>4
  <2>2. g[j - 1] = 0
    BY <1>5, <1>7, <2>1
  <2>3. g[j] = 0
    BY <1>1, <1>3, <2>2
  <2> QED BY <1>5, <2>1, <2>3
<1>8. \A j \in 0 .. K : g[j] \in Q[j]
  BY <1>4, <1>6, <1>7, TurnsHold
<1>9. g[K] = 0
  BY <1>4, <1>5, <1>8
<1> QED BY <1>2, <1>9 DEF f

-----------------------------------------------------------------------------
(* The tree T has, of each key, the references that b says.                *)
IsBag(T, b) ==
  /\ Sound(T, Keys, Id) /\ Counted(T) /\ b \in [Keys -> Nat]
  /\ \A k, x : Has(T, k, x) <=> k \in Keys /\ x = b[k] /\ x # 0

(* The inductive invariant.                                                *)
TreeInv ==
  /\ IsBag(tree, bag)
  /\ hand = NoNode \/ (hand.data \in Keys /\ hand.ref \in Nat \ {0})
  /\ inexact = 0 => tree.nodes + tree.dups = Refs(bag)

(* The keys are their own values.                                          *)
LEMMA IdIs == Id \in [Keys -> Int] /\ \A k \in Keys : Id[k] = k
  BY KeysAssumption DEF Id

(* The node of a key.                                                      *)
LEMMA NodeOfKey ==
  ASSUME NEW T, NEW b, IsBag(T, b)
  PROVE  /\ \A n \in DOMAIN T.node : /\ T.node[n].data \in Keys /\ T.node[n].ref \in Nat \ {0}
                                     /\ T.node[n].ref = b[T.node[n].data]
                                     /\ Id[T.node[n].data] = T.node[n].data
         /\ \A k \in Keys : b[k] # 0 => \E n \in DOMAIN T.node : T.node[n].data = k
<1>1. \A n \in DOMAIN T.node : T.node[n].data \in Keys /\ T.node[n].ref \in Nat \ {0}
  BY DEF IsBag, Sound, Typed, NodeRecs
<1>2. ASSUME NEW n \in DOMAIN T.node PROVE T.node[n].ref = b[T.node[n].data]
  <2>1. Has(T, T.node[n].data, T.node[n].ref)
    BY DEF Has
  <2> QED BY <2>1 DEF IsBag
<1>3. \A k \in Keys : b[k] # 0 => \E n \in DOMAIN T.node : T.node[n].data = k
  BY DEF IsBag, Has
<1> QED BY <1>1, <1>2, <1>3, IdIs

(* The references of the node that takes the place of another's.           *)
LEMMA HeirRef ==
  ASSUME NEW T, NEW b, IsBag(T, b), NEW n \in DOMAIN T.node
  PROVE  /\ HasBoth(T, n) => Heir(T, T.node[n].data) = T.node[Leaver(T, n)].ref
         /\ ~HasBoth(T, n) => Heir(T, T.node[n].data) = 0 /\ Leaver(T, n) = n
<1>1. Sound(T, Keys, Id) /\ T.node[n].data \in Keys /\ n # NIL
  BY NodeOfKey DEF IsBag, Sound, Typed
<1>2. \E p : Search(T, Id, T.node[n].data) = <<n, p>>
  BY <1>1, IdIs, SearchFindsNode
<1>3. Search(T, Id, T.node[n].data)[1] = n
  BY <1>2
<1>4. Heir(T, T.node[n].data) = IF ~HasBoth(T, n) THEN 0 ELSE T.node[Rightest(T, Left(T, n))].ref
  BY <1>1, <1>3, Zenon DEF Heir, alone
<1> QED BY <1>4 DEF Leaver

(* What is inserted goes into the bag.                                     *)
LEMMA InsertBag ==
  ASSUME NEW T, NEW b, IsBag(T, b), NEW k \in Keys, NEW r \in Nat \ {0},
         NEW W, W = Insert(T, Id, k, r), NEW a \in [Keys -> Nat], a[k] = b[k] + r,
         \A e \in Keys : e # k => a[e] = b[e]
  PROVE  /\ IsBag(W, a) /\ Refs(a) = Refs(b) + r
         /\ W.nodes + W.dups = T.nodes + T.dups + 1
<1>1. Sound(T, Keys, Id) /\ Counted(T) /\ b \in [Keys -> Nat]
  BY DEF IsBag
<1>2. /\ Sound(W, Keys, Id) /\ Counted(W)
      /\ W.nodes + W.dups = T.nodes + T.dups + 1
      /\ Inserted(T, W, Id, k, r)
  <2>1. Id \in [Keys -> Int]
    BY IdIs
  <2> QED BY <1>1, <2>1, InsertIs
<1>3. /\ a \in [Keys -> Nat] /\ a[k] = b[k] + r /\ b[k] \in Nat /\ a[k] # 0
      /\ \A e \in Keys : e # k => a[e] = b[e]
  BY <1>1
<1>4. Refs(a) = Refs(b) + r
  <2>2. Refs(a) = Refs(b) - b[k] + a[k]
    BY <1>1, <1>3, RefsChanged
  <2>3. Refs(b) \in Int
    BY <1>1, RefsInt
  <2> QED BY <1>3, <2>2, <2>3
<1>5. \A e, x : Has(T, e, x) <=> e \in Keys /\ x = b[e] /\ x # 0
  BY DEF IsBag
<1>6. \A e, x : Has(W, e, x) <=> e \in Keys /\ x = a[e] /\ x # 0
  <2>1. CASE \E n \in DOMAIN T.node :
              /\ Id[T.node[n].data] = Id[k]
              /\ \A e, x : Has(W, e, x) <=>
                           (Has(T, e, x) /\ e # T.node[n].data) \/ (e = k /\ x = T.node[n].ref + r)
    <3>1. PICK n \in DOMAIN T.node :
              /\ Id[T.node[n].data] = Id[k]
              /\ \A e, x : Has(W, e, x) <=>
                           (Has(T, e, x) /\ e # T.node[n].data) \/ (e = k /\ x = T.node[n].ref + r)
      BY <2>1
    <3>2. T.node[n].data = k /\ T.node[n].ref = b[k]
      BY <3>1, IdIs, NodeOfKey
    <3> QED BY <1>3, <1>5, <3>1, <3>2
  <2>2. CASE /\ \A n \in DOMAIN T.node : Id[T.node[n].data] # Id[k]
             /\ \A e, x : Has(W, e, x) <=> Has(T, e, x) \/ (e = k /\ x = r)
    <3>1. b[k] = 0
      BY <2>2, NodeOfKey
    <3> QED BY <1>3, <1>5, <2>2, <3>1
  <2> QED BY <1>2, <2>1, <2>2 DEF Inserted
<1> QED BY <1>2, <1>3, <1>4, <1>6 DEF IsBag

(* One reference of a key that is in the tree goes.                        *)
LEMMA DerefBag ==
  ASSUME NEW T, NEW b, IsBag(T, b), NEW k \in Keys, b[k] # 0,
         NEW W, W = Deref(T, Id, k), NEW a \in [Keys -> Nat], a[k] = b[k] - 1,
         \A e \in Keys : e # k => a[e] = b[e]
  PROVE  /\ IsBag(W, a) /\ Refs(a) = Refs(b) - 1
         /\ ~ (b[k] = 1 /\ Heir(T, k) > 1) => W.nodes + W.dups = T.nodes + T.dups - 1
<1>1. Sound(T, Keys, Id) /\ Counted(T) /\ b \in [Keys -> Nat]
  BY DEF IsBag
<1>2. PICK n \in DOMAIN T.node : T.node[n].data = k /\ T.node[n].ref = b[k] /\ Id[T.node[n].data] = Id[k]
  BY NodeOfKey
<1>3. /\ Sound(W, Keys, Id)
      /\ \A e, x : Has(W, e, x) <=>
           \/ Has(T, e, x) /\ e # T.node[n].data
           \/ e = T.node[n].data /\ T.node[n].ref > 1 /\ x = T.node[n].ref - 1
      /\ Counted(T) => Counted(W)
      /\ T.node[n].ref > 1 => W.nodes = T.nodes /\ W.dups = T.dups - 1
      /\ T.node[n].ref = 1 =>
           /\ W.nodes = T.nodes - 1
           /\ W.dups = T.dups - (T.node[Leaver(T, n)].ref - 1)
  BY <1>1, <1>2, IdIs, DerefIs
<1>4. /\ a \in [Keys -> Nat] /\ a[k] = b[k] - 1 /\ b[k] \in Nat \ {0} /\ a[k] \in Nat
      /\ \A e \in Keys : e # k => a[e] = b[e]
  BY <1>1
<1>5. Refs(a) = Refs(b) - 1
  <2>2. Refs(a) = Refs(b) - b[k] + a[k]
    BY <1>1, <1>4, RefsChanged
  <2>3. Refs(b) \in Int
    BY <1>1, RefsInt
  <2> QED BY <1>4, <2>2, <2>3
<1>6. \A e, x : Has(W, e, x) <=> e \in Keys /\ x = a[e] /\ x # 0
  <2>1. \A e, x : Has(T, e, x) <=> e \in Keys /\ x = b[e] /\ x # 0
    BY DEF IsBag
  <2>2. \A e, x : Has(W, e, x) <=> \/ Has(T, e, x) /\ e # k
                                   \/ e = k /\ b[k] > 1 /\ x = b[k] - 1
    BY <1>2, <1>3
  <2> QED BY <1>4, <2>1, <2>2
<1>7. ASSUME ~ (b[k] = 1 /\ Heir(T, k) > 1) PROVE W.nodes + W.dups = T.nodes + T.dups - 1
  <2>1. T.nodes \in Int /\ T.dups \in Int
    BY <1>1 DEF Sound, Typed
  <2>2. CASE b[k] > 1
    BY <1>2, <1>3, <2>1, <2>2
  <2>3. CASE b[k] = 1
    <3>1. T.node[Leaver(T, n)].ref \in Nat \ {0}
      BY <1>1, IdIs, LeaverIs
    <3>2. T.node[Leaver(T, n)].ref = 1
      <4>1. CASE HasBoth(T, n)
        <5>1. Heir(T, k) = T.node[Leaver(T, n)].ref
          BY <1>2, <4>1, HeirRef
        <5> QED BY <1>7, <2>3, <3>1, <5>1
      <4>2. CASE ~HasBoth(T, n)
        <5>1. Leaver(T, n) = n
          BY <4>2, HeirRef
        <5> QED BY <1>2, <2>3, <5>1
      <4> QED BY <4>1, <4>2
    <3> QED BY <1>2, <1>3, <2>1, <2>3, <3>2
  <2> QED BY <1>4, <2>2, <2>3
<1> QED BY <1>1, <1>3, <1>4, <1>5, <1>6, <1>7 DEF IsBag

(* A key that is in the tree is popped with all its references.            *)
LEMMA PopBag ==
  ASSUME NEW T, NEW b, IsBag(T, b), NEW k \in Keys, b[k] # 0,
         NEW X, X = Pop(T, Id, k), NEW a \in [Keys -> Nat], a[k] = 0,
         \A e \in Keys : e # k => a[e] = b[e]
  PROVE  /\ IsBag(X.tree, a) /\ Refs(a) = Refs(b) - b[k]
         /\ X.data = k /\ X.ref = b[k]
         /\ Heir(T, k) \in {alone, b[k]} =>
              X.tree.nodes + X.tree.dups = T.nodes + T.dups - b[k]
<1>1. Sound(T, Keys, Id) /\ Counted(T) /\ b \in [Keys -> Nat]
  BY DEF IsBag
<1>2. PICK n \in DOMAIN T.node : T.node[n].data = k /\ T.node[n].ref = b[k] /\ Id[T.node[n].data] = Id[k]
  BY NodeOfKey
<1>3. /\ Sound(X.tree, Keys, Id)
      /\ X.data = T.node[n].data /\ X.ref = T.node[n].ref
      /\ \A e, x : Has(X.tree, e, x) <=> Has(T, e, x) /\ e # T.node[n].data
      /\ Counted(T) => Counted(X.tree)
      /\ X.tree.nodes = T.nodes - 1
      /\ X.tree.dups = T.dups - (T.node[Leaver(T, n)].ref - 1)
  BY <1>1, <1>2, IdIs, PopIs
<1>4. /\ a \in [Keys -> Nat] /\ a[k] = 0 /\ b[k] \in Nat \ {0}
      /\ \A e \in Keys : e # k => a[e] = b[e]
  BY <1>1
<1>5. Refs(a) = Refs(b) - b[k]
  <2>1. Refs(a) = Refs(b) - b[k] + a[k]
    BY <1>1, <1>4, RefsChanged
  <2>2. Refs(b) \in Int
    BY <1>1, RefsInt
  <2> QED BY <1>4, <2>1, <2>2
<1>6. \A e, x : Has(X.tree, e, x) <=> e \in Keys /\ x = a[e] /\ x # 0
  <2>1. \A e, x : Has(T, e, x) <=> e \in Keys /\ x = b[e] /\ x # 0
    BY DEF IsBag
  <2>2. \A e, x : Has(X.tree, e, x) <=> Has(T, e, x) /\ e # k
    BY <1>2, <1>3
  <2> QED BY <1>4, <2>1, <2>2
<1>7. ASSUME Heir(T, k) \in {alone, b[k]}
      PROVE  X.tree.nodes + X.tree.dups = T.nodes + T.dups - b[k]
  <2>1. T.nodes \in Int /\ T.dups \in Int
    BY <1>1 DEF Sound, Typed
  <2>2. T.node[Leaver(T, n)].ref \in Nat \ {0}
    BY <1>1, IdIs, LeaverIs
  <2>3. T.node[Leaver(T, n)].ref = b[k]
    <3>1. CASE HasBoth(T, n)
      <4>1. Heir(T, k) = T.node[Leaver(T, n)].ref
        BY <1>2, <3>1, HeirRef
      <4> QED BY <1>7, <2>2, <4>1 DEF alone
    <3>2. CASE ~HasBoth(T, n)
      BY <1>2, <3>2, HeirRef
    <3> QED BY <3>1, <3>2
  <2> QED BY <1>3, <1>4, <2>1, <2>3
<1> QED BY <1>1, <1>2, <1>3, <1>4, <1>5, <1>6, <1>7 DEF IsBag

(* A tree without nodes.                                                   *)
LEMMA NoBag ==
  ASSUME NEW U, U.node = [n \in {} |-> 0], U.root = NIL, U.nodes = 0,
         U \in [root : Nat, top : Nat, bottom : Nat, nodes : Int, dups : Int, node : {U.node}]
  PROVE  IsBag(U, [k \in Keys |-> 0])
<1>1. DOMAIN U.node = {}
  OBVIOUS
<1>2. IsFiniteSet({}) /\ Cardinality({}) = 0
  BY FS_EmptySet
<1>3. Typed(U, Keys)
  BY <1>1, <1>2 DEF Typed
<1>4. Shaped(U, Id)
  <2> DEFINE e == [n \in {} |-> 0]
             S == [n \in {NIL} |-> {}]
  <2>1. Linked(U, Id, {}, e, e, e)
    BY <1>1 DEF Linked
  <2>2. Shape({}, NIL, e, e, e, S)
    BY DEF Shape, Split, Sorted, Convex, Nested
  <2> QED BY <1>1, <2>1, <2>2 DEF Shaped
<1>5. Ends(U, Id)
  BY <1>1 DEF Ends
<1>6. Counted(U)
  BY <1>1, <1>2 DEF Counted
<1>7. \A k, x : ~Has(U, k, x)
  BY <1>1 DEF Has
<1> DEFINE b == [k \in Keys |-> 0]
<1>8. b \in [Keys -> Nat] /\ \A k \in Keys : b[k] = 0
  OBVIOUS
<1> HIDE DEF b
<1>9. IsBag(U, b)
  BY <1>3, <1>4, <1>5, <1>6, <1>7, <1>8 DEF IsBag, Sound
<1> QED BY <1>9 DEF b

(* The invariant says what TreeCountsBag does.                             *)
LEMMA TreeInvIsBag == TreeInv => TreeCountsBag
<1> SUFFICES ASSUME TreeInv PROVE TreeCountsBag
  OBVIOUS
<1>1. IsBag(tree, bag) /\ Sound(tree, Keys, Id) /\ Counted(tree)
  BY DEF TreeInv, IsBag
<1>2. PICK L, R, D, S : Tree(tree, Keys, Id, L, R, D, S)
  BY <1>1, IdIs DEF Sound, Shaped, Tree
<1> DEFINE N == DOMAIN tree.node
<1>3. /\ Shape(N, tree.root, L, R, D, S)
      /\ \A n \in N : L[n] = Left(tree, n) /\ R[n] = Right(tree, n) /\ D[n] = Id[tree.node[n].data]
  BY <1>2 DEF Tree, Linked, Left, Right
<1>4. \A n \in N : /\ tree.node[n].data \in Keys /\ tree.node[n].ref \in Nat \ {0}
                   /\ tree.node[n].ref = bag[tree.node[n].data]
                   /\ Id[tree.node[n].data] = tree.node[n].data
  BY <1>1, NodeOfKey
<1>5. \A n \in N : D[n] = tree.node[n].data
  BY <1>3, <1>4
<1>6. /\ tree.root \in N \cup {NIL} /\ S[tree.root] = N
      /\ L \in [N -> N \cup {NIL}] /\ R \in [N -> N \cup {NIL}]
      /\ S \in [N \cup {NIL} -> SUBSET N]
      /\ \A n \in N : /\ \A x \in S[L[n]] : D[x] < D[n]
                      /\ \A x \in S[R[n]] : D[n] < D[x]
  BY <1>3 DEF Shape, Split, Sorted
<1>7. \A n \in N \cup {NIL} : Below(tree, n) = S[n]
  BY <1>2, BelowIs
<1>8. Below(tree, tree.root) = N
  BY <1>6, <1>7
<1>9. ASSUME NEW n \in N
      PROVE  /\ {Left(tree, n), Right(tree, n)} \subseteq N \cup {NIL}
             /\ \A m \in Below(tree, Left(tree, n)) : tree.node[m].data < tree.node[n].data
             /\ \A m \in Below(tree, Right(tree, n)) : tree.node[n].data < tree.node[m].data
             /\ tree.node[n].ref = bag[tree.node[n].data]
  <2>1. L[n] \in N \cup {NIL} /\ R[n] \in N \cup {NIL}
    BY <1>6
  <2>2. Below(tree, Left(tree, n)) = S[L[n]] /\ Below(tree, Right(tree, n)) = S[R[n]]
    BY <1>3, <1>7, <2>1
  <2>3. S[L[n]] \subseteq N /\ S[R[n]] \subseteq N
    BY <1>6, <2>1
  <2>4. \A m \in S[L[n]] : tree.node[m].data < tree.node[n].data
    BY <1>5, <1>6, <2>3
  <2>5. \A m \in S[R[n]] : tree.node[n].data < tree.node[m].data
    BY <1>5, <1>6, <2>3
  <2> QED BY <1>3, <1>4, <2>1, <2>2, <2>4, <2>5
<1>10. {tree.node[n].data : n \in N} = {k \in Keys : bag[k] > 0}
  <2>1. \A k \in Keys : bag[k] # 0 => \E n \in N : tree.node[n].data = k
    BY <1>1, NodeOfKey
  <2>2. bag \in [Keys -> Nat]
    BY <1>1 DEF IsBag
  <2> QED BY <1>4, <2>1, <2>2
<1>11. tree.nodes = Cardinality(N)
  BY <1>1 DEF Counted
<1>12. N # {} => /\ tree.top \in N /\ \A n \in N : tree.node[n].data <= tree.node[tree.top].data
                 /\ tree.bottom \in N /\ \A n \in N : tree.node[tree.bottom].data <= tree.node[n].data
  <2>1. \A n \in N : /\ tree.top \in N /\ Id[tree.node[n].data] <= Id[tree.node[tree.top].data]
                     /\ tree.bottom \in N /\ Id[tree.node[tree.bottom].data] <= Id[tree.node[n].data]
    BY <1>1 DEF Sound, Ends
  <2> QED BY <1>4, <2>1
<1>13. TreeIsBag
  BY <1>6, <1>8, <1>9, <1>10, <1>11, <1>12 DEF TreeIsBag
<1>14. RefnumExact
  BY DEF TreeInv, RefnumExact, Refnum
<1> QED BY <1>13, <1>14 DEF TreeCountsBag

(* The tree as make_bintree leaves it.                                     *)
LEMMA TreeInitInv == TreeInit => TreeInv
<1> SUFFICES ASSUME TreeInit PROVE TreeInv
  OBVIOUS
<1>1. tree = EmptyTree /\ hand = NoNode /\ bag = [k \in Keys |-> 0]
  BY DEF TreeInit
<1>2. /\ tree \in [root : Nat, top : Nat, bottom : Nat, nodes : Int, dups : Int, node : {tree.node}]
      /\ tree.node = [n \in {} |-> 0] /\ tree.root = NIL /\ tree.nodes = 0 /\ tree.dups = 0
  BY <1>1 DEF EmptyTree, NIL
<1>3. IsBag(tree, bag)
  BY <1>1, <1>2, NoBag
<1>4. Refs(bag) = 0
  BY <1>1, RefsOfNone
<1> QED BY <1>1, <1>2, <1>3, <1>4 DEF TreeInv

(* bintree_insert_value.                                                   *)
LEMMA InsertDataInv ==
  ASSUME TreeInv, NEW k \in Keys, InsertData(k) PROVE TreeInv'
<1>1. /\ tree' = Insert(tree, Id, k, 1) /\ inexact' = inexact /\ hand' = hand
      /\ bag' = [bag EXCEPT ![k] = @ + 1]
  BY DEF InsertData, Becomes
<1>2. /\ IsBag(tree', bag') /\ Refs(bag') = Refs(bag) + 1
      /\ tree'.nodes + tree'.dups = tree.nodes + tree.dups + 1
  <2>1. IsBag(tree, bag) /\ 1 \in Nat \ {0} /\ bag \in [Keys -> Nat]
    BY DEF TreeInv, IsBag
  <2>2. PICK W, a : W = tree' /\ a = bag'
    OBVIOUS
  <2>3. a \in [Keys -> Nat] /\ a[k] = bag[k] + 1 /\ \A e \in Keys : e # k => a[e] = bag[e]
    BY <1>1, <2>1, <2>2
  <2>4. W = Insert(tree, Id, k, 1)
    BY <1>1, <2>2
  <2>5. IsBag(W, a) /\ Refs(a) = Refs(bag) + 1 /\ W.nodes + W.dups = tree.nodes + tree.dups + 1
    BY <2>1, <2>3, <2>4, InsertBag
  <2> QED BY <2>2, <2>5
<1> QED BY <1>1, <1>2 DEF TreeInv

(* bintree_insert_node.                                                    *)
LEMMA InsertNodeInv ==
  ASSUME TreeInv, InsertNode PROVE TreeInv'
<1>1. PICK k, r : k = hand.data /\ r = hand.ref
  OBVIOUS
<1>2. k \in Keys /\ r \in Nat \ {0} /\ IsBag(tree, bag)
  BY <1>1 DEF TreeInv, InsertNode
<1>3. /\ tree' = Insert(tree, Id, k, r) /\ inexact' = (IF r > 1 THEN 1 ELSE inexact)
      /\ hand' = NoNode /\ bag' = [bag EXCEPT ![k] = @ + r]
  BY <1>1 DEF InsertNode, Becomes
<1>4. /\ IsBag(tree', bag') /\ Refs(bag') = Refs(bag) + r
      /\ tree'.nodes + tree'.dups = tree.nodes + tree.dups + 1
  <2>1. bag \in [Keys -> Nat]
    BY <1>2 DEF IsBag
  <2>2. PICK W, a : W = tree' /\ a = bag'
    OBVIOUS
  <2>3. a \in [Keys -> Nat] /\ a[k] = bag[k] + r /\ \A e \in Keys : e # k => a[e] = bag[e]
    BY <1>2, <1>3, <2>1, <2>2
  <2>4. W = Insert(tree, Id, k, r)
    BY <1>3, <2>2
  <2>5. IsBag(W, a) /\ Refs(a) = Refs(bag) + r /\ W.nodes + W.dups = tree.nodes + tree.dups + 1
    BY <1>2, <2>3, <2>4, InsertBag
  <2> QED BY <2>2, <2>5
<1>5. inexact' = 0 => r = 1 /\ inexact = 0
  BY <1>2, <1>3
<1> QED BY <1>3, <1>4, <1>5 DEF TreeInv

(* One reference less.                                                     *)
LEMMA DereferenceInv ==
  ASSUME TreeInv, NEW k \in Keys, bag[k] # 0, Dereference(k, k) PROVE TreeInv'
<1>1. /\ tree' = Deref(tree, Id, k) /\ hand' = hand /\ bag' = [bag EXCEPT ![k] = @ - 1]
      /\ inexact' = IF bag[k] = 1 /\ Heir(tree, k) > 1 THEN 1 ELSE inexact
  BY DEF Dereference, Becomes
<1>2. /\ IsBag(tree', bag') /\ Refs(bag') = Refs(bag) - 1
      /\ ~ (bag[k] = 1 /\ Heir(tree, k) > 1) => tree'.nodes + tree'.dups = tree.nodes + tree.dups - 1
  <2>1. IsBag(tree, bag) /\ bag \in [Keys -> Nat]
    BY DEF TreeInv, IsBag
  <2>2. PICK W, a : W = tree' /\ a = bag'
    OBVIOUS
  <2>3. a \in [Keys -> Nat] /\ a[k] = bag[k] - 1 /\ \A e \in Keys : e # k => a[e] = bag[e]
    BY <1>1, <2>1, <2>2
  <2>4. W = Deref(tree, Id, k)
    BY <1>1, <2>2
  <2>5. /\ IsBag(W, a) /\ Refs(a) = Refs(bag) - 1
        /\ ~ (bag[k] = 1 /\ Heir(tree, k) > 1) => W.nodes + W.dups = tree.nodes + tree.dups - 1
    BY <2>1, <2>3, <2>4, DerefBag
  <2> QED BY <2>2, <2>5
<1>3. inexact' = 0 => ~ (bag[k] = 1 /\ Heir(tree, k) > 1) /\ inexact = 0
  BY <1>1
<1>4. inexact' = 0 => tree'.nodes + tree'.dups = Refs(bag')
  <2>1. tree.nodes \in Int /\ tree.dups \in Int
    BY DEF TreeInv, IsBag, Sound, Typed
  <2> QED BY <1>2, <1>3, <2>1 DEF TreeInv
<1> QED BY <1>1, <1>2, <1>4 DEF TreeInv

(* What is at the top and at the bottom is the greatest and the least key. *)
LEMMA TopAndBottomAre ==
  ASSUME TreeInv, tree.nodes > 0
  PROVE  /\ Max({k \in Keys : bag[k] > 0}) \in Keys /\ bag[Max({k \in Keys : bag[k] > 0})] # 0
         /\ TopData(tree) = Max({k \in Keys : bag[k] > 0})
         /\ Min({k \in Keys : bag[k] > 0}) \in Keys /\ bag[Min({k \in Keys : bag[k] > 0})] # 0
         /\ BottomData(tree) = Min({k \in Keys : bag[k] > 0})
<1> DEFINE B == {k \in Keys : bag[k] > 0}
           N == DOMAIN tree.node
<1>1. IsBag(tree, bag) /\ Sound(tree, Keys, Id) /\ Counted(tree)
  BY DEF TreeInv, IsBag
<1>2. N # {} /\ \A n \in N : n # NIL
  <2>1. N # {}
    BY <1>1, FS_EmptySet DEF Counted
  <2> QED BY <1>1, <2>1 DEF Sound, Typed
<1>3. TreeIsBag
  BY TreeInvIsBag DEF TreeCountsBag
<1>4. /\ {tree.node[n].data : n \in N} = B
      /\ tree.top \in N /\ \A n \in N : tree.node[n].data <= tree.node[tree.top].data
      /\ tree.bottom \in N /\ \A n \in N : tree.node[tree.bottom].data <= tree.node[n].data
  BY <1>2, <1>3 DEF TreeIsBag
<1>5. TopData(tree) = tree.node[tree.top].data /\ BottomData(tree) = tree.node[tree.bottom].data
  BY <1>2, <1>4 DEF TopData, BottomData
<1>6. /\ TopData(tree) \in B /\ \A k \in B : k <= TopData(tree)
      /\ BottomData(tree) \in B /\ \A k \in B : BottomData(tree) <= k
  BY <1>4, <1>5
<1>7. B \in SUBSET Nat /\ IsFiniteSet(B) /\ B # {}
  BY <1>6, KeysAssumption, FS_Subset
<1>8. \A k \in B : k \in Keys /\ bag[k] # 0
  BY <1>1 DEF IsBag
<1> HIDE DEF B, N
<1>9. Max(B) \in B /\ (\A k \in B : k <= Max(B)) /\ Min(B) \in B /\ \A k \in B : Min(B) <= k
  BY <1>7, MaxOf, MinOf
<1>10. TopData(tree) = Max(B) /\ BottomData(tree) = Min(B)
  <2>1. /\ TopData(tree) <= Max(B) /\ Max(B) <= TopData(tree)
        /\ BottomData(tree) <= Min(B) /\ Min(B) <= BottomData(tree)
    BY <1>6, <1>9
  <2>2. TopData(tree) \in Nat /\ Max(B) \in Nat /\ BottomData(tree) \in Nat /\ Min(B) \in Nat
    BY <1>6, <1>7, <1>9
  <2> QED BY <2>1, <2>2
<1> QED BY <1>8, <1>9, <1>10 DEF B

(* bintree_pop_node.                                                       *)
LEMMA PopNodeInv ==
  ASSUME TreeInv, NEW k \in Keys, PopNode(k) PROVE TreeInv'
<1>1. PICK X : X = Pop(tree, Id, k)
  OBVIOUS
<1>2. /\ tree' = X.tree /\ hand' = [data |-> X.data, ref |-> X.ref]
      /\ bag' = [bag EXCEPT ![k] = 0]
      /\ inexact' = IF Heir(tree, k) \notin {alone, bag[k]} THEN 1 ELSE inexact
  BY <1>1 DEF PopNode, Becomes
<1>3. IsBag(tree, bag) /\ bag[k] \in Nat \ {0}
  BY DEF TreeInv, IsBag, PopNode
<1>4. /\ IsBag(X.tree, bag') /\ Refs(bag') = Refs(bag) - bag[k]
      /\ X.data = k /\ X.ref = bag[k]
      /\ Heir(tree, k) \in {alone, bag[k]} =>
           X.tree.nodes + X.tree.dups = tree.nodes + tree.dups - bag[k]
  <2>1. bag \in [Keys -> Nat]
    BY <1>3 DEF IsBag
  <2>2. PICK a : a = bag'
    OBVIOUS
  <2>3. a \in [Keys -> Nat] /\ a[k] = 0 /\ \A e \in Keys : e # k => a[e] = bag[e]
    BY <1>2, <2>1, <2>2
  <2>4. /\ IsBag(X.tree, a) /\ Refs(a) = Refs(bag) - bag[k]
        /\ X.data = k /\ X.ref = bag[k]
        /\ Heir(tree, k) \in {alone, bag[k]} =>
             X.tree.nodes + X.tree.dups = tree.nodes + tree.dups - bag[k]
    BY <1>1, <1>3, <2>3, PopBag
  <2> QED BY <2>2, <2>4
<1>5. hand'.data \in Keys /\ hand'.ref \in Nat \ {0}
  BY <1>2, <1>3, <1>4
<1>6. inexact' = 0 => Heir(tree, k) \in {alone, bag[k]} /\ inexact = 0
  BY <1>2
<1>7. inexact' = 0 => tree'.nodes + tree'.dups = Refs(bag')
  <2>1. tree.nodes \in Int /\ tree.dups \in Int /\ bag[k] \in Int
    BY <1>3 DEF TreeInv, IsBag, Sound, Typed
  <2> QED BY <1>2, <1>4, <1>6, <2>1 DEF TreeInv
<1> QED BY <1>2, <1>4, <1>5, <1>7 DEF TreeInv

(* The fields that bintree_reset leaves.                                   *)
LEMMA ResetIs ==
  ASSUME NEW T,
         T \in [root : Nat, top : Nat, bottom : Nat, nodes : Int, dups : Int, node : {T.node}],
         NEW U, U = Reset(T)
  PROVE  /\ U \in [root : Nat, top : Nat, bottom : Nat, nodes : Int, dups : Int, node : {U.node}]
         /\ U.node = [n \in {} |-> 0] /\ U.root = NIL /\ U.nodes = 0 /\ U.dups = T.dups
<1>1. PICK Y : Y = [n \in {} |-> 0]
  OBVIOUS
<1>2. U = [T EXCEPT !.root = NIL, !.nodes = 0, !.node = Y]
  BY <1>1 DEF Reset
<1>3. NIL \in Nat /\ 0 \in Int
  BY DEF NIL
<1>4. /\ U \in [root : Nat, top : Nat, bottom : Nat, nodes : Int, dups : Int, node : {Y}]
      /\ U.node = Y /\ U.root = NIL /\ U.nodes = 0 /\ U.dups = T.dups
  BY <1>2, <1>3
<1> QED BY <1>1, <1>4

(* bintree_reset.                                                          *)
LEMMA ResetTreeInv ==
  ASSUME TreeInv, ResetTree PROVE TreeInv'
<1>1. /\ tree' = Reset(tree) /\ bag' = [k \in Keys |-> 0] /\ hand' = hand
      /\ inexact' = IF tree.dups # 0 THEN 1 ELSE inexact
  BY DEF ResetTree, Becomes
<1>2. tree \in [root : Nat, top : Nat, bottom : Nat, nodes : Int, dups : Int, node : {tree.node}]
  BY DEF TreeInv, IsBag, Sound, Typed
<1>3. PICK U : U = tree'
  OBVIOUS
<1>4. /\ U \in [root : Nat, top : Nat, bottom : Nat, nodes : Int, dups : Int, node : {U.node}]
      /\ U.node = [n \in {} |-> 0] /\ U.root = NIL /\ U.nodes = 0 /\ U.dups = tree.dups
  BY <1>1, <1>2, <1>3, ResetIs
<1>5. IsBag(U, [k \in Keys |-> 0])
  BY <1>4, NoBag
<1>6. IsBag(tree', bag')
  BY <1>1, <1>3, <1>5
<1>7. Refs(bag') = 0
  BY <1>1, RefsOfNone
<1>8. inexact' = 0 => tree'.nodes + tree'.dups = 0
  BY <1>1, <1>3, <1>4
<1> QED BY <1>1, <1>6, <1>7, <1>8 DEF TreeInv

(* The tree is the bag of its values, whatever was inserted, deleted,      *)
(* popped and put back before: every value with references has one node    *)
(* that counts them, the nodes are in order, top and bottom are the        *)
(* greatest and the least, and the number of references is exact until an  *)
(* operation that gets dups wrong (lib_bintree.c:223-560).                 *)
THEOREM TreeCountsBagHolds == TreeSpec => []TreeCountsBag
<1>1. TreeInit => TreeInv
  BY TreeInitInv
<1>2. TreeInv /\ [TreeNext]_treeVars => TreeInv'
  <2> SUFFICES ASSUME TreeInv, [TreeNext]_treeVars PROVE TreeInv'
    OBVIOUS
  <2>1. CASE UNCHANGED treeVars
    BY <2>1 DEF TreeInv, treeVars
  <2>2. ASSUME NEW k \in Keys, InsertData(k) PROVE TreeInv'
    BY <2>2, InsertDataInv
  <2>3. ASSUME NEW k \in Keys, DeleteValue(k) PROVE TreeInv'
    <3>1. bag[k] # 0 /\ Dereference(k, k)
      BY <2>3 DEF DeleteValue
    <3> QED BY <3>1, DereferenceInv
  <2>4. ASSUME NEW k \in Keys, PopNode(k) PROVE TreeInv'
    BY <2>4, PopNodeInv
  <2>5. CASE PopTopData
    <3>1. tree.nodes > 0 /\ Dereference(Max({k \in Keys : bag[k] > 0}), TopData(tree))
      BY <2>5 DEF PopTopData
    <3>2. PICK k : k = Max({j \in Keys : bag[j] > 0})
      OBVIOUS
    <3>3. k \in Keys /\ bag[k] # 0 /\ TopData(tree) = k
      BY <3>1, <3>2, TopAndBottomAre
    <3>4. Dereference(k, k)
      BY <3>1, <3>2, <3>3
    <3> QED BY <3>3, <3>4, DereferenceInv
  <2>6. CASE PopBottomData
    <3>1. tree.nodes > 0 /\ Dereference(Min({k \in Keys : bag[k] > 0}), BottomData(tree))
      BY <2>6 DEF PopBottomData
    <3>2. PICK k : k = Min({j \in Keys : bag[j] > 0})
      OBVIOUS
    <3>3. k \in Keys /\ bag[k] # 0 /\ BottomData(tree) = k
      BY <3>1, <3>2, TopAndBottomAre
    <3>4. Dereference(k, k)
      BY <3>1, <3>2, <3>3
    <3> QED BY <3>3, <3>4, DereferenceInv
  <2>7. CASE InsertNode
    BY <2>7, InsertNodeInv
  <2>8. CASE ResetTree
    BY <2>8, ResetTreeInv
  <2> QED BY <2>1, <2>2, <2>3, <2>4, <2>5, <2>6, <2>7, <2>8 DEF TreeNext
<1>3. TreeInv => TreeCountsBag
  BY TreeInvIsBag
<1> QED BY <1>1, <1>2, <1>3, PTL DEF TreeSpec

-----------------------------------------------------------------------------
(* A tree as a plugin keeps it, of pointers to cells: whole, with top and  *)
(* bottom NULL when it is empty.                                           *)
Kept(T, v) ==
  /\ Sound(T, Cells, v) /\ Counted(T)
  /\ DOMAIN T.node = {} => T.top = NIL /\ T.bottom = NIL

(* A tree without nodes.                                                   *)
LEMMA EmptyKept ==
  ASSUME NEW v PROVE Kept(EmptyTree, v) /\ DOMAIN EmptyTree.node = {} /\ EmptyTree.dups = 0
<1> DEFINE U == EmptyTree
           e == [n \in {} |-> 0]
           S == [n \in {NIL} |-> {}]
<1>1. /\ U.node = e /\ DOMAIN U.node = {} /\ U.root = NIL /\ U.nodes = 0
      /\ U.top = NIL /\ U.bottom = NIL /\ U.dups = 0
      /\ U \in [root : Nat, top : Nat, bottom : Nat, nodes : Int, dups : Int, node : {U.node}]
  BY DEF EmptyTree, NIL
<1> HIDE DEF U
<1>2. IsFiniteSet({}) /\ Cardinality({}) = 0
  BY FS_EmptySet
<1>3. Typed(U, Cells)
  BY <1>1, <1>2 DEF Typed
<1>4. Shaped(U, v)
  <2>1. Linked(U, v, {}, e, e, e)
    BY <1>1 DEF Linked
  <2>2. Shape({}, NIL, e, e, e, S)
    BY DEF Shape, Split, Sorted, Convex, Nested
  <2> QED BY <1>1, <2>1, <2>2 DEF Shaped
<1>5. Ends(U, v)
  BY <1>1 DEF Ends
<1>6. Counted(U)
  BY <1>1, <1>2 DEF Counted
<1> QED BY <1>1, <1>3, <1>4, <1>5, <1>6 DEF Kept, Sound, U

(* Other values of the cells no node points to.                            *)
LEMMA StoredKept ==
  ASSUME NEW T, NEW v, Kept(T, v), NEW u,
         \A n \in DOMAIN T.node : u[T.node[n].data] = v[T.node[n].data]
  PROVE  Kept(T, u)
<1>1. Shaped(T, u)
  <2>1. PICK L, R, D, S : /\ Linked(T, v, DOMAIN T.node, L, R, D)
                          /\ Shape(DOMAIN T.node, T.root, L, R, D, S)
    BY DEF Kept, Sound, Shaped
  <2>2. Linked(T, u, DOMAIN T.node, L, R, D)
    BY <2>1 DEF Linked
  <2> QED BY <2>1, <2>2 DEF Shaped
<1>2. Ends(T, u)
  BY DEF Kept, Sound, Ends
<1> QED BY <1>1, <1>2 DEF Kept, Sound

(* The counter dups may be anything.                                       *)
LEMMA UncountedKept ==
  ASSUME NEW T, NEW v, Kept(T, v)
  PROVE  /\ Kept(Uncounted(T), v) /\ Uncounted(T).node = T.node
         /\ Uncounted(T).top = T.top /\ Uncounted(T).bottom = T.bottom
<1>1. Typed(T, Cells)
  BY DEF Kept, Sound
<1>2. PICK W : W = [T EXCEPT !.dups = 0]
  OBVIOUS
<1>3. /\ W \in [root : Nat, top : Nat, bottom : Nat, nodes : Int, dups : Int, node : {T.node}]
      /\ W.root = T.root /\ W.top = T.top /\ W.bottom = T.bottom /\ W.nodes = T.nodes
      /\ W.node = T.node
  BY <1>1, <1>2 DEF Typed
<1>4. Typed(W, Cells)
  BY <1>1, <1>3 DEF Typed
<1>5. Shaped(W, v) /\ Ends(W, v) /\ Counted(W)
  BY <1>3 DEF Kept, Sound, Shaped, Linked, Ends, Counted
<1>6. Kept(W, v)
  BY <1>3, <1>4, <1>5 DEF Kept, Sound
<1> QED BY <1>2, <1>3, <1>6 DEF Uncounted

(* bintree_get_top_data and bintree_get_bottom_data of such a tree.        *)
LEMMA KeptEnds ==
  ASSUME NEW T, NEW v, Kept(T, v)
  PROVE  /\ DOMAIN T.node = {} => TopData(T) = NIL /\ BottomData(T) = NIL
         /\ DOMAIN T.node # {} =>
              /\ \E n \in DOMAIN T.node : TopData(T) = T.node[n].data
              /\ \E n \in DOMAIN T.node : BottomData(T) = T.node[n].data
         /\ \A n \in DOMAIN T.node : /\ v[T.node[n].data] <= v[TopData(T)]
                                     /\ v[BottomData(T)] <= v[T.node[n].data]
<1>1. DOMAIN T.node \subseteq Nat \ {NIL} /\ Ends(T, v)
  BY DEF Kept, Sound, Typed
<1>2. CASE DOMAIN T.node = {}
  BY <1>2 DEF Kept, TopData, BottomData
<1>3. CASE DOMAIN T.node # {}
  <2>1. T.top \in DOMAIN T.node /\ T.bottom \in DOMAIN T.node
    BY <1>1, <1>3 DEF Ends
  <2>2. TopData(T) = T.node[T.top].data /\ BottomData(T) = T.node[T.bottom].data
    BY <1>1, <2>1 DEF TopData, BottomData
  <2> QED BY <1>1, <1>3, <2>1, <2>2 DEF Ends
<1> QED BY <1>2, <1>3

(* A reference more.                                                       *)
LEMMA InsertKept ==
  ASSUME NEW T, NEW v \in [Cells -> Int], Kept(T, v), NEW d \in Cells,
         NEW W, W = Insert(T, v, d, 1)
  PROVE  /\ Kept(W, v) /\ Inserted(T, W, v, d, 1)
         /\ W.nodes + W.dups = T.nodes + T.dups + 1
<1>1. /\ Sound(W, Cells, v) /\ Counted(W) /\ Inserted(T, W, v, d, 1)
      /\ W.nodes + W.dups = T.nodes + T.dups + 1
  BY InsertIs DEF Kept
<1>2. \E x : Has(W, d, x)
  BY <1>1 DEF Inserted
<1>3. DOMAIN W.node # {}
  BY <1>2 DEF Has
<1> QED BY <1>1, <1>3 DEF Kept

(* The last node that goes leaves top and bottom NULL.                     *)
LEMMA LastGone ==
  ASSUME NEW T, NEW v \in [Cells -> Int], Sound(T, Cells, v), NEW d \in Cells,
         NEW n, DOMAIN T.node = {n}, v[T.node[n].data] = v[d], T.node[n].ref = 1,
         NEW W, W = Deref(T, v, d)
  PROVE  W.top = NIL /\ W.bottom = NIL
<1>1. /\ n \in Nat \ {NIL} /\ T.node \in [{n} -> NodeRecs(Cells)] /\ Typed(T, Cells)
      /\ T \in [root : Nat, top : Nat, bottom : Nat, nodes : Int, dups : Int, node : {T.node}]
  BY DEF Sound, Typed
<1>2. T.top = n /\ T.bottom = n
  BY DEF Sound, Ends
<1>3. T.node[n].left = NIL /\ T.node[n].right = NIL
  <2>1. PICK L, R, D, S : /\ Linked(T, v, {n}, L, R, D) /\ Shape({n}, T.root, L, R, D, S)
    BY DEF Sound, Shaped
  <2>2. S[L[n]] \subseteq {n} /\ n \notin S[L[n]] /\ n \notin S[R[n]] /\ n \in S[n]
    BY <2>1, SidesApart
  <2>3. L[n] \in {n, NIL} /\ R[n] \in {n, NIL} /\ L[n] = T.node[n].left /\ R[n] = T.node[n].right
    BY <2>1 DEF Shape, Linked
  <2> QED BY <2>2, <2>3
<1>4. PICK p : /\ Search(T, v, d) = <<n, p>>
               /\ \/ p = NIL /\ n = T.root
                  \/ p \in DOMAIN T.node /\ (T.node[p].left = n \/ T.node[p].right = n)
  BY SearchFindsNode
<1>5. p = NIL
  BY <1>1, <1>3, <1>4
<1>6. ~HasBoth(T, n) /\ Child(T, n) = NIL
  BY <1>3 DEF HasBoth, Child, Left, Right
<1>7. PICK A : A = [T EXCEPT !.root = NIL]
  OBVIOUS
<1>8. PICK U : U = [A EXCEPT !.nodes = @ - 1]
  OBVIOUS
<1>9. W = Trash(U, n)
  <2>1. Relink(T, n, p, Child(T, n)) = A
    BY <1>5, <1>6, <1>7 DEF Relink
  <2>2. n # NIL /\ ~ (T.node[n].ref > 1)
    BY <1>1
  <2>3. Search(T, v, d)[1] = n /\ Search(T, v, d)[2] = p
    BY <1>4
  <2>4. Deref(T, v, d) = Trash([Relink(T, n, p, Child(T, n)) EXCEPT !.nodes = @ - 1], n)
    BY <1>6, <2>2, <2>3, Zenon DEF Deref
  <2> QED BY <1>8, <2>1, <2>4
<1>10. /\ A.root = NIL /\ A.top = n /\ A.bottom = n /\ A.node = T.node
       /\ A \in [root : Nat, top : Nat, bottom : Nat, nodes : Int, dups : Int, node : {T.node}]
  BY <1>1, <1>2, <1>7 DEF NIL
<1>11. /\ U.root = NIL /\ U.top = n /\ U.bottom = n /\ U.node = T.node
      /\ U \in [root : Nat, top : Nat, bottom : Nat, nodes : Int, dups : Int, node : {T.node}]
  BY <1>8, <1>10
<1>12. \A V : /\ V \in [root : Nat, top : Nat, bottom : Nat, nodes : Int, dups : Int, node : {T.node}]
              => Rightest(V, NIL) = NIL /\ Leftest(V, NIL) = NIL
  <2> SUFFICES ASSUME NEW V,
                 V \in [root : Nat, top : Nat, bottom : Nat, nodes : Int, dups : Int, node : {T.node}]
               PROVE  Rightest(V, NIL) = NIL /\ Leftest(V, NIL) = NIL
    OBVIOUS
  <2>1. Typed(V, Cells)
    BY <1>1 DEF Typed
  <2> DEFINE e == [m \in {} |-> 0]
             S == [m \in {NIL} |-> {}]
  <2>2. Linked(V, v, {}, e, e, e)
    BY DEF Linked
  <2>3. Shape({}, NIL, e, e, e, S)
    BY DEF Shape, Split, Sorted, Convex, Nested
  <2> HIDE DEF e, S
  <2>4. NIL \in {} \cup {NIL}
    OBVIOUS
  <2> QED BY <2>1, <2>2, <2>3, <2>4, RightestIs, LeftestIs
<1>13. RefreshTop(U) = [U EXCEPT !.top = NIL]
  BY <1>3, <1>11, <1>12 DEF RefreshTop, Left
<1>14. PICK V : V = [U EXCEPT !.top = NIL]
  OBVIOUS
<1>15. /\ V.root = NIL /\ V.top = NIL /\ V.bottom = n /\ V.node = T.node
       /\ V \in [root : Nat, top : Nat, bottom : Nat, nodes : Int, dups : Int, node : {T.node}]
  BY <1>11, <1>14 DEF NIL
<1>16. RefreshBottom(V) = [V EXCEPT !.bottom = NIL]
  BY <1>3, <1>12, <1>15 DEF RefreshBottom, Right
<1>17. Repair(U, n) = [V EXCEPT !.bottom = NIL]
  BY <1>11, <1>13, <1>14, <1>15, <1>16 DEF Repair
<1>18. PICK X : X = [V EXCEPT !.bottom = NIL]
  OBVIOUS
<1>19. /\ X.top = NIL /\ X.bottom = NIL
       /\ X \in [root : Nat, top : Nat, bottom : Nat, nodes : Int, dups : Int, node : {T.node}]
  BY <1>15, <1>18 DEF NIL
<1>20. W = [X EXCEPT !.node = [m \in DOMAIN X.node \ {n} |-> X.node[m]]]
  BY <1>9, <1>17, <1>18 DEF Trash, Release
<1> QED BY <1>19, <1>20

(* A reference less.                                                       *)
LEMMA DerefKept ==
  ASSUME NEW T, NEW v \in [Cells -> Int], Kept(T, v), NEW d \in Cells,
         NEW n \in DOMAIN T.node, v[T.node[n].data] = v[d],
         NEW W, W = Deref(T, v, d)
  PROVE  /\ Kept(W, v)
         /\ \A e, x : Has(W, e, x) <=>
              \/ Has(T, e, x) /\ e # T.node[n].data
              \/ e = T.node[n].data /\ T.node[n].ref > 1 /\ x = T.node[n].ref - 1
         /\ T.node[n].ref = 1 =>
              /\ W.nodes = T.nodes - 1
              /\ W.dups = T.dups - (T.node[Leaver(T, n)].ref - 1)
<1>1. Sound(T, Cells, v) /\ Counted(T)
  BY DEF Kept
<1>2. /\ Sound(W, Cells, v)
      /\ \A e, x : Has(W, e, x) <=>
              \/ Has(T, e, x) /\ e # T.node[n].data
              \/ e = T.node[n].data /\ T.node[n].ref > 1 /\ x = T.node[n].ref - 1
      /\ Counted(W)
      /\ T.node[n].ref = 1 =>
              /\ W.nodes = T.nodes - 1
              /\ W.dups = T.dups - (T.node[Leaver(T, n)].ref - 1)
  BY <1>1, DerefIs
<1>3. ASSUME DOMAIN W.node = {} PROVE W.top = NIL /\ W.bottom = NIL
  <2>1. \A e, x : ~Has(W, e, x)
    BY <1>3 DEF Has
  <2>2. T.node[n].ref \in Nat \ {0} /\ DOMAIN T.node \subseteq Nat
    BY <1>1 DEF Sound, Typed, NodeRecs
  <2>3. T.node[n].ref = 1
    <3>1. ~ (T.node[n].ref > 1)
      BY <1>2, <2>1
    <3> QED BY <2>2, <3>1
  <2>4. ASSUME NEW m \in DOMAIN T.node, m # n PROVE FALSE
    <3>1. T.node[m].data # T.node[n].data
      BY <1>1, <2>4, OneNodeEach
    <3>2. Has(T, T.node[m].data, T.node[m].ref)
      BY DEF Has
    <3>3. Has(W, T.node[m].data, T.node[m].ref)
      BY <1>2, <3>1, <3>2
    <3> QED BY <2>1, <3>3
  <2>5. DOMAIN T.node = {n}
    BY <2>4
  <2> QED BY <1>1, <2>3, <2>5, LastGone
<1> QED BY <1>2, <1>3 DEF Kept

(* A value that is not there.                                              *)
LEMMA DerefMissing ==
  ASSUME NEW T, NEW v \in [Cells -> Int], Kept(T, v), NEW d \in Cells,
         \A n \in DOMAIN T.node : v[T.node[n].data] # v[d]
  PROVE  Deref(T, v, d) = T
<1>1. Sound(T, Cells, v)
  BY DEF Kept
<1>2. PICK n, p : /\ Search(T, v, d) = <<n, p>> /\ n \in DOMAIN T.node \cup {NIL}
                  /\ n # NIL => v[T.node[n].data] = v[d]
  BY <1>1, SearchFinds
<1>3. n = NIL
  BY <1>2
<1>4. Search(T, v, d)[1] = NIL
  BY <1>2, <1>3
<1> QED BY <1>4, Zenon DEF Deref

(* The turns of a loop: there is a function that says what each leaves.    *)
LEMMA LeavesTurns ==
  ASSUME NEW S, NEW n \in Nat
  PROVE  \E f : /\ f[0] = S /\ \A k \in 1 .. n : f[k] = Leaves(f[k - 1])
                /\ f[n] = Times(n, Leaves, S)
<1> DEFINE Is(m, f) == f = [k \in 0 .. m |-> IF k = 0 THEN S ELSE Leaves(f[k - 1])]
           Bad == {m \in 0 .. n : ~ \E f : Is(m, f)}
<1>1. Bad = {}
  <2> SUFFICES ASSUME Bad # {} PROVE FALSE
    OBVIOUS
  <2>1. PICK m \in Bad : \A k \in Bad : m <= k
    <3>1. Bad \subseteq Nat
      OBVIOUS
    <3> HIDE DEF Bad
    <3> QED BY <3>1, LeastNat
  <2>2. m \in 0 .. n /\ ~ \E f : Is(m, f)
    BY <2>1
  <2>3. m > 0 => \E f : Is(m - 1, f)
    <3> SUFFICES ASSUME m > 0 PROVE m - 1 \notin Bad /\ m - 1 \in 0 .. n
      OBVIOUS
    <3> HIDE DEF Bad
    <3> QED BY <2>1, <2>2
  <2>4. CASE m = 0
    <3> DEFINE f == [k \in 0 .. 0 |-> S]
    <3>1. f = [k \in 0 .. 0 |-> IF k = 0 THEN S ELSE Leaves(f[k - 1])]
      OBVIOUS
    <3> QED BY <2>2, <2>4, <3>1
  <2>5. CASE m > 0
    <3>1. PICK f : Is(m - 1, f)
      BY <2>3, <2>5
    <3> DEFINE h == [k \in 0 .. m |-> IF k = m THEN Leaves(f[m - 1]) ELSE f[k]]
    <3>2. ASSUME NEW k \in 0 .. m
          PROVE  h[k] = IF k = 0 THEN S ELSE Leaves(h[k - 1])
      <4>1. CASE k = 0
        <5>1. h[k] = f[0] /\ 0 \in 0 .. m - 1
          BY <2>2, <2>5, <4>1
        <5> QED BY <3>1, <4>1, <5>1
      <4>2. CASE k # 0
        <5>1. k - 1 \in 0 .. m /\ k - 1 # m
          BY <2>2, <4>2
        <5>2. h[k - 1] = f[k - 1]
          BY <5>1
        <5>3. CASE k = m
          BY <4>2, <5>2, <5>3
        <5>4. CASE k # m
          <6>1. k \in 0 .. m - 1 /\ h[k] = f[k]
            BY <2>2, <5>4
          <6> HIDE DEF h
          <6> QED BY <3>1, <4>2, <5>2, <6>1
        <5> QED BY <5>3, <5>4
      <4> QED BY <4>1, <4>2
    <3>3. Is(m, h)
      BY <3>2
    <3> QED BY <2>2, <3>3
  <2> QED BY <2>2, <2>4, <2>5
<1>2. \E f : Is(n, f)
  <2> HIDE DEF Is
  <2> QED BY <1>1
<1> DEFINE g == CHOOSE f : Is(n, f)
<1>3. Is(n, g)
  BY <1>2
<1>4. g[n] = Times(n, Leaves, S)
  BY DEF Times
<1> HIDE DEF g
<1>5. g[0] = S /\ \A k \in 1 .. n : g[k] = Leaves(g[k - 1])
  BY <1>3
<1> QED BY <1>4, <1>5

-----------------------------------------------------------------------------
(* The cells of the items w, how many of them have the value x, and        *)
(* whether e is the newest one with its value.                             *)
CellsOf(w) == {w[i].cell : i \in 1 .. Len(w)}
Alike(w, v, x) == {c \in CellsOf(w) : v[c] = x}
CountOf(w, v, x) == Cardinality(Alike(w, v, x))
Newest(w, v, e) ==
  \E i \in 1 .. Len(w) : /\ w[i].cell = e
                         /\ \A j \in 1 .. Len(w) : v[w[j].cell] = v[e] => j <= i

(* The items are in the k cells before the next one.                       *)
Place(next, k) == IF next - k >= 1 THEN next - k ELSE next - k + (NumLimit + 1)
Ring(w, next) ==
  /\ next \in Cells /\ w \in Seq([cell : Cells, age : Nat]) /\ Len(w) <= NumLimit
  /\ \A i \in 1 .. Len(w) : w[i].cell = Place(next, (Len(w) + 1) - i)

(* The cells are different ones, and the next one is none of them.         *)
LEMMA RingIs ==
  ASSUME NEW w, NEW next, Ring(w, next)
  PROVE  /\ \A i, j \in 1 .. Len(w) : w[i].cell = w[j].cell => i = j
         /\ next \notin CellsOf(w) /\ CellsOf(w) \subseteq Cells /\ IsFiniteSet(CellsOf(w))
<1>1. NumLimit \in Nat /\ next \in 1 .. NumLimit + 1 /\ Len(w) \in 0 .. NumLimit
  BY WindowAssumption DEF Ring, Cells
<1>2. ASSUME NEW i \in 1 .. Len(w), NEW j \in 1 .. Len(w), w[i].cell = w[j].cell
      PROVE  i = j
  <2>1. Place(next, (Len(w) + 1) - i) = Place(next, (Len(w) + 1) - j)
    BY <1>2 DEF Ring
  <2> QED BY <1>1, <2>1 DEF Place
<1>3. ASSUME NEW i \in 1 .. Len(w) PROVE w[i].cell # next
  <2>1. Place(next, (Len(w) + 1) - i) # next
    BY <1>1 DEF Place
  <2> QED BY <2>1 DEF Ring
<1>4. CellsOf(w) \subseteq Cells
  <2> SUFFICES ASSUME NEW i \in 1 .. Len(w) PROVE w[i].cell \in Cells
    BY DEF CellsOf
  <2> DEFINE I == [cell : Cells, age : Nat]
  <2>1. w \in Seq(I)
    BY DEF Ring
  <2>2. \A x \in I : x.cell \in Cells
    OBVIOUS
  <2> HIDE DEF I
  <2> QED BY <2>1, <2>2
<1>5. IsFiniteSet(CellsOf(w))
  <2>1. IsFiniteSet(1 .. NumLimit + 1)
    BY <1>1, FS_Interval
  <2> QED BY <1>4, <2>1, FS_Subset DEF Cells
<1> QED BY <1>2, <1>3, <1>4, <1>5 DEF CellsOf

(* The first item leaves.                                                  *)
LEMMA RingTail ==
  ASSUME NEW w, NEW next, Ring(w, next), w # <<>>
  PROVE  /\ Ring(Tail(w), next) /\ Len(w) \in Nat \ {0} /\ Len(Tail(w)) = Len(w) - 1
         /\ \A i \in 1 .. Len(w) - 1 : Tail(w)[i] = w[i + 1]
         /\ CellsOf(Tail(w)) = CellsOf(w) \ {w[1].cell} /\ w[1].cell \in CellsOf(w)
<1> DEFINE u == Tail(w)
<1>1. /\ u \in Seq([cell : Cells, age : Nat]) /\ Len(w) \in Nat \ {0}
      /\ Len(u) = Len(w) - 1 /\ \A i \in 1 .. Len(w) - 1 : u[i] = w[i + 1]
  BY DEF Ring
<1>2. \A i, j \in 1 .. Len(w) : w[i].cell = w[j].cell => i = j
  BY RingIs
<1> HIDE DEF u
<1>3. ASSUME NEW i \in 1 .. Len(u) PROVE u[i].cell = Place(next, (Len(u) + 1) - i)
  <2>1. i + 1 \in 1 .. Len(w) /\ u[i] = w[i + 1]
    BY <1>1
  <2>2. (Len(w) + 1) - (i + 1) = (Len(u) + 1) - i
    BY <1>1
  <2>3. w[i + 1].cell = Place(next, (Len(w) + 1) - (i + 1))
    BY <2>1 DEF Ring
  <2> QED BY <2>1, <2>2, <2>3
<1>4. Len(u) <= NumLimit /\ next \in Cells
  BY <1>1, WindowAssumption DEF Ring
<1>5. Ring(u, next)
  BY <1>1, <1>3, <1>4 DEF Ring
<1>6. CellsOf(u) \subseteq CellsOf(w) \ {w[1].cell}
  <2> SUFFICES ASSUME NEW i \in 1 .. Len(u) PROVE u[i].cell \in CellsOf(w) /\ u[i].cell # w[1].cell
    BY DEF CellsOf
  <2>1. i + 1 \in 1 .. Len(w) /\ u[i] = w[i + 1] /\ 1 \in 1 .. Len(w) /\ i + 1 # 1
    BY <1>1
  <2> QED BY <1>2, <2>1 DEF CellsOf
<1>7. CellsOf(w) \ {w[1].cell} \subseteq CellsOf(u)
  <2> SUFFICES ASSUME NEW i \in 1 .. Len(w), i # 1 PROVE w[i].cell \in CellsOf(u)
    BY DEF CellsOf
  <2>1. i - 1 \in 1 .. Len(u) /\ u[i - 1] = w[(i - 1) + 1] /\ (i - 1) + 1 = i
    BY <1>1
  <2> QED BY <2>1 DEF CellsOf
<1>8. w[1].cell \in CellsOf(w)
  BY <1>1 DEF CellsOf
<1> QED BY <1>1, <1>5, <1>6, <1>7, <1>8 DEF u

(* The next cell.                                                          *)
LEMMA FollowingIs ==
  ASSUME NEW c \in Cells
  PROVE  Following(c) \in Cells /\ Following(c) = IF c = NumLimit + 1 THEN 1 ELSE c + 1
<1>1. NumLimit \in Nat /\ c \in 1 .. NumLimit + 1
  BY WindowAssumption DEF Cells
<1>2. CASE c = NumLimit + 1
  <2>1. c % (NumLimit + 1) = 0
    BY <1>1, <1>2
  <2> QED BY <1>1, <1>2, <2>1 DEF Following, Cells
<1>3. CASE c # NumLimit + 1
  <2>1. c \in 0 .. (NumLimit + 1) - 1
    BY <1>1, <1>3
  <2>2. c % (NumLimit + 1) = c
    BY <1>1, <2>1
  <2> QED BY <1>1, <1>3, <2>2 DEF Following, Cells
<1> QED BY <1>2, <1>3

(* The item of the cell c, just added.                                     *)
NewItem(c) == [cell |-> c, age |-> 0]

(* An item is added, in the next cell.                                     *)
LEMMA RingAppend ==
  ASSUME NEW w, NEW next, Ring(w, next), Len(w) < NumLimit,
         NEW u, u = Append(w, NewItem(next))
  PROVE  /\ Ring(u, Following(next)) /\ Len(u) = Len(w) + 1 /\ Len(w) \in Nat
         /\ \A i \in 1 .. Len(w) : u[i] = w[i]
         /\ u[Len(u)].cell = next
         /\ CellsOf(u) = CellsOf(w) \cup {next}
<1>1. /\ NumLimit \in Nat /\ next \in 1 .. NumLimit + 1 /\ Len(w) \in Nat /\ Len(w) < NumLimit
      /\ w \in Seq([cell : Cells, age : Nat]) /\ next \in Cells
  BY WindowAssumption DEF Ring, Cells
<1> DEFINE x == NewItem(next)
<1>2. x \in [cell : Cells, age : Nat] /\ x.cell = next
  BY <1>1 DEF NewItem
<1> HIDE DEF x
<1>3. /\ u \in Seq([cell : Cells, age : Nat]) /\ Len(u) = Len(w) + 1
      /\ (\A i \in 1 .. Len(w) : u[i] = w[i]) /\ u[Len(w) + 1] = x
  <2>1. u = Append(w, x)
    BY DEF x
  <2> QED BY <1>1, <1>2, <2>1
<1>4. Following(next) \in Cells /\ Following(next) = IF next = NumLimit + 1 THEN 1 ELSE next + 1
  BY <1>1, FollowingIs
<1>5. ASSUME NEW i \in 1 .. Len(u) PROVE u[i].cell = Place(Following(next), (Len(u) + 1) - i)
  <2>1. CASE i = Len(w) + 1
    <3>1. Place(Following(next), 1) = next
      BY <1>1, <1>4 DEF Place
    <3>2. (Len(u) + 1) - i = 1
      BY <1>1, <1>3, <2>1
    <3> QED BY <1>2, <1>3, <2>1, <3>1, <3>2
  <2>2. CASE i # Len(w) + 1
    <3>1. i \in 1 .. Len(w) /\ u[i] = w[i]
      BY <1>1, <1>3, <2>2
    <3>2. w[i].cell = Place(next, (Len(w) + 1) - i)
      BY <3>1 DEF Ring
    <3>3. Place(next, (Len(w) + 1) - i) = Place(Following(next), (Len(u) + 1) - i)
      <4> DEFINE k == (Len(w) + 1) - i
      <4>1. k \in 1 .. NumLimit /\ (Len(u) + 1) - i = k + 1
        BY <1>1, <1>3, <3>1
      <4> HIDE DEF k
      <4>2. Place(next, k) = Place(Following(next), k + 1)
        <5>1. CASE next = NumLimit + 1
          BY <1>1, <1>4, <4>1, <5>1 DEF Place
        <5>2. CASE next # NumLimit + 1
          BY <1>1, <1>4, <4>1, <5>2 DEF Place
        <5> QED BY <5>1, <5>2
      <4> QED BY <4>1, <4>2 DEF k
    <3> QED BY <3>1, <3>2, <3>3
  <2> QED BY <2>1, <2>2
<1>6. Len(u) <= NumLimit
  BY <1>1, <1>3
<1>7. Ring(u, Following(next))
  BY <1>3, <1>4, <1>5, <1>6 DEF Ring
<1>8. CellsOf(u) = CellsOf(w) \cup {next}
  <2>1. \A i \in 1 .. Len(u) : i \in 1 .. Len(w) \/ i = Len(w) + 1
    BY <1>1, <1>3
  <2>2. \A i \in 1 .. Len(w) : i \in 1 .. Len(u)
    BY <1>1, <1>3
  <2>3. Len(w) + 1 \in 1 .. Len(u)
    BY <1>1, <1>3
  <2> QED BY <1>2, <1>3, <2>1, <2>2, <2>3 DEF CellsOf
<1> QED BY <1>1, <1>2, <1>3, <1>7, <1>8

-----------------------------------------------------------------------------
(* The tree of the minmax plugin, for the items w: a node for each value,  *)
(* with the newest cell that has it and with the number of these cells.    *)
MinMaxOf(T, w, v) ==
  /\ Kept(T, v)
  /\ \A n \in DOMAIN T.node : /\ Newest(w, v, T.node[n].data)
                              /\ T.node[n].ref = CountOf(w, v, v[T.node[n].data])
  /\ \A c \in CellsOf(w) : \E n \in DOMAIN T.node : v[T.node[n].data] = v[c]

(* What such a tree has.                                                   *)
LEMMA MinMaxHas ==
  ASSUME NEW T, NEW w, NEW v, MinMaxOf(T, w, v)
  PROVE  /\ \A e, x : Has(T, e, x) => Newest(w, v, e) /\ x = CountOf(w, v, v[e])
         /\ \A n \in DOMAIN T.node : T.node[n].data \in CellsOf(w) /\ T.node[n].data \in Cells
<1>1. \A n \in DOMAIN T.node : /\ Newest(w, v, T.node[n].data)
                               /\ T.node[n].ref = CountOf(w, v, v[T.node[n].data])
  BY DEF MinMaxOf
<1>2. \A e, x : Has(T, e, x) => Newest(w, v, e) /\ x = CountOf(w, v, v[e])
  BY <1>1 DEF Has
<1>3. \A n \in DOMAIN T.node : T.node[n].data \in CellsOf(w)
  BY <1>1 DEF Newest, CellsOf
<1>4. \A n \in DOMAIN T.node : T.node[n].data \in Cells
  <2>1. T.node \in [DOMAIN T.node -> NodeRecs(Cells)]
    BY DEF MinMaxOf, Kept, Sound, Typed
  <2> QED BY <2>1 DEF NodeRecs
<1> QED BY <1>2, <1>3, <1>4

(* A tree that has a value for each cell, and what the window says of it.  *)
LEMMA MinMaxFrom ==
  ASSUME NEW T, NEW w, NEW v, Kept(T, v),
         \A e, x : Has(T, e, x) => Newest(w, v, e) /\ x = CountOf(w, v, v[e]),
         \A c \in CellsOf(w) : \E e, x : Has(T, e, x) /\ v[e] = v[c]
  PROVE  MinMaxOf(Uncounted(T), w, v)
<1>1. /\ Kept(Uncounted(T), v) /\ Uncounted(T).node = T.node
  BY UncountedKept
<1>2. ASSUME NEW n \in DOMAIN T.node
      PROVE  Newest(w, v, T.node[n].data) /\ T.node[n].ref = CountOf(w, v, v[T.node[n].data])
  <2>1. Has(T, T.node[n].data, T.node[n].ref)
    BY DEF Has
  <2> QED BY <2>1
<1>3. \A c \in CellsOf(w) : \E n \in DOMAIN T.node : v[T.node[n].data] = v[c]
  BY DEF Has
<1> QED BY <1>1, <1>2, <1>3 DEF MinMaxOf

(* How many cells have a value when the first item leaves.                 *)
LEMMA CountTail ==
  ASSUME NEW w, NEW next, Ring(w, next), w # <<>>, NEW v, NEW d, d = w[1].cell
  PROVE  /\ CountOf(w, v, v[d]) \in Nat /\ CountOf(Tail(w), v, v[d]) = CountOf(w, v, v[d]) - 1
         /\ \A x : x # v[d] => CountOf(Tail(w), v, x) = CountOf(w, v, x)
         /\ \A c \in CellsOf(Tail(w)) : v[c] = v[d] => CountOf(w, v, v[d]) > 1
<1>1. CellsOf(Tail(w)) = CellsOf(w) \ {d} /\ d \in CellsOf(w) /\ IsFiniteSet(CellsOf(w))
  BY RingTail, RingIs
<1>2. Alike(Tail(w), v, v[d]) = Alike(w, v, v[d]) \ {d} /\ d \in Alike(w, v, v[d])
  BY <1>1 DEF Alike
<1>3. Alike(w, v, v[d]) \in SUBSET CellsOf(w)
  BY DEF Alike
<1>4. IsFiniteSet(Alike(w, v, v[d]))
  BY <1>1, <1>3, FS_Subset
<1>5. CountOf(w, v, v[d]) \in Nat /\ CountOf(Tail(w), v, v[d]) = CountOf(w, v, v[d]) - 1
  BY <1>2, <1>4, FS_CardinalityType, FS_RemoveElement DEF CountOf
<1>6. ASSUME NEW x, x # v[d] PROVE Alike(Tail(w), v, x) = Alike(w, v, x)
  BY <1>1, <1>6 DEF Alike
<1>7. ASSUME NEW c \in CellsOf(Tail(w)), v[c] = v[d] PROVE CountOf(w, v, v[d]) > 1
  <2>1. c \in Alike(Tail(w), v, v[d])
    BY <1>7 DEF Alike
  <2>2. IsFiniteSet(Alike(Tail(w), v, v[d]))
    BY <1>2, <1>4, FS_RemoveElement
  <2>3. CountOf(Tail(w), v, v[d]) \in Nat \ {0}
    BY <2>1, <2>2, FS_EmptySet, FS_CardinalityType DEF CountOf
  <2> QED BY <1>5, <2>3
<1> QED BY <1>5, <1>6, <1>7 DEF CountOf

(* The newest cell with a value stays it when the first item leaves, if    *)
(* that item is not the only one with the value.                           *)
LEMMA NewestTail ==
  ASSUME NEW w, NEW next, Ring(w, next), w # <<>>, NEW v, NEW e, Newest(w, v, e),
         e # w[1].cell
  PROVE  Newest(Tail(w), v, e)
<1>1. /\ Len(w) \in Nat \ {0} /\ Len(Tail(w)) = Len(w) - 1
      /\ \A i \in 1 .. Len(w) - 1 : Tail(w)[i] = w[i + 1]
  BY RingTail
<1>2. PICK i \in 1 .. Len(w) : /\ w[i].cell = e
                               /\ \A j \in 1 .. Len(w) : v[w[j].cell] = v[e] => j <= i
  BY DEF Newest
<1>3. i - 1 \in 1 .. Len(Tail(w)) /\ Tail(w)[i - 1] = w[i]
  <2>1. i # 1
    BY <1>2
  <2>2. i - 1 \in 1 .. Len(w) - 1 /\ (i - 1) + 1 = i
    BY <1>1, <2>1
  <2> QED BY <1>1, <2>2
<1>4. ASSUME NEW j \in 1 .. Len(Tail(w)), v[Tail(w)[j].cell] = v[e] PROVE j <= i - 1
  <2>1. j + 1 \in 1 .. Len(w) /\ Tail(w)[j] = w[j + 1]
    BY <1>1
  <2>2. j + 1 <= i
    BY <1>2, <1>4, <2>1
  <2> QED BY <1>1, <2>2
<1> QED BY <1>2, <1>3, <1>4 DEF Newest

(* Of several cells with a value the first is not the newest.              *)
LEMMA FirstNotNewest ==
  ASSUME NEW w, NEW next, Ring(w, next), w # <<>>, NEW v, Newest(w, v, w[1].cell),
         CountOf(w, v, v[w[1].cell]) > 1
  PROVE  FALSE
<1> DEFINE d == w[1].cell
<1>1. /\ \A i, j \in 1 .. Len(w) : w[i].cell = w[j].cell => i = j
      /\ 1 \in 1 .. Len(w)
  BY RingIs, RingTail
<1>2. PICK i \in 1 .. Len(w) : /\ w[i].cell = d
                               /\ \A j \in 1 .. Len(w) : v[w[j].cell] = v[d] => j <= i
  BY DEF Newest
<1>3. i = 1
  BY <1>1, <1>2
<1>4. ASSUME NEW j \in 1 .. Len(w), v[w[j].cell] = v[d] PROVE w[j].cell = d
  <2>1. j <= 1
    BY <1>2, <1>3, <1>4
  <2> QED BY <2>1
<1>5. Alike(w, v, v[d]) = {d}
  BY <1>1, <1>4 DEF Alike, CellsOf
<1> HIDE DEF d
<1>6. CountOf(w, v, v[d]) = 1
  BY <1>5, FS_Singleton DEF CountOf
<1> QED BY <1>6 DEF d

(* The first item leaves the tree.                                         *)
LEMMA MinMaxRemIs ==
  ASSUME NEW w, NEW next, Ring(w, next), w # <<>>, NEW v \in [Cells -> Int],
         NEW T, MinMaxOf(T, w, v), NEW d, d = w[1].cell
  PROVE  MinMaxOf(MinMaxRem(T, v, d), Tail(w), v)
<1>1. d \in CellsOf(w) /\ d \in Cells /\ CellsOf(Tail(w)) = CellsOf(w) \ {d}
  BY RingTail, RingIs
<1>2. Kept(T, v) /\ Sound(T, Cells, v)
  BY DEF MinMaxOf, Kept
<1>3. PICK n \in DOMAIN T.node : v[T.node[n].data] = v[d]
  BY <1>1 DEF MinMaxOf
<1> DEFINE a == T.node[n].data
           r == T.node[n].ref
<1>4. Newest(w, v, a) /\ r = CountOf(w, v, v[d])
  BY <1>3 DEF MinMaxOf
<1>5. PICK W : W = Deref(T, v, d)
  OBVIOUS
<1>6. /\ Kept(W, v)
      /\ \A e, x : Has(W, e, x) <=>
                     \/ Has(T, e, x) /\ e # a
                     \/ e = a /\ r > 1 /\ x = r - 1
  BY <1>1, <1>2, <1>3, <1>5, DerefKept
<1>7. /\ \A e, x : Has(T, e, x) => Newest(w, v, e) /\ x = CountOf(w, v, v[e])
      /\ \A m \in DOMAIN T.node : v[T.node[m].data] = v[a] => m = n
  BY <1>2, MinMaxHas, OneNodeEach
<1> HIDE DEF a, r
<1>8. v[a] = v[d]
  BY <1>3 DEF a
<1>9. /\ r \in Nat /\ CountOf(Tail(w), v, v[d]) = r - 1
      /\ \A x : x # v[d] => CountOf(Tail(w), v, x) = CountOf(w, v, x)
      /\ \A c \in CellsOf(Tail(w)) : v[c] = v[d] => r > 1
  BY <1>4, CountTail
<1>10. ASSUME NEW e, NEW x, Has(W, e, x)
       PROVE  Newest(Tail(w), v, e) /\ x = CountOf(Tail(w), v, v[e])
  <2>1. CASE Has(T, e, x) /\ e # a
    <3>1. v[e] # v[d]
      BY <1>7, <1>8, <2>1 DEF Has, a
    <3> QED BY <1>7, <1>9, <2>1, <3>1, NewestTail
  <2>2. CASE e = a /\ r > 1 /\ x = r - 1
    <3>1. a # d
      BY <1>4, <2>2, FirstNotNewest
    <3> QED BY <1>4, <1>8, <1>9, <2>2, <3>1, NewestTail
  <2> QED BY <1>6, <1>10, <2>1, <2>2
<1>11. ASSUME NEW c \in CellsOf(Tail(w)) PROVE \E e, x : Has(W, e, x) /\ v[e] = v[c]
  <2>1. CASE v[c] = v[d]
    <3>1. Has(W, a, r - 1)
      BY <1>6, <1>9, <2>1
    <3> QED BY <1>8, <2>1, <3>1
  <2>2. CASE v[c] # v[d]
    <3>1. PICK m \in DOMAIN T.node : v[T.node[m].data] = v[c]
      BY <1>1 DEF MinMaxOf
    <3>2. Has(T, T.node[m].data, T.node[m].ref)
      BY DEF Has
    <3>3. T.node[m].data # a
      BY <1>8, <2>2, <3>1
    <3> QED BY <1>6, <3>1, <3>2, <3>3
  <2> QED BY <2>1, <2>2
<1>12. MinMaxOf(Uncounted(W), Tail(w), v)
  BY <1>6, <1>10, <1>11, MinMaxFrom
<1> QED BY <1>5, <1>12 DEF MinMaxRem

(* The window w, with the values v, becomes u, with the values y: one item *)
(* more.                                                                   *)
Appended(w, next, u, v, y) ==
  /\ Ring(w, next) /\ Len(w) < NumLimit /\ u = Append(w, NewItem(next))
  /\ \A c \in CellsOf(w) : y[c] = v[c]

(* How many cells have a value when an item is added.                      *)
LEMMA CountAppend ==
  ASSUME NEW w, NEW next, NEW u, NEW v, NEW y, Appended(w, next, u, v, y)
  PROVE  /\ CountOf(w, v, y[next]) \in Nat
         /\ CountOf(u, y, y[next]) = CountOf(w, v, y[next]) + 1
         /\ \A x : x # y[next] => CountOf(u, y, x) = CountOf(w, v, x)
         /\ (\A c \in CellsOf(w) : v[c] # y[next]) => CountOf(w, v, y[next]) = 0
<1>1. CellsOf(u) = CellsOf(w) \cup {next} /\ next \notin CellsOf(w) /\ IsFiniteSet(CellsOf(w))
  BY RingAppend, RingIs DEF Appended
<1>2. /\ Alike(u, y, y[next]) = Alike(w, v, y[next]) \cup {next}
      /\ next \notin Alike(w, v, y[next])
  BY <1>1 DEF Alike, Appended
<1>3. Alike(w, v, y[next]) \in SUBSET CellsOf(w)
  BY DEF Alike
<1>4. IsFiniteSet(Alike(w, v, y[next]))
  BY <1>1, <1>3, FS_Subset
<1>5. CountOf(w, v, y[next]) \in Nat /\ CountOf(u, y, y[next]) = CountOf(w, v, y[next]) + 1
  BY <1>2, <1>4, FS_CardinalityType, FS_AddElement DEF CountOf
<1>6. ASSUME NEW x, x # y[next] PROVE Alike(u, y, x) = Alike(w, v, x)
  BY <1>1, <1>6 DEF Alike, Appended
<1>7. ASSUME \A c \in CellsOf(w) : v[c] # y[next] PROVE CountOf(w, v, y[next]) = 0
  <2>1. Alike(w, v, y[next]) = {}
    BY <1>7 DEF Alike
  <2> QED BY <2>1, FS_EmptySet DEF CountOf
<1> QED BY <1>5, <1>6, <1>7 DEF CountOf

(* The item becomes the newest with its value.                             *)
LEMMA NewestAppend ==
  ASSUME NEW w, NEW next, NEW u, NEW v, NEW y, Appended(w, next, u, v, y)
  PROVE  /\ Newest(u, y, next)
         /\ \A e : Newest(w, v, e) /\ v[e] # y[next] => Newest(u, y, e)
<1>1. /\ Len(u) = Len(w) + 1 /\ Len(w) \in Nat
      /\ \A i \in 1 .. Len(w) : u[i] = w[i]
      /\ u[Len(u)].cell = next
  BY RingAppend DEF Appended
<1>2. Newest(u, y, next)
  BY <1>1 DEF Newest
<1>3. ASSUME NEW e, Newest(w, v, e), v[e] # y[next] PROVE Newest(u, y, e)
  <2>1. PICK i \in 1 .. Len(w) : /\ w[i].cell = e
                                 /\ \A j \in 1 .. Len(w) : v[w[j].cell] = v[e] => j <= i
    BY <1>3 DEF Newest
  <2>2. i \in 1 .. Len(u) /\ u[i].cell = e /\ e \in CellsOf(w) /\ y[e] = v[e]
    BY <1>1, <2>1 DEF CellsOf, Appended
  <2>3. ASSUME NEW j \in 1 .. Len(u), y[u[j].cell] = y[e] PROVE j <= i
    <3>1. j # Len(u)
      BY <1>1, <1>3, <2>2, <2>3
    <3>2. j \in 1 .. Len(w) /\ u[j] = w[j] /\ w[j].cell \in CellsOf(w)
      BY <1>1, <3>1 DEF CellsOf
    <3> QED BY <2>1, <2>2, <2>3, <3>2 DEF Appended
  <2> QED BY <2>2, <2>3 DEF Newest
<1> QED BY <1>2, <1>3

(* An item is added to the tree.                                           *)
LEMMA MinMaxAddIs ==
  ASSUME NEW w, NEW next, NEW u, NEW v, NEW y \in [Cells -> Int],
         Appended(w, next, u, v, y),
         NEW T, MinMaxOf(T, w, v)
  PROVE  MinMaxOf(MinMaxAdd(T, y, next), u, y)
<1>1. CellsOf(u) = CellsOf(w) \cup {next} /\ next \in Cells
  BY RingAppend DEF Ring, Appended
<1>2. /\ \A e, x : Has(T, e, x) => Newest(w, v, e) /\ x = CountOf(w, v, v[e])
      /\ \A n \in DOMAIN T.node : T.node[n].data \in CellsOf(w) /\ T.node[n].data \in Cells
  BY MinMaxHas
<1>3. \A e, x : Has(T, e, x) => e \in CellsOf(w) /\ y[e] = v[e]
  BY <1>2 DEF Has, Appended
<1>4. Kept(T, y)
  BY <1>2, StoredKept DEF MinMaxOf, Appended
<1>5. PICK W : W = Insert(T, y, next, 1)
  OBVIOUS
<1>6. Kept(W, y) /\ Inserted(T, W, y, next, 1)
  BY <1>1, <1>4, <1>5, InsertKept
<1>7. /\ CountOf(w, v, y[next]) \in Nat
      /\ CountOf(u, y, y[next]) = CountOf(w, v, y[next]) + 1
      /\ \A x : x # y[next] => CountOf(u, y, x) = CountOf(w, v, x)
      /\ (\A c \in CellsOf(w) : v[c] # y[next]) => CountOf(w, v, y[next]) = 0
  BY CountAppend
<1>8. /\ Newest(u, y, next)
      /\ \A e : Newest(w, v, e) /\ v[e] # y[next] => Newest(u, y, e)
  BY NewestAppend
<1>9. \A c \in CellsOf(w) : \E e, x : Has(T, e, x) /\ v[e] = v[c]
  <2> SUFFICES ASSUME NEW c \in CellsOf(w) PROVE \E e, x : Has(T, e, x) /\ v[e] = v[c]
    OBVIOUS
  <2>1. PICK m \in DOMAIN T.node : v[T.node[m].data] = v[c]
    BY DEF MinMaxOf
  <2>2. Has(T, T.node[m].data, T.node[m].ref)
    BY DEF Has
  <2> QED BY <2>1, <2>2
<1>10. (\A e, x : Has(W, e, x) => Newest(u, y, e) /\ x = CountOf(u, y, y[e]))
       /\ \A c \in CellsOf(u) : \E e, x : Has(W, e, x) /\ y[e] = y[c]
  <2>1. CASE \E n \in DOMAIN T.node :
                /\ y[T.node[n].data] = y[next]
                /\ \A e, x : Has(W, e, x) <=> \/ Has(T, e, x) /\ e # T.node[n].data
                                              \/ e = next /\ x = T.node[n].ref + 1
    <3>1. PICK n \in DOMAIN T.node :
                /\ y[T.node[n].data] = y[next]
                /\ \A e, x : Has(W, e, x) <=> \/ Has(T, e, x) /\ e # T.node[n].data
                                              \/ e = next /\ x = T.node[n].ref + 1
      BY <2>1
    <3>2. Has(T, T.node[n].data, T.node[n].ref)
      BY DEF Has
    <3>3. T.node[n].ref = CountOf(w, v, y[next])
      <4>1. v[T.node[n].data] = y[next]
        BY <1>3, <3>1, <3>2
      <4> QED BY <4>1 DEF MinMaxOf
    <3>4. \A m \in DOMAIN T.node : y[T.node[m].data] = y[next] => m = n
      BY <1>4, <3>1, OneNodeEach DEF Kept
    <3>5. \A e, x : Has(T, e, x) /\ e # T.node[n].data => y[e] # y[next]
      BY <3>4 DEF Has
    <3>6. \A e, x : Has(W, e, x) => Newest(u, y, e) /\ x = CountOf(u, y, y[e])
      BY <1>2, <1>3, <1>7, <1>8, <3>1, <3>3, <3>5
    <3>7. ASSUME NEW c \in CellsOf(u) PROVE \E e, x : Has(W, e, x) /\ y[e] = y[c]
      <4>1. CASE y[c] = y[next]
        BY <3>1, <4>1
      <4>2. CASE y[c] # y[next]
        <5>1. c \in CellsOf(w) /\ y[c] = v[c]
          BY <1>1, <4>2 DEF Appended
        <5>2. PICK e, x : Has(T, e, x) /\ v[e] = v[c]
          BY <1>9, <5>1
        <5>3. y[e] = y[c] /\ e # T.node[n].data
          BY <1>3, <3>1, <4>2, <5>1, <5>2
        <5> QED BY <3>1, <5>2, <5>3
      <4> QED BY <4>1, <4>2
    <3> QED BY <3>6, <3>7
  <2>2. CASE /\ \A n \in DOMAIN T.node : y[T.node[n].data] # y[next]
             /\ \A e, x : Has(W, e, x) <=> Has(T, e, x) \/ (e = next /\ x = 1)
    <3>1. \A e, x : Has(T, e, x) => y[e] # y[next]
      BY <2>2 DEF Has
    <3>2. \A c \in CellsOf(w) : v[c] # y[next]
      BY <1>3, <1>9, <3>1
    <3>3. ASSUME NEW e, NEW x, Has(W, e, x)
          PROVE  Newest(u, y, e) /\ x = CountOf(u, y, y[e])
      <4>1. CASE Has(T, e, x)
        <5>1. Newest(w, v, e) /\ x = CountOf(w, v, v[e]) /\ v[e] = y[e] /\ y[e] # y[next]
          BY <1>2, <1>3, <3>1, <4>1
        <5> QED BY <1>7, <1>8, <5>1
      <4>2. CASE e = next /\ x = 1
        <5>1. CountOf(w, v, y[next]) = 0
          BY <1>7, <3>2
        <5>2. CountOf(u, y, y[e]) = 1
          BY <1>7, <4>2, <5>1
        <5> QED BY <1>8, <4>2, <5>2
      <4>3. Has(T, e, x) \/ (e = next /\ x = 1)
        BY <2>2, <3>3
      <4> QED BY <4>1, <4>2, <4>3
    <3>4. ASSUME NEW c \in CellsOf(u) PROVE \E e, x : Has(W, e, x) /\ y[e] = y[c]
      <4>1. CASE c = next
        <5>1. Has(W, next, 1)
          BY <2>2
        <5> QED BY <4>1, <5>1
      <4>2. CASE c \in CellsOf(w)
        <5>1. PICK e, x : Has(T, e, x) /\ v[e] = v[c]
          BY <1>9, <4>2
        <5>2. y[e] = y[c]
          BY <1>3, <4>2, <5>1 DEF Appended
        <5> QED BY <2>2, <5>1, <5>2
      <4> QED BY <1>1, <4>1, <4>2
    <3> QED BY <3>3, <3>4
  <2> QED BY <1>6, <2>1, <2>2 DEF Inserted
<1>11. MinMaxOf(Uncounted(W), u, y)
  BY <1>6, <1>10, MinMaxFrom
<1> QED BY <1>5, <1>11 DEF MinMaxAdd

-----------------------------------------------------------------------------
(* g[k] is the sum of the first k items.                                   *)
SumsTo(v, w, g) ==
  /\ g \in [0 .. Len(w) -> Int] /\ g[0] = 0
  /\ \A k \in 1 .. Len(w) : g[k] = g[k - 1] + v[w[k].cell]

SumIs(v, w, s) == \E g : SumsTo(v, w, g) /\ g[Len(w)] = s

(* There is one such function, and WindowSum is its last value.            *)
LEMMA WindowSumIs ==
  ASSUME NEW s, window \in Seq([cell : Cells, age : Nat]), SumIs(storage, window, s)
  PROVE  WindowSum = s
<1> DEFINE n == Len(window)
           Is(f) == f = [k \in 0 .. n |-> IF k = 0 THEN 0 ELSE f[k - 1] + storage[window[k].cell]]
<1>1. n \in Nat
  OBVIOUS
<1>2. PICK g : SumsTo(storage, window, g) /\ g[n] = s
  BY DEF SumIs
<1> HIDE DEF n
<1>3. Is(g)
  <2>1. g \in [0 .. n -> Int] /\ g[0] = 0 /\ \A k \in 1 .. n : g[k] = g[k - 1] + storage[window[k].cell]
    BY <1>2 DEF SumsTo, n
  <2>2. \A k \in 0 .. n : g[k] = IF k = 0 THEN 0 ELSE g[k - 1] + storage[window[k].cell]
    BY <1>1, <2>1
  <2> QED BY <2>1, <2>2
<1> DEFINE f == CHOOSE h : Is(h)
<1>4. Is(f)
  <2> HIDE DEF Is
  <2> QED BY <1>3
<1>5. WindowSum = f[n]
  BY DEF WindowSum, n
<1> HIDE DEF f
<1>6. f[0] = 0 /\ \A k \in 1 .. n : f[k] = f[k - 1] + storage[window[k].cell]
  BY <1>1, <1>4
<1>7. g[0] = 0 /\ \A k \in 1 .. n : g[k] = g[k - 1] + storage[window[k].cell]
  BY <1>1, <1>3
<1> DEFINE P == [k \in 0 .. n |-> {g[k]}]
<1>8. \A k \in 0 .. n : f[k] \in P[k]
  <2>1. f[0] \in P[0]
    BY <1>1, <1>6, <1>7
  <2>2. ASSUME NEW k \in 1 .. n, f[k - 1] \in P[k - 1] PROVE f[k] \in P[k]
    <3>1. k \in 0 .. n /\ k - 1 \in 0 .. n
      BY <1>1
    <3>2. f[k - 1] = g[k - 1]
      BY <2>2, <3>1
    <3>3. f[k] = g[k]
      BY <1>6, <1>7, <3>2
    <3> QED BY <3>1, <3>3
  <2> HIDE DEF P
  <2> QED BY <1>1, <2>1, <2>2, TurnsHold
<1>9. f[n] = g[n]
  BY <1>1, <1>8
<1> QED BY <1>2, <1>5, <1>9

(* The sum when the first item leaves.                                     *)
LEMMA SumTail ==
  ASSUME NEW w, NEW next, Ring(w, next), w # <<>>, NEW v \in [Cells -> Int],
         NEW s, SumIs(v, w, s)
  PROVE  SumIs(v, Tail(w), s - v[w[1].cell])
<1>1. /\ Len(w) \in Nat \ {0} /\ Len(Tail(w)) = Len(w) - 1
      /\ \A i \in 1 .. Len(w) - 1 : Tail(w)[i] = w[i + 1]
  BY RingTail
<1>2. PICK g : SumsTo(v, w, g) /\ g[Len(w)] = s
  BY DEF SumIs
<1>3. /\ g \in [0 .. Len(w) -> Int] /\ g[0] = 0
      /\ \A k \in 1 .. Len(w) : g[k] = g[k - 1] + v[w[k].cell]
  BY <1>2 DEF SumsTo
<1>4. g[1] = v[w[1].cell] /\ g[1] \in Int
  <2>1. 1 \in 1 .. Len(w) /\ 1 \in 0 .. Len(w)
    BY <1>1
  <2>2. g[1] = g[0] + v[w[1].cell] /\ g[1] \in Int
    BY <1>3, <2>1
  <2>3. v[w[1].cell] \in Int
    BY <2>1, RingIs DEF CellsOf
  <2> QED BY <1>3, <2>2, <2>3
<1> DEFINE h == [k \in 0 .. Len(w) - 1 |-> g[k + 1] - g[1]]
<1>5. h \in [0 .. Len(w) - 1 -> Int] /\ h[0] = 0 /\ h[Len(w) - 1] = s - v[w[1].cell]
  <2>1. \A k \in 0 .. Len(w) - 1 : g[k + 1] \in Int
    BY <1>1, <1>3
  <2>2. (Len(w) - 1) + 1 = Len(w) /\ Len(w) - 1 \in 0 .. Len(w) - 1 /\ 0 \in 0 .. Len(w) - 1
    BY <1>1
  <2> QED BY <1>2, <1>4, <2>1, <2>2
<1>6. ASSUME NEW k \in 1 .. Len(w) - 1 PROVE h[k] = h[k - 1] + v[Tail(w)[k].cell]
  <2>1. k + 1 \in 1 .. Len(w) /\ k \in 0 .. Len(w) - 1 /\ k - 1 \in 0 .. Len(w) - 1
        /\ (k + 1) - 1 = k /\ (k - 1) + 1 = k /\ k \in 0 .. Len(w) /\ k + 1 \in 0 .. Len(w)
    BY <1>1
  <2>2. g[k + 1] = g[k] + v[w[k + 1].cell] /\ g[k] \in Int
    BY <1>3, <2>1
  <2>3. v[w[k + 1].cell] \in Int
    BY <2>1, RingIs DEF CellsOf
  <2>4. h[k] = g[k + 1] - g[1] /\ h[k - 1] = g[k] - g[1]
    BY <2>1
  <2> HIDE DEF h
  <2>5. h[k] = h[k - 1] + v[w[k + 1].cell]
    BY <1>4, <2>2, <2>3, <2>4
  <2> QED BY <1>1, <2>5
<1> HIDE DEF h
<1>7. SumsTo(v, Tail(w), h) /\ h[Len(Tail(w))] = s - v[w[1].cell]
  BY <1>1, <1>5, <1>6 DEF SumsTo
<1> QED BY <1>7 DEF SumIs

(* The sum when an item is added.                                          *)
LEMMA SumAppend ==
  ASSUME NEW w, NEW next, NEW u, NEW v, NEW y \in [Cells -> Int],
         Appended(w, next, u, v, y), NEW s, SumIs(v, w, s)
  PROVE  SumIs(y, u, s + y[next])
<1>1. /\ Len(u) = Len(w) + 1 /\ Len(w) \in Nat
      /\ \A i \in 1 .. Len(w) : u[i] = w[i] /\ w[i].cell \in CellsOf(w)
      /\ u[Len(u)].cell = next
  BY RingAppend DEF Appended, CellsOf
<1>2. PICK g : SumsTo(v, w, g) /\ g[Len(w)] = s
  BY DEF SumIs
<1>3. /\ g \in [0 .. Len(w) -> Int] /\ g[0] = 0
      /\ \A k \in 1 .. Len(w) : g[k] = g[k - 1] + v[w[k].cell]
  BY <1>2 DEF SumsTo
<1>4. y[next] \in Int /\ s \in Int
  <2>1. next \in Cells
    BY DEF Appended, Ring
  <2> QED BY <1>1, <1>2, <1>3, <2>1
<1> DEFINE h == [k \in 0 .. Len(w) + 1 |-> IF k = Len(w) + 1 THEN s + y[next] ELSE g[k]]
<1>5. \A k \in 0 .. Len(w) : h[k] = g[k]
  BY <1>1
<1>6. h[Len(w) + 1] = s + y[next]
  BY <1>1
<1>7. h \in [0 .. Len(w) + 1 -> Int]
  BY <1>1, <1>3, <1>4
<1> HIDE DEF h
<1>8. ASSUME NEW k \in 1 .. Len(w) + 1 PROVE h[k] = h[k - 1] + y[u[k].cell]
  <2>1. k - 1 \in 0 .. Len(w) /\ h[k - 1] = g[k - 1]
    BY <1>1, <1>5
  <2>2. CASE k = Len(w) + 1
    <3>1. k - 1 = Len(w)
      BY <1>1, <2>2
    <3> QED BY <1>1, <1>2, <1>6, <2>1, <2>2, <3>1
  <2>3. CASE k # Len(w) + 1
    <3>1. k \in 1 .. Len(w) /\ k \in 0 .. Len(w)
      BY <1>1, <2>3
    <3>2. y[u[k].cell] = v[w[k].cell]
      BY <1>1, <3>1 DEF Appended
    <3> QED BY <1>3, <1>5, <2>1, <3>1, <3>2
  <2> QED BY <2>2, <2>3
<1>9. h[0] = 0
  BY <1>1, <1>3, <1>5
<1>10. SumsTo(y, u, h) /\ h[Len(u)] = s + y[next]
  BY <1>1, <1>6, <1>7, <1>8, <1>9 DEF SumsTo
<1> QED BY <1>10 DEF SumIs

(* How many items leave: no more than there are, and enough to make room.  *)
LEMMA ObsoleteIs ==
  ASSUME NEW w, NEW next, Ring(w, next)
  PROVE  Obsolete(w) \in 0 .. Len(w) /\ Len(w) - Obsolete(w) < NumLimit
<1>1. Len(w) \in 0 .. NumLimit /\ NumLimit \in Nat \ {0}
  BY WindowAssumption DEF Ring
<1>2. Outdated(w) \in 0 .. Len(w)
  <2>1. CASE TimeLimit = 0
    BY <1>1, <2>1 DEF Outdated
  <2>2. CASE TimeLimit # 0
    <3> DEFINE A == {i \in 1 .. Len(w) : \A j \in 1 .. i : w[j].age >= TimeLimit}
    <3>1. A \in SUBSET (1 .. Len(w))
      OBVIOUS
    <3>2. Outdated(w) = Cardinality(A)
      BY <2>2 DEF Outdated
    <3> HIDE DEF A
    <3>3. IsFiniteSet(1 .. Len(w)) /\ Cardinality(1 .. Len(w)) = Len(w)
      <4>1. 1 \in Int /\ Len(w) \in Int
        BY <1>1
      <4>2. IsFiniteSet(1 .. Len(w))
            /\ Cardinality(1 .. Len(w)) = IF 1 > Len(w) THEN 0 ELSE Len(w) - 1 + 1
        BY <4>1, FS_Interval
      <4> QED BY <1>1, <4>2
    <3>4. IsFiniteSet(A) /\ Cardinality(A) <= Len(w)
      BY <3>1, <3>3, FS_Subset
    <3>5. Cardinality(A) \in Nat
      BY <3>4, FS_CardinalityType
    <3> QED BY <1>1, <3>2, <3>4, <3>5
  <2> QED BY <2>1, <2>2
<1> QED BY <1>1, <1>2 DEF Obsolete

-----------------------------------------------------------------------------
(* A tree with one reference to each of the cells A, and to no other, that *)
(* counts them: the trees of the percentile plugin.                        *)
Ones(T, v, A) ==
  /\ Kept(T, v) /\ A \subseteq Cells
  /\ \A e, x : Has(T, e, x) <=> e \in A /\ x = 1

Plain(T, v, A) == Ones(T, v, A) /\ T.dups = 0

(* The nodes of such a tree and its cells are one to one.                  *)
LEMMA OnesIs ==
  ASSUME NEW T, NEW v \in [Cells -> Int], NEW A, Ones(T, v, A)
  PROVE  /\ DataOf(T) = A /\ IsFiniteSet(A) /\ T.nodes = Cardinality(A)
         /\ \A a, b \in A : v[a] = v[b] => a = b
         /\ \A n \in DOMAIN T.node : T.node[n].data \in A /\ T.node[n].ref = 1
         /\ \A a \in A : \E n \in DOMAIN T.node : T.node[n].data = a
<1>1. Sound(T, Cells, v) /\ Counted(T)
  BY DEF Ones, Kept
<1>2. \A n \in DOMAIN T.node : T.node[n].data \in A /\ T.node[n].ref = 1
  <2>1. TAKE n \in DOMAIN T.node
  <2>2. Has(T, T.node[n].data, T.node[n].ref)
    BY DEF Has
  <2> QED BY <2>2 DEF Ones
<1>3. \A a \in A : \E n \in DOMAIN T.node : T.node[n].data = a
  BY DEF Ones, Has
<1>4. DataOf(T) = A
  BY <1>2, <1>3 DEF DataOf
<1>5. \A m, n \in DOMAIN T.node : v[T.node[m].data] = v[T.node[n].data] => m = n
  BY <1>1, OneNodeEach
<1>6. \A a, b \in A : v[a] = v[b] => a = b
  BY <1>3, <1>5
<1> DEFINE N == DOMAIN T.node
           f == [n \in N |-> T.node[n].data]
<1>7. IsFiniteSet(N)
  BY <1>1 DEF Sound, Typed
<1>8. f \in Bijection(N, A)
  <2>1. f \in [N -> A] /\ \A a \in A : \E n \in N : f[n] = a
    BY <1>2, <1>3
  <2>2. \A m, n \in N : f[m] = f[n] => m = n
    BY <1>5
  <2> HIDE DEF f, N
  <2> QED BY <2>1, <2>2 DEF Bijection, Injection, Surjection, IsInjective
<1> HIDE DEF f
<1>9. IsFiniteSet(A) /\ Cardinality(A) = Cardinality(N)
  <2>1. IsFiniteSet(N) /\ ExistsBijection(N, A)
    BY <1>7, <1>8 DEF ExistsBijection
  <2> HIDE DEF N
  <2> QED BY <2>1, FS_Bijection
<1>10. T.nodes = Cardinality(N)
  BY <1>1 DEF Counted
<1> QED BY <1>2, <1>3, <1>4, <1>6, <1>9, <1>10

(* bintree_get_refnum of such a tree.                                      *)
LEMMA PlainIs ==
  ASSUME NEW T, NEW v \in [Cells -> Int], NEW A, Plain(T, v, A)
  PROVE  /\ DataOf(T) = A /\ IsFiniteSet(A) /\ Cardinality(A) \in Nat
         /\ Refnum(T) = Cardinality(A)
         /\ \A a, b \in A : v[a] = v[b] => a = b
<1>1. /\ DataOf(T) = A /\ IsFiniteSet(A) /\ T.nodes = Cardinality(A)
      /\ \A a, b \in A : v[a] = v[b] => a = b
  <2>1. Ones(T, v, A)
    BY DEF Plain
  <2> QED BY <2>1, OnesIs
<1>2. Cardinality(A) \in Nat
  BY <1>1, FS_CardinalityType
<1>3. Refnum(T) = T.nodes + 0
  BY DEF Refnum, Plain
<1> QED BY <1>1, <1>2, <1>3

(* Its top and its bottom.                                                 *)
LEMMA PlainEnds ==
  ASSUME NEW T, NEW v \in [Cells -> Int], NEW A, Plain(T, v, A)
  PROVE  /\ A = {} => TopData(T) = NIL /\ BottomData(T) = NIL
         /\ A # {} => /\ TopData(T) \in A /\ TopData(T) # NIL
                      /\ BottomData(T) \in A /\ BottomData(T) # NIL
         /\ \A a \in A : v[a] <= v[TopData(T)] /\ v[BottomData(T)] <= v[a]
<1>1. /\ \A n \in DOMAIN T.node : T.node[n].data \in A
      /\ \A a \in A : \E n \in DOMAIN T.node : T.node[n].data = a
  BY OnesIs DEF Plain
<1>2. /\ DOMAIN T.node = {} => TopData(T) = NIL /\ BottomData(T) = NIL
      /\ DOMAIN T.node # {} =>
              /\ \E n \in DOMAIN T.node : TopData(T) = T.node[n].data
              /\ \E n \in DOMAIN T.node : BottomData(T) = T.node[n].data
      /\ \A n \in DOMAIN T.node : /\ v[T.node[n].data] <= v[TopData(T)]
                                  /\ v[BottomData(T)] <= v[T.node[n].data]
  BY KeptEnds DEF Plain, Ones
<1>3. A \subseteq Cells /\ NIL \notin Cells
  BY WindowAssumption DEF Plain, Ones, NIL, Cells
<1>4. A = {} => DOMAIN T.node = {}
  BY <1>1
<1>5. A # {} => DOMAIN T.node # {}
  BY <1>1
<1> QED BY <1>1, <1>2, <1>3, <1>4, <1>5

(* An empty one.                                                           *)
LEMMA PlainEmpty ==
  ASSUME NEW v PROVE Plain(EmptyTree, v, {})
<1>1. Kept(EmptyTree, v) /\ DOMAIN EmptyTree.node = {} /\ EmptyTree.dups = 0
  BY EmptyKept
<1> QED BY <1>1 DEF Plain, Ones, Has

(* Other values of the cells that are not in the tree.                     *)
LEMMA PlainStored ==
  ASSUME NEW T, NEW v \in [Cells -> Int], NEW A, Plain(T, v, A), NEW y, \A a \in A : y[a] = v[a]
  PROVE  Plain(T, y, A)
<1>1. \A n \in DOMAIN T.node : T.node[n].data \in A
  BY OnesIs DEF Plain
<1>2. Kept(T, y)
  BY <1>1, StoredKept DEF Plain, Ones
<1> QED BY <1>2 DEF Plain, Ones

(* A value more.                                                           *)
LEMMA PlainInsert ==
  ASSUME NEW T, NEW v \in [Cells -> Int], NEW A, Plain(T, v, A), NEW d \in Cells,
         \A a \in A : v[a] # v[d]
  PROVE  Plain(Insert(T, v, d, 1), v, A \cup {d})
<1>1. PICK W : W = Insert(T, v, d, 1)
  OBVIOUS
<1>2. Kept(T, v) /\ A \subseteq Cells /\ T.dups = 0
      /\ \A e, x : Has(T, e, x) <=> e \in A /\ x = 1
  BY DEF Plain, Ones
<1>3. /\ Kept(W, v) /\ Inserted(T, W, v, d, 1)
      /\ W.nodes + W.dups = T.nodes + T.dups + 1
  BY <1>1, <1>2, InsertKept
<1>4. \A n \in DOMAIN T.node : v[T.node[n].data] # v[d]
  <2>1. \A n \in DOMAIN T.node : T.node[n].data \in A
    BY OnesIs DEF Plain
  <2> QED BY <2>1
<1>5. \A e, x : Has(W, e, x) <=> Has(T, e, x) \/ (e = d /\ x = 1)
  BY <1>3, <1>4 DEF Inserted
<1>6. Ones(W, v, A \cup {d})
  <2>1. \A e, x : Has(W, e, x) <=> e \in A \cup {d} /\ x = 1
    BY <1>2, <1>5
  <2> QED BY <1>2, <1>3, <2>1 DEF Ones
<1>7. T.nodes = Cardinality(A) /\ IsFiniteSet(A) /\ W.nodes = Cardinality(A \cup {d})
  BY <1>6, OnesIs DEF Plain
<1>8. Cardinality(A \cup {d}) = Cardinality(A) + 1 /\ Cardinality(A) \in Nat
  <2>1. d \notin A
    OBVIOUS
  <2> QED BY <1>7, <2>1, FS_AddElement, FS_CardinalityType
<1>9. W.dups \in Int
  BY <1>3 DEF Kept, Sound, Typed
<1>10. W.dups = 0
  BY <1>2, <1>3, <1>7, <1>8, <1>9
<1> QED BY <1>1, <1>6, <1>10 DEF Plain

(* A value less.                                                           *)
LEMMA PlainDeref ==
  ASSUME NEW T, NEW v \in [Cells -> Int], NEW A, Plain(T, v, A), NEW d \in A
  PROVE  Plain(Deref(T, v, d), v, A \ {d})
<1>1. PICK W : W = Deref(T, v, d)
  OBVIOUS
<1>2. Kept(T, v) /\ A \subseteq Cells /\ T.dups = 0 /\ d \in Cells
      /\ \A e, x : Has(T, e, x) <=> e \in A /\ x = 1
  BY DEF Plain, Ones
<1>3. \A m \in DOMAIN T.node : T.node[m].ref = 1
  BY OnesIs DEF Plain
<1>4. PICK n \in DOMAIN T.node : T.node[n].data = d
  BY OnesIs DEF Plain
<1>5. T.node[Leaver(T, n)].ref = 1
  <2>1. Leaver(T, n) \in DOMAIN T.node
    BY <1>2, LeaverIs DEF Kept
  <2> QED BY <1>3, <2>1
<1>6. /\ Kept(W, v)
      /\ \A e, x : Has(W, e, x) <=>
              \/ Has(T, e, x) /\ e # T.node[n].data
              \/ e = T.node[n].data /\ T.node[n].ref > 1 /\ x = T.node[n].ref - 1
      /\ T.node[n].ref = 1 =>
              /\ W.nodes = T.nodes - 1
              /\ W.dups = T.dups - (T.node[Leaver(T, n)].ref - 1)
  BY <1>1, <1>2, <1>4, DerefKept
<1>7. W.dups = 0
  BY <1>2, <1>3, <1>5, <1>6
<1>8. \A e, x : Has(W, e, x) <=> e \in A \ {d} /\ x = 1
  <2>1. ~ (T.node[n].ref > 1)
    BY <1>3
  <2>2. \A e, x : Has(W, e, x) <=> Has(T, e, x) /\ e # d
    BY <1>4, <1>6, <2>1
  <2> QED BY <1>2, <2>2
<1> QED BY <1>1, <1>2, <1>6, <1>7, <1>8 DEF Plain, Ones

(* A value that is not there.                                              *)
LEMMA PlainMissing ==
  ASSUME NEW T, NEW v \in [Cells -> Int], NEW A, Plain(T, v, A), NEW d \in Cells,
         \A a \in A : v[a] # v[d]
  PROVE  Deref(T, v, d) = T
<1>1. \A n \in DOMAIN T.node : T.node[n].data \in A
  BY OnesIs DEF Plain
<1>2. \A n \in DOMAIN T.node : v[T.node[n].data] # v[d]
  BY <1>1
<1> QED BY <1>2, DerefMissing DEF Plain, Ones

(* The turns of a loop: there is a function that says what each leaves.    *)
LEMMA MinTurns ==
  ASSUME NEW S, NEW v, S.Mnc \in Nat
  PROVE  \E f : /\ f[0] = S /\ \A k \in 1 .. S.Mnc : f[k] = MinTurn(f[k - 1], v)
                /\ f[S.Mnc] = ReduceMin(S, v)
<1> DEFINE Is(m, f) == f = [k \in 0 .. m |-> IF k = 0 THEN S ELSE MinTurn(f[k - 1], v)]
           Bad == {m \in 0 .. S.Mnc : ~ \E f : Is(m, f)}
<1>1. Bad = {}
  <2> SUFFICES ASSUME Bad # {} PROVE FALSE
    OBVIOUS
  <2>1. PICK m \in Bad : \A k \in Bad : m <= k
    <3>1. Bad \subseteq Nat
      OBVIOUS
    <3> HIDE DEF Bad
    <3> QED BY <3>1, LeastNat
  <2>2. m \in 0 .. S.Mnc /\ ~ \E f : Is(m, f)
    BY <2>1
  <2>3. m > 0 => \E f : Is(m - 1, f)
    <3> SUFFICES ASSUME m > 0 PROVE m - 1 \notin Bad /\ m - 1 \in 0 .. S.Mnc
      OBVIOUS
    <3> HIDE DEF Bad
    <3> QED BY <2>1, <2>2
  <2>4. CASE m = 0
    <3> DEFINE f == [k \in 0 .. 0 |-> S]
    <3>1. f = [k \in 0 .. 0 |-> IF k = 0 THEN S ELSE MinTurn(f[k - 1], v)]
      OBVIOUS
    <3> QED BY <2>2, <2>4, <3>1
  <2>5. CASE m > 0
    <3>1. PICK f : Is(m - 1, f)
      BY <2>3, <2>5
    <3> DEFINE h == [k \in 0 .. m |-> IF k = m THEN MinTurn(f[m - 1], v) ELSE f[k]]
    <3>2. ASSUME NEW k \in 0 .. m
          PROVE  h[k] = IF k = 0 THEN S ELSE MinTurn(h[k - 1], v)
      <4>1. CASE k = 0
        <5>1. h[k] = f[0] /\ 0 \in 0 .. m - 1
          BY <2>2, <2>5, <4>1
        <5> QED BY <3>1, <4>1, <5>1
      <4>2. CASE k # 0
        <5>1. k - 1 \in 0 .. m /\ k - 1 # m
          BY <2>2, <4>2
        <5>2. h[k - 1] = f[k - 1]
          BY <5>1
        <5>3. CASE k = m
          BY <4>2, <5>2, <5>3
        <5>4. CASE k # m
          <6>1. k \in 0 .. m - 1 /\ h[k] = f[k]
            BY <2>2, <5>4
          <6> HIDE DEF h
          <6> QED BY <3>1, <4>2, <5>2, <6>1
        <5> QED BY <5>3, <5>4
      <4> QED BY <4>1, <4>2
    <3>3. Is(m, h)
      BY <3>2
    <3> QED BY <2>2, <3>3
  <2> QED BY <2>2, <2>4, <2>5
<1>2. \E f : Is(S.Mnc, f)
  <2> HIDE DEF Is
  <2> QED BY <1>1
<1> DEFINE g == CHOOSE f : Is(S.Mnc, f)
<1>3. Is(S.Mnc, g)
  BY <1>2
<1>4. g[S.Mnc] = ReduceMin(S, v)
  BY DEF Times, ReduceMin
<1> HIDE DEF g
<1>5. g[0] = S /\ \A k \in 1 .. S.Mnc : g[k] = MinTurn(g[k - 1], v)
  BY <1>3
<1> QED BY <1>4, <1>5

(* The turns of a loop: there is a function that says what each leaves.    *)
LEMMA MaxTurns ==
  ASSUME NEW S, NEW v, S.Mxc \in Nat
  PROVE  \E f : /\ f[0] = S /\ \A k \in 1 .. S.Mxc : f[k] = MaxTurn(f[k - 1], v)
                /\ f[S.Mxc] = ReduceMax(S, v)
<1> DEFINE Is(m, f) == f = [k \in 0 .. m |-> IF k = 0 THEN S ELSE MaxTurn(f[k - 1], v)]
           Bad == {m \in 0 .. S.Mxc : ~ \E f : Is(m, f)}
<1>1. Bad = {}
  <2> SUFFICES ASSUME Bad # {} PROVE FALSE
    OBVIOUS
  <2>1. PICK m \in Bad : \A k \in Bad : m <= k
    <3>1. Bad \subseteq Nat
      OBVIOUS
    <3> HIDE DEF Bad
    <3> QED BY <3>1, LeastNat
  <2>2. m \in 0 .. S.Mxc /\ ~ \E f : Is(m, f)
    BY <2>1
  <2>3. m > 0 => \E f : Is(m - 1, f)
    <3> SUFFICES ASSUME m > 0 PROVE m - 1 \notin Bad /\ m - 1 \in 0 .. S.Mxc
      OBVIOUS
    <3> HIDE DEF Bad
    <3> QED BY <2>1, <2>2
  <2>4. CASE m = 0
    <3> DEFINE f == [k \in 0 .. 0 |-> S]
    <3>1. f = [k \in 0 .. 0 |-> IF k = 0 THEN S ELSE MaxTurn(f[k - 1], v)]
      OBVIOUS
    <3> QED BY <2>2, <2>4, <3>1
  <2>5. CASE m > 0
    <3>1. PICK f : Is(m - 1, f)
      BY <2>3, <2>5
    <3> DEFINE h == [k \in 0 .. m |-> IF k = m THEN MaxTurn(f[m - 1], v) ELSE f[k]]
    <3>2. ASSUME NEW k \in 0 .. m
          PROVE  h[k] = IF k = 0 THEN S ELSE MaxTurn(h[k - 1], v)
      <4>1. CASE k = 0
        <5>1. h[k] = f[0] /\ 0 \in 0 .. m - 1
          BY <2>2, <2>5, <4>1
        <5> QED BY <3>1, <4>1, <5>1
      <4>2. CASE k # 0
        <5>1. k - 1 \in 0 .. m /\ k - 1 # m
          BY <2>2, <4>2
        <5>2. h[k - 1] = f[k - 1]
          BY <5>1
        <5>3. CASE k = m
          BY <4>2, <5>2, <5>3
        <5>4. CASE k # m
          <6>1. k \in 0 .. m - 1 /\ h[k] = f[k]
            BY <2>2, <5>4
          <6> HIDE DEF h
          <6> QED BY <3>1, <4>2, <5>2, <6>1
        <5> QED BY <5>3, <5>4
      <4> QED BY <4>1, <4>2
    <3>3. Is(m, h)
      BY <3>2
    <3> QED BY <2>2, <3>3
  <2> QED BY <2>2, <2>4, <2>5
<1>2. \E f : Is(S.Mxc, f)
  <2> HIDE DEF Is
  <2> QED BY <1>1
<1> DEFINE g == CHOOSE f : Is(S.Mxc, f)
<1>3. Is(S.Mxc, g)
  BY <1>2
<1>4. g[S.Mxc] = ReduceMax(S, v)
  BY DEF Times, ReduceMax
<1> HIDE DEF g
<1>5. g[0] = S /\ \A k \in 1 .. S.Mxc : g[k] = MaxTurn(g[k - 1], v)
  BY <1>3
<1> QED BY <1>4, <1>5

(* The turns of a loop: there is a function that says what each leaves.    *)
LEMMA AllTurns ==
  ASSUME NEW S, NEW v, S.Mnc \in Nat
  PROVE  \E f : /\ f[0] = S /\ \A k \in 1 .. S.Mnc : f[k] = LeastToMaxtree(f[k - 1], v)
                /\ f[S.Mnc] = AllToMaxtree(S, v)
<1> DEFINE Is(m, f) == f = [k \in 0 .. m |-> IF k = 0 THEN S ELSE LeastToMaxtree(f[k - 1], v)]
           Bad == {m \in 0 .. S.Mnc : ~ \E f : Is(m, f)}
<1>1. Bad = {}
  <2> SUFFICES ASSUME Bad # {} PROVE FALSE
    OBVIOUS
  <2>1. PICK m \in Bad : \A k \in Bad : m <= k
    <3>1. Bad \subseteq Nat
      OBVIOUS
    <3> HIDE DEF Bad
    <3> QED BY <3>1, LeastNat
  <2>2. m \in 0 .. S.Mnc /\ ~ \E f : Is(m, f)
    BY <2>1
  <2>3. m > 0 => \E f : Is(m - 1, f)
    <3> SUFFICES ASSUME m > 0 PROVE m - 1 \notin Bad /\ m - 1 \in 0 .. S.Mnc
      OBVIOUS
    <3> HIDE DEF Bad
    <3> QED BY <2>1, <2>2
  <2>4. CASE m = 0
    <3> DEFINE f == [k \in 0 .. 0 |-> S]
    <3>1. f = [k \in 0 .. 0 |-> IF k = 0 THEN S ELSE LeastToMaxtree(f[k - 1], v)]
      OBVIOUS
    <3> QED BY <2>2, <2>4, <3>1
  <2>5. CASE m > 0
    <3>1. PICK f : Is(m - 1, f)
      BY <2>3, <2>5
    <3> DEFINE h == [k \in 0 .. m |-> IF k = m THEN LeastToMaxtree(f[m - 1], v) ELSE f[k]]
    <3>2. ASSUME NEW k \in 0 .. m
          PROVE  h[k] = IF k = 0 THEN S ELSE LeastToMaxtree(h[k - 1], v)
      <4>1. CASE k = 0
        <5>1. h[k] = f[0] /\ 0 \in 0 .. m - 1
          BY <2>2, <2>5, <4>1
        <5> QED BY <3>1, <4>1, <5>1
      <4>2. CASE k # 0
        <5>1. k - 1 \in 0 .. m /\ k - 1 # m
          BY <2>2, <4>2
        <5>2. h[k - 1] = f[k - 1]
          BY <5>1
        <5>3. CASE k = m
          BY <4>2, <5>2, <5>3
        <5>4. CASE k # m
          <6>1. k \in 0 .. m - 1 /\ h[k] = f[k]
            BY <2>2, <5>4
          <6> HIDE DEF h
          <6> QED BY <3>1, <4>2, <5>2, <6>1
        <5> QED BY <5>3, <5>4
      <4> QED BY <4>1, <4>2
    <3>3. Is(m, h)
      BY <3>2
    <3> QED BY <2>2, <3>3
  <2> QED BY <2>2, <2>4, <2>5
<1>2. \E f : Is(S.Mnc, f)
  <2> HIDE DEF Is
  <2> QED BY <1>1
<1> DEFINE g == CHOOSE f : Is(S.Mnc, f)
<1>3. Is(S.Mnc, g)
  BY <1>2
<1>4. g[S.Mnc] = AllToMaxtree(S, v)
  BY DEF Times, AllToMaxtree
<1> HIDE DEF g
<1>5. g[0] = S /\ \A k \in 1 .. S.Mnc : g[k] = LeastToMaxtree(g[k - 1], v)
  BY <1>3
<1> QED BY <1>4, <1>5

-----------------------------------------------------------------------------
(* The values of the cells A are in the two trees of the percentile        *)
(* plugin, once each, the lesser ones in maxtree, and the plugin counts    *)
(* them.                                                                   *)
PctRec(P) ==
  P \in [p : {P.p}, mintree : {P.mintree}, maxtree : {P.maxtree}, Mxc : Int, Mnc : Int]

Halves(P, v, A, low, high) ==
  /\ Plain(P.maxtree, v, low) /\ Plain(P.mintree, v, high)
  /\ low \cup high = A
  /\ \A c \in low, d \in high : v[c] < v[d]
  /\ P.Mxc = Cardinality(low) /\ P.Mnc = Cardinality(high)

Halved(P, v, A) == PctRec(P) /\ \E low, high : Halves(P, v, A, low, high)

(* Both trees and both counters set.                                       *)
With(P, mn, mx, i, j) == [P EXCEPT !.mintree = mn, !.maxtree = mx, !.Mnc = i, !.Mxc = j]

(* What that leaves.                                                       *)
LEMMA PctSet ==
  ASSUME NEW P, PctRec(P), NEW mn, NEW mx, NEW i \in Int, NEW j \in Int,
         NEW Q, Q = With(P, mn, mx, i, j)
  PROVE  /\ PctRec(Q) /\ Q.p = P.p /\ Q.mintree = mn /\ Q.maxtree = mx
         /\ Q.Mnc = i /\ Q.Mxc = j
<1>1. P = [p |-> P.p, mintree |-> P.mintree, maxtree |-> P.maxtree, Mxc |-> P.Mxc, Mnc |-> P.Mnc]
  BY DEF PctRec
<1>2. Q = [p |-> P.p, mintree |-> mn, maxtree |-> mx, Mxc |-> j, Mnc |-> i]
  BY <1>1 DEF With
<1> QED BY <1>2 DEF PctRec

(* There are as many values as the plugin counts, and no two alike.        *)
LEMMA HalvedIs ==
  ASSUME NEW P, NEW v \in [Cells -> Int], NEW A, Halved(P, v, A)
  PROVE  /\ P.Mxc \in Nat /\ P.Mnc \in Nat /\ IsFiniteSet(A) /\ A \subseteq Cells
         /\ P.Mxc + P.Mnc = Cardinality(A)
         /\ \A a, b \in A : v[a] = v[b] => a = b
         /\ P.Mxc > 0 => TopData(P.maxtree) # NIL
         /\ P.Mxc = 0 => TopData(P.maxtree) = NIL
<1>1. PICK low, high : Halves(P, v, A, low, high)
  BY DEF Halved
<1>2. /\ Plain(P.maxtree, v, low) /\ Plain(P.mintree, v, high)
      /\ low \cup high = A
      /\ \A c \in low, d \in high : v[c] < v[d]
      /\ P.Mxc = Cardinality(low) /\ P.Mnc = Cardinality(high)
  BY <1>1 DEF Halves
<1>3. /\ IsFiniteSet(low) /\ Cardinality(low) \in Nat
      /\ \A a, b \in low : v[a] = v[b] => a = b
  BY <1>2, PlainIs
<1>4. /\ IsFiniteSet(high) /\ Cardinality(high) \in Nat
      /\ \A a, b \in high : v[a] = v[b] => a = b
  BY <1>2, PlainIs
<1>5. low \subseteq Cells /\ high \subseteq Cells
  BY <1>2 DEF Plain, Ones
<1>6. low \cap high = {}
  <2> SUFFICES ASSUME NEW c \in low, c \in high PROVE FALSE
    OBVIOUS
  <2>1. v[c] < v[c] /\ v[c] \in Int
    BY <1>2, <1>5
  <2> QED BY <2>1
<1>7. IsFiniteSet(A) /\ Cardinality(A) = Cardinality(low) + Cardinality(high)
  <2>1. Cardinality(low \cap high) = 0
    BY <1>6, FS_EmptySet
  <2>2. IsFiniteSet(low \cup high)
        /\ Cardinality(low \cup high) = Cardinality(low) + Cardinality(high) - Cardinality(low \cap high)
    BY <1>3, <1>4, FS_Union
  <2>3. Cardinality(low \cup high) = Cardinality(low) + Cardinality(high)
    BY <1>3, <1>4, <2>1, <2>2
  <2> QED BY <1>2, <2>2, <2>3, Zenon
<1>8. ASSUME NEW a \in A, NEW b \in A, v[a] = v[b] PROVE a = b
  <2>1. v[a] \in Int /\ v[b] \in Int
    BY <1>2, <1>5
  <2>2. ~ (v[a] < v[b]) /\ ~ (v[b] < v[a])
    BY <1>8, <2>1
  <2> QED BY <1>2, <1>3, <1>4, <1>8, <2>2
<1>9. P.Mxc > 0 => low # {}
  BY <1>2, FS_EmptySet
<1>10. P.Mxc = 0 => low = {}
  BY <1>2, <1>3, FS_EmptySet
<1>11. /\ low = {} => TopData(P.maxtree) = NIL
       /\ low # {} => TopData(P.maxtree) # NIL
  BY <1>2, PlainEnds
<1> QED BY <1>2, <1>3, <1>4, <1>5, <1>7, <1>8, <1>9, <1>10, <1>11

(* A value goes from mintree to maxtree.                                   *)
LEMMA LeastToMaxtreeIs ==
  ASSUME NEW P, NEW v \in [Cells -> Int], NEW A, Halved(P, v, A), P.Mnc >= 1,
         NEW Q, Q = LeastToMaxtree(P, v)
  PROVE  /\ Halved(Q, v, A) /\ Q.p = P.p
         /\ Q.Mxc = P.Mxc + 1 /\ Q.Mnc = P.Mnc - 1
<1>1. PICK low, high : Halves(P, v, A, low, high)
  BY DEF Halved
<1>2. /\ Plain(P.maxtree, v, low) /\ Plain(P.mintree, v, high)
      /\ low \cup high = A
      /\ \A c \in low, d \in high : v[c] < v[d]
      /\ P.Mxc = Cardinality(low) /\ P.Mnc = Cardinality(high)
  BY <1>1 DEF Halves
<1>3. IsFiniteSet(low) /\ Cardinality(low) \in Nat
  BY <1>2, PlainIs
<1>4. /\ IsFiniteSet(high) /\ Cardinality(high) \in Nat
      /\ \A a, b \in high : v[a] = v[b] => a = b
  BY <1>2, PlainIs
<1>5. low \subseteq Cells /\ high \subseteq Cells
  BY <1>2 DEF Plain, Ones
<1>6. high # {}
  BY <1>2, FS_EmptySet
<1> DEFINE d == BottomData(P.mintree)
<1>7. d \in high /\ \A c \in high : v[d] <= v[c]
  BY <1>2, <1>6, PlainEnds
<1>8. PICK mx, mn : mx = Insert(P.maxtree, v, d, 1) /\ mn = Deref(P.mintree, v, d)
  OBVIOUS
<1>9. PctRec(P)
  BY DEF Halved
<1>10. Q = With(P, mn, mx, P.Mnc - 1, P.Mxc + 1)
  BY <1>8 DEF With, LeastToMaxtree
<1>11. /\ PctRec(Q) /\ Q.p = P.p /\ Q.mintree = mn /\ Q.maxtree = mx
       /\ Q.Mxc = P.Mxc + 1 /\ Q.Mnc = P.Mnc - 1
  <2>1. P.Mnc - 1 \in Int /\ P.Mxc + 1 \in Int
    BY <1>9 DEF PctRec
  <2> QED BY <1>9, <1>10, <2>1, PctSet
<1> HIDE DEF d
<1>12. Plain(mx, v, low \cup {d})
  <2>1. \A a \in low : v[a] # v[d]
    <3>1. \A a \in low : v[a] < v[d] /\ v[a] \in Int /\ v[d] \in Int
      BY <1>2, <1>5, <1>7
    <3> QED BY <3>1
  <2>2. d \in Cells
    BY <1>5, <1>7
  <2> QED BY <1>2, <1>8, <2>1, <2>2, PlainInsert
<1>13. Plain(mn, v, high \ {d})
  BY <1>2, <1>7, <1>8, PlainDeref
<1>14. (low \cup {d}) \cup (high \ {d}) = A
  BY <1>2, <1>7
<1>15. ASSUME NEW a \in low \cup {d}, NEW b \in high \ {d} PROVE v[a] < v[b]
  <2>1. CASE a \in low
    BY <1>2, <2>1
  <2>2. CASE a = d
    <3>1. v[d] <= v[b] /\ v[d] # v[b] /\ v[d] \in Int /\ v[b] \in Int
      BY <1>4, <1>5, <1>7
    <3> QED BY <2>2, <3>1
  <2> QED BY <2>1, <2>2
<1>16. d \notin low
  <2> SUFFICES ASSUME d \in low PROVE FALSE
    OBVIOUS
  <2>1. v[d] < v[d] /\ v[d] \in Int
    BY <1>2, <1>5, <1>7
  <2> QED BY <2>1
<1>17. Cardinality(low \cup {d}) = Cardinality(low) + 1
  BY <1>3, <1>16, FS_AddElement
<1>18. Cardinality(high \ {d}) = Cardinality(high) - 1
  BY <1>4, <1>7, FS_RemoveElement
<1>19. Halves(Q, v, A, low \cup {d}, high \ {d})
  BY <1>2, <1>11, <1>12, <1>13, <1>14, <1>15, <1>17, <1>18 DEF Halves
<1> QED BY <1>11, <1>19 DEF Halved

(* A value goes from maxtree to mintree.                                   *)
LEMMA GreatestToMintreeIs ==
  ASSUME NEW P, NEW v \in [Cells -> Int], NEW A, Halved(P, v, A), P.Mxc >= 1,
         NEW Q, Q = GreatestToMintree(P, v)
  PROVE  /\ Halved(Q, v, A) /\ Q.p = P.p
         /\ Q.Mxc = P.Mxc - 1 /\ Q.Mnc = P.Mnc + 1
<1>1. PICK low, high : Halves(P, v, A, low, high)
  BY DEF Halved
<1>2. /\ Plain(P.maxtree, v, low) /\ Plain(P.mintree, v, high)
      /\ low \cup high = A
      /\ \A c \in low, d \in high : v[c] < v[d]
      /\ P.Mxc = Cardinality(low) /\ P.Mnc = Cardinality(high)
  BY <1>1 DEF Halves
<1>3. IsFiniteSet(high) /\ Cardinality(high) \in Nat
  BY <1>2, PlainIs
<1>4. /\ IsFiniteSet(low) /\ Cardinality(low) \in Nat
      /\ \A a, b \in low : v[a] = v[b] => a = b
  BY <1>2, PlainIs
<1>5. low \subseteq Cells /\ high \subseteq Cells
  BY <1>2 DEF Plain, Ones
<1>6. low # {}
  BY <1>2, FS_EmptySet
<1> DEFINE d == TopData(P.maxtree)
<1>7. d \in low /\ \A c \in low : v[c] <= v[d]
  BY <1>2, <1>6, PlainEnds
<1>8. PICK mx, mn : mx = Deref(P.maxtree, v, d) /\ mn = Insert(P.mintree, v, d, 1)
  OBVIOUS
<1>9. PctRec(P)
  BY DEF Halved
<1>10. Q = With(P, mn, mx, P.Mnc + 1, P.Mxc - 1)
  BY <1>8 DEF With, GreatestToMintree
<1>11. /\ PctRec(Q) /\ Q.p = P.p /\ Q.mintree = mn /\ Q.maxtree = mx
       /\ Q.Mxc = P.Mxc - 1 /\ Q.Mnc = P.Mnc + 1
  <2>1. P.Mnc + 1 \in Int /\ P.Mxc - 1 \in Int
    BY <1>9 DEF PctRec
  <2> QED BY <1>9, <1>10, <2>1, PctSet
<1> HIDE DEF d
<1>12. Plain(mn, v, high \cup {d})
  <2>1. \A a \in high : v[a] # v[d]
    <3>1. \A a \in high : v[d] < v[a] /\ v[a] \in Int /\ v[d] \in Int
      BY <1>2, <1>5, <1>7
    <3> QED BY <3>1
  <2>2. d \in Cells
    BY <1>5, <1>7
  <2> QED BY <1>2, <1>8, <2>1, <2>2, PlainInsert
<1>13. Plain(mx, v, low \ {d})
  BY <1>2, <1>7, <1>8, PlainDeref
<1>14. (low \ {d}) \cup (high \cup {d}) = A
  BY <1>2, <1>7
<1>15. ASSUME NEW a \in low \ {d}, NEW b \in high \cup {d} PROVE v[a] < v[b]
  <2>1. CASE b \in high
    BY <1>2, <2>1
  <2>2. CASE b = d
    <3>1. v[a] <= v[d] /\ v[d] # v[a] /\ v[d] \in Int /\ v[a] \in Int
      BY <1>4, <1>5, <1>7
    <3> QED BY <2>2, <3>1
  <2> QED BY <2>1, <2>2
<1>16. d \notin high
  <2> SUFFICES ASSUME d \in high PROVE FALSE
    OBVIOUS
  <2>1. v[d] < v[d] /\ v[d] \in Int
    BY <1>2, <1>5, <1>7
  <2> QED BY <2>1
<1>17. Cardinality(high \cup {d}) = Cardinality(high) + 1
  BY <1>3, <1>16, FS_AddElement
<1>18. Cardinality(low \ {d}) = Cardinality(low) - 1
  BY <1>4, <1>7, FS_RemoveElement
<1>19. Halves(Q, v, A, low \ {d}, high \cup {d})
  BY <1>2, <1>11, <1>12, <1>13, <1>14, <1>15, <1>17, <1>18 DEF Halves
<1> QED BY <1>11, <1>19 DEF Halved

-----------------------------------------------------------------------------
(* What holds of the percentile plugin between the pipes: below the        *)
(* required number of values all are in maxtree, and from 50 on maxtree is *)
(* not empty above.                                                        *)
Enough(P) == P.Mxc + P.Mnc >= Required(P.p)

PctInv(P, v, A) ==
  /\ P.p \in 10 .. 90 /\ Halved(P, v, A)
  /\ ~Enough(P) => P.Mnc = 0
  /\ P.p >= 50 /\ Enough(P) => P.Mxc >= 1

(* At least two values are required.                                       *)
LEMMA RequiredIs ==
  ASSUME NEW p \in 10 .. 90 PROVE Required(p) \in Nat /\ Required(p) >= 2
<1>1. ASSUME NEW q \in 10 .. 50 PROVE 100 \div q \in Nat /\ 100 \div q >= 2
  <2>1. /\ q \in {10, 11, 12, 13, 14, 15, 16, 17, 18, 19, 20, 21, 22, 23, 24, 25, 26, 27, 28, 29,
                  30, 31, 32, 33, 34, 35, 36, 37, 38, 39, 40, 41, 42, 43, 44, 45, 46, 47, 48, 49,
                  50}
    OBVIOUS
  <2> QED BY <2>1
<1>2. CASE p < 50
  <2>1. Required(p) = 100 \div p /\ p \in 10 .. 50
    BY <1>2 DEF Required
  <2> QED BY <1>1, <2>1
<1>3. CASE ~ (p < 50)
  <2>1. Required(p) = 100 \div (100 - p) /\ 100 - p \in 10 .. 50
    BY <1>3 DEF Required
  <2> QED BY <1>1, <2>1
<1> QED BY <1>2, <1>3

(* One turn of the loop that takes from mintree.                           *)
LEMMA MinTurnIs ==
  ASSUME NEW P, NEW v \in [Cells -> Int], NEW A, Halved(P, v, A), P.p \in 10 .. 90,
         NEW Q, Q = MinTurn(P, v)
  PROVE  /\ Halved(Q, v, A) /\ Q.p = P.p /\ Q.Mxc >= P.Mxc
         /\ P.p >= 50 /\ P.Mxc = 0 /\ P.Mnc >= 2 => Q.Mxc >= 1
<1>1. P.Mxc \in Nat /\ P.Mnc \in Nat
  BY HalvedIs
<1>2. CASE P.Mnc < 1 \/ Exceeds(P, P.Mxc + 1, P.Mnc - 1)
  <2>1. Q = P
    BY <1>2 DEF MinTurn
  <2>2. ~ (P.p >= 50 /\ P.Mxc = 0 /\ P.Mnc >= 2)
    <3> SUFFICES ASSUME P.p >= 50, P.Mxc = 0, P.Mnc >= 2 PROVE FALSE
      OBVIOUS
    <3>1. Exceeds(P, P.Mxc + 1, P.Mnc - 1)
      BY <1>1, <1>2
    <3>2. P.Mnc - 1 # 0 /\ (P.Mxc + 1) * (100 - P.p) = 100 - P.p
      BY <1>1
    <3>3. 100 - P.p > P.p * (P.Mnc - 1)
      BY <3>1, <3>2 DEF Exceeds
    <3>4. P.p * (P.Mnc - 1) >= P.p
      <4>1. \A a, b \in Nat : b >= 1 => a * b >= a
        OBVIOUS
      <4>2. P.p \in Nat /\ P.Mnc - 1 \in Nat /\ P.Mnc - 1 >= 1
        BY <1>1
      <4> QED BY <4>1, <4>2
    <3>5. P.p * (P.Mnc - 1) \in Int
      BY <1>1
    <3> QED BY <3>3, <3>4, <3>5
  <2> QED BY <1>1, <2>1, <2>2
<1>3. CASE ~ (P.Mnc < 1 \/ Exceeds(P, P.Mxc + 1, P.Mnc - 1))
  <2>1. Q = LeastToMaxtree(P, v) /\ P.Mnc >= 1
    BY <1>1, <1>3 DEF MinTurn
  <2>2. Halved(Q, v, A) /\ Q.p = P.p /\ Q.Mxc = P.Mxc + 1
    BY <2>1, LeastToMaxtreeIs
  <2> QED BY <1>1, <2>2
<1> QED BY <1>2, <1>3

(* One turn of the loop that takes from maxtree.                           *)
LEMMA MaxTurnIs ==
  ASSUME NEW P, NEW v \in [Cells -> Int], NEW A, Halved(P, v, A), P.p \in 10 .. 90,
         P.Mxc >= 1, NEW Q, Q = MaxTurn(P, v)
  PROVE  Halved(Q, v, A) /\ Q.p = P.p /\ Q.Mxc >= 1
<1>1. P.Mxc \in Nat /\ P.Mnc \in Nat
  BY HalvedIs
<1>2. CASE P.Mxc < 1 \/ FallsShort(P, P.Mxc - 1, P.Mnc + 1)
  BY <1>2 DEF MaxTurn
<1>3. CASE ~ (P.Mxc < 1 \/ FallsShort(P, P.Mxc - 1, P.Mnc + 1))
  <2>1. Q = GreatestToMintree(P, v)
    BY <1>3 DEF MaxTurn
  <2>2. Halved(Q, v, A) /\ Q.p = P.p /\ Q.Mxc = P.Mxc - 1
    BY <2>1, GreatestToMintreeIs
  <2>3. P.Mxc # 1
    <3> SUFFICES ASSUME P.Mxc = 1 PROVE FALSE
      OBVIOUS
    <3>1. P.Mnc + 1 # 0 /\ (P.Mxc - 1) * (100 - P.p) = 0
      BY <1>1
    <3>2. ~ (0 < P.p * (P.Mnc + 1))
      BY <1>3, <3>1 DEF FallsShort
    <3>3. \A a, b \in Nat : a >= 1 /\ b >= 1 => a * b > 0
      OBVIOUS
    <3>4. P.p \in Nat /\ P.Mnc + 1 \in Nat /\ P.p >= 1 /\ P.Mnc + 1 >= 1
      BY <1>1
    <3>5. P.p * (P.Mnc + 1) > 0
      BY <3>3, <3>4
    <3> QED BY <3>2, <3>5
  <2> QED BY <1>1, <2>2, <2>3
<1> QED BY <1>2, <1>3

(* The loop that takes from mintree: maxtree gets a value if there are any. *)
LEMMA ReduceMinIs ==
  ASSUME NEW P, NEW v \in [Cells -> Int], NEW A, Halved(P, v, A), P.p \in 10 .. 90,
         NEW Q, Q = ReduceMin(P, v)
  PROVE  /\ Halved(Q, v, A) /\ Q.p = P.p
         /\ P.p >= 50 /\ (P.Mxc >= 1 \/ P.Mnc >= 2) => Q.Mxc >= 1
<1>1. P.Mxc \in Nat /\ P.Mnc \in Nat
  BY HalvedIs
<1>2. PICK f : /\ f[0] = P /\ \A k \in 1 .. P.Mnc : f[k] = MinTurn(f[k - 1], v)
               /\ f[P.Mnc] = ReduceMin(P, v)
  BY <1>1, MinTurns
<1> DEFINE Good(k) == /\ Halved(f[k], v, A) /\ f[k].p = P.p
                      /\ P.p >= 50 /\ (P.Mxc >= 1 \/ (k >= 1 /\ P.Mnc >= 2)) => f[k].Mxc >= 1
           G == [k \in 0 .. P.Mnc |-> {R \in {f[k]} : Good(k)}]
<1>3. Good(0)
  BY <1>2
<1>4. ASSUME NEW k \in 1 .. P.Mnc, Good(k - 1) PROVE Good(k)
  <2>1. /\ Halved(f[k], v, A) /\ f[k].p = P.p /\ f[k].Mxc >= f[k - 1].Mxc
        /\ P.p >= 50 /\ f[k - 1].Mxc = 0 /\ f[k - 1].Mnc >= 2 => f[k].Mxc >= 1
    BY <1>2, <1>4, MinTurnIs
  <2>2. f[k].Mxc \in Nat /\ f[k - 1].Mxc \in Nat
    BY <1>4, <2>1, HalvedIs
  <2>3. ASSUME P.p >= 50, P.Mxc >= 1 \/ P.Mnc >= 2 PROVE f[k].Mxc >= 1
    <3>1. CASE P.Mxc >= 1 \/ k # 1
      <4>1. P.Mxc >= 1 \/ (k - 1 >= 1 /\ P.Mnc >= 2)
        BY <2>3, <3>1
      <4>2. f[k - 1].Mxc >= 1
        BY <1>4, <2>3, <4>1
      <4> QED BY <2>1, <2>2, <4>2
    <3>2. CASE ~ (P.Mxc >= 1) /\ k = 1
      <4>1. f[k - 1] = P /\ P.Mxc = 0
        BY <1>1, <1>2, <3>2
      <4> QED BY <2>1, <2>3, <3>2, <4>1
    <3> QED BY <3>1, <3>2
  <2> QED BY <2>1, <2>3
<1> HIDE DEF Good
<1>5. \A k \in 0 .. P.Mnc : f[k] \in G[k]
  <2>1. f[0] \in G[0]
    BY <1>1, <1>3
  <2>2. ASSUME NEW k \in 1 .. P.Mnc, f[k - 1] \in G[k - 1] PROVE f[k] \in G[k]
    <3>1. k \in 0 .. P.Mnc /\ k - 1 \in 0 .. P.Mnc
      BY <1>1
    <3>2. Good(k - 1)
      BY <2>2, <3>1
    <3> QED BY <1>4, <3>1, <3>2
  <2> HIDE DEF G
  <2> QED BY <1>1, <2>1, <2>2, TurnsHold
<1>6. Good(P.Mnc)
  <2>1. P.Mnc \in 0 .. P.Mnc
    BY <1>1
  <2>2. f[P.Mnc] \in G[P.Mnc]
    BY <1>5, <2>1
  <2> QED BY <2>1, <2>2
<1> QED BY <1>1, <1>2, <1>6 DEF Good

(* The loop that takes from maxtree never takes its last value.            *)
LEMMA ReduceMaxIs ==
  ASSUME NEW P, NEW v \in [Cells -> Int], NEW A, Halved(P, v, A), P.p \in 10 .. 90,
         P.Mxc >= 1,
         NEW Q, Q = ReduceMax(P, v)
  PROVE  Halved(Q, v, A) /\ Q.p = P.p /\ Q.Mxc >= 1
<1>1. P.Mxc \in Nat /\ P.Mnc \in Nat
  BY HalvedIs
<1>2. PICK f : /\ f[0] = P /\ \A k \in 1 .. P.Mxc : f[k] = MaxTurn(f[k - 1], v)
               /\ f[P.Mxc] = ReduceMax(P, v)
  BY <1>1, MaxTurns
<1> DEFINE Good(k) == Halved(f[k], v, A) /\ f[k].p = P.p /\ f[k].Mxc >= 1
           G == [k \in 0 .. P.Mxc |-> {R \in {f[k]} : Good(k)}]
<1>3. Good(0)
  BY <1>2
<1>4. ASSUME NEW k \in 1 .. P.Mxc, Good(k - 1) PROVE Good(k)
  BY <1>2, <1>4, MaxTurnIs
<1> HIDE DEF Good
<1>5. \A k \in 0 .. P.Mxc : f[k] \in G[k]
  <2>1. f[0] \in G[0]
    BY <1>1, <1>3
  <2>2. ASSUME NEW k \in 1 .. P.Mxc, f[k - 1] \in G[k - 1] PROVE f[k] \in G[k]
    <3>1. k \in 0 .. P.Mxc /\ k - 1 \in 0 .. P.Mxc
      BY <1>1
    <3>2. Good(k - 1)
      BY <2>2, <3>1
    <3> QED BY <1>4, <3>1, <3>2
  <2> HIDE DEF G
  <2> QED BY <1>1, <2>1, <2>2, TurnsHold
<1>6. Good(P.Mxc)
  <2>1. P.Mxc \in 0 .. P.Mxc
    BY <1>1
  <2>2. f[P.Mxc] \in G[P.Mxc]
    BY <1>5, <2>1
  <2> QED BY <2>1, <2>2
<1> QED BY <1>1, <1>2, <1>6 DEF Good

(* All values go to maxtree.                                               *)
LEMMA AllToMaxtreeIs ==
  ASSUME NEW P, NEW v \in [Cells -> Int], NEW A, Halved(P, v, A),
         NEW Q, Q = AllToMaxtree(P, v)
  PROVE  Halved(Q, v, A) /\ Q.p = P.p /\ Q.Mnc = 0
<1>1. P.Mxc \in Nat /\ P.Mnc \in Nat
  BY HalvedIs
<1>2. PICK f : /\ f[0] = P /\ \A k \in 1 .. P.Mnc : f[k] = LeastToMaxtree(f[k - 1], v)
               /\ f[P.Mnc] = AllToMaxtree(P, v)
  BY <1>1, AllTurns
<1> DEFINE Good(k) == Halved(f[k], v, A) /\ f[k].p = P.p /\ f[k].Mnc = P.Mnc - k
           G == [k \in 0 .. P.Mnc |-> {R \in {f[k]} : Good(k)}]
<1>3. Good(0)
  BY <1>1, <1>2
<1>4. ASSUME NEW k \in 1 .. P.Mnc, Good(k - 1) PROVE Good(k)
  <2>1. f[k - 1].Mnc >= 1 /\ f[k - 1].Mnc = P.Mnc - (k - 1)
    BY <1>1, <1>4
  <2>2. Halved(f[k], v, A) /\ f[k].p = f[k - 1].p /\ f[k].Mnc = f[k - 1].Mnc - 1
    BY <1>2, <1>4, <2>1, LeastToMaxtreeIs
  <2> QED BY <1>1, <1>4, <2>1, <2>2
<1> HIDE DEF Good
<1>5. \A k \in 0 .. P.Mnc : f[k] \in G[k]
  <2>1. f[0] \in G[0]
    BY <1>1, <1>3
  <2>2. ASSUME NEW k \in 1 .. P.Mnc, f[k - 1] \in G[k - 1] PROVE f[k] \in G[k]
    <3>1. k \in 0 .. P.Mnc /\ k - 1 \in 0 .. P.Mnc
      BY <1>1
    <3>2. Good(k - 1)
      BY <2>2, <3>1
    <3> QED BY <1>4, <3>1, <3>2
  <2> HIDE DEF G
  <2> QED BY <1>1, <2>1, <2>2, TurnsHold
<1>6. Good(P.Mnc)
  <2>1. P.Mnc \in 0 .. P.Mnc
    BY <1>1
  <2>2. f[P.Mnc] \in G[P.Mnc]
    BY <1>5, <2>1
  <2> QED BY <2>1, <2>2
<1> QED BY <1>1, <1>2, <1>6 DEF Good

(* _swpercentile_balancer.                                                 *)
LEMMA BalancedIs ==
  ASSUME NEW P, NEW v \in [Cells -> Int], NEW A, Halved(P, v, A), P.p \in 10 .. 90,
         ~Enough(P) => P.Mnc = 0, NEW Q, Q = Balanced(P, v)
  PROVE  PctInv(Q, v, A) /\ Q.p = P.p
<1>1. /\ P.Mxc \in Nat /\ P.Mnc \in Nat /\ P.Mxc + P.Mnc = Cardinality(A)
      /\ Required(P.p) \in Nat /\ Required(P.p) >= 2
  BY HalvedIs, RequiredIs
<1>2. CASE ~Enough(P)
  <2>1. P.Mxc + P.Mnc < Required(P.p)
    BY <1>1, <1>2 DEF Enough
  <2>2. Q = P
    BY <2>1 DEF Balanced
  <2> QED BY <1>2, <2>2 DEF PctInv
<1>3. ASSUME Enough(P) PROVE Halved(Q, v, A) /\ Q.p = P.p /\ (P.p >= 50 => Q.Mxc >= 1)
  <2>1. P.Mxc + P.Mnc >= 2 /\ ~ (P.Mxc + P.Mnc < Required(P.p))
    BY <1>1, <1>3 DEF Enough
  <2>2. CASE P.Mnc = 0 \/ (P.Mxc # 0 /\ Exceeds(P, P.Mxc, P.Mnc))
    <3>1. Q = ReduceMax(P, v)
      BY <2>1, <2>2 DEF Balanced
    <3>2. P.Mxc >= 1
      BY <1>1, <2>1, <2>2
    <3> QED BY <3>1, <3>2, ReduceMaxIs
  <2>3. CASE ~ (P.Mnc = 0 \/ (P.Mxc # 0 /\ Exceeds(P, P.Mxc, P.Mnc)))
    <3>1. Q = ReduceMin(P, v)
      BY <2>1, <2>3 DEF Balanced
    <3>2. P.Mxc >= 1 \/ P.Mnc >= 2
      BY <1>1, <2>1
    <3> QED BY <3>1, <3>2, ReduceMinIs
  <2> QED BY <2>2, <2>3
<1>4. CASE Enough(P)
  <2>1. Halved(Q, v, A) /\ Q.p = P.p /\ (P.p >= 50 => Q.Mxc >= 1)
    BY <1>3, <1>4
  <2>2. Q.Mxc + Q.Mnc = Cardinality(A)
    BY <2>1, HalvedIs
  <2>3. Enough(Q)
    BY <1>1, <1>4, <2>1, <2>2 DEF Enough
  <2> QED BY <2>1, <2>3 DEF PctInv
<1> QED BY <1>2, <1>4

(* One tree grown by one value.                                            *)
IntoMax(P, mx) == [P EXCEPT !.maxtree = mx, !.Mxc = @ + 1]
IntoMin(P, mn) == [P EXCEPT !.mintree = mn, !.Mnc = @ + 1]

(* What a value more leaves, in maxtree.                                   *)
LEMMA PctIntoMax ==
  ASSUME NEW P, PctRec(P), NEW mx, NEW Q, Q = IntoMax(P, mx)
  PROVE  /\ PctRec(Q) /\ Q.p = P.p /\ Q.mintree = P.mintree /\ Q.maxtree = mx
         /\ Q.Mnc = P.Mnc /\ Q.Mxc = P.Mxc + 1
<1>1. P = [p |-> P.p, mintree |-> P.mintree, maxtree |-> P.maxtree, Mxc |-> P.Mxc, Mnc |-> P.Mnc]
      /\ P.Mxc \in Int /\ P.Mnc \in Int
  BY DEF PctRec
<1>2. Q = [p |-> P.p, mintree |-> P.mintree, maxtree |-> mx, Mxc |-> P.Mxc + 1, Mnc |-> P.Mnc]
  BY <1>1 DEF IntoMax
<1> QED BY <1>1, <1>2 DEF PctRec

(* What a value more leaves, in mintree.                                   *)
LEMMA PctIntoMin ==
  ASSUME NEW P, PctRec(P), NEW mn, NEW Q, Q = IntoMin(P, mn)
  PROVE  /\ PctRec(Q) /\ Q.p = P.p /\ Q.mintree = mn /\ Q.maxtree = P.maxtree
         /\ Q.Mnc = P.Mnc + 1 /\ Q.Mxc = P.Mxc
<1>1. P = [p |-> P.p, mintree |-> P.mintree, maxtree |-> P.maxtree, Mxc |-> P.Mxc, Mnc |-> P.Mnc]
      /\ P.Mxc \in Int /\ P.Mnc \in Int
  BY DEF PctRec
<1>2. Q = [p |-> P.p, mintree |-> mn, maxtree |-> P.maxtree, Mxc |-> P.Mxc, Mnc |-> P.Mnc + 1]
  BY <1>1 DEF IntoMin
<1> QED BY <1>1, <1>2 DEF PctRec

(* The percentile plugin's add pipe, for a value that is new.              *)
LEMMA PctAddIs ==
  ASSUME NEW P, NEW v \in [Cells -> Int], NEW A, PctInv(P, v, A), ~ReadsNull(P),
         NEW y \in [Cells -> Int], \A a \in A : y[a] = v[a],
         NEW d \in Cells, \A a \in A : y[a] # y[d], NEW Q, Q = PctAdd(P, y, d)
  PROVE  PctInv(Q, y, A \cup {d}) /\ Q.p = P.p
<1>1. /\ PctRec(P) /\ P.p \in 10 .. 90
      /\ P.Mxc \in Nat /\ P.Mnc \in Nat /\ Required(P.p) \in Nat /\ IsFiniteSet(A)
      /\ ~Enough(P) => P.Mnc = 0
  BY HalvedIs, RequiredIs DEF PctInv, Halved
<1>2. PICK low, high : Halves(P, v, A, low, high)
  BY DEF PctInv, Halved
<1>3. /\ Plain(P.maxtree, y, low) /\ Plain(P.mintree, y, high)
      /\ low \cup high = A
      /\ \A a \in low, b \in high : y[a] < y[b]
      /\ P.Mxc = Cardinality(low) /\ P.Mnc = Cardinality(high)
  <2>1. \A a \in low : y[a] = v[a]
    BY <1>2 DEF Halves
  <2>2. \A a \in high : y[a] = v[a]
    BY <1>2 DEF Halves
  <2> QED BY <1>2, <2>1, <2>2, PlainStored DEF Halves
<1>4. /\ low \subseteq Cells /\ high \subseteq Cells /\ IsFiniteSet(low) /\ IsFiniteSet(high)
      /\ d \notin low /\ d \notin high
  <2>1. low \subseteq Cells /\ high \subseteq Cells
    BY <1>3 DEF Plain, Ones
  <2>2. IsFiniteSet(low) /\ IsFiniteSet(high)
    BY <1>3, PlainIs
  <2> QED BY <1>3, <2>1, <2>2
<1> DEFINE t == TopData(P.maxtree)
<1>5. /\ low # {} => t \in low
      /\ low = {} => t = NIL
      /\ \A a \in low : y[a] <= y[t]
  BY <1>3, PlainEnds
<1>6. CASE ToMaxtree(P, y, d)
  <2>1. PICK R, mx : mx = Insert(P.maxtree, y, d, 1) /\ R = IntoMax(P, mx)
    OBVIOUS
  <2>2. Q = Balanced(R, y)
    BY <1>1, <1>6, <2>1 DEF PctAdd, IntoMax
  <2>3. /\ PctRec(R) /\ R.p = P.p /\ R.mintree = P.mintree /\ R.maxtree = mx
        /\ R.Mnc = P.Mnc /\ R.Mxc = P.Mxc + 1
    BY <1>1, <2>1, PctIntoMax
  <2>4. Plain(mx, y, low \cup {d})
    BY <1>3, <2>1, PlainInsert
  <2>5. ASSUME NEW b \in high PROVE y[d] < y[b]
    <3>1. Enough(P)
      <4> SUFFICES ASSUME ~Enough(P) PROVE FALSE
        OBVIOUS
      <4>1. Cardinality(high) = 0
        BY <1>1, <1>3
      <4> QED BY <1>4, <4>1, FS_EmptySet
    <3>2. y[d] <= y[t] /\ t # NIL
      BY <1>1, <1>6, <3>1 DEF ToMaxtree, Enough, ReadsNull
    <3>3. y[t] < y[b] /\ y[t] \in Int /\ y[b] \in Int /\ y[d] \in Int
      BY <1>3, <1>4, <1>5, <3>2
    <3> QED BY <3>2, <3>3
  <2>6. Cardinality(low \cup {d}) = Cardinality(low) + 1
    BY <1>4, FS_AddElement
  <2>7. Halves(R, y, A \cup {d}, low \cup {d}, high)
    BY <1>3, <2>3, <2>4, <2>5, <2>6 DEF Halves
  <2>8. Halved(R, y, A \cup {d})
    BY <2>3, <2>7 DEF Halved
  <2>9. ASSUME ~Enough(R) PROVE R.Mnc = 0
    <3>1. ~Enough(P)
      BY <1>1, <2>3, <2>9 DEF Enough
    <3> QED BY <1>1, <2>3, <3>1
  <2> QED BY <1>1, <2>2, <2>3, <2>8, <2>9, BalancedIs
<1>7. CASE ~ToMaxtree(P, y, d)
  <2>1. PICK R, mn : mn = Insert(P.mintree, y, d, 1) /\ R = IntoMin(P, mn)
    OBVIOUS
  <2>2. Q = Balanced(R, y)
    BY <1>1, <1>7, <2>1 DEF PctAdd, IntoMin
  <2>3. /\ PctRec(R) /\ R.p = P.p /\ R.mintree = mn /\ R.maxtree = P.maxtree
        /\ R.Mnc = P.Mnc + 1 /\ R.Mxc = P.Mxc
    BY <1>1, <2>1, PctIntoMin
  <2>4. Plain(mn, y, high \cup {d})
    BY <1>3, <2>1, PlainInsert
  <2>5. ASSUME NEW a \in low PROVE y[a] < y[d]
    <3>1. ~ (y[d] <= y[t]) /\ y[a] <= y[t]
      BY <1>5, <1>7 DEF ToMaxtree
    <3>2. y[t] \in Int /\ y[a] \in Int /\ y[d] \in Int
      BY <1>4, <1>5
    <3> QED BY <3>1, <3>2
  <2>6. Cardinality(high \cup {d}) = Cardinality(high) + 1
    BY <1>4, FS_AddElement
  <2>7. Halves(R, y, A \cup {d}, low, high \cup {d})
    BY <1>3, <2>3, <2>4, <2>5, <2>6 DEF Halves
  <2>8. Halved(R, y, A \cup {d})
    BY <2>3, <2>7 DEF Halved
  <2>9. Enough(R)
    BY <1>1, <1>7, <2>3 DEF ToMaxtree, Enough
  <2> QED BY <1>1, <2>2, <2>3, <2>8, <2>9, BalancedIs
<1> QED BY <1>6, <1>7

(* The percentile plugin's rem pipe, for a value that is there.            *)
LEMMA PctRemIs ==
  ASSUME NEW P, NEW v \in [Cells -> Int], NEW A, PctInv(P, v, A), NEW d \in A,
         NEW Q, Q = PctRem(P, v, d)
  PROVE  PctInv(Q, v, A \ {d}) /\ Q.p = P.p
<1>1. /\ PctRec(P) /\ P.p \in 10 .. 90 /\ Halved(P, v, A)
      /\ P.Mxc \in Nat /\ P.Mnc \in Nat /\ Required(P.p) \in Nat
      /\ A \subseteq Cells /\ \A a, b \in A : v[a] = v[b] => a = b
  BY HalvedIs, RequiredIs DEF PctInv, Halved
<1>2. PICK low, high : Halves(P, v, A, low, high)
  BY DEF PctInv, Halved
<1>3. /\ Plain(P.maxtree, v, low) /\ Plain(P.mintree, v, high)
      /\ low \cup high = A
      /\ \A a \in low, b \in high : v[a] < v[b]
  BY <1>2 DEF Halves
<1>4. PICK mx, mn : mx = Deref(P.maxtree, v, d) /\ mn = Deref(P.mintree, v, d)
  OBVIOUS
<1>5. Plain(mx, v, low \ {d})
  <2>1. CASE d \in low
    BY <1>3, <1>4, <2>1, PlainDeref
  <2>2. CASE d \notin low
    <3>1. mx = P.maxtree
      BY <1>1, <1>3, <1>4, <2>2, PlainMissing
    <3>2. low \ {d} = low
      BY <2>2
    <3> QED BY <1>3, <3>1, <3>2
  <2> QED BY <2>1, <2>2
<1>6. Plain(mn, v, high \ {d})
  <2>1. CASE d \in high
    BY <1>3, <1>4, <2>1, PlainDeref
  <2>2. CASE d \notin high
    <3>1. mn = P.mintree
      BY <1>1, <1>3, <1>4, <2>2, PlainMissing
    <3>2. high \ {d} = high
      BY <2>2
    <3> QED BY <1>3, <3>1, <3>2
  <2> QED BY <2>1, <2>2
<1>7. /\ Refnum(mx) = Cardinality(low \ {d}) /\ Refnum(mn) = Cardinality(high \ {d})
      /\ Refnum(mx) \in Int /\ Refnum(mn) \in Int
  <2>1. Refnum(mx) = Cardinality(low \ {d}) /\ Cardinality(low \ {d}) \in Nat
    BY <1>5, PlainIs
  <2>2. Refnum(mn) = Cardinality(high \ {d}) /\ Cardinality(high \ {d}) \in Nat
    BY <1>6, PlainIs
  <2> QED BY <2>1, <2>2
<1>8. PICK R : R = With(P, mn, mx, Refnum(mn), Refnum(mx))
  OBVIOUS
<1>9. /\ PctRec(R) /\ R.p = P.p /\ R.mintree = mn /\ R.maxtree = mx
      /\ R.Mnc = Refnum(mn) /\ R.Mxc = Refnum(mx)
  BY <1>1, <1>7, <1>8, PctSet
<1>10. Halves(R, v, A \ {d}, low \ {d}, high \ {d})
  BY <1>3, <1>5, <1>6, <1>7, <1>9 DEF Halves
<1>11. Halved(R, v, A \ {d})
  BY <1>9, <1>10 DEF Halved
<1>12. Q = Balanced(IF R.Mxc + R.Mnc < Required(P.p) THEN AllToMaxtree(R, v) ELSE R, v)
  BY <1>1, <1>4, <1>8 DEF PctRem, With
<1>13. /\ R.Mxc \in Nat /\ R.Mnc \in Nat /\ R.Mxc + R.Mnc = Cardinality(A \ {d})
  BY <1>11, HalvedIs
<1>14. CASE R.Mxc + R.Mnc < Required(P.p)
  <2>1. PICK U : U = AllToMaxtree(R, v)
    OBVIOUS
  <2>2. Halved(U, v, A \ {d}) /\ U.p = P.p /\ U.Mnc = 0
    BY <1>9, <1>11, <2>1, AllToMaxtreeIs
  <2>3. Q = Balanced(U, v)
    BY <1>12, <1>14, <2>1
  <2> QED BY <1>1, <2>2, <2>3, BalancedIs
<1>15. CASE ~ (R.Mxc + R.Mnc < Required(P.p))
  <2>1. Q = Balanced(R, v)
    BY <1>12, <1>15
  <2>2. Enough(R)
    BY <1>1, <1>9, <1>13, <1>15 DEF Enough
  <2> QED BY <1>1, <1>9, <1>11, <2>1, <2>2, BalancedIs
<1> QED BY <1>14, <1>15

-----------------------------------------------------------------------------
(* The minmax and the sum plugin have followed the window of S, the        *)
(* storage being v with the next cell next.                                *)
ItemsOf(S, v, next) ==
  /\ Ring(S.window, next)
  /\ MinMaxOf(S.minmax, S.window, v)
  /\ SumIs(v, S.window, S.sum)

(* And so has the percentile plugin, which is one for the percentile p.    *)
PctOf(p, S, v) ==
  S.pct.p = p /\ (p # 0 => PctInv(S.pct, v, CellsOf(S.window)))

(* The inductive invariant.                                                *)
WindowInv ==
  /\ crash = 0 => /\ storage \in [Cells -> Int]
                  /\ ItemsOf(WindowItems, storage, nextCell)
                  /\ stat = StatOf(minmax)
  /\ twice = 0 /\ pct.p # 0 => /\ pct.p >= 50 => crash # 1
                               /\ crash = 0 => PctInv(pct, storage, CellsOf(window))

(* What it says while the window is followed.                              *)
LEMMA GoesIs ==
  ASSUME WindowInv, Goes
  PROVE  /\ crash = 0 /\ storage \in [Cells -> Int] /\ stat = StatOf(minmax)
         /\ ItemsOf(WindowItems, storage, nextCell) /\ PctOf(pct.p, WindowItems, storage)
<1>1. /\ crash = 0 /\ storage \in [Cells -> Int] /\ stat = StatOf(minmax)
      /\ ItemsOf(WindowItems, storage, nextCell)
  BY DEF Goes, WindowInv
<1>2. pct.p # 0 => PctInv(pct, storage, CellsOf(window))
  BY DEF Goes, WindowInv
<1>3. WindowItems.pct = pct /\ WindowItems.window = window
  BY DEF WindowItems
<1> QED BY <1>1, <1>2, <1>3 DEF PctOf

(* _slidingwindow_rem.                                                     *)
LEMMA LeavesIs ==
  ASSUME storage \in [Cells -> Int], NEW S, ItemsOf(S, storage, nextCell), S.window # <<>>
  PROVE  /\ ItemsOf(Leaves(S), storage, nextCell)
         /\ Len(Leaves(S).window) = Len(S.window) - 1
<1> DEFINE d == S.window[1].cell
<1>1. PICK U : U = Leaves(S)
  OBVIOUS
<1>2. /\ U.window = Tail(S.window) /\ U.minmax = MinMaxRem(S.minmax, storage, d)
      /\ U.sum = S.sum - storage[d]
  BY <1>1 DEF Leaves, SumRem
<1>3. Ring(S.window, nextCell) /\ MinMaxOf(S.minmax, S.window, storage)
      /\ SumIs(storage, S.window, S.sum)
  BY DEF ItemsOf
<1>4. Ring(Tail(S.window), nextCell) /\ Len(Tail(S.window)) = Len(S.window) - 1
  BY <1>3, RingTail
<1>5. MinMaxOf(MinMaxRem(S.minmax, storage, d), Tail(S.window), storage)
  BY <1>3, MinMaxRemIs
<1>6. SumIs(storage, Tail(S.window), S.sum - storage[d])
  BY <1>3, SumTail
<1>7. ItemsOf(U, storage, nextCell)
  BY <1>2, <1>4, <1>5, <1>6 DEF ItemsOf
<1> QED BY <1>1, <1>2, <1>4, <1>7

(* The percentile plugin's part.                                           *)
LEMMA LeavesPct ==
  ASSUME storage \in [Cells -> Int], NEW S, Ring(S.window, nextCell), S.window # <<>>,
         NEW p, PctOf(p, S, storage)
  PROVE  PctOf(p, Leaves(S), storage)
<1> DEFINE d == S.window[1].cell
<1>1. PICK U : U = Leaves(S)
  OBVIOUS
<1>2. U.window = Tail(S.window) /\ U.pct = PctRem(S.pct, storage, d)
  BY <1>1 DEF Leaves
<1>3. CellsOf(U.window) = CellsOf(S.window) \ {d} /\ d \in CellsOf(S.window)
  BY <1>2, RingTail
<1> HIDE DEF d
<1>4. CASE p = 0
  <2>1. U.pct = S.pct
    BY <1>2, <1>4 DEF PctRem, PctOf
  <2> QED BY <1>1, <1>4, <2>1 DEF PctOf
<1>5. CASE p # 0
  <2>1. PctInv(S.pct, storage, CellsOf(S.window)) /\ S.pct.p = p
    BY <1>5 DEF PctOf
  <2>2. PctInv(U.pct, storage, CellsOf(S.window) \ {d}) /\ U.pct.p = S.pct.p
    BY <1>2, <1>3, <2>1, PctRemIs
  <2> QED BY <1>1, <1>3, <2>1, <2>2 DEF PctOf
<1> QED BY <1>4, <1>5

(* Some of the items leave, one by one.                                    *)
LEMMA WithoutIs ==
  ASSUME storage \in [Cells -> Int], ItemsOf(WindowItems, storage, nextCell),
         NEW p, PctOf(p, WindowItems, storage), NEW n \in 0 .. Len(window)
  PROVE  /\ ItemsOf(Without(n), storage, nextCell) /\ PctOf(p, Without(n), storage)
         /\ Len(Without(n).window) = Len(window) - n
<1>1. n \in Nat /\ WindowItems.window = window /\ window \in Seq([cell : Cells, age : Nat])
  BY DEF WindowItems, ItemsOf, Ring
<1>2. PICK f : /\ f[0] = WindowItems /\ \A k \in 1 .. n : f[k] = Leaves(f[k - 1])
               /\ f[n] = Times(n, Leaves, WindowItems)
  BY <1>1, LeavesTurns
<1> DEFINE Good(k) == /\ ItemsOf(f[k], storage, nextCell) /\ PctOf(p, f[k], storage)
                      /\ Len(f[k].window) = Len(window) - k
           P == [k \in 0 .. n |-> {S \in {f[k]} : Good(k)}]
<1>3. Good(0)
  BY <1>1, <1>2
<1>4. ASSUME NEW k \in 1 .. n, Good(k - 1) PROVE Good(k)
  <2>1. f[k - 1].window # <<>>
    <3>1. Len(f[k - 1].window) # 0
      BY <1>1, <1>4
    <3> QED BY <3>1
  <2>2. ItemsOf(Leaves(f[k - 1]), storage, nextCell)
        /\ Len(Leaves(f[k - 1]).window) = Len(f[k - 1].window) - 1
    BY <1>4, <2>1, LeavesIs
  <2>4. PctOf(p, Leaves(f[k - 1]), storage)
    BY <1>4, <2>1, LeavesPct DEF ItemsOf
  <2>3. f[k] = Leaves(f[k - 1])
    BY <1>2
  <2> QED BY <1>1, <1>4, <2>2, <2>3, <2>4
<1> HIDE DEF Good
<1>5. \A k \in 0 .. n : f[k] \in P[k]
  <2>1. f[0] \in P[0]
    BY <1>1, <1>3
  <2>2. ASSUME NEW k \in 1 .. n, f[k - 1] \in P[k - 1] PROVE f[k] \in P[k]
    <3>1. k \in 0 .. n /\ k - 1 \in 0 .. n
      BY <1>1
    <3>2. Good(k - 1)
      BY <2>2, <3>1
    <3> QED BY <1>4, <3>1, <3>2
  <2> HIDE DEF P
  <2> QED BY <1>1, <2>1, <2>2, TurnsHold
<1>6. Good(n)
  BY <1>1, <1>5
<1> QED BY <1>2, <1>6 DEF Good, Without

(* The invariant says what PluginsFollow does.                             *)
LEMMA WindowInvFollows == WindowInv => PluginsFollow
<1> SUFFICES ASSUME WindowInv, crash = 0
             PROVE  PluginsFollow
  BY DEF PluginsFollow
<1>1. /\ Ring(window, nextCell) /\ MinMaxOf(minmax, window, storage)
      /\ SumIs(storage, window, sum)
      /\ storage \in [Cells -> Int] /\ stat = StatOf(minmax)
  BY DEF WindowInv, ItemsOf, WindowItems
<1>2. window \in Seq([cell : Cells, age : Nat]) /\ Len(window) <= NumLimit
  BY <1>1 DEF Ring
<1>3. sum = WindowSum
  BY <1>1, <1>2, WindowSumIs
<1>4. InWindow = CellsOf(window)
  BY DEF InWindow, CellsOf
<1>5. \A n \in DOMAIN minmax.node : minmax.node[n].data \in CellsOf(window)
  BY <1>1, MinMaxHas
<1>6. DataOf(minmax) \subseteq InWindow
  BY <1>4, <1>5 DEF DataOf
<1>7. \A n \in DOMAIN minmax.node : minmax.node[n].ref = Count(storage[minmax.node[n].data])
  BY <1>1, <1>4 DEF MinMaxOf, Count, CountOf, Alike
<1>8. \A c \in InWindow : storage[c] \in {storage[d] : d \in DataOf(minmax)}
  BY <1>1, <1>4 DEF MinMaxOf, DataOf
<1>9. /\ DOMAIN minmax.node = {} => TopData(minmax) = NIL /\ BottomData(minmax) = NIL
      /\ DOMAIN minmax.node # {} =>
           /\ \E n \in DOMAIN minmax.node : TopData(minmax) = minmax.node[n].data
           /\ \E n \in DOMAIN minmax.node : BottomData(minmax) = minmax.node[n].data
      /\ \A n \in DOMAIN minmax.node :
           /\ storage[minmax.node[n].data] <= storage[TopData(minmax)]
           /\ storage[BottomData(minmax)] <= storage[minmax.node[n].data]
  BY <1>1, KeptEnds DEF MinMaxOf
<1>10. stat.min = BottomData(minmax) /\ stat.max = TopData(minmax)
       /\ stat = [min |-> BottomData(minmax), max |-> TopData(minmax)]
  BY <1>1 DEF StatOf
<1>11. ASSUME window = <<>> PROVE stat = [min |-> NIL, max |-> NIL]
  <2>1. CellsOf(window) = {}
    BY <1>11 DEF CellsOf
  <2>2. DOMAIN minmax.node = {}
    BY <1>5, <2>1
  <2> QED BY <1>9, <1>10, <2>2
<1>12. ASSUME window # <<>>
       PROVE  /\ {stat.min, stat.max} \subseteq InWindow
              /\ \A c \in InWindow : storage[stat.min] <= storage[c] /\ storage[c] <= storage[stat.max]
  <2>1. 1 \in 1 .. Len(window)
    BY <1>2, <1>12
  <2>2. window[1].cell \in CellsOf(window)
    BY <2>1 DEF CellsOf
  <2>3. DOMAIN minmax.node # {}
    BY <1>1, <2>2 DEF MinMaxOf
  <2>4. stat.min \in InWindow /\ stat.max \in InWindow
    BY <1>4, <1>5, <1>9, <1>10, <2>3
  <2>5. ASSUME NEW c \in InWindow
        PROVE  storage[stat.min] <= storage[c] /\ storage[c] <= storage[stat.max]
    <3>1. PICK n \in DOMAIN minmax.node : storage[minmax.node[n].data] = storage[c]
      BY <1>1, <1>4 DEF MinMaxOf
    <3> QED BY <1>9, <1>10, <3>1
  <2> QED BY <2>4, <2>5
<1> QED BY <1>2, <1>3, <1>6, <1>7, <1>8, <1>11, <1>12 DEF PluginsFollow

(* The window as slidingwindow_ctor leaves it.                             *)
LEMMA WindowInitInv == WindowInit => WindowInv
<1> SUFFICES ASSUME WindowInit PROVE WindowInv
  OBVIOUS
<1>1. /\ window = <<>> /\ nextCell = 1 /\ storage = [c \in Cells |-> 0]
      /\ minmax = EmptyTree /\ stat = [min |-> NIL, max |-> NIL] /\ sum = 0
  BY DEF WindowInit
<1>2. storage \in [Cells -> Int] /\ nextCell \in Cells
  BY <1>1, WindowAssumption DEF Cells
<1>3. Ring(window, nextCell)
  BY <1>1, <1>2, WindowAssumption DEF Ring
<1>4. Kept(minmax, storage) /\ DOMAIN minmax.node = {}
  BY <1>1, EmptyKept
<1>5. MinMaxOf(minmax, window, storage)
  <2>1. CellsOf(window) = {}
    BY <1>1 DEF CellsOf
  <2> QED BY <1>4, <2>1 DEF MinMaxOf
<1>6. SumIs(storage, window, sum)
  <2> DEFINE g == [k \in 0 .. 0 |-> 0]
  <2>1. Len(window) = 0
    BY <1>1
  <2>2. SumsTo(storage, window, g) /\ g[Len(window)] = sum
    BY <1>1, <2>1 DEF SumsTo
  <2> QED BY <2>2 DEF SumIs
<1>7. stat = StatOf(minmax)
  BY <1>1, <1>4, KeptEnds DEF StatOf
<1>8. CellsOf(window) = {}
  BY <1>1 DEF CellsOf
<1>9. ASSUME pct.p # 0 PROVE PctInv(pct, storage, CellsOf(window))
  <2>1. PICK p \in Percentiles : pct = NewPlugin(p)
    BY DEF WindowInit
  <2>2. /\ pct.p = p /\ pct.mintree = EmptyTree /\ pct.maxtree = EmptyTree
        /\ pct.Mxc = 0 /\ pct.Mnc = 0 /\ PctRec(pct)
    BY <2>1 DEF NewPlugin, PctRec
  <2>3. p \in 10 .. 90
    BY <1>9, <2>2, WindowAssumption
  <2>4. Plain(EmptyTree, storage, {}) /\ Cardinality({}) = 0
    BY PlainEmpty, FS_EmptySet
  <2>5. Halves(pct, storage, {}, {}, {})
    BY <2>2, <2>4 DEF Halves
  <2>6. Halved(pct, storage, {})
    BY <2>2, <2>5 DEF Halved
  <2>7. ~Enough(pct)
    BY <2>2, <2>3, RequiredIs DEF Enough
  <2> QED BY <1>8, <2>2, <2>3, <2>6, <2>7 DEF PctInv
<1>10. crash = 0
  BY DEF WindowInit
<1>11. ItemsOf(WindowItems, storage, nextCell)
  BY <1>3, <1>5, <1>6 DEF ItemsOf, WindowItems
<1> QED BY <1>2, <1>7, <1>9, <1>10, <1>11 DEF WindowInv

(* slidingwindow_add_int.                                                  *)
LEMMA AddIntInv ==
  ASSUME WindowInv, NEW x \in Values, AddInt(x) PROVE WindowInv'
<1>1. /\ crash = 0 /\ storage \in [Cells -> Int] /\ ItemsOf(WindowItems, storage, nextCell)
      /\ PctOf(pct.p, WindowItems, storage)
  BY GoesIs DEF AddInt
<1>2. Ring(window, nextCell) /\ x \in Int /\ nextCell \in Cells
  BY <1>1, WindowAssumption DEF ItemsOf, WindowItems, Ring
<1>3. PICK S, v :
        /\ S = Without(Obsolete(window)) /\ v = Stored(x)
        /\ twice' = IF \E i \in 1 .. Len(S.window) : storage[S.window[i].cell] = x
                      THEN 1 ELSE twice
        /\ IF ReadsNull(S.pct)
             THEN crash' = 1 /\ UNCHANGED <<window, storage, nextCell, minmax, stat, sum, pct>>
             ELSE /\ storage' = v
                  /\ nextCell' = Following(nextCell)
                  /\ Takes(Append(S.window, [cell |-> nextCell, age |-> 0]),
                           MinMaxAdd(S.minmax, v, nextCell),
                           SumAdd(S.sum, x),
                           PctAdd(S.pct, v, nextCell))
                  /\ UNCHANGED crash
  BY DEF AddInt
<1>4. /\ ItemsOf(S, storage, nextCell) /\ PctOf(pct.p, S, storage)
      /\ Len(S.window) < NumLimit
  BY <1>1, <1>2, <1>3, ObsoleteIs, WithoutIs
<1>5. CASE ReadsNull(S.pct)
  <2>1. crash' = 1 /\ UNCHANGED <<storage, pct>>
    BY <1>3, <1>5
  <2>2. ASSUME pct.p # 0, pct.p >= 50 PROVE FALSE
    <3>1. PctInv(S.pct, storage, CellsOf(S.window)) /\ S.pct.p = pct.p
      BY <1>4, <2>2 DEF PctOf
    <3>2. Enough(S.pct) /\ TopData(S.pct.maxtree) = NIL
      BY <1>5 DEF ReadsNull, Enough
    <3>3. S.pct.Mxc > 0
      BY <1>1, <2>2, <3>1, <3>2, HalvedIs DEF PctInv
    <3>4. TopData(S.pct.maxtree) # NIL
      BY <1>1, <3>1, <3>3, HalvedIs DEF PctInv
    <3> QED BY <3>2, <3>4
  <2> QED BY <2>1, <2>2 DEF WindowInv
<1>6. CASE ~ReadsNull(S.pct)
  <2> DEFINE u == Append(S.window, NewItem(nextCell))
  <2>1. /\ storage' = v /\ nextCell' = Following(nextCell) /\ window' = u
        /\ minmax' = MinMaxAdd(S.minmax, v, nextCell) /\ stat' = StatOf(minmax')
        /\ sum' = S.sum + x /\ pct' = PctAdd(S.pct, v, nextCell) /\ crash' = 0
    BY <1>1, <1>3, <1>6 DEF Takes, SumAdd, NewItem
  <2>3. v \in [Cells -> Int] /\ v[nextCell] = x /\ \A c \in Cells : c # nextCell => v[c] = storage[c]
    BY <1>1, <1>2, <1>3 DEF Stored
  <2>4. Appended(S.window, nextCell, u, storage, v)
    <3>1. Ring(S.window, nextCell)
      BY <1>4 DEF ItemsOf
    <3>2. \A c \in CellsOf(S.window) : v[c] = storage[c]
      BY <2>3, <3>1, RingIs
    <3> QED BY <1>4, <3>1, <3>2 DEF Appended
  <2> HIDE DEF u
  <2>5. Ring(u, Following(nextCell))
    BY <2>4, RingAppend DEF Appended
  <2>6. MinMaxOf(MinMaxAdd(S.minmax, v, nextCell), u, v)
    BY <1>4, <2>3, <2>4, MinMaxAddIs DEF ItemsOf
  <2>7. SumIs(v, u, S.sum + x)
    BY <1>4, <2>3, <2>4, SumAppend DEF ItemsOf
  <2>8. ItemsOf(WindowItems, storage, nextCell)'
    BY <2>1, <2>5, <2>6, <2>7 DEF ItemsOf, WindowItems
  <2>9. ASSUME twice' = 0, pct'.p # 0 PROVE PctInv(pct', v, CellsOf(u))
    <3>1. pct.p # 0
      <4> SUFFICES ASSUME pct.p = 0 PROVE FALSE
        OBVIOUS
      <4>1. S.pct.p = 0
        BY <1>4 DEF PctOf
      <4>2. pct' = S.pct
        BY <2>1, <4>1 DEF PctAdd
      <4> QED BY <2>9, <4>1, <4>2
    <3>2. PctInv(S.pct, storage, CellsOf(S.window))
      BY <1>4, <3>1 DEF PctOf
    <3>3. \A c \in CellsOf(S.window) : v[c] = storage[c] /\ v[c] # v[nextCell]
      <4>1. \A i \in 1 .. Len(S.window) : storage[S.window[i].cell] # x
        BY <1>3, <2>9
      <4>2. \A c \in CellsOf(S.window) : storage[c] # x
        BY <4>1 DEF CellsOf
      <4> QED BY <2>3, <2>4, <4>2 DEF Appended
    <3>4. PctInv(PctAdd(S.pct, v, nextCell), v, CellsOf(S.window) \cup {nextCell})
      BY <1>1, <1>2, <1>6, <2>3, <3>2, <3>3, PctAddIs
    <3>5. CellsOf(u) = CellsOf(S.window) \cup {nextCell}
      <4>1. Ring(S.window, nextCell) /\ u = Append(S.window, NewItem(nextCell))
        BY <2>4 DEF Appended
      <4> QED BY <1>4, <4>1, RingAppend
    <3> QED BY <2>1, <3>4, <3>5
  <2>10. twice' = 0 /\ pct'.p # 0 => PctInv(pct', storage', CellsOf(window'))
    BY <2>1, <2>9
  <2> QED BY <2>1, <2>3, <2>8, <2>10 DEF WindowInv
<1> QED BY <1>5, <1>6

(* slidingwindow_refresh and slidingwindow_clear.                          *)
LEMMA DropsInv ==
  ASSUME WindowInv, NEW n \in 0 .. Len(window), Drops(n) PROVE WindowInv'
<1>1. /\ crash = 0 /\ storage \in [Cells -> Int] /\ ItemsOf(WindowItems, storage, nextCell)
      /\ PctOf(pct.p, WindowItems, storage) /\ Goes
  BY GoesIs DEF Drops
<1>2. PICK S : S = Without(n) /\ Takes(S.window, S.minmax, S.sum, S.pct)
  BY DEF Drops
<1>3. /\ window' = S.window /\ minmax' = S.minmax /\ sum' = S.sum /\ stat' = StatOf(minmax')
      /\ storage' = storage /\ nextCell' = nextCell /\ pct' = S.pct
      /\ crash' = crash /\ twice' = twice
  BY <1>2 DEF Takes, Drops
<1>4. ItemsOf(S, storage, nextCell) /\ PctOf(pct.p, S, storage)
  BY <1>1, <1>2, WithoutIs
<1>5. ItemsOf(WindowItems, storage, nextCell)'
  BY <1>3, <1>4 DEF ItemsOf, WindowItems
<1>6. pct'.p # 0 => PctInv(pct', storage', CellsOf(window'))
  BY <1>3, <1>4 DEF PctOf
<1> QED BY <1>1, <1>3, <1>5, <1>6 DEF WindowInv

(* Time passes: the items stay in their cells.                             *)
LEMMA TickInv ==
  ASSUME WindowInv, Tick PROVE WindowInv'
<1>1. /\ crash = 0 /\ storage \in [Cells -> Int] /\ ItemsOf(WindowItems, storage, nextCell)
      /\ stat = StatOf(minmax) /\ PctOf(pct.p, WindowItems, storage)
  BY GoesIs DEF Tick
<1>2. /\ window' = [i \in 1 .. Len(window) |->
                     [window[i] EXCEPT !.age = IF @ < TimeLimit THEN @ + 1 ELSE @]]
      /\ UNCHANGED <<storage, nextCell, minmax, stat, sum, pct, crash, twice>>
  BY DEF Tick
<1>3. Ring(window, nextCell) /\ MinMaxOf(minmax, window, storage) /\ SumIs(storage, window, sum)
  BY <1>1 DEF ItemsOf, WindowItems
<1> DEFINE I == [cell : Cells, age : Nat]
<1>4. \A y \in I : /\ [y EXCEPT !.age = IF @ < TimeLimit THEN @ + 1 ELSE @] \in I
                   /\ [y EXCEPT !.age = IF @ < TimeLimit THEN @ + 1 ELSE @].cell = y.cell
  BY WindowAssumption
<1>5. window \in Seq(I) /\ nextCell \in Cells /\ Len(window) <= NumLimit
      /\ \A i \in 1 .. Len(window) : window[i].cell = Place(nextCell, (Len(window) + 1) - i)
  BY <1>3 DEF Ring
<1> HIDE DEF I
<1>6. \A i \in 1 .. Len(window) : window[i] \in I
  BY <1>5
<1>7. window' \in [1 .. Len(window) -> I] /\ \A i \in 1 .. Len(window) : window'[i].cell = window[i].cell
  BY <1>2, <1>4, <1>6
<1>8. window' \in Seq(I) /\ Len(window') = Len(window)
  BY <1>5, <1>7
<1>9. Ring(window', nextCell)
  BY <1>5, <1>7, <1>8 DEF Ring, I
<1>10. CellsOf(window') = CellsOf(window)
  BY <1>7, <1>8 DEF CellsOf
<1>11. MinMaxOf(minmax, window', storage)
  <2>1. \A y : CountOf(window', storage, y) = CountOf(window, storage, y)
    BY <1>10 DEF CountOf, Alike
  <2>2. \A e : Newest(window, storage, e) => Newest(window', storage, e)
    BY <1>7, <1>8 DEF Newest
  <2> QED BY <1>3, <1>10, <2>1, <2>2 DEF MinMaxOf
<1>12. SumIs(storage, window', sum)
  BY <1>3, <1>7, <1>8 DEF SumIs, SumsTo
<1>13. ItemsOf(WindowItems, storage, nextCell)'
  BY <1>2, <1>9, <1>11, <1>12 DEF ItemsOf, WindowItems
<1>14. pct'.p # 0 => PctInv(pct', storage', CellsOf(window'))
  BY <1>1, <1>2, <1>10 DEF PctOf, WindowItems
<1> QED BY <1>1, <1>2, <1>13, <1>14 DEF WindowInv

(* Every step.                                                             *)
LEMMA WindowNextInv ==
  ASSUME WindowInv, [WindowNext]_winVars PROVE WindowInv'
<1>1. CASE UNCHANGED winVars
  BY <1>1 DEF winVars, WindowInv, ItemsOf, WindowItems
<1>2. CASE \E x \in Values : AddInt(x)
  BY <1>2, AddIntInv
<1>3. CASE RefreshWindow \/ ClearWindow
  <2>1. PICK n : Drops(n) /\ (n = Obsolete(window) \/ n = Len(window))
    BY <1>3 DEF RefreshWindow, ClearWindow
  <2>2. Ring(window, nextCell) /\ window \in Seq([cell : Cells, age : Nat])
    BY <2>1 DEF Drops, Goes, WindowInv, ItemsOf, WindowItems, Ring
  <2>3. n \in 0 .. Len(window)
    BY <2>1, <2>2, ObsoleteIs
  <2> QED BY <2>1, <2>3, DropsInv
<1>4. CASE Tick
  BY <1>4, TickInv
<1>5. CASE WindowDtor
  BY <1>5 DEF WindowDtor, WindowInv, Takes, NewPlugin
<1> QED BY <1>1, <1>2, <1>3, <1>4, <1>5 DEF WindowNext

(* The minmax and the sum plugin report the values of the window and of    *)
(* nothing else, for every window size, every age limit and all values,    *)
(* and no tree keeps a pointer to a cell whose item has left               *)
(* (lib_puffers.c:408-497).                                                *)
THEOREM PluginsFollowHolds == WindowSpec => []PluginsFollow
<1>1. WindowInit => WindowInv
  BY WindowInitInv
<1>2. WindowInv /\ [WindowNext]_winVars => WindowInv'
  BY WindowNextInv
<1>3. WindowInv => PluginsFollow
  BY WindowInvFollows
<1> QED BY <1>1, <1>2, <1>3, PTL DEF WindowSpec

(* The invariant says what PercentileSplits does.                          *)
LEMMA WindowInvSplits == WindowInv => PercentileSplits
<1> SUFFICES ASSUME WindowInv, twice = 0, pct.p # 0, crash = 0,
                    NEW C, C = Candidates(pct), NEW low, low = DataOf(pct.maxtree),
                    NEW high, high = DataOf(pct.mintree)
             PROVE  /\ low \cup high = InWindow
                    /\ \A c \in low, d \in high : storage[c] < storage[d]
                    /\ pct.Mxc = Cardinality(low) /\ pct.Mnc = Cardinality(high)
                    /\ pct.Mxc + pct.Mnc >= Required(pct.p) /\ pct.p >= 50 => pct.Mxc > 0
                    /\ C.processed = 1 => C.left # NIL \/ C.right # NIL
                    /\ C.left # NIL => C.left \in low /\ \A c \in low : storage[c] <= storage[C.left]
                    /\ C.right # NIL => C.right \in high /\ \A c \in high : storage[c] >= storage[C.right]
  BY DEF PercentileSplits, WindowInv
<1>1. storage \in [Cells -> Int] /\ PctInv(pct, storage, CellsOf(window))
  BY DEF WindowInv
<1>2. InWindow = CellsOf(window)
  BY DEF InWindow, CellsOf
<1>3. /\ pct.Mxc \in Nat /\ pct.Mnc \in Nat /\ pct.p \in 10 .. 90
      /\ Required(pct.p) \in Nat /\ Required(pct.p) >= 2
      /\ pct.p >= 50 /\ Enough(pct) => pct.Mxc >= 1
  BY <1>1, HalvedIs, RequiredIs DEF PctInv
<1>4. PICK L, H : Halves(pct, storage, CellsOf(window), L, H)
  BY <1>1 DEF PctInv, Halved
<1>5. L = low /\ H = high
  BY <1>1, <1>4, PlainIs DEF Halves
<1>6. /\ Plain(pct.maxtree, storage, low) /\ Plain(pct.mintree, storage, high)
      /\ low \cup high = InWindow
      /\ \A c \in low, d \in high : storage[c] < storage[d]
      /\ pct.Mxc = Cardinality(low) /\ pct.Mnc = Cardinality(high)
  BY <1>2, <1>4, <1>5 DEF Halves
<1> DEFINE t == TopData(pct.maxtree)
           b == BottomData(pct.mintree)
<1>7. /\ low = {} => t = NIL
      /\ low # {} => t \in low /\ t # NIL
      /\ \A c \in low : storage[c] <= storage[t]
  BY <1>1, <1>6, PlainEnds
<1>8. /\ high = {} => b = NIL
      /\ high # {} => b \in high /\ b # NIL
      /\ \A c \in high : storage[b] <= storage[c]
  BY <1>1, <1>6, PlainEnds
<1>9. /\ pct.Mxc > 0 => t # NIL
      /\ pct.Mnc > 0 => b # NIL
  BY <1>6, <1>7, <1>8, FS_EmptySet
<1>10. CASE pct.Mxc + pct.Mnc < Required(pct.p)
  <2>1. C.processed = 0 /\ C.left = NIL /\ C.right = NIL
    BY <1>10 DEF Candidates
  <2> QED BY <1>3, <1>6, <1>10, <2>1
<1>11. CASE ~ (pct.Mxc + pct.Mnc < Required(pct.p))
  <2>1. /\ C.left = (IF FallsShort(pct, pct.Mxc, pct.Mnc) THEN NIL ELSE t)
        /\ C.right = (IF Exceeds(pct, pct.Mxc, pct.Mnc) THEN NIL ELSE b)
    BY <1>11 DEF Candidates
  <2>2. C.left # NIL => C.left \in low /\ \A c \in low : storage[c] <= storage[C.left]
    BY <1>7, <2>1
  <2>3. C.right # NIL => C.right \in high /\ \A c \in high : storage[c] >= storage[C.right]
    <3> SUFFICES ASSUME C.right # NIL
                 PROVE  C.right \in high /\ \A c \in high : storage[c] >= storage[C.right]
      OBVIOUS
    <3>1. C.right = b /\ b \in high
      BY <1>8, <2>1
    <3>2. high \subseteq Cells
      BY <1>6 DEF Plain, Ones
    <3>3. \A c \in high : storage[c] \in Int /\ storage[b] \in Int
      BY <1>1, <3>1, <3>2
    <3> QED BY <1>8, <3>1, <3>3
  <2>4. C.left # NIL \/ C.right # NIL
    <3>1. CASE pct.Mnc = 0
      <4>1. ~FallsShort(pct, pct.Mxc, pct.Mnc) /\ pct.Mxc > 0
        BY <1>3, <1>11, <3>1 DEF FallsShort
      <4> QED BY <1>9, <2>1, <4>1
    <3>2. CASE pct.Mnc # 0 /\ Exceeds(pct, pct.Mxc, pct.Mnc)
      <4> DEFINE x == pct.Mxc * (100 - pct.p)
                 y == pct.p * pct.Mnc
      <4>1. x > y
        BY <3>2 DEF Exceeds
      <4>2. x \in Int /\ y \in Int /\ y >= 0
        <5>1. \A i, j \in Nat : i * j \in Nat
          OBVIOUS
        <5>2. pct.p \in Nat /\ 100 - pct.p \in Nat
          BY <1>3
        <5>3. x \in Nat /\ y \in Nat
          BY <1>3, <5>1, <5>2
        <5> QED BY <5>3
      <4>3. pct.Mxc # 0
        <5>1. pct.Mxc = 0 => x = 0
          BY <1>3
        <5> HIDE DEF x, y
        <5> QED BY <4>1, <4>2, <5>1
      <4>4. ~FallsShort(pct, pct.Mxc, pct.Mnc)
        <5>1. ~ (x < y)
          <6> HIDE DEF x, y
          <6> QED BY <4>1, <4>2
        <5> QED BY <5>1 DEF FallsShort
      <4> QED BY <1>3, <1>9, <2>1, <4>3, <4>4
    <3>3. CASE pct.Mnc # 0 /\ ~Exceeds(pct, pct.Mxc, pct.Mnc)
      BY <1>3, <1>9, <2>1, <3>3
    <3> QED BY <3>1, <3>2, <3>3
  <2>5. pct.Mxc + pct.Mnc >= Required(pct.p) /\ pct.p >= 50 => pct.Mxc > 0
    BY <1>3 DEF Enough
  <2> QED BY <1>6, <2>2, <2>3, <2>4, <2>5
<1> QED BY <1>10, <1>11

(* As long as no value was in the window twice, the percentile plugin has  *)
(* the window's values in its two trees, the lesser ones in maxtree, and   *)
(* reports the neighbours of the split, for every window size, every age   *)
(* limit, all values and every percentile; from 50 on it never reads       *)
(* through NULL (lib_swplugins.c:254-373).                                 *)
THEOREM PercentileSplitsHolds == WindowSpec => []PercentileSplits
<1>1. WindowInit => WindowInv
  BY WindowInitInv
<1>2. WindowInv /\ [WindowNext]_winVars => WindowInv'
  BY WindowNextInv
<1>3. WindowInv => PercentileSplits
  BY WindowInvSplits
<1> QED BY <1>1, <1>2, <1>3, PTL DEF WindowSpec
=============================================================================
