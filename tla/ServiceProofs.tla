---------------------------- MODULE ServiceProofs ----------------------------
(***************************************************************************)
(* Theorems about the program: a service built on the skeleton, and the    *)
(* command line its main() reads first.                                    *)
(*                                                                         *)
(* The service, for any number of components, of threads that fire events, *)
(* of threads made and of slots in the table of threads, with SIGINT at    *)
(* any time.  What is shown holds until an event is fired within the       *)
(* transition of another: "overlapped" stays 1 once that has happened.     *)
(*                                                                         *)
(* The command line, for any tables, lines and number of calls.            *)
(***************************************************************************)
EXTENDS Service, Options, WellFoundedInduction, SequenceTheorems, FiniteSetTheorems, TLAPS

(* Every set of natural numbers has a least one.                           *)
LEMMA LeastNat ==
  ASSUME NEW T, T \subseteq Nat, T # {}
  PROVE  \E n \in T : \A m \in T : n <= m
<1> DEFINE R == OpToRel(<, Nat)
<1>1. IsWellFoundedOn(R, Nat)
  BY NatLessThanWellFounded, Zenon
<1>2. \A x, y \in Nat : x < y => <<x, y>> \in R
  <2> SUFFICES ASSUME NEW x \in Nat, NEW y \in Nat, x < y PROVE <<x, y>> \in R
    OBVIOUS
  <2> QED BY Zenon DEF OpToRel
<1> HIDE DEF R
<1>3. PICK n \in T : \A y \in T : ~ (<<y, n>> \in R)
  BY <1>1, WFMin, Zenon
<1>4. \A y \in T : n <= y
  <2>1. \A y \in T : ~ (y < n)
    BY <1>2, <1>3, Zenon
  <2> QED BY <2>1
<1> QED BY <1>4, Zenon

(* A search over the table ends at a slot it looks for, or at its size.    *)
LEMMA SearchEnds ==
  ASSUME NEW S \in SUBSET Slots
  PROVE  /\ First(S) \in 0 .. MapSize
         /\ First(S) = MapSize <=> S = {}
         /\ First(S) < MapSize => First(S) \in S /\ First(S) \in Slots
<1>1. S \subseteq Nat
  BY MapSizeAssumption DEF Slots
<1>2. CASE S = {}
  <2>1. First(S) = MapSize
    BY <1>2, Zenon DEF First
  <2> QED BY <1>2, <2>1, MapSizeAssumption
<1>3. CASE S # {}
  <2>1. \E i \in S : \A j \in S : i <= j
    BY <1>1, <1>3, LeastNat
  <2>2. First(S) \in S
    BY <1>3, <2>1, Zenon DEF First
  <2>3. First(S) \in Slots
    BY <2>2
  <2> QED BY <1>3, <2>2, <2>3, MapSizeAssumption DEF Slots
<1> QED BY <1>2, <1>3

(* The slot _dmap_add_row stores into has no row, the row _dmap_rem_item   *)
(* finds is not the item's, the iteration finds a row.                     *)
LEMMA TableSearches ==
  ASSUME NEW table
  PROVE  /\ LET i == AddRow(table) IN
              /\ i < MapSize => i \in Slots /\ table[i] = NoItem
              /\ ~ (i < MapSize) => \A j \in Slots : table[j] # NoItem
         /\ \A x : LET i == RemItemIndex(table, x) IN
              i < MapSize => i \in Slots /\ table[i] # NoItem /\ table[i] # x
         /\ \A n \in Int : LET i == ItrTable(table, n) IN
              /\ i \in 0 .. MapSize
              /\ i < MapSize => i \in Slots /\ table[i] # NoItem
<1>1. LET i == AddRow(table) IN
        /\ i < MapSize => i \in Slots /\ table[i] = NoItem
        /\ ~ (i < MapSize) => \A j \in Slots : table[j] # NoItem
  <2> DEFINE S == {i \in Slots : table[i] = NoItem}
  <2>1. S \in SUBSET Slots
    OBVIOUS
  <2>2. First(S) \in 0 .. MapSize /\ (First(S) = MapSize <=> S = {})
        /\ (First(S) < MapSize => First(S) \in S)
    BY <2>1, SearchEnds
  <2>3. ~ (First(S) < MapSize) => S = {}
    BY <2>2, MapSizeAssumption
  <2> QED BY <2>2, <2>3 DEF AddRow
<1>2. ASSUME NEW x
      PROVE  LET i == RemItemIndex(table, x) IN
               i < MapSize => i \in Slots /\ table[i] # NoItem /\ table[i] # x
  <2> DEFINE S == {i \in Slots : table[i] # NoItem /\ table[i] # x}
  <2>1. S \in SUBSET Slots
    OBVIOUS
  <2>2. First(S) < MapSize => First(S) \in S
    BY <2>1, SearchEnds
  <2> QED BY <2>2 DEF RemItemIndex
<1>3. ASSUME NEW n \in Int
      PROVE  LET i == ItrTable(table, n) IN
              /\ i \in 0 .. MapSize
              /\ i < MapSize => i \in Slots /\ table[i] # NoItem
  <2> DEFINE S == {i \in Slots : n <= i /\ table[i] # NoItem}
  <2>1. S \in SUBSET Slots
    OBVIOUS
  <2>2. First(S) \in 0 .. MapSize /\ (First(S) < MapSize => First(S) \in S)
    BY <2>1, SearchEnds
  <2> QED BY <2>2 DEF ItrTable
<1> QED BY <1>1, <1>2, <1>3

-----------------------------------------------------------------------------
(* Where the transitions are, without any assumption on who fires.         *)
Starting == {"ctor", "make", "start"}
Stopping == {"stop", "wait", "dtor"}

PlaceInv ==
  /\ \A a \in Actors : fpc[a] \in Starting \cup Stopping => nth[a] \in 1 .. cmpNum
  /\ \A k \in Cmps : thr[k] <= made
  /\ \A a \in Actors : fpc[a] = "wait" => held[a] \in 1 .. made

KindInv == ServiceTypeOK /\ PlaceInv

LEMMA KindInit == Init => KindInv
  BY ServiceAssumption, MapSizeAssumption
  DEF Init, KindInv, ServiceTypeOK, PlaceInv, EmptyTable, Threads, Cmps, Actors, STATE_HALT,
      Starting, Stopping

(* NextCmp goes on to a component there is.                                *)
LEMMA NextCmpKinds ==
  ASSUME KindInv, NEW a \in Actors, fpc[a] \in Starting \cup Stopping,
         NEW where \in {"ctor", "stop"}, NextCmp(a, where)
  PROVE  /\ fpc' \in [Actors -> {"idle", "set", "ctor", "make", "start", "stop", "wait",
                                 "dtor", "walk"}]
         /\ nth' \in [Actors -> 0 .. MapSize + CmpNum]
         /\ fpc'[a] = IF nth[a] < cmpNum THEN where ELSE "set"
         /\ nth'[a] = IF nth[a] < cmpNum THEN nth[a] + 1 ELSE nth[a]
         /\ \A b \in Actors : b # a => fpc'[b] = fpc[b] /\ nth'[b] = nth[b]
         /\ \A b \in Actors : fpc'[b] \in Starting \cup Stopping => nth'[b] \in 1 .. cmpNum
<1> USE DEF KindInv, ServiceTypeOK, PlaceInv
<1>1. nth[a] \in 1 .. cmpNum /\ cmpNum \in 1 .. CmpNum
  BY DEF Cmps
<1>2. CASE nth[a] < cmpNum
  <2>1. /\ nth' = [nth EXCEPT ![a] = nth[a] + 1]
        /\ fpc' = [fpc EXCEPT ![a] = where]
    BY <1>2 DEF NextCmp
  <2>2. nth[a] + 1 \in 0 .. MapSize + CmpNum /\ nth[a] + 1 \in 1 .. cmpNum
    BY <1>1, <1>2, ServiceAssumption, MapSizeAssumption
  <2> QED BY <1>2, <2>1, <2>2
<1>3. CASE ~ (nth[a] < cmpNum)
  <2>1. nth' = nth /\ fpc' = [fpc EXCEPT ![a] = "set"]
    BY <1>3 DEF NextCmp
  <2> QED BY <1>3, <2>1 DEF Starting, Stopping
<1> QED BY <1>2, <1>3

(* So does a move within START or within STOP.                             *)
LEMMA MovesKinds ==
  ASSUME KindInv, NEW a \in Actors, NEW from, NEW where \in Starting \cup Stopping,
         from \in Starting \cup Stopping, Moves(a, from, where), nth' = nth
  PROVE  /\ fpc' \in [Actors -> {"idle", "set", "ctor", "make", "start", "stop", "wait",
                                 "dtor", "walk"}]
         /\ \A b \in Actors : fpc'[b] \in Starting \cup Stopping => nth'[b] \in 1 .. cmpNum
<1>1. fpc[a] = from /\ fpc' = [fpc EXCEPT ![a] = where]
  BY DEF Moves
<1> QED BY <1>1 DEF KindInv, ServiceTypeOK, PlaceInv, Starting, Stopping

(* Where a component is started or stopped there is one.                   *)
LEMMA AtComponent ==
  ASSUME KindInv, NEW a \in Actors, fpc[a] \in Starting \cup Stopping
  PROVE  nth[a] \in Cmps /\ cmpNum \in Nat /\ nth[a] \in 1 .. cmpNum
  BY ServiceAssumption DEF KindInv, ServiceTypeOK, PlaceInv, Cmps

(* What thread_dtor may change.                                            *)
LEMMA DestroyKinds ==
  ASSUME KindInv, NEW t \in 1 .. made, DestroyThread(t)
  PROVE  /\ alive' \subseteq alive /\ doomed' \subseteq 1 .. made /\ freed' \subseteq 1 .. made
         /\ state' \in [Threads -> {"none", "READY", "STARTED", "RUN", "STOP", "STOPPED"}]
  BY DEF KindInv, ServiceTypeOK, DestroyThread, thrVars

(* A read of a thread_t that is freed breaks the program.                  *)
LEMMA ReadsKinds ==
  ASSUME KindInv, NEW t, Reads(t)
  PROVE  broken' \in {"nothing", "row", "thread", "fsm"}
  BY DEF KindInv, ServiceTypeOK, Reads

LEMMA KindKept ==
  ASSUME KindInv, [Next]_vars
  PROVE  KindInv'
<1> USE DEF KindInv
<1>1. ASSUME NEW a \in Actors, Ctor(a) PROVE KindInv'
  <2>1. cmp' \in [Cmps -> 0 .. MaxThreads + 1]
    <3>1. made + 1 \in 0 .. MaxThreads + 1
      BY ServiceAssumption DEF ServiceTypeOK
    <3> QED BY <1>1, <3>1 DEF Ctor, ServiceTypeOK
  <2> QED BY <1>1, <2>1, MovesKinds DEF Ctor, Moves, ServiceTypeOK, PlaceInv, Starting, thrVars,
                                        mapVars, mainVars, auxVars
<1>2. ASSUME NEW a \in Actors, MakeThread(a) PROVE KindInv'
  <2>1. made + 1 \in 1 .. MaxThreads /\ 1 .. made \subseteq 1 .. made + 1
        /\ 0 .. made \subseteq 0 .. made + 1
    BY <1>2, ServiceAssumption DEF MakeThread, ServiceTypeOK
  <2>2. rows' \in [Slots -> 0 .. made + 1]
    <3>1. rows \in [Slots -> 0 .. made + 1] /\ made + 1 \in 0 .. made + 1
      BY <2>1 DEF ServiceTypeOK
    <3>2. CASE AddRow(rows) < MapSize
      <4>1. rows' = [rows EXCEPT ![AddRow(rows)] = made + 1]
        BY <1>2, <3>2 DEF MakeThread
      <4> QED BY <3>1, <4>1
    <3>3. CASE ~ (AddRow(rows) < MapSize)
      BY <1>2, <3>1, <3>3 DEF MakeThread
    <3> QED BY <3>2, <3>3
  <2>3. /\ thr' \in [Cmps -> 0 .. MaxThreads] /\ \A k \in Cmps : thr'[k] <= made + 1
    <3>1. thr' = [thr EXCEPT ![nth[a]] = made + 1] /\ made + 1 \in 0 .. MaxThreads
      BY <1>2, <2>1 DEF MakeThread
    <3>2. \A k \in Cmps : thr'[k] = thr[k] \/ thr'[k] = made + 1
      BY <3>1 DEF ServiceTypeOK
    <3>3. \A k \in Cmps : thr[k] <= made /\ thr[k] \in Int /\ made \in Int
      BY DEF ServiceTypeOK, PlaceInv
    <3>4. thr' \in [Cmps -> 0 .. MaxThreads]
      BY <3>1 DEF ServiceTypeOK
    <3>5. \A k \in Cmps : thr'[k] <= made + 1
      BY <3>2, <3>3
    <3> QED BY <3>4, <3>5
  <2>4. state' \in [Threads -> {"none", "READY", "STARTED", "RUN", "STOP", "STOPPED"}]
    BY <1>2 DEF MakeThread, ServiceTypeOK
  <2>5. UNCHANGED <<current, to, nth, held, mainVars, cmpNum, cmp, alive, doomed, stale, freed,
                    broken, auxVars>>
        /\ made' = made + 1 /\ Moves(a, "make", "start")
    BY <1>2 DEF MakeThread
  <2>6. made' \in 0 .. MaxThreads /\ alive' \subseteq 1 .. made' /\ doomed' \subseteq 1 .. made'
        /\ freed' \subseteq 1 .. made' /\ missed' \subseteq 1 .. made'
    BY <2>1, <2>5 DEF ServiceTypeOK, auxVars
  <2>7. \A b \in Actors : fpc'[b] = "wait" => held'[b] \in 1 .. made'
    <3>1. \A b \in Actors : fpc'[b] = "wait" => fpc[b] = "wait"
      BY <2>5 DEF Moves, ServiceTypeOK
    <3> QED BY <2>1, <2>5, <3>1 DEF PlaceInv
  <2> QED BY <2>2, <2>3, <2>4, <2>5, <2>6, <2>7, MovesKinds
          DEF mainVars, auxVars, ServiceTypeOK, PlaceInv, Starting
<1>3. ASSUME NEW a \in Actors, StartThread(a) PROVE KindInv'
  <2>1. fpc[a] \in Starting \cup Stopping /\ NextCmp(a, "ctor")
    BY <1>3 DEF StartThread, Starting
  <2>2. thr[nth[a]] # 0 => thr[nth[a]] \in 1 .. made
    BY <2>1, AtComponent DEF ServiceTypeOK, PlaceInv
  <2>3. /\ state' \in [Threads -> {"none", "READY", "STARTED", "RUN", "STOP", "STOPPED"}]
        /\ alive' \subseteq 1 .. made
    BY <1>3, <2>2 DEF StartThread, ServiceTypeOK
  <2>4. \A b \in Actors : fpc'[b] = "wait" => fpc[b] = "wait"
    BY <2>1, NextCmpKinds
  <2>5. broken' \in {"nothing", "row", "thread", "fsm"}
    BY <1>3, ReadsKinds DEF StartThread
  <2> QED BY <1>3, <2>1, <2>3, <2>4, <2>5, NextCmpKinds
          DEF StartThread, ServiceTypeOK, PlaceInv, mainVars, cmpVars, mapVars, auxVars
<1>4. ASSUME NEW a \in Actors, StopThread(a) PROVE KindInv'
  <2>1. \E where \in {"wait", "dtor"} : Moves(a, "stop", where)
    BY <1>4 DEF StopThread
  <2>2. state' \in [Threads -> {"none", "READY", "STARTED", "RUN", "STOP", "STOPPED"}]
    BY <1>4 DEF StopThread, ServiceTypeOK
  <2>3. fpc[a] \in Starting \cup Stopping
    BY <1>4 DEF StopThread, Stopping
  <2>4. /\ thr[nth[a]] \in 0 .. MaxThreads
        /\ thr[nth[a]] # 0 => thr[nth[a]] \in 1 .. made
    BY <2>3, AtComponent DEF ServiceTypeOK, PlaceInv
  <2>5. held' \in [Actors -> 0 .. MaxThreads] /\ missed' \subseteq 1 .. made
    BY <1>4, <2>4 DEF StopThread, ServiceTypeOK
  <2>6. broken' \in {"nothing", "row", "thread", "fsm"}
    BY <1>4, ReadsKinds DEF StopThread
  <2>7. \A b \in Actors : fpc'[b] = "wait" => held'[b] \in 1 .. made
    <3>1. fpc'[a] = "wait" => held'[a] \in 1 .. made
      BY <1>4, <2>4 DEF StopThread, Moves, ServiceTypeOK
    <3>2. \A b \in Actors : b # a => fpc'[b] = fpc[b] /\ held'[b] = held[b]
      BY <1>4 DEF StopThread, Moves, ServiceTypeOK
    <3> QED BY <3>1, <3>2 DEF PlaceInv
  <2> QED BY <1>4, <2>1, <2>2, <2>5, <2>6, <2>7, MovesKinds
          DEF StopThread, ServiceTypeOK, PlaceInv, Stopping, mainVars, cmpVars, mapVars
<1>5. ASSUME NEW a \in Actors, StopEnds(a) PROVE KindInv'
  <2>1. fpc[a] \in Starting \cup Stopping /\ Moves(a, "wait", "dtor")
    BY <1>5 DEF StopEnds, Moves, Stopping
  <2>2. held[a] \in 1 .. made
    BY <2>1 DEF Moves, PlaceInv
  <2>3. /\ state' \in [Threads -> {"none", "READY", "STARTED", "RUN", "STOP", "STOPPED"}]
        /\ doomed' \subseteq 1 .. made
    BY <1>5, <2>2 DEF StopEnds, ServiceTypeOK
  <2>4. broken' \in {"nothing", "row", "thread", "fsm"}
    BY <1>5, ReadsKinds DEF StopEnds
  <2>5. \A b \in Actors : fpc'[b] = "wait" => fpc[b] = "wait"
    BY <2>1 DEF Moves, ServiceTypeOK
  <2> QED BY <1>5, <2>1, <2>3, <2>4, <2>5, MovesKinds
          DEF StopEnds, ServiceTypeOK, PlaceInv, Stopping, mainVars, cmpVars, mapVars, auxVars
<1>6. ASSUME NEW a \in Actors, Dtor(a) PROVE KindInv'
  <2>1. fpc[a] \in Starting \cup Stopping /\ NextCmp(a, "stop")
    BY <1>6 DEF Dtor, Stopping
  <2>2. /\ cmp' \in [Cmps -> 0 .. MaxThreads + 1] /\ thr' \in [Cmps -> 0 .. MaxThreads]
        /\ \A k \in Cmps : thr'[k] <= made
    <3>1. 0 \in 0 .. MaxThreads + 1 /\ 0 \in 0 .. MaxThreads /\ 0 <= made
      BY ServiceAssumption DEF ServiceTypeOK
    <3> QED BY <1>6, <3>1 DEF Dtor, ServiceTypeOK, PlaceInv
  <2>3. \A b \in Actors : fpc'[b] = "wait" => fpc[b] = "wait"
    BY <2>1, NextCmpKinds
  <2> QED BY <1>6, <2>1, <2>2, <2>3, NextCmpKinds
          DEF Dtor, ServiceTypeOK, PlaceInv, mainVars, thrVars, mapVars, auxVars
<1>7. ASSUME NEW a \in Actors, Set(a) PROVE KindInv'
  BY <1>7 DEF Set, ServiceTypeOK, PlaceInv, Starting, Stopping, mainVars, cmpVars, thrVars, mapVars,
              auxVars
<1>8. ASSUME NEW a \in Actors, Walk(a) PROVE KindInv'
  <2> DEFINE i == ItrTable(rows, nth[a])
             j == IF i < MapSize THEN RemItemIndex(rows, rows[i]) ELSE MapSize
  <2>1. /\ i \in 0 .. MapSize
        /\ j < MapSize => j \in Slots /\ rows[j] # NoItem
    BY TableSearches, MapSizeAssumption DEF ServiceTypeOK
  <2>2. j < MapSize => rows[j] \in 1 .. made
    BY <2>1, ServiceAssumption DEF ServiceTypeOK
  <2>3. \/ /\ fpc' = [fpc EXCEPT ![a] = "set"]
           /\ UNCHANGED <<nth, thrVars, mapVars, broken>>
        \/ /\ broken' = "row"
           /\ UNCHANGED <<fpc, nth, thrVars, mapVars>>
        \/ /\ i < MapSize
           /\ nth' = [nth EXCEPT ![a] = i + 1]
           /\ \/ j = MapSize /\ UNCHANGED <<thrVars, stale, freed>>
              \/ j < MapSize /\ stale' = stale \cup {j} /\ DestroyThread(rows[j])
           /\ UNCHANGED <<fpc, rows, broken>>
    BY <1>8 DEF Walk
  <2>4. fpc[a] = "walk" /\ UNCHANGED <<current, to, held, mainVars, cmpVars, auxVars>>
    BY <1>8 DEF Walk
  <2> HIDE DEF i, j
  <2>5. i < MapSize => i + 1 \in 0 .. MapSize + CmpNum
    BY <2>1, ServiceAssumption, MapSizeAssumption
  <2>6. CASE /\ fpc' = [fpc EXCEPT ![a] = "set"]
             /\ UNCHANGED <<nth, thrVars, mapVars, broken>>
    BY <2>4, <2>6 DEF ServiceTypeOK, PlaceInv, Starting, Stopping, mainVars, cmpVars, thrVars,
                      mapVars, auxVars
  <2>7. CASE /\ broken' = "row"
             /\ UNCHANGED <<fpc, nth, thrVars, mapVars>>
    BY <2>4, <2>7 DEF ServiceTypeOK, PlaceInv, mainVars, cmpVars, thrVars, mapVars, auxVars
  <2>8. CASE /\ i < MapSize
             /\ nth' = [nth EXCEPT ![a] = i + 1]
             /\ \/ j = MapSize /\ UNCHANGED <<thrVars, stale, freed>>
                \/ j < MapSize /\ stale' = stale \cup {j} /\ DestroyThread(rows[j])
             /\ UNCHANGED <<fpc, rows, broken>>
    <3>1. stale' \subseteq Slots /\ nth' \in [Actors -> 0 .. MapSize + CmpNum]
      BY <2>1, <2>5, <2>8 DEF ServiceTypeOK
    <3>2. /\ alive' \subseteq alive /\ doomed' \subseteq 1 .. made /\ freed' \subseteq 1 .. made
          /\ state' \in [Threads -> {"none", "READY", "STARTED", "RUN", "STOP", "STOPPED"}]
      <4>1. CASE UNCHANGED <<thrVars, stale, freed>>
        BY <4>1 DEF ServiceTypeOK, thrVars
      <4>2. CASE j < MapSize /\ DestroyThread(rows[j])
        BY <2>2, <4>2, DestroyKinds
      <4> QED BY <2>8, <4>1, <4>2
    <3>3. ServiceTypeOK'
      BY <2>4, <2>8, <3>1, <3>2 DEF ServiceTypeOK, mainVars, cmpVars, auxVars
    <3>4. PlaceInv'
      BY <2>4, <2>8 DEF ServiceTypeOK, PlaceInv, mainVars, cmpVars, Starting, Stopping
    <3> QED BY <3>3, <3>4
  <2> QED BY <2>3, <2>6, <2>7, <2>8
<1>9. ASSUME NEW a \in Actors, NEW e \in Events, Fire(a, e),
             UNCHANGED <<current, held, running, cmpVars, thrVars, mapVars, broken, missed>>,
             main' \in {"setup", "start", "loop", "sleep", "stop", "shutdown", "dtor",
                       "return", "exit"}
      PROVE  KindInv'
  <2>1. 0 \in 0 .. MapSize + CmpNum /\ 1 \in 0 .. MapSize + CmpNum /\ 1 \in 1 .. cmpNum
    BY ServiceAssumption, MapSizeAssumption DEF ServiceTypeOK, Cmps
  <2>2. \E w \in {"ctor", "stop", "walk", "set"}, n \in {0, 1}, s \in {STATE_HALT, STATE_RUN} :
          Begins(a, w, n, s) /\ (w \in {"ctor", "stop"} => n = 1)
    BY <1>9 DEF Fire, HaltTrans, RunTrans
  <2>3. PICK w \in {"ctor", "stop", "walk", "set"}, n \in {0, 1},
             s \in {STATE_HALT, STATE_RUN} :
               Begins(a, w, n, s) /\ (w \in {"ctor", "stop"} => n = 1)
    BY <2>2
  <2>4. overlapped' \in {0, 1}
    BY <1>9 DEF Fire, ServiceTypeOK
  <2> QED BY <1>9, <2>1, <2>3, <2>4
         DEF Begins, ServiceTypeOK, PlaceInv, Starting, Stopping, cmpVars, thrVars, mapVars
<1>10. CASE Program
  <2>1. ASSUME Loop \/ Wakes \/ FsmDtor \/ Return PROVE KindInv'
    BY <2>1 DEF Loop, Wakes, FsmDtor, Return, ServiceTypeOK, PlaceInv, fsmVars, cmpVars, thrVars,
                mapVars, auxVars
  <2>3. ASSUME \E from, where \in {"setup", "start", "loop", "stop", "shutdown", "dtor"},
                  e \in Events : MainFires(from, e, where)
        PROVE  KindInv'
    BY <1>9, <2>3 DEF MainFires, Actors
  <2>4. \A from, where \in {"setup", "start", "loop", "stop", "shutdown", "dtor"},
            e \in Events : MainFires(from, e, where) => KindInv'
    BY <2>3, Zenon
  <2>5. \A e \in {"EVENT_SETUP", "EVENT_START", "EVENT_STOP", "EVENT_SHUTDOWN"} : e \in Events
    BY DEF Events
  <2>6. /\ MainFires("setup", "EVENT_SETUP", "start") => KindInv'
        /\ MainFires("start", "EVENT_START", "loop") => KindInv'
        /\ MainFires("stop", "EVENT_STOP", "shutdown") => KindInv'
        /\ MainFires("shutdown", "EVENT_SHUTDOWN", "dtor") => KindInv'
    BY <2>4, <2>5
  <2> QED BY <1>10, <2>1, <2>6, Zenon DEF Program
<1>11. CASE Interrupt
  BY <1>11 DEF Interrupt, ServiceTypeOK, PlaceInv, fsmVars, cmpVars, thrVars, mapVars, auxVars
<1>12. ASSUME NEW a \in Firers, NEW e \in {"EVENT_START", "EVENT_STOP"}, OtherFires(a, e)
       PROVE  KindInv'
  BY <1>9, <1>12 DEF OtherFires, Actors, Events, mainVars, ServiceTypeOK
<1>13. ASSUME NEW t \in Threads, ThreadRuns(t) \/ ThreadEnds(t) \/ ThreadDies(t)
       PROVE  KindInv'
  <2>1. broken' \in {"nothing", "row", "thread", "fsm"}
    BY <1>13, ReadsKinds DEF ThreadRuns, ThreadEnds, ThreadDies, ServiceTypeOK
  <2>2. CASE ThreadRuns(t)
    BY <2>1, <2>2 DEF ThreadRuns, ServiceTypeOK, PlaceInv, fsmVars, mainVars, cmpVars, mapVars, auxVars
  <2>3. CASE ThreadEnds(t)
    BY <2>1, <2>3 DEF ThreadEnds, ServiceTypeOK, PlaceInv, fsmVars, mainVars, cmpVars, mapVars, auxVars
  <2>4. CASE ThreadDies(t)
    BY <2>4 DEF ThreadDies, ServiceTypeOK, PlaceInv, fsmVars, mainVars, cmpVars, mapVars, auxVars
  <2> QED BY <1>13, <2>2, <2>3, <2>4
<1>14. CASE UNCHANGED vars
  BY <1>14 DEF vars, ServiceTypeOK, PlaceInv, fsmVars, mainVars, cmpVars, thrVars, mapVars, auxVars
<1>15. ASSUME NEW a \in Firers, ReadsFreedFsm(a) PROVE KindInv'
  BY <1>15 DEF ReadsFreedFsm, ServiceTypeOK, PlaceInv, fsmVars, mainVars, cmpVars, thrVars, mapVars,
               auxVars
<1> QED BY <1>1, <1>2, <1>3, <1>4, <1>5, <1>6, <1>7, <1>8, <1>10, <1>11, <1>12, <1>13, <1>14, <1>15
       DEF Next, Firing

(* The values of the service are always of their kinds, whoever fires:     *)
(* the index of a transition stays within the components and the table,    *)
(* what is alive, cancelled or freed is a thread that was made             *)
(* (fsm.c:63-90, main.c:96-128).                                           *)
THEOREM ServiceTypesHold == Spec => []ServiceTypeOK
<1>1. KindInv => ServiceTypeOK
  BY DEF KindInv
<1> QED BY <1>1, KindInit, KindKept, PTL DEF Spec

-----------------------------------------------------------------------------
(* Until two events overlap one transition is under way at a time.         *)
TurnInv ==
  /\ \A a, b \in Actors : fpc[a] # "idle" /\ fpc[b] # "idle" => a = b
  /\ \A a \in Actors : fpc[a] = "wait" => held[a] = thr[nth[a]]

(* Which transition a step is of.                                          *)
ToInv ==
  \A a \in Actors :
    /\ fpc[a] \in Starting => current = STATE_HALT /\ to[a] = STATE_RUN
    /\ fpc[a] \in Stopping => current = STATE_RUN /\ to[a] = STATE_HALT
    /\ fpc[a] = "walk" => current = STATE_HALT /\ to[a] = STATE_HALT

Others(a) == \A b \in Actors : b # a => fpc'[b] = fpc[b] /\ nth'[b] = nth[b] /\ to'[b] = to[b]

(* What the first step of a transition does.                               *)
Opens(a) ==
  /\ \/ /\ current = STATE_HALT
        /\ fpc'[a] = "ctor" /\ nth'[a] = 1 /\ to'[a] = STATE_RUN
     \/ /\ current = STATE_RUN
        /\ fpc'[a] = "stop" /\ nth'[a] = 1 /\ to'[a] = STATE_HALT
     \/ /\ current = STATE_HALT
        /\ fpc'[a] = "walk" /\ to'[a] = STATE_HALT
     \/ /\ fpc'[a] = "set" /\ to'[a] = current
  /\ Quiet /\ Others(a)
  /\ UNCHANGED <<current, held, cmpVars, thrVars, mapVars, missed>>

LEMMA FireOpens ==
  ASSUME KindInv, NEW a \in Actors, NEW e \in Events, Fire(a, e), overlapped' = 0,
         UNCHANGED <<current, held, cmpVars, thrVars, mapVars, missed>>
  PROVE  Opens(a) /\ overlapped = 0
<1>1. ASSUME NEW w, NEW n, NEW s, Begins(a, w, n, s)
      PROVE  fpc'[a] = w /\ nth'[a] = n /\ to'[a] = s /\ Others(a)
  BY <1>1 DEF Begins, Others, KindInv, ServiceTypeOK
<1>2. /\ \/ /\ current = STATE_HALT
           /\ fpc'[a] = "ctor" /\ nth'[a] = 1 /\ to'[a] = STATE_RUN
        \/ /\ current = STATE_RUN
           /\ fpc'[a] = "stop" /\ nth'[a] = 1 /\ to'[a] = STATE_HALT
        \/ /\ current = STATE_HALT
           /\ fpc'[a] = "walk" /\ to'[a] = STATE_HALT
        \/ /\ fpc'[a] = "set" /\ to'[a] = current
      /\ Others(a)
  BY <1>1, Zenon DEF Fire, HaltTrans, RunTrans
<1>3. Quiet /\ overlapped = 0
  BY DEF Fire, KindInv, ServiceTypeOK
<1> QED BY <1>2, <1>3 DEF Opens

(* What every later step of a transition leaves alone.                     *)
LEMMA FiringTurn ==
  ASSUME KindInv, NEW a \in Actors, Firing(a)
  PROVE  /\ fpc[a] # "idle" /\ to' = to /\ UNCHANGED <<mainVars, cmpNum, overlapped>>
         /\ \A b \in Actors : b # a => fpc'[b] = fpc[b] /\ nth'[b] = nth[b]
<1> USE DEF KindInv, ServiceTypeOK
<1>1. ASSUME Ctor(a) \/ MakeThread(a) \/ StopThread(a) \/ StopEnds(a)
      PROVE  /\ fpc[a] # "idle" /\ to' = to /\ UNCHANGED <<mainVars, cmpNum, overlapped>>
             /\ \A b \in Actors : b # a => fpc'[b] = fpc[b] /\ nth'[b] = nth[b]
  BY <1>1 DEF Ctor, MakeThread, StopThread, StopEnds, Moves, cmpVars, auxVars
<1>2. ASSUME StartThread(a) \/ Dtor(a)
      PROVE  /\ fpc[a] # "idle" /\ to' = to /\ UNCHANGED <<mainVars, cmpNum, overlapped>>
             /\ \A b \in Actors : b # a => fpc'[b] = fpc[b] /\ nth'[b] = nth[b]
  BY <1>2 DEF StartThread, Dtor, NextCmp, cmpVars, auxVars
<1>3. ASSUME Walk(a)
      PROVE  /\ fpc[a] # "idle" /\ to' = to /\ UNCHANGED <<mainVars, cmpNum, overlapped>>
             /\ \A b \in Actors : b # a => fpc'[b] = fpc[b] /\ nth'[b] = nth[b]
  BY <1>3 DEF Walk, cmpVars, auxVars
<1>4. ASSUME Set(a)
      PROVE  /\ fpc[a] # "idle" /\ to' = to /\ UNCHANGED <<mainVars, cmpNum, overlapped>>
             /\ \A b \in Actors : b # a => fpc'[b] = fpc[b] /\ nth'[b] = nth[b]
  BY <1>4 DEF Set, cmpVars, auxVars
<1> QED BY <1>1, <1>2, <1>3, <1>4 DEF Firing

(* The steps that are of no transition.                                    *)
Aside ==
  /\ \/ Loop \/ Wakes \/ FsmDtor \/ Return \/ Interrupt
     \/ \E a \in Firers : ReadsFreedFsm(a)
     \/ \E t \in Threads : ThreadRuns(t) \/ ThreadEnds(t) \/ ThreadDies(t)
  /\ UNCHANGED <<fsmVars, cmpVars, auxVars, mapVars>>

LEMMA StepKinds ==
  ASSUME KindInv, Next, overlapped' = 0
  PROVE  /\ overlapped = 0
         /\ \/ \E a \in Actors : Opens(a)
            \/ \E a \in Actors : Firing(a)
            \/ Aside
<1>1. Main \in Actors /\ {"EVENT_SETUP", "EVENT_START", "EVENT_STOP", "EVENT_SHUTDOWN"} = Events
  BY DEF Actors, Events
<1>2. CASE Program
  <2>1. ASSUME NEW from, NEW e \in Events, NEW where, MainFires(from, e, where)
        PROVE  overlapped = 0 /\ Opens(Main)
    BY <1>1, <2>1, FireOpens DEF MainFires
  <2>2. CASE Loop \/ Wakes \/ FsmDtor \/ Return
    BY <2>2 DEF Aside, Loop, Wakes, FsmDtor, Return, auxVars
  <2> QED BY <1>1, <1>2, <2>1, <2>2 DEF Program
<1>3. ASSUME NEW a \in Firers, NEW e \in {"EVENT_START", "EVENT_STOP"}, OtherFires(a, e)
      PROVE  overlapped = 0 /\ \E b \in Actors : Opens(b)
  <2>1. a \in Actors /\ e \in Events
    BY <1>1 DEF Actors
  <2> QED BY <1>3, <2>1, FireOpens DEF OtherFires
<1>4. ASSUME \/ Interrupt
             \/ \E a \in Firers : ReadsFreedFsm(a)
             \/ \E t \in Threads : ThreadRuns(t) \/ ThreadEnds(t) \/ ThreadDies(t)
      PROVE  overlapped = 0 /\ Aside
  BY <1>4 DEF Interrupt, ReadsFreedFsm, ThreadRuns, ThreadEnds, ThreadDies, Aside, auxVars
<1>5. ASSUME NEW a \in Actors, Firing(a) PROVE overlapped = 0
  BY <1>5, FiringTurn
<1> QED BY <1>2, <1>3, <1>4, <1>5 DEF Next

LEMMA TurnKept ==
  ASSUME KindInv, TurnInv, ToInv, Next, overlapped' = 0
  PROVE  TurnInv' /\ ToInv'
<1>1. ASSUME NEW a \in Actors, Opens(a) PROVE TurnInv' /\ ToInv'
  <2>1. /\ \A b \in Actors : b # a => fpc'[b] = "idle"
        /\ fpc'[a] # "wait"
    BY <1>1 DEF Opens, Quiet, Others
  <2>2. TurnInv'
    BY <2>1 DEF TurnInv
  <2>3. ToInv'
    BY <1>1, <2>1 DEF Opens, ToInv, Starting, Stopping
  <2> QED BY <2>2, <2>3
<1>2. ASSUME NEW a \in Actors, Firing(a) PROVE TurnInv' /\ ToInv'
  <2>1. /\ fpc[a] # "idle" /\ to' = to
        /\ \A b \in Actors : b # a => fpc'[b] = "idle"
    BY <1>2, FiringTurn DEF TurnInv
  <2>2. fpc'[a] = "wait" => held'[a] = thr'[nth'[a]]
    <3> USE DEF KindInv, ServiceTypeOK
    <3>1. CASE Ctor(a) \/ MakeThread(a) \/ StopEnds(a)
      BY <3>1 DEF Ctor, MakeThread, StopEnds, Moves
    <3>2. CASE StartThread(a) \/ Dtor(a)
      BY <3>2 DEF StartThread, Dtor, NextCmp
    <3>3. CASE Walk(a) \/ Set(a)
      BY <3>3 DEF Walk, Set
    <3>4. CASE StopThread(a)
      BY <3>4 DEF StopThread, cmpVars
    <3> QED BY <1>2, <3>1, <3>2, <3>3, <3>4 DEF Firing
  <2>3. TurnInv'
    BY <2>1, <2>2 DEF TurnInv
  <2>4. /\ fpc'[a] \in Starting => fpc[a] \in Starting
        /\ fpc'[a] \in Stopping => fpc[a] \in Stopping
        /\ fpc'[a] = "walk" => fpc[a] = "walk"
        /\ current' = current \/ fpc'[a] = "idle"
    <3> USE DEF KindInv, ServiceTypeOK, Starting, Stopping
    <3>1. CASE Ctor(a) \/ MakeThread(a) \/ StopThread(a) \/ StopEnds(a)
      BY <3>1 DEF Ctor, MakeThread, StopThread, StopEnds, Moves
    <3>2. CASE StartThread(a) \/ Dtor(a)
      BY <3>2 DEF StartThread, Dtor, NextCmp
    <3>3. CASE Walk(a)
      BY <3>3 DEF Walk
    <3>4. CASE Set(a)
      BY <3>4 DEF Set
    <3> QED BY <1>2, <3>1, <3>2, <3>3, <3>4 DEF Firing
  <2>5. ToInv'
    BY <2>1, <2>4 DEF ToInv, Starting, Stopping
  <2> QED BY <2>3, <2>5
<1>3. CASE Aside
  BY <1>3 DEF Aside, TurnInv, ToInv, fsmVars, cmpVars
<1> QED BY <1>1, <1>2, <1>3, StepKinds

(* The components whose START is done and whose STOP is not, of m, when a  *)
(* transition that will return "next" is at the given step of the n-th.    *)
UpAt(where, n, next, m) ==
  CASE where \in {"ctor", "make"}             -> 1 .. n - 1
    [] where = "start"                        -> 1 .. n
    [] where \in {"stop", "wait", "dtor"}     -> n .. m
    [] where = "set" /\ next = STATE_RUN      -> 1 .. m
    [] where = "set" /\ next = STATE_HALT     -> {}
    [] where = "walk"                         -> {}

UpIn(a) == UpAt(fpc[a], nth[a], to[a], cmpNum)

(* Such a component has been constructed and has its thread, the others    *)
(* have neither, the one between its ctor and its thread has been numbered *)
(* by the thread it will have.                                             *)
Up(k)   == thr[k] # 0 /\ cmp[k] = thr[k]
Down(k) == thr[k] = 0 /\ cmp[k] = 0
Half(k) == thr[k] = 0 /\ cmp[k] = made + 1

PairInv ==
  /\ \A a \in Actors : fpc[a] # "idle" =>
       /\ \A k \in UpIn(a) : Up(k)
       /\ \A k \in Cmps \ UpIn(a) :
            IF fpc[a] = "make" /\ k = nth[a] THEN Half(k) ELSE Down(k)
  /\ Quiet =>
       \A k \in Cmps : IF current = STATE_RUN /\ k <= cmpNum THEN Up(k) ELSE Down(k)

LEMMA SetUpSets ==
  ASSUME NEW n, NEW m
  PROVE  /\ UpAt("set", n, STATE_RUN, m) = 1 .. m
         /\ UpAt("set", n, STATE_HALT, m) = {}
  BY DEF UpAt, STATE_RUN, STATE_HALT

LEMMA UpSets ==
  ASSUME NEW n, NEW m, NEW s
  PROVE  /\ UpAt("ctor", n, s, m) = 1 .. n - 1 /\ UpAt("make", n, s, m) = 1 .. n - 1
         /\ UpAt("start", n, s, m) = 1 .. n
         /\ UpAt("stop", n, s, m) = n .. m /\ UpAt("wait", n, s, m) = n .. m
         /\ UpAt("dtor", n, s, m) = n .. m
         /\ UpAt("walk", n, s, m) = {}
<1>1. UpAt("ctor", n, s, m) = 1 .. n - 1 /\ UpAt("make", n, s, m) = 1 .. n - 1
  BY DEF UpAt
<1>2. UpAt("start", n, s, m) = 1 .. n
  BY DEF UpAt
<1>3. UpAt("stop", n, s, m) = n .. m /\ UpAt("wait", n, s, m) = n .. m
  BY DEF UpAt
<1>4. UpAt("dtor", n, s, m) = n .. m
  BY DEF UpAt
<1>5. UpAt("walk", n, s, m) = {}
  BY DEF UpAt
<1> QED BY <1>1, <1>2, <1>3, <1>4, <1>5

(* The components before, up to and from the n-th one.                     *)
LEMMA UpTo ==
  ASSUME NEW n \in Cmps
  PROVE  /\ n \in Nat /\ n \notin 1 .. n - 1
         /\ 1 .. n - 1 \subseteq Cmps /\ 1 .. n \subseteq Cmps
         /\ \A k \in Cmps : k \in 1 .. n <=> k \in 1 .. n - 1 \/ k = n
  BY ServiceAssumption DEF Cmps

(* A transition begins with what its state says is up ...                  *)
LEMMA OpensPair ==
  ASSUME KindInv, PairInv, NEW a \in Actors, Opens(a)
  PROVE  PairInv'
<1>1. UNCHANGED <<current, cmpNum, cmp, thr, made>> /\ Quiet
  BY DEF Opens, cmpVars
<1>2. \A b \in Actors : b # a => fpc'[b] = "idle"
  BY DEF Opens, Quiet, Others
<1>3. fpc'[a] # "idle" /\ fpc'[a] # "make"
  BY DEF Opens
<1>4. current \in {STATE_HALT, STATE_RUN} /\ cmpNum \in Nat /\ STATE_RUN # STATE_HALT
  BY ServiceAssumption DEF KindInv, ServiceTypeOK, Cmps, STATE_RUN, STATE_HALT
<1>5. UpIn(a)' = IF current = STATE_RUN THEN 1 .. cmpNum ELSE {}
  <2>1. /\ UpAt("ctor", 1, STATE_RUN, cmpNum) = {}
        /\ UpAt("stop", 1, STATE_HALT, cmpNum) = 1 .. cmpNum
        /\ \A n : UpAt("walk", n, STATE_HALT, cmpNum) = {}
        /\ \A n : /\ UpAt("set", n, STATE_RUN, cmpNum) = 1 .. cmpNum
                  /\ UpAt("set", n, STATE_HALT, cmpNum) = {}
    <3>1. UpAt("ctor", 1, STATE_RUN, cmpNum) = 1 .. 1 - 1 /\ 1 .. 1 - 1 = {}
      BY UpSets
    <3>2. /\ UpAt("stop", 1, STATE_HALT, cmpNum) = 1 .. cmpNum
          /\ \A n : UpAt("walk", n, STATE_HALT, cmpNum) = {}
      BY UpSets
    <3>3. \A n : /\ UpAt("set", n, STATE_RUN, cmpNum) = 1 .. cmpNum
                 /\ UpAt("set", n, STATE_HALT, cmpNum) = {}
      BY SetUpSets
    <3> QED BY <3>1, <3>2, <3>3
  <2> QED BY <1>1, <1>4, <2>1 DEF UpIn, Opens
<1>6. \A k \in Cmps : k \in UpIn(a)' <=> current = STATE_RUN /\ k <= cmpNum
  BY <1>4, <1>5 DEF Cmps
<1>7. UpIn(a)' \subseteq Cmps
  BY <1>4, <1>5, ServiceAssumption DEF Cmps, KindInv, ServiceTypeOK
<1> QED BY <1>1, <1>2, <1>3, <1>6, <1>7 DEF PairInv, Quiet, Up, Down

(* ... and each of its steps does what the place it is at says.            *)
LEMMA FiringPair ==
  ASSUME KindInv, TurnInv, ToInv, PairInv, NEW a \in Actors, Firing(a)
  PROVE  PairInv'
<1> DEFINE n == nth[a]
<1>1. /\ fpc[a] # "idle" /\ to' = to /\ cmpNum' = cmpNum
      /\ \A b \in Actors : b # a => fpc'[b] = "idle" /\ nth'[b] = nth[b]
  BY FiringTurn DEF TurnInv
<1>2. /\ \A k \in UpIn(a) : Up(k)
      /\ \A k \in Cmps \ UpIn(a) : IF fpc[a] = "make" /\ k = n THEN Half(k) ELSE Down(k)
  BY <1>1 DEF PairInv
<1>3. cmpNum \in Cmps /\ Cmps \subseteq Nat /\ 1 .. cmpNum \subseteq Cmps /\ made \in Nat
  BY ServiceAssumption DEF KindInv, ServiceTypeOK, Cmps
<1>4. ASSUME fpc'[a] # "idle",
             \A k \in UpIn(a)' : Up(k)',
             \A k \in Cmps \ UpIn(a)' :
               IF fpc'[a] = "make" /\ k = nth'[a] THEN Half(k)' ELSE Down(k)'
      PROVE  PairInv'
  BY <1>1, <1>4 DEF PairInv, Quiet
<1>5. CASE Ctor(a)
  <2>1. /\ fpc[a] = "ctor" /\ fpc'[a] = "make" /\ UNCHANGED <<nth, thr, made>>
        /\ n \in Cmps
    BY <1>5, AtComponent DEF Ctor, Moves, KindInv, ServiceTypeOK, Starting
  <2>2. UpIn(a) = 1 .. n - 1 /\ UpIn(a)' = 1 .. n - 1
    BY <2>1, UpSets DEF UpIn
  <2>3. Down(n)
    <3>1. n \in Cmps \ UpIn(a) /\ ~ (fpc[a] = "make")
      BY <2>1, <2>2, UpTo
    <3> QED BY <1>2, <3>1
  <2>4. \A k \in Cmps : cmp'[k] = IF k = n THEN made + 1 ELSE cmp[k]
    BY <1>5, <2>1, <2>3 DEF Ctor, Down, KindInv, ServiceTypeOK
  <2>5. \A k \in UpIn(a)' : k \in Cmps /\ k # n /\ Up(k)
    BY <1>2, <2>1, <2>2, UpTo
  <2>6. \A k \in UpIn(a)' : Up(k)'
    BY <2>1, <2>4, <2>5 DEF Up
  <2>7. \A k \in Cmps \ UpIn(a)' : IF k = n THEN Half(k)' ELSE Down(k)'
    BY <1>2, <2>1, <2>2, <2>3, <2>4 DEF Down, Half
  <2> QED BY <1>4, <2>1, <2>6, <2>7
<1>6. CASE MakeThread(a)
  <2>1. /\ fpc[a] = "make" /\ fpc'[a] = "start" /\ UNCHANGED <<nth, cmp>>
        /\ n \in Cmps /\ thr' = [thr EXCEPT ![n] = made + 1]
    BY <1>6, AtComponent DEF MakeThread, Moves, KindInv, ServiceTypeOK, Starting
  <2>2. UpIn(a) = 1 .. n - 1 /\ UpIn(a)' = 1 .. n
    BY <2>1, UpSets DEF UpIn
  <2>3. Half(n)
    <3>1. n \in Cmps \ UpIn(a) /\ fpc[a] = "make"
      BY <2>1, <2>2, UpTo
    <3> QED BY <1>2, <3>1
  <2>4. \A k \in Cmps : thr'[k] = IF k = n THEN made + 1 ELSE thr[k]
    BY <2>1 DEF KindInv, ServiceTypeOK
  <2>5. \A k \in Cmps : k \in UpIn(a)' <=> k \in UpIn(a) \/ k = n
    BY <2>1, <2>2, UpTo
  <2>6. UpIn(a)' \subseteq Cmps
    BY <2>1, <2>2, UpTo
  <2>7. ASSUME NEW k \in UpIn(a)' PROVE Up(k)'
    <3>1. k \in Cmps /\ cmp'[k] = cmp[k]
      BY <2>1, <2>6
    <3>2. CASE k = n
      <4>1. thr'[k] = made + 1
        BY <2>4, <3>1, <3>2
      <4> QED BY <1>3, <2>1, <2>3, <3>1, <3>2, <4>1 DEF Up, Half
    <3>3. CASE k # n
      <4>1. thr'[k] = thr[k] /\ Up(k)
        BY <1>2, <2>4, <2>5, <3>1, <3>3
      <4> QED BY <3>1, <4>1 DEF Up
    <3> QED BY <3>2, <3>3
  <2>8. \A k \in Cmps \ UpIn(a)' : Down(k)'
    BY <1>2, <2>1, <2>4, <2>5 DEF Down
  <2> QED BY <1>4, <2>1, <2>7, <2>8
<1>7. CASE StartThread(a)
  <2>1. /\ fpc[a] = "start" /\ UNCHANGED <<cmp, thr, made>>
        /\ n \in Cmps /\ n \in 1 .. cmpNum /\ to[a] = STATE_RUN
        /\ fpc'[a] = IF n < cmpNum THEN "ctor" ELSE "set"
        /\ nth'[a] = IF n < cmpNum THEN n + 1 ELSE n
    BY <1>7, AtComponent, NextCmpKinds DEF StartThread, Starting, cmpVars, ToInv
  <2>2. UpIn(a)' = UpIn(a)
    <3>1. UpIn(a) = 1 .. n
      BY <2>1, UpSets DEF UpIn
    <3>2. CASE n < cmpNum
      <4>1. UpIn(a)' = 1 .. (n + 1) - 1
        BY <1>1, <2>1, <3>2, UpSets DEF UpIn
      <4> QED BY <1>3, <2>1, <3>1, <4>1
    <3>3. CASE ~ (n < cmpNum)
      <4>1. UpIn(a)' = 1 .. cmpNum
        <5>1. fpc'[a] = "set" /\ to'[a] = STATE_RUN
          BY <1>1, <2>1, <3>3
        <5>2. UpAt("set", nth'[a], STATE_RUN, cmpNum) = 1 .. cmpNum
          BY SetUpSets
        <5> QED BY <1>1, <5>1, <5>2 DEF UpIn
      <4> QED BY <1>3, <2>1, <3>1, <3>3, <4>1 DEF Cmps
    <3> QED BY <3>2, <3>3
  <2> QED BY <1>2, <1>4, <2>1, <2>2 DEF Up, Down
<1>8. CASE StopThread(a) \/ StopEnds(a)
  <2>1. /\ fpc[a] \in {"stop", "wait"} /\ fpc'[a] \in {"wait", "dtor"}
        /\ UNCHANGED <<nth, cmp, thr, made>>
    BY <1>8 DEF StopThread, StopEnds, Moves, KindInv, ServiceTypeOK, cmpVars
  <2>2. UpIn(a) = n .. cmpNum /\ UpIn(a)' = n .. cmpNum
    BY <1>1, <2>1, UpSets DEF UpIn
  <2> QED BY <1>2, <1>4, <2>1, <2>2 DEF Up, Down
<1>9. CASE Dtor(a)
  <2>1. /\ fpc[a] = "dtor"
        /\ n \in Cmps /\ n \in 1 .. cmpNum /\ to[a] = STATE_HALT
        /\ fpc'[a] = IF n < cmpNum THEN "stop" ELSE "set"
        /\ nth'[a] = IF n < cmpNum THEN n + 1 ELSE n
    BY <1>9, AtComponent, NextCmpKinds DEF Dtor, Stopping, ToInv
  <2>2. \A k \in Cmps : thr'[k] = (IF k = n THEN 0 ELSE thr[k])
                       /\ cmp'[k] = (IF k = n THEN 0 ELSE cmp[k])
    BY <1>9 DEF Dtor, KindInv, ServiceTypeOK
  <2>3. UpIn(a) = n .. cmpNum
    BY <2>1, UpSets DEF UpIn
  <2>4. UpIn(a)' = n + 1 .. cmpNum
    <3>1. CASE n < cmpNum
      BY <1>1, <2>1, <3>1, UpSets DEF UpIn
    <3>2. CASE ~ (n < cmpNum)
      <4>1. UpIn(a)' = {}
        <5>1. fpc'[a] = "set" /\ to'[a] = STATE_HALT
          BY <1>1, <2>1, <3>2
        <5>2. UpAt("set", nth'[a], STATE_HALT, cmpNum) = {}
          BY SetUpSets
        <5> QED BY <1>1, <5>1, <5>2 DEF UpIn
      <4> QED BY <1>3, <2>1, <3>2, <4>1
    <3> QED BY <3>1, <3>2
  <2>5. UpIn(a)' \subseteq Cmps /\ \A k \in Cmps : k \in UpIn(a)' <=> k \in UpIn(a) /\ k # n
    BY <1>3, <2>1, <2>3, <2>4 DEF Cmps
  <2>6. \A k \in UpIn(a)' : Up(k)'
    BY <1>2, <2>2, <2>5 DEF Up
  <2>7. \A k \in Cmps \ UpIn(a)' : Down(k)'
    BY <1>2, <2>1, <2>2, <2>5 DEF Down
  <2> QED BY <1>4, <2>1, <2>6, <2>7
<1>10. CASE Walk(a)
  <2>1. /\ fpc[a] = "walk" /\ UNCHANGED <<cmp, thr, made>> /\ to[a] = STATE_HALT
        /\ fpc'[a] \in {"walk", "set"}
    BY <1>10 DEF Walk, KindInv, ServiceTypeOK, cmpVars, ToInv
  <2>2. UpIn(a) = {} /\ UpIn(a)' = {}
    <3>1. /\ UpAt("set", nth'[a], STATE_HALT, cmpNum) = {}
          /\ \A i : UpAt("walk", i, STATE_HALT, cmpNum) = {}
      BY SetUpSets, UpSets
    <3> QED BY <1>1, <2>1, <3>1 DEF UpIn
  <2> QED BY <1>2, <1>4, <2>1, <2>2 DEF Down
<1>11. CASE Set(a)
  <2>1. /\ fpc[a] = "set" /\ fpc'[a] = "idle" /\ UNCHANGED <<cmp, thr, made>>
        /\ current' = to[a] /\ to[a] \in {STATE_HALT, STATE_RUN} /\ STATE_RUN # STATE_HALT
    BY <1>11 DEF Set, KindInv, ServiceTypeOK, cmpVars, STATE_RUN, STATE_HALT
  <2>2. UpIn(a) = IF current' = STATE_RUN THEN 1 .. cmpNum ELSE {}
    <3>1. /\ to[a] = STATE_RUN => UpIn(a) = 1 .. cmpNum
          /\ to[a] = STATE_HALT => UpIn(a) = {}
      <4>1. /\ UpAt("set", n, STATE_RUN, cmpNum) = 1 .. cmpNum
            /\ UpAt("set", n, STATE_HALT, cmpNum) = {}
        BY SetUpSets
      <4> QED BY <2>1, <4>1 DEF UpIn
    <3> QED BY <2>1, <3>1
  <2>3. \A k \in Cmps : k \in UpIn(a) <=> current' = STATE_RUN /\ k <= cmpNum
    BY <1>3, <2>2 DEF Cmps
  <2>4. \A k \in Cmps : IF current' = STATE_RUN /\ k <= cmpNum THEN Up(k) ELSE Down(k)
    BY <1>2, <2>1, <2>3
  <2>5. \A b \in Actors : fpc'[b] = "idle"
    BY <1>1, <2>1
  <2> QED BY <1>1, <2>1, <2>4, <2>5 DEF PairInv, Up, Down
<1> QED BY <1>5, <1>6, <1>7, <1>8, <1>9, <1>10, <1>11 DEF Firing

(* Each component has a thread of its own, and every thread made is in the *)
(* table, if it had room.                                                  *)
OwnInv ==
  /\ \A k, l \in Cmps : thr[k] = thr[l] => k = l \/ thr[k] = 0
  /\ \A t \in 1 .. made : InTable(t)

(* make_thread's thread_t is new, and _dmap_add_row finds it a slot or the *)
(* table is full.                                                          *)
LEMMA MakeOwn ==
  ASSUME KindInv, OwnInv, NEW a \in Actors, MakeThread(a)
  PROVE  OwnInv'
<1> DEFINE i == AddRow(rows)
<1>0. PICK t : t = made + 1
  OBVIOUS
<1>1. made \in Nat /\ nth[a] \in Cmps
  BY AtComponent DEF MakeThread, Moves, KindInv, ServiceTypeOK, Starting
<1>2. /\ made' = t
      /\ \A k \in Cmps : thr'[k] = IF k = nth[a] THEN t ELSE thr[k]
  BY <1>0, <1>1 DEF MakeThread, mainVars, KindInv, ServiceTypeOK
<1>3. \A k \in Cmps : thr[k] \in Nat /\ thr[k] # t
  BY <1>0, <1>1 DEF KindInv, ServiceTypeOK, PlaceInv
<1>4. \A j \in Slots : rows[j] \in Nat /\ rows[j] # t
  BY <1>0, <1>1 DEF KindInv, ServiceTypeOK
<1>5. /\ i < MapSize => i \in Slots /\ rows[i] = 0
      /\ ~ (i < MapSize) => \A j \in Slots : rows[j] # 0
  BY TableSearches, ServiceAssumption
<1>6. /\ i < MapSize => \A j \in Slots : rows'[j] = IF j = i THEN t ELSE rows[j]
      /\ ~ (i < MapSize) => rows' = rows
  BY <1>0, <1>5 DEF MakeThread, KindInv, ServiceTypeOK
<1> HIDE DEF i
<1>7. ASSUME NEW u \in 1 .. t, u # t, InTable(u) PROVE InTable(u)'
  <2>1. CASE i < MapSize
    <3>1. PICK j \in Slots : rows[j] = u /\ \A l \in Slots \ {j} : rows[l] # u
      BY <1>5, <1>7, <2>1, ServiceAssumption DEF InTable
    <3>2. rows'[j] = u /\ \A l \in Slots \ {j} : rows'[l] # u
      BY <1>0, <1>1, <1>5, <1>6, <1>7, <2>1, <3>1
    <3> QED BY <3>1, <3>2 DEF InTable
  <2>2. CASE ~ (i < MapSize)
    BY <1>6, <1>7, <2>2 DEF InTable
  <2> QED BY <2>1, <2>2
<1>8. InTable(t)'
  <2>1. CASE i < MapSize
    BY <1>0, <1>1, <1>4, <1>5, <1>6, <2>1 DEF InTable
  <2>2. CASE ~ (i < MapSize)
    BY <1>0, <1>1, <1>2, <1>4, <1>5, <1>6, <2>2, ServiceAssumption DEF InTable
  <2> QED BY <2>1, <2>2
<1>9. \A k, l \in Cmps : thr'[k] = thr'[l] => k = l \/ thr'[k] = 0
  BY <1>0, <1>1, <1>2, <1>3 DEF OwnInv
<1>10. \A u \in 1 .. t : InTable(u)'
  <2> SUFFICES ASSUME NEW u \in 1 .. t PROVE InTable(u)'
    OBVIOUS
  <2>1. u # t => u \in 1 .. made
    BY <1>0, <1>1
  <2> QED BY <1>7, <1>8, <2>1 DEF OwnInv
<1> QED BY <1>2, <1>9, <1>10 DEF OwnInv

LEMMA OwnKept ==
  ASSUME KindInv, TurnInv, OwnInv, Next, overlapped' = 0
  PROVE  OwnInv'
<1>1. ASSUME UNCHANGED <<thr, made, rows>> PROVE OwnInv'
  BY <1>1 DEF OwnInv, InTable
<1>2. ASSUME NEW a \in Actors, Opens(a) PROVE OwnInv'
  BY <1>1, <1>2 DEF Opens, cmpVars, mapVars
<1>3. ASSUME NEW a \in Actors, Firing(a) PROVE OwnInv'
  <2>1. CASE Ctor(a) \/ StartThread(a) \/ StopThread(a) \/ StopEnds(a) \/ Walk(a) \/ Set(a)
    <3>1. UNCHANGED <<thr, made, rows>>
      BY <2>1 DEF Ctor, StartThread, StopThread, StopEnds, Walk, Set, cmpVars, mapVars
    <3> QED BY <1>1, <3>1
  <2>2. CASE MakeThread(a)
    BY <2>2, MakeOwn
  <2>3. CASE Dtor(a)
    <3>1. /\ UNCHANGED <<made, rows>>
          /\ \A k \in Cmps : thr'[k] = IF k = nth[a] THEN 0 ELSE thr[k]
      BY <2>3 DEF Dtor, mapVars, KindInv, ServiceTypeOK
    <3> QED BY <3>1 DEF OwnInv, InTable
  <2> QED BY <1>3, <2>1, <2>2, <2>3 DEF Firing
<1>4. CASE Aside
  BY <1>1, <1>4 DEF Aside, cmpVars, mapVars
<1> QED BY <1>2, <1>3, <1>4, StepKinds

ServiceInv == KindInv /\ (overlapped = 0 => TurnInv /\ ToInv /\ PairInv /\ OwnInv)

LEMMA ServiceInit == Init => ServiceInv
<1> SUFFICES ASSUME Init PROVE ServiceInv
  OBVIOUS
<1>1. KindInv
  BY KindInit
<1>2. TurnInv /\ ToInv
  BY ServiceAssumption DEF Init, TurnInv, ToInv, Actors, Starting, Stopping
<1>3. PairInv
  BY DEF Init, PairInv, Down, STATE_HALT, STATE_RUN
<1>4. OwnInv
  BY DEF Init, OwnInv
<1> QED BY <1>1, <1>2, <1>3, <1>4 DEF ServiceInv

LEMMA ServiceKept ==
  ASSUME ServiceInv, [Next]_vars
  PROVE  ServiceInv'
<1>1. KindInv'
  BY KindKept DEF ServiceInv
<1> SUFFICES ASSUME overlapped' = 0 PROVE TurnInv' /\ ToInv' /\ PairInv' /\ OwnInv'
  BY <1>1 DEF ServiceInv
<1>2. CASE Next
  <2>1. /\ \/ \E a \in Actors : Opens(a)
           \/ \E a \in Actors : Firing(a)
           \/ Aside
        /\ KindInv /\ TurnInv /\ ToInv /\ PairInv /\ OwnInv
    BY <1>2, StepKinds DEF ServiceInv
  <2>2. TurnInv' /\ ToInv' /\ OwnInv'
    BY <1>2, <2>1, TurnKept, OwnKept
  <2>3. CASE Aside
    <3>1. UNCHANGED <<current, fpc, to, nth, cmpNum, cmp, thr, made>>
      BY <2>3 DEF Aside, fsmVars, cmpVars
    <3>2. PairInv'
      BY <2>1, <3>1 DEF PairInv, Quiet, Up, Down, Half, UpIn
    <3> QED BY <2>2, <3>2
  <2> QED BY <2>1, <2>2, <2>3, OpensPair, FiringPair
<1>3. CASE UNCHANGED vars
  <2>1. /\ UNCHANGED <<current, fpc, to, nth, held, cmpNum, cmp, thr, made, rows>>
        /\ TurnInv /\ ToInv /\ PairInv /\ OwnInv
    BY <1>3 DEF vars, fsmVars, cmpVars, mapVars, auxVars, ServiceInv
  <2>2. TurnInv' /\ ToInv'
    BY <2>1 DEF TurnInv, ToInv
  <2>3. PairInv'
    BY <2>1 DEF PairInv, Quiet, Up, Down, Half, UpIn
  <2>4. OwnInv'
    BY <2>1 DEF OwnInv, InTable
  <2> QED BY <2>2, <2>3, <2>4
<1> QED BY <1>2, <1>3

(* For any number of components, of threads that fire events and of slots, *)
(* with SIGINT at any time: until two events overlap, whenever no          *)
(* transition is under way the machine is in RUN and every component is    *)
(* constructed and has its own thread, in the table unless that is full,   *)
(* or in HALT and none is constructed and none has one (fsm.c:74,          *)
(* main.c:120, lib_makers.c:79).                                           *)
THEOREM StopsPairStartsHolds == Spec => []StopsPairStarts
<1>1. ServiceInv => StopsPairStarts
  <2> SUFFICES ASSUME ServiceInv, overlapped = 0, Quiet PROVE Paired
    BY DEF StopsPairStarts
  <2>1. \A k \in Cmps : IF current = STATE_RUN /\ k <= cmpNum THEN Up(k) ELSE Down(k)
    BY DEF ServiceInv, PairInv
  <2>2. 1 .. cmpNum \subseteq Cmps /\ \A k \in 1 .. cmpNum : k <= cmpNum
    BY ServiceAssumption DEF ServiceInv, KindInv, ServiceTypeOK, Cmps
  <2>3. CASE current = STATE_RUN
    <3>1. \A k \in 1 .. cmpNum : k \in Cmps /\ Up(k)
      BY <2>1, <2>2, <2>3
    <3>2. \A k \in 1 .. cmpNum : thr[k] \in 1 .. made
      BY <3>1 DEF Up, ServiceInv, KindInv, ServiceTypeOK, PlaceInv
    <3> QED BY <2>3, <3>1, <3>2 DEF Paired, Up, ServiceInv, OwnInv
  <2>4. CASE current # STATE_RUN
    BY <2>1, <2>4 DEF Paired, Down
  <2> QED BY <2>3, <2>4
<1> QED BY <1>1, ServiceInit, ServiceKept, PTL DEF Spec

-----------------------------------------------------------------------------
(* Until two events overlap every thread that lives, was not cancelled and *)
(* was not passed over is a component's, which the transition has yet to   *)
(* stop or waits for.                                                      *)
Kept(t, k) ==
  /\ thr[k] = t
  /\ \/ state[t] \in {"STARTED", "RUN"}
     \/ \E a \in Actors : fpc[a] = "wait" /\ nth[a] = k
  /\ \A a \in Actors : fpc[a] = "dtor" => nth[a] # k

Loose == alive \ (doomed \cup missed)

LiveInv ==
  /\ \A t \in alive : state[t] # "STOPPED"
  /\ \A t \in Loose : \E k \in Cmps : Kept(t, k)

LEMMA OpensLive ==
  ASSUME KindInv, LiveInv, NEW a \in Actors, Opens(a)
  PROVE  LiveInv'
<1>1. /\ \A b \in Actors : fpc[b] = "idle" /\ (b # a => fpc'[b] = "idle")
      /\ UNCHANGED <<state, alive, doomed, thr, missed>>
      /\ fpc'[a] \notin {"wait", "dtor"}
  BY DEF Opens, Quiet, Others, cmpVars, thrVars
<1>2. ASSUME NEW t, NEW k, Kept(t, k) PROVE Kept(t, k)'
  BY <1>1, <1>2 DEF Kept
<1> QED BY <1>1, <1>2 DEF LiveInv, Loose

(* A thread that is destroyed while it runs ends or is cancelled.          *)
Destroyed ==
  /\ doomed \subseteq doomed' /\ alive' \subseteq alive
  /\ \A t \in alive' :
       \/ state'[t] = state[t]
       \/ state'[t] = "READY" /\ t \in doomed'

LEMMA WalkDestroys ==
  ASSUME KindInv, NEW a \in Actors, Walk(a)
  PROVE  /\ Destroyed /\ UNCHANGED <<thr, made, missed>>
         /\ fpc[a] = "walk" /\ fpc'[a] \in {"walk", "set"}
<1>1. \/ UNCHANGED thrVars
      \/ \E t : DestroyThread(t)
  BY DEF Walk
<1>2. Destroyed
  <2>0. alive \subseteq Threads
    BY ServiceAssumption DEF KindInv, ServiceTypeOK, Threads
  <2>1. CASE UNCHANGED thrVars
    BY <2>1 DEF Destroyed, thrVars
  <2>2. ASSUME NEW t, DestroyThread(t) PROVE Destroyed
    <3>1. CASE state[t] = "RUN"
      <4>1. \A u \in Threads : state'[u] = IF u = t THEN "READY" ELSE state[u]
        BY <2>2, <3>1 DEF DestroyThread, KindInv, ServiceTypeOK
      <4>2. \/ alive' = alive \ {t} /\ UNCHANGED doomed
            \/ doomed' = doomed \cup {t} /\ UNCHANGED alive
        BY <2>2, <3>1 DEF DestroyThread
      <4> QED BY <2>0, <4>1, <4>2 DEF Destroyed
    <3>2. CASE state[t] # "RUN"
      BY <2>2, <3>2 DEF DestroyThread, Destroyed, thrVars
    <3> QED BY <3>1, <3>2
  <2> QED BY <1>1, <2>1, <2>2
<1>3. UNCHANGED <<thr, made, missed>>
  BY DEF Walk, cmpVars, auxVars
<1>4. fpc[a] = "walk" /\ fpc'[a] \in {"walk", "set"}
  BY DEF Walk, KindInv, ServiceTypeOK
<1> QED BY <1>2, <1>3, <1>4

(* A step of START gives a thread to a component, one of STOP takes the    *)
(* component's from the living, or notes that it was passed over.          *)
LEMMA FiringLive ==
  ASSUME KindInv, TurnInv, ToInv, PairInv, OwnInv, LiveInv, NEW a \in Actors, Firing(a)
  PROVE  LiveInv'
<1> DEFINE n == nth[a]
           t == thr[n]
<1>1. /\ fpc[a] # "idle"
      /\ \A b \in Actors : b # a => fpc[b] = "idle" /\ fpc'[b] = "idle" /\ nth'[b] = nth[b]
  BY FiringTurn DEF TurnInv
<1>2. alive \subseteq 1 .. made /\ 1 .. made \subseteq Threads /\ made \in Nat
  BY ServiceAssumption DEF KindInv, ServiceTypeOK, Threads
<1>3. /\ \A u \in alive : state[u] # "STOPPED"
      /\ \A u \in Loose : \E k \in Cmps : Kept(u, k)
  BY DEF LiveInv
(* The threads live on if nobody has stopped them or waits for them.       *)
<1>4. ASSUME UNCHANGED <<thr, missed>>, alive' \subseteq alive, doomed \subseteq doomed',
             fpc[a] # "wait", fpc'[a] \notin {"wait", "dtor"},
             \A u \in alive' : state'[u] # state[u] => state'[u] # "STOPPED" /\ u \in doomed'
      PROVE  LiveInv'
  <2>1. \A b \in Actors : fpc[b] # "wait" /\ fpc'[b] \notin {"wait", "dtor"}
    BY <1>1, <1>4
  <2>2. \A u \in Loose', k \in Cmps : Kept(u, k) => Kept(u, k)'
    BY <1>4, <2>1 DEF Kept, Loose
  <2>3. Loose' \subseteq Loose
    BY <1>4 DEF Loose
  <2> QED BY <1>3, <1>4, <2>2, <2>3 DEF LiveInv
<1>5. CASE Ctor(a) \/ Set(a)
  <2>1. /\ UNCHANGED <<thr, alive, doomed, state, missed>>
        /\ fpc[a] # "wait" /\ fpc'[a] \in {"make", "idle"}
    BY <1>5 DEF Ctor, Set, Moves, KindInv, ServiceTypeOK, cmpVars, thrVars, auxVars
  <2> QED BY <1>4, <2>1
<1>6. CASE MakeThread(a)
  <2>1. /\ fpc[a] = "make" /\ fpc'[a] = "start" /\ UNCHANGED <<alive, doomed, missed>>
        /\ n \in Cmps /\ thr' = [thr EXCEPT ![n] = made + 1]
        /\ state' = [state EXCEPT ![made + 1] = "READY"]
    BY <1>6, AtComponent DEF MakeThread, Moves, KindInv, ServiceTypeOK, Starting, auxVars
  <2>2. \A u \in alive : u # made + 1 /\ state'[u] = state[u]
    BY <1>2, <2>1 DEF KindInv, ServiceTypeOK
  <2>3. thr[n] = 0
    <3>1. UpIn(a) = 1 .. n - 1 /\ n \in Cmps \ UpIn(a)
      BY <2>1, UpSets, UpTo DEF UpIn
    <3> QED BY <2>1, <3>1 DEF PairInv, Half
  <2>4. \A u \in alive, k \in Cmps : thr[k] = u => thr'[k] = u
    BY <1>2, <2>1, <2>3 DEF KindInv, ServiceTypeOK
  <2>5. \A b \in Actors : fpc[b] # "wait" /\ fpc'[b] # "dtor"
    BY <1>1, <2>1
  <2>6. \A u \in alive, k \in Cmps : Kept(u, k) => Kept(u, k)'
    BY <2>2, <2>4, <2>5 DEF Kept
  <2> QED BY <1>3, <2>1, <2>2, <2>6 DEF LiveInv, Loose
<1>7. CASE StartThread(a)
  <2>1. /\ fpc[a] = "start" /\ fpc'[a] \in {"ctor", "set"} /\ n \in Cmps
        /\ UNCHANGED <<thr, doomed, missed>>
    BY <1>7, AtComponent
       DEF StartThread, NextCmp, Starting, cmpVars, auxVars, KindInv, ServiceTypeOK
  <2>2. \A b \in Actors : fpc[b] # "wait" /\ fpc'[b] # "dtor"
    BY <1>1, <2>1
  <2>3. CASE t # 0 /\ state[t] = "READY"
    <3>1. PICK v, k : v = t /\ k = n
      OBVIOUS
    <3>2. v \in Threads /\ k \in Cmps /\ thr[k] = v
      <4>1. thr[n] \in 0 .. MaxThreads
        BY <2>1 DEF KindInv, ServiceTypeOK
      <4> QED BY <2>1, <2>3, <3>1, <4>1, ServiceAssumption DEF Threads
    <3>3. state' = [state EXCEPT ![v] = "STARTED"] /\ alive' = alive \cup {v}
      BY <1>7, <2>3, <3>1 DEF StartThread
    <3>4. \A u \in Threads : state'[u] = IF u = v THEN "STARTED" ELSE state[u]
      BY <3>3 DEF KindInv, ServiceTypeOK
    <3>5. Kept(v, k)'
      BY <2>1, <2>2, <3>2, <3>4 DEF Kept
    <3>6. \A u \in alive, l \in Cmps : Kept(u, l) => Kept(u, l)'
      BY <1>2, <2>1, <2>2, <3>4 DEF Kept
    <3>7. \A u \in alive' : state'[u] # "STOPPED"
      BY <1>2, <1>3, <3>2, <3>3, <3>4
    <3>8. Loose' \subseteq Loose \cup {v} /\ Loose \subseteq alive
      BY <2>1, <3>3 DEF Loose
    <3> QED BY <1>3, <3>2, <3>5, <3>6, <3>7, <3>8 DEF LiveInv
  <2>4. CASE ~ (t # 0 /\ state[t] = "READY")
    <3>1. UNCHANGED <<state, alive>>
      BY <1>7, <2>4 DEF StartThread
    <3> QED BY <1>4, <2>1, <3>1
  <2> QED BY <2>3, <2>4
<1>8. CASE Walk(a)
  <2>1. /\ Destroyed /\ UNCHANGED <<thr, missed>>
        /\ fpc[a] = "walk" /\ fpc'[a] \in {"walk", "set"}
    BY <1>8, WalkDestroys
  <2>2. \A u \in alive' : state'[u] # state[u] => state'[u] # "STOPPED" /\ u \in doomed'
    BY <2>1 DEF Destroyed
  <2> QED BY <1>4, <2>1, <2>2 DEF Destroyed
<1>9. ASSUME fpc[a] \in Stopping
      PROVE  n \in Cmps /\ \A k \in Cmps : thr[k] = t => k = n
  <2>1. n \in Cmps /\ n \in UpIn(a)
    <3>1. n \in Cmps /\ n \in n .. cmpNum
      BY <1>9, AtComponent
    <3>2. UpIn(a) = n .. cmpNum
      BY <1>9, UpSets DEF UpIn, Stopping
    <3> QED BY <3>1, <3>2
  <2>2. thr[n] # 0
    BY <1>1, <2>1 DEF PairInv, Up
  <2> QED BY <2>1, <2>2 DEF OwnInv
<1>10. CASE StopThread(a)
  <2>1. /\ fpc[a] = "stop" /\ UNCHANGED <<nth, thr, alive, doomed>>
        /\ \A b \in Actors : fpc[b] \notin {"wait", "dtor"}
        /\ missed \subseteq missed'
    BY <1>1, <1>10 DEF StopThread, Moves, cmpVars
  <2>2. \A u \in alive : state'[u] = state[u] \/ state'[u] = "STOP"
    BY <1>2, <1>10 DEF StopThread, KindInv, ServiceTypeOK
  <2>3. ASSUME NEW u \in Loose' PROVE \E k \in Cmps : Kept(u, k)'
    <3>0. u \in alive /\ u \in Loose /\ u \notin missed' /\ u # 0
      BY <1>2, <2>1, <2>3 DEF Loose
    <3>1. PICK k \in Cmps : Kept(u, k)
      BY <1>3, <3>0
    <3>2. thr[k] = u /\ state[u] \in {"STARTED", "RUN"}
      BY <2>1, <3>1 DEF Kept
    <3>3. CASE k = n
      <4>1. u = t /\ state[u] = "RUN"
        BY <1>10, <3>0, <3>2, <3>3 DEF StopThread
      <4>2. fpc'[a] = "wait"
        BY <1>10, <3>0, <4>1 DEF StopThread, Moves, KindInv, ServiceTypeOK
      <4>3. \A b \in Actors : fpc'[b] # "dtor"
        BY <1>1, <4>2
      <4> QED BY <2>1, <3>2, <3>3, <4>2, <4>3 DEF Kept
    <3>4. CASE k # n
      <4>1. u # t
        BY <1>9, <2>1, <3>2, <3>4 DEF Stopping
      <4>2. state'[u] = state[u]
        BY <1>2, <1>10, <3>0, <4>1 DEF StopThread, KindInv, ServiceTypeOK
      <4>3. \A b \in Actors : fpc'[b] = "dtor" => nth'[b] # k
        BY <1>1, <2>1, <3>4
      <4> QED BY <2>1, <3>2, <4>2, <4>3 DEF Kept
    <3> QED BY <3>3, <3>4
  <2>4. \A u \in alive' : state'[u] # "STOPPED"
    BY <1>3, <2>1, <2>2
  <2> QED BY <2>3, <2>4 DEF LiveInv
<1>11. CASE StopEnds(a)
  <2>0. fpc[a] = "wait" /\ held[a] = t
    BY <1>11 DEF StopEnds, Moves, TurnInv
  <2>1. /\ fpc'[a] = "dtor" /\ UNCHANGED <<nth, thr, alive, missed>>
        /\ doomed \subseteq doomed'
        /\ state[t] = "STOPPED" \/ t \in doomed'
    BY <1>11, <2>0 DEF StopEnds, Moves, cmpVars, auxVars, KindInv, ServiceTypeOK
  <2>2. \A u \in alive : state'[u] = IF u = t THEN "READY" ELSE state[u]
    BY <1>2, <1>11, <2>0 DEF StopEnds, KindInv, ServiceTypeOK
  <2>3. t \notin Loose'
    BY <1>3, <2>1 DEF Loose
  <2>4. ASSUME NEW u \in Loose' PROVE \E k \in Cmps : Kept(u, k)'
    <3>0. u \in alive /\ u \in Loose /\ u # t
      BY <2>1, <2>3, <2>4 DEF Loose
    <3>1. PICK k \in Cmps : Kept(u, k)
      BY <1>3, <3>0
    <3>2. thr[k] = u /\ k # n
      BY <3>0, <3>1 DEF Kept
    <3>3. state[u] \in {"STARTED", "RUN"}
      BY <1>1, <3>1, <3>2 DEF Kept
    <3>4. state'[u] \in {"STARTED", "RUN"}
      BY <2>2, <3>0, <3>3
    <3>5. \A b \in Actors : fpc'[b] = "dtor" => nth'[b] # k
      BY <1>1, <2>1, <3>2
    <3> QED BY <2>1, <3>2, <3>4, <3>5 DEF Kept
  <2>5. \A u \in alive' : state'[u] # "STOPPED"
    BY <1>3, <2>1, <2>2
  <2> QED BY <2>4, <2>5 DEF LiveInv
<1>12. CASE Dtor(a)
  <2>1. /\ fpc[a] = "dtor" /\ fpc'[a] \in {"stop", "set"}
        /\ UNCHANGED <<state, alive, doomed, missed>>
        /\ \A k \in Cmps : thr'[k] = IF k = n THEN 0 ELSE thr[k]
    BY <1>12 DEF Dtor, NextCmp, thrVars, auxVars, KindInv, ServiceTypeOK
  <2>2. \A b \in Actors : fpc[b] # "wait" /\ fpc'[b] # "dtor"
    BY <1>1, <2>1
  <2>3. \A u \in alive, k \in Cmps : Kept(u, k) => Kept(u, k)'
    BY <2>1, <2>2 DEF Kept
  <2> QED BY <1>3, <2>1, <2>3 DEF LiveInv, Loose
<1> QED BY <1>5, <1>6, <1>7, <1>8, <1>10, <1>11, <1>12 DEF Firing

LEMMA AsideLive ==
  ASSUME KindInv, LiveInv, Aside
  PROVE  LiveInv'
<1>1. UNCHANGED <<fpc, nth, thr, missed>> /\ doomed' = doomed
  BY DEF Aside, fsmVars, cmpVars, auxVars, Loop, Wakes, FsmDtor, Return, Interrupt, ReadsFreedFsm,
         ThreadRuns, ThreadEnds, ThreadDies, thrVars
<1>2. alive \subseteq Threads
  BY ServiceAssumption DEF KindInv, ServiceTypeOK, Threads
<1>3. alive' \subseteq alive /\ \A u \in alive' : state'[u] = state[u] \/ state'[u] = "RUN"
  <2>1. CASE \/ Loop \/ Wakes \/ FsmDtor \/ Return \/ Interrupt
             \/ \E a \in Firers : ReadsFreedFsm(a)
    BY <2>1 DEF Loop, Wakes, FsmDtor, Return, Interrupt, ReadsFreedFsm, thrVars
  <2>2. ASSUME NEW t \in Threads, ThreadRuns(t) \/ ThreadDies(t)
        PROVE  alive' \subseteq alive /\ \A u \in alive' : state'[u] = state[u] \/ state'[u] = "RUN"
    BY <1>2, <2>2 DEF ThreadRuns, ThreadDies, KindInv, ServiceTypeOK
  <2>3. ASSUME NEW t \in Threads, ThreadEnds(t)
        PROVE  alive' \subseteq alive /\ \A u \in alive' : state'[u] = state[u] \/ state'[u] = "RUN"
    BY <1>2, <2>3 DEF ThreadEnds, KindInv, ServiceTypeOK
  <2> QED BY <2>1, <2>2, <2>3 DEF Aside
<1>4. \A u \in alive', k \in Cmps : Kept(u, k) => Kept(u, k)'
  BY <1>1, <1>3 DEF Kept
<1> QED BY <1>1, <1>3, <1>4 DEF LiveInv, Loose

ExitInv == ServiceInv /\ (overlapped = 0 => LiveInv)

LEMMA ExitInit == Init => ExitInv
<1> SUFFICES ASSUME Init PROVE ExitInv
  OBVIOUS
<1>1. ServiceInv
  BY ServiceInit
<1>2. LiveInv
  BY DEF Init, LiveInv, Loose
<1> QED BY <1>1, <1>2 DEF ExitInv

LEMMA ExitKept ==
  ASSUME ExitInv, [Next]_vars
  PROVE  ExitInv'
<1>1. ServiceInv'
  BY ServiceKept DEF ExitInv
<1> SUFFICES ASSUME overlapped' = 0 PROVE LiveInv'
  BY <1>1 DEF ExitInv
<1>2. CASE Next
  <2>1. /\ \/ \E a \in Actors : Opens(a)
           \/ \E a \in Actors : Firing(a)
           \/ Aside
        /\ KindInv /\ TurnInv /\ ToInv /\ PairInv /\ OwnInv /\ LiveInv
    BY <1>2, StepKinds DEF ExitInv, ServiceInv
  <2> QED BY <2>1, OpensLive, FiringLive, AsideLive
<1>3. CASE UNCHANGED vars
  <2>1. UNCHANGED <<fpc, nth, thr, state, alive, doomed, missed>> /\ LiveInv
    BY <1>3 DEF vars, fsmVars, cmpVars, thrVars, auxVars, ExitInv
  <2> QED BY <2>1 DEF LiveInv, Loose, Kept
<1> QED BY <1>2, <1>3

LEMMA HaltIsStopped ==
  ASSUME ExitInv
  PROVE  StoppedInHalt
<1> SUFFICES ASSUME overlapped = 0, Quiet, current = STATE_HALT
             PROVE  alive \subseteq doomed \cup missed
  BY DEF StoppedInHalt
<1>1. \A k \in Cmps : thr[k] = 0
  BY DEF ExitInv, ServiceInv, PairInv, Down, STATE_HALT, STATE_RUN
<1>2. \A t \in Loose : \E k \in Cmps : thr[k] = t
  BY DEF ExitInv, LiveInv, Kept
<1>3. 0 \notin alive
  BY DEF ExitInv, ServiceInv, KindInv, ServiceTypeOK
<1> QED BY <1>1, <1>2, <1>3 DEF Loose

(* For any number of components and threads, with SIGINT at any time:      *)
(* until two events overlap, whenever the machine is in HALT and no        *)
(* transition is under way, every thread that lives was cancelled or had   *)
(* not run yet when its STOP came (main.c:120-128, lib_threading.c:325).   *)
THEOREM StoppedInHaltHolds == Spec => []StoppedInHalt
  BY ExitInit, ExitKept, HaltIsStopped, PTL DEF Spec

-----------------------------------------------------------------------------
(* A loop of n turns, t[k] being the k-th of them: there is a function     *)
(* that says what each turn leaves.                                        *)
TurnsOf(S, s, t, n, f) ==
  /\ f \in [0 .. n -> S]
  /\ \A k \in 0 .. n : f[k] = IF k = 0 THEN s ELSE t[k][f[k - 1]]

LEMMA LoopTurns ==
  ASSUME NEW S, NEW s \in S, NEW N \in Nat, NEW t \in [1 .. N -> [S -> S]]
  PROVE  \E f : TurnsOf(S, s, t, N, f)
<1> DEFINE Upto(m) == \E f : TurnsOf(S, s, t, m, f)
           Bad == {m \in 0 .. N : ~ Upto(m)}
<1>1. Bad = {}
  <2> SUFFICES ASSUME Bad # {} PROVE FALSE
    OBVIOUS
  <2> HIDE DEF Upto
  <2>1. PICK m \in Bad : \A k \in Bad : m <= k
    <3>1. Bad \subseteq Nat
      OBVIOUS
    <3> HIDE DEF Bad
    <3> QED BY <3>1, LeastNat
  <2>2. m \in 0 .. N /\ ~ Upto(m) /\ (m > 0 => Upto(m - 1))
    BY <2>1
  <2> USE DEF Upto
  <2> HIDE DEF Bad
  <2>3. CASE m = 0
    <3> DEFINE f == [k \in 0 .. 0 |-> s]
    <3>1. TurnsOf(S, s, t, 0, f)
      BY DEF TurnsOf
    <3> QED BY <2>2, <2>3, <3>1
  <2>4. CASE m > 0
    <3>1. PICK f : TurnsOf(S, s, t, m - 1, f)
      BY <2>2, <2>4
    <3>2. t[m] \in [S -> S] /\ f[m - 1] \in S /\ m - 1 \in 0 .. m - 1
      BY <2>2, <2>4, <3>1 DEF TurnsOf
    <3> DEFINE h == [k \in 0 .. m |-> IF k = m THEN t[m][f[m - 1]] ELSE f[k]]
    <3>3. ASSUME NEW k \in 0 .. m, k # m PROVE k \in 0 .. m - 1 /\ h[k] = f[k] /\ f[k] \in S
      <4>1. k \in 0 .. m - 1
        BY <2>2, <3>3
      <4> QED BY <3>1, <3>3, <4>1 DEF TurnsOf
    <3>4. h[m] = t[m][f[m - 1]] /\ h[m] \in S
      BY <2>2, <3>2
    <3>5. h \in [0 .. m -> S]
      BY <3>3, <3>4
    <3>6. ASSUME NEW k \in 0 .. m PROVE h[k] = IF k = 0 THEN s ELSE t[k][h[k - 1]]
      <4>1. CASE k = 0
        BY <2>4, <3>1, <3>3, <4>1 DEF TurnsOf
      <4>2. CASE k # 0
        <5>1. k - 1 \in 0 .. m /\ k - 1 # m
          BY <2>2, <4>2
        <5>2. h[k - 1] = f[k - 1]
          BY <3>3, <5>1
        <5>3. h[k] = t[k][f[k - 1]]
          <6>1. CASE k = m
            BY <3>4, <6>1
          <6>2. CASE k # m
            BY <3>1, <3>3, <4>2, <6>2 DEF TurnsOf
          <6> QED BY <6>1, <6>2
        <5> QED BY <4>2, <5>2, <5>3
      <4> QED BY <4>1, <4>2
    <3> HIDE DEF h
    <3>7. TurnsOf(S, s, t, m, h)
      BY <3>5, <3>6 DEF TurnsOf
    <3> QED BY <2>2, <3>7
  <2> QED BY <2>2, <2>3, <2>4
<1> HIDE DEF Upto
<1>2. Upto(N)
  BY <1>1
<1> QED BY <1>2 DEF Upto

(* A loop whose k-th turn leads from P[k - 1] to P[k] ends in P[N].        *)
LEMMA TurnsHold ==
  ASSUME NEW N \in Nat, NEW P, NEW g, g[0] \in P[0],
         \A k \in 1 .. N : g[k - 1] \in P[k - 1] => g[k] \in P[k]
  PROVE  \A k \in 0 .. N : g[k] \in P[k]
<1> DEFINE Bad == {k \in 0 .. N : g[k] \notin P[k]}
<1>1. Bad = {}
  <2> SUFFICES ASSUME Bad # {} PROVE FALSE
    OBVIOUS
  <2>1. PICK k \in Bad : \A j \in Bad : k <= j
    <3>1. Bad \subseteq Nat
      OBVIOUS
    <3> HIDE DEF Bad
    <3> QED BY <3>1, LeastNat
  <2>2. k \in 0 .. N /\ g[k] \notin P[k]
    BY <2>1
  <2>3. k # 0
    BY <2>2
  <2>4. k - 1 \in 0 .. N /\ ~ (k <= k - 1) /\ k \in 1 .. N
    BY <2>2, <2>3
  <2>5. g[k - 1] \in P[k - 1]
    BY <2>1, <2>4
  <2> QED BY <2>2, <2>4, <2>5
<1> QED BY <1>1

(* There is the recursive function of such a loop.                         *)
LEMMA TurnsExist ==
  ASSUME NEW S, NEW s \in S, NEW N \in Nat, NEW P \in [0 .. N -> SUBSET S], s \in P[0],
         NEW t \in [1 .. N -> [S -> S]],
         \A k \in 1 .. N : \A x \in P[k - 1] : t[k][x] \in P[k]
  PROVE  \E f : TurnsOf(S, s, t, N, f) /\ \A k \in 0 .. N : f[k] \in P[k]
<1>1. PICK f : TurnsOf(S, s, t, N, f)
  BY LoopTurns
<1>2. /\ f[0] = s /\ \A k \in 1 .. N : f[k] = t[k][f[k - 1]]
  BY <1>1 DEF TurnsOf
<1>3. \A k \in 0 .. N : f[k] \in P[k]
  BY <1>2, TurnsHold
<1> QED BY <1>1, <1>3

-----------------------------------------------------------------------------
(* The errors a table can tell of.                                         *)
ErrorsOf(table) ==
  {e \in [parent : 1 .. Len(table), code : Codes] : Printed(table[e.parent], e.code)}

(* What is kept of all the errors in an end entry with room for max.       *)
KeptOf(table, kept, all) ==
  LET last == Len(table)  max == table[last].max IN
  /\ kept \in Seq(ErrorsOf(table)) /\ all \in Seq(ErrorsOf(table))
  /\ Len(kept) = IF Len(all) < max THEN Len(all) ELSE max
  /\ \A k \in 1 .. Len(kept) :
       kept[k] = IF k = max /\ Len(all) > max THEN Error(last, "ELIMIT") ELSE all[k]

(* The counts and values of the entries of a table.                        *)
ArgsOf(table, s) ==
  /\ DOMAIN s = 1 .. Len(table)
  /\ \A i \in 1 .. Len(table) : DOMAIN s[i] = {"count", "compiled", "vals"}
Compiled(table, s) ==
  \A i \in 1 .. Len(table) : table[i].kind = "rex" => s[i].compiled = 1

OptInv ==
  /\ argtable \in ArgTables
  /\ stage \in {"idle", "tagged", "untagged", "check", "parsed"}
  /\ stage \in {"tagged", "untagged", "check"} => tabindex \in 1 .. Len(argtable)
  /\ tentative \in ErrorsOf(argtable) \cup {NoError}
  /\ KeptOf(argtable, errors, found)
  /\ ArgsOf(argtable, args)
  /\ stage \in {"tagged", "untagged"} => Compiled(argtable, args)

-----------------------------------------------------------------------------
(* A table ends with its end entry, and no other one ends it.              *)
LEMMA TableIs ==
  ASSUME NEW table \in ArgTables
  PROVE  /\ Len(table) \in Nat \ {0}
         /\ table[Len(table)].kind = "end" /\ table[Len(table)].max \in Nat \ {0}
         /\ \A i \in 1 .. Len(table) :
              /\ table[i] \in ArgEntry
              /\ table[i].kind = "end" => i = Len(table)
              /\ table[i].shorts \cup table[i].longs # {} => Scans(table[i])
<1>1. table \in Seq(ArgEntry) /\ table # <<>>
  BY TableAssumption
<1>2. Len(table) \in Nat \ {0}
  BY <1>1
<1>3. \A i \in 1 .. Len(table) : table[i] \in ArgEntry
  BY <1>1
<1>4. \A i \in 1 .. Len(table) :
        /\ table[i].kind = "end" <=> i = Len(table)
        /\ table[i].kind = "end" => table[i].max # 0
        /\ table[i].kind \in {"rem", "end"} => table[i].shorts \cup table[i].longs = {}
  BY TableAssumption
<1>5. table[Len(table)].kind = "end" /\ table[Len(table)].max \in Nat \ {0}
  <2>1. Len(table) \in 1 .. Len(table)
    BY <1>2
  <2>2. table[Len(table)].kind = "end" /\ table[Len(table)].max # 0
    BY <1>4, <2>1
  <2>3. table[Len(table)].max \in Nat
    BY <1>3, <2>1 DEF ArgEntry
  <2> QED BY <2>2, <2>3
<1> QED BY <1>2, <1>3, <1>4, <1>5 DEF Scans

(* The end entry has a message for every code.                             *)
LEMMA EndTells ==
  ASSUME NEW table \in ArgTables, NEW code \in Codes
  PROVE  Error(Len(table), code) \in ErrorsOf(table)
<1>1. Len(table) \in 1 .. Len(table) /\ table[Len(table)].kind = "end"
  BY TableIs
<1>2. Printed(table[Len(table)], code)
  BY <1>1 DEF Printed, errorfn_end
<1> QED BY <1>1, <1>2 DEF ErrorsOf, Error

(* arg_register_error keeps what there is room for, and the last place     *)
(* says when there is none.                                                *)
LEMMA RegisteredKeeps ==
  ASSUME argtable \in ArgTables, NEW kept, NEW all, NEW error \in ErrorsOf(argtable),
         KeptOf(argtable, kept, all)
  PROVE  KeptOf(argtable, Registered(kept, error), Append(all, error))
<1> DEFINE E == ErrorsOf(argtable)
           last == Len(argtable)
           max == argtable[last].max
           elimit == Error(last, "ELIMIT")
<1>1. max \in Nat \ {0}
  BY TableIs
<1>2. elimit \in E
  BY EndTells DEF Codes
<1>3. kept \in Seq(E) /\ all \in Seq(E) /\ error \in E
  BY DEF KeptOf
<1>4. /\ Len(kept) = IF Len(all) < max THEN Len(all) ELSE max
      /\ \A k \in 1 .. Len(kept) :
           kept[k] = IF k = max /\ Len(all) > max THEN elimit ELSE all[k]
  BY DEF KeptOf
<1>5. Registered(kept, error) = IF Len(kept) < max THEN Append(kept, error)
                                ELSE [kept EXCEPT ![max] = elimit]
  BY DEF Registered, EndIndex
<1>6. KeptOf(argtable, kept, all) <=>
        /\ kept \in Seq(E) /\ all \in Seq(E)
        /\ Len(kept) = IF Len(all) < max THEN Len(all) ELSE max
        /\ \A k \in 1 .. Len(kept) :
             kept[k] = IF k = max /\ Len(all) > max THEN elimit ELSE all[k]
  BY DEF KeptOf
<1> DEFINE r == Registered(kept, error)
           more == Append(all, error)
<1>7. /\ more \in Seq(E) /\ Len(more) = Len(all) + 1
      /\ more[Len(all) + 1] = error
      /\ \A k \in 1 .. Len(all) : more[k] = all[k]
  BY <1>3
<1>8. CASE Len(kept) < max
  <2> HIDE DEF E, max, elimit, last
  <2>1. r \in Seq(E) /\ Len(r) = Len(kept) + 1 /\ r[Len(kept) + 1] = error
        /\ \A k \in 1 .. Len(kept) : r[k] = kept[k]
    BY <1>3, <1>5, <1>8
  <2> HIDE DEF r, more
  <2>2. Len(all) \in Nat /\ Len(kept) = Len(all) /\ Len(all) < max
    BY <1>1, <1>3, <1>4, <1>8
  <2>3. Len(r) = IF Len(more) < max THEN Len(more) ELSE max
    BY <1>1, <1>7, <2>1, <2>2
  <2>4. \A k \in 1 .. Len(r) :
          r[k] = IF k = max /\ Len(more) > max THEN elimit ELSE more[k]
    BY <1>1, <1>4, <1>7, <2>1, <2>2
  <2>5. r \in Seq(E)
    BY <2>1
  <2>6. KeptOf(argtable, r, more)
    BY <1>7, <2>3, <2>4, <2>5, Zenon DEF KeptOf, E, max, elimit, last
  <2> QED BY <2>6 DEF r, more
<1>9. CASE ~ (Len(kept) < max)
  <2> HIDE DEF E, max, elimit, last
  <2>1. Len(kept) = max /\ Len(all) >= max /\ Len(all) \in Nat
    BY <1>1, <1>3, <1>4, <1>9
  <2>2. r \in Seq(E) /\ Len(r) = Len(kept) /\ r[max] = elimit
        /\ \A k \in 1 .. Len(kept) : k # max => r[k] = kept[k]
    BY <1>1, <1>2, <1>3, <1>5, <1>9, <2>1
  <2> HIDE DEF r, more
  <2>3. Len(r) = IF Len(more) < max THEN Len(more) ELSE max
    BY <1>1, <1>7, <2>1, <2>2
  <2>4. \A k \in 1 .. Len(r) :
          r[k] = IF k = max /\ Len(more) > max THEN elimit ELSE more[k]
    BY <1>1, <1>4, <1>7, <2>1, <2>2
  <2>5. KeptOf(argtable, r, more)
    BY <1>7, <2>2, <2>3, <2>4, Zenon DEF KeptOf, E, max, elimit, last
  <2> QED BY <2>5 DEF r, more
<1> QED BY <1>8, <1>9

(* So do several calls, one after the other.                               *)
LEMMA RegistersKeeps ==
  ASSUME argtable \in ArgTables, argtable' = argtable,
         KeptOf(argtable, errors, found),
         NEW news \in Seq(ErrorsOf(argtable)), Registers(news)
  PROVE  KeptOf(argtable, errors, found)'
<1> DEFINE E == ErrorsOf(argtable)
           S == Seq(E)
           N == Len(news)
           all == [k \in 0 .. N |-> found \o SubSeq(news, 1, k)]
           P == [k \in 0 .. N |-> {q \in S : KeptOf(argtable, q, all[k])}]
           t == [k \in 1 .. N |-> [q \in S |-> Registered(q, news[k])]]
           Is(g) == g = [k \in 0 .. Len(news) |->
                           IF k = 0 THEN errors ELSE Registered(g[k - 1], news[k])]
<1>1. N \in Nat /\ errors \in S /\ found \in S
  BY DEF KeptOf
<1>2. \A q \in S : \A k \in 1 .. N : Registered(q, news[k]) \in S
  <2>1. Error(Len(argtable), "ELIMIT") \in E
    BY EndTells DEF Codes
  <2>2. argtable[Len(argtable)].max \in Nat \ {0}
    BY TableIs
  <2>3. \A k \in 1 .. N : news[k] \in E
    BY <1>1
  <2> HIDE DEF E
  <2> QED BY <1>1, <2>1, <2>2, <2>3 DEF Registered, EndIndex
<1>3. all[0] = found /\ all[N] = found \o news
  <2>1. 0 \in 0 .. N /\ N \in 0 .. N
    BY <1>1
  <2>2. SubSeq(news, 1, 0) = <<>> /\ SubSeq(news, 1, N) = news
    BY <1>1
  <2>3. found \o <<>> = found
    BY <1>1
  <2> QED BY <2>1, <2>2, <2>3
<1>4. \A k \in 1 .. N : all[k] = Append(all[k - 1], news[k])
  <2> SUFFICES ASSUME NEW k \in 1 .. N PROVE all[k] = Append(all[k - 1], news[k])
    OBVIOUS
  <2>1. k \in 0 .. N /\ k - 1 \in 0 .. N
    BY <1>1
  <2>2. all[k] = found \o SubSeq(news, 1, k) /\ all[k - 1] = found \o SubSeq(news, 1, k - 1)
    BY <2>1
  <2>3. SubSeq(news, 1, k) = Append(SubSeq(news, 1, k - 1), news[k])
    BY <1>1
  <2>4. SubSeq(news, 1, k - 1) \in Seq(E) /\ news[k] \in E
    BY <1>1
  <2> HIDE DEF E
  <2>5. \A p \in Seq(E) : \A e \in E : found \o Append(p, e) = Append(found \o p, e)
    BY <1>1
  <2> HIDE DEF all
  <2> QED BY <2>2, <2>3, <2>4, <2>5
<1> HIDE DEF all
<1>5. errors \in P[0]
  <2>1. 0 \in 0 .. N
    BY <1>1
  <2> QED BY <1>1, <1>3, <2>1
<1>6. \A k \in 1 .. N : \A q \in P[k - 1] : q \in S /\ Registered(q, news[k]) \in P[k]
  <2> SUFFICES ASSUME NEW k \in 1 .. N, NEW q \in P[k - 1]
               PROVE  q \in S /\ Registered(q, news[k]) \in P[k]
    OBVIOUS
  <2>1. k \in 0 .. N /\ k - 1 \in 0 .. N
    BY <1>1
  <2>2. q \in S /\ KeptOf(argtable, q, all[k - 1])
    BY <2>1
  <2>3. news[k] \in E
    BY <1>1
  <2>4. KeptOf(argtable, Registered(q, news[k]), Append(all[k - 1], news[k]))
    BY <2>2, <2>3, RegisteredKeeps
  <2>5. Registered(q, news[k]) \in S
    BY <1>2, <2>2
  <2>6. KeptOf(argtable, Registered(q, news[k]), all[k])
    BY <1>4, <2>4
  <2> QED BY <2>1, <2>2, <2>5, <2>6
<1>7. P \in [0 .. N -> SUBSET S]
  OBVIOUS
<1>8. t \in [1 .. N -> [S -> S]]
  BY <1>2
<1>9. \A k \in 1 .. N : \A q \in P[k - 1] : t[k][q] \in P[k]
  BY <1>6
<1>10. \A k \in 1 .. N : \A q \in S : t[k][q] = Registered(q, news[k])
  OBVIOUS
<1> HIDE DEF P, t, S, N
<1>11. PICK f : TurnsOf(S, errors, t, N, f) /\ \A k \in 0 .. N : f[k] \in P[k]
  BY <1>1, <1>5, <1>7, <1>8, <1>9, TurnsExist
<1>12. Is(f)
  <2>1. f \in [0 .. N -> S]
        /\ \A k \in 0 .. N : f[k] = IF k = 0 THEN errors ELSE t[k][f[k - 1]]
    BY <1>11 DEF TurnsOf
  <2>2. \A k \in 0 .. N : f[k] = IF k = 0 THEN errors ELSE Registered(f[k - 1], news[k])
    <3> SUFFICES ASSUME NEW k \in 0 .. N, k # 0
                 PROVE  f[k] = Registered(f[k - 1], news[k])
      BY <2>1
    <3>1. k \in 1 .. N /\ k - 1 \in 0 .. N
      BY <1>1
    <3>2. f[k - 1] \in S
      BY <2>1, <3>1
    <3> QED BY <1>10, <2>1, <3>1, <3>2
  <2> QED BY <2>1, <2>2 DEF N
<1>13. errors' = (CHOOSE g : Is(g))[Len(news)]
  BY DEF Registers
<1> DEFINE h == CHOOSE g : Is(g)
<1>14. Is(h)
  BY <1>12
<1>15. h[0] = errors /\ \A k \in 1 .. N : h[k] = Registered(h[k - 1], news[k])
  <2>1. 0 \in 0 .. N /\ \A k \in 1 .. N : k \in 0 .. N /\ k # 0
    BY <1>1
  <2> HIDE DEF h
  <2> QED BY <1>14, <2>1 DEF N
<1> HIDE DEF h, Is
<1>16. \A k \in 0 .. N : h[k] \in P[k]
  <2>1. \A k \in 1 .. N : h[k - 1] \in P[k - 1] => h[k] \in P[k]
    BY <1>6, <1>15
  <2> QED BY <1>1, <1>5, <1>15, <2>1, TurnsHold
<1>17. errors' \in P[N]
  BY <1>1, <1>13, <1>16 DEF h, N
<1>18. KeptOf(argtable, errors', found \o news)
  <2>1. N \in 0 .. N
    BY <1>1
  <2>2. P[N] = {q \in S : KeptOf(argtable, q, all[N])}
    BY <2>1 DEF P
  <2> QED BY <1>3, <1>17, <2>2
<1> QED BY <1>18 DEF Registers

-----------------------------------------------------------------------------
(* A scanfn gives a code its entry has a message for, and keeps the        *)
(* entry's program as it is.                                               *)
LEMMA ScanTold ==
  ASSUME argtable \in ArgTables, NEW i \in 1 .. Len(argtable), Scans(argtable[i]),
         ArgsOf(argtable, args), NEW text
  PROVE  /\ \/ Scan(i, text).code = "ok"
            \/ Error(i, Scan(i, text).code) \in ErrorsOf(argtable)
         /\ DOMAIN Scan(i, text).s = {"count", "compiled", "vals"}
         /\ Scan(i, text).s.compiled = args[i].compiled
<1> DEFINE e == argtable[i]  s == args[i]  r == Scan(i, text)
           Fields == {"count", "compiled", "vals"}
           Fine(c) == c = "ok" \/ (c \in Codes /\ Printed(e, c))
<1>1. DOMAIN s = Fields
  BY DEF ArgsOf
<1>2. e.kind \in {"lit", "int", "dbl", "str", "file", "date", "rex"}
  <2>1. e \in ArgEntry
    BY TableIs
  <2> QED BY <2>1 DEF ArgEntry, Scans
<1>3. \A v : /\ DOMAIN Took(s, v).s = Fields /\ Took(s, v).s.compiled = s.compiled
             /\ Took(s, v).code = "ok"
  BY <1>1 DEF Took
<1>4. DOMAIN Unvalued(s).s = Fields /\ Unvalued(s).s.compiled = s.compiled
      /\ Unvalued(s).code = "ok"
  BY <1>1 DEF Unvalued
<1>5. Excess(s).s = s /\ Excess(s).code = "EMAXCOUNT"
  BY DEF Excess
<1>6. \A c : Refused(s, c).s = s /\ Refused(s, c).code = c
  BY DEF Refused
<1> HIDE DEF e, s
<1> DEFINE Good(x) == /\ Fine(x.code) /\ DOMAIN x.s = Fields /\ x.s.compiled = s.compiled
<1>7. Good(r)
  <2> HIDE DEF Fields
  <2>1. CASE e.kind = "lit"
    <3>1. r = scanfn_lit(e, s)
      BY <2>1 DEF Scan, e, s
    <3>2. Fine("EMAXCOUNT")
      BY <2>1 DEF Printed, errorfn_lit, Codes
    <3> QED BY <1>1, <1>4, <1>5, <3>1, <3>2 DEF scanfn_lit
  <2>2. CASE e.kind = "int"
    <3>1. r = scanfn_int(e, s, text)
      BY <2>2 DEF Scan, e, s
    <3>2. Fine("EMAXCOUNT") /\ Fine("EBADINT") /\ Fine("EOVERFLOW")
      BY <2>2 DEF Printed, errorfn_int, Codes
    <3>3. IntCode(text) \in {"ok", "EBADINT", "EOVERFLOW"}
      BY DEF IntCode
    <3> QED BY <1>1, <1>3, <1>4, <1>5, <1>6, <3>1, <3>2, <3>3 DEF scanfn_int
  <2>3. CASE e.kind = "dbl"
    <3>1. r = scanfn_double(e, s, text)
      BY <2>3 DEF Scan, e, s
    <3>2. Fine("EMAXCOUNT") /\ Fine("EBADDOUBLE")
      BY <2>3 DEF Printed, errorfn_double, Codes
    <3>3. DblCode(text) \in {"ok", "EBADDOUBLE"}
      BY DEF DblCode
    <3> QED BY <1>1, <1>3, <1>4, <1>5, <1>6, <3>1, <3>2, <3>3 DEF scanfn_double
  <2>4. CASE e.kind = "str"
    <3>1. r = scanfn_str(e, s, text)
      BY <2>4 DEF Scan, e, s
    <3>2. Fine("EMAXCOUNT")
      BY <2>4 DEF Printed, errorfn_str, Codes
    <3> QED BY <1>1, <1>3, <1>4, <1>5, <3>1, <3>2 DEF scanfn_str
  <2>5. CASE e.kind = "file"
    <3>1. r = scanfn_file(e, s, text)
      BY <2>5 DEF Scan, e, s
    <3>2. Fine("EMAXCOUNT")
      BY <2>5 DEF Printed, errorfn_file, Codes
    <3> QED BY <1>1, <1>3, <1>4, <1>5, <3>1, <3>2 DEF scanfn_file
  <2>6. CASE e.kind = "date"
    <3>1. r = scanfn_date(e, s, text)
      BY <2>6 DEF Scan, e, s
    <3>2. Fine("EMAXCOUNT") /\ Fine("EBADDATE")
      BY <2>6 DEF Printed, errorfn_date, Codes
    <3> QED BY <1>1, <1>3, <1>4, <1>5, <1>6, <3>1, <3>2 DEF scanfn_date
  <2>7. CASE e.kind = "rex"
    <3>1. r = scanfn_rex(e, s, text)
      BY <2>7 DEF Scan, e, s
    <3>2. Fine("EMAXCOUNT") /\ Fine("REG_NOMATCH")
      BY <2>7 DEF Printed, errorfn_rex, Codes
    <3> QED BY <1>1, <1>3, <1>4, <1>5, <1>6, <3>1, <3>2 DEF scanfn_rex
  <2> QED BY <1>2, <2>1, <2>2, <2>3, <2>4, <2>5, <2>6, <2>7
<1>8. \/ r.code = "ok"
      \/ Error(i, r.code) \in ErrorsOf(argtable)
  BY <1>7 DEF ErrorsOf, Error, e
<1> QED BY <1>7, <1>8 DEF s

(* The entries after the scanfn of one.                                    *)
LEMMA ScanKeeps ==
  ASSUME argtable \in ArgTables, NEW i \in 1 .. Len(argtable), Scans(argtable[i]),
         ArgsOf(argtable, args), NEW text,
         args' = [args EXCEPT ![i] = Scan(i, text).s]
  PROVE  /\ ArgsOf(argtable, args')
         /\ Compiled(argtable, args) => Compiled(argtable, args')
<1> DEFINE s == Scan(i, text).s
<1>1. DOMAIN s = {"count", "compiled", "vals"} /\ s.compiled = args[i].compiled
  BY ScanTold
<1> HIDE DEF s
<1>2. args' = [args EXCEPT ![i] = s]
  BY DEF s
<1> QED BY <1>1, <1>2 DEF ArgsOf, Compiled

(* What getopt_long finds is an entry with the name it looked for.         *)
LEMMA OptionFound ==
  ASSUME argtable \in ArgTables, argv[optind].type \in {"long", "short"},
         GetOpt.copt \in {"long", "short"}
  PROVE  /\ GetOpt.copt = argv[optind].type
         /\ argv[optind].type = "long" =>
              \E i \in 1 .. Len(argtable) - 1 :
                GetOpt.val = i - 1 /\ argv[optind].name \in argtable[i].longs
         /\ argv[optind].type = "short" =>
              \E i \in 1 .. Len(argtable) - 1 : argv[optind].name \in argtable[i].shorts
<1> DEFINE token == argv[optind]
           known == {o \in IF token.type = "long" THEN LongOptions ELSE ShortOptions :
                       o.name = token.name}
           o == CHOOSE x \in known : TRUE
<1>1. known # {} /\ GetOpt.copt = token.type /\ GetOpt.val = o.val
  BY DEF GetOpt
<1>2. o \in known
  BY <1>1
<1> HIDE DEF o
<1>3. ASSUME token.type = "long"
      PROVE  \E i \in 1 .. Len(argtable) - 1 : o.val = i - 1 /\ token.name \in argtable[i].longs
  <2>1. o \in LongOptions /\ o.name = token.name
    BY <1>2, <1>3
  <2>2. PICK i \in 1 .. Len(argtable) - 1 :
          o \in {[name |-> n, val |-> i - 1,
                  has_arg |-> IF "HASOPTVALUE" \in argtable[i].flags THEN 2
                              ELSE IF "HASVALUE" \in argtable[i].flags THEN 1 ELSE 0]
                 : n \in argtable[i].longs}
    BY <2>1, Zenon DEF LongOptions, EndIndex
  <2>3. PICK n \in argtable[i].longs : o.name = n /\ o.val = i - 1
    BY <2>2
  <2> QED BY <2>1, <2>3
<1>4. ASSUME token.type = "short"
      PROVE  \E i \in 1 .. Len(argtable) - 1 : token.name \in argtable[i].shorts
  <2>1. o \in ShortOptions /\ o.name = token.name
    BY <1>2, <1>4
  <2>2. PICK i \in 1 .. Len(argtable) - 1 :
          o \in {[name |-> n, val |-> i - 1,
                  has_arg |-> Cardinality(argtable[i].flags \cap {"HASVALUE", "HASOPTVALUE"})]
                 : n \in argtable[i].shorts}
    BY <2>1, Zenon DEF ShortOptions, EndIndex
  <2>3. PICK n \in argtable[i].shorts : o.name = n
    BY <2>2
  <2> QED BY <2>1, <2>3
<1> QED BY <1>1, <1>3, <1>4

LEMMA ShortFound ==
  ASSUME argtable \in ArgTables, NEW c, NEW j \in 1 .. Len(argtable) - 1, c \in argtable[j].shorts
  PROVE  /\ find_shortoption(c) \in 1 .. Len(argtable) - 1
         /\ c \in argtable[find_shortoption(c)].shorts
<1> DEFINE T == {i \in 1 .. Len(argtable) - 1 : c \in argtable[i].shorts}
<1>1. T \subseteq Nat /\ T # {}
  OBVIOUS
<1>2. find_shortoption(c) = CHOOSE x \in T : \A y \in T : x <= y
  BY DEF find_shortoption, Min, EndIndex
<1>3. \E x \in T : \A y \in T : x <= y
  <2> HIDE DEF T
  <2> QED BY <1>1, LeastNat
<1>4. find_shortoption(c) \in T
  <2> HIDE DEF T
  <2> QED BY <1>2, <1>3, Zenon
<1> QED BY <1>4

-----------------------------------------------------------------------------
LEMMA OptInitInv == OptInit => OptInv
<1> SUFFICES ASSUME OptInit PROVE OptInv
  OBVIOUS
<1> USE DEF OptInit
<1>1. argtable \in ArgTables /\ Len(argtable) \in Nat \ {0}
  BY TableIs
<1>2. KeptOf(argtable, errors, found)
  <2>1. argtable[Len(argtable)].max \in Nat \ {0}
    BY <1>1, TableIs
  <2> QED BY <2>1 DEF KeptOf
<1>3. ArgsOf(argtable, args)
  <2>1. \A i \in 1 .. Len(argtable) :
          args[i] = [count |-> 0, compiled |-> 0,
                     vals |-> [j \in 1 .. argtable[i].max |-> NoText]]
    BY DEF EndIndex
  <2>2. DOMAIN args = 1 .. Len(argtable)
    BY DEF EndIndex
  <2> QED BY <2>1, <2>2 DEF ArgsOf
<1> QED BY <1>1, <1>2, <1>3 DEF OptInv

(* The value of an option, and the errors before it.                       *)
LEMMA ScannedInv ==
  ASSUME OptInv, NEW i \in 1 .. Len(argtable), Scans(argtable[i]), NEW text,
         NEW before \in Seq(ErrorsOf(argtable)), Scanned(i, text, before),
         UNCHANGED <<argtable, stage, tabindex, tentative>>
  PROVE  OptInv'
<1>1. argtable \in ArgTables /\ ArgsOf(argtable, args) /\ KeptOf(argtable, errors, found)
  BY DEF OptInv
<1> DEFINE news == before \o IF Scan(i, text).code = "ok" THEN <<>>
                             ELSE <<Error(i, Scan(i, text).code)>>
<1>2. Scan(i, text).code = "ok" \/ Error(i, Scan(i, text).code) \in ErrorsOf(argtable)
  BY <1>1, ScanTold
<1>3. news \in Seq(ErrorsOf(argtable))
  <2> DEFINE E == ErrorsOf(argtable)  x == Error(i, Scan(i, text).code)
  <2> HIDE DEF E, x
  <2>1. Scan(i, text).code # "ok" => <<x>> \in Seq(E)
    BY <1>2 DEF E, x
  <2> QED BY <2>1 DEF E, x
<1> HIDE DEF news
<1>4. Registers(news)
  BY DEF Scanned, news
<1>5. KeptOf(argtable, errors, found)'
  BY <1>1, <1>3, <1>4, RegistersKeeps
<1>6. /\ ArgsOf(argtable, args')
      /\ Compiled(argtable, args) => Compiled(argtable, args')
  <2>1. args' = [args EXCEPT ![i] = Scan(i, text).s]
    BY DEF Scanned
  <2> QED BY <1>1, <2>1, ScanKeeps
<1> QED BY <1>5, <1>6, Zenon DEF OptInv

(* Each step of arg_parse keeps the invariant.                             *)
LEMMA OptInvKept == OptInv /\ [OptNext]_optVars => OptInv'
<1> SUFFICES ASSUME OptInv, [OptNext]_optVars PROVE OptInv'
  OBVIOUS
<1>1. /\ argtable \in ArgTables /\ ArgsOf(argtable, args) /\ KeptOf(argtable, errors, found)
      /\ Len(argtable) \in Nat \ {0}
  BY TableIs DEF OptInv
<1>2. ASSUME NEW line, ParseCall(line) PROVE OptInv'
  <2> USE <1>2 DEF ParseCall
  <2>1. argtable' = argtable /\ stage' = "tagged" /\ tabindex' = 1 /\ tentative' = NoError
    OBVIOUS
  <2>2. ArgsOf(argtable, args') /\ Compiled(argtable, args')
    <3>1. DOMAIN args' = 1 .. Len(argtable)
      BY DEF EndIndex
    <3>2. \A i \in 1 .. Len(argtable) : args'[i] = ResetFn(args[i], argtable[i])
      BY DEF EndIndex
    <3>3. \A i \in 1 .. Len(argtable) :
            /\ DOMAIN ResetFn(args[i], argtable[i]) = {"count", "compiled", "vals"}
            /\ argtable[i].kind = "rex" => ResetFn(args[i], argtable[i]).compiled = 1
      BY <1>1 DEF ResetFn, ArgsOf
    <3> QED BY <3>1, <3>2, <3>3 DEF ArgsOf, Compiled
  <2>3. KeptOf(argtable, errors', found')
    <3>1. errors' = <<>> /\ found' = <<>>
      OBVIOUS
    <3>2. argtable[Len(argtable)].max \in Nat \ {0}
      BY <1>1, TableIs
    <3> QED BY <3>1, <3>2 DEF KeptOf
  <2>4. 1 \in 1 .. Len(argtable)
    BY <1>1
  <2> QED BY <1>1, <2>1, <2>2, <2>3, <2>4 DEF OptInv
<1>3. ASSUME LongOption PROVE OptInv'
  <2> DEFINE i == GetOpt.val + 1  text == GetOpt.optarg
             before == IF text # NoText /\ Empty(text) /\ "HASVALUE" \in argtable[i].flags
                       THEN <<Error(EndIndex, "EMISSARG")>> ELSE <<>>
  <2>1. AtOption("long") /\ Scanned(i, text, before)
    BY <1>3, Zenon DEF LongOption
  <2>2. GetOpt.copt = "long" /\ argv[optind].type \in {"long", "short"}
        /\ UNCHANGED <<argtable, stage, tabindex, tentative>>
    BY <2>1 DEF AtOption
  <2>3. \E j \in 1 .. Len(argtable) - 1 :
          GetOpt.val = j - 1 /\ argv[optind].name \in argtable[j].longs
    BY <1>1, <2>2, OptionFound
  <2>4. PICK j \in 1 .. Len(argtable) - 1 :
          GetOpt.val = j - 1 /\ argv[optind].name \in argtable[j].longs
    BY <2>3, Zenon
  <2>5. i \in 1 .. Len(argtable) /\ i = j
    BY <1>1, <2>4
  <2>6. Scans(argtable[i])
    <3>1. argtable[j].shorts \cup argtable[j].longs # {} => Scans(argtable[j])
      BY <1>1, <2>5, TableIs
    <3> QED BY <2>4, <2>5, <3>1
  <2>7. before \in Seq(ErrorsOf(argtable))
    <3>1. Error(EndIndex, "EMISSARG") \in ErrorsOf(argtable)
      BY <1>1, EndTells DEF Codes, EndIndex
    <3> QED BY <3>1
  <2> HIDE DEF i, text, before
  <2> QED BY <2>1, <2>2, <2>5, <2>6, <2>7, ScannedInv
<1>4. ASSUME ShortOption PROVE OptInv'
  <2> DEFINE i == find_shortoption(argv[optind].name)  text == GetOpt.optarg
  <2>1. AtOption("short") /\ Scanned(i, text, <<>>)
    BY <1>4, Zenon DEF ShortOption
  <2>2. GetOpt.copt = "short" /\ argv[optind].type \in {"long", "short"}
        /\ UNCHANGED <<argtable, stage, tabindex, tentative>>
    BY <2>1 DEF AtOption
  <2>3. GetOpt.copt = argv[optind].type
        /\ (argv[optind].type = "short" =>
              \E j \in 1 .. Len(argtable) - 1 : argv[optind].name \in argtable[j].shorts)
    BY <1>1, <2>2, OptionFound
  <2>4. PICK j \in 1 .. Len(argtable) - 1 : argv[optind].name \in argtable[j].shorts
    BY <2>2, <2>3
  <2>5. i \in 1 .. Len(argtable) - 1 /\ argv[optind].name \in argtable[i].shorts
    BY <1>1, <2>4, ShortFound
  <2>6. i \in 1 .. Len(argtable)
    BY <1>1, <2>5
  <2>7. Scans(argtable[i])
    <3>1. argtable[i].shorts \cup argtable[i].longs # {} => Scans(argtable[i])
      BY <1>1, <2>6, TableIs
    <3> QED BY <2>5, <3>1
  <2>8. <<>> \in Seq(ErrorsOf(argtable))
    OBVIOUS
  <2> HIDE DEF i, text
  <2> QED BY <2>1, <2>2, <2>6, <2>7, <2>8, ScannedInv
<1>5. ASSUME NEW error \in ErrorsOf(argtable), Registers(<<error>>), argtable' = argtable
      PROVE  KeptOf(argtable, errors, found)'
  <2>1. <<error>> \in Seq(ErrorsOf(argtable))
    OBVIOUS
  <2> QED BY <1>1, <1>5, <2>1, RegistersKeeps
<1>6. \A code \in Codes : Error(EndIndex, code) \in ErrorsOf(argtable)
  BY <1>1, EndTells DEF EndIndex
<1>7. ASSUME UnknownOption PROVE OptInv'
  <2> DEFINE code == IF GetOpt.optopt = {} THEN "ELONGOPT" ELSE "letter"
  <2>1. AtOption("?") /\ Registers(<<Error(EndIndex, code)>>) /\ UNCHANGED args
    BY <1>7, Zenon DEF UnknownOption
  <2>2. code \in Codes
    BY DEF Codes
  <2>3. UNCHANGED <<argtable, stage, tabindex, tentative>>
    BY <2>1 DEF AtOption
  <2> HIDE DEF code
  <2>4. KeptOf(argtable, errors, found)'
    BY <1>5, <1>6, <2>1, <2>2, <2>3
  <2> QED BY <2>1, <2>3, <2>4, Zenon DEF OptInv
<1>8. ASSUME MissingValue PROVE OptInv'
  <2>1. AtOption(":") /\ Registers(<<Error(EndIndex, "EMISSARG")>>) /\ UNCHANGED args
    BY <1>8, Zenon DEF MissingValue
  <2>2. UNCHANGED <<argtable, stage, tabindex, tentative>>
    BY <2>1 DEF AtOption
  <2>3. Error(EndIndex, "EMISSARG") \in ErrorsOf(argtable)
    BY <1>6 DEF Codes
  <2>4. KeptOf(argtable, errors, found)'
    BY <1>5, <2>1, <2>2, <2>3
  <2> QED BY <2>1, <2>2, <2>4, Zenon DEF OptInv
<1>9. ASSUME Permute PROVE OptInv'
  <2>1. UNCHANGED <<argtable, stage, tabindex, tentative, args, errors, found>>
    BY <1>9 DEF Permute
  <2> QED BY <2>1, Zenon DEF OptInv
<1>10. ASSUME TaggedEnd PROVE OptInv'
  <2>1. stage = "tagged" /\ stage' = "untagged"
        /\ UNCHANGED <<argtable, tabindex, tentative, args, errors, found>>
    BY <1>10 DEF TaggedEnd
  <2> QED BY <2>1 DEF OptInv
<1>11. ASSUME SkipEntry PROVE OptInv'
  <2>1. /\ stage = "untagged" /\ tabindex < Len(argtable) /\ tabindex' = tabindex + 1
        /\ UNCHANGED <<argtable, stage, tentative, args, errors, found>>
    BY <1>11 DEF SkipEntry, AtEntry, EndIndex
  <2>2. tabindex' \in 1 .. Len(argtable)
    BY <1>1, <2>1 DEF OptInv
  <2> QED BY <2>1, <2>2 DEF OptInv
<1>12. ASSUME TryEntry PROVE OptInv'
  <2> DEFINE text == words[optind]
  <2>1. /\ AtEntry /\ Scans(argtable[tabindex])
        /\ args' = [args EXCEPT ![tabindex] = Scan(tabindex, text).s]
        /\ \/ tentative' = NoError /\ tabindex' = tabindex
           \/ /\ Scan(tabindex, text).code # "ok" /\ tabindex' = tabindex + 1
              /\ tentative' = Error(tabindex, Scan(tabindex, text).code)
    BY <1>12, Zenon DEF TryEntry
  <2>2. /\ stage = "untagged" /\ tabindex < Len(argtable)
        /\ UNCHANGED <<argtable, stage, errors, found>>
    BY <2>1 DEF AtEntry, EndIndex
  <2>3. tabindex \in 1 .. Len(argtable) /\ tabindex' \in 1 .. Len(argtable)
    BY <1>1, <2>1, <2>2 DEF OptInv
  <2>4. /\ ArgsOf(argtable, args')
        /\ Compiled(argtable, args) => Compiled(argtable, args')
    BY <1>1, <2>1, <2>3, ScanKeeps
  <2>5. \/ Scan(tabindex, text).code = "ok"
        \/ Error(tabindex, Scan(tabindex, text).code) \in ErrorsOf(argtable)
    BY <1>1, <2>1, <2>3, ScanTold
  <2>6. tentative' \in ErrorsOf(argtable) \cup {NoError}
    BY <2>1, <2>5
  <2>7. Compiled(argtable, args')
    BY <2>2, <2>4 DEF OptInv
  <2> QED BY <1>1, <2>2, <2>3, <2>4, <2>6, <2>7 DEF OptInv
<1>13. ASSUME LeftOver PROVE OptInv'
  <2> DEFINE error == IF tentative = NoError THEN Error(EndIndex, "ENOMATCH") ELSE tentative
  <2>1. /\ Registers(<<error>>) /\ tentative' = NoError
        /\ UNCHANGED <<argtable, stage, tabindex, args>>
    BY <1>13, Zenon DEF LeftOver
  <2>2. error \in ErrorsOf(argtable)
    BY <1>6 DEF Codes, OptInv
  <2> HIDE DEF error
  <2>3. KeptOf(argtable, errors, found)'
    BY <1>5, <2>1, <2>2
  <2>4. tentative' \in ErrorsOf(argtable) \cup {NoError}
    BY <2>1
  <2> QED BY <2>1, <2>3, <2>4, Zenon DEF OptInv
<1>14. ASSUME UntaggedEnd PROVE OptInv'
  <2>1. /\ stage' \in {"check", "parsed"} /\ tabindex' = 1
        /\ UNCHANGED <<argtable, tentative, args, errors, found>>
    BY <1>14 DEF UntaggedEnd
  <2>2. tabindex' \in 1 .. Len(argtable)
    BY <1>1, <2>1
  <2> QED BY <2>1, <2>2 DEF OptInv
<1>15. ASSUME CheckEntry PROVE OptInv'
  <2> DEFINE news == IF checkfn(argtable[tabindex], args[tabindex])
                     THEN <<Error(tabindex, "EMINCOUNT")>> ELSE <<>>
  <2>1. /\ stage = "check" /\ Registers(news)
        /\ args' = [args EXCEPT ![tabindex].compiled = 0]
        /\ stage' = IF tabindex = Len(argtable) THEN "parsed" ELSE "check"
        /\ tabindex' = tabindex + 1
        /\ UNCHANGED <<argtable, tentative>>
    BY <1>15, Zenon DEF CheckEntry, EndIndex
  <2>2. tabindex \in 1 .. Len(argtable)
    BY <2>1 DEF OptInv
  <2>3. checkfn(argtable[tabindex], args[tabindex]) =>
          Error(tabindex, "EMINCOUNT") \in ErrorsOf(argtable)
    <3> DEFINE e == argtable[tabindex]
    <3>1. e \in ArgEntry
      BY <1>1, <2>2, TableIs
    <3>2. Scans(e) => Printed(e, "EMINCOUNT")
      <4>1. Scans(e) => e.kind \in {"lit", "int", "dbl", "str", "file", "date", "rex"}
        BY <3>1 DEF ArgEntry, Scans
      <4> HIDE DEF e
      <4> QED BY <4>1 DEF Printed, errorfn_lit, errorfn_int, errorfn_double, errorfn_str,
                          errorfn_file, errorfn_date, errorfn_rex, Codes
    <3> QED BY <2>2, <3>2 DEF checkfn, ErrorsOf, Error, Codes
  <2>4. news \in Seq(ErrorsOf(argtable))
    <3> DEFINE E == ErrorsOf(argtable)  x == Error(tabindex, "EMINCOUNT")
    <3> HIDE DEF E, x
    <3>1. checkfn(argtable[tabindex], args[tabindex]) => <<x>> \in Seq(E)
      BY <2>3 DEF E, x
    <3> QED BY <3>1 DEF E, x
  <2> HIDE DEF news
  <2>5. KeptOf(argtable, errors, found)'
    BY <1>1, <2>1, <2>4, RegistersKeeps
  <2>6. ArgsOf(argtable, args')
    BY <1>1, <2>1, <2>2 DEF ArgsOf
  <2>7. stage' \in {"check", "parsed"}
        /\ (stage' = "check" => tabindex' \in 1 .. Len(argtable))
    BY <1>1, <2>1, <2>2
  <2>8. tentative' \in ErrorsOf(argtable) \cup {NoError}
    BY <2>1 DEF OptInv
  <2> QED BY <1>1, <2>1, <2>5, <2>6, <2>7, <2>8 DEF OptInv
<1>16. ASSUME UNCHANGED optVars PROVE OptInv'
  <2>1. UNCHANGED <<argtable, stage, tabindex, tentative, args, errors, found>>
    BY <1>16 DEF optVars
  <2> QED BY <2>1, Zenon DEF OptInv
<1> QED BY <1>2, <1>3, <1>4, <1>7, <1>8, <1>9, <1>10, <1>11, <1>12, <1>13, <1>14, <1>15,
           <1>16, Zenon DEF OptNext

LEMMA OptInvHolds == OptInv => ErrorsTold
<1> SUFFICES ASSUME OptInv PROVE ErrorsTold
  OBVIOUS
<1> DEFINE E == ErrorsOf(argtable)
           last == Len(argtable)
           max == argtable[last].max
<1>1. argtable \in ArgTables /\ KeptOf(argtable, errors, found)
  BY DEF OptInv
<1>2. max \in Nat \ {0}
  BY <1>1, TableIs
<1>3. /\ errors \in Seq(E) /\ found \in Seq(E)
      /\ Len(errors) = IF Len(found) < max THEN Len(found) ELSE max
      /\ \A k \in 1 .. Len(errors) :
           errors[k] = IF k = max /\ Len(found) > max THEN Error(last, "ELIMIT") ELSE found[k]
  BY <1>1 DEF KeptOf
<1>4. Len(errors) = Min({max, Len(found)})
  <2> HIDE DEF E, max
  <2>1. Len(found) \in Nat
    BY <1>3
  <2> QED BY <1>2, <1>3, <2>1 DEF Min
<1>5. \A k \in 1 .. Len(errors) : Printed(argtable[errors[k].parent], errors[k].code)
  <2>1. \A e \in E : Printed(argtable[e.parent], e.code)
    BY DEF ErrorsOf
  <2>2. \A k \in 1 .. Len(errors) : errors[k] \in E
    <3> HIDE DEF E
    <3> QED BY <1>3
  <2> HIDE DEF E
  <2> QED BY <2>1, <2>2, Zenon
<1>6. stage \in {"tagged", "untagged"} =>
        \A i \in 1 .. Len(argtable) : argtable[i].kind = "rex" => args[i].compiled = 1
  BY DEF OptInv, Compiled
<1> HIDE DEF E
<1> QED BY <1>3, <1>4, <1>5, <1>6, Zenon DEF ErrorsTold, EndIndex

(* The end entry keeps the first errors, as many as it has room for, and   *)
(* says so when there were more; none of them is silent when printed, and  *)
(* no text is matched with a regular expression that is not compiled, for  *)
(* any tables, any command lines and any number of calls of arg_parse      *)
(* (etc_argtable2.c:53-70 and 479-556).                                    *)
THEOREM ErrorsToldHolds == OptSpec => []ErrorsTold
BY OptInitInv, OptInvKept, OptInvHolds, PTL DEF OptSpec

-----------------------------------------------------------------------------
(* What arg_parse makes of a line.  The lemmas up to FineIs are about the  *)
(* reference, the texts and getopt_long; the invariant, ParseInv, relates  *)
(* what the code has come to with what the reference says up to there, and *)
(* there is a lemma for each step.                                         *)
(*                                                                         *)
(* The kinds of entries and their names: a name is of one entry.           *)
LEMMA EntriesAre ==
  ASSUME NEW table \in ArgTables
  PROVE  /\ Len(table) \in Nat \ {0} /\ ~Scans(table[Len(table)])
         /\ \A i \in 1 .. Len(table) :
              /\ table[i] \in ArgEntry /\ table[i].min \in Nat /\ table[i].max \in Nat
              /\ Tagged(table[i]) => Scans(table[i]) /\ i \in 1 .. Len(table) - 1
              /\ table[i].kind = "lit" => table[i].flags = {}
              /\ Scans(table[i]) /\ table[i].kind # "lit" =>
                   table[i].flags \in {{"HASVALUE"}, {"HASVALUE", "HASOPTVALUE"}}
              /\ \A j \in 1 .. Len(table) : j # i =>
                   /\ table[i].shorts \cap table[j].shorts = {}
                   /\ table[i].longs \cap table[j].longs = {}
<1>1. /\ Len(table) \in Nat \ {0} /\ table[Len(table)].kind = "end"
      /\ \A i \in 1 .. Len(table) :
           /\ table[i] \in ArgEntry
           /\ table[i].kind = "end" => i = Len(table)
           /\ table[i].shorts \cup table[i].longs # {} => Scans(table[i])
  BY TableIs
<1>2. \A i \in 1 .. Len(table) :
        /\ table[i].kind = "lit" => table[i].flags = {}
        /\ table[i].kind \notin {"lit", "rem", "end"} =>
             table[i].flags \in {{"HASVALUE"}, {"HASVALUE", "HASOPTVALUE"}}
        /\ \A j \in 1 .. Len(table) : j # i =>
             /\ table[i].shorts \cap table[j].shorts = {}
             /\ table[i].longs \cap table[j].longs = {}
  BY TableAssumption
<1>3. ~Scans(table[Len(table)])
  BY <1>1 DEF Scans
<1>4. ASSUME NEW i \in 1 .. Len(table), Tagged(table[i])
      PROVE  Scans(table[i]) /\ i \in 1 .. Len(table) - 1
  <2>1. Scans(table[i])
    BY <1>1, <1>4 DEF Tagged
  <2>2. i # Len(table)
    BY <1>3, <2>1
  <2> QED BY <1>1, <2>1, <2>2
<1>5. \A i \in 1 .. Len(table) : table[i].min \in Nat /\ table[i].max \in Nat
  BY <1>1 DEF ArgEntry
<1>6. \A i \in 1 .. Len(table) :
        Scans(table[i]) /\ table[i].kind # "lit" =>
          table[i].flags \in {{"HASVALUE"}, {"HASVALUE", "HASOPTVALUE"}}
  BY <1>2 DEF Scans
<1> QED BY <1>1, <1>2, <1>3, <1>4, <1>5, <1>6

(* The entry an option names.                                              *)
LEMMA NamedIs ==
  ASSUME NEW table \in ArgTables, NEW token, token.type \in {"long", "short"}
  PROVE  /\ \A i \in Named(table, token) :
              /\ i \in 1 .. Len(table) - 1 /\ i \in 1 .. Len(table)
              /\ Tagged(table[i]) /\ Scans(table[i])
         /\ \A i, j \in Named(table, token) : i = j
<1>1. \A i \in Named(table, token) : i \in 1 .. Len(table) - 1 /\ i \in 1 .. Len(table)
  BY EntriesAre DEF Named
<1>2. \A i \in Named(table, token) : Tagged(table[i])
  BY DEF Named, Tagged
<1>3. \A i \in Named(table, token) : Scans(table[i])
  BY <1>1, <1>2, EntriesAre
<1>4. ASSUME NEW i \in Named(table, token), NEW j \in Named(table, token), i # j PROVE FALSE
  <2>1. /\ table[i].shorts \cap table[j].shorts = {}
        /\ table[i].longs \cap table[j].longs = {}
    BY <1>1, <1>4, EntriesAre
  <2>2. CASE token.type = "long"
    BY <2>1, <2>2 DEF Named
  <2>3. CASE token.type # "long"
    BY <2>1, <2>3 DEF Named
  <2> QED BY <2>2, <2>3
<1> QED BY <1>1, <1>2, <1>3, <1>4

(* The text of a token is one.                                             *)
LEMMA TextsAre ==
  /\ \A token \in ArgToken : TextOf(token) \in Texts
  /\ NoText \notin Texts
<1> SUFFICES ASSUME NEW token \in ArgToken PROVE TextOf(token) \in Texts
  BY TokenAssumption
<1>1. CASE token.type = "word"
  <2>1. token \in [type : {"word"}, text : Texts]
    BY <1>1 DEF ArgToken
  <2> QED BY <1>1, <2>1 DEF TextOf
<1>2. CASE token.type # "word"
  BY <1>2 DEF TextOf, Texts
<1> QED BY <1>1, <1>2

(* What the tokens of a line are.                                          *)
RoleNames == {"start", "word", "stop", "rest", "wants", "value", "option"}

LEMMA RolesAre ==
  ASSUME NEW table, NEW line \in Seq(ArgToken)
  PROVE  /\ Roles(table, line)[0] = "start"
         /\ \A p \in 0 .. Len(line) : Roles(table, line)[p] \in RoleNames
         /\ \A p \in 1 .. Len(line) :
              Roles(table, line)[p] = RoleAfter(table, Roles(table, line)[p - 1], line[p])
<1> DEFINE N == Len(line)
           E(p, r) == RoleAfter(table, r, line[p])
           Is(g) == g = [p \in 0 .. N |-> IF p = 0 THEN "start" ELSE E(p, g[p - 1])]
           t == [p \in 1 .. N |-> [r \in RoleNames |-> E(p, r)]]
<1>1. N \in Nat
  OBVIOUS
<1>2. \A p \in 1 .. N : \A r : E(p, r) \in RoleNames
  <2> SUFFICES ASSUME NEW p \in 1 .. N, NEW r PROVE E(p, r) \in RoleNames
    OBVIOUS
  <2>1. line[p] \in ArgToken
    OBVIOUS
  <2> QED BY <2>1 DEF RoleAfter, RoleNames
<1> HIDE DEF E
<1>3. t \in [1 .. N -> [RoleNames -> RoleNames]] /\ "start" \in RoleNames
  BY <1>2 DEF RoleNames
<1>4. PICK f : TurnsOf(RoleNames, "start", t, N, f)
  <2> HIDE DEF t, N
  <2> QED BY <1>1, <1>3, LoopTurns
<1>5. Is(f)
  <2>1. f = [p \in 0 .. N |-> f[p]] /\ \A p \in 0 .. N : f[p] \in RoleNames
    BY <1>4 DEF TurnsOf
  <2>2. \A p \in 0 .. N : f[p] = IF p = 0 THEN "start" ELSE E(p, f[p - 1])
    <3> SUFFICES ASSUME NEW p \in 0 .. N, p # 0 PROVE f[p] = E(p, f[p - 1])
      BY <1>4 DEF TurnsOf
    <3>1. p \in 1 .. N /\ p - 1 \in 0 .. N
      OBVIOUS
    <3> QED BY <1>4, <2>1, <3>1 DEF TurnsOf
  <2> HIDE DEF N
  <2> QED BY <2>1, <2>2
<1>6. PICK g : g = (CHOOSE h : Is(h)) /\ Is(g)
  <2> HIDE DEF Is
  <2> QED BY <1>5, Zenon
<1>7. Roles(table, line) = g
  BY <1>6 DEF Roles, E
<1>8. \A p \in 0 .. N : g[p] = IF p = 0 THEN "start" ELSE E(p, g[p - 1])
  BY <1>6, Zenon
<1> HIDE DEF Is, N
<1>9. g[0] = "start" /\ \A p \in 1 .. N : g[p] = E(p, g[p - 1])
  BY <1>1, <1>8
<1>10. \A p \in 0 .. N : g[p] \in RoleNames
  BY <1>1, <1>2, <1>3, <1>8
<1> QED BY <1>7, <1>9, <1>10 DEF E, N

(* The operands of a line.                                                 *)
LEMMA OperandsAre ==
  ASSUME NEW table, NEW line \in Seq(ArgToken)
  PROVE  /\ OperandsTo(table, line)[0] = <<>>
         /\ \A p \in 0 .. Len(line) : OperandsTo(table, line)[p] \in Seq(Texts)
         /\ \A p \in 1 .. Len(line) :
              OperandsTo(table, line)[p] =
                IF OperandAt(table, line, p)
                  THEN Append(OperandsTo(table, line)[p - 1], TextOf(line[p]))
                  ELSE OperandsTo(table, line)[p - 1]
<1> DEFINE N == Len(line)
           S == Seq(Texts)
           E(p, r) == IF OperandAt(table, line, p) THEN Append(r, TextOf(line[p])) ELSE r
           Is(g) == g = [p \in 0 .. N |-> IF p = 0 THEN <<>> ELSE E(p, g[p - 1])]
           t == [p \in 1 .. N |-> [r \in S |-> E(p, r)]]
<1>1. N \in Nat
  OBVIOUS
<1>2. \A p \in 1 .. N : \A r \in S : E(p, r) \in S
  <2> SUFFICES ASSUME NEW p \in 1 .. N, NEW r \in S PROVE E(p, r) \in S
    OBVIOUS
  <2>1. TextOf(line[p]) \in Texts
    BY TextsAre
  <2> HIDE DEF N
  <2> QED BY <2>1
<1>3. <<>> \in S
  OBVIOUS
<1> HIDE DEF E, S
<1>4. t \in [1 .. N -> [S -> S]]
  BY <1>2
<1>5. PICK f : TurnsOf(S, <<>>, t, N, f)
  <2> HIDE DEF t, N
  <2> QED BY <1>1, <1>3, <1>4, LoopTurns
<1>6. Is(f)
  <2>1. f = [p \in 0 .. N |-> f[p]] /\ \A p \in 0 .. N : f[p] \in S
    BY <1>5 DEF TurnsOf
  <2>2. \A p \in 0 .. N : f[p] = IF p = 0 THEN <<>> ELSE E(p, f[p - 1])
    <3> SUFFICES ASSUME NEW p \in 0 .. N, p # 0 PROVE f[p] = E(p, f[p - 1])
      BY <1>5 DEF TurnsOf
    <3>1. p \in 1 .. N /\ p - 1 \in 0 .. N
      OBVIOUS
    <3> QED BY <1>5, <2>1, <3>1 DEF TurnsOf
  <2> HIDE DEF N
  <2> QED BY <2>1, <2>2
<1>7. PICK g : g = (CHOOSE h : Is(h)) /\ Is(g)
  <2> HIDE DEF Is
  <2> QED BY <1>6, Zenon
<1>8. OperandsTo(table, line) = g
  BY <1>7 DEF OperandsTo, E
<1>9. \A p \in 0 .. N : g[p] = IF p = 0 THEN <<>> ELSE E(p, g[p - 1])
  BY <1>7, Zenon
<1> HIDE DEF Is, N
<1>10. g[0] = <<>> /\ \A p \in 1 .. N : g[p] = E(p, g[p - 1])
  BY <1>1, <1>9
<1>11. \A p \in 0 .. N : g[p] \in S
  <2> DEFINE P == [p \in 0 .. N |-> S]
  <2>1. \A p \in 1 .. N : g[p - 1] \in P[p - 1] => g[p] \in P[p]
    <3> SUFFICES ASSUME NEW p \in 1 .. N, g[p - 1] \in P[p - 1] PROVE g[p] \in P[p]
      OBVIOUS
    <3>1. p \in 0 .. N /\ p - 1 \in 0 .. N
      BY <1>1
    <3> QED BY <1>2, <1>10, <3>1
  <2>2. g[0] \in P[0]
    BY <1>1, <1>3, <1>10
  <2> HIDE DEF P
  <2>3. \A p \in 0 .. N : g[p] \in P[p]
    BY <1>1, <2>1, <2>2, TurnsHold
  <2> QED BY <2>3 DEF P
<1> QED BY <1>8, <1>10, <1>11 DEF E, N, S

(* The values an entry is used with, u before the p-th token.              *)
Values(table, line) == {ValueAt(table, line, q) : q \in 1 .. Len(line)}
UsedAt(table, line, i, p, u) ==
  IF OptionAt(table, line, p) /\ i \in Named(table, line[p])
  THEN Append(u, ValueAt(table, line, p)) ELSE u

LEMMA UsesAre ==
  ASSUME NEW table, NEW line \in Seq(ArgToken), NEW i
  PROVE  /\ UsesTo(table, line, i)[0] = <<>>
         /\ \A p \in 0 .. Len(line) :
              /\ UsesTo(table, line, i)[p] \in Seq(Values(table, line))
              /\ Len(UsesTo(table, line, i)[p]) \in Nat
         /\ \A p \in 1 .. Len(line) :
              UsesTo(table, line, i)[p] = UsedAt(table, line, i, p, UsesTo(table, line, i)[p - 1])
<1> DEFINE N == Len(line)
           V == Values(table, line)
           S == Seq(V)
           E(p, r) == UsedAt(table, line, i, p, r)
           Is(g) == g = [p \in 0 .. N |-> IF p = 0 THEN <<>> ELSE E(p, g[p - 1])]
           t == [p \in 1 .. N |-> [r \in S |-> E(p, r)]]
<1>1. N \in Nat
  OBVIOUS
<1>2. \A p \in 1 .. N : \A r \in S : E(p, r) \in S
  <2> SUFFICES ASSUME NEW p \in 1 .. N, NEW r \in S PROVE E(p, r) \in S
    OBVIOUS
  <2>1. ValueAt(table, line, p) \in V
    BY DEF Values
  <2> HIDE DEF N, V
  <2> QED BY <2>1 DEF UsedAt
<1>3. <<>> \in S
  OBVIOUS
<1> HIDE DEF E, S, V
<1>4. t \in [1 .. N -> [S -> S]]
  BY <1>2
<1>5. PICK f : TurnsOf(S, <<>>, t, N, f)
  <2> HIDE DEF t, N
  <2> QED BY <1>1, <1>3, <1>4, LoopTurns
<1>6. Is(f)
  <2>1. f = [p \in 0 .. N |-> f[p]] /\ \A p \in 0 .. N : f[p] \in S
    BY <1>5 DEF TurnsOf
  <2>2. \A p \in 0 .. N : f[p] = IF p = 0 THEN <<>> ELSE E(p, f[p - 1])
    <3> SUFFICES ASSUME NEW p \in 0 .. N, p # 0 PROVE f[p] = E(p, f[p - 1])
      BY <1>5 DEF TurnsOf
    <3>1. p \in 1 .. N /\ p - 1 \in 0 .. N
      OBVIOUS
    <3> QED BY <1>5, <2>1, <3>1 DEF TurnsOf
  <2> HIDE DEF N
  <2> QED BY <2>1, <2>2
<1>7. PICK g : g = (CHOOSE h : Is(h)) /\ Is(g)
  <2> HIDE DEF Is
  <2> QED BY <1>6, Zenon
<1>8. UsesTo(table, line, i) = g
  BY <1>7 DEF UsesTo, E, UsedAt
<1>9. \A p \in 0 .. N : g[p] = IF p = 0 THEN <<>> ELSE E(p, g[p - 1])
  BY <1>7, Zenon
<1> HIDE DEF Is, N
<1>10. g[0] = <<>> /\ \A p \in 1 .. N : g[p] = E(p, g[p - 1])
  BY <1>1, <1>9
<1>11. \A p \in 0 .. N : g[p] \in S
  <2> DEFINE P == [p \in 0 .. N |-> S]
  <2>1. \A p \in 1 .. N : g[p - 1] \in P[p - 1] => g[p] \in P[p]
    <3> SUFFICES ASSUME NEW p \in 1 .. N, g[p - 1] \in P[p - 1] PROVE g[p] \in P[p]
      OBVIOUS
    <3>1. p \in 0 .. N /\ p - 1 \in 0 .. N
      BY <1>1
    <3> QED BY <1>2, <1>10, <3>1
  <2>2. g[0] \in P[0]
    BY <1>1, <1>3, <1>10
  <2> HIDE DEF P
  <2>3. \A p \in 0 .. N : g[p] \in P[p]
    BY <1>1, <2>1, <2>2, TurnsHold
  <2> QED BY <2>3 DEF P
<1>12. \A p \in 0 .. N : Len(g[p]) \in Nat
  BY <1>11 DEF S
<1> QED BY <1>8, <1>10, <1>11, <1>12 DEF E, N, S, V

(* How many words the entries take.                                        *)
LEMMA TakenIs ==
  ASSUME NEW table, Len(table) \in Nat, NEW split \in [Untagged(table) -> Nat]
  PROVE  /\ TakenTo(table, split)[0] = 0
         /\ \A i \in 0 .. Len(table) : TakenTo(table, split)[i] \in Nat
         /\ \A i \in 1 .. Len(table) :
              TakenTo(table, split)[i] =
                TakenTo(table, split)[i - 1] + IF i \in Untagged(table) THEN split[i] ELSE 0
<1> DEFINE N == Len(table)
           E(i, r) == r + IF i \in Untagged(table) THEN split[i] ELSE 0
           Is(g) == g = [i \in 0 .. N |-> IF i = 0 THEN 0 ELSE E(i, g[i - 1])]
           t == [i \in 1 .. N |-> [r \in Nat |-> E(i, r)]]
<1>1. N \in Nat
  OBVIOUS
<1>2. \A i \in 1 .. N : \A r \in Nat : E(i, r) \in Nat
  OBVIOUS
<1> HIDE DEF E
<1>3. t \in [1 .. N -> [Nat -> Nat]]
  BY <1>2
<1>4. PICK f : TurnsOf(Nat, 0, t, N, f)
  <2> HIDE DEF t, N
  <2> QED BY <1>1, <1>3, LoopTurns
<1>5. Is(f)
  <2>1. f = [i \in 0 .. N |-> f[i]] /\ \A i \in 0 .. N : f[i] \in Nat
    BY <1>4 DEF TurnsOf
  <2>2. \A i \in 0 .. N : f[i] = IF i = 0 THEN 0 ELSE E(i, f[i - 1])
    <3> SUFFICES ASSUME NEW i \in 0 .. N, i # 0 PROVE f[i] = E(i, f[i - 1])
      BY <1>4 DEF TurnsOf
    <3>1. i \in 1 .. N /\ i - 1 \in 0 .. N
      OBVIOUS
    <3> QED BY <1>4, <2>1, <3>1 DEF TurnsOf
  <2> HIDE DEF N
  <2> QED BY <2>1, <2>2
<1>6. PICK g : g = (CHOOSE h : Is(h)) /\ Is(g)
  <2> HIDE DEF Is
  <2> QED BY <1>5, Zenon
<1>7. TakenTo(table, split) = g
  BY <1>6 DEF TakenTo, E
<1>8. \A i \in 0 .. N : g[i] = IF i = 0 THEN 0 ELSE E(i, g[i - 1])
  BY <1>6, Zenon
<1> HIDE DEF Is, N
<1>9. g[0] = 0 /\ \A i \in 1 .. N : g[i] = E(i, g[i - 1])
  BY <1>1, <1>8
<1>10. \A i \in 0 .. N : g[i] \in Nat
  <2> DEFINE P == [i \in 0 .. N |-> Nat]
  <2>1. \A i \in 1 .. N : g[i - 1] \in P[i - 1] => g[i] \in P[i]
    <3> SUFFICES ASSUME NEW i \in 1 .. N, g[i - 1] \in P[i - 1] PROVE g[i] \in P[i]
      OBVIOUS
    <3>1. i \in 0 .. N /\ i - 1 \in 0 .. N
      BY <1>1
    <3> QED BY <1>2, <1>9, <3>1
  <2>2. g[0] \in P[0]
    BY <1>1, <1>9
  <2> HIDE DEF P
  <2>3. \A i \in 0 .. N : g[i] \in P[i]
    BY <1>1, <2>1, <2>2, TurnsHold
  <2> QED BY <2>3 DEF P
<1> QED BY <1>7, <1>9, <1>10 DEF E, N

(* What follows each kind of token.                                        *)
LEMMA RoleIs ==
  ASSUME NEW table, NEW line \in Seq(ArgToken), NEW p \in 1 .. Len(line)
  PROVE  LET before == Roles(table, line)[p - 1]  role == Roles(table, line)[p] IN
         /\ before \in {"stop", "rest"} => role = "rest"
         /\ before = "wants" => role = "value"
         /\ before \notin {"wants", "stop", "rest"} =>
              /\ line[p].type \in {"word", "stop"} => role = line[p].type
              /\ line[p].type \in {"long", "short"} =>
                   role = IF Wants(table, line[p]) THEN "wants" ELSE "option"
  BY RolesAre DEF RoleAfter

(* Behind "--" there are but operands.                                     *)
LEMMA RestIs ==
  ASSUME NEW table, NEW line \in Seq(ArgToken), NEW j \in 1 .. Len(line),
         Roles(table, line)[j] = "stop"
  PROVE  \A p \in j + 1 .. Len(line) : Roles(table, line)[p] = "rest"
<1> DEFINE R == Roles(table, line)  N == Len(line)
           Bad == {p \in j + 1 .. N : R[p] # "rest"}
<1>1. N \in Nat /\ j \in 1 .. N
  OBVIOUS
<1>2. \A p \in 1 .. N : R[p - 1] \in {"stop", "rest"} => R[p] = "rest"
  BY RoleIs
<1> HIDE DEF R, N
<1>3. Bad = {}
  <2> SUFFICES ASSUME Bad # {} PROVE FALSE
    OBVIOUS
  <2>1. PICK p \in Bad : \A q \in Bad : p <= q
    <3>1. Bad \subseteq Nat
      BY <1>1
    <3> HIDE DEF Bad
    <3> QED BY <3>1, LeastNat
  <2>2. p \in j + 1 .. N /\ p \in 1 .. N /\ R[p] # "rest"
    BY <1>1, <2>1
  <2>3. CASE p - 1 = j
    <3>1. R[p - 1] = "stop"
      BY <2>3 DEF R
    <3> QED BY <1>2, <2>2, <3>1
  <2>4. CASE p - 1 # j
    <3>1. p - 1 \in j + 1 .. N /\ ~(p <= p - 1)
      BY <1>1, <2>2, <2>4
    <3>2. R[p - 1] = "rest"
      BY <2>1, <3>1
    <3> QED BY <1>2, <2>2, <3>2
  <2> QED BY <2>3, <2>4
<1> QED BY <1>3 DEF R, N

(* What does not change with a step does not change with several.          *)
LEMMA Unmoved ==
  ASSUME NEW j \in Nat, NEW n \in Nat, j <= n, NEW f, \A p \in j + 1 .. n : f[p] = f[p - 1]
  PROVE  \A p \in j .. n : f[p] = f[j]
<1> DEFINE Bad == {p \in j .. n : f[p] # f[j]}
<1>1. Bad = {}
  <2> SUFFICES ASSUME Bad # {} PROVE FALSE
    OBVIOUS
  <2>1. PICK p \in Bad : \A q \in Bad : p <= q
    <3>1. Bad \subseteq Nat
      OBVIOUS
    <3> HIDE DEF Bad
    <3> QED BY <3>1, LeastNat
  <2>2. p \in j .. n /\ f[p] # f[j] /\ p # j
    BY <2>1
  <2>3. p \in j + 1 .. n /\ p - 1 \in j .. n /\ ~(p <= p - 1)
    BY <2>2
  <2>4. f[p - 1] = f[j]
    BY <2>1, <2>3
  <2> QED BY <2>2, <2>3, <2>4
<1> QED BY <1>1

(* Facts about sequences.                                                  *)
LEMMA MadeSeq ==
  ASSUME NEW S, NEW k \in Nat, NEW f \in [1 .. k -> S]
  PROVE  f \in Seq(S) /\ Len(f) = k
  OBVIOUS

LEMMA AppendIs ==
  ASSUME NEW S, NEW a \in Seq(S), NEW x \in S
  PROVE  /\ Append(a, x) \in Seq(S) /\ Len(Append(a, x)) = Len(a) + 1
         /\ Append(a, x)[Len(a) + 1] = x /\ \A k \in 1 .. Len(a) : Append(a, x)[k] = a[k]
  OBVIOUS

LEMMA OneAppended ==
  ASSUME NEW S, NEW k \in Nat \ {0}, NEW a \in Seq(S), NEW b \in Seq(S),
         Len(a) = k - 1, Len(b) = k, \A n \in 1 .. k - 1 : b[n] = a[n]
  PROVE  b = Append(a, b[k])
<1>1. b[k] \in S
  OBVIOUS
<1>2. /\ Append(a, b[k]) \in Seq(S) /\ Len(Append(a, b[k])) = k
      /\ \A n \in 1 .. k : Append(a, b[k])[n] = b[n]
  BY <1>1, AppendIs
<1> HIDE DEF Append
<1> QED BY <1>2, SeqEqual

(* To append and to concatenate.                                           *)
AppendsLate(o, l, x) == Append(o \o l, x) = o \o Append(l, x)

LEMMA CatAppend ==
  ASSUME NEW S, NEW o \in Seq(S), NEW l \in Seq(S), NEW x \in S
  PROVE  AppendsLate(o, l, x)
  BY DEF AppendsLate

(* So the operands are those before "--" and all that follows it.          *)
LEMMA OperandsRest ==
  ASSUME NEW table, NEW line \in Seq(ArgToken), NEW j \in 1 .. Len(line),
         Roles(table, line)[j] = "stop",
         NEW rest, rest = [k \in 1 .. Len(line) - j |-> TextOf(line[j + k])]
  PROVE  OperandsTo(table, line)[Len(line)] = OperandsTo(table, line)[j - 1] \o rest
<1> DEFINE N == Len(line)  O == OperandsTo(table, line)  M == N - j
           L(k) == [n \in 1 .. k |-> TextOf(line[j + n])]
           Bad == {k \in 0 .. M : O[j + k] # O[j - 1] \o L(k)}
<1>1. N \in Nat /\ j \in 1 .. N /\ M \in Nat /\ j - 1 \in 0 .. N
  OBVIOUS
<1>2. \A p \in 0 .. N : O[p] \in Seq(Texts)
  BY OperandsAre
<1>3. \A p \in 1 .. N : TextOf(line[p]) \in Texts
  BY TextsAre
<1>4. O[j] = O[j - 1]
  BY OperandsAre DEF OperandAt
<1>5. ASSUME NEW k \in 1 .. M PROVE O[j + k] = Append(O[j + (k - 1)], TextOf(line[j + k]))
  <2>1. j + k \in j + 1 .. N /\ j + k \in 1 .. N /\ (j + k) - 1 = j + (k - 1)
    BY <1>1
  <2>2. OperandAt(table, line, j + k)
    BY <2>1, RestIs DEF OperandAt
  <2> QED BY <2>1, <2>2, OperandsAre
<1> HIDE DEF O
<1>6. \A k \in 0 .. M : L(k) \in Seq(Texts) /\ Len(L(k)) = k
  <2> SUFFICES ASSUME NEW k \in 0 .. M PROVE L(k) \in Seq(Texts) /\ Len(L(k)) = k
    OBVIOUS
  <2>1. \A n \in 1 .. k : j + n \in 1 .. N
    BY <1>1
  <2>2. L(k) \in [1 .. k -> Texts]
    BY <1>3, <2>1
  <2>3. k \in Nat
    BY <1>1
  <2> HIDE DEF L
  <2> QED BY <2>2, <2>3, MadeSeq
<1>7. ASSUME NEW k \in 1 .. M PROVE L(k) = Append(L(k - 1), TextOf(line[j + k]))
  <2> DEFINE x == TextOf(line[j + k])
  <2>1. L(k - 1) \in Seq(Texts) /\ Len(L(k - 1)) = k - 1 /\ L(k) \in Seq(Texts) /\ Len(L(k)) = k
    <3>1. k \in 0 .. M /\ k - 1 \in 0 .. M
      BY <1>1
    <3> HIDE DEF L, M
    <3> QED BY <1>6, <3>1
  <2>2. \A n \in 1 .. k - 1 : L(k)[n] = L(k - 1)[n]
    OBVIOUS
  <2>3. L(k)[k] = x
    OBVIOUS
  <2>4. x \in Texts
    BY <1>1, <1>3
  <2>5. k \in Nat \ {0}
    BY <1>1
  <2> HIDE DEF L, x
  <2>6. L(k) = Append(L(k - 1), L(k)[k])
    BY <2>1, <2>2, <2>5, OneAppended
  <2> QED BY <2>3, <2>6 DEF x
<1>8. L(0) = <<>>
  OBVIOUS
<1> HIDE DEF L, M, N
<1>9. Bad = {}
  <2> SUFFICES ASSUME Bad # {} PROVE FALSE
    OBVIOUS
  <2>1. PICK k \in Bad : \A n \in Bad : k <= n
    <3>1. Bad \subseteq Nat
      BY <1>1
    <3> HIDE DEF Bad
    <3> QED BY <3>1, LeastNat
  <2>2. k \in 0 .. M /\ O[j + k] # O[j - 1] \o L(k)
    BY <2>1
  <2>3. CASE k = 0
    <3>1. j + k = j /\ O[j - 1] \in Seq(Texts)
      BY <1>1, <1>2, <2>3
    <3>2. O[j - 1] \o <<>> = O[j - 1]
      BY <3>1
    <3> QED BY <1>4, <1>8, <2>2, <2>3, <3>1, <3>2
  <2>4. CASE k # 0
    <3>1. k - 1 \in 0 .. M /\ k \in 1 .. M /\ ~(k <= k - 1) /\ j + k \in 1 .. N
      BY <1>1, <2>2, <2>4 DEF M
    <3>2. O[j + (k - 1)] = O[j - 1] \o L(k - 1)
      BY <2>1, <3>1
    <3> DEFINE x == TextOf(line[j + k])  o == O[j - 1]  l == L(k - 1)
    <3>3. x \in Texts /\ o \in Seq(Texts) /\ l \in Seq(Texts)
      BY <1>1, <1>2, <1>3, <1>6, <3>1
    <3>4. O[j + k] = Append(o \o l, x) /\ L(k) = Append(l, x)
      BY <1>5, <1>7, <3>1, <3>2
    <3> DEFINE T == Texts
    <3>9. x \in T /\ o \in Seq(T) /\ l \in Seq(T)
      BY <3>3
    <3> HIDE DEF x, o, l, T
    <3>5. AppendsLate(o, l, x)
      BY <3>9, CatAppend
    <3> QED BY <2>2, <3>4, <3>5 DEF o, AppendsLate
  <2> QED BY <2>3, <2>4
<1>10. O[j + M] = O[j - 1] \o L(M)
  <2>1. M \in 0 .. M
    BY <1>1
  <2> QED BY <1>9, <2>1
<1>11. j + M = N
  BY <1>1 DEF M
<1>12. L(M) = rest
  BY DEF L, M, N
<1> QED BY <1>10, <1>11, <1>12 DEF O, N

(* What an entry was used with is the beginning of what it is used with.   *)
UsedTo(table, line, i, p) ==
  LET u == UsesTo(table, line, i)[p]  all == Uses(table, line, i) IN
  Len(u) <= Len(all) /\ \A k \in 1 .. Len(u) : all[k] = u[k]

LEMMA UsesGrow ==
  ASSUME NEW table, NEW line \in Seq(ArgToken), NEW i, NEW p \in 0 .. Len(line)
  PROVE  UsedTo(table, line, i, p)
<1> DEFINE N == Len(line)  U == UsesTo(table, line, i)
           Goes(q) == Len(U[p]) <= Len(U[q]) /\ \A k \in 1 .. Len(U[p]) : U[q][k] = U[p][k]
           Bad == {q \in p .. N : ~Goes(q)}
           V == Values(table, line)
<1>1. N \in Nat /\ p \in 0 .. N
  OBVIOUS
<1>2. /\ \A q \in 0 .. N : U[q] \in Seq(V) /\ Len(U[q]) \in Nat
      /\ \A q \in 1 .. N : U[q] = U[q - 1] \/ (\E x \in V : U[q] = Append(U[q - 1], x))
  <2>0. \A q \in 1 .. N : U[q] = UsedAt(table, line, i, q, U[q - 1])
    BY UsesAre
  <2>1. \A q \in 0 .. N : U[q] \in Seq(V) /\ Len(U[q]) \in Nat
    BY UsesAre
  <2>2. ASSUME NEW q \in 1 .. N
        PROVE  U[q] = U[q - 1] \/ (\E x \in V : U[q] = Append(U[q - 1], x))
    <3>1. U[q] = U[q - 1] \/ U[q] = Append(U[q - 1], ValueAt(table, line, q))
      BY <2>0 DEF UsedAt
    <3>2. ValueAt(table, line, q) \in V
      BY DEF Values
    <3> HIDE DEF U, V, N
    <3> QED BY <3>1, <3>2
  <2> HIDE DEF U, V, N
  <2> QED BY <2>1, <2>2
<1> HIDE DEF U, V, N
<1>3. ASSUME NEW q \in 1 .. N
      PROVE  Len(U[q - 1]) <= Len(U[q]) /\ \A k \in 1 .. Len(U[q - 1]) : U[q][k] = U[q - 1][k]
  <2>1. U[q - 1] \in Seq(V)
    BY <1>1, <1>2
  <2>2. CASE U[q] = U[q - 1]
    BY <2>1, <2>2
  <2>3. ASSUME NEW x \in V, U[q] = Append(U[q - 1], x)
        PROVE  Len(U[q - 1]) <= Len(U[q]) /\ \A k \in 1 .. Len(U[q - 1]) : U[q][k] = U[q - 1][k]
    <3>1. /\ Len(Append(U[q - 1], x)) = Len(U[q - 1]) + 1 /\ Len(U[q - 1]) \in Nat
          /\ \A k \in 1 .. Len(U[q - 1]) : Append(U[q - 1], x)[k] = U[q - 1][k]
      BY <2>1, AppendIs
    <3> QED BY <2>3, <3>1
  <2> QED BY <1>2, <2>2, <2>3
<1>4. Bad = {}
  <2> SUFFICES ASSUME Bad # {} PROVE FALSE
    OBVIOUS
  <2> HIDE DEF Goes
  <2>1. PICK q \in Bad : \A r \in Bad : q <= r
    <3>1. Bad \subseteq Nat
      BY <1>1
    <3> HIDE DEF Bad
    <3> QED BY <3>1, LeastNat
  <2>2. q \in p .. N /\ ~Goes(q)
    BY <2>1
  <2>3. Goes(p)
    BY <1>1, <1>2 DEF Goes
  <2>4. q # p
    BY <2>2, <2>3
  <2>5. q - 1 \in p .. N /\ ~(q <= q - 1) /\ q \in 1 .. N /\ q - 1 \in 0 .. N /\ q \in 0 .. N
    BY <1>1, <2>2, <2>4
  <2>6. Goes(q - 1)
    BY <2>1, <2>5
  <2>7. Goes(q)
    <3>1. Len(U[p]) \in Nat /\ Len(U[q]) \in Nat /\ Len(U[q - 1]) \in Nat
      BY <1>1, <1>2, <2>5
    <3> QED BY <1>3, <2>5, <2>6, <3>1 DEF Goes
  <2> QED BY <2>2, <2>7
<1>5. Goes(N)
  BY <1>1, <1>4
<1> QED BY <1>5 DEF U, N, Uses, UsedTo

(* The entries for words are counted up to each entry.                     *)
LEMMA TakenAgree ==
  ASSUME NEW table, Len(table) \in Nat, NEW s \in [Untagged(table) -> Nat],
         NEW r \in [Untagged(table) -> Nat], NEW j \in 0 .. Len(table),
         \A i \in Untagged(table) : i <= j => s[i] = r[i]
  PROVE  \A i \in 0 .. j : TakenTo(table, s)[i] = TakenTo(table, r)[i]
<1> DEFINE S == TakenTo(table, s)  R == TakenTo(table, r)  N == Len(table)
           Bad == {i \in 0 .. j : S[i] # R[i]}
<1>1. N \in Nat /\ j \in 0 .. N /\ j \in Nat
  OBVIOUS
<1>2. /\ S[0] = 0 /\ R[0] = 0
      /\ \A i \in 1 .. N : S[i] = S[i - 1] + IF i \in Untagged(table) THEN s[i] ELSE 0
      /\ \A i \in 1 .. N : R[i] = R[i - 1] + IF i \in Untagged(table) THEN r[i] ELSE 0
  BY TakenIs
<1> HIDE DEF S, R, N
<1>3. Bad = {}
  <2> SUFFICES ASSUME Bad # {} PROVE FALSE
    OBVIOUS
  <2>1. PICK i \in Bad : \A k \in Bad : i <= k
    <3>1. Bad \subseteq Nat
      BY <1>1
    <3> HIDE DEF Bad
    <3> QED BY <3>1, LeastNat
  <2>2. i \in 0 .. j /\ S[i] # R[i]
    BY <2>1
  <2>3. i # 0
    BY <1>2, <2>2
  <2>4. i - 1 \in 0 .. j /\ i \in 1 .. N /\ ~(i <= i - 1) /\ i <= j
    BY <1>1, <2>2, <2>3
  <2>5. S[i - 1] = R[i - 1]
    BY <2>1, <2>4
  <2>6. (IF i \in Untagged(table) THEN s[i] ELSE 0) = IF i \in Untagged(table) THEN r[i] ELSE 0
    BY <2>4
  <2> HIDE DEF Bad
  <2> QED BY <1>2, <2>2, <2>4, <2>5, <2>6
<1> QED BY <1>3 DEF S, R

LEMMA TakenFlat ==
  ASSUME NEW table, Len(table) \in Nat, NEW s \in [Untagged(table) -> Nat],
         NEW j \in 0 .. Len(table), NEW n \in j .. Len(table),
         \A i \in Untagged(table) : i \in j + 1 .. n => s[i] = 0
  PROVE  TakenTo(table, s)[n] = TakenTo(table, s)[j]
<1> DEFINE S == TakenTo(table, s)  N == Len(table)
<1>1. N \in Nat /\ j \in Nat /\ n \in Nat /\ j <= n /\ j .. n \subseteq 0 .. N
  OBVIOUS
<1>2. /\ \A i \in 0 .. N : S[i] \in Nat
      /\ \A i \in 1 .. N : S[i] = S[i - 1] + IF i \in Untagged(table) THEN s[i] ELSE 0
  BY TakenIs
<1> HIDE DEF S, N
<1>3. ASSUME NEW i \in j + 1 .. n PROVE S[i] = S[i - 1]
  <2>1. i \in 1 .. N /\ i - 1 \in 0 .. N
    BY <1>1
  <2>2. (IF i \in Untagged(table) THEN s[i] ELSE 0) = 0
    OBVIOUS
  <2>3. S[i - 1] \in Nat /\ S[i] = S[i - 1] + IF i \in Untagged(table) THEN s[i] ELSE 0
    BY <1>2, <2>1
  <2> QED BY <2>2, <2>3
<1>4. \A i \in j .. n : S[i] = S[j]
  BY <1>1, <1>3, Unmoved
<1> QED BY <1>1, <1>4 DEF S

LEMMA TakenGrows ==
  ASSUME NEW table, Len(table) \in Nat, NEW s \in [Untagged(table) -> Nat],
         NEW i \in 0 .. Len(table)
  PROVE  TakenTo(table, s)[i] <= TakenTo(table, s)[Len(table)]
<1> DEFINE S == TakenTo(table, s)  N == Len(table)
           Bad == {k \in i .. N : ~(S[i] <= S[k])}
<1>1. N \in Nat /\ i \in 0 .. N
  OBVIOUS
<1>2. /\ \A k \in 0 .. N : S[k] \in Nat
      /\ \A k \in 1 .. N : S[k] = S[k - 1] + IF k \in Untagged(table) THEN s[k] ELSE 0
  BY TakenIs
<1> HIDE DEF S, N
<1>3. Bad = {}
  <2> SUFFICES ASSUME Bad # {} PROVE FALSE
    OBVIOUS
  <2>1. PICK k \in Bad : \A n \in Bad : k <= n
    <3>1. Bad \subseteq Nat
      BY <1>1
    <3> HIDE DEF Bad
    <3> QED BY <3>1, LeastNat
  <2>2. k \in i .. N /\ ~(S[i] <= S[k])
    BY <2>1
  <2>3. k # i
    BY <1>1, <1>2, <2>2
  <2>4. k - 1 \in i .. N /\ k \in 1 .. N /\ ~(k <= k - 1) /\ k - 1 \in 0 .. N /\ i \in 0 .. N
    BY <1>1, <2>2, <2>3
  <2>5. S[i] <= S[k - 1]
    BY <2>1, <2>4
  <2>6. (IF k \in Untagged(table) THEN s[k] ELSE 0) \in Nat
    OBVIOUS
  <2>7. S[k] = S[k - 1] + IF k \in Untagged(table) THEN s[k] ELSE 0
    BY <1>2, <2>4
  <2>8. S[i] \in Nat /\ S[k - 1] \in Nat
    BY <1>2, <2>4
  <2> HIDE DEF Bad
  <2> QED BY <2>2, <2>5, <2>6, <2>7, <2>8
<1> QED BY <1>1, <1>3 DEF S, N

(* With one entry for words at most, that entry takes them all.            *)
LEMMA TakenByOne ==
  ASSUME NEW table, Len(table) \in Nat, NEW s \in [Untagged(table) -> Nat],
         NEW u \in Untagged(table), \A i \in Untagged(table) : i = u
  PROVE  /\ \A i \in 0 .. u - 1 : TakenTo(table, s)[i] = 0
         /\ \A i \in u .. Len(table) : TakenTo(table, s)[i] = s[u]
<1> DEFINE S == TakenTo(table, s)  N == Len(table)
<1>1. N \in Nat /\ u \in 1 .. N /\ s[u] \in Nat
  BY DEF Untagged
<1>2. ASSUME NEW i \in 0 .. u - 1 PROVE S[i] = 0
  <2>1. 0 \in 0 .. N /\ i \in 0 .. N
    BY <1>1
  <2>2. \A k \in Untagged(table) : k \in 1 .. i => s[k] = 0
    BY <1>1
  <2>3. S[i] = S[0]
    BY <2>1, <2>2, TakenFlat
  <2> QED BY <2>3, TakenIs
<1>3. ASSUME NEW i \in u .. N PROVE S[i] = s[u]
  <2>1. u \in 0 .. N /\ i \in u .. N
    BY <1>1
  <2>2. \A k \in Untagged(table) : k \in u + 1 .. i => s[k] = 0
    BY <1>1
  <2>3. S[i] = S[u]
    BY <2>1, <2>2, TakenFlat
  <2>4. S[u] = S[u - 1] + s[u]
    BY <1>1, TakenIs
  <2>5. S[u - 1] = 0
    BY <1>1, <1>2
  <2> QED BY <1>1, <2>3, <2>4, <2>5
<1> QED BY <1>2, <1>3

(* To divide.                                                              *)
LEMMA Divided ==
  ASSUME NEW a \in Int, NEW f \in Nat \ {0}, NEW q \in Int, f * q <= a, a < f * q + f
  PROVE  a \div f = q
<1>1. /\ a \div f \in Int /\ f * (a \div f) <= a /\ a < f * (a \div f) + f
  OBVIOUS
<1> DEFINE d == a \div f
<1>2. d \in Int /\ f * d < f * (q + 1) /\ f * q < f * (d + 1)
  BY <1>1
<1> HIDE DEF d
<1>3. d < q + 1 /\ q < d + 1
  BY <1>2
<1> QED BY <1>2, <1>3 DEF d

(* INT_MAX + 1 is a multiple of each factor.                               *)
LEMMA Multiples ==
  ASSUME NEW f \in {1, Kilo, Kilo * Kilo, Kilo * Kilo * Kilo}
  PROVE  f \in Nat \ {0} /\ \E n \in Nat \ {0} : IntMax + 1 = f * n
<1> DEFINE K2 == Kilo * Kilo  K3 == Kilo * Kilo * Kilo  q == (IntMax + 1) \div K3
<1>1. Kilo \in Nat \ {0} /\ IntMax \in Nat
  BY IntAssumption
<1>2. K2 \in Nat \ {0}
  BY <1>1
<1>3. K3 \in Nat \ {0}
  <2> HIDE DEF K2
  <2>1. K2 * Kilo \in Nat \ {0}
    BY <1>1, <1>2
  <2> QED BY <2>1 DEF K2
<1>4. q \in Int /\ IntMax + 1 = K3 * q
  <2>1. (IntMax + 1) % K3 = 0
    BY IntAssumption
  <2> HIDE DEF K3
  <2> QED BY <1>1, <1>3, <2>1
<1> HIDE DEF q
<1>5. q \in Nat \ {0}
  <2> HIDE DEF K3
  <2> QED BY <1>1, <1>3, <1>4
<1>6. CASE f = 1
  BY <1>1, <1>6
<1>7. CASE f = Kilo
  <2>1. K2 * q \in Nat \ {0}
    <3> HIDE DEF K2
    <3> QED BY <1>2, <1>5
  <2>2. K3 * q = Kilo * (K2 * q)
    BY <1>1, <1>5
  <2> HIDE DEF K2, K3
  <2> QED BY <1>1, <1>4, <1>7, <2>1, <2>2
<1>8. CASE f = K2
  <2>1. Kilo * q \in Nat \ {0}
    BY <1>1, <1>5
  <2>2. K3 * q = K2 * (Kilo * q)
    BY <1>1, <1>5
  <2> HIDE DEF K2, K3
  <2> QED BY <1>2, <1>4, <1>8, <2>1, <2>2
<1>9. CASE f = K3
  <2> HIDE DEF K3
  <2> QED BY <1>3, <1>4, <1>5, <1>9
<1> QED BY <1>6, <1>7, <1>8, <1>9

(* What scanfn_int takes for an overflow does not fit an int.              *)
LEMMA FactorFits ==
  ASSUME NEW f \in {1, Kilo, Kilo * Kilo, Kilo * Kilo * Kilo}, NEW v \in Int
  PROVE  /\ v * f \in Int
         /\ v > IntMax \div f \/ v < IntMin \div f <=> ~(v * f \in IntMin .. IntMax)
<1>1. f \in Nat \ {0} /\ IntMax \in Nat
  BY Multiples, IntAssumption
<1>2. PICK n \in Nat \ {0} : IntMax + 1 = f * n
  BY Multiples
<1>3. IntMin = f * (-n)
  BY <1>1, <1>2 DEF IntMin
<1>4. IntMin \div f = -n
  <2>1. f * (-n) \in Int /\ -n \in Int /\ f * (-n) < f * (-n) + f
    BY <1>1
  <2> QED BY <1>1, <1>3, <2>1, Divided
<1>5. IntMax \div f = n - 1
  <2>1. f * (n - 1) = f * n - f
    BY <1>1
  <2>2. f * (n - 1) <= IntMax /\ IntMax < f * (n - 1) + f /\ n - 1 \in Int
    BY <1>1, <1>2, <2>1
  <2> QED BY <1>1, <2>2, Divided
<1>6. v > n - 1 => v * f >= f * n
  BY <1>1
<1>7. v < -n => v * f < f * (-n)
  BY <1>1
<1>8. v <= n - 1 => v * f <= f * (n - 1)
  BY <1>1
<1>9. v >= -n => v * f >= f * (-n)
  BY <1>1
<1>10. f * (n - 1) = f * n - f /\ v * f \in Int /\ f * n \in Int
  BY <1>1
<1> QED BY <1>1, <1>2, <1>3, <1>4, <1>5, <1>6, <1>7, <1>8, <1>9, <1>10

(* The number of a text with digits.                                       *)
LEMMA TextIs ==
  ASSUME NEW t \in Texts
  PROVE  /\ t.sign \in {1, -1} /\ t.prefix \in {"none", "X", "O", "B"}
         /\ t.digits \in Int
         /\ t.suffix \in {"none", "space", "KB", "kb_space", "MB", "GB", "other"}
         /\ t.sign * t.digits \in Int
<1>1. /\ t.sign \in {1, -1} /\ t.prefix \in {"none", "X", "O", "B"}
      /\ t.digits \in Nat \cup {-1}
      /\ t.suffix \in {"none", "space", "KB", "kb_space", "MB", "GB", "other"}
  BY DEF Texts
<1> DEFINE a == t.sign  b == t.digits
<1>2. a \in Int
  BY <1>1
<1>3. b \in Int
  BY <1>1
<1> HIDE DEF a, b
<1>4. a * b \in Int
  BY <1>2, <1>3
<1> QED BY <1>1, <1>3, <1>4 DEF a, b

LEMMA LongIs ==
  ASSUME NEW t \in Texts, t.digits >= 0
  PROVE  LongOf(t) = {t.sign * t.digits} /\ Rest(t) = t.suffix
<1> DEFINE v == t.sign * t.digits  C == Conversions(t)  ok == {k \in 1 .. 4 : C[k] # {}}
<1>1. t.prefix \in {"none", "X", "O", "B"} /\ v \in Int /\ t.digits \in Int
  BY TextIs
<1> HIDE DEF v
<1>2. /\ C[1] = IF t.prefix = "X" THEN {v} ELSE {}
      /\ C[2] = IF t.prefix = "O" THEN {v} ELSE {}
      /\ C[3] = IF t.prefix = "B" THEN {v} ELSE {}
      /\ C[4] = IF t.prefix # "none" THEN {0} ELSE {v}
  BY DEF Conversions, strtol0X, strtol, v
<1> HIDE DEF C
<1>3. ASSUME NEW k \in 1 .. 4, k \in ok, \A j \in ok : k <= j PROVE Min(ok) = k
  BY <1>3 DEF Min
<1>4. LongOf(t) = IF ok = {} THEN {} ELSE C[Min(ok)]
  BY DEF LongOf, C
<1>5. CASE t.prefix = "X"
  <2>1. 1 \in ok /\ \A j \in ok : 1 <= j
    BY <1>2, <1>5
  <2> HIDE DEF ok
  <2>2. Min(ok) = 1
    BY <1>3, <2>1
  <2> QED BY <1>2, <1>4, <1>5, <2>1, <2>2, <1>1 DEF Rest, v
<1>6. CASE t.prefix = "O"
  <2>1. 2 \in ok /\ \A j \in ok : 2 <= j
    BY <1>2, <1>6
  <2> HIDE DEF ok
  <2>2. Min(ok) = 2
    BY <1>3, <2>1
  <2> QED BY <1>2, <1>4, <1>6, <2>1, <2>2, <1>1 DEF Rest, v
<1>7. CASE t.prefix = "B"
  <2>1. 3 \in ok /\ \A j \in ok : 3 <= j
    BY <1>2, <1>7
  <2> HIDE DEF ok
  <2>2. Min(ok) = 3
    BY <1>3, <2>1
  <2> QED BY <1>2, <1>4, <1>7, <2>1, <2>2, <1>1 DEF Rest, v
<1>8. CASE t.prefix = "none"
  <2>1. 4 \in ok /\ \A j \in ok : 4 <= j
    <3>1. C[1] = {} /\ C[2] = {} /\ C[3] = {} /\ C[4] = {v}
      BY <1>2, <1>8
    <3>2. 4 \in ok
      BY <3>1
    <3>3. ASSUME NEW j \in ok PROVE j = 4
      <4>1. j \in 1 .. 4 /\ C[j] # {}
        OBVIOUS
      <4> QED BY <3>1, <4>1
    <3> QED BY <3>2, <3>3
  <2> HIDE DEF ok
  <2>2. Min(ok) = 4
    BY <1>3, <2>1
  <2> QED BY <1>2, <1>4, <1>8, <2>1, <2>2, <1>1 DEF Rest, v
<1> QED BY <1>1, <1>5, <1>6, <1>7, <1>8

(* scanfn_int takes the number the text means, and refuses a text that     *)
(* means none.                                                             *)
LEMMA IntMeans ==
  ASSUME NEW t \in Texts, NEW e, e.kind = "int"
  PROVE  /\ IntCode(t) = "ok" <=> Meaning(e, t) # {}
         /\ IntCode(t) = "ok" => Meaning(e, t) = {IntOf(t)}
<1> DEFINE v == t.sign * t.digits  f == Factor(Rest(t))
<1>1. /\ t.prefix \in {"none", "X", "O", "B"} /\ t.digits \in Int /\ v \in Int
      /\ t.suffix \in {"none", "space", "KB", "kb_space", "MB", "GB", "other"}
  BY TextIs
<1>2. Meaning(e, t) = IF t.suffix = "other" THEN {} ELSE Multiple(t) \cap IntMin .. IntMax
  BY DEF Meaning
<1>3. \A x : detectsuffix(x) = {} <=> x \notin {"KB", "kb_space", "MB", "GB"}
  <2>1. /\ DOMAIN Spellings = {"KB", "MB", "GB"} /\ Spellings["KB"] = {"KB", "kb_space"}
        /\ Spellings["MB"] = {"MB"} /\ Spellings["GB"] = {"GB"}
    BY DEF Spellings
  <2> QED BY <2>1 DEF detectsuffix
<1>4. CASE t.digits < 0
  <2>1. Meaning(e, t) = {}
    BY <1>2, <1>4 DEF Multiple
  <2>2. CASE t.prefix = "none"
    <3>1. ~(t.digits >= 0)
      BY <1>1, <1>4
    <3>2. strtol0X(t, "X") = {} /\ strtol0X(t, "O") = {} /\ strtol0X(t, "B") = {} /\ strtol(t) = {}
      BY <2>2, <3>1 DEF strtol0X, strtol
    <3>3. {k \in 1 .. 4 : Conversions(t)[k] # {}} = {}
      BY <3>2 DEF Conversions
    <3>4. LongOf(t) = {}
      BY <3>3 DEF LongOf
    <3> QED BY <2>1, <3>4 DEF IntCode
  <2>3. CASE t.prefix # "none"
    <3>1. Rest(t) = "other"
      BY <1>4, <2>3 DEF Rest
    <3>2. detectsuffix(Rest(t)) = {} /\ Rest(t) \notin {"none", "space"}
      BY <1>3, <3>1
    <3> QED BY <2>1, <3>2 DEF IntCode
  <2> QED BY <2>2, <2>3
<1>5. CASE t.digits >= 0
  <2>1. LongOf(t) = {v} /\ Rest(t) = t.suffix
    BY <1>5, LongIs
  <2>2. (CHOOSE x \in LongOf(t) : TRUE) = v
    BY <2>1
  <2>3. CASE t.suffix = "other"
    <3>1. detectsuffix(Rest(t)) = {} /\ Rest(t) \notin {"none", "space"}
      BY <1>3, <2>1, <2>3
    <3> QED BY <1>2, <2>3, <3>1 DEF IntCode
  <2>4. CASE t.suffix # "other"
    <3>1. ~(detectsuffix(Rest(t)) = {} /\ Rest(t) \notin {"none", "space"})
      BY <1>1, <1>3, <2>1, <2>4
    <3>2. f = IF t.suffix \in {"none", "space"} THEN 1 ELSE IF t.suffix \in {"KB", "kb_space"} THEN Kilo
              ELSE IF t.suffix = "MB" THEN Kilo * Kilo ELSE Kilo * Kilo * Kilo
      BY <1>1, <2>1, <2>4 DEF Factor, Spellings
    <3>3. f \in {1, Kilo, Kilo * Kilo, Kilo * Kilo * Kilo}
      BY <3>2
    <3>4. Multiple(t) = {v * f}
      <4>1. ~(t.digits < 0)
        BY <1>1, <1>5
      <4> HIDE DEF f
      <4> QED BY <3>2, <4>1 DEF Multiple
    <3>5. IntOf(t) = v * f
      BY <2>2 DEF IntOf
    <3>6. /\ v * f \in Int
          /\ v > IntMax \div f \/ v < IntMin \div f <=> ~(v * f \in IntMin .. IntMax)
      <4> HIDE DEF f, v
      <4> QED BY <1>1, <3>3, FactorFits
    <3>7. IntCode(t) = IF v > IntMax \div f \/ v < IntMin \div f THEN "EOVERFLOW" ELSE "ok"
      BY <2>1, <2>2, <3>1 DEF IntCode
    <3> HIDE DEF f, v
    <3>8. Meaning(e, t) = IF v * f \in IntMin .. IntMax THEN {v * f} ELSE {}
      BY <1>2, <2>4, <3>4
    <3> QED BY <3>5, <3>6, <3>7, <3>8
  <2> QED BY <2>3, <2>4
<1> QED BY <1>1, <1>4, <1>5

(* So does scanfn_double.                                                  *)
LEMMA DblMeans ==
  ASSUME NEW t \in Texts, NEW e, e.kind = "dbl"
  PROVE  /\ DblCode(t) = "ok" <=> Meaning(e, t) # {}
         /\ DblCode(t) = "ok" => Meaning(e, t) = {DblOf(t)}
<1> DEFINE v == t.sign * t.digits
<1>1. /\ t.prefix \in {"none", "X", "O", "B"} /\ t.digits \in Int /\ v \in Int
  BY TextIs
<1>2. Meaning(e, t) = IF Empty(t) THEN {0}
                      ELSE IF t.suffix = "none" /\ t.prefix \in {"none", "X"} THEN Multiple(t) ELSE {}
  BY DEF Meaning
<1>3. t.suffix = "none" => Multiple(t) = IF t.digits < 0 THEN {} ELSE {v}
  <2> SUFFICES ASSUME t.suffix = "none" PROVE Multiple(t) = IF t.digits < 0 THEN {} ELSE {v}
    OBVIOUS
  <2>1. Multiple(t) = IF t.digits < 0 THEN {} ELSE {v * 1}
    BY DEF Multiple
  <2> HIDE DEF v
  <2>2. v * 1 = v
    BY <1>1
  <2> QED BY <2>1, <2>2
<1> HIDE DEF v
<1>4. DblOf(t) = IF t.digits < 0 THEN 0 ELSE v
  BY DEF DblOf, v
<1>5. DblCode(t) = "ok" <=> /\ t.suffix = "none" /\ t.prefix \notin {"O", "B"}
                            /\ t.prefix = "none" \/ t.digits >= 0
  BY DEF DblCode
<1>6. t.digits >= 0 <=> ~(t.digits < 0)
  BY <1>1
<1> QED BY <1>1, <1>2, <1>3, <1>4, <1>5, <1>6 DEF Empty

-----------------------------------------------------------------------------
(* The values an entry with the state s has taken are those of the texts q. *)
Fits(e, t, v) == e.kind = "lit" \/ t = NoText \/ Meaning(e, t) = {v}
ReadOff(e, s, q) ==
  s.count = Len(q) /\ \A k \in 1 .. Len(q) : Fits(e, q[k], s.vals[k])

(* A tagged entry without values counts, whatever the errors are.          *)
LitTold(e, s, q) ==
  e.kind = "lit" /\ e.max # 0 => (s.count > 0 <=> \E k \in 1 .. Len(q) : q[k] = NoText)

(* The counts and the values have the types and sizes of the table.        *)
StateOf(e, s) ==
  /\ DOMAIN s = {"count", "compiled", "vals"}
  /\ s.count \in 0 .. e.max /\ DOMAIN s.vals = 1 .. e.max
Sized(table, s) ==
  DOMAIN s = 1 .. Len(table) /\ \A i \in 1 .. Len(table) : StateOf(table[i], s[i])

(* The options of a line up to the p-th token are read: words of it, and   *)
(* its options.                                                            *)
LitsTold(table, line, s, p) ==
  \A i \in 1 .. Len(table) : Tagged(table[i]) => LitTold(table[i], s[i], UsesTo(table, line, i)[p])
OptionsRead(table, line, s, p) ==
  /\ \A q \in 1 .. p : OptionAt(table, line, q) => OptionFine(table, line, q)
  /\ \A i \in 1 .. Len(table) :
       Tagged(table[i]) => ReadOff(table[i], s[i], UsesTo(table, line, i)[p])

(* Each untagged entry has taken the words that follow those of the        *)
(* entries before it.                                                      *)
Counts(table, s) == [i \in Untagged(table) |-> s[i].count]
WordsTaken(table, s, w) ==
  \A i \in Untagged(table) : \A k \in 1 .. s[i].count :
    LET n == TakenTo(table, Counts(table, s))[i - 1] + k IN
    n \in 1 .. Len(w) /\ Fits(table[i], w[n], s[i].vals[k])
Position == IF stage = "tagged" THEN optind - 1 ELSE Len(argv)

(* No errors so far, or before the checks.                                 *)
Unfailed == stage = "check" \/ found = <<>>

LineInv ==
  stage # "idle" =>
    /\ argv \in Seq(ArgToken)
    /\ Position \in 0 .. Len(argv)
    /\ words = OperandsTo(argtable, argv)[Position]
    /\ Position < Len(argv) => Roles(argtable, argv)[Position] \notin {"wants", "stop", "rest"}
    /\ LitsTold(argtable, argv, args, Position)
    /\ Unfailed => OptionsRead(argtable, argv, args, Position)

WordInv ==
  /\ stage = "tagged" => /\ tabindex = 1 /\ optind \in Nat
                         /\ \A i \in Untagged(argtable) : args[i].count = 0
  /\ stage = "untagged" => optind \in 1 .. Len(words) + 1
  /\ stage # "idle" /\ Unfailed =>
       /\ WordsTaken(argtable, args, words)
       /\ stage = "untagged" =>
            /\ TakenTo(argtable, Counts(argtable, args))[tabindex] = optind - 1
            /\ \A i \in Untagged(argtable) : i > tabindex => args[i].count = 0
       /\ stage \in {"check", "parsed"} => TakenTo(argtable, Counts(argtable, args))[EndIndex] = Len(words)
  /\ stage \in {"check", "parsed"} /\ found = <<>> =>
       \A i \in 1 .. EndIndex : (stage = "parsed" \/ i < tabindex) => ~checkfn(argtable[i], args[i])

PlainInv ==
  stage # "idle" /\ Plainly(argtable, argv) =>
    /\ found = <<>>
    /\ stage = "untagged" => \A i \in Untagged(argtable) : tabindex <= i

StepInv  == Sized(argtable, args) /\ parses \in Nat /\ LineInv /\ WordInv /\ PlainInv
ParseInv == OptInv /\ StepInv

(* What a scanfn makes of the state s of an entry and a text: of what the  *)
(* entry has room for and the text means something to, one more value.     *)
ScansTo(e, s, t, r) ==
  /\ r.code = "ok" <=> s.count < e.max /\ (e.kind = "lit" \/ t = NoText \/ Meaning(e, t) # {})
  /\ r.code # "ok" => r.s = s
  /\ r.code = "ok" => /\ StateOf(e, r.s) /\ r.s.count = s.count + 1
                      /\ \A k \in 1 .. s.count : r.s.vals[k] = s.vals[k]
                      /\ Fits(e, t, r.s.vals[r.s.count])

LEMMA ExcessIs ==
  ASSUME NEW e, e.max \in Nat, NEW s, StateOf(e, s), NEW t, s.count = e.max
  PROVE  ScansTo(e, s, t, Excess(s))
<1>1. Excess(s).code = "EMAXCOUNT" /\ Excess(s).s = s
  BY DEF Excess
<1> QED BY <1>1 DEF ScansTo, StateOf

LEMMA RefusedIs ==
  ASSUME NEW e, NEW s, NEW t, NEW code, code # "ok", e.kind # "lit", t # NoText, Meaning(e, t) = {}
  PROVE  ScansTo(e, s, t, Refused(s, code))
<1>1. Refused(s, code).code = code /\ Refused(s, code).s = s
  BY DEF Refused
<1> QED BY <1>1 DEF ScansTo

LEMMA UnvaluedIs ==
  ASSUME NEW e, e.max \in Nat, NEW s, StateOf(e, s), s.count < e.max,
         NEW t, e.kind = "lit" \/ t = NoText
  PROVE  ScansTo(e, s, t, Unvalued(s))
<1> DEFINE r == [s EXCEPT !.count = @ + 1]
<1>1. Unvalued(s).code = "ok" /\ Unvalued(s).s = r
  BY DEF Unvalued
<1>2. DOMAIN r = DOMAIN s /\ r.vals = s.vals /\ r.count = s.count + 1
  BY DEF StateOf
<1> HIDE DEF r
<1>3. Fits(e, t, r.vals[r.count])
  BY DEF Fits
<1>4. StateOf(e, r)
  BY <1>2 DEF StateOf
<1> QED BY <1>1, <1>2, <1>3, <1>4 DEF ScansTo

LEMMA TookIs ==
  ASSUME NEW e, e.max \in Nat, NEW s, StateOf(e, s), s.count < e.max,
         NEW t, NEW v, Meaning(e, t) = {v}
  PROVE  ScansTo(e, s, t, Took(s, v))
<1> DEFINE r == [s EXCEPT !.count = @ + 1, !.vals[s.count + 1] = v]
<1>1. Took(s, v).code = "ok" /\ Took(s, v).s = r
  BY DEF Took
<1>2. DOMAIN r = DOMAIN s /\ r.vals = [s.vals EXCEPT ![s.count + 1] = v] /\ r.count = s.count + 1
  BY DEF StateOf
<1> HIDE DEF r
<1>3. s.count \in Nat /\ s.count + 1 \in 1 .. e.max /\ DOMAIN s.vals = 1 .. e.max
  BY DEF StateOf
<1>4. /\ DOMAIN r.vals = 1 .. e.max /\ r.vals[s.count + 1] = v
      /\ \A k \in 1 .. s.count : r.vals[k] = s.vals[k]
  BY <1>2, <1>3
<1>5. Fits(e, t, r.vals[r.count])
  BY <1>2, <1>4 DEF Fits
<1>6. StateOf(e, r)
  BY <1>2, <1>3, <1>4 DEF StateOf
<1> QED BY <1>1, <1>2, <1>4, <1>5, <1>6 DEF ScansTo, StateOf

(* Each scanfn does so.                                                    *)
LEMMA ScanMeans ==
  ASSUME argtable \in ArgTables, NEW i \in 1 .. Len(argtable), Scans(argtable[i]),
         Sized(argtable, args), NEW t \in Texts \cup {NoText}
  PROVE  ScansTo(argtable[i], args[i], t, Scan(i, t))
<1> DEFINE e == argtable[i]  s == args[i]
<1> SUFFICES ScansTo(e, s, t, Scan(i, t))
  OBVIOUS
<1>1. e \in ArgEntry /\ e.max \in Nat /\ Scans(e)
  BY EntriesAre
<1>2. StateOf(e, s) /\ s.count \in 0 .. e.max
  BY DEF Sized, StateOf
<1>3. e.kind \in {"lit", "int", "dbl", "str", "file", "date", "rex"}
  BY <1>1 DEF ArgEntry, Scans
<1> HIDE DEF e, s
<1>4. s.count # e.max => s.count < e.max
  BY <1>1, <1>2
<1>5. t # NoText => t \in Texts
  OBVIOUS
<1>6. CASE e.kind = "lit"
  <2>1. Scan(i, t) = scanfn_lit(e, s)
    BY <1>6 DEF Scan, e, s
  <2>2. CASE s.count < e.max
    BY <1>1, <1>2, <1>6, <2>1, <2>2, UnvaluedIs DEF scanfn_lit
  <2>3. CASE ~(s.count < e.max)
    BY <1>1, <1>2, <1>4, <2>1, <2>3, ExcessIs DEF scanfn_lit
  <2> QED BY <2>2, <2>3
<1>7. CASE e.kind = "int"
  <2>1. Scan(i, t) = scanfn_int(e, s, t)
    BY <1>7 DEF Scan, e, s
  <2>2. CASE s.count = e.max
    BY <1>1, <1>2, <2>1, <2>2, ExcessIs DEF scanfn_int
  <2>3. CASE s.count # e.max /\ t = NoText
    BY <1>1, <1>2, <1>4, <2>1, <2>3, UnvaluedIs DEF scanfn_int
  <2>4. CASE s.count # e.max /\ t # NoText /\ IntCode(t) # "ok"
    <3>1. Meaning(e, t) = {}
      BY <1>5, <1>7, <2>4, IntMeans
    <3> QED BY <1>7, <2>1, <2>4, <3>1, RefusedIs DEF scanfn_int
  <2>5. CASE s.count # e.max /\ t # NoText /\ IntCode(t) = "ok"
    <3>1. Meaning(e, t) = {IntOf(t)}
      BY <1>5, <1>7, <2>5, IntMeans
    <3> QED BY <1>1, <1>2, <1>4, <2>1, <2>5, <3>1, TookIs DEF scanfn_int
  <2> QED BY <2>2, <2>3, <2>4, <2>5
<1>8. CASE e.kind = "dbl"
  <2>1. Scan(i, t) = scanfn_double(e, s, t)
    BY <1>8 DEF Scan, e, s
  <2>2. CASE s.count = e.max
    BY <1>1, <1>2, <2>1, <2>2, ExcessIs DEF scanfn_double
  <2>3. CASE s.count # e.max /\ t = NoText
    BY <1>1, <1>2, <1>4, <2>1, <2>3, UnvaluedIs DEF scanfn_double
  <2>4. CASE s.count # e.max /\ t # NoText /\ DblCode(t) # "ok"
    <3>1. Meaning(e, t) = {}
      BY <1>5, <1>8, <2>4, DblMeans
    <3> QED BY <1>8, <2>1, <2>4, <3>1, RefusedIs DEF scanfn_double
  <2>5. CASE s.count # e.max /\ t # NoText /\ DblCode(t) = "ok"
    <3>1. Meaning(e, t) = {DblOf(t)}
      BY <1>5, <1>8, <2>5, DblMeans
    <3> QED BY <1>1, <1>2, <1>4, <2>1, <2>5, <3>1, TookIs DEF scanfn_double
  <2> QED BY <2>2, <2>3, <2>4, <2>5
<1>9. CASE e.kind \in {"str", "file"}
  <2>1. Scan(i, t) = scanfn_str(e, s, t)
    BY <1>9 DEF Scan, e, s, scanfn_str, scanfn_file
  <2>2. CASE s.count = e.max
    BY <1>1, <1>2, <2>1, <2>2, ExcessIs DEF scanfn_str
  <2>3. CASE s.count # e.max /\ t = NoText
    BY <1>1, <1>2, <1>4, <2>1, <2>3, UnvaluedIs DEF scanfn_str
  <2>4. CASE s.count # e.max /\ t # NoText
    <3>1. Meaning(e, t) = {t}
      BY <1>9 DEF Meaning
    <3> QED BY <1>1, <1>2, <1>4, <2>1, <2>4, <3>1, TookIs DEF scanfn_str
  <2> QED BY <2>2, <2>3, <2>4
<1>10. CASE e.kind = "date"
  <2>1. Scan(i, t) = scanfn_date(e, s, t)
    BY <1>10 DEF Scan, e, s
  <2>2. CASE s.count = e.max
    BY <1>1, <1>2, <2>1, <2>2, ExcessIs DEF scanfn_date
  <2>3. CASE s.count # e.max /\ t = NoText
    BY <1>1, <1>2, <1>4, <2>1, <2>3, UnvaluedIs DEF scanfn_date
  <2>4. CASE s.count # e.max /\ t # NoText /\ "date" \notin t.fits
    <3>1. Meaning(e, t) = {}
      BY <1>10, <2>4 DEF Meaning
    <3> QED BY <1>10, <2>1, <2>4, <3>1, RefusedIs DEF scanfn_date
  <2>5. CASE s.count # e.max /\ t # NoText /\ "date" \in t.fits
    <3>1. Meaning(e, t) = {t}
      BY <1>10, <2>5 DEF Meaning
    <3> QED BY <1>1, <1>2, <1>4, <2>1, <2>5, <3>1, TookIs DEF scanfn_date
  <2> QED BY <2>2, <2>3, <2>4, <2>5
<1>11. CASE e.kind = "rex"
  <2>1. Scan(i, t) = scanfn_rex(e, s, t)
    BY <1>11 DEF Scan, e, s
  <2>2. CASE s.count = e.max
    BY <1>1, <1>2, <2>1, <2>2, ExcessIs DEF scanfn_rex
  <2>3. CASE s.count # e.max /\ t = NoText
    BY <1>1, <1>2, <1>4, <2>1, <2>3, UnvaluedIs DEF scanfn_rex
  <2>4. CASE s.count # e.max /\ t # NoText /\ "rex" \notin t.fits
    <3>1. Meaning(e, t) = {}
      BY <1>11, <2>4 DEF Meaning
    <3> QED BY <1>11, <2>1, <2>4, <3>1, RefusedIs DEF scanfn_rex
  <2>5. CASE s.count # e.max /\ t # NoText /\ "rex" \in t.fits
    <3>1. Meaning(e, t) = {t}
      BY <1>11, <2>5 DEF Meaning
    <3> QED BY <1>1, <1>2, <1>4, <2>1, <2>5, <3>1, TookIs DEF scanfn_rex
  <2> QED BY <2>2, <2>3, <2>4, <2>5
<1> QED BY <1>3, <1>6, <1>7, <1>8, <1>9, <1>10, <1>11

(* has_arg of an entry in the two tables for getopt_long.                  *)
HasArg(e, type) ==
  IF type = "long" THEN IF "HASOPTVALUE" \in e.flags THEN 2
                        ELSE IF "HASVALUE" \in e.flags THEN 1 ELSE 0
  ELSE Cardinality(e.flags \cap {"HASVALUE", "HASOPTVALUE"})

LEMMA HasArgIs ==
  ASSUME NEW table \in ArgTables, NEW i \in 1 .. Len(table), Scans(table[i]),
         NEW type \in {"long", "short"}
  PROVE  HasArg(table[i], type) =
           IF table[i].kind = "lit" THEN 0 ELSE IF table[i].flags = {"HASVALUE"} THEN 1 ELSE 2
<1> DEFINE f == table[i].flags  B == {"HASVALUE", "HASOPTVALUE"}
<1>1. /\ table[i].kind = "lit" => f = {}
      /\ table[i].kind # "lit" => f \in {{"HASVALUE"}, {"HASVALUE", "HASOPTVALUE"}}
  BY EntriesAre
<1>2. Cardinality({}) = 0 /\ Cardinality({"HASVALUE"}) = 1 /\ IsFiniteSet({"HASVALUE"})
  BY FS_EmptySet, FS_Singleton
<1>3. Cardinality({"HASVALUE"} \cup {"HASOPTVALUE"}) = 2
  <2> DEFINE S == {"HASVALUE"}  x == "HASOPTVALUE"
  <2>1. x \notin S /\ IsFiniteSet(S) /\ Cardinality(S) = 1
    BY <1>2
  <2> HIDE DEF S, x
  <2>2. Cardinality(S \cup {x}) = Cardinality(S) + 1
    BY <2>1, FS_AddElement
  <2>3. Cardinality(S \cup {x}) = 2
    BY <2>1, <2>2
  <2> QED BY <2>3 DEF S, x
<1>4. CASE f = {}
  <2>1. f \cap B = {} /\ "HASVALUE" \notin f /\ "HASOPTVALUE" \notin f /\ f # {"HASVALUE"}
    BY <1>4
  <2>2. table[i].kind = "lit"
    BY <1>1, <1>4
  <2> QED BY <1>2, <2>1, <2>2 DEF HasArg
<1>5. CASE f = {"HASVALUE"}
  <2>1. f \cap B = {"HASVALUE"} /\ "HASVALUE" \in f /\ "HASOPTVALUE" \notin f /\ f # {}
    BY <1>5
  <2>2. table[i].kind # "lit"
    BY <1>1, <2>1
  <2> QED BY <1>2, <1>5, <2>1, <2>2 DEF HasArg
<1>6. CASE f = {"HASVALUE", "HASOPTVALUE"}
  <2>1. /\ f \cap B = {"HASVALUE"} \cup {"HASOPTVALUE"} /\ "HASOPTVALUE" \in f
        /\ f # {} /\ f # {"HASVALUE"}
    BY <1>6
  <2>2. table[i].kind # "lit"
    BY <1>1, <2>1
  <2> QED BY <1>3, <2>1, <2>2 DEF HasArg
<1> QED BY <1>1, <1>4, <1>5, <1>6

(* The options of the name getopt_long looks for are those of the entry.   *)
OptionsOf(token) ==
  {o \in IF token.type = "long" THEN LongOptions ELSE ShortOptions : o.name = token.name}

LEMMA OptionsAre ==
  ASSUME argtable \in ArgTables, NEW token, token.type \in {"long", "short"}
  PROVE  /\ \A o \in OptionsOf(token) : \E i \in Named(argtable, token) :
              o.val = i - 1 /\ o.has_arg = HasArg(argtable[i], token.type)
         /\ OptionsOf(token) = {} => Named(argtable, token) = {}
<1>1. CASE token.type = "long"
  <2> DEFINE O(i, n) == [name |-> n, val |-> i - 1,
                         has_arg |-> IF "HASOPTVALUE" \in argtable[i].flags THEN 2
                                     ELSE IF "HASVALUE" \in argtable[i].flags THEN 1 ELSE 0]
  <2>1. LongOptions = UNION {{O(i, n) : n \in argtable[i].longs} : i \in 1 .. Len(argtable) - 1}
    BY DEF LongOptions, EndIndex
  <2>2. Named(argtable, token) = {i \in 1 .. Len(argtable) - 1 : token.name \in argtable[i].longs}
    BY <1>1 DEF Named
  <2>3. \A i, n : /\ O(i, n).name = n /\ O(i, n).val = i - 1
                  /\ O(i, n).has_arg = HasArg(argtable[i], token.type)
    BY <1>1 DEF HasArg
  <2>4. OptionsOf(token) = {o \in LongOptions : o.name = token.name}
    BY <1>1 DEF OptionsOf
  <2> HIDE DEF O
  <2>5. ASSUME NEW o \in OptionsOf(token)
        PROVE  \E i \in Named(argtable, token) :
                 o.val = i - 1 /\ o.has_arg = HasArg(argtable[i], token.type)
    <3>1. o \in LongOptions /\ o.name = token.name
      BY <2>4
    <3>2. PICK i \in 1 .. Len(argtable) - 1 : o \in {O(i, n) : n \in argtable[i].longs}
      BY <2>1, <3>1
    <3>3. PICK n \in argtable[i].longs : o = O(i, n)
      BY <3>2
    <3> QED BY <2>2, <2>3, <3>1, <3>2, <3>3
  <2>6. ASSUME NEW i \in Named(argtable, token) PROVE O(i, token.name) \in OptionsOf(token)
    BY <2>1, <2>2, <2>3, <2>4
  <2> QED BY <2>5, <2>6
<1>2. CASE token.type = "short"
  <2> DEFINE O(i, n) == [name |-> n, val |-> i - 1,
                         has_arg |-> Cardinality(argtable[i].flags \cap {"HASVALUE", "HASOPTVALUE"})]
  <2>1. ShortOptions = UNION {{O(i, n) : n \in argtable[i].shorts} : i \in 1 .. Len(argtable) - 1}
    BY DEF ShortOptions, EndIndex
  <2>2. Named(argtable, token) = {i \in 1 .. Len(argtable) - 1 : token.name \in argtable[i].shorts}
    BY <1>2 DEF Named
  <2>3. \A i, n : /\ O(i, n).name = n /\ O(i, n).val = i - 1
                  /\ O(i, n).has_arg = HasArg(argtable[i], token.type)
    BY <1>2 DEF HasArg
  <2>4. OptionsOf(token) = {o \in ShortOptions : o.name = token.name}
    BY <1>2 DEF OptionsOf
  <2> HIDE DEF O
  <2>5. ASSUME NEW o \in OptionsOf(token)
        PROVE  \E i \in Named(argtable, token) :
                 o.val = i - 1 /\ o.has_arg = HasArg(argtable[i], token.type)
    <3>1. o \in ShortOptions /\ o.name = token.name
      BY <2>4
    <3>2. PICK i \in 1 .. Len(argtable) - 1 : o \in {O(i, n) : n \in argtable[i].shorts}
      BY <2>1, <3>1
    <3>3. PICK n \in argtable[i].shorts : o = O(i, n)
      BY <3>2
    <3> QED BY <2>2, <2>3, <3>1, <3>2, <3>3
  <2>6. ASSUME NEW i \in Named(argtable, token) PROVE O(i, token.name) \in OptionsOf(token)
    BY <2>1, <2>2, <2>3, <2>4
  <2> QED BY <2>5, <2>6
<1> QED BY <1>1, <1>2

(* What getopt_long does with an option, and for which ones it fails.      *)
LEMMA GetOptIs ==
  ASSUME argtable \in ArgTables, argv \in Seq(ArgToken), optind \in 1 .. Len(argv),
         argv[optind].type \in {"long", "short"}
  PROVE  LET token == argv[optind]  named == Named(argtable, token) IN
         /\ GetOpt.copt \in {"long", "short"} => \E i \in named :
              /\ GetOpt.copt = token.type /\ GetOpt.val = i - 1
              /\ token.text # NoText => argtable[i].kind # "lit"
              /\ ~Wants(argtable, token) => GetOpt.optarg = token.text /\ GetOpt.next = optind + 1
              /\ Wants(argtable, token) =>
                   /\ optind # Len(argv) /\ GetOpt.optarg = TextOf(argv[optind + 1])
                   /\ GetOpt.next = optind + 2
         /\ GetOpt.copt \notin {"long", "short"} =>
              /\ GetOpt.next = optind + 1 /\ GetOpt.copt \in {"?", ":"}
              /\ \/ named = {}
                 \/ \E i \in named : argtable[i].kind = "lit" /\ token.text # NoText
                 \/ Wants(argtable, token) /\ optind = Len(argv)
<1> DEFINE token == argv[optind]  named == Named(argtable, token)
           o == CHOOSE x \in OptionsOf(token) : TRUE
           type == token.type  text == token.text
<1>1. token.type \in {"long", "short"}
  OBVIOUS
<1>2. /\ OptionsOf(token) = {} => named = {}
      /\ OptionsOf(token) # {} => \E i \in named : o.val = i - 1 /\ o.has_arg = HasArg(argtable[i], type)
  <2>1. OptionsOf(token) # {} => o \in OptionsOf(token)
    OBVIOUS
  <2> HIDE DEF o
  <2> QED BY <1>1, <2>1, OptionsAre
<1>3. /\ OptionsOf(token) = {} => GetOpt.copt = "?" /\ GetOpt.next = optind + 1
      /\ OptionsOf(token) # {} =>
           /\ o.has_arg = 0 /\ text # NoText => GetOpt.copt = "?" /\ GetOpt.next = optind + 1
           /\ ~(o.has_arg = 0 /\ text # NoText) /\ (o.has_arg # 1 \/ text # NoText) =>
                /\ GetOpt.copt = type /\ GetOpt.val = o.val /\ GetOpt.optarg = text
                /\ GetOpt.next = optind + 1
           /\ o.has_arg = 1 /\ text = NoText /\ optind = Len(argv) =>
                GetOpt.copt = ":" /\ GetOpt.next = optind + 1
           /\ o.has_arg = 1 /\ text = NoText /\ optind # Len(argv) =>
                /\ GetOpt.copt = type /\ GetOpt.val = o.val /\ GetOpt.next = optind + 2
                /\ GetOpt.optarg = TextOf(argv[optind + 1])
  BY DEF GetOpt, OptionsOf
<1> HIDE DEF o
<1>4. CASE OptionsOf(token) = {}
  BY <1>1, <1>2, <1>3, <1>4
<1>5. CASE OptionsOf(token) # {}
  <2>1. PICK i \in named : o.val = i - 1 /\ o.has_arg = HasArg(argtable[i], type)
    BY <1>2, <1>5
  <2>2. i \in 1 .. Len(argtable) /\ Scans(argtable[i]) /\ \A j \in named : j = i
    BY <1>1, NamedIs
  <2>3. o.has_arg = IF argtable[i].kind = "lit" THEN 0
                    ELSE IF argtable[i].flags = {"HASVALUE"} THEN 1 ELSE 2
    BY <1>1, <2>1, <2>2, HasArgIs
  <2>4. argtable[i].kind = "lit" => argtable[i].flags # {"HASVALUE"}
    BY <2>2, EntriesAre
  <2>5. Wants(argtable, token) <=> o.has_arg = 1 /\ text = NoText
    BY <2>1, <2>2, <2>3, <2>4 DEF Wants
  <2>6. argtable[i].kind = "lit" <=> o.has_arg = 0
    BY <2>3
  <2> HIDE DEF named, token, type, text
  <2>7. CASE o.has_arg = 0 /\ text # NoText
    BY <1>3, <1>5, <2>1, <2>5, <2>6, <2>7 DEF named, token, type, text
  <2>8. CASE ~(o.has_arg = 0 /\ text # NoText) /\ (o.has_arg # 1 \/ text # NoText)
    BY <1>1, <1>3, <1>5, <2>1, <2>5, <2>6, <2>8 DEF named, token, type, text
  <2>9. CASE o.has_arg = 1 /\ text = NoText /\ optind = Len(argv)
    BY <1>3, <1>5, <2>1, <2>5, <2>6, <2>9 DEF named, token, type, text
  <2>10. CASE o.has_arg = 1 /\ text = NoText /\ optind # Len(argv)
    BY <1>1, <1>3, <1>5, <2>1, <2>5, <2>6, <2>10 DEF named, token, type, text
  <2> QED BY <2>7, <2>8, <2>9, <2>10
<1> QED BY <1>4, <1>5

(* find_shortoption finds the same entry.                                  *)
LEMMA ShortIs ==
  ASSUME argtable \in ArgTables, NEW token, token.type = "short", NEW i \in Named(argtable, token)
  PROVE  find_shortoption(token.name) = i
<1> DEFINE j == find_shortoption(token.name)
<1>1. i \in 1 .. Len(argtable) - 1 /\ token.name \in argtable[i].shorts
  BY NamedIs DEF Named
<1>2. j \in 1 .. Len(argtable) - 1 /\ token.name \in argtable[j].shorts
  BY <1>1, ShortFound
<1> HIDE DEF j
<1>3. j \in Named(argtable, token)
  BY <1>2 DEF Named
<1> QED BY <1>3, NamedIs DEF j

(* A part of a sequence.                                                   *)
PartOf(o, m, n) == SubSeq(o, m + 1, n)

LEMMA PartIs ==
  ASSUME NEW S, NEW o \in Seq(S), NEW m \in Nat, NEW n \in Nat, m <= n, n <= Len(o)
  PROVE  /\ Len(PartOf(o, m, n)) = n - m
         /\ \A k \in 1 .. n - m : PartOf(o, m, n)[k] = o[m + k]
<1>1. m + 1 \in Int /\ n \in Int /\ Len(o) \in Nat
  OBVIOUS
<1>2. Len(SubSeq(o, m + 1, n)) = n - m
  BY <1>1
<1>3. ASSUME NEW k \in 1 .. n - m PROVE SubSeq(o, m + 1, n)[k] = o[m + k]
  <2>1. (m + 1) + k - 1 = m + k
    BY <1>1
  <2> QED BY <1>1, <1>3, <2>1
<1> QED BY <1>2, <1>3 DEF PartOf

(* A line that says plainly what it wants.                                 *)
LEMMA PlainTold ==
  ASSUME NEW table \in ArgTables, NEW line \in Seq(ArgToken), Plainly(table, line)
  PROVE  /\ \A p \in 1 .. Len(line) : OptionAt(table, line, p) => OptionFine(table, line, p)
         /\ \A i \in 1 .. Len(table) : Scans(table[i]) /\ i \notin Untagged(table) =>
              LET u == Uses(table, line, i) IN
              /\ table[i].min <= Len(u) /\ Len(u) <= table[i].max
              /\ \A k \in 1 .. Len(u) : u[k] = NoText \/ Meaning(table[i], u[k]) # {}
         /\ \A i \in Untagged(table) :
              LET o == Operands(table, line) IN
              /\ table[i].min <= Len(o) /\ Len(o) <= table[i].max
              /\ \A k \in 1 .. Len(o) : o[k] = NoText \/ Meaning(table[i], o[k]) # {}
         /\ \A i, j \in Untagged(table) : i = j
         /\ Untagged(table) = {} => Len(Operands(table, line)) = 0
<1> DEFINE U == Untagged(table)  o == Operands(table, line)  N == Len(table)
<1>1. N \in Nat /\ N \in 0 .. N /\ Len(line) \in 0 .. Len(line)
      /\ \A i \in 1 .. N : table[i].min \in Nat /\ table[i].max \in Nat
  BY EntriesAre
<1>2. o \in Seq(Texts) /\ Len(o) \in Nat
  <2>1. o \in Seq(Texts)
    BY <1>1, OperandsAre DEF Operands
  <2> HIDE DEF o
  <2> QED BY <2>1
<1> HIDE DEF o
<1>3. U \subseteq 1 .. N
  BY DEF Untagged
<1>4. \A i, j \in U : i = j
  <2>1. IsFiniteSet(U)
    <3>1. IsFiniteSet(1 .. N)
      <4>1. 1 \in Int /\ N \in Int
        BY <1>1
      <4> HIDE DEF N
      <4> QED BY <4>1, FS_Interval
    <3> HIDE DEF U
    <3> QED BY <1>3, <3>1, FS_Subset
  <2>2. Cardinality(U) <= 1 /\ Cardinality(U) \in Nat
    BY <2>1, FS_CardinalityType DEF Plainly
  <2> HIDE DEF U
  <2>3. CASE Cardinality(U) = 0
    BY <2>1, <2>3, FS_EmptySet
  <2>4. CASE Cardinality(U) = 1
    BY <2>1, <2>4, FS_Singleton
  <2> QED BY <2>2, <2>3, <2>4
<1>5. PICK split \in [U -> 0 .. Len(o)] : Described(table, line, split)
  BY DEF Plainly, o
<1>6. split \in [U -> Nat]
  BY <1>2
<1> DEFINE taken == TakenTo(table, split)
<1>7. /\ taken[N] = Len(o)
      /\ \A p \in 1 .. Len(line) : OptionAt(table, line, p) => OptionFine(table, line, p)
      /\ \A i \in 1 .. N : Scans(table[i]) =>
           LET asked == Asked(table, line, split, i) IN
           /\ Len(asked) \in table[i].min .. table[i].max
           /\ \A k \in 1 .. Len(asked) : asked[k] = NoText \/ Meaning(table[i], asked[k]) # {}
  BY <1>5 DEF Described, o
<1>8. ASSUME NEW i \in 1 .. N, Scans(table[i]), i \notin U
      PROVE  LET u == Uses(table, line, i) IN
             /\ table[i].min <= Len(u) /\ Len(u) <= table[i].max
             /\ \A k \in 1 .. Len(u) : u[k] = NoText \/ Meaning(table[i], u[k]) # {}
  <2>1. Asked(table, line, split, i) = Uses(table, line, i)
    BY <1>8 DEF Asked
  <2> QED BY <1>1, <1>7, <1>8, <2>1
<1>9. ASSUME NEW i \in U
      PROVE  /\ table[i].min <= Len(o) /\ Len(o) <= table[i].max
             /\ \A k \in 1 .. Len(o) : o[k] = NoText \/ Meaning(table[i], o[k]) # {}
  <2>1. i \in 1 .. N /\ Scans(table[i])
    BY DEF Untagged
  <2>2. taken[i - 1] = 0 /\ taken[i] = split[i] /\ taken[N] = split[i]
    <3>1. \A j \in U : j = i
      BY <1>4
    <3>2. i - 1 \in 0 .. i - 1 /\ i \in i .. N /\ N \in i .. N
      BY <1>1, <2>1
    <3>3. /\ \A j \in 0 .. i - 1 : taken[j] = 0
          /\ \A j \in i .. N : taken[j] = split[i]
      BY <1>1, <1>6, <3>1, TakenByOne
    <3> HIDE DEF taken
    <3> QED BY <3>2, <3>3
  <2> DEFINE asked == Asked(table, line, split, i)
  <2>3. asked = PartOf(o, 0, Len(o))
    BY <1>7, <2>2 DEF Asked, PartOf, o
  <2>4. Len(asked) = Len(o) - 0 /\ \A k \in 1 .. Len(o) - 0 : asked[k] = o[0 + k]
    <3> DEFINE T == Texts  n == Len(o)
    <3>1. o \in Seq(T) /\ n \in Nat /\ 0 \in Nat /\ 0 <= n /\ n <= Len(o)
      BY <1>2
    <3> HIDE DEF T, asked, n
    <3>2. Len(PartOf(o, 0, n)) = n - 0 /\ \A k \in 1 .. n - 0 : PartOf(o, 0, n)[k] = o[0 + k]
      BY <3>1, PartIs
    <3> QED BY <2>3, <3>2 DEF n
  <2>5. Len(asked) = Len(o) /\ \A k \in 1 .. Len(o) : asked[k] = o[k]
    <3>1. Len(o) - 0 = Len(o) /\ \A k \in 1 .. Len(o) : 0 + k = k
      BY <1>2
    <3> HIDE DEF asked
    <3> QED BY <2>4, <3>1
  <2>6. /\ Len(asked) \in table[i].min .. table[i].max
        /\ \A k \in 1 .. Len(asked) : asked[k] = NoText \/ Meaning(table[i], asked[k]) # {}
    BY <1>7, <2>1
  <2> HIDE DEF asked
  <2> QED BY <1>1, <1>2, <2>1, <2>5, <2>6
<1>10. ASSUME U = {} PROVE Len(o) = 0
  <2>1. taken[N] = taken[0]
    <3>1. 0 \in 0 .. N /\ N \in 0 .. N
      BY <1>1
    <3>2. \A i \in U : i \in 0 + 1 .. N => split[i] = 0
      BY <1>10
    <3> QED BY <1>1, <1>6, <3>1, <3>2, TakenFlat
  <2>2. taken[0] = 0
    BY <1>1, <1>6, TakenIs
  <2> QED BY <1>7, <2>1, <2>2
<1> QED BY <1>4, <1>7, <1>8, <1>9, <1>10 DEF o

(* The states of the entries when that of one of them changes to r.        *)
StateMoved(table, s, i, r, s1) ==
  /\ Sized(table, s1) /\ s1[i] = r
  /\ \A j \in 1 .. Len(table) : j # i => s1[j] = s[j]

LEMMA ArgsMoved ==
  ASSUME NEW table, NEW s, Sized(table, s), NEW i \in 1 .. Len(table),
         NEW r, StateOf(table[i], r)
  PROVE  StateMoved(table, s, i, r, [s EXCEPT ![i] = r])
<1> DEFINE s1 == [s EXCEPT ![i] = r]
<1>1. DOMAIN s = 1 .. Len(table) /\ \A j \in 1 .. Len(table) : StateOf(table[j], s[j])
  BY DEF Sized
<1>2. DOMAIN s1 = 1 .. Len(table) /\ s1[i] = r /\ \A j \in 1 .. Len(table) : j # i => s1[j] = s[j]
  BY <1>1
<1>3. \A j \in 1 .. Len(table) : StateOf(table[j], s1[j])
  BY <1>1, <1>2
<1> QED BY <1>2, <1>3 DEF Sized, StateMoved

(* One more value is read.                                                 *)
LEMMA ReadOn ==
  ASSUME NEW e, e.max \in Nat, NEW s, StateOf(e, s), NEW t, NEW r, ScansTo(e, s, t, r),
         NEW V, NEW q \in Seq(V), t \in V
  PROVE  /\ StateOf(e, r.s)
         /\ ReadOff(e, s, q) /\ r.code = "ok" => ReadOff(e, r.s, Append(q, t))
         /\ LitTold(e, s, q) /\ (e.kind = "lit" => t = NoText) => LitTold(e, r.s, Append(q, t))
<1> DEFINE a == Append(q, t)  n == Len(q)
<1>1. n \in Nat /\ Len(a) = n + 1 /\ a[n + 1] = t /\ \A k \in 1 .. n : a[k] = q[k]
  BY AppendIs
<1> HIDE DEF a, n
<1>2. StateOf(e, r.s)
  BY DEF ScansTo
<1>3. ASSUME ReadOff(e, s, q), r.code = "ok" PROVE ReadOff(e, r.s, a)
  <2>1. s.count = n /\ \A k \in 1 .. n : Fits(e, q[k], s.vals[k])
    BY <1>3 DEF ReadOff, n
  <2>2. /\ r.s.count = n + 1 /\ \A k \in 1 .. n : r.s.vals[k] = s.vals[k]
        /\ Fits(e, t, r.s.vals[n + 1])
    BY <1>3, <2>1 DEF ScansTo
  <2>3. ASSUME NEW k \in 1 .. n + 1 PROVE Fits(e, a[k], r.s.vals[k])
    <3>1. CASE k = n + 1
      BY <1>1, <2>2, <3>1
    <3>2. CASE k \in 1 .. n
      BY <1>1, <2>1, <2>2, <3>2
    <3> QED BY <1>1, <3>1, <3>2
  <2> QED BY <1>1, <2>2, <2>3 DEF ReadOff
<1>4. ASSUME LitTold(e, s, q), e.kind = "lit" => t = NoText PROVE LitTold(e, r.s, a)
  <2> SUFFICES ASSUME e.kind = "lit", e.max # 0
               PROVE  r.s.count > 0 /\ \E k \in 1 .. Len(a) : a[k] = NoText
    BY DEF LitTold
  <2>1. s.count \in Nat /\ s.count <= e.max
    BY DEF StateOf
  <2>2. r.s.count > 0
    <3>1. CASE r.code = "ok"
      BY <2>1, <3>1 DEF ScansTo
    <3>2. CASE r.code # "ok"
      BY <2>1, <3>2 DEF ScansTo
    <3> QED BY <3>1, <3>2
  <2>3. n + 1 \in 1 .. Len(a) /\ a[n + 1] = NoText
    BY <1>1, <1>4
  <2> QED BY <2>2, <2>3
<1> QED BY <1>2, <1>3, <1>4 DEF a

(* getopt_long passes an option, and the token that is its value.          *)
Passed(table, line, p, n) ==
  /\ n \in p .. Len(line) /\ OptionAt(table, line, p)
  /\ n # Len(line) => Roles(table, line)[n] \notin {"wants", "stop", "rest"}
  /\ Roles(table, line)[p] = "wants" <=> Wants(table, line[p])
  /\ OperandsTo(table, line)[n] = OperandsTo(table, line)[p - 1]
  /\ \A q \in p .. n : OptionAt(table, line, q) => q = p
  /\ \A i : UsesTo(table, line, i)[n] = UsedAt(table, line, i, p, UsesTo(table, line, i)[p - 1])

LEMMA OptionPassed ==
  ASSUME NEW table \in ArgTables, NEW line \in Seq(ArgToken), NEW p \in 1 .. Len(line),
         Roles(table, line)[p - 1] \notin {"wants", "stop", "rest"},
         line[p].type \in {"long", "short"},
         NEW n, n = IF Wants(table, line[p]) /\ p # Len(line) THEN p + 1 ELSE p
  PROVE  Passed(table, line, p, n)
<1> DEFINE R == Roles(table, line)
<1>1. p \in 1 .. Len(line) /\ Len(line) \in Nat
  OBVIOUS
<1>2. R[p] = IF Wants(table, line[p]) THEN "wants" ELSE "option"
  BY RoleIs
<1>3. OptionAt(table, line, p) /\ ~OperandAt(table, line, p)
  BY <1>2 DEF OptionAt, OperandAt
<1>4. OperandsTo(table, line)[p] = OperandsTo(table, line)[p - 1]
  BY <1>3, OperandsAre
<1>5. \A i : UsesTo(table, line, i)[p] = UsedAt(table, line, i, p, UsesTo(table, line, i)[p - 1])
  BY UsesAre
<1> HIDE DEF R
<1>6. CASE Wants(table, line[p]) /\ p # Len(line)
  <2>1. n = p + 1 /\ n \in 1 .. Len(line) /\ n - 1 = p
    BY <1>1, <1>6
  <2>2. R[n] = "value"
    BY <1>2, <1>6, <2>1, RoleIs DEF R
  <2>3. ~OptionAt(table, line, n) /\ ~OperandAt(table, line, n)
    BY <2>2 DEF OptionAt, OperandAt, R
  <2>4. OperandsTo(table, line)[n] = OperandsTo(table, line)[p]
    BY <2>1, <2>3, OperandsAre
  <2>5. \A i : UsesTo(table, line, i)[n] = UsedAt(table, line, i, n, UsesTo(table, line, i)[p])
    <3>1. \A i : \A q \in 1 .. Len(line) :
            UsesTo(table, line, i)[q] = UsedAt(table, line, i, q, UsesTo(table, line, i)[q - 1])
      BY UsesAre
    <3> QED BY <2>1, <3>1
  <2>6. \A i : UsesTo(table, line, i)[n] = UsesTo(table, line, i)[p]
    BY <2>3, <2>5 DEF UsedAt
  <2>7. \A q \in p .. n : OptionAt(table, line, q) => q = p
    BY <1>1, <2>1, <2>3
  <2> QED BY <1>1, <1>2, <1>3, <1>4, <1>5, <1>6, <2>1, <2>2, <2>4, <2>6, <2>7 DEF R, Passed
<1>7. CASE ~(Wants(table, line[p]) /\ p # Len(line))
  <2>1. n = p
    BY <1>7
  <2>2. n # Len(line) => R[n] = "option"
    BY <1>2, <1>7, <2>1
  <2> QED BY <1>1, <1>2, <1>3, <1>4, <1>5, <2>1, <2>2 DEF R, Passed
<1> QED BY <1>6, <1>7

(* The value of an option is a text, or there is none.                     *)
LEMMA ValueIs ==
  ASSUME NEW table, NEW line \in Seq(ArgToken), NEW p \in 1 .. Len(line),
         line[p].type \in {"long", "short"},
         Roles(table, line)[p] = "wants" => p # Len(line)
  PROVE  ValueAt(table, line, p) \in Texts \cup {NoText}
<1>1. CASE Roles(table, line)[p] = "wants"
  <2>1. p + 1 \in 1 .. Len(line)
    BY <1>1
  <2>2. line[p + 1] \in ArgToken
    BY <2>1
  <2> QED BY <1>1, <2>2, TextsAre DEF ValueAt
<1>2. CASE Roles(table, line)[p] # "wants"
  <2>1. line[p] \in ArgToken
    OBVIOUS
  <2>2. line[p].text \in Texts \cup {NoText}
    <3> DEFINE T == Texts  token == line[p]
    <3>1. token \in [type : {"word"}, text : T] \cup [type : {"stop"}]
                    \cup [type : {"long", "short"}, name : STRING, text : T \cup {NoText}]
      BY <2>1 DEF ArgToken
    <3>2. token.type \in {"long", "short"}
      OBVIOUS
    <3> HIDE DEF T, token
    <3>3. token.text \in T \cup {NoText}
      BY <3>1, <3>2
    <3> QED BY <3>3 DEF T, token
  <2> QED BY <1>2, <2>2 DEF ValueAt
<1> QED BY <1>1, <1>2

(* The value of an option goes through the scanfn of its entry.            *)
LEMMA TokenRead ==
  ASSUME argtable \in ArgTables, StepInv, stage = "tagged", optind <= Len(argv),
         argv[optind].type \in {"long", "short"}, NEW i \in Named(argtable, argv[optind]),
         NEW t, t = ValueAt(argtable, argv, optind),
         argv[optind].text # NoText => argtable[i].kind # "lit",
         Wants(argtable, argv[optind]) => optind # Len(argv),
         args' = [args EXCEPT ![i] = Scan(i, t).s],
         optind' = IF Wants(argtable, argv[optind]) THEN optind + 2 ELSE optind + 1,
         UNCHANGED <<argtable, argv, stage, words, tabindex, parses>>,
         found' = <<>> <=> /\ found = <<>> /\ Scan(i, t).code = "ok"
                           /\ OptionFine(argtable, argv, optind)
  PROVE  StepInv'
<1> DEFINE p == optind  token == argv[p]  r == Scan(i, t)  e == argtable[i]  s == args[i]
           n == optind' - 1  N == Len(argtable)
           U(j, q) == UsesTo(argtable, argv, j)[q]
           V == Values(argtable, argv)
<1>1. /\ argv \in Seq(ArgToken) /\ p \in 1 .. Len(argv) /\ Len(argv) \in Nat
      /\ words = OperandsTo(argtable, argv)[p - 1]
      /\ Roles(argtable, argv)[p - 1] \notin {"wants", "stop", "rest"}
      /\ LitsTold(argtable, argv, args, p - 1)
      /\ found = <<>> => OptionsRead(argtable, argv, args, p - 1)
  <2>1. argv \in Seq(ArgToken) /\ p - 1 \in 0 .. Len(argv) /\ p \in Nat
    BY DEF StepInv, LineInv, WordInv, Position
  <2>2. p \in 1 .. Len(argv) /\ Len(argv) \in Nat /\ p - 1 < Len(argv)
    BY <2>1
  <2> QED BY <2>1, <2>2 DEF StepInv, LineInv, Position, Unfailed
<1>2. n = IF Wants(argtable, token) /\ p # Len(argv) THEN p + 1 ELSE p
  BY <1>1
<1>3. /\ n \in p .. Len(argv) /\ OptionAt(argtable, argv, p)
      /\ n # Len(argv) => Roles(argtable, argv)[n] \notin {"wants", "stop", "rest"}
      /\ Roles(argtable, argv)[p] = "wants" <=> Wants(argtable, token)
      /\ OperandsTo(argtable, argv)[n] = words
      /\ \A q \in p .. n : OptionAt(argtable, argv, q) => q = p
      /\ \A j : U(j, n) = UsedAt(argtable, argv, j, p, U(j, p - 1))
  <2> HIDE DEF n
  <2>1. Passed(argtable, argv, p, n)
    BY <1>1, <1>2, OptionPassed
  <2> QED BY <1>1, <2>1 DEF Passed
<1>4. /\ i \in 1 .. N /\ Tagged(e) /\ Scans(e) /\ \A j \in Named(argtable, token) : j = i
      /\ e.max \in Nat
  BY NamedIs, EntriesAre
<1>5. t \in Texts \cup {NoText} /\ t \in V
  BY <1>1, <1>3, ValueIs DEF Values
<1>6. ScansTo(e, s, t, r) /\ StateOf(e, s) /\ Sized(argtable, args)
  BY <1>4, <1>5, ScanMeans DEF StepInv, Sized
<1>7. e.kind = "lit" => t = NoText
  <2> SUFFICES ASSUME e.kind = "lit" PROVE t = NoText
    OBVIOUS
  <2>1. e.flags = {}
    BY <1>4, EntriesAre
  <2>2. ~Wants(argtable, token)
    BY <1>4, <2>1 DEF Wants
  <2> QED BY <1>3, <2>2 DEF ValueAt
<1>8. /\ U(i, n) = Append(U(i, p - 1), t)
      /\ \A j : j # i => U(j, n) = U(j, p - 1)
  BY <1>3, <1>4 DEF UsedAt
<1>9. U(i, p - 1) \in Seq(V) /\ Len(U(i, p - 1)) \in Nat
  <2>1. p - 1 \in 0 .. Len(argv)
    BY <1>1
  <2> QED BY <1>1, <2>1, UsesAre
<1> HIDE DEF U, V, r, e, s, n, token
<1>10. /\ StateOf(e, r.s)
       /\ ReadOff(e, s, U(i, p - 1)) /\ r.code = "ok" => ReadOff(e, r.s, U(i, n))
       /\ LitTold(e, s, U(i, p - 1)) => LitTold(e, r.s, U(i, n))
  BY <1>4, <1>5, <1>6, <1>7, <1>8, <1>9, ReadOn
<1>11. /\ Sized(argtable, args') /\ args'[i] = r.s
       /\ \A j \in 1 .. N : j # i => args'[j] = args[j]
  <2>1. StateMoved(argtable, args, i, r.s, [args EXCEPT ![i] = r.s])
    BY <1>4, <1>6, <1>10, ArgsMoved DEF e
  <2> QED BY <2>1 DEF StateMoved, r
<1>12. LitsTold(argtable, argv, args', n)
  <2> SUFFICES ASSUME NEW j \in 1 .. N, Tagged(argtable[j])
               PROVE  LitTold(argtable[j], args'[j], U(j, n))
    BY DEF LitsTold, U
  <2>1. LitTold(argtable[j], args[j], U(j, p - 1))
    BY <1>1 DEF LitsTold, U
  <2>2. CASE j = i
    BY <1>10, <1>11, <2>1, <2>2 DEF e, s
  <2>3. CASE j # i
    BY <1>8, <1>11, <2>1, <2>3
  <2> QED BY <2>2, <2>3
<1>13. ASSUME found' = <<>> PROVE OptionsRead(argtable, argv, args', n)
  <2>1. OptionsRead(argtable, argv, args, p - 1) /\ r.code = "ok" /\ OptionFine(argtable, argv, p)
    BY <1>1, <1>13 DEF r
  <2>2. ASSUME NEW q \in 1 .. n, OptionAt(argtable, argv, q) PROVE OptionFine(argtable, argv, q)
    <3>1. q \in 1 .. p - 1 \/ q \in p .. n
      BY <1>1, <1>3
    <3>2. CASE q \in 1 .. p - 1
      BY <2>1, <2>2, <3>2 DEF OptionsRead
    <3>3. CASE q \in p .. n
      BY <1>3, <2>1, <2>2, <3>3
    <3> QED BY <3>1, <3>2, <3>3
  <2>3. ASSUME NEW j \in 1 .. N, Tagged(argtable[j]) PROVE ReadOff(argtable[j], args'[j], U(j, n))
    <3>1. ReadOff(argtable[j], args[j], U(j, p - 1))
      BY <2>1, <2>3 DEF OptionsRead, U
    <3>2. CASE j = i
      BY <1>10, <1>11, <2>1, <3>1, <3>2 DEF e, s
    <3>3. CASE j # i
      BY <1>8, <1>11, <3>1, <3>3
    <3> QED BY <3>2, <3>3
  <2> QED BY <2>2, <2>3 DEF OptionsRead, U
<1>14. LineInv'
  <2>1. Position' = n /\ n \in 0 .. Len(argv)
    BY <1>1, <1>3 DEF Position, n
  <2>2. n < Len(argv) => n # Len(argv)
    BY <1>1, <1>3
  <2>3. Unfailed' => found' = <<>>
    BY DEF Unfailed
  <2> QED BY <1>1, <1>3, <1>12, <1>13, <2>1, <2>2, <2>3 DEF LineInv
<1>15. WordInv'
  <2>1. tabindex' = 1 /\ optind' \in Nat
    BY <1>1 DEF StepInv, WordInv
  <2>2. \A j \in Untagged(argtable) : args'[j].count = 0
    <3> SUFFICES ASSUME NEW j \in Untagged(argtable) PROVE args'[j].count = 0
      OBVIOUS
    <3>1. j \in 1 .. N /\ j # i /\ args[j].count = 0
      BY <1>4 DEF Untagged, StepInv, WordInv, e
    <3> QED BY <1>11, <3>1
  <2>3. WordsTaken(argtable, args', words)
    BY <2>2 DEF WordsTaken
  <2> QED BY <2>1, <2>2, <2>3 DEF WordInv
<1>16. ASSUME Plainly(argtable, argv) PROVE found' = <<>>
  <2>1. found = <<>> /\ OptionFine(argtable, argv, p)
    BY <1>1, <1>3, <1>16, PlainTold DEF StepInv, PlainInv
  <2> DEFINE u == Uses(argtable, argv, i)  m == Len(U(i, p - 1)) + 1
  <2>2. s.count = m - 1
    BY <1>1, <1>4, <1>9, <2>1 DEF OptionsRead, ReadOff, U, s, e
  <2>3. Len(U(i, n)) = m /\ U(i, n)[m] = t
    BY <1>5, <1>8, <1>9, AppendIs
  <2>4. Len(U(i, n)) <= Len(u) /\ \A k \in 1 .. Len(U(i, n)) : u[k] = U(i, n)[k]
    <3>1. n \in 0 .. Len(argv)
      BY <1>1, <1>3
    <3>2. UsedTo(argtable, argv, i, n)
      BY <1>1, <3>1, UsesGrow
    <3> QED BY <3>2 DEF U, UsedTo
  <2>5. /\ Len(u) <= e.max
        /\ \A k \in 1 .. Len(u) : u[k] = NoText \/ Meaning(e, u[k]) # {}
    <3>1. i \notin Untagged(argtable)
      BY <1>4 DEF Untagged, e
    <3> QED BY <1>1, <1>4, <1>16, <3>1, PlainTold DEF e
  <2>6. Len(u) \in Nat
    BY <1>1, UsesAre DEF Uses
  <2> HIDE DEF u, m
  <2>7. m \in Nat /\ m <= Len(u) /\ m \in 1 .. Len(u) /\ u[m] = t
    BY <1>9, <2>3, <2>4, <2>6 DEF m
  <2>8. s.count < e.max /\ (t = NoText \/ Meaning(e, t) # {})
    BY <1>4, <2>2, <2>5, <2>6, <2>7
  <2>9. r.code = "ok"
    BY <1>6, <2>8 DEF ScansTo
  <2> QED BY <2>1, <2>9 DEF r
<1>17. PlainInv'
  BY <1>16 DEF PlainInv
<1> QED BY <1>11, <1>14, <1>15, <1>17 DEF StepInv

(* Where getopt_long is in the tagged parse.                               *)
LEMMA AtToken ==
  ASSUME StepInv, stage = "tagged", optind <= Len(argv)
  PROVE  /\ argv \in Seq(ArgToken) /\ optind \in 1 .. Len(argv) /\ Len(argv) \in Nat
         /\ words = OperandsTo(argtable, argv)[optind - 1]
         /\ Roles(argtable, argv)[optind - 1] \notin {"wants", "stop", "rest"}
         /\ LitsTold(argtable, argv, args, optind - 1)
         /\ found = <<>> => OptionsRead(argtable, argv, args, optind - 1)
<1>1. argv \in Seq(ArgToken) /\ optind - 1 \in 0 .. Len(argv) /\ optind \in Nat
  BY DEF StepInv, LineInv, WordInv, Position
<1>2. optind \in 1 .. Len(argv) /\ Len(argv) \in Nat /\ optind - 1 < Len(argv)
  BY <1>1
<1> QED BY <1>1, <1>2 DEF StepInv, LineInv, Position, Unfailed

(* A value that is there does not tell of a tagged entry without values.   *)
LEMMA LitUntold ==
  ASSUME NEW e, NEW s, NEW V, NEW q \in Seq(V), NEW x \in V, x # NoText, LitTold(e, s, q)
  PROVE  LitTold(e, s, Append(q, x))
<1> DEFINE a == Append(q, x)  n == Len(q)
<1>1. n \in Nat /\ Len(a) = n + 1 /\ a[n + 1] = x /\ \A k \in 1 .. n : a[k] = q[k]
  BY AppendIs
<1> HIDE DEF a
<1>2. (\E k \in 1 .. n : q[k] = NoText) <=> (\E k \in 1 .. n + 1 : a[k] = NoText)
  <2>1. ASSUME NEW k \in 1 .. n, q[k] = NoText PROVE k \in 1 .. n + 1 /\ a[k] = NoText
    BY <1>1, <2>1
  <2>2. ASSUME NEW k \in 1 .. n + 1, a[k] = NoText PROVE k \in 1 .. n /\ q[k] = NoText
    <3>1. k # n + 1
      BY <1>1, <2>2
    <3>2. k \in 1 .. n
      BY <1>1, <3>1
    <3> QED BY <1>1, <2>2, <3>2
  <2> HIDE DEF n
  <2> QED BY <2>1, <2>2
<1> QED BY <1>1, <1>2 DEF LitTold, a

(* An option getopt_long fails for, which is none the table describes.     *)
LEMMA TokenRefused ==
  ASSUME argtable \in ArgTables, StepInv, stage = "tagged", optind <= Len(argv),
         argv[optind].type \in {"long", "short"},
         \/ Named(argtable, argv[optind]) = {}
         \/ \E i \in Named(argtable, argv[optind]) :
              argtable[i].kind = "lit" /\ argv[optind].text # NoText
         \/ Wants(argtable, argv[optind]) /\ optind = Len(argv),
         args' = args, optind' = optind + 1, found' # <<>>,
         UNCHANGED <<argtable, argv, stage, words, tabindex, parses>>
  PROVE  StepInv'
<1> DEFINE p == optind  token == argv[p]  N == Len(argtable)  named == Named(argtable, token)
           U(j, q) == UsesTo(argtable, argv, j)[q]
           V == Values(argtable, argv)
<1>1. /\ argv \in Seq(ArgToken) /\ p \in 1 .. Len(argv) /\ Len(argv) \in Nat
      /\ words = OperandsTo(argtable, argv)[p - 1]
      /\ Roles(argtable, argv)[p - 1] \notin {"wants", "stop", "rest"}
      /\ LitsTold(argtable, argv, args, p - 1)
  BY AtToken
<1>2. ASSUME NEW i \in named
      PROVE  /\ i \in 1 .. N /\ (\A j \in named : j = i)
             /\ argtable[i].kind = "lit" => ~Wants(argtable, token)
  <2>1. i \in 1 .. N /\ \A j \in named : j = i
    BY NamedIs
  <2>2. argtable[i].kind = "lit" => argtable[i].flags = {}
    BY <2>1, EntriesAre
  <2> QED BY <2>1, <2>2 DEF Wants
<1>3. \/ named = {} /\ ~Wants(argtable, token)
      \/ ~Wants(argtable, token) /\ token.text # NoText
      \/ /\ Wants(argtable, token) /\ p = Len(argv)
         /\ \A i \in named : argtable[i].kind # "lit"
  <2>1. named = {} => ~Wants(argtable, token)
    BY DEF Wants
  <2> HIDE DEF named, token
  <2> QED BY <1>2, <2>1 DEF named, token
<1>4. Passed(argtable, argv, p, p)
  BY <1>1, <1>3, OptionPassed
<1>5. LitsTold(argtable, argv, args, p)
  <2> SUFFICES ASSUME NEW j \in 1 .. N, Tagged(argtable[j])
               PROVE  LitTold(argtable[j], args[j], U(j, p))
    BY DEF LitsTold
  <2>1. LitTold(argtable[j], args[j], U(j, p - 1))
    BY <1>1 DEF LitsTold
  <2>2. U(j, p) = UsedAt(argtable, argv, j, p, U(j, p - 1))
    BY <1>4 DEF Passed
  <2>3. CASE j \notin named
    BY <1>1, <2>1, <2>2, <2>3 DEF UsedAt
  <2>4. CASE j \in named /\ argtable[j].kind # "lit"
    BY <2>4 DEF LitTold
  <2>5. CASE j \in named /\ argtable[j].kind = "lit"
    <3> DEFINE x == ValueAt(argtable, argv, p)
    <3>1. ~Wants(argtable, token) /\ token.text # NoText
      BY <1>3, <2>5
    <3>2. x # NoText
      BY <1>4, <3>1 DEF Passed, ValueAt
    <3>3. U(j, p) = Append(U(j, p - 1), x)
      BY <1>4, <2>2, <2>5 DEF UsedAt, Passed
    <3>4. U(j, p - 1) \in Seq(V)
      <4>1. p - 1 \in 0 .. Len(argv)
        BY <1>1
      <4>2. \A q \in 0 .. Len(argv) : U(j, q) \in Seq(V)
        BY <1>1, UsesAre
      <4> HIDE DEF U, V
      <4> QED BY <4>1, <4>2
    <3>5. x \in V
      BY <1>1 DEF Values
    <3> HIDE DEF U, V, x
    <3> QED BY <2>1, <3>2, <3>3, <3>4, <3>5, LitUntold
  <2> QED BY <2>3, <2>4, <2>5
<1>6. LineInv'
  <2>1. Position' = p /\ p \in 0 .. Len(argv) /\ ~Unfailed'
    BY <1>1 DEF Position, Unfailed
  <2>2. OperandsTo(argtable, argv)[p] = words
    BY <1>1, <1>4 DEF Passed
  <2>3. p < Len(argv) => Roles(argtable, argv)[p] \notin {"wants", "stop", "rest"}
    BY <1>1, <1>4 DEF Passed
  <2> QED BY <1>1, <1>5, <2>1, <2>2, <2>3 DEF LineInv
<1>7. WordInv'
  BY <1>1 DEF StepInv, WordInv, Unfailed
<1>8. ~Plainly(argtable, argv)
  <2> SUFFICES ASSUME Plainly(argtable, argv) PROVE FALSE
    OBVIOUS
  <2>1. OptionFine(argtable, argv, p)
    BY <1>1, <1>4, PlainTold DEF Passed
  <2>2. ~(Wants(argtable, token) /\ p = Len(argv))
    BY <1>1, <1>4, <2>1 DEF OptionFine, Passed
  <2>3. named # {} /\ \A i \in named : token.text # NoText => argtable[i].kind # "lit"
    BY <2>1 DEF OptionFine
  <2> QED BY <2>2, <2>3
<1>9. PlainInv'
  BY <1>8 DEF PlainInv
<1> QED BY <1>6, <1>7, <1>9 DEF StepInv

(* When there are no errors.                                               *)
LEMMA NoneOf ==
  ASSUME NEW S, NEW a \in Seq(S), NEW b \in Seq(S)
  PROVE  a \o b = <<>> <=> a = <<>> /\ b = <<>>
<1>1. a \o <<>> = a /\ <<>> \o b = b /\ Len(a \o b) = Len(a) + Len(b)
      /\ Len(a) \in Nat /\ Len(b) \in Nat
  OBVIOUS
<1>2. (Len(a) = 0 => a = <<>>) /\ (Len(b) = 0 => b = <<>>) /\ Len(<<>>) = 0
  OBVIOUS
<1>3. ASSUME a \o b = <<>> PROVE a = <<>> /\ b = <<>>
  <2>1. Len(a) + Len(b) = 0
    BY <1>1, <1>2, <1>3
  <2>2. Len(a) = 0 /\ Len(b) = 0
    BY <1>1, <2>1
  <2> QED BY <1>2, <2>2
<1> QED BY <1>1, <1>3

LEMMA OneIn ==
  ASSUME NEW S, NEW x \in S, NEW a, a = <<>> \/ a = <<x>>
  PROVE  a \in Seq(S)
<1>1. <<>> \in Seq(S)
  OBVIOUS
<1>2. <<x>> \in Seq(S)
  OBVIOUS
<1> QED BY <1>1, <1>2

LEMMA NoneRegistered ==
  ASSUME KeptOf(argtable, errors, found), NEW E, NEW news \in Seq(E), Registers(news)
  PROVE  found' = <<>> <=> found = <<>> /\ news = <<>>
<1> DEFINE S == ErrorsOf(argtable) \cup E
<1>1. found' = found \o news /\ found \in Seq(ErrorsOf(argtable))
  BY DEF Registers, KeptOf
<1>2. ErrorsOf(argtable) \subseteq S /\ E \subseteq S
  OBVIOUS
<1> HIDE DEF S
<1>3. found \in Seq(S) /\ news \in Seq(S)
  BY <1>1, <1>2, SeqMonotonic
<1> QED BY <1>1, <1>3, NoneOf

(* Which options are fine that getopt_long returns.                        *)
LEMMA FineIs ==
  ASSUME NEW table \in ArgTables, NEW line \in Seq(ArgToken), NEW p \in 1 .. Len(line),
         line[p].type \in {"long", "short"}, NEW n, Passed(table, line, p, n),
         NEW i \in Named(table, line[p]), NEW t, t = ValueAt(table, line, p),
         line[p].text # NoText => table[i].kind # "lit",
         Wants(table, line[p]) => p # Len(line)
  PROVE  OptionFine(table, line, p) <=>
           ~(line[p].type = "long" /\ t # NoText /\ Empty(t) /\ "HASVALUE" \in table[i].flags)
<1> DEFINE token == line[p]  wants == Wants(table, token)
<1>1. /\ i \in 1 .. Len(table) /\ Scans(table[i]) /\ \A j \in Named(table, token) : j = i
  BY NamedIs
<1>2. /\ table[i].kind = "lit" => table[i].flags = {}
      /\ table[i].kind # "lit" => table[i].flags \in {{"HASVALUE"}, {"HASVALUE", "HASOPTVALUE"}}
  BY <1>1, EntriesAre
<1>3. table[i].kind # "lit" <=> "HASVALUE" \in table[i].flags
  BY <1>2
<1>4. Roles(table, line)[p] = "wants" <=> wants
  BY DEF Passed
<1>5. wants <=> table[i].flags = {"HASVALUE"} /\ token.text = NoText
  BY <1>1 DEF Wants
<1>6. OptionFine(table, line, p) <=>
        /\ wants => p < Len(line)
        /\ token.text # NoText => ~(token.type = "long" /\ Empty(token.text))
        /\ wants /\ token.type = "long" => ~Empty(TextOf(line[p + 1]))
  BY <1>1, <1>4 DEF OptionFine
<1>7. CASE wants
  <2>1. t = TextOf(line[p + 1]) /\ token.text = NoText /\ "HASVALUE" \in table[i].flags
    BY <1>3, <1>4, <1>5, <1>7 DEF ValueAt
  <2>2. t # NoText
    <3>1. p + 1 \in 1 .. Len(line)
      BY <1>7
    <3>2. line[p + 1] \in ArgToken
      BY <3>1
    <3> QED BY <2>1, <3>2, TextsAre
  <2>3. p < Len(line)
    BY <1>7
  <2> QED BY <1>6, <1>7, <2>1, <2>2, <2>3
<1>8. CASE ~wants
  <2>1. t = token.text
    BY <1>4, <1>8 DEF ValueAt
  <2> HIDE DEF wants, token
  <2> QED BY <1>3, <1>6, <1>8, <2>1 DEF token
<1> QED BY <1>7, <1>8

-----------------------------------------------------------------------------
(* An option whose value goes through the scanfn of its entry.             *)
LEMMA OptionStep ==
  ASSUME ParseInv, NEW copt \in {"long", "short"}, AtOption(copt),
         NEW i \in Named(argtable, argv[optind]), GetOpt.val = i - 1,
         NEW before, before = IF /\ copt = "long" /\ GetOpt.optarg # NoText
                                 /\ Empty(GetOpt.optarg) /\ "HASVALUE" \in argtable[i].flags
                              THEN <<Error(EndIndex, "EMISSARG")>> ELSE <<>>,
         Scanned(i, GetOpt.optarg, before)
  PROVE  StepInv'
<1> DEFINE p == optind  token == argv[p]  t == GetOpt.optarg
           news == IF Scan(i, t).code = "ok" THEN <<>> ELSE <<Error(i, Scan(i, t).code)>>
           n == IF Wants(argtable, token) /\ p # Len(argv) THEN p + 1 ELSE p
<1>1. /\ argtable \in ArgTables /\ StepInv /\ KeptOf(argtable, errors, found)
      /\ stage = "tagged" /\ p <= Len(argv) /\ token.type \in {"long", "short"}
      /\ GetOpt.copt = copt /\ optind' = GetOpt.next
      /\ UNCHANGED <<argtable, argv, stage, words, tabindex, parses>>
  BY DEF ParseInv, OptInv, AtOption
<1>2. /\ argv \in Seq(ArgToken) /\ p \in 1 .. Len(argv) /\ Len(argv) \in Nat
      /\ Roles(argtable, argv)[p - 1] \notin {"wants", "stop", "rest"}
  BY <1>1, AtToken
<1>3. /\ copt = token.type
      /\ token.text # NoText => argtable[i].kind # "lit"
      /\ ~Wants(argtable, token) => t = token.text /\ GetOpt.next = p + 1
      /\ Wants(argtable, token) =>
           p # Len(argv) /\ t = TextOf(argv[p + 1]) /\ GetOpt.next = p + 2
  <2>1. \A j \in Named(argtable, token) : j = i
    BY <1>1, NamedIs
  <2> QED BY <1>1, <1>2, <2>1, GetOptIs
<1>4. Passed(argtable, argv, p, n)
  <2> HIDE DEF n
  <2> QED BY <1>1, <1>2, OptionPassed DEF n
<1>5. t = ValueAt(argtable, argv, p)
  BY <1>3, <1>4 DEF Passed, ValueAt
<1>6. OptionFine(argtable, argv, p) <=> before = <<>>
  <2>1. OptionFine(argtable, argv, p) <=>
          ~(token.type = "long" /\ t # NoText /\ Empty(t) /\ "HASVALUE" \in argtable[i].flags)
    <3> HIDE DEF n, t
    <3> QED BY <1>1, <1>2, <1>3, <1>4, <1>5, FineIs
  <2>2. <<Error(EndIndex, "EMISSARG")>> # <<>>
    OBVIOUS
  <2> QED BY <1>3, <2>1, <2>2
<1>7. found' = <<>> <=> found = <<>> /\ Scan(i, t).code = "ok" /\ OptionFine(argtable, argv, p)
  <2>1. args' = [args EXCEPT ![i] = Scan(i, t).s] /\ Registers(before \o news)
    BY DEF Scanned
  <2> DEFINE E == {Error(EndIndex, "EMISSARG"), Error(i, Scan(i, t).code)}
  <2>2. before \in Seq(E) /\ news \in Seq(E)
    <3> DEFINE x == Error(EndIndex, "EMISSARG")  y == Error(i, Scan(i, t).code)
    <3>1. before \in {<<>>, <<x>>} /\ news \in {<<>>, <<y>>}
      OBVIOUS
    <3>2. x \in E /\ y \in E
      OBVIOUS
    <3> HIDE DEF x, y, E, news
    <3> QED BY <3>1, <3>2, OneIn
  <2>3. before \o news = <<>> <=> before = <<>> /\ news = <<>>
    <3> HIDE DEF E, news
    <3> QED BY <2>2, NoneOf
  <2>4. news = <<>> <=> Scan(i, t).code = "ok"
    OBVIOUS
  <2>5. found' = <<>> <=> found = <<>> /\ before \o news = <<>>
    <3> HIDE DEF E, news
    <3>1. before \o news \in Seq(E)
      BY <2>2
    <3> QED BY <1>1, <2>1, <3>1, NoneRegistered
  <2> QED BY <1>6, <2>3, <2>4, <2>5
<1>8. args' = [args EXCEPT ![i] = Scan(i, t).s]
  BY DEF Scanned
<1>9. optind' = IF Wants(argtable, token) THEN p + 2 ELSE p + 1
  BY <1>1, <1>3
<1> HIDE DEF t, n, news
<1> QED BY <1>1, <1>3, <1>5, <1>7, <1>8, <1>9, TokenRead

LEMMA LongOptionStep == ParseInv /\ LongOption => StepInv'
<1> SUFFICES ASSUME ParseInv, LongOption PROVE StepInv'
  OBVIOUS
<1>1. /\ argtable \in ArgTables /\ StepInv /\ AtOption("long")
      /\ stage = "tagged" /\ optind <= Len(argv) /\ argv[optind].type \in {"long", "short"}
      /\ GetOpt.copt = "long"
  BY DEF ParseInv, OptInv, AtOption, LongOption
<1>2. argv \in Seq(ArgToken) /\ optind \in 1 .. Len(argv)
  BY <1>1, AtToken
<1>3. PICK i \in Named(argtable, argv[optind]) : GetOpt.val = i - 1
  BY <1>1, <1>2, GetOptIs
<1>4. i \in 1 .. Len(argtable) /\ GetOpt.val + 1 = i
  <2>1. i \in 1 .. Len(argtable) /\ Len(argtable) \in Nat
    BY <1>1, NamedIs, TableIs
  <2>2. (i - 1) + 1 = i
    BY <2>1
  <2> QED BY <1>3, <2>1, <2>2
<1> DEFINE before == IF GetOpt.optarg # NoText /\ Empty(GetOpt.optarg) /\ "HASVALUE" \in argtable[i].flags
                     THEN <<Error(EndIndex, "EMISSARG")>> ELSE <<>>
<1>5. Scanned(i, GetOpt.optarg, before)
  BY <1>4 DEF LongOption
<1>6. before = IF /\ "long" = "long" /\ GetOpt.optarg # NoText
                  /\ Empty(GetOpt.optarg) /\ "HASVALUE" \in argtable[i].flags
               THEN <<Error(EndIndex, "EMISSARG")>> ELSE <<>>
  OBVIOUS
<1> HIDE DEF before
<1> QED BY <1>1, <1>3, <1>5, <1>6, OptionStep

LEMMA ShortOptionStep == ParseInv /\ ShortOption => StepInv'
<1> SUFFICES ASSUME ParseInv, ShortOption PROVE StepInv'
  OBVIOUS
<1>1. /\ argtable \in ArgTables /\ StepInv /\ AtOption("short")
      /\ stage = "tagged" /\ optind <= Len(argv) /\ argv[optind].type \in {"long", "short"}
      /\ GetOpt.copt = "short"
  BY DEF ParseInv, OptInv, AtOption, ShortOption
<1>2. argv \in Seq(ArgToken) /\ optind \in 1 .. Len(argv)
  BY <1>1, AtToken
<1>3. PICK i \in Named(argtable, argv[optind]) :
        GetOpt.val = i - 1 /\ GetOpt.copt = argv[optind].type
  BY <1>1, <1>2, GetOptIs
<1>4. find_shortoption(argv[optind].name) = i
  BY <1>1, <1>3, ShortIs
<1>5. Scanned(i, GetOpt.optarg, <<>>)
  BY <1>4 DEF ShortOption
<1>6. <<>> = IF /\ "short" = "long" /\ GetOpt.optarg # NoText
                /\ Empty(GetOpt.optarg) /\ "HASVALUE" \in argtable[i].flags
             THEN <<Error(EndIndex, "EMISSARG")>> ELSE <<>>
  OBVIOUS
<1> QED BY <1>1, <1>3, <1>5, <1>6, OptionStep

(* An option getopt_long fails for.                                        *)
LEMMA RefusedStep ==
  ASSUME ParseInv, NEW copt \in {"?", ":"}, AtOption(copt), args' = args,
         NEW error, Registers(<<error>>)
  PROVE  StepInv'
<1>1. /\ argtable \in ArgTables /\ StepInv /\ KeptOf(argtable, errors, found)
      /\ stage = "tagged" /\ optind <= Len(argv) /\ argv[optind].type \in {"long", "short"}
      /\ GetOpt.copt \notin {"long", "short"} /\ optind' = GetOpt.next
      /\ UNCHANGED <<argtable, argv, stage, words, tabindex, parses>>
  BY DEF ParseInv, OptInv, AtOption
<1>2. argv \in Seq(ArgToken) /\ optind \in 1 .. Len(argv)
  BY <1>1, AtToken
<1>3. /\ GetOpt.next = optind + 1
      /\ \/ Named(argtable, argv[optind]) = {}
         \/ \E i \in Named(argtable, argv[optind]) :
              argtable[i].kind = "lit" /\ argv[optind].text # NoText
         \/ Wants(argtable, argv[optind]) /\ optind = Len(argv)
  BY <1>1, <1>2, GetOptIs
<1>4. found' # <<>>
  <2>1. <<error>> \in Seq({error}) /\ <<error>> # <<>>
    BY OneIn
  <2> QED BY <1>1, <2>1, NoneRegistered
<1> QED BY <1>1, <1>3, <1>4, TokenRefused

LEMMA UnknownOptionStep == ParseInv /\ UnknownOption => StepInv'
  BY RefusedStep DEF UnknownOption

LEMMA MissingValueStep == ParseInv /\ MissingValue => StepInv'
  BY RefusedStep DEF MissingValue

(* arg_parse begins.                                                       *)
LEMMA CommandLinesAre ==
  ASSUME argtable \in ArgTables, NEW line \in Lines
  PROVE  line \in Seq(ArgToken)
<1>1. line \in SeqOf(ArgTokens(argtable), MaxArgs - 2 * parses)
  BY DEF Lines
<1> DEFINE n == MaxArgs - 2 * parses  S == ArgTokens(argtable)  T == ArgToken
<1>2. S \subseteq T
  BY TokenAssumption
<1>3. PICK m \in 0 .. n : line \in [1 .. m -> S]
  <2> HIDE DEF n, S, T
  <2> QED BY <1>1 DEF SeqOf, n, S
<1>4. m \in Nat
  OBVIOUS
<1> HIDE DEF n, S, T
<1>5. line \in [1 .. m -> T]
  BY <1>2, <1>3
<1>6. line \in Seq(T)
  BY <1>4, <1>5, MadeSeq
<1> QED BY <1>6 DEF T

LEMMA ResetIs ==
  ASSUME NEW e, e.max \in Nat, NEW s, StateOf(e, s)
  PROVE  StateOf(e, ResetFn(s, e)) /\ ResetFn(s, e).count = 0
<1> DEFINE r == ResetFn(s, e)
<1>1. r = [s EXCEPT !.count = 0, !.compiled = IF e.kind = "rex" THEN 1 ELSE 0]
  BY DEF ResetFn
<1>2. DOMAIN r = DOMAIN s /\ r.vals = s.vals /\ r.count = 0
  BY <1>1 DEF StateOf
<1> HIDE DEF r
<1> QED BY <1>2 DEF StateOf, r

LEMMA ParseCallStep ==
  ASSUME ParseInv, NEW line \in Lines, ParseCall(line)
  PROVE  StepInv'
<1> DEFINE N == Len(argtable)
<1>1. /\ argtable \in ArgTables /\ Sized(argtable, args) /\ parses \in Nat
      /\ argtable' = argtable /\ argv' = line /\ stage' = "tagged" /\ optind' = 1
      /\ words' = <<>> /\ tabindex' = 1 /\ found' = <<>> /\ parses' = parses + 1
      /\ args' = [i \in 1 .. N |-> ResetFn(args[i], argtable[i])]
  BY DEF ParseInv, OptInv, StepInv, ParseCall, EndIndex
<1>2. line \in Seq(ArgToken) /\ Len(line) \in Nat
  BY <1>1, CommandLinesAre
<1>3. ASSUME NEW i \in 1 .. N
      PROVE  StateOf(argtable[i], args'[i]) /\ args'[i].count = 0
  <2>1. StateOf(argtable[i], args[i]) /\ argtable[i].max \in Nat
    BY <1>1, EntriesAre DEF Sized
  <2>2. args'[i] = ResetFn(args[i], argtable[i])
    BY <1>1
  <2> QED BY <2>1, <2>2, ResetIs
<1>4. DOMAIN args' = 1 .. N
  BY <1>1
<1>5. Sized(argtable, args')
  BY <1>3, <1>4 DEF Sized
<1>6. \A i : UsesTo(argtable, line, i)[0] = <<>> /\ Len(UsesTo(argtable, line, i)[0]) = 0
  <2> TAKE i
  <2>1. UsesTo(argtable, line, i)[0] = <<>>
    BY <1>2, UsesAre
  <2>2. Len(<<>>) = 0
    OBVIOUS
  <2> QED BY <2>1, <2>2, Zenon
<1>7. \A i \in 1 .. N : /\ LitTold(argtable[i], args'[i], UsesTo(argtable, line, i)[0])
                        /\ ReadOff(argtable[i], args'[i], UsesTo(argtable, line, i)[0])
  BY <1>3, <1>6 DEF LitTold, ReadOff
<1>8. LitsTold(argtable, line, args', 0) /\ OptionsRead(argtable, line, args', 0)
  BY <1>7 DEF LitsTold, OptionsRead
<1>9. OperandsTo(argtable, line)[0] = <<>> /\ Roles(argtable, line)[0] = "start"
  BY <1>2, OperandsAre, RolesAre
<1>10. Position' = 0
  BY <1>1 DEF Position
<1>11. LineInv'
  BY <1>1, <1>2, <1>8, <1>9, <1>10 DEF LineInv
<1>12. \A i \in Untagged(argtable) : args'[i].count = 0
  BY <1>3 DEF Untagged
<1>13. WordInv'
  <2>1. WordsTaken(argtable', args', words')
    <3> SUFFICES ASSUME NEW i \in Untagged(argtable), NEW k \in 1 .. args'[i].count PROVE FALSE
      BY <1>1 DEF WordsTaken
    <3>1. args'[i].count = 0
      BY <1>12
    <3> QED BY <3>1
  <2> HIDE DEF N
  <2> QED BY <1>1, <1>12, <2>1 DEF WordInv
<1>14. PlainInv'
  BY <1>1 DEF PlainInv
<1>15. Sized(argtable', args') /\ parses' \in Nat
  BY <1>1, <1>5
<1> QED BY <1>11, <1>13, <1>14, <1>15 DEF StepInv

(* getopt_long moves a word, or ends with "--".                            *)
LEMMA PermuteStep == ParseInv /\ Permute => StepInv'
<1> SUFFICES ASSUME ParseInv, Permute PROVE StepInv'
  OBVIOUS
<1> DEFINE p == optind  token == argv[p]  N == Len(argtable)  R == Roles(argtable, argv)
           U(j, q) == UsesTo(argtable, argv, j)[q]  n == optind' - 1
<1>1. /\ argtable \in ArgTables /\ StepInv /\ stage = "tagged" /\ p <= Len(argv)
      /\ UNCHANGED <<argtable, argv, stage, tabindex, args, found, parses>>
  BY DEF ParseInv, OptInv, Permute
<1>2. /\ argv \in Seq(ArgToken) /\ p \in 1 .. Len(argv) /\ Len(argv) \in Nat
      /\ words = OperandsTo(argtable, argv)[p - 1]
      /\ R[p - 1] \notin {"wants", "stop", "rest"}
      /\ LitsTold(argtable, argv, args, p - 1)
      /\ found = <<>> => OptionsRead(argtable, argv, args, p - 1)
  BY <1>1, AtToken
<1>3. /\ n \in p .. Len(argv) /\ words' = OperandsTo(argtable, argv)[n] /\ optind' \in Nat
      /\ n < Len(argv) => R[n] \notin {"wants", "stop", "rest"}
      /\ \A q \in p .. n : ~OptionAt(argtable, argv, q)
  <2>1. CASE token.type = "word"
    <3>1. /\ words' = Append(words, token.text) /\ optind' = p + 1 /\ n = p
      BY <1>2, <2>1 DEF Permute
    <3>2. R[p] = "word"
      BY <1>2, <2>1, RoleIs
    <3>3. OperandAt(argtable, argv, p) /\ ~OptionAt(argtable, argv, p)
      BY <3>2 DEF OperandAt, OptionAt
    <3>4. TextOf(token) = token.text
      BY <2>1 DEF TextOf
    <3>5. OperandsTo(argtable, argv)[p] = Append(words, TextOf(token))
      BY <1>2, <3>3, OperandsAre
    <3> HIDE DEF n, R
    <3> QED BY <1>2, <3>1, <3>2, <3>3, <3>4, <3>5
  <2>2. CASE token.type = "stop"
    <3> DEFINE rest == SubSeq(argv, p + 1, Len(argv))
    <3>1. /\ words' = words \o [k \in 1 .. Len(rest) |-> TextOf(rest[k])]
          /\ optind' = Len(argv) + 1 /\ n = Len(argv)
      <4>1. token.type # "word"
        BY <2>2
      <4>2. /\ words' = words \o [k \in 1 .. Len(rest) |-> TextOf(rest[k])]
            /\ optind' = Len(argv) + 1
        <5> HIDE DEF rest
        <5> QED BY <4>1, Zenon DEF Permute, rest
      <4> HIDE DEF rest
      <4> QED BY <1>2, <4>2
    <3>2. R[p] = "stop"
      BY <1>2, <2>2, RoleIs
    <3>3. \A q \in p .. n : ~OptionAt(argtable, argv, q)
      <4>1. \A q \in p + 1 .. Len(argv) : R[q] = "rest"
        BY <1>2, <3>2, RestIs
      <4> QED BY <1>2, <3>1, <3>2, <4>1 DEF OptionAt
    <3>4. Len(rest) = Len(argv) - p /\ \A k \in 1 .. Len(argv) - p : rest[k] = argv[p + k]
      <4> DEFINE T == ArgToken  l == Len(argv)
      <4>1. argv \in Seq(T) /\ p \in Nat /\ l \in Nat /\ p <= l /\ l <= Len(argv)
        BY <1>2
      <4>2. rest = PartOf(argv, p, l)
        BY DEF PartOf
      <4> HIDE DEF T, rest, l
      <4>3. /\ Len(PartOf(argv, p, l)) = l - p
            /\ \A k \in 1 .. l - p : PartOf(argv, p, l)[k] = argv[p + k]
        BY <4>1, PartIs
      <4> QED BY <4>2, <4>3, Zenon DEF l
    <3>5. [k \in 1 .. Len(rest) |-> TextOf(rest[k])] = [k \in 1 .. Len(argv) - p |-> TextOf(argv[p + k])]
      <4> HIDE DEF rest
      <4> QED BY <3>4
    <3>6. OperandsTo(argtable, argv)[Len(argv)] =
            words \o [k \in 1 .. Len(argv) - p |-> TextOf(argv[p + k])]
      <4> DEFINE more == [k \in 1 .. Len(argv) - p |-> TextOf(argv[p + k])]
      <4>1. OperandsTo(argtable, argv)[Len(argv)] = OperandsTo(argtable, argv)[p - 1] \o more
        BY <1>2, <3>2, OperandsRest
      <4> QED BY <1>2, <4>1
    <3>7. words' = OperandsTo(argtable, argv)[n]
      <4> HIDE DEF rest, n
      <4> QED BY <3>1, <3>5, <3>6, Zenon
    <3>8. n \in p .. Len(argv) /\ optind' \in Nat /\ ~(n < Len(argv))
      BY <1>2, <3>1
    <3> HIDE DEF rest, n, R
    <3> QED BY <3>3, <3>7, <3>8
  <2> QED BY <2>1, <2>2 DEF Permute
<1>4. ASSUME NEW j PROVE U(j, n) = U(j, p - 1)
  <2>0. n \in p .. Len(argv)
    BY <1>3
  <2>1. p - 1 \in Nat /\ n \in Nat /\ p - 1 <= n /\ (p - 1) + 1 = p /\ p .. n \subseteq 1 .. Len(argv)
    <3> HIDE DEF n
    <3> QED BY <1>2, <2>0
  <2> DEFINE f == UsesTo(argtable, argv, j)
  <2>2. \A q \in 1 .. Len(argv) : f[q] = UsedAt(argtable, argv, j, q, f[q - 1])
    BY <1>2, UsesAre
  <2> HIDE DEF f, n
  <2>3. \A q \in p .. n : f[q] = f[q - 1]
    BY <1>3, <2>1, <2>2 DEF UsedAt
  <2>4. \A q \in p - 1 .. n : f[q] = f[p - 1]
    <3> DEFINE m == p - 1
    <3>1. m \in Nat /\ n \in Nat /\ m <= n /\ \A q \in m + 1 .. n : f[q] = f[q - 1]
      BY <2>1, <2>3
    <3> HIDE DEF m
    <3>2. \A q \in m .. n : f[q] = f[m]
      BY <3>1, Unmoved
    <3> QED BY <3>2 DEF m
  <2> QED BY <2>1, <2>4 DEF f
<1> HIDE DEF U, n, R
<1>5. LitsTold(argtable, argv, args, n)
  BY <1>2, <1>4 DEF LitsTold, U
<1>6. ASSUME found = <<>> PROVE OptionsRead(argtable, argv, args, n)
  <2>1. OptionsRead(argtable, argv, args, p - 1)
    BY <1>2, <1>6
  <2>2. ASSUME NEW q \in 1 .. n, OptionAt(argtable, argv, q) PROVE OptionFine(argtable, argv, q)
    <3>1. q \in 1 .. p - 1
      BY <1>2, <1>3, <2>2
    <3> QED BY <2>1, <2>2, <3>1 DEF OptionsRead
  <2> QED BY <1>4, <2>1, <2>2 DEF OptionsRead, U
<1>7. LineInv'
  <2>1. Position' = n /\ n \in 0 .. Len(argv)
    <3>1. n \in p .. Len(argv)
      BY <1>3
    <3>2. Position' = n
      BY <1>1 DEF Position, n
    <3> QED BY <1>2, <3>1, <3>2
  <2>2. Unfailed' => found = <<>>
    BY <1>1 DEF Unfailed
  <2> QED BY <1>1, <1>2, <1>3, <1>5, <1>6, <2>1, <2>2 DEF LineInv, R
<1>8. WordInv'
  BY <1>1, <1>3 DEF StepInv, WordInv, WordsTaken
<1>9. PlainInv'
  BY <1>1 DEF StepInv, PlainInv
<1> QED BY <1>1, <1>7, <1>8, <1>9 DEF StepInv

-----------------------------------------------------------------------------
(* The counts of the entries for words.                                    *)
LEMMA CountsAre ==
  ASSUME NEW table \in ArgTables, NEW s, Sized(table, s)
  PROVE  /\ Counts(table, s) \in [Untagged(table) -> Nat]
         /\ \A i \in Untagged(table) : Counts(table, s)[i] = s[i].count
         /\ Len(table) \in Nat \ {0}
<1>1. ASSUME NEW i \in Untagged(table) PROVE s[i].count \in Nat
  <2>1. i \in 1 .. Len(table)
    BY DEF Untagged
  <2>2. table[i].max \in Nat /\ StateOf(table[i], s[i])
    BY <2>1, EntriesAre DEF Sized
  <2> QED BY <2>2 DEF StateOf
<1>2. Len(table) \in Nat \ {0}
  BY EntriesAre
<1> QED BY <1>1, <1>2 DEF Counts

(* The states s and s1 of an entry say the same of the line.               *)
Alike(s, s1, i) == s1[i].count = s[i].count /\ s1[i].vals = s[i].vals

LEMMA ReadAlike ==
  ASSUME NEW table, NEW line, NEW s, NEW s1, NEW p,
         \A i \in 1 .. Len(table) : Tagged(table[i]) => Alike(s, s1, i)
  PROVE  /\ LitsTold(table, line, s, p) => LitsTold(table, line, s1, p)
         /\ OptionsRead(table, line, s, p) => OptionsRead(table, line, s1, p)
<1> SUFFICES ASSUME NEW i \in 1 .. Len(table), Tagged(table[i]), NEW q
             PROVE  /\ LitTold(table[i], s[i], q) => LitTold(table[i], s1[i], q)
                    /\ ReadOff(table[i], s[i], q) => ReadOff(table[i], s1[i], q)
  BY DEF LitsTold, OptionsRead
<1>1. Alike(s, s1, i)
  OBVIOUS
<1> QED BY <1>1 DEF Alike, LitTold, ReadOff

LEMMA TakenAlike ==
  ASSUME NEW table, NEW s, NEW s1, NEW w, \A i \in Untagged(table) : Alike(s, s1, i)
  PROVE  /\ Counts(table, s1) = Counts(table, s)
         /\ WordsTaken(table, s, w) => WordsTaken(table, s1, w)
<1>1. Counts(table, s1) = Counts(table, s)
  BY DEF Counts, Alike
<1> DEFINE T == TakenTo(table, Counts(table, s))
<1>2. ASSUME \A i \in Untagged(table) : \A k \in 1 .. s[i].count :
               T[i - 1] + k \in 1 .. Len(w) /\ Fits(table[i], w[T[i - 1] + k], s[i].vals[k])
      PROVE  \A i \in Untagged(table) : \A k \in 1 .. s1[i].count :
               T[i - 1] + k \in 1 .. Len(w) /\ Fits(table[i], w[T[i - 1] + k], s1[i].vals[k])
  <2> HIDE DEF T
  <2> QED BY <1>2 DEF Alike
<1> QED BY <1>1, <1>2 DEF WordsTaken

(* Behind the options, what was read of them stays.                        *)
LEMMA LineStays ==
  ASSUME LineInv, stage \notin {"idle", "tagged"}, stage' \notin {"idle", "tagged"},
         UNCHANGED <<argtable, argv, words>>, Unfailed' => Unfailed,
         \A i \in 1 .. Len(argtable) : Tagged(argtable[i]) => Alike(args, args', i)
  PROVE  LineInv'
<1>1. Position' = Position
  BY DEF Position
<1>2. /\ LitsTold(argtable, argv, args, Position) => LitsTold(argtable, argv, args', Position)
      /\ OptionsRead(argtable, argv, args, Position) => OptionsRead(argtable, argv, args', Position)
  <2> DEFINE p == Position
  <2> HIDE DEF p
  <2>1. /\ LitsTold(argtable, argv, args, p) => LitsTold(argtable, argv, args', p)
        /\ OptionsRead(argtable, argv, args, p) => OptionsRead(argtable, argv, args', p)
    BY ReadAlike
  <2> QED BY <2>1 DEF p
<1> HIDE DEF Position, Unfailed
<1> QED BY <1>1, <1>2 DEF LineInv

(* Then the words are the operands of the line.                            *)
LEMMA WordsAre ==
  ASSUME argtable \in ArgTables, LineInv, stage \notin {"idle", "tagged"}
  PROVE  /\ argv \in Seq(ArgToken) /\ Len(argv) \in Nat
         /\ words = Operands(argtable, argv) /\ words \in Seq(Texts) /\ Len(words) \in Nat
<1>1. argv \in Seq(ArgToken) /\ Len(argv) \in Nat /\ words = OperandsTo(argtable, argv)[Len(argv)]
  BY DEF LineInv, Position
<1>2. \A p \in 0 .. Len(argv) : OperandsTo(argtable, argv)[p] \in Seq(Texts)
  BY <1>1, OperandsAre
<1>3. words \in Seq(Texts)
  BY <1>1, <1>2
<1> DEFINE T == Texts
<1>4. words \in Seq(T)
  BY <1>3
<1> HIDE DEF T
<1>5. Len(words) \in Nat
  BY <1>4
<1> QED BY <1>1, <1>3, <1>5 DEF Operands

-----------------------------------------------------------------------------
LEMMA TaggedEndStep == ParseInv /\ TaggedEnd => StepInv'
<1> SUFFICES ASSUME ParseInv, TaggedEnd PROVE StepInv'
  OBVIOUS
<1>1. /\ argtable \in ArgTables /\ StepInv /\ stage = "tagged" /\ stage' = "untagged"
      /\ optind > Len(argv) /\ optind' = 1
      /\ UNCHANGED <<argtable, argv, words, tabindex, args, found, parses>>
  BY DEF ParseInv, OptInv, TaggedEnd
<1>2. Sized(argtable, args) /\ parses \in Nat /\ LineInv /\ WordInv /\ PlainInv
  BY <1>1 DEF StepInv
<1>3. tabindex = 1 /\ optind \in Nat /\ \A i \in Untagged(argtable) : args[i].count = 0
  BY <1>1, <1>2 DEF WordInv
<1>4. argv \in Seq(ArgToken) /\ Len(argv) \in Nat /\ optind - 1 = Len(argv)
  <2>1. argv \in Seq(ArgToken) /\ optind - 1 \in 0 .. Len(argv)
    BY <1>1, <1>2 DEF LineInv, Position
  <2>2. Len(argv) \in Nat
    BY <2>1
  <2> QED BY <1>1, <1>3, <2>1, <2>2
<1>5. Position = Len(argv) /\ Position' = Len(argv) /\ (Unfailed' => Unfailed)
  BY <1>1, <1>4 DEF Position, Unfailed
<1>6. LineInv'
  <2> HIDE DEF Position, Unfailed
  <2>1. ~(Len(argv) < Len(argv))
    BY <1>4
  <2> QED BY <1>1, <1>2, <1>4, <1>5, <2>1 DEF LineInv
<1>7. Len(words') \in Nat
  BY <1>1, <1>6, WordsAre
<1> DEFINE s == Counts(argtable, args)
<1>8. s \in [Untagged(argtable) -> Nat] /\ Len(argtable) \in Nat \ {0}
      /\ \A i \in Untagged(argtable) : s[i] = 0
  BY <1>1, <1>2, <1>3, CountsAre
<1>9. TakenTo(argtable, s)[1] = 0
  <2> HIDE DEF s
  <2> DEFINE z == 0  o == 1
  <2>1. Len(argtable) \in Nat /\ z \in 0 .. Len(argtable) /\ o \in z .. Len(argtable)
        /\ \A i \in Untagged(argtable) : i \in z + 1 .. o => s[i] = 0
    BY <1>8
  <2> HIDE DEF z, o
  <2>2. TakenTo(argtable, s)[o] = TakenTo(argtable, s)[z]
    BY <1>8, <2>1, TakenFlat
  <2>3. TakenTo(argtable, s)[0] = 0
    BY <1>8, TakenIs
  <2> QED BY <2>2, <2>3 DEF z, o
<1>10. WordInv'
  <2>1. Unfailed => WordsTaken(argtable, args, words)
    BY <1>1, <1>2 DEF WordInv
  <2>2. 1 \in 1 .. Len(words') + 1
    BY <1>7
  <2>3. TakenTo(argtable, Counts(argtable, args))[tabindex] = optind' - 1
    BY <1>1, <1>3, <1>9
  <2> HIDE DEF Unfailed, s
  <2> QED BY <1>1, <1>3, <1>5, <2>1, <2>2, <2>3 DEF WordInv
<1>11. PlainInv'
  <2>1. \A i \in Untagged(argtable) : 1 <= i
    BY <1>8 DEF Untagged
  <2>2. Plainly(argtable, argv) => found = <<>>
    BY <1>1, <1>2 DEF PlainInv
  <2> QED BY <1>1, <1>3, <2>1, <2>2 DEF PlainInv
<1>12. Sized(argtable', args') /\ parses' \in Nat
  BY <1>1, <1>2
<1> QED BY <1>6, <1>10, <1>11, <1>12 DEF StepInv

-----------------------------------------------------------------------------
(* Where the untagged parse is.                                            *)
LEMMA AtWords ==
  ASSUME ParseInv, stage = "untagged"
  PROVE  /\ argtable \in ArgTables /\ Sized(argtable, args) /\ parses \in Nat
         /\ LineInv /\ WordInv /\ PlainInv /\ tabindex \in 1 .. Len(argtable)
         /\ Len(argtable) \in Nat \ {0} /\ optind \in 1 .. Len(words) + 1
         /\ argv \in Seq(ArgToken) /\ words = Operands(argtable, argv)
         /\ words \in Seq(Texts) /\ Len(words) \in Nat
         /\ Counts(argtable, args) \in [Untagged(argtable) -> Nat]
         /\ \A i \in Untagged(argtable) : Counts(argtable, args)[i] = args[i].count
         /\ Untagged(argtable) \subseteq 1 .. Len(argtable) - 1
<1>1. /\ argtable \in ArgTables /\ Sized(argtable, args) /\ parses \in Nat
      /\ LineInv /\ WordInv /\ PlainInv /\ tabindex \in 1 .. Len(argtable)
  BY DEF ParseInv, StepInv, OptInv
<1>2. /\ argv \in Seq(ArgToken) /\ words = Operands(argtable, argv)
      /\ words \in Seq(Texts) /\ Len(words) \in Nat
  BY <1>1, WordsAre
<1>3. optind \in 1 .. Len(words) + 1
  BY <1>1 DEF WordInv
<1>4. /\ Counts(argtable, args) \in [Untagged(argtable) -> Nat]
      /\ \A i \in Untagged(argtable) : Counts(argtable, args)[i] = args[i].count
      /\ Len(argtable) \in Nat \ {0}
  BY <1>1, CountsAre
<1>5. ~Scans(argtable[Len(argtable)])
  BY <1>1, EntriesAre
<1>6. Untagged(argtable) \subseteq 1 .. Len(argtable) - 1
  BY <1>4, <1>5 DEF Untagged
<1> QED BY <1>1, <1>2, <1>3, <1>4, <1>6

(* The next entry, when this one takes no more.                            *)
LEMMA NextEntry ==
  ASSUME ParseInv, stage = "untagged", tabindex < EndIndex, tabindex' = tabindex + 1,
         UNCHANGED <<argtable, argv, stage, optind, words, found, parses>>,
         Sized(argtable, args'), \A i \in 1 .. Len(argtable) : Alike(args, args', i),
         Plainly(argtable, argv) => tabindex \notin Untagged(argtable)
  PROVE  StepInv'
<1>1. /\ argtable \in ArgTables /\ Sized(argtable, args) /\ parses \in Nat
      /\ LineInv /\ WordInv /\ PlainInv /\ tabindex \in 1 .. Len(argtable)
      /\ Len(argtable) \in Nat \ {0} /\ optind \in 1 .. Len(words) + 1
      /\ Counts(argtable, args) \in [Untagged(argtable) -> Nat]
      /\ \A i \in Untagged(argtable) : Counts(argtable, args)[i] = args[i].count
      /\ Untagged(argtable) \subseteq 1 .. Len(argtable) - 1
  BY AtWords
<1>2. Unfailed' => Unfailed
  BY DEF Unfailed
<1>3. LineInv'
  BY <1>1, <1>2, LineStays
<1>4. /\ Counts(argtable, args') = Counts(argtable, args)
      /\ WordsTaken(argtable, args, words) => WordsTaken(argtable, args', words)
  <2>1. \A i \in Untagged(argtable) : i \in 1 .. Len(argtable)
    BY DEF Untagged
  <2>2. \A i \in Untagged(argtable) : Alike(args, args', i)
    BY <2>1
  <2> QED BY <2>2, TakenAlike
<1> DEFINE s == Counts(argtable, args)
<1>5. ASSUME Unfailed'
      PROVE  /\ WordsTaken(argtable, args', words)
             /\ TakenTo(argtable, s)[tabindex + 1] = optind - 1
             /\ \A i \in Untagged(argtable) : i > tabindex + 1 => args'[i].count = 0
  <2>1. /\ WordsTaken(argtable, args, words) /\ TakenTo(argtable, s)[tabindex] = optind - 1
        /\ \A i \in Untagged(argtable) : i > tabindex => args[i].count = 0
    BY <1>1, <1>2, <1>5 DEF WordInv
  <2>2. tabindex + 1 \in 1 .. Len(argtable) /\ (tabindex + 1) - 1 = tabindex /\ tabindex + 1 > tabindex
    BY <1>1 DEF EndIndex
  <2>3. TakenTo(argtable, s)[tabindex + 1] = TakenTo(argtable, s)[tabindex]
    <3> DEFINE n == tabindex + 1
    <3>1. n \in Untagged(argtable) => s[n] = 0
      BY <1>1, <2>1, <2>2
    <3>2. n \in 1 .. Len(argtable) /\ n - 1 = tabindex /\ tabindex \in 0 .. Len(argtable)
      BY <1>1, <2>2
    <3> HIDE DEF s, n
    <3>3. s \in [Untagged(argtable) -> Nat] /\ Len(argtable) \in Nat
      BY <1>1 DEF s
    <3>4. /\ TakenTo(argtable, s)[n] =
               TakenTo(argtable, s)[n - 1] + IF n \in Untagged(argtable) THEN s[n] ELSE 0
          /\ TakenTo(argtable, s)[tabindex] \in Nat
      BY <3>2, <3>3, TakenIs
    <3>5. TakenTo(argtable, s)[n] = TakenTo(argtable, s)[tabindex] + 0
      BY <3>1, <3>2, <3>4
    <3> QED BY <3>4, <3>5 DEF n
  <2>4. \A i \in Untagged(argtable) : i > tabindex + 1 => args'[i].count = 0
    <3> TAKE i \in Untagged(argtable)
    <3>1. i \in 1 .. Len(argtable)
      BY <1>1
    <3>2. args'[i].count = args[i].count
      BY <3>1 DEF Alike
    <3> QED BY <1>1, <2>1, <3>1, <3>2
  <2> QED BY <1>4, <2>1, <2>3, <2>4
<1>6. WordInv'
  <2> HIDE DEF Unfailed
  <2> QED BY <1>1, <1>4, <1>5 DEF WordInv
<1>7. PlainInv'
  <2> SUFFICES ASSUME Plainly(argtable, argv)
               PROVE  found = <<>> /\ \A i \in Untagged(argtable) : tabindex + 1 <= i
    BY DEF PlainInv
  <2>1. found = <<>> /\ \A i \in Untagged(argtable) : tabindex <= i
    BY <1>1 DEF PlainInv
  <2>2. \A i \in Untagged(argtable) : i \in Nat /\ i # tabindex
    BY <1>1
  <2> QED BY <1>1, <2>1, <2>2
<1> QED BY <1>1, <1>3, <1>6, <1>7 DEF StepInv

LEMMA SkipEntryStep == ParseInv /\ SkipEntry => StepInv'
<1> SUFFICES ASSUME ParseInv, SkipEntry PROVE StepInv'
  OBVIOUS
<1>1. /\ stage = "untagged" /\ tabindex < EndIndex /\ tabindex' = tabindex + 1 /\ args' = args
      /\ UNCHANGED <<argtable, argv, stage, optind, words, found, parses>>
      /\ tabindex \notin Untagged(argtable)
  BY DEF SkipEntry, AtEntry, Untagged
<1>2. Sized(argtable, args') /\ \A i \in 1 .. Len(argtable) : Alike(args, args', i)
  BY <1>1, AtWords DEF Alike
<1> QED BY <1>1, <1>2, NextEntry

(* A round of the untagged parse that tries an entry.                      *)
LEMMA EntryTakes ==
  ASSUME ParseInv, stage = "untagged", tabindex < EndIndex, tabindex \in Untagged(argtable),
         NEW r, ScansTo(argtable[tabindex], args[tabindex], words[optind], r), r.code = "ok",
         StateMoved(argtable, args, tabindex, r.s, args'),
         optind <= Len(words), optind' = optind + 1,
         UNCHANGED <<argtable, argv, stage, tabindex, words, found, parses>>
  PROVE  StepInv'
<1> DEFINE u == tabindex  n == args[u].count  U == Untagged(argtable)
           s == Counts(argtable, args)  s1 == Counts(argtable, args')
<1>1. /\ argtable \in ArgTables /\ Sized(argtable, args) /\ parses \in Nat
      /\ LineInv /\ WordInv /\ PlainInv /\ u \in 1 .. Len(argtable)
      /\ Len(argtable) \in Nat \ {0} /\ optind \in 1 .. Len(words) + 1 /\ Len(words) \in Nat
      /\ s \in [U -> Nat] /\ \A i \in U : s[i] = args[i].count
      /\ U \subseteq 1 .. Len(argtable) - 1
  BY AtWords
<1>2. /\ Sized(argtable, args') /\ args'[u] = r.s
      /\ \A j \in 1 .. Len(argtable) : j # u => args'[j] = args[j]
  BY DEF StateMoved
<1>3. /\ s1 \in [U -> Nat] /\ \A i \in U : s1[i] = args'[i].count
  BY <1>1, <1>2, CountsAre
<1>4. /\ r.s.count = n + 1 /\ \A k \in 1 .. n : r.s.vals[k] = args[u].vals[k]
      /\ Fits(argtable[u], words[optind], r.s.vals[n + 1])
  BY DEF ScansTo
<1>5. LineInv'
  <2>1. \A i \in 1 .. Len(argtable) : Tagged(argtable[i]) => Alike(args, args', i)
    BY <1>2 DEF Alike, Untagged
  <2>2. Unfailed' => Unfailed
    BY DEF Unfailed
  <2> QED BY <1>1, <2>1, <2>2, LineStays
<1>6. n \in Nat /\ s[u] = n /\ s1[u] = n + 1
      /\ \A i \in U : i # u => args'[i] = args[i] /\ s1[i] = s[i]
  <2>1. u \in U /\ s[u] = n /\ s[u] \in Nat
    BY <1>1
  <2>2. args'[u].count = n + 1 /\ s1[u] = args'[u].count
    BY <1>2, <1>3, <1>4
  <2>3. ASSUME NEW i \in U, i # u PROVE args'[i] = args[i] /\ s1[i] = s[i]
    <3>1. i \in 1 .. Len(argtable)
      BY DEF Untagged
    <3>2. args'[i] = args[i]
      BY <1>2, <2>3, <3>1
    <3> QED BY <1>1, <1>3, <3>2
  <2> HIDE DEF s, s1, n, U
  <2> QED BY <2>1, <2>2, <2>3
<1> DEFINE T(i) == TakenTo(argtable, s)[i]  T1(i) == TakenTo(argtable, s1)[i]  m == u - 1
<1>7. \A i \in 0 .. m : T1(i) = T(i)
  <2>1. Len(argtable) \in Nat /\ m \in 0 .. Len(argtable)
    BY <1>1
  <2>2. \A i \in U : i <= m => s[i] = s1[i]
    BY <1>1, <1>6
  <2>3. s \in [Untagged(argtable) -> Nat] /\ s1 \in [Untagged(argtable) -> Nat]
    BY <1>1, <1>3
  <2> HIDE DEF s, s1, m
  <2>4. \A i \in 0 .. m : TakenTo(argtable, s)[i] = TakenTo(argtable, s1)[i]
    BY <2>1, <2>2, <2>3, TakenAgree
  <2> QED BY <2>4
<1>8. T(m) \in Nat /\ T(u) = T(m) + n /\ T1(u) = T1(m) + (n + 1)
  <2> HIDE DEF s, s1
  <2>1. Len(argtable) \in Nat /\ u \in 1 .. Len(argtable) /\ m \in 0 .. Len(argtable)
    BY <1>1
  <2>2. T(m) \in Nat /\ T(u) = T(u - 1) + IF u \in U THEN s[u] ELSE 0
    BY <1>1, <2>1, TakenIs
  <2>3. T1(u) = T1(u - 1) + IF u \in U THEN s1[u] ELSE 0
    BY <1>1, <1>3, <2>1, TakenIs
  <2> HIDE DEF n
  <2> QED BY <1>6, <2>2, <2>3
<1>9. m \in Nat /\ m \in 0 .. m /\ \A i \in U : i < u => i - 1 \in 0 .. m
  BY <1>1
<1>10. ASSUME Unfailed'
       PROVE  /\ WordsTaken(argtable, args', words) /\ T1(u) = optind
              /\ \A i \in U : i > u => args'[i].count = 0
  <2>1. /\ WordsTaken(argtable, args, words) /\ T(u) = optind - 1
        /\ \A i \in U : i > u => args[i].count = 0
    BY <1>1, <1>10 DEF WordInv, Unfailed
  <2>2. T(m) + n = optind - 1 /\ T1(m) = T(m) /\ T1(u) = optind
    <3>1. T1(m) = T(m) /\ n \in Nat /\ optind \in Nat
      BY <1>1, <1>6, <1>7, <1>9
    <3> HIDE DEF T, T1, n, m
    <3> QED BY <1>8, <2>1, <3>1
  <2>3. \A i \in U : i > u => args'[i].count = 0
    <3>1. \A i \in U : i > u => i # u
      BY <1>1
    <3> HIDE DEF s, s1, n, U
    <3> QED BY <1>6, <2>1, <3>1
  <2>4. ASSUME NEW i \in U, NEW k \in 1 .. args'[i].count
        PROVE  T1(i - 1) + k \in 1 .. Len(words)
               /\ Fits(argtable[i], words[T1(i - 1) + k], args'[i].vals[k])
    <3>1. ASSUME k \in 1 .. args[i].count, T1(i - 1) = T(i - 1), args'[i].vals[k] = args[i].vals[k]
          PROVE  T1(i - 1) + k \in 1 .. Len(words)
                 /\ Fits(argtable[i], words[T1(i - 1) + k], args'[i].vals[k])
      <4>1. T(i - 1) + k \in 1 .. Len(words)
            /\ Fits(argtable[i], words[T(i - 1) + k], args[i].vals[k])
        BY <2>1, <3>1 DEF WordsTaken
      <4> HIDE DEF T, T1
      <4> QED BY <3>1, <4>1
    <3>2. CASE i < u
      <4>1. i # u /\ i - 1 \in 0 .. m
        <5>1. i \in Nat /\ u \in Nat
          BY <1>1
        <5>2. i - 1 \in 0 .. m
          <6> HIDE DEF m
          <6> QED BY <1>9, <3>2
        <5> QED BY <3>2, <5>1, <5>2
      <4>2. args'[i] = args[i]
        BY <1>6, <4>1
      <4>3. T1(i - 1) = T(i - 1)
        <5> HIDE DEF T, T1, m
        <5> QED BY <1>7, <4>1
      <4>4. k \in 1 .. args[i].count /\ args'[i].vals[k] = args[i].vals[k]
        BY <4>2
      <4> QED BY <3>1, <4>3, <4>4
    <3>3. CASE i = u /\ k \in 1 .. n
      <4>1. args'[i].vals[k] = args[i].vals[k]
        BY <1>2, <1>4, <3>3
      <4>2. k \in 1 .. args[i].count
        BY <3>3
      <4>3. T1(i - 1) = T(i - 1)
        BY <2>2, <3>3
      <4> QED BY <3>1, <4>1, <4>2, <4>3
    <3>4. CASE i = u /\ k = n + 1
      <4>1. T1(i - 1) + k = optind
        <5>1. T1(i - 1) = T(m)
          BY <2>2, <3>4
        <5> HIDE DEF T, T1, m, n
        <5> QED BY <1>1, <1>6, <1>8, <2>2, <3>4, <5>1
      <4>2. Fits(argtable[i], words[optind], args'[i].vals[k])
        BY <1>2, <1>4, <3>4
      <4>3. optind \in 1 .. Len(words)
        BY <1>1
      <4> HIDE DEF T, T1
      <4> QED BY <4>1, <4>2, <4>3
    <3>5. i \in Nat /\ u \in Nat /\ i <= u
      <4>1. i \in Nat /\ u \in Nat
        BY <1>1
      <4> QED BY <2>3, <4>1
    <3>6. i = u => k \in 1 .. n \/ k = n + 1
      <4>1. i = u => args'[i].count = n + 1
        BY <1>2, <1>4
      <4> HIDE DEF n
      <4> QED BY <1>6, <4>1
    <3> HIDE DEF T, T1, n
    <3> QED BY <3>2, <3>3, <3>4, <3>5, <3>6
  <2>5. WordsTaken(argtable, args', words)
    BY <2>4 DEF WordsTaken
  <2> QED BY <2>2, <2>3, <2>5
<1>11. WordInv'
  <2>1. optind + 1 \in 1 .. Len(words) + 1 /\ (optind + 1) - 1 = optind
    BY <1>1
  <2> HIDE DEF Unfailed
  <2> QED BY <1>10, <2>1 DEF WordInv
<1>12. PlainInv'
  BY <1>1 DEF PlainInv
<1> QED BY <1>1, <1>2, <1>5, <1>11, <1>12 DEF StepInv

LEMMA TryEntryStep == ParseInv /\ TryEntry => StepInv'
<1> SUFFICES ASSUME ParseInv, TryEntry PROVE StepInv'
  OBVIOUS
<1> DEFINE u == tabindex  t == words[optind]  r == Scan(u, t)  e == argtable[u]
<1>1. /\ stage = "untagged" /\ u < EndIndex /\ optind <= Len(words)
      /\ UNCHANGED <<argtable, argv, stage, words, found, parses>>
      /\ ~Tagged(e) /\ Scans(e) /\ args' = [args EXCEPT ![u] = r.s]
      /\ \/ r.code = "ok" /\ optind' = optind + 1 /\ UNCHANGED tabindex
         \/ r.code # "ok" /\ tabindex' = u + 1 /\ UNCHANGED optind
  BY DEF TryEntry, AtEntry
<1>2. /\ argtable \in ArgTables /\ Sized(argtable, args) /\ LineInv /\ WordInv /\ PlainInv
      /\ u \in 1 .. Len(argtable) /\ optind \in 1 .. Len(words) /\ Len(words) \in Nat
      /\ argv \in Seq(ArgToken) /\ words = Operands(argtable, argv) /\ t \in Texts
  <2>1. /\ argtable \in ArgTables /\ Sized(argtable, args) /\ LineInv /\ WordInv /\ PlainInv
        /\ u \in 1 .. Len(argtable) /\ optind \in 1 .. Len(words) + 1 /\ Len(words) \in Nat
        /\ argv \in Seq(ArgToken) /\ words = Operands(argtable, argv) /\ words \in Seq(Texts)
    BY <1>1, AtWords
  <2>2. optind \in 1 .. Len(words)
    BY <1>1, <2>1
  <2>3. t \in Texts
    <3> DEFINE T == Texts
    <3>1. words \in Seq(T)
      BY <2>1
    <3> HIDE DEF T
    <3>2. t \in T
      BY <2>2, <3>1
    <3> QED BY <3>2 DEF T
  <2> QED BY <2>1, <2>2, <2>3
<1>3. u \in Untagged(argtable)
  BY <1>1, <1>2 DEF Untagged
<1>4. ScansTo(e, args[u], t, r)
  <2>1. t \in Texts \cup {NoText}
    BY <1>2
  <2> HIDE DEF t
  <2> QED BY <1>1, <1>2, <2>1, ScanMeans
<1>5. StateOf(e, args[u]) /\ e.max \in Nat
  BY <1>2, EntriesAre DEF Sized
<1>6. StateOf(e, r.s)
  <2> HIDE DEF r
  <2> QED BY <1>4, <1>5 DEF ScansTo
<1>7. StateMoved(argtable, args, u, r.s, args')
  <2> HIDE DEF r
  <2>1. StateMoved(argtable, args, u, r.s, [args EXCEPT ![u] = r.s])
    BY <1>2, <1>6, ArgsMoved
  <2> QED BY <1>1, <2>1
<1>8. CASE r.code = "ok"
  <2>1. optind' = optind + 1 /\ tabindex' = tabindex
    BY <1>1, <1>8
  <2> HIDE DEF r
  <2> QED BY <1>1, <1>3, <1>4, <1>7, <1>8, <2>1, EntryTakes
<1>9. CASE r.code # "ok"
  <2>1. tabindex' = u + 1 /\ optind' = optind
    BY <1>1, <1>9
  <2>2. Sized(argtable, args') /\ \A i \in 1 .. Len(argtable) : Alike(args, args', i)
    <3>1. r.s = args[u]
      BY <1>4, <1>9 DEF ScansTo
    <3> HIDE DEF r
    <3> QED BY <1>7, <3>1 DEF StateMoved, Alike
  <2>3. ~Plainly(argtable, argv)
    <3> SUFFICES ASSUME Plainly(argtable, argv) PROVE FALSE
      OBVIOUS
    <3>1. found = <<>>
      BY <1>1, <1>2 DEF PlainInv
    <3>2. /\ Len(words) <= e.max
          /\ \A k \in 1 .. Len(words) : words[k] = NoText \/ Meaning(e, words[k]) # {}
          /\ \A i \in Untagged(argtable) : i = u
      BY <1>2, <1>3, PlainTold
    <3> DEFINE s == Counts(argtable, args)
    <3>3. TakenTo(argtable, s)[u] = args[u].count
      <4>1. s \in [Untagged(argtable) -> Nat] /\ s[u] = args[u].count /\ Len(argtable) \in Nat
        BY <1>2, <1>3, CountsAre
      <4>2. u \in u .. Len(argtable)
        BY <1>2
      <4> HIDE DEF s
      <4>3. TakenTo(argtable, s)[u] = s[u]
        BY <1>3, <3>2, <4>1, <4>2, TakenByOne
      <4> QED BY <4>1, <4>3
    <3>4. TakenTo(argtable, s)[u] = optind - 1
      BY <1>1, <1>2, <3>1 DEF WordInv, Unfailed
    <3>5. args[u].count < e.max
      <4> DEFINE n == args[u].count  m == e.max
      <4>1. n = optind - 1 /\ Len(words) <= m /\ m \in Nat
        BY <1>5, <3>2, <3>3, <3>4
      <4> HIDE DEF n, m
      <4>2. n < m
        BY <1>2, <4>1
      <4> QED BY <4>2 DEF n, m
    <3>6. t = NoText \/ Meaning(e, t) # {}
      BY <1>2, <3>2
    <3> HIDE DEF r, t, e
    <3> QED BY <1>4, <1>9, <3>5, <3>6 DEF ScansTo
  <2> QED BY <1>1, <2>1, <2>2, <2>3, NextEntry
<1> QED BY <1>8, <1>9

(* A word no entry took is none of a line that says plainly what it wants. *)
LEMMA LeftOverStep == ParseInv /\ LeftOver => StepInv'
<1> SUFFICES ASSUME ParseInv, LeftOver PROVE StepInv'
  OBVIOUS
<1> DEFINE error == IF tentative = NoError THEN Error(EndIndex, "ENOMATCH") ELSE tentative
<1>1. /\ stage = "untagged" /\ tabindex = EndIndex /\ optind <= Len(words)
      /\ Registers(<<error>>) /\ optind' = optind + 1
      /\ UNCHANGED <<argtable, argv, stage, words, tabindex, args, parses>>
  BY DEF LeftOver
<1>2. found' # <<>>
  <2> DEFINE news == <<error>>
  <2>1. KeptOf(argtable, errors, found)
    BY DEF ParseInv, OptInv
  <2>2. news \in Seq({error}) /\ news # <<>>
    OBVIOUS
  <2>3. Registers(news)
    BY <1>1
  <2> HIDE DEF news, error
  <2> QED BY <2>1, <2>2, <2>3, NoneRegistered
<1>3. /\ argtable \in ArgTables /\ Sized(argtable, args) /\ parses \in Nat
      /\ LineInv /\ WordInv /\ PlainInv /\ Len(argtable) \in Nat \ {0}
      /\ optind \in 1 .. Len(words) + 1 /\ Len(words) \in Nat
      /\ argv \in Seq(ArgToken) /\ words = Operands(argtable, argv)
      /\ Untagged(argtable) \subseteq 1 .. Len(argtable) - 1
  BY <1>1, AtWords
<1>4. ~Unfailed'
  BY <1>1, <1>2 DEF Unfailed
<1>5. LineInv'
  <2>1. \A i \in 1 .. Len(argtable) : Tagged(argtable[i]) => Alike(args, args', i)
    BY <1>1 DEF Alike
  <2> QED BY <1>1, <1>3, <1>4, <2>1, LineStays
<1>6. WordInv'
  <2>1. optind + 1 \in 1 .. Len(words) + 1
    BY <1>1, <1>3
  <2> HIDE DEF Unfailed
  <2> QED BY <1>1, <1>4, <2>1 DEF WordInv
<1>7. ~Plainly(argtable, argv)
  <2> SUFFICES ASSUME Plainly(argtable, argv) PROVE FALSE
    OBVIOUS
  <2>1. \A i \in Untagged(argtable) : EndIndex <= i
    BY <1>1, <1>3 DEF PlainInv
  <2>2. Untagged(argtable) = {}
    BY <1>3, <2>1 DEF EndIndex
  <2>3. Len(words) = 0
    BY <1>3, <2>2, PlainTold
  <2> QED BY <1>1, <1>3, <2>3
<1>8. PlainInv'
  BY <1>1, <1>7 DEF PlainInv
<1>9. Sized(argtable', args') /\ parses' \in Nat
  BY <1>1, <1>3
<1> QED BY <1>5, <1>6, <1>8, <1>9 DEF StepInv

LEMMA UntaggedEndStep == ParseInv /\ UntaggedEnd => StepInv'
<1> SUFFICES ASSUME ParseInv, UntaggedEnd PROVE StepInv'
  OBVIOUS
<1>1. /\ stage = "untagged" /\ optind > Len(words) /\ tabindex' = 1
      /\ stage' = IF errors = <<>> THEN "check" ELSE "parsed"
      /\ UNCHANGED <<argtable, argv, optind, words, args, errors, found, parses>>
  BY DEF UntaggedEnd
<1>2. /\ argtable \in ArgTables /\ Sized(argtable, args) /\ parses \in Nat
      /\ LineInv /\ WordInv /\ PlainInv /\ tabindex \in 1 .. Len(argtable)
      /\ Len(argtable) \in Nat \ {0} /\ optind \in 1 .. Len(words) + 1 /\ Len(words) \in Nat
      /\ Counts(argtable, args) \in [Untagged(argtable) -> Nat]
      /\ \A i \in Untagged(argtable) : Counts(argtable, args)[i] = args[i].count
  BY <1>1, AtWords
<1>3. errors = <<>> <=> found = <<>>
  <2> DEFINE E == ErrorsOf(argtable)  max == argtable[Len(argtable)].max
  <2>1. errors \in Seq(E) /\ found \in Seq(E)
        /\ Len(errors) = IF Len(found) < max THEN Len(found) ELSE max
    BY DEF ParseInv, OptInv, KeptOf
  <2>2. max \in Nat \ {0}
    BY <1>2, TableIs
  <2> HIDE DEF E, max
  <2>3. /\ Len(errors) \in Nat /\ (errors = <<>> <=> Len(errors) = 0)
        /\ Len(found) \in Nat /\ (found = <<>> <=> Len(found) = 0)
    BY <2>1
  <2> QED BY <2>1, <2>2, <2>3
<1>4. (Unfailed' => Unfailed) /\ (Unfailed' => found = <<>>)
  BY <1>1, <1>3 DEF Unfailed
<1>5. LineInv'
  <2>1. \A i \in 1 .. Len(argtable) : Tagged(argtable[i]) => Alike(args, args', i)
    BY <1>1 DEF Alike
  <2>2. stage' \notin {"idle", "tagged"}
    BY <1>1
  <2> HIDE DEF Unfailed
  <2> QED BY <1>1, <1>2, <1>4, <2>1, <2>2, LineStays
<1> DEFINE s == Counts(argtable, args)
<1>6. ASSUME Unfailed'
      PROVE  WordsTaken(argtable, args, words) /\ TakenTo(argtable, s)[EndIndex] = Len(words)
  <2>1. /\ WordsTaken(argtable, args, words) /\ TakenTo(argtable, s)[tabindex] = optind - 1
        /\ \A i \in Untagged(argtable) : i > tabindex => args[i].count = 0
    BY <1>1, <1>2, <1>4, <1>6 DEF WordInv
  <2>2. TakenTo(argtable, s)[EndIndex] = TakenTo(argtable, s)[tabindex]
    <3> DEFINE n == Len(argtable)
    <3>1. n \in Nat /\ tabindex \in 0 .. n /\ n \in tabindex .. n /\ tabindex \in Nat
      BY <1>2
    <3>2. \A i \in Untagged(argtable) : i \in tabindex + 1 .. n => i > tabindex
      BY <3>1
    <3>3. \A i \in Untagged(argtable) : i \in tabindex + 1 .. n => s[i] = 0
      BY <1>2, <2>1, <3>2
    <3>4. s \in [Untagged(argtable) -> Nat]
      BY <1>2
    <3>5. Len(argtable) \in Nat /\ tabindex \in 0 .. Len(argtable)
          /\ n \in tabindex .. Len(argtable)
      BY <3>1
    <3> HIDE DEF s, n
    <3>6. TakenTo(argtable, s)[n] = TakenTo(argtable, s)[tabindex]
      BY <3>3, <3>4, <3>5, TakenFlat
    <3> QED BY <3>6 DEF n, EndIndex
  <2>3. optind - 1 = Len(words)
    BY <1>1, <1>2
  <2> QED BY <2>1, <2>2, <2>3
<1>7. WordInv'
  <2>1. stage' \in {"check", "parsed"} /\ EndIndex' = EndIndex
    BY <1>1 DEF EndIndex
  <2>2. found' = <<>> => stage' = "check"
    BY <1>1, <1>3
  <2>3. \A i \in 1 .. EndIndex : ~(i < 1)
    BY <1>2 DEF EndIndex
  <2> HIDE DEF Unfailed, EndIndex
  <2> QED BY <1>1, <1>6, <2>1, <2>2, <2>3 DEF WordInv
<1>8. PlainInv'
  BY <1>1, <1>2 DEF PlainInv
<1>9. Sized(argtable', args') /\ parses' \in Nat
  BY <1>1, <1>2
<1> QED BY <1>5, <1>7, <1>8, <1>9 DEF StepInv

(* No entry of a line that says plainly what it wants has too few values.  *)
LEMMA PlainEnough ==
  ASSUME ParseInv, stage = "check", Plainly(argtable, argv), NEW i \in 1 .. Len(argtable)
  PROVE  ~checkfn(argtable[i], args[i])
<1> SUFFICES ASSUME checkfn(argtable[i], args[i]) PROVE FALSE
  OBVIOUS
<1> DEFINE n == args[i].count
<1>1. /\ argtable \in ArgTables /\ Sized(argtable, args) /\ LineInv /\ WordInv
      /\ Scans(argtable[i]) /\ n < argtable[i].min
  BY DEF ParseInv, OptInv, StepInv, checkfn
<1>2. argv \in Seq(ArgToken) /\ words = Operands(argtable, argv) /\ Len(words) \in Nat
  BY <1>1, WordsAre
<1>3. argtable[i].min \in Nat /\ n \in Nat
  BY <1>1, EntriesAre DEF Sized, StateOf
<1>4. CASE i \in Untagged(argtable)
  <2> DEFINE s == Counts(argtable, args)
  <2>1. TakenTo(argtable, s)[EndIndex] = Len(words)
    BY <1>1 DEF WordInv, Unfailed
  <2>2. argtable[i].min <= Len(words) /\ \A j \in Untagged(argtable) : j = i
    BY <1>1, <1>2, <1>4, PlainTold
  <2>3. s \in [Untagged(argtable) -> Nat] /\ s[i] = n /\ Len(argtable) \in Nat
    BY <1>1, <1>4, CountsAre
  <2>4. Len(argtable) \in i .. Len(argtable)
    BY <2>3
  <2> HIDE DEF s
  <2>5. TakenTo(argtable, s)[Len(argtable)] = s[i]
    BY <1>4, <2>2, <2>3, <2>4, TakenByOne
  <2>6. Len(words) = n
    BY <2>1, <2>3, <2>5 DEF EndIndex
  <2> HIDE DEF n
  <2> QED BY <1>1, <1>2, <1>3, <2>2, <2>6
<1>5. CASE i \notin Untagged(argtable)
  <2>1. Tagged(argtable[i])
    BY <1>1, <1>5 DEF Untagged
  <2>2. OptionsRead(argtable, argv, args, Len(argv))
    BY <1>1 DEF LineInv, Unfailed, Position
  <2>3. n = Len(Uses(argtable, argv, i))
    BY <2>1, <2>2 DEF OptionsRead, ReadOff, Uses
  <2>4. argtable[i].min <= Len(Uses(argtable, argv, i))
    BY <1>1, <1>2, <1>5, PlainTold
  <2> HIDE DEF n
  <2> QED BY <1>1, <1>3, <2>3, <2>4
<1> QED BY <1>4, <1>5

LEMMA CheckEntryStep == ParseInv /\ CheckEntry => StepInv'
<1> SUFFICES ASSUME ParseInv, CheckEntry PROVE StepInv'
  OBVIOUS
<1> DEFINE u == tabindex  r == [args[u] EXCEPT !.compiled = 0]
           news == IF checkfn(argtable[u], args[u]) THEN <<Error(u, "EMINCOUNT")>> ELSE <<>>
<1>1. /\ stage = "check" /\ Registers(news) /\ args' = [args EXCEPT ![u].compiled = 0]
      /\ stage' = IF u = EndIndex THEN "parsed" ELSE "check"
      /\ tabindex' = u + 1
      /\ UNCHANGED <<argtable, argv, optind, words, parses>>
  BY DEF CheckEntry
<1>2. /\ argtable \in ArgTables /\ Sized(argtable, args) /\ parses \in Nat
      /\ LineInv /\ WordInv /\ PlainInv /\ u \in 1 .. Len(argtable)
      /\ Len(argtable) \in Nat \ {0}
  <2>1. /\ argtable \in ArgTables /\ Sized(argtable, args) /\ parses \in Nat
        /\ LineInv /\ WordInv /\ PlainInv /\ u \in 1 .. Len(argtable)
    BY <1>1 DEF ParseInv, StepInv, OptInv
  <2> QED BY <2>1, EntriesAre
<1>3. StateOf(argtable[u], args[u])
  BY <1>2 DEF Sized
<1>4. StateOf(argtable[u], r) /\ r.count = args[u].count /\ r.vals = args[u].vals
  BY <1>3 DEF StateOf
<1>5. StateMoved(argtable, args, u, r, args')
  <2>1. args' = [args EXCEPT ![u] = r]
    BY <1>1
  <2> HIDE DEF r
  <2>2. StateMoved(argtable, args, u, r, [args EXCEPT ![u] = r])
    BY <1>2, <1>4, ArgsMoved
  <2> QED BY <2>1, <2>2
<1>6. Sized(argtable, args') /\ \A i \in 1 .. Len(argtable) : Alike(args, args', i)
  <2> HIDE DEF r
  <2> QED BY <1>4, <1>5 DEF StateMoved, Alike
<1>7. found' = <<>> <=> found = <<>> /\ ~checkfn(argtable[u], args[u])
  <2> DEFINE error == Error(u, "EMINCOUNT")
  <2>1. KeptOf(argtable, errors, found)
    BY DEF ParseInv, OptInv
  <2>2. news \in Seq({error}) /\ (news = <<>> <=> ~checkfn(argtable[u], args[u]))
    <3> HIDE DEF error
    <3>1. news = IF checkfn(argtable[u], args[u]) THEN <<error>> ELSE <<>>
      BY DEF error
    <3>2. <<error>> # <<>> /\ <<error>> \in Seq({error}) /\ <<>> \in Seq({error})
      OBVIOUS
    <3> HIDE DEF news
    <3> QED BY <3>1, <3>2
  <2>3. Registers(news)
    BY <1>1
  <2> HIDE DEF news, error
  <2>4. found' = <<>> <=> found = <<>> /\ news = <<>>
    BY <2>1, <2>2, <2>3, NoneRegistered
  <2> QED BY <2>2, <2>4
<1>8. Unfailed
  BY <1>1 DEF Unfailed
<1>9. stage' \in {"check", "parsed"}
  BY <1>1
<1>10. LineInv'
  <2>1. stage' \notin {"idle", "tagged"} /\ stage \notin {"idle", "tagged"}
    BY <1>1, <1>9
  <2> HIDE DEF Unfailed
  <2> QED BY <1>1, <1>2, <1>6, <1>8, <2>1, LineStays
<1>11. WordsTaken(argtable, args', words)
       /\ TakenTo(argtable, Counts(argtable, args'))[EndIndex] = Len(words)
  <2>1. \A i \in Untagged(argtable) : Alike(args, args', i)
    BY <1>6 DEF Untagged
  <2>2. /\ Counts(argtable, args') = Counts(argtable, args)
        /\ WordsTaken(argtable, args, words) => WordsTaken(argtable, args', words)
    BY <2>1, TakenAlike
  <2>3. WordsTaken(argtable, args, words)
        /\ TakenTo(argtable, Counts(argtable, args))[EndIndex] = Len(words)
    BY <1>1, <1>2, <1>8 DEF WordInv
  <2> QED BY <2>2, <2>3
<1>12. ASSUME found' = <<>>, NEW i \in 1 .. EndIndex, stage' = "parsed" \/ i < u + 1
       PROVE  ~checkfn(argtable[i], args'[i])
  <2>1. i \in 1 .. Len(argtable) /\ i <= u
    <3>1. i \in Nat /\ u \in Nat /\ i <= EndIndex
      BY <1>2 DEF EndIndex
    <3>2. stage' = "parsed" => u = EndIndex
      BY <1>1
    <3> QED BY <1>12, <3>1, <3>2 DEF EndIndex
  <2>2. args'[i].count = args[i].count
    BY <1>6, <2>1 DEF Alike
  <2>3. ~checkfn(argtable[i], args[i])
    <3>1. CASE i = u
      BY <1>7, <1>12, <3>1
    <3>2. CASE i < u
      BY <1>1, <1>2, <1>7, <1>12, <3>2 DEF WordInv
    <3>3. i \in Nat /\ u \in Nat
      BY <1>2, <2>1
    <3> QED BY <2>1, <3>1, <3>2, <3>3
  <2> QED BY <2>2, <2>3 DEF checkfn
<1>13. WordInv'
  <2>1. EndIndex' = EndIndex
    BY <1>1 DEF EndIndex
  <2> HIDE DEF Unfailed, EndIndex
  <2> QED BY <1>1, <1>9, <1>11, <1>12, <2>1 DEF WordInv
<1>14. PlainInv'
  <2> SUFFICES ASSUME Plainly(argtable, argv) PROVE found' = <<>>
    BY <1>1, <1>9 DEF PlainInv
  <2>1. found = <<>>
    BY <1>1, <1>2 DEF PlainInv
  <2>2. ~checkfn(argtable[u], args[u])
    BY <1>1, <1>2, PlainEnough
  <2> QED BY <1>7, <2>1, <2>2
<1>15. Sized(argtable', args') /\ parses' \in Nat
  BY <1>1, <1>2, <1>6
<1> QED BY <1>10, <1>13, <1>14, <1>15 DEF StepInv

-----------------------------------------------------------------------------
LEMMA ParseInit == OptInit => ParseInv
<1> SUFFICES ASSUME OptInit PROVE ParseInv
  OBVIOUS
<1>1. OptInv
  BY OptInitInv
<1>2. /\ argtable \in ArgTables /\ stage = "idle" /\ parses = 0
      /\ args = [i \in 1 .. Len(argtable) |->
                   [count |-> 0, compiled |-> 0, vals |-> [j \in 1 .. argtable[i].max |-> NoText]]]
  BY DEF OptInit, EndIndex
<1>3. Sized(argtable, args)
  <2>1. ASSUME NEW i \in 1 .. Len(argtable) PROVE StateOf(argtable[i], args[i])
    <3> DEFINE m == argtable[i].max
    <3>1. m \in Nat
      BY <1>2, EntriesAre
    <3>2. args[i] = [count |-> 0, compiled |-> 0, vals |-> [j \in 1 .. m |-> NoText]]
      BY <1>2
    <3> HIDE DEF m
    <3>3. /\ DOMAIN args[i] = {"count", "compiled", "vals"}
          /\ args[i].count = 0 /\ DOMAIN args[i].vals = 1 .. m
      BY <3>2
    <3>4. args[i].count \in 0 .. m
      BY <3>1, <3>3
    <3> QED BY <3>3, <3>4 DEF StateOf, m
  <2> QED BY <1>2, <2>1 DEF Sized
<1>4. LineInv /\ WordInv /\ PlainInv
  BY <1>2 DEF LineInv, WordInv, PlainInv
<1> QED BY <1>1, <1>2, <1>3, <1>4 DEF ParseInv, StepInv

LEMMA ParseInvKept == ParseInv /\ [OptNext]_optVars => ParseInv'
<1> SUFFICES ASSUME ParseInv, [OptNext]_optVars PROVE StepInv'
  BY OptInvKept DEF ParseInv
<1>1. ASSUME NEW line \in Lines, ParseCall(line) PROVE StepInv'
  BY <1>1, ParseCallStep
<1>2. CASE LongOption
  BY <1>2, LongOptionStep
<1>3. CASE ShortOption
  BY <1>3, ShortOptionStep
<1>4. CASE UnknownOption
  BY <1>4, UnknownOptionStep
<1>5. CASE MissingValue
  BY <1>5, MissingValueStep
<1>6. CASE Permute
  BY <1>6, PermuteStep
<1>7. CASE TaggedEnd
  BY <1>7, TaggedEndStep
<1>8. CASE SkipEntry
  BY <1>8, SkipEntryStep
<1>9. CASE TryEntry
  BY <1>9, TryEntryStep
<1>10. CASE LeftOver
  BY <1>10, LeftOverStep
<1>11. CASE UntaggedEnd
  BY <1>11, UntaggedEndStep
<1>12. CASE CheckEntry
  BY <1>12, CheckEntryStep
<1>13. CASE UNCHANGED optVars
  <2>1. StepInv
    BY DEF ParseInv
  <2> QED BY <1>13, <2>1 DEF optVars, StepInv, LineInv, WordInv, PlainInv, Position, Unfailed,
                            EndIndex
<1> QED BY <1>1, <1>2, <1>3, <1>4, <1>5, <1>6, <1>7, <1>8, <1>9, <1>10, <1>11, <1>12, <1>13
        DEF OptNext

(* No errors are kept when none were met.                                  *)
LEMMA NoneKept ==
  ASSUME OptInv
  PROVE  errors = <<>> <=> found = <<>>
<1> DEFINE E == ErrorsOf(argtable)  max == argtable[Len(argtable)].max
<1>1. errors \in Seq(E) /\ found \in Seq(E)
      /\ Len(errors) = IF Len(found) < max THEN Len(found) ELSE max
  BY DEF OptInv, KeptOf
<1>2. max \in Nat \ {0}
  BY TableIs DEF OptInv
<1> HIDE DEF E, max
<1>3. /\ Len(errors) \in Nat /\ (errors = <<>> <=> Len(errors) = 0)
      /\ Len(found) \in Nat /\ (found = <<>> <=> Len(found) = 0)
  BY <1>1
<1> QED BY <1>1, <1>2, <1>3

(* What an entry is asked to take, its state s says it took.               *)
Granted(e, s, asked) ==
  /\ s.count = Len(asked) /\ Len(asked) \in e.min .. e.max
  /\ \A k \in 1 .. Len(asked) : asked[k] = NoText \/ Meaning(e, asked[k]) # {}
  /\ e.kind # "lit" => \A k \in 1 .. s.count :
       asked[k] # NoText => Meaning(e, asked[k]) = {s.vals[k]}

LEMMA GrantedIs ==
  ASSUME NEW e, e.min \in Nat, e.max \in Nat, NEW s, StateOf(e, s), Scans(e), ~checkfn(e, s),
         NEW q, ReadOff(e, s, q)
  PROVE  Granted(e, s, q)
<1>1. s.count = Len(q) /\ \A k \in 1 .. Len(q) : Fits(e, q[k], s.vals[k])
  BY DEF ReadOff
<1>2. Len(q) \in e.min .. e.max
  BY <1>1 DEF StateOf, checkfn
<1>3. \A k \in 1 .. Len(q) : e.kind = "lit" => Meaning(e, q[k]) = {q[k]}
  BY DEF Meaning
<1>4. \A k \in 1 .. Len(q) : q[k] = NoText \/ Meaning(e, q[k]) # {}
  BY <1>1, <1>3 DEF Fits
<1>5. e.kind # "lit" => \A k \in 1 .. s.count : q[k] # NoText => Meaning(e, q[k]) = {s.vals[k]}
  BY <1>1 DEF Fits
<1> QED BY <1>1, <1>2, <1>4, <1>5 DEF Granted

LEMMA AskedGranted ==
  ASSUME ParseInv, stage = "parsed", found = <<>>, NEW i \in 1 .. Len(argtable),
         Scans(argtable[i])
  PROVE  Granted(argtable[i], args[i], Asked(argtable, argv, Counts(argtable, args), i))
<1> DEFINE e == argtable[i]  s == args[i]  split == Counts(argtable, args)
           T == TakenTo(argtable, split)
<1>1. argtable \in ArgTables /\ Sized(argtable, args) /\ LineInv /\ WordInv
  BY DEF ParseInv, OptInv, StepInv
<1>2. /\ argv \in Seq(ArgToken) /\ Len(argv) \in Nat
      /\ words = Operands(argtable, argv) /\ words \in Seq(Texts) /\ Len(words) \in Nat
  BY <1>1, WordsAre
<1>3. e.min \in Nat /\ e.max \in Nat /\ StateOf(e, s) /\ ~checkfn(e, s)
  <2>1. e.min \in Nat /\ e.max \in Nat /\ StateOf(e, s)
    BY <1>1, EntriesAre DEF Sized
  <2>2. ~checkfn(e, s)
    BY <1>1 DEF WordInv, EndIndex
  <2> QED BY <2>1, <2>2
<1>4. CASE i \notin Untagged(argtable)
  <2>1. Tagged(e)
    BY <1>4 DEF Untagged
  <2>2. OptionsRead(argtable, argv, args, Len(argv))
    BY <1>1 DEF LineInv, Unfailed, Position
  <2>3. ReadOff(e, s, Uses(argtable, argv, i))
    BY <2>1, <2>2 DEF OptionsRead, Uses
  <2>4. Asked(argtable, argv, split, i) = Uses(argtable, argv, i)
    BY <1>4 DEF Asked
  <2> HIDE DEF e, s, split
  <2>5. Granted(e, s, Uses(argtable, argv, i))
    BY <1>3, <2>3, GrantedIs DEF e
  <2> QED BY <2>4, <2>5 DEF e, s, split
<1>5. CASE i \in Untagged(argtable)
  <2> DEFINE m == T[i - 1]  n == T[i]  part == PartOf(words, m, n)
  <2>1. WordsTaken(argtable, args, words) /\ T[Len(argtable)] = Len(words)
    BY <1>1 DEF WordInv, Unfailed, EndIndex
  <2>2. m \in Nat /\ n \in Nat /\ n = m + s.count /\ n <= Len(words) /\ s.count \in Nat
    <3>1. split \in [Untagged(argtable) -> Nat] /\ split[i] = s.count
          /\ Len(argtable) \in Nat \ {0}
      BY <1>1, <1>5, CountsAre
    <3>2. i \in 0 .. Len(argtable) /\ i - 1 \in 0 .. Len(argtable) /\ Len(argtable) \in Nat
      BY <3>1
    <3> HIDE DEF split
    <3>3. TakenTo(argtable, split)[i] \in Nat /\ TakenTo(argtable, split)[i - 1] \in Nat
          /\ TakenTo(argtable, split)[i] =
               TakenTo(argtable, split)[i - 1] + IF i \in Untagged(argtable) THEN split[i] ELSE 0
      BY <3>1, <3>2, TakenIs
    <3>4. TakenTo(argtable, split)[i] <= TakenTo(argtable, split)[Len(argtable)]
      BY <3>1, <3>2, TakenGrows
    <3>5. s.count \in Nat
      BY <1>5, <3>1
    <3> HIDE DEF s
    <3> QED BY <1>5, <2>1, <3>1, <3>3, <3>4, <3>5
  <2>3. Len(part) = n - m /\ \A k \in 1 .. n - m : part[k] = words[m + k]
    <3> DEFINE V == Texts
    <3>1. words \in Seq(V)
      BY <1>2
    <3> HIDE DEF V, T, m, n
    <3>2. m \in Nat /\ n \in Nat /\ m <= n /\ n <= Len(words)
      <4> HIDE DEF s
      <4> QED BY <2>2
    <3> QED BY <3>1, <3>2, PartIs
  <2>4. \A k \in 1 .. s.count : Fits(e, words[m + k], s.vals[k])
    BY <1>5, <2>1 DEF WordsTaken
  <2>5. ReadOff(e, s, part)
    <3> HIDE DEF e, s, part, m, n
    <3>1. n - m = s.count
      BY <2>2
    <3> QED BY <2>3, <2>4, <3>1 DEF ReadOff
  <2>6. Asked(argtable, argv, split, i) = part
    BY <1>2, <1>5 DEF Asked, PartOf
  <2> HIDE DEF e, s, split, part
  <2>7. Granted(e, s, part)
    BY <1>3, <2>5, GrantedIs DEF e
  <2> QED BY <2>6, <2>7 DEF e, s, split
<1> QED BY <1>4, <1>5

LEMMA ParseInvHolds == ParseInv => OptionsUnderstood
<1> SUFFICES ASSUME ParseInv, stage = "parsed" PROVE OptionsUnderstood
  BY DEF OptionsUnderstood
<1>1. /\ argtable \in ArgTables /\ LineInv /\ WordInv /\ PlainInv
      /\ (errors = <<>> <=> found = <<>>) /\ Len(argtable) \in Nat
  BY NoneKept, EntriesAre DEF ParseInv, OptInv, StepInv
<1> DEFINE split == [i \in Untagged(argtable) |-> args[i].count]
<1>2. ASSUME errors = <<>>
      PROVE  /\ Described(argtable, argv, split)
             /\ \A i \in 1 .. EndIndex : Scans(argtable[i]) =>
                  Granted(argtable[i], args[i], Asked(argtable, argv, split, i))
  <2>1. split = Counts(argtable, args)
    BY DEF Counts
  <2>2. TakenTo(argtable, split)[Len(argtable)] = Len(Operands(argtable, argv))
    <3>1. words = Operands(argtable, argv)
      BY <1>1, WordsAre
    <3> HIDE DEF split
    <3> QED BY <1>1, <1>2, <2>1, <3>1 DEF WordInv, Unfailed, EndIndex
  <2>3. \A p \in 1 .. Len(argv) : OptionAt(argtable, argv, p) => OptionFine(argtable, argv, p)
    BY <1>1, <1>2 DEF LineInv, Unfailed, Position, OptionsRead
  <2>4. \A i \in 1 .. Len(argtable) : Scans(argtable[i]) =>
          Granted(argtable[i], args[i], Asked(argtable, argv, split, i))
    BY <1>1, <1>2, <2>1, AskedGranted
  <2> HIDE DEF split
  <2> QED BY <2>2, <2>3, <2>4 DEF Described, Granted, EndIndex
<1>3. ASSUME argtable = MainTable(argtable[EndIndex].max)
      PROVE  Outcome = "usage" <=> \E k \in 1 .. Len(Uses(argtable, argv, 1)) :
                                     Uses(argtable, argv, 1)[k] = NoText
  <2>1. argtable[1] = arg_lit0({"h"}, {"help"}) /\ Len(argtable) = 3
    BY <1>3 DEF MainTable
  <2>2. Tagged(argtable[1]) /\ argtable[1].kind = "lit" /\ argtable[1].max # 0
    BY <2>1 DEF arg_lit0, arg_litn, ArgHdr, Tagged
  <2>3. LitTold(argtable[1], args[1], Uses(argtable, argv, 1))
    BY <1>1, <2>1, <2>2 DEF LineInv, Position, LitsTold, Uses
  <2>4. Outcome = "usage" <=> args[1].count > 0
    BY DEF Outcome
  <2> QED BY <2>2, <2>3, <2>4 DEF LitTold
<1>4. Plainly(argtable, argv) => errors = <<>>
  BY <1>1 DEF PlainInv
<1> HIDE DEF split
<1>5. OptionsUnderstood <=>
        /\ errors = <<>> =>
             /\ Described(argtable, argv, split)
             /\ \A i \in 1 .. EndIndex : Scans(argtable[i]) =>
                  LET asked == Asked(argtable, argv, split, i) IN
                  /\ args[i].count = Len(asked)
                  /\ argtable[i].kind # "lit" => \A k \in 1 .. args[i].count :
                       asked[k] # NoText => Meaning(argtable[i], asked[k]) = {args[i].vals[k]}
        /\ argtable = MainTable(argtable[EndIndex].max) =>
             LET uses == Uses(argtable, argv, 1) IN
             Outcome = "usage" <=> \E k \in 1 .. Len(uses) : uses[k] = NoText
        /\ Plainly(argtable, argv) => errors = <<>>
  BY Zenon DEF OptionsUnderstood, split
<1>6. errors = <<>> => \A i \in 1 .. EndIndex : Scans(argtable[i]) =>
        LET asked == Asked(argtable, argv, split, i) IN
        /\ args[i].count = Len(asked)
        /\ argtable[i].kind # "lit" => \A k \in 1 .. args[i].count :
             asked[k] # NoText => Meaning(argtable[i], asked[k]) = {args[i].vals[k]}
  BY <1>2 DEF Granted
<1> QED BY <1>2, <1>3, <1>4, <1>5, <1>6

(* arg_parse returns 0 only for a line the table describes, with every     *)
(* option and operand of it counted by the entry it is for, in order, and  *)
(* with the value its text means; with one untagged entry at most, it      *)
(* returns 0 for each such line; and --help takes precedence over every    *)
(* error: for any tables, any command lines, and any number of calls of    *)
(* arg_parse (etc_argtable2.c:492-556, main.c:63-81).                      *)
THEOREM OptionsUnderstoodHolds == OptSpec => []OptionsUnderstood
<1>1. OptInit => ParseInv
  BY ParseInit
<1>2. ParseInv /\ [OptNext]_optVars => ParseInv'
  BY ParseInvKept
<1>3. ParseInv => OptionsUnderstood
  BY ParseInvHolds
<1> QED BY <1>1, <1>2, <1>3, PTL DEF OptSpec
=============================================================================
