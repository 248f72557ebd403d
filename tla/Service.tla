------------------------------ MODULE Service ------------------------------
(***************************************************************************)
(* A service built on the skeleton: program() of src/main.c fires events   *)
(* at the state machine of src/fsm, whose hooks _sys_start and _sys_stop   *)
(* call the START and STOP of the application's components one after the   *)
(* other (fsm_halt.c:66 shows how).  The components are of CMP_THREAD:     *)
(* START constructs the component, makes a thread, which make_thread puts  *)
(* into the table of threads, and starts it; STOP stops the thread and     *)
(* destructs the component, and leaves the thread_t in the table.          *)
(* SHUTDOWN walks the table with dmap_rem_thr.  Other threads of the       *)
(* application may fire events as well: the machine has no lock (fsm_ctor  *)
(* makes a signal that nothing uses), and two transitions may overlap.     *)
(* Time is not modelled: a sleep ends when it ends, a thread that was      *)
(* started runs when it runs.                                              *)
(*                                                                         *)
(* The model goes no further than a read of a freed row, thread_t or fsm.  *)
(***************************************************************************)
EXTENDS MapTable, FiniteSets

CONSTANTS
  CmpNum,      (* a bound on the components the application has            *)
  Main,        (* the main thread                                          *)
  Firers,      (* the other threads that fire events                       *)
  MaxThreads   (* a bound on the threads made: Firers fire no START beyond *)

ASSUME ServiceAssumption ==
  /\ CmpNum \in Nat \ {0} /\ MaxThreads \in Nat /\ MaxThreads >= CmpNum
  /\ Main \notin Firers
  /\ IsFiniteSet(Firers)
  /\ NoItem = 0

STATE_HALT == "STATE_HALT"
STATE_RUN  == "STATE_RUN"
Events == {"EVENT_SETUP", "EVENT_START", "EVENT_STOP", "EVENT_SHUTDOWN"}

Cmps    == 1 .. CmpNum
Threads == 1 .. MaxThreads     (* the n-th thread_t made; 0 is NULL        *)
Actors  == {Main} \cup Firers

VARIABLES
  cmpNum,   (* the components _sys_start starts and _sys_stop stops        *)
  current,  (* this->current of the state machine                          *)
  running,  (* main.c's running: 0 once SIGINT was caught                  *)
  main,     (* where program() is                                          *)
  fpc,      (* fpc[a]: where a is in fsm_fire, "idle" outside of it        *)
  to,       (* to[a]: the state a's transition returns                     *)
  nth,      (* nth[a]: the component, or the index of the table, a is at   *)
  held,     (* held[a]: the thread_t the STOP of a holds, its "thread"     *)
  cmp,      (* cmp[k]: _cmp_, numbered by the thread that was made next    *)
  thr,      (* thr[k]: _thr_                                               *)
  made,     (* the threads made so far                                     *)
  state,    (* state[t]: the state of the n-th thread_t                    *)
  alive,    (* the threads that exist                                      *)
  doomed,   (* the threads pthread_cancel was called for                   *)
  rows,     (* the table of threads                                        *)
  stale,    (* the slots that point to a freed row                         *)
  freed,    (* the thread_t's freed                                        *)
  broken,   (* what was read when it had been freed: "row", "thread",      *)
            (* "fsm", or so far "nothing"                                  *)
  overlapped,  (* auxiliary: 1 once an event was fired within a transition *)
  missed       (* auxiliary: the threads that stop_thread passed over      *)
               (* because they did not run yet                             *)

fsmVars == <<current, fpc, to, nth, held>>
mainVars == <<running, main>>
cmpVars == <<cmpNum, cmp, thr, made>>
thrVars == <<state, alive, doomed>>
mapVars == <<rows, stale, freed>>
auxVars == <<overlapped, missed>>
vars == <<fsmVars, mainVars, cmpVars, thrVars, mapVars, broken, auxVars>>

Init ==
  /\ cmpNum \in Cmps
  /\ current = STATE_HALT
  /\ running = 1 /\ main = "setup"
  /\ fpc = [a \in Actors |-> "idle"]
  /\ to = [a \in Actors |-> STATE_HALT]
  /\ nth = [a \in Actors |-> 0] /\ held = [a \in Actors |-> 0]
  /\ cmp = [k \in Cmps |-> 0] /\ thr = [k \in Cmps |-> 0] /\ made = 0
  /\ state = [t \in Threads |-> "none"]
  /\ alive = {} /\ doomed = {}
  /\ rows = EmptyTable /\ stale = {} /\ freed = {}
  /\ broken = "nothing" /\ overlapped = 0 /\ missed = {}

Quiet == \A a \in Actors : fpc[a] = "idle"

-----------------------------------------------------------------------------
(* fsm_fire: the transition of the state it reads takes place call by call *)
(* ("ctor", "stop", "walk", ...), and its result is written at the end.    *)
Begins(a, where, n, next) ==
  /\ fpc' = [fpc EXCEPT ![a] = where]
  /\ nth' = [nth EXCEPT ![a] = n]
  /\ to' = [to EXCEPT ![a] = next]

(* _fsm_halt_trans.  SETUP, and an event that has no transition, only      *)
(* write the state.                                                        *)
HaltTrans(a, event) ==
  \/ event = "EVENT_START" /\ Begins(a, "ctor", 1, STATE_RUN)
  \/ event = "EVENT_SHUTDOWN" /\ Begins(a, "walk", 0, STATE_HALT)
  \/ event \in {"EVENT_SETUP", "EVENT_STOP"} /\ Begins(a, "set", 0, STATE_HALT)

(* Mutant: RUN has a transition for START as well.                         *)
RunTransStartsTwice(a, event) ==
  \/ event = "EVENT_STOP" /\ Begins(a, "stop", 1, STATE_HALT)
  \/ event = "EVENT_START" /\ Begins(a, "ctor", 1, STATE_RUN)
  \/ event \in {"EVENT_SETUP", "EVENT_SHUTDOWN"} /\ Begins(a, "set", 0, STATE_RUN)

RunTrans(a, event) ==
  \/ event = "EVENT_STOP" /\ Begins(a, "stop", 1, STATE_HALT)
  \/ event # "EVENT_STOP" /\ Begins(a, "set", 0, STATE_RUN)

Fire(a, event) ==
  /\ fpc[a] = "idle"
  /\ \/ current = STATE_HALT /\ HaltTrans(a, event)
     \/ current = STATE_RUN /\ RunTrans(a, event)
  /\ overlapped' = IF Quiet THEN overlapped ELSE 1

Set(a) ==
  /\ fpc[a] = "set" /\ main # "return"
  /\ current' = to[a]
  /\ fpc' = [fpc EXCEPT ![a] = "idle"]
  /\ UNCHANGED <<to, nth, held, mainVars, cmpVars, thrVars, mapVars, broken, auxVars>>

(* fsm_dtor has freed the machine; get_fsm() returns it still.             *)
ReadsFreedFsm(a) ==
  /\ main = "return" /\ fpc[a] \in {"idle", "set"}
  /\ broken' = "fsm"
  /\ UNCHANGED <<fsmVars, mainVars, cmpVars, thrVars, mapVars, auxVars>>

(* On to the same step of the next component, or out of the transition.    *)
NextCmp(a, where) ==
  IF nth[a] < cmpNum
    THEN /\ nth' = [nth EXCEPT ![a] = @ + 1]
         /\ fpc' = [fpc EXCEPT ![a] = where]
    ELSE /\ fpc' = [fpc EXCEPT ![a] = "set"]
         /\ UNCHANGED nth

Moves(a, from, where) == fpc[a] = from /\ fpc' = [fpc EXCEPT ![a] = where]

Reads(t) == broken' = IF t \in freed THEN "thread" ELSE broken

(* START: the ctor, make_thread (the thread is made even if the table has  *)
(* no room for it), start_thread.                                          *)
Ctor(a) ==
  /\ Moves(a, "ctor", "make")
  /\ cmp' = [cmp EXCEPT ![nth[a]] = IF @ = 0 THEN made + 1 ELSE @]
  /\ UNCHANGED <<current, to, nth, held, mainVars, cmpNum, thr, made, thrVars, mapVars,
                 broken, auxVars>>

MakeThread(a) ==
  /\ Moves(a, "make", "start")
  /\ made < MaxThreads
  /\ LET t == made + 1
         i == AddRow(rows)
     IN  /\ made' = t
         /\ thr' = [thr EXCEPT ![nth[a]] = t]
         /\ state' = [state EXCEPT ![t] = "READY"]
         /\ rows' = IF i < MapSize THEN [rows EXCEPT ![i] = t] ELSE rows
  /\ UNCHANGED <<current, to, nth, held, mainVars, cmpNum, cmp, alive, doomed, stale, freed,
                 broken, auxVars>>

StartThread(a) ==
  /\ fpc[a] = "start"
  /\ LET t == thr[nth[a]] IN
       /\ Reads(t)
       /\ IF t # 0 /\ state[t] = "READY"
            THEN /\ state' = [state EXCEPT ![t] = "STARTED"]
                 /\ alive' = alive \cup {t}
            ELSE UNCHANGED <<state, alive>>
  /\ NextCmp(a, "ctor")
  /\ UNCHANGED <<current, to, held, mainVars, cmpVars, doomed, mapVars, auxVars>>

(* Mutant: stop_thread does not wait.                                      *)
StopThreadHurried(a) ==
  /\ Moves(a, "stop", "dtor")
  /\ LET t == thr[nth[a]] IN
       state' = IF t # 0 /\ state[t] = "RUN"
                  THEN [state EXCEPT ![t] = "STOP"] ELSE state
  /\ UNCHANGED <<current, to, nth, held, mainVars, cmpVars, alive, doomed, mapVars, broken,
                 auxVars>>

(* STOP: stop_thread only warns unless the thread is in RUN; else it waits *)
(* for STOPPED, and after ten polls cancels the thread.                    *)
StopThread(a) ==
  /\ fpc[a] = "stop"
  /\ LET t == thr[nth[a]] IN
       /\ Reads(t)
       /\ held' = [held EXCEPT ![a] = t]
       /\ IF t # 0 /\ state[t] = "RUN"
            THEN /\ Moves(a, "stop", "wait")
                 /\ state' = [state EXCEPT ![t] = "STOP"]
                 /\ UNCHANGED missed
            ELSE /\ Moves(a, "stop", "dtor")
                 /\ missed' = IF t # 0 /\ state[t] = "STARTED" THEN missed \cup {t} ELSE missed
                 /\ UNCHANGED state
  /\ UNCHANGED <<current, to, nth, mainVars, cmpVars, alive, doomed, mapVars, overlapped>>

StopEnds(a) ==
  /\ Moves(a, "wait", "dtor")
  /\ Reads(held[a])
  /\ state' = [state EXCEPT ![held[a]] = "READY"]
  /\ \/ state[held[a]] = "STOPPED" /\ UNCHANGED doomed
     \/ doomed' = doomed \cup {held[a]}
  /\ UNCHANGED <<current, to, nth, held, mainVars, cmpVars, alive, mapVars, auxVars>>

(* The dtor and the two pointers set to NULL, as one step.                 *)
Dtor(a) ==
  /\ fpc[a] = "dtor"
  /\ cmp' = [cmp EXCEPT ![nth[a]] = 0]
  /\ thr' = [thr EXCEPT ![nth[a]] = 0]
  /\ NextCmp(a, "stop")
  /\ UNCHANGED <<current, to, held, mainVars, cmpNum, made, thrVars, mapVars, broken, auxVars>>

(* thread_dtor: a thread in RUN is stopped, by itself or by cancellation,  *)
(* before its thread_t is freed.                                           *)
DestroyThread(t) ==
  /\ freed' = freed \cup {t}
  /\ IF state[t] = "RUN"
       THEN /\ state' = [state EXCEPT ![t] = "READY"]
            /\ \/ alive' = alive \ {t} /\ UNCHANGED doomed
               \/ doomed' = doomed \cup {t} /\ UNCHANGED alive
       ELSE UNCHANGED thrVars

(* One turn of dmap_itr_do(dmap_itr_table_thr, dmap_rem_thr): the row the  *)
(* iteration returns is read, then every row up to the one that            *)
(* _dmap_rem_item destroys; the slot of that one keeps its pointer.        *)
Walk(a) ==
  /\ fpc[a] = "walk"
  /\ LET i == ItrTable(rows, nth[a])
         j == IF i < MapSize THEN RemItemIndex(rows, rows[i]) ELSE MapSize
     IN  \/ /\ i = MapSize
            /\ fpc' = [fpc EXCEPT ![a] = "set"]
            /\ UNCHANGED <<nth, thrVars, mapVars, broken>>
         \/ /\ i < MapSize
            /\ \E s \in stale : s = i \/ s <= j
            /\ broken' = "row"
            /\ UNCHANGED <<fpc, nth, thrVars, mapVars>>
         \/ /\ i < MapSize
            /\ \A s \in stale : s # i /\ s > j
            /\ nth' = [nth EXCEPT ![a] = i + 1]
            /\ \/ j = MapSize /\ UNCHANGED <<thrVars, stale, freed>>
               \/ j < MapSize /\ stale' = stale \cup {j} /\ DestroyThread(rows[j])
            /\ UNCHANGED <<fpc, rows, broken>>
  /\ UNCHANGED <<current, to, held, mainVars, cmpVars, auxVars>>

Firing(a) == \/ Ctor(a) \/ MakeThread(a) \/ StartThread(a)
             \/ StopThread(a) \/ StopEnds(a) \/ Dtor(a)
             \/ Walk(a) \/ Set(a)

-----------------------------------------------------------------------------
(* program(): SETUP, START, the loop, STOP, SHUTDOWN; main() then calls    *)
(* fsm_dtor.                                                               *)
MainFires(from, event, where) ==
  /\ main = from /\ main' = where
  /\ Fire(Main, event)
  /\ UNCHANGED <<current, held, running, cmpVars, thrVars, mapVars, broken, missed>>

(* Mutant: the loop does not look at running.                              *)
LoopForever ==
  /\ main = "loop" /\ fpc[Main] = "idle"
  /\ main' = "sleep"
  /\ UNCHANGED <<fsmVars, running, cmpVars, thrVars, mapVars, broken, auxVars>>

Loop ==
  /\ main = "loop" /\ fpc[Main] = "idle"
  /\ main' = IF running = 1 THEN "sleep" ELSE "stop"
  /\ UNCHANGED <<fsmVars, running, cmpVars, thrVars, mapVars, broken, auxVars>>

(* thread_sleep returns, after a second or at once if a signal is caught,  *)
(* whatever the other threads are at; "stop" when --time has elapsed.      *)
Wakes ==
  /\ main = "sleep"
  /\ main' \in {"loop", "stop"}
  /\ UNCHANGED <<fsmVars, running, cmpVars, thrVars, mapVars, broken, auxVars>>

(* fsm_dtor frees the machine.  dmap_deinit leaves the table of threads    *)
(* as it is.                                                               *)
FsmDtor ==
  /\ main = "dtor" /\ fpc[Main] = "idle"
  /\ main' = "return"
  /\ UNCHANGED <<fsmVars, running, cmpVars, thrVars, mapVars, broken, auxVars>>

(* main() returns, and with it every thread is gone.                       *)
Return ==
  /\ main = "return" /\ main' = "exit"
  /\ UNCHANGED <<fsmVars, running, cmpVars, thrVars, mapVars, broken, auxVars>>

Program ==
  \/ MainFires("setup", "EVENT_SETUP", "start")
  \/ MainFires("start", "EVENT_START", "loop")
  \/ Loop \/ Wakes
  \/ MainFires("stop", "EVENT_STOP", "shutdown")
  \/ MainFires("shutdown", "EVENT_SHUTDOWN", "dtor")
  \/ FsmDtor \/ Return

(* _exit_handler, at any time.                                             *)
Interrupt ==
  /\ running = 1
  /\ running' = 0
  /\ UNCHANGED <<fsmVars, main, cmpVars, thrVars, mapVars, broken, auxVars>>

(* Threads that can fire exist from START on.  The STARTs under way, of    *)
(* cmpNum threads each, stay within the bound MaxThreads.                  *)
UnderWay == {b \in Actors : fpc[b] # "idle" /\ to[b] = STATE_RUN}

OtherFires(a, event) ==
  /\ main \notin {"setup", "start", "return"}
  /\ event = "EVENT_START" => made + cmpNum * (Cardinality(UnderWay) + 1) <= MaxThreads
  /\ Fire(a, event)
  /\ UNCHANGED <<current, held, mainVars, cmpVars, thrVars, mapVars, broken, missed>>

(* The entry point of LIB_DEF_THREAD: RUN, the component's main process,   *)
(* which returns when it sees that it is not in RUN or by itself, STOPPED. *)
ThreadRuns(t) ==
  /\ t \in alive /\ state[t] = "STARTED"
  /\ state' = [state EXCEPT ![t] = "RUN"]
  /\ Reads(t)
  /\ UNCHANGED <<fsmVars, mainVars, cmpVars, alive, doomed, mapVars, auxVars>>

ThreadEnds(t) ==
  /\ t \in alive /\ state[t] # "STARTED"
  /\ state' = [state EXCEPT ![t] = "STOPPED"]
  /\ alive' = alive \ {t}
  /\ Reads(t)
  /\ UNCHANGED <<fsmVars, mainVars, cmpVars, doomed, mapVars, auxVars>>

(* A cancelled thread dies at its next cancellation point.                 *)
ThreadDies(t) ==
  /\ t \in alive \cap doomed
  /\ alive' = alive \ {t}
  /\ UNCHANGED <<fsmVars, mainVars, cmpVars, state, doomed, mapVars, broken, auxVars>>

Next ==
  /\ broken = "nothing" /\ main # "exit"
  /\ \/ Program \/ Interrupt
     \/ \E a \in Actors : Firing(a)
     \/ \E a \in Firers, event \in {"EVENT_START", "EVENT_STOP"} : OtherFires(a, event)
     \/ \E a \in Firers : ReadsFreedFsm(a)
     \/ \E t \in Threads : ThreadRuns(t) \/ ThreadEnds(t) \/ ThreadDies(t)

Spec == Init /\ [][Next]_vars

(* Every thread gets to run and the main thread's sleep ends; a            *)
(* component's main process need never return, and nobody need press       *)
(* ctrl-C.                                                                 *)
FairSpec ==
  /\ Spec
  /\ WF_vars(broken = "nothing" /\ Program)
  /\ \A a \in Actors : WF_vars(broken = "nothing" /\ Firing(a))
  /\ \A t \in Threads : WF_vars(broken = "nothing" /\ ThreadRuns(t))

-----------------------------------------------------------------------------
ServiceTypeOK ==
  /\ cmpNum \in Cmps
  /\ current \in {STATE_HALT, STATE_RUN}
  /\ running \in {0, 1} /\ overlapped \in {0, 1}
  /\ broken \in {"nothing", "row", "thread", "fsm"}
  /\ main \in {"setup", "start", "loop", "sleep", "stop", "shutdown", "dtor",
               "return", "exit"}
  /\ fpc \in [Actors -> {"idle", "set", "ctor", "make", "start", "stop", "wait",
                         "dtor", "walk"}]
  /\ to \in [Actors -> {STATE_HALT, STATE_RUN}]
  /\ nth \in [Actors -> 0 .. MapSize + CmpNum] /\ held \in [Actors -> 0 .. MaxThreads]
  /\ cmp \in [Cmps -> 0 .. MaxThreads + 1] /\ thr \in [Cmps -> 0 .. MaxThreads]
  /\ made \in 0 .. MaxThreads
  /\ state \in [Threads -> {"none", "READY", "STARTED", "RUN", "STOP", "STOPPED"}]
  /\ alive \subseteq 1 .. made /\ doomed \subseteq 1 .. made
  /\ rows \in [Slots -> 0 .. made]
  /\ stale \subseteq Slots /\ freed \subseteq 1 .. made /\ missed \subseteq 1 .. made

(* The thread is in the table of threads once, unless the table is full.   *)
InTable(t) ==
  \/ \E i \in Slots : rows[i] = t /\ \A j \in Slots \ {i} : rows[j] # t
  \/ \A i \in Slots : rows[i] \notin {NoItem, t}

(* The machine is in RUN and every component is constructed and has the    *)
(* thread made for it, each its own and in the table, or it is in HALT and *)
(* none is.                                                                *)
Paired ==
  IF current = STATE_RUN
    THEN /\ \A k \in 1 .. cmpNum : thr[k] # 0 /\ cmp[k] = thr[k] /\ InTable(thr[k])
         /\ \A k, l \in 1 .. cmpNum : thr[k] = thr[l] => k = l
    ELSE \A k \in Cmps : thr[k] = 0 /\ cmp[k] = 0

(* Unless two events have overlapped, the components agree with the state  *)
(* whenever no transition is under way, SIGINT at any time: no START comes *)
(* twice and orphans a thread (cmp_predefs.h:527, lib_makers.c:79), no     *)
(* STOP destructs twice (fsm.c:74, cmp_predefs.h:223).                     *)
StopsPairStarts == overlapped = 0 /\ Quiet => Paired

(* Unless two events have overlapped, a thread that lives in HALT was      *)
(* cancelled, or had not run yet when its STOP came: STOP waits for every  *)
(* other one to end (lib_threading.c:325-336, cmp_predefs.h:542).          *)
StoppedInHalt ==
  overlapped = 0 /\ Quiet /\ current = STATE_HALT => alive \subseteq doomed \cup missed

(* Once SIGINT was caught the program ends, unless it breaks.              *)
ExitReached == running = 0 ~> (main = "exit" \/ broken # "nothing")
=============================================================================
