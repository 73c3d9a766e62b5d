--------------------------- MODULE LifespanProofs ---------------------------
(***************************************************************************)
(* Start-up and shutdown are in order for any number of coroutines and     *)
(* requests.                                                               *)
(***************************************************************************)
EXTENDS Lifespan, TLAPS
-----------------------------------------------------------------------------
LEMMA IdleIsTyped == Idle \in [Coroutines -> Waits]
BY DEF Idle, Waits

LEMMA InitKeeps == Init => LifespanInv
BY IdleIsTyped
DEF Init, LifespanInv, TypeOK, Shape, Stages, LoopTasks, Started

(* A turn of a coroutine leaves only itself changed.                        *)
LEMMA CoroutineStepKeeps ==
    ASSUME LifespanInv, NEW c \in Coroutines, CoroutineStep(c)
    PROVE  LifespanInv'
<1>1. /\ running[c] # "none" /\ cancelled' = cancelled \ {c}
      /\ UNCHANGED <<stage, config, tables, reachable, loop, cancel, handlers>>
  BY DEF CoroutineStep, lifespan
<1>2. PICK w \in Waits : running' = [running EXCEPT ![c] = w]
  BY Zenon DEF CoroutineStep, Waits
<1>3. TypeOK'
  BY <1>1, <1>2 DEF LifespanInv, TypeOK
<1>4. running # Idle
  BY <1>1 DEF Idle
<1>. QED  BY <1>1, <1>3, <1>4 DEF LifespanInv, Shape

(* Start and end of the process.                                            *)
LEMMA StartStopKeeps == LifespanInv /\ (StartStop \/ Gone) => LifespanInv'
<1>. SUFFICES ASSUME LifespanInv, StartStop \/ Gone PROVE LifespanInv'
  OBVIOUS
<1>. USE DEF LifespanInv, TypeOK, Shape, Stages, LoopTasks, Started
<1>1. CASE Gone \/ Dispose
  BY <1>1, IdleIsTyped DEF Gone, Dispose, Idle
<1>2. CASE LoadConfig
  BY <1>2 DEF LoadConfig, work
<1>3. CASE CreateTables
  BY <1>3 DEF CreateTables, work
<1>4. CASE Discovered
  BY <1>4 DEF Discovered
<1>5. CASE CancelLoop
  BY <1>5 DEF CancelLoop
<1>6. CASE LoopAwaited
  <2>1. loop = "ended" /\ ~cancel /\ running = Idle /\ cancelled = {}
    BY <1>6 DEF LoopAwaited, Idle
  <2>. QED  BY <1>6, <2>1 DEF LoopAwaited
<1>. QED  BY <1>1, <1>2, <1>3, <1>4, <1>5, <1>6 DEF StartStop

(* The loop, which gathers only what it creates and ends only if cancelled. *)
LEMMA LoopTaskKeeps == LifespanInv /\ LoopTask => LifespanInv'
<1>. SUFFICES ASSUME LifespanInv, LoopTask PROVE LifespanInv'
  OBVIOUS
<1>. USE DEF LifespanInv, TypeOK, Shape, LoopTasks, Started
<1>1. CASE Query
  BY <1>1 DEF Query, Goto, lifespan
<1>2. CASE Gather
  <2>1. PICK S \in SUBSET Coroutines :
           running' = [c \in Coroutines |-> IF c \in S THEN "claim" ELSE "none"]
    BY <1>2 DEF Gather
  <2>2. running' \in [Coroutines -> Waits]
    BY <2>1 DEF Waits
  <2>3. /\ ~cancel /\ loop = "querying" /\ loop' = "gather" /\ cancelled = {}
        /\ UNCHANGED <<stage, config, tables, reachable, cancel, cancelled, handlers>>
    BY <1>2 DEF Gather, Goto, lifespan, Idle
  <2>. QED  BY <2>2, <2>3
<1>3. CASE CycleEnds
  BY <1>3 DEF CycleEnds, Goto, lifespan
<1>4. CASE LoopCancelled
  BY <1>4 DEF LoopCancelled, lifespan
<1>. QED  BY <1>1, <1>2, <1>3, <1>4 DEF LoopTask

LEMMA OthersKeep ==
    ASSUME LifespanInv, \/ Signal \/ Database \/ UNCHANGED vars
                 \/ \E q \in Requests : Accept(q) \/ Respond(q)
    PROVE  LifespanInv'
<1>. USE DEF LifespanInv, TypeOK, Shape, Stages, Started
<1>1. CASE Signal
  BY <1>1 DEF Signal, work
<1>2. CASE Database
  BY <1>2 DEF Database, lifespan, work
<1>3. CASE UNCHANGED vars
  BY <1>3 DEF vars, lifespan, work
<1>4. ASSUME NEW q \in Requests, Accept(q) \/ Respond(q) PROVE LifespanInv'
  BY <1>4 DEF Accept, Respond, lifespan, work
<1>. QED  BY <1>1, <1>2, <1>3, <1>4

LEMMA StepKeeps == LifespanInv /\ [Next]_vars => LifespanInv'
BY CoroutineStepKeeps, StartStopKeeps, LoopTaskKeeps, OthersKeep DEF Next

(***************************************************************************)
(* Who is there besides lifespan follows from where it is: the loop while  *)
(* the service is started, coroutines only while the loop waits for them,  *)
(* cancellations only of coroutines that run (main.py:33-50,               *)
(* orchestrator.py:27-37, 60-64).                                          *)
(***************************************************************************)
THEOREM LifespanIsInOrder == Spec => []LifespanInv
BY InitKeeps, StepKeeps, PTL DEF Spec
-----------------------------------------------------------------------------
(***************************************************************************)
(* Whatever the database does, the liveness probe is satisfied as long as  *)
(* the service serves (main.py:82-91, orchestrator.py:27-37).              *)
(***************************************************************************)
THEOREM ProbesAreTrue == Spec => []ProbesWhileServing
<1>1. LifespanInv => ProbesWhileServing
  BY DEF LifespanInv, TypeOK, Shape, ProbesWhileServing, liveness
<1>. QED  BY <1>1, LifespanIsInOrder, PTL

(***************************************************************************)
(* Loop, coroutines and handlers find the tables (main.py:33-43).          *)
(***************************************************************************)
THEOREM TablesComeFirst == Spec => []UsersFindTables
<1>1. LifespanInv => UsersFindTables
  BY DEF LifespanInv, Shape, UsersFindTables, Started
<1>. QED  BY <1>1, LifespanIsInOrder, PTL

(***************************************************************************)
(* Nobody uses the engine that is disposed of (main.py:44-50).             *)
(***************************************************************************)
THEOREM DisposeComesLast == Spec => []DisposeIsLast
<1>1. LifespanInv => DisposeIsLast
  BY DEF LifespanInv, Shape, DisposeIsLast, Started
<1>. QED  BY <1>1, LifespanIsInOrder, PTL
=============================================================================
