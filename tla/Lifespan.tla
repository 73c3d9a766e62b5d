------------------------------ MODULE Lifespan ------------------------------
(***************************************************************************)
(* One process of the service from start to stop (app/main.py, the while   *)
(* loop of app/services/orchestrator.py): how start-up, the loop task, its *)
(* coroutines, the handlers and the shutdown take turns on one event loop. *)
(* What they do to the items is in Automator.                              *)
(***************************************************************************)
EXTENDS FiniteSets

CONSTANTS
    Coroutines,  \* the tasks a cycle can gather
    Requests     \* the HTTP requests that can be open at once

VARIABLES
    stage,      \* where lifespan is; "off" is no process
    config,     \* _app_config is set, and its engine open
    tables,     \* the tables exist: in the database, so they stay
    reachable,  \* the database answers
    loop,       \* _loop_task
    cancel,     \* cancel() was called on it and is not delivered yet
    running,    \* the coroutines gather waits for, by what they wait for
    cancelled,  \* those to be cancelled at their next turn
    handlers    \* the open requests; each has a database session

lifespan == <<stage, config, tables>>
work     == <<loop, cancel, running, cancelled>>
vars     == <<lifespan, reachable, work, handlers>>

Stages    == {"off", "tables", "discovery", "serving", "draining", "awaiting",
              "disposing"}
LoopTasks == {"none", "created", "querying", "gather", "sleep", "ended"}
Waits     == {"none", "claim", "agent", "save"}

Idle == [c \in Coroutines |-> "none"]

Init ==
    /\ stage = "off" /\ config = FALSE /\ tables = FALSE /\ reachable = TRUE
    /\ loop = "none" /\ cancel = FALSE /\ running = Idle /\ cancelled = {}
    /\ handlers = {}

(* The end of a process, at any point: killed, or start-up has raised.      *)
Gone ==
    /\ stage # "off"
    /\ stage' = "off" /\ config' = FALSE /\ handlers' = {}
    /\ loop' = "none" /\ cancel' = FALSE /\ running' = Idle /\ cancelled' = {}
    /\ UNCHANGED <<tables, reachable>>
-----------------------------------------------------------------------------
(* load_config; a file that does not validate leaves the process off.       *)
LoadConfig ==
    /\ stage = "off"
    /\ stage' = "tables" /\ config' = TRUE
    /\ UNCHANGED <<tables, reachable, work, handlers>>

CreateTables ==
    /\ stage = "tables" /\ reachable
    /\ stage' = "discovery" /\ tables' = TRUE
    /\ UNCHANGED <<config, reachable, work, handlers>>

(* Mutant of Discovered: the loop is created before the tables are.         *)
LoopBeforeTables ==
    \/ /\ stage \in {"tables", "discovery"} /\ loop = "none"
       /\ loop' = "created"
       /\ UNCHANGED <<lifespan, reachable, cancel, running, cancelled, handlers>>
    \/ /\ stage = "discovery" /\ loop # "none"
       /\ stage' = "serving"
       /\ UNCHANGED <<config, tables, reachable, work, handlers>>

(* discover_agents has returned; create_task does not run the loop yet.     *)
Discovered ==
    /\ stage = "discovery"
    /\ stage' = "serving"
    /\ loop' = "created"
    /\ UNCHANGED <<config, tables, reachable, cancel, running, cancelled, handlers>>
-----------------------------------------------------------------------------
(* run_loop goes on: to a query, a cycle's gather or the sleep after it.    *)
Goto(from, to) ==
    /\ ~cancel /\ loop = from
    /\ loop' = to
    /\ UNCHANGED <<lifespan, reachable, cancel, cancelled, handlers>>

Query ==
    /\ \/ Goto("created", "querying") \/ Goto("sleep", "querying")
       \/ running = Idle /\ Goto("gather", "querying")
    /\ UNCHANGED running

Gather ==
    /\ reachable
    /\ Goto("querying", "gather")
    /\ \E S \in SUBSET Coroutines :
          /\ S # {}
          /\ running' = [c \in Coroutines |-> IF c \in S THEN "claim" ELSE "none"]

(* Mutant of CycleEnds: the exception of a query ends the loop.             *)
CycleEndsLoop ==
    /\ Goto("querying", IF reachable THEN "sleep" ELSE "ended")
    /\ UNCHANGED running

(* Nothing to gather, or except Exception: an error ends the cycle only.    *)
CycleEnds == Goto("querying", "sleep") /\ UNCHANGED running

(* Mutant of LoopCancelled: the loop catches the cancellation as well.      *)
CancelCaught ==
    /\ cancel /\ running = Idle
    /\ loop' = "sleep" /\ cancel' = FALSE
    /\ UNCHANGED <<lifespan, reachable, running, cancelled, handlers>>

(* Mutant of LoopCancelled: asyncio.wait in place of gather, which lets go  *)
(* of the tasks it waits for.                                               *)
CancelledAtOnce ==
    /\ cancel
    /\ loop' = "ended" /\ cancel' = FALSE
    /\ UNCHANGED <<lifespan, reachable, running, cancelled, handlers>>

(* CancelledError is no Exception.  From gather it is raised when the last  *)
(* of the cancelled coroutines has ended.                                   *)
LoopCancelled ==
    /\ cancel /\ running = Idle
    /\ loop' = "ended" /\ cancel' = FALSE
    /\ UNCHANGED <<lifespan, reachable, running, cancelled, handlers>>

(* A coroutine goes on, or ends: done, misses its claim, or has raised.     *)
CoroutineStep(c) ==
    LET after == CASE running[c] = "claim" -> {"agent", "save", "none"}
                   [] running[c] = "agent" -> {"save"}
                   [] OTHER                -> {"none"}
    IN  /\ running[c] # "none"
        /\ \E w \in IF c \in cancelled THEN {"none"} ELSE after :
              running' = [running EXCEPT ![c] = w]
        /\ cancelled' = cancelled \ {c}
        /\ UNCHANGED <<lifespan, reachable, loop, cancel, handlers>>
-----------------------------------------------------------------------------
(* The server accepts requests between start-up and shutdown only.          *)
Accept(q) ==
    /\ stage = "serving" /\ q \notin handlers
    /\ handlers' = handlers \cup {q}
    /\ UNCHANGED <<lifespan, reachable, work>>

Respond(q) ==
    /\ q \in handlers
    /\ handlers' = handlers \ {q}
    /\ UNCHANGED <<lifespan, reachable, work>>

(* A signal to stop: the server waits for the open requests.                *)
Signal ==
    /\ stage = "serving"
    /\ stage' = "draining"
    /\ UNCHANGED <<config, tables, reachable, work, handlers>>

(* _loop_task.cancel(); a waiting gather passes it on to what it waits for. *)
CancelLoop ==
    /\ stage = "draining" /\ handlers = {}
    /\ stage' = "awaiting"
    /\ cancel' = TRUE
    /\ cancelled' = {c \in Coroutines : running[c] # "none"}
    /\ UNCHANGED <<config, tables, reachable, loop, running, handlers>>

(* Mutant of LoopAwaited: the cancelled task is not awaited.                *)
LoopNotAwaited ==
    /\ stage = "awaiting"
    /\ stage' = "disposing"
    /\ UNCHANGED <<config, tables, reachable, work, handlers>>

LoopAwaited ==
    /\ stage = "awaiting" /\ loop = "ended"
    /\ stage' = "disposing" /\ loop' = "none"
    /\ UNCHANGED <<config, tables, reachable, cancel, running, cancelled, handlers>>

(* The engine is disposed of, and the process exits.                        *)
Dispose == stage = "disposing" /\ Gone

Database ==
    /\ reachable' = ~reachable
    /\ UNCHANGED <<lifespan, work, handlers>>

StartStop == LoadConfig \/ CreateTables \/ Discovered \/ CancelLoop \/ LoopAwaited \/ Dispose

LoopTask == Query \/ Gather \/ CycleEnds \/ LoopCancelled

Next ==
    \/ StartStop \/ LoopTask \/ Gone \/ Signal \/ Database
    \/ \E c \in Coroutines : CoroutineStep(c)
    \/ \E q \in Requests : Accept(q) \/ Respond(q)

(* The event loop gives every task its turn, and a query ends or raises.    *)
(* No agent has to answer: the await of a call ends by a cancellation.      *)
Spec ==
    /\ Init /\ [][Next]_vars
    /\ WF_vars(StartStop) /\ WF_vars(LoopTask)
    /\ \A c \in Coroutines :
          WF_vars((running[c] = "agent" => c \in cancelled) /\ CoroutineStep(c))
    /\ \A q \in Requests : WF_vars(Respond(q))
-----------------------------------------------------------------------------
(* The liveness probe.                                                      *)
liveness == IF loop = "ended" THEN 503 ELSE 200

TypeOK ==
    /\ stage \in Stages /\ loop \in LoopTasks
    /\ config \in BOOLEAN /\ tables \in BOOLEAN /\ reachable \in BOOLEAN /\ cancel \in BOOLEAN
    /\ running \in [Coroutines -> Waits]
    /\ cancelled \subseteq {c \in Coroutines : running[c] # "none"}
    /\ handlers \subseteq Requests

Started == {"serving", "draining", "awaiting"}

(* Where lifespan is tells who can be there besides it.                     *)
Shape ==
    /\ config <=> stage # "off"
    /\ stage \in Started \cup {"discovery", "disposing"} => tables
    /\ loop # "none" <=> stage \in Started
    /\ loop = "ended" \/ cancel \/ cancelled # {} => stage = "awaiting"
    /\ loop = "ended" => ~cancel
    /\ running # Idle => loop = "gather"
    /\ handlers # {} => stage \in {"serving", "draining"}

(***************************************************************************)
(* The inductive invariant.  The loop is there while the service is        *)
(* started, it ends by a cancellation and not before the last coroutine it *)
(* has gathered, of which only those that still run wait to be cancelled   *)
(* (main.py:33-50, orchestrator.py:27-37, 60-64).                          *)
(***************************************************************************)
LifespanInv == TypeOK /\ Shape

(***************************************************************************)
(* No outage of the database makes the liveness probe ask for a restart:   *)
(* the reconciler goes on (README.md:151, main.py:82-91,                   *)
(* orchestrator.py:27-37).                                                 *)
(***************************************************************************)
ProbesWhileServing == stage = "serving" => liveness = 200

(***************************************************************************)
(* Whoever uses the database - the loop, its coroutines, the handlers -    *)
(* finds the configuration loaded and the tables created                   *)
(* (main.py:33-43, config.py:123-127).                                     *)
(***************************************************************************)
UsersFindTables ==
    loop \in {"created", "querying", "gather", "sleep"} \/ handlers # {} => config /\ tables

(***************************************************************************)
(* When the engine is disposed of nobody uses it any more: no query, no    *)
(* claim or save of a coroutine, no handler (main.py:44-50).               *)
(***************************************************************************)
DisposeIsLast ==
    stage = "disposing" =>
        loop \in {"none", "ended"} /\ running = Idle /\ handlers = {}

(***************************************************************************)
(* A shutdown ends, wherever it meets the loop and its coroutines          *)
(* (main.py:44-50: await _loop_task returns).                              *)
(***************************************************************************)
ShutdownEnds == stage = "draining" ~> stage = "off"
=============================================================================
