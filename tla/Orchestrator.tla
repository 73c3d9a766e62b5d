---------------------------- MODULE Orchestrator ----------------------------
(***************************************************************************)
(* The reconciliation loop (app/services/orchestrator.py) of every replica *)
(* of the service.  One action per transaction or per awaited answer: what *)
(* happens between two of them happens while other coroutines, requests    *)
(* and replicas run.                                                       *)
(***************************************************************************)
EXTENDS WorkItems

CONSTANT
    MaxHold     \* bound of an agent call: ticks from claim to answer

ASSUME MaxHoldAssumption == MaxHold \in Nat

VARIABLES
    loop,       \* where run_loop of each replica is
    stale,      \* the rows _release_stale has marked and not committed yet
    tasks       \* the _run_phase coroutine of each replica for each key

orchestrator == <<loop, stale, tasks>>

(* "down" is a replica without a running loop: stopped, crashed, not started. *)
LoopStates == {"down", "cleanup", "release", "releasing", "select", "gather",
               "gauges", "sleep"}

Stages   == {"none", "created", "calling", "loading", "saving"}
Outcomes == {None, "result", "skipped", "error"}

(***************************************************************************)
(* phase and results are the snapshot of the SELECT in _reconcile, which   *)
(* the coroutine keeps using; loaded is the row session.get returned when  *)
(* saving; held counts the ticks since the claim.                          *)
(***************************************************************************)
Task == [stage : Stages, phase : Names \cup {None}, results : SUBSET Names,
         outcome : Outcomes, loaded : WorkItem \cup {NoRow}, held : 0..MaxHold]

NoTask == [stage |-> "none", phase |-> None, results |-> {}, outcome |-> None,
           loaded |-> NoRow, held |-> 0]

OrchestratorInit ==
    /\ loop = [r \in Replicas |-> "down"]
    /\ stale = [r \in Replicas |-> {}]
    /\ tasks = [r \in Replicas |-> [k \in Keys |-> NoTask]]

Goto(r, from, to) == loop[r] = from /\ loop' = [loop EXCEPT ![r] = to]

SetTask(r, k, t) == tasks' = [tasks EXCEPT ![r][k] = t]

PhaseOf(r, k) == get_phase(PolicyOf(k), tasks[r][k].phase)

(* Mutant of NextOf: a phase without operation, a manual one too, is skipped. *)
NextWithOperation(r, k) ==
    LET next == next_phase(PolicyOf(k), tasks[r][k].phase)
    IN  IF next.operation \/ next.name \in {COMPLETED, None}
        THEN next ELSE next_phase(PolicyOf(k), next.name)

(* Mutant of NextOf: it is the phase after that of the row as it is now.     *)
NextOfRow(r, k) == next_phase(PolicyOf(k), tasks[r][k].loaded.phase)

NextOf(r, k) == next_phase(PolicyOf(k), tasks[r][k].phase)
-----------------------------------------------------------------------------
(* _cleanup_completed: one DELETE statement.                                *)
CleanupCompleted(r) ==
    /\ Goto(r, "cleanup", "release")
    /\ items' = [k \in Keys |->
                    IF Exists(k) /\ items[k].phase = COMPLETED THEN NoRow ELSE items[k]]
    /\ UNCHANGED <<stale, tasks>>

(* Mutant of Stale: the test of the mode is the wrong way round.            *)
StaleManual(row) == /\ ~row.ready
                    /\ row.locked_at # NoLock
                    /\ row.mode = MANUAL
                    /\ row.locked_at > StaleTimeout

Stale(row) == /\ ~row.ready
              /\ row.locked_at # NoLock
              /\ row.mode # MANUAL
              /\ row.locked_at > StaleTimeout

(* _release_stale, its SELECT and the loop over the rows.                   *)
ReleaseLoad(r) ==
    LET found == {k \in Keys : Exists(k) /\ Stale(items[k])}
    IN  /\ Goto(r, "release", IF found = {} THEN "select" ELSE "releasing")
        /\ stale' = [stale EXCEPT ![r] = found]
        /\ UNCHANGED <<items, tasks>>

(* Its commit: UPDATEs by primary key, whatever the rows have become.       *)
ReleaseCommit(r) ==
    /\ Goto(r, "releasing", "select")
    /\ \A k \in stale[r] : Exists(k)
    /\ items' = [k \in Keys |-> IF k \in stale[r] THEN Released(items[k]) ELSE items[k]]
    /\ stale' = [stale EXCEPT ![r] = {}]
    /\ UNCHANGED tasks

(* A row to UPDATE is gone: StaleDataError, rollback, end of the cycle.     *)
ReleaseRowGone(r) ==
    /\ Goto(r, "releasing", "sleep")
    /\ \E k \in stale[r] : ~Exists(k)
    /\ stale' = [stale EXCEPT ![r] = {}]
    /\ UNCHANGED <<items, tasks>>

Selectable(k) == /\ Exists(k)
                 /\ items[k].ready
                 /\ items[k].phase \notin {COMPLETED, FAILED}
                 /\ get_phase(PolicyOf(k), items[k].phase) # NoPhase

(* _reconcile: the SELECT and the creation of one task per item.            *)
SelectReady(r) ==
    /\ Goto(r, "select", "gather")
    /\ tasks' = [tasks EXCEPT ![r] =
                    [k \in Keys |->
                        IF Selectable(k)
                        THEN [NoTask EXCEPT !.stage = "created",
                                            !.phase = items[k].phase,
                                            !.results = items[k].step_results]
                        ELSE NoTask]]
    /\ UNCHANGED <<items, stale>>

(* Mutant of GatherDone: the cycle does not wait for its tasks.             *)
GatherNotAwaited(r) ==
    Goto(r, "gather", "gauges") /\ UNCHANGED <<items, stale, tasks>>

(* asyncio.gather returns when every task of this cycle has ended.          *)
GatherDone(r) ==
    /\ Goto(r, "gather", "gauges")
    /\ \A k \in Keys : tasks[r][k].stage = "none"
    /\ UNCHANGED <<items, stale, tasks>>

(* _update_gauges only reads the table.                                     *)
UpdateGauges(r) == Goto(r, "gauges", "sleep") /\ UNCHANGED <<items, stale, tasks>>

Wake(r) == Goto(r, "sleep", "cleanup") /\ UNCHANGED <<items, stale, tasks>>

(* run_loop catches whatever a step raises; _reconcile has nothing left to  *)
(* raise once it gathers.                                                   *)
CycleFails(r) ==
    /\ loop[r] \in {"cleanup", "release", "releasing", "select", "gauges"}
    /\ loop' = [loop EXCEPT ![r] = "sleep"]
    /\ stale' = [stale EXCEPT ![r] = {}]
    /\ UNCHANGED <<items, tasks>>
-----------------------------------------------------------------------------
(* UPDATE ... WHERE key = ? AND ready: the phase is not asked again.        *)
CanClaim(k) == Exists(k) /\ items[k].ready

(* rowcount = 0: somebody else has the item.                                *)
ClaimMisses(r, k) ==
    /\ tasks[r][k].stage = "created"
    /\ ~CanClaim(k)
    /\ SetTask(r, k, NoTask)
    /\ UNCHANGED <<items, loop, stale>>

(* Mutant of ClaimManual: the early return of a manual phase is missing.    *)
ClaimManualAndGoOn(r, k) ==
    /\ tasks[r][k].stage = "created"
    /\ CanClaim(k)
    /\ PhaseOf(r, k).mode = MANUAL
    /\ items' = [items EXCEPT ![k] = Claimed(@, MANUAL)]
    /\ SetTask(r, k, [tasks[r][k] EXCEPT !.stage = "loading", !.outcome = "skipped"])
    /\ UNCHANGED <<loop, stale>>

(* The claimed item waits for a reviewer, the coroutine ends.               *)
ClaimManual(r, k) ==
    /\ tasks[r][k].stage = "created"
    /\ CanClaim(k)
    /\ PhaseOf(r, k).mode = MANUAL
    /\ items' = [items EXCEPT ![k] = Claimed(@, MANUAL)]
    /\ SetTask(r, k, NoTask)
    /\ UNCHANGED <<loop, stale>>

(* The coroutine goes on to its agent call, or past it without operation.   *)
ClaimAutomatic(r, k) ==
    /\ tasks[r][k].stage = "created"
    /\ CanClaim(k)
    /\ PhaseOf(r, k).mode # MANUAL
    /\ items' = [items EXCEPT ![k] = Claimed(@, PhaseOf(r, k).mode)]
    /\ SetTask(r, k, IF PhaseOf(r, k).operation
                     THEN [tasks[r][k] EXCEPT !.stage = "calling"]
                     ELSE [tasks[r][k] EXCEPT !.stage = "loading",
                                              !.outcome = "skipped"])
    /\ UNCHANGED <<loop, stale>>

(***************************************************************************)
(* _invoke_agent ends with a text or an exception: no matching agent, a    *)
(* failed A2A task, or transient errors that outlast the retries.          *)
(***************************************************************************)
AgentReturns(r, k, outcome) ==
    /\ tasks[r][k].stage = "calling"
    /\ SetTask(r, k, [tasks[r][k] EXCEPT !.stage = "loading", !.outcome = outcome])
    /\ UNCHANGED <<items, loop, stale>>

AgentAnswers(r, k) == AgentReturns(r, k, "result")
AgentFails(r, k)   == AgentReturns(r, k, "error")

(* session.get, in _run_phase or in _save_failed.                           *)
Load(r, k) ==
    /\ tasks[r][k].stage = "loading"
    /\ SetTask(r, k, IF Exists(k)
                     THEN [tasks[r][k] EXCEPT !.stage = "saving", !.loaded = items[k]]
                     ELSE NoTask)
    /\ UNCHANGED <<items, loop, stale>>

(* Mutant of Succeeds: a phase that failed is passed like any other.        *)
SucceedsAnyway(r, k) == NextOf(r, k) # NoPhase

Succeeds(r, k) == tasks[r][k].outcome # "error" /\ NextOf(r, k) # NoPhase

(* The commit of a phase that went well: with or without a result.          *)
SaveAdvanced(r, k) ==
    LET t    == tasks[r][k]
        done == IF t.outcome = "result" THEN {t.phase} ELSE {}
        new  == Advanced(t.loaded, NextOf(r, k).name, done)
    IN  /\ t.stage = "saving"
        /\ Exists(k)
        /\ Succeeds(r, k)
        /\ items' = [items EXCEPT ![k] = FlushResult(@, t.loaded, new, done)]
        /\ SetTask(r, k, NoTask)
        /\ UNCHANGED <<loop, stale>>

SaveFailed(r, k) ==
    LET t == tasks[r][k]
    IN  /\ t.stage = "saving"
        /\ Exists(k)
        /\ ~Succeeds(r, k)
        /\ \E differs \in BOOLEAN :
              items' = [items EXCEPT ![k] =
                  FlushReason(@, t.loaded, Failed(t.loaded, t.phase), differs)]
        /\ SetTask(r, k, NoTask)
        /\ UNCHANGED <<loop, stale>>

(* The row went between load and commit: StaleDataError ends the coroutine. *)
SaveRowGone(r, k) ==
    /\ tasks[r][k].stage = "saving"
    /\ ~Exists(k)
    /\ SetTask(r, k, NoTask)
    /\ UNCHANGED <<items, loop, stale>>

(* A database error in a transaction of the coroutine: gather returns it as *)
(* a value and nobody looks at it.                                          *)
TaskDbError(r, k) ==
    /\ tasks[r][k].stage \in {"created", "loading", "saving"}
    /\ SetTask(r, k, NoTask)
    /\ UNCHANGED <<items, loop, stale>>

(* The process ends: coroutines go, the rows they claimed stay claimed.     *)
Stop(r) ==
    /\ loop[r] # "down"
    /\ loop' = [loop EXCEPT ![r] = "down"]
    /\ stale' = [stale EXCEPT ![r] = {}]
    /\ tasks' = [tasks EXCEPT ![r] = [k \in Keys |-> NoTask]]
    /\ UNCHANGED items

(* lifespan: the new process starts its loop.                               *)
Start(r) == Goto(r, "down", "cleanup") /\ UNCHANGED <<items, stale, tasks>>

(* The clock of the host: locks and open calls grow older.  That no call    *)
(* outlives MaxHold is assumed of the agents (Prompt in A2AClient).         *)
Tick ==
    /\ \A r \in Replicas, k \in Keys :
          tasks[r][k].stage \in {"calling", "loading", "saving"} => tasks[r][k].held < MaxHold
    /\ AgeLocks
    /\ tasks' = [r \in Replicas |-> [k \in Keys |->
                   IF tasks[r][k].stage \in {"calling", "loading", "saving"}
                   THEN [tasks[r][k] EXCEPT !.held = @ + 1] ELSE tasks[r][k]]]
    /\ UNCHANGED <<loop, stale>>

LoopStep(r) ==
    \/ CleanupCompleted(r) \/ ReleaseLoad(r) \/ ReleaseCommit(r) \/ ReleaseRowGone(r)
    \/ SelectReady(r) \/ GatherDone(r) \/ UpdateGauges(r) \/ Wake(r)

TaskStep(r, k) ==
    \/ ClaimMisses(r, k) \/ ClaimManual(r, k) \/ ClaimAutomatic(r, k)
    \/ AgentAnswers(r, k) \/ AgentFails(r, k)
    \/ Load(r, k) \/ SaveAdvanced(r, k) \/ SaveFailed(r, k) \/ SaveRowGone(r, k)
=============================================================================
