----------------------------- MODULE Automator ------------------------------
(***************************************************************************)
(* The service: reconciliation loops and HTTP handlers of every replica on *)
(* one database, the clock, and what can go wrong around them.             *)
(***************************************************************************)
EXTENDS Orchestrator, ItemRoutes

CONSTANTS
    MaxFaults,  \* bound of the model: crashes and database errors
    Clients,    \* the commands the clients of the API send
    Overlap     \* whether two of their requests for one item are ever open at once

ASSUME MaxFaultsAssumption == MaxFaults \in Nat
ASSUME ClientsAssumption == Clients \subseteq Commands /\ Overlap \in BOOLEAN

VARIABLE faults      \* how many there have been

vars == <<items, loop, stale, tasks, requests, approved, faults>>

ServiceInit == /\ Init
               /\ OrchestratorInit
               /\ RoutesInit
               /\ faults = 0

Up(r) == loop[r] # "down"

Loop(r)   == LoopStep(r) /\ UNCHANGED <<routes, faults>>
Run(r, k) == TaskStep(r, k) /\ UNCHANGED <<routes, faults>>
Boot(r)   == Start(r) /\ UNCHANGED <<routes, faults>>
Time      == Tick /\ UNCHANGED <<routes, faults>>

Ingest(r, k) == Up(r) /\ ReceiveEvent(k) /\ UNCHANGED <<orchestrator, faults>>

OpenRequest(r, q, k, command) ==
    /\ Up(r)
    /\ Overlap \/ \A other \in Requests : requests[other].key # k
    /\ LoadStep(r, q, k, command)
    /\ UNCHANGED <<orchestrator, faults>>

CloseRequest(q) == CommitStep(q) /\ UNCHANGED <<orchestrator, faults>>

Fault == faults < MaxFaults /\ faults' = faults + 1

Crash(r)       == Fault /\ Stop(r) /\ DropRequests(r)
LoopError(r)   == Fault /\ CycleFails(r) /\ UNCHANGED routes
TaskError(r, k) == Fault /\ TaskDbError(r, k) /\ UNCHANGED routes

Next ==
    \/ \E r \in Replicas : Loop(r) \/ Boot(r) \/ Crash(r) \/ LoopError(r)
    \/ \E r \in Replicas, k \in Keys : Run(r, k) \/ TaskError(r, k) \/ Ingest(r, k)
    \/ \E r \in Replicas, q \in Requests, k \in Keys, command \in Clients :
          OpenRequest(r, q, k, command)
    \/ \E q \in Requests : CloseRequest(q)
    \/ Time

Spec == ServiceInit /\ [][Next]_vars

(***************************************************************************)
(* What the runtime promises: a started coroutine and an open request go   *)
(* on, time passes, and the deployment restarts a stopped process.  Of the *)
(* agents it is assumed that a call ends: CallEndsInTime shows it of those *)
(* that do not send their answer in pieces without end.  Nobody has to     *)
(* review, retry, delete or send anything.                                 *)
(***************************************************************************)
Fairness ==
    /\ \A r \in Replicas : WF_vars(Loop(r)) /\ WF_vars(Boot(r))
    /\ \A r \in Replicas, k \in Keys : WF_vars(Run(r, k))
    /\ \A q \in Requests : WF_vars(CloseRequest(q))
    /\ WF_vars(Time)

FairSpec == Spec /\ Fairness
-----------------------------------------------------------------------------
TypeOK ==
    /\ items \in [Keys -> WorkItem \cup {NoRow}]
    /\ loop \in [Replicas -> LoopStates]
    /\ stale \in [Replicas -> SUBSET Keys]
    /\ tasks \in [Replicas -> [Keys -> Task]]
    /\ requests \in [Requests -> Request \cup {Closed}]
    /\ approved \in [Keys -> SUBSET Names]
    /\ faults \in 0..MaxFaults

Rows == {k \in Keys : Exists(k)}

(* A coroutine past its claim: it works on the item.                        *)
Working(r, k) == tasks[r][k].stage \in {"calling", "loading", "saving"}

Calling(r, k) == tasks[r][k].stage = "calling"

Waiting(k) == Exists(k) /\ items[k].mode = MANUAL

(***************************************************************************)
(* No agent is called for a phase that comes after a manual one unless a   *)
(* reviewer has approved that one for this very item (README.md:77,        *)
(* orchestrator.py:88-90, items.py:105-124).                               *)
(***************************************************************************)
ApprovalGate ==
    \A r \in Replicas, k \in Keys : Calling(r, k) =>
        ManualBefore(PolicyOf(k), tasks[r][k].phase) \subseteq approved[k]

(***************************************************************************)
(* The prompt of an agent call carries the result of every earlier agent   *)
(* phase (README.md:83, orchestrator.py:165-171): results written by       *)
(* earlier tasks, popped by retry, are there when the phase is started.    *)
(***************************************************************************)
PromptHasResults ==
    \A r \in Replicas, k \in Keys : Calling(r, k) =>
        AgentBefore(PolicyOf(k), tasks[r][k].phase) \subseteq tasks[r][k].results

(***************************************************************************)
(* An item reaches "completed", and so its deletion, only after every      *)
(* agent phase has left a result and every manual phase was approved       *)
(* (README.md:66-73, orchestrator.py:121-128, 212-219).                    *)
(***************************************************************************)
CompletedMeansAllRan ==
    \A k \in Rows : items[k].phase = COMPLETED =>
        /\ AgentBefore(PolicyOf(k), COMPLETED) \subseteq items[k].step_results
        /\ ManualBefore(PolicyOf(k), COMPLETED) \subseteq approved[k]

(***************************************************************************)
(* README.md:56 "crash-safe with lock/release": an item that nobody can    *)
(* pick up and that has not failed carries a lock and the mode of the      *)
(* claim, so that either a reviewer or _release_stale will move it.        *)
(***************************************************************************)
NoLimbo ==
    \A k \in Rows : ~items[k].ready /\ items[k].phase # FAILED =>
        items[k].locked_at # NoLock /\ items[k].mode # None

(***************************************************************************)
(* README.md:81: an item that failed on manual denial is excluded from the *)
(* loop.  Once denied it stays failed, and no coroutine works on it.       *)
(***************************************************************************)
DenialIsFinal ==
    \A k \in Rows : items[k].failure_reason = "denied" =>
        /\ items[k].phase = FAILED
        /\ \A r \in Replicas : ~Working(r, k)

(***************************************************************************)
(* README.md:81: failed_from_phase is null for a denial and names a phase  *)
(* of the policy for an error: only an error can be retried.               *)
(***************************************************************************)
DenialIsNotRetriable ==
    \A k \in Rows : items[k].phase = FAILED =>
        IF items[k].failure_reason = "denied"
        THEN items[k].failed_from_phase = None
        ELSE AgentPhase(PolicyOf(k), items[k].failed_from_phase)

(***************************************************************************)
(* A row shown as awaiting review (mode manual, items.py:105, 224) is in a *)
(* manual phase, is not offered to the loop, and no coroutine works on it. *)
(***************************************************************************)
ManualMeansManual ==
    \A k \in Keys : Waiting(k) =>
        /\ get_phase(PolicyOf(k), items[k].phase).mode = MANUAL
        /\ ~items[k].ready
        /\ \A r \in Replicas : ~Working(r, k)

(***************************************************************************)
(* While a coroutine works on an item the row is there, is not offered to  *)
(* anybody and is in the phase the coroutine runs (orchestrator.py:73-128: *)
(* the claim, and the barrier of gather before the next _release_stale).   *)
(***************************************************************************)
WorkerHoldsItem ==
    \A r \in Replicas, k \in Keys : Working(r, k) =>
        /\ Exists(k)
        /\ ~items[k].ready
        /\ items[k].phase = tasks[r][k].phase

(***************************************************************************)
(* The phase of a row goes to the next phase of its policy or to failed,   *)
(* and leaves failed only for the phase that failed.                       *)
(***************************************************************************)
PhaseMovesForward ==
    [][\A k \in Rows : Exists(k)' /\ items'[k].phase # items[k].phase =>
          items'[k].phase \in
              IF items[k].phase = FAILED
              THEN {items[k].failed_from_phase}
              ELSE {FAILED, next_phase(PolicyOf(k), items[k].phase).name}]_vars

(***************************************************************************)
(* README.md:66, 149: the loop removes completed items and a request       *)
(* removes failed ones; a row in any other phase is never removed.         *)
(***************************************************************************)
OnlyFinishedRowsGo ==
    [][\A k \in Rows : ~Exists(k)' => items[k].phase \in {COMPLETED, FAILED}]_vars

(***************************************************************************)
(* README.md:59 "continuously drives items through their workflow": an     *)
(* item in the table ends up removed, failed or before a reviewer, however *)
(* often the process stops (boundedly often) on the way.                   *)
(***************************************************************************)
ItemsComeToRest ==
    \A k \in Keys :
        Exists(k) ~> (~Exists(k) \/ items[k].phase = FAILED \/ Waiting(k))
=============================================================================
