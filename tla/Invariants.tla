----------------------------- MODULE Invariants -----------------------------
(***************************************************************************)
(* The inductive invariants behind TypeProofs and SafetyProofs.  They      *)
(* relate what a coroutine, a request or a release has read to the row as  *)
(* it is now: each of them writes later on the strength of what it read.   *)
(***************************************************************************)
EXTENDS Automator

(* What the steps of any number of replicas and clients keep.               *)
TasksTyped ==
    \A r \in Replicas, k \in Keys :
        /\ tasks[r][k].stage # "none" => tasks[r][k].phase \in Names
        /\ tasks[r][k].stage = "saving" => tasks[r][k].loaded \in WorkItem

RequestChecked(req) ==
    /\ req.command = "approve" => next_phase(PolicyOf(req.key), req.loaded.phase) # NoPhase
    /\ req.command = "retry" => req.loaded.failed_from_phase \in Names

RequestsChecked == \A q \in Requests : RequestChecked(requests[q])

(***************************************************************************)
(* Every row is a row, locks and calls stay within their bounds, and what  *)
(* a coroutine or a request goes on with passed the checks of the code: an *)
(* approval has a next phase to go to, a retry a phase to go back to       *)
(* (models.py:122-150, orchestrator.py:67, items.py:112-119, 184-195).     *)
(***************************************************************************)
TypeInv == TypeOK /\ TasksTyped /\ RequestsChecked
-----------------------------------------------------------------------------
(***************************************************************************)
(* From here on: one replica, and no two open requests for one item.       *)
(***************************************************************************)
SingleWriter == /\ \A r1, r2 \in Replicas : r1 = r2
                /\ ~Overlap

(* The row still is what somebody loaded; only its lock may have aged.      *)
Unchanged(row, copy) ==
    /\ copy = [row EXCEPT !.locked_at = copy.locked_at]
    /\ row.locked_at = NoLock <=> copy.locked_at = NoLock

(* All that has to happen before the phase has happened to item k.          *)
Reached(k, phase) ==
    /\ ManualBefore(PolicyOf(k), phase) \subseteq approved[k]
    /\ AgentBefore(PolicyOf(k), phase) \subseteq items[k].step_results

(* A row that failed, by a denial or in an agent phase.                     *)
FailedRow(k) ==
    /\ ~items[k].ready
    /\ items[k].locked_at = NoLock
    /\ items[k].mode # MANUAL
    /\ \/ /\ items[k].failure_reason = "denied"
          /\ items[k].failed_from_phase = None
       \/ /\ items[k].failure_reason = "error"
          /\ items[k].failed_from_phase \in PhaseNames(PolicyOf(k)) \ {COMPLETED}
          /\ AgentPhase(PolicyOf(k), items[k].failed_from_phase)
          /\ Reached(k, items[k].failed_from_phase)

(* A row in a phase of its policy: offered to the loop, or claimed.         *)
WorkflowRow(k) ==
    /\ items[k].phase \in PhaseNames(PolicyOf(k))
    /\ items[k].failure_reason = None
    /\ items[k].failed_from_phase = None
    /\ Reached(k, items[k].phase)
    /\ IF items[k].ready
       THEN items[k].locked_at = NoLock /\ items[k].mode # MANUAL
       ELSE /\ items[k].locked_at # NoLock
            /\ items[k].phase # COMPLETED
            /\ items[k].mode = get_phase(PolicyOf(k), items[k].phase).mode

RowInv(k) ==
    Exists(k) =>
        /\ PolicyOf(k) # NoPolicy
        /\ IF items[k].phase = FAILED THEN FailedRow(k) ELSE WorkflowRow(k)

(* What a coroutine knows of its item: from the SELECT on, from the claim on. *)
TaskInv(r, k) ==
    LET t == tasks[r][k]
    IN  t.stage # "none" =>
        /\ loop[r] = "gather"
        /\ Exists(k)
        /\ items[k].phase = t.phase
        /\ t.phase \notin {COMPLETED, FAILED}
        /\ t.results = items[k].step_results
        /\ items[k].ready <=> t.stage = "created"
        /\ t.stage # "created" => items[k].mode = AUTOMATIC
        /\ t.stage = "calling" => AgentPhase(PolicyOf(k), t.phase)
        /\ t.stage \in {"loading", "saving"} =>
              /\ t.outcome # None
              /\ AgentPhase(PolicyOf(k), t.phase) <=> t.outcome # "skipped"
        /\ t.stage = "saving" => Unchanged(items[k], t.loaded)

(* What an open request knows of its item.                                  *)
RequestInv(q) ==
    LET req == requests[q]
    IN  req # Closed =>
        /\ Exists(req.key)
        /\ Unchanged(items[req.key], req.loaded)
        /\ req.command \in {"approve", "deny"} => items[req.key].mode = MANUAL
        /\ req.command \in {"delete", "retry"} => items[req.key].phase = FAILED
        /\ \A other \in Requests :
              requests[other] # Closed /\ requests[other].key = req.key => other = q

(* What _release_stale has marked is a claim without a coroutine.           *)
StaleInv(r) ==
    /\ stale[r] # {} => loop[r] = "releasing"
    /\ \A k \in stale[r] : /\ Exists(k)
                           /\ ~items[k].ready
                           /\ items[k].phase # FAILED
                           /\ items[k].mode # MANUAL

(***************************************************************************)
(* The inductive invariant of the service with a single writer per item:   *)
(* every row is well formed and every pending write was decided on the row *)
(* as it still is (orchestrator.py:67-128, 225-250, items.py:95-212).      *)
(***************************************************************************)
IInv ==
    /\ \A k \in Keys : RowInv(k)
    /\ \A r \in Replicas, k \in Keys : TaskInv(r, k)
    /\ \A q \in Requests : RequestInv(q)
    /\ \A r \in Replicas : StaleInv(r)
=============================================================================
