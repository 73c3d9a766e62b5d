----------------------------- MODULE WorkItems ------------------------------
(***************************************************************************)
(* The items table (class WorkItem, app/models/models.py) and what each    *)
(* writer of the program does to one row of it.  Every transaction of the  *)
(* code writes rows one by primary key, so the table is a function from    *)
(* keys to rows.  Columns the program never reads back to decide anything  *)
(* (names, content, timestamps other than locked_at) are left out.         *)
(***************************************************************************)
EXTENDS Policy, Integers

CONSTANTS
    Keys,          \* the primary keys _store_event computes
    EventType,     \* the event type behind each key (part of the hashed text)
    Replicas,      \* the processes of the service that share the table
    StaleTimeout,  \* STALE_TIMEOUT, in ticks of the clock
    NoRow          \* what the table holds for a key without a row

VARIABLE items

ASSUME ItemsAssumption ==
    /\ EventType \in [Keys -> STRING]
    /\ StaleTimeout \in Nat

NoLock == -1                      \* locked_at IS NULL

(* locked_at is kept as the age of the lock.  Only "older than STALE_TIMEOUT" *)
(* is ever asked of it, so the age stops growing just past that bound.      *)
Ages == NoLock..(StaleTimeout + 1)

(* failure_reason is kept by its origin: a reviewer's text or an error.     *)
WorkItem ==
    [phase             : Names,
     ready             : BOOLEAN,
     mode              : {AUTOMATIC, MANUAL, None},
     locked_at         : Ages,
     step_results      : SUBSET Names,
     failure_reason    : {None, "denied", "error"},
     failed_from_phase : Names \cup {None}]

ASSUME NoRowAssumption == NoRow \notin WorkItem

Exists(k) == items[k] # NoRow

PolicyOf(k) == match_policy(EventType[k])

Init == items = [k \in Keys |-> NoRow]
-----------------------------------------------------------------------------
(* The row _store_event inserts; mode and locked_at take their NULL.        *)
Stored(k) ==
    [phase |-> first_phase(PolicyOf(k)).name, ready |-> TRUE, mode |-> None,
     locked_at |-> NoLock, step_results |-> {}, failure_reason |-> None,
     failed_from_phase |-> None]

(* Mutant of Claimed: the claim does not write locked_at.                   *)
ClaimedWithoutLock(row, mode) == [row EXCEPT !.ready = FALSE, !.mode = mode]

(* The values of _run_phase's conditional UPDATE.                           *)
Claimed(row, mode) == [row EXCEPT !.ready = FALSE, !.mode = mode, !.locked_at = 0]

(* Mutant of Advanced: the results column is replaced, not extended.        *)
AdvancedReplacingResults(row, next, done) ==
    [row EXCEPT !.step_results = done, !.phase = next,
                !.ready = TRUE, !.locked_at = NoLock]

(* _run_phase after a successful phase; done is {phase} if it has a result. *)
Advanced(row, next, done) ==
    [row EXCEPT !.step_results = @ \cup done, !.phase = next,
                !.ready = TRUE, !.locked_at = NoLock]

(* _save_failed: mode keeps what the claim wrote.                           *)
Failed(row, from) ==
    [row EXCEPT !.phase = FAILED, !.ready = FALSE, !.locked_at = NoLock,
                !.failure_reason = "error", !.failed_from_phase = from]

(* _release_stale: mode keeps what the claim wrote.                         *)
Released(row) == [row EXCEPT !.ready = TRUE, !.locked_at = NoLock]

(* Mutant of Approved: mode is left behind.                                 *)
ApprovedKeepingMode(row, next) ==
    [row EXCEPT !.phase = next, !.ready = TRUE, !.locked_at = NoLock]

(* The two commands of review_item.                                         *)
Approved(row, next) ==
    [row EXCEPT !.phase = next, !.ready = TRUE, !.mode = None, !.locked_at = NoLock]

(* Mutant of Denied: it records the phase, as for an error.                 *)
DeniedFromPhase(row) ==
    [row EXCEPT !.phase = FAILED, !.ready = FALSE, !.failure_reason = "denied",
                !.failed_from_phase = row.phase, !.mode = None, !.locked_at = NoLock]

Denied(row) ==
    [row EXCEPT !.phase = FAILED, !.ready = FALSE, !.failure_reason = "denied",
                !.failed_from_phase = None, !.mode = None, !.locked_at = NoLock]

(* Mutant of Retried: every result goes, not only that of the phase.        *)
RetriedFromScratch(row) ==
    [row EXCEPT !.step_results = {},
                !.phase = row.failed_from_phase, !.ready = TRUE,
                !.failure_reason = None, !.failed_from_phase = None,
                !.mode = None, !.locked_at = NoLock]

(* The retry of failed_item_action.                                         *)
Retried(row) ==
    [row EXCEPT !.step_results = @ \ {row.failed_from_phase},
                !.phase = row.failed_from_phase, !.ready = TRUE,
                !.failure_reason = None, !.failed_from_phase = None,
                !.mode = None, !.locked_at = NoLock]
-----------------------------------------------------------------------------
(***************************************************************************)
(* SQLAlchemy's unit of work: commit sends UPDATE ... WHERE key = ? with   *)
(* only the columns whose value differs from the one that was loaded.  The *)
(* row may have changed since, and its other columns stay as they are now. *)
(***************************************************************************)
Column(now, loaded, changed) == IF changed # loaded THEN changed ELSE now

Flush(now, old, new) ==
    [phase          |-> Column(now.phase, old.phase, new.phase),
     ready          |-> Column(now.ready, old.ready, new.ready),
     mode           |-> Column(now.mode, old.mode, new.mode),
     locked_at      |-> Column(now.locked_at, old.locked_at, new.locked_at),
     step_results   |-> Column(now.step_results, old.step_results, new.step_results),
     failure_reason |-> Column(now.failure_reason, old.failure_reason,
                               new.failure_reason),
     failed_from_phase |-> Column(now.failed_from_phase, old.failed_from_phase,
                                  new.failed_from_phase)]

(* The same with the result of a phase: its text is new, so the column of   *)
(* the results is written even if the phase had one.                        *)
FlushResult(now, old, new, done) ==
    [Flush(now, old, new) EXCEPT
        !.step_results = IF done = {} THEN @ ELSE new.step_results]

(* The same with a reason of failure, of which the model keeps the origin   *)
(* only: a text that differs is written even if the origin is the same.     *)
FlushReason(now, old, new, differs) ==
    [Flush(now, old, new) EXCEPT
        !.failure_reason = IF differs THEN new.failure_reason ELSE @]

(* One tick of the clock, as the locks see it.                              *)
Older(row) ==
    [row EXCEPT !.locked_at =
        IF @ = NoLock \/ @ > StaleTimeout THEN @ ELSE @ + 1]

AgeLocks ==
    items' = [k \in Keys |-> IF Exists(k) THEN Older(items[k]) ELSE NoRow]
=============================================================================
