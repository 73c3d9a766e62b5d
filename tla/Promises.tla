------------------------------ MODULE Promises ------------------------------
(***************************************************************************)
(* The service as an implementation of Workflow: what a user of the API    *)
(* sees of a row.                                                          *)
(***************************************************************************)
EXTENDS Invariants

StationOf(row) ==
    CASE row.phase = FAILED /\ row.failure_reason = "denied" -> "denied"
      [] row.phase = FAILED /\ row.failure_reason # "denied" -> "failed"
      [] row.phase # FAILED /\ row.ready                     -> "offered"
      [] row.phase # FAILED /\ ~row.ready /\ row.mode = MANUAL -> "review"
      [] OTHER                                               -> "working"

StatusOf(row) ==
    IF row = NoRow
    THEN [at |-> "absent", phase |-> None]
    ELSE [at |-> StationOf(row),
          phase |-> IF row.phase = FAILED THEN row.failed_from_phase ELSE row.phase]

Promised == INSTANCE Workflow WITH status <- [k \in Keys |-> StatusOf(items[k])]

(***************************************************************************)
(* Whatever the loop, the reviewers and the faults do to a row, an item    *)
(* takes only the moves of the workflow the README describes: no review is *)
(* passed without an answer, no phase is left out or entered from          *)
(* elsewhere, nothing but a retry leaves failed (README.md:61-83).         *)
(***************************************************************************)
ItemsFollowWorkflow == Promised!Spec
=============================================================================
