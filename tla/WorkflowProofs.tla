--------------------------- MODULE WorkflowProofs ---------------------------
(***************************************************************************)
(* With a single writer per item the service implements Workflow: every    *)
(* step of every loop, coroutine, request and fault takes each item by one *)
(* move of the workflow, or leaves it where it is.                         *)
(***************************************************************************)
EXTENDS SafetyProofs, Promises

-----------------------------------------------------------------------------
(* Both modules look a policy up in the same way.                           *)
LEMMA SamePolicies ==
    /\ Promised!MANUAL = MANUAL /\ Promised!AUTOMATIC = AUTOMATIC
    /\ Promised!COMPLETED = COMPLETED /\ Promised!None = None
    /\ Promised!NoPolicy = NoPolicy
    /\ \A k : Promised!PolicyOf(k) = PolicyOf(k)
    /\ \A p : Promised!first_phase(p) = first_phase(p)
    /\ \A p, n : /\ Promised!get_phase(p, n) = get_phase(p, n)
                 /\ Promised!next_phase(p, n) = next_phase(p, n)
<1>1. /\ Promised!MANUAL = MANUAL /\ Promised!AUTOMATIC = AUTOMATIC
      /\ Promised!COMPLETED = COMPLETED /\ Promised!None = None
  BY DEF Promised!MANUAL, MANUAL, Promised!AUTOMATIC, AUTOMATIC,
         Promised!COMPLETED, COMPLETED, Promised!None, None
<1>2. Promised!NoPhase = NoPhase /\ Promised!NoPolicy = NoPolicy
  BY <1>1 DEF Promised!NoPhase, NoPhase, Promised!NoPolicy, NoPolicy
<1>3. \A S : Promised!Min(S) = Min(S)
  BY DEF Promised!Min, Min
<1>4. \A p, n : Promised!Positions(p, n) = Positions(p, n)
  BY DEF Promised!Positions, Positions
<1>5. \A k : Promised!PolicyOf(k) = PolicyOf(k)
  BY <1>2, <1>3 DEF Promised!PolicyOf, PolicyOf, Promised!match_policy, match_policy
<1>6. \A p : Promised!first_phase(p) = first_phase(p)
  BY DEF Promised!first_phase, first_phase
<1>7. \A p, n : Promised!get_phase(p, n) = get_phase(p, n)
  BY <1>2, <1>3, <1>4 DEF Promised!get_phase, get_phase
<1>8. \A p, n : Promised!next_phase(p, n) = next_phase(p, n)
  BY <1>2, <1>3, <1>4 DEF Promised!next_phase, next_phase
<1>. QED  BY <1>1, <1>2, <1>5, <1>6, <1>7, <1>8
-----------------------------------------------------------------------------
(***************************************************************************)
(* The moves in terms of rows.  Follows(k): item k takes a move or stays.  *)
(***************************************************************************)
At(station, phase) == [at |-> station, phase |-> phase]

MoveOf(k, from, to) == StatusOf(items[k]) = from /\ StatusOf(items'[k]) = to

Follows(k) == Promised!Step(k) \/ StatusOf(items'[k]) = StatusOf(items[k])

LEMMA StatusFacts ==
    ASSUME NEW row, row # NoRow
    PROVE  /\ row.phase # FAILED /\ row.ready =>
                 StatusOf(row) = At("offered", row.phase)
           /\ row.phase # FAILED /\ ~row.ready /\ row.mode = MANUAL =>
                 StatusOf(row) = At("review", row.phase)
           /\ row.phase # FAILED /\ ~row.ready /\ row.mode # MANUAL =>
                 StatusOf(row) = At("working", row.phase)
           /\ row.phase = FAILED /\ row.failure_reason = "denied" =>
                 StatusOf(row) = At("denied", row.failed_from_phase)
           /\ row.phase = FAILED /\ row.failure_reason # "denied" =>
                 StatusOf(row) = At("failed", row.failed_from_phase)
BY DEF StatusOf, StationOf, At

LEMMA MovesAreSteps ==
    ASSUME NEW k \in Keys, NEW p \in Names \ {COMPLETED},
           \/ MoveOf(k, At("offered", p), At("working", p))
                 /\ get_phase(PolicyOf(k), p).mode = AUTOMATIC
           \/ MoveOf(k, At("offered", p), At("review", p))
                 /\ get_phase(PolicyOf(k), p).mode = MANUAL
           \/ MoveOf(k, At("working", p), At("offered", next_phase(PolicyOf(k), p).name))
           \/ MoveOf(k, At("working", p), At("failed", p))
           \/ MoveOf(k, At("working", p), At("offered", p))
           \/ MoveOf(k, At("review", p), At("offered", next_phase(PolicyOf(k), p).name))
           \/ MoveOf(k, At("review", p), At("denied", None))
           \/ MoveOf(k, At("failed", p), At("offered", p))
    PROVE  Promised!Step(k)
<1>1. \A from, to : MoveOf(k, from, to) => Promised!Move(k, from, to)
  BY DEF MoveOf, Promised!Move
<1>2. \A s, x : Promised!At(s, x) = At(s, x)
  BY DEF Promised!At, At
<1>3. \/ Promised!Begin(k, p) \/ Promised!AskReview(k, p)
      \/ Promised!Advance(k, p) \/ Promised!Fail(k, p) \/ Promised!GiveBack(k, p)
      \/ Promised!Approve(k, p) \/ Promised!Deny(k, p) \/ Promised!Retry(k, p)
  BY <1>1, <1>2, SamePolicies
  DEF Promised!Begin, Promised!AskReview, Promised!Advance, Promised!Fail,
      Promised!GiveBack, Promised!Approve, Promised!Deny, Promised!Retry
<1>. QED  BY <1>3, SamePolicies DEF Promised!Step

(* The moves from and to a key without a row.                               *)
LEMMA RemovesAreSteps ==
    ASSUME NEW k \in Keys, items'[k] = NoRow, items[k] # NoRow,
           \/ items[k].phase = COMPLETED /\ items[k].ready
           \/ items[k].phase = FAILED /\ items[k].failure_reason = "denied"
                 /\ items[k].failed_from_phase = None
           \/ items[k].phase = FAILED /\ items[k].failure_reason # "denied"
                 /\ items[k].failed_from_phase \in Names \ {COMPLETED}
    PROVE  Promised!Step(k)
<1>1. StatusOf(items'[k]) = Promised!Absent
  BY SamePolicies DEF StatusOf, Promised!Absent
<1>2. PICK p \in Names \ {COMPLETED} :
         StatusOf(items[k]) \in {At("offered", COMPLETED), At("denied", None), At("failed", p)}
  <2>1. FAILED \in Names \ {COMPLETED}
    BY NamesAssumption DEF FAILED, COMPLETED
  <2>2. COMPLETED # FAILED
    BY DEF FAILED, COMPLETED
  <2>. QED  BY <2>1, <2>2, StatusFacts
<1>3. \A s, x : Promised!At(s, x) = At(s, x)
  BY DEF Promised!At, At
<1>4. Promised!Remove(k, p)
  BY <1>1, <1>2, <1>3, SamePolicies DEF Promised!Remove, Promised!Move
<1>. QED  BY <1>4, SamePolicies DEF Promised!Step

LEMMA AcceptsAreSteps ==
    ASSUME NEW k \in Keys, PolicyOf(k) # NoPolicy, items[k] = NoRow,
           StatusOf(items'[k]) = At("offered", first_phase(PolicyOf(k)).name)
    PROVE  Promised!Step(k)
<1>1. StatusOf(items[k]) = Promised!Absent
  BY SamePolicies DEF StatusOf, Promised!Absent
<1>. QED
  BY <1>1, SamePolicies
  DEF Promised!Step, Promised!Accept, Promised!Move, Promised!At, At
-----------------------------------------------------------------------------
LEMMA SameRowStays == ASSUME NEW k, items'[k] = items[k] PROVE Follows(k)
BY DEF Follows

(* A row that is offered or worked on: what IInv says of it.                *)
LEMMA WorkedRow ==
    ASSUME TypeInv, IInv, NEW k \in Keys, Exists(k), items[k].phase # FAILED
    PROVE  /\ items[k] \in WorkItem /\ PolicyOf(k) # NoPolicy /\ WorkflowRow(k)
           /\ items[k].phase \in Names
           /\ ~items[k].ready => items[k].phase # COMPLETED
<1>1. items[k] \in WorkItem
  BY DEF TypeInv, TypeOK, Exists
<1>2. PolicyOf(k) # NoPolicy /\ WorkflowRow(k)
  BY DEF IInv, RowInv
<1>. QED  BY <1>1, <1>2 DEF WorkItem, WorkflowRow

LEMMA LoopFollows ==
    ASSUME SingleWriter, TypeInv, IInv, NEW r \in Replicas, NEW k \in Keys, LoopStep(r)
    PROVE  Follows(k)
<1>1. CASE CleanupCompleted(r)
  <2>1. items'[k] = IF Exists(k) /\ items[k].phase = COMPLETED THEN NoRow ELSE items[k]
    BY <1>1 DEF CleanupCompleted
  <2>2. ASSUME Exists(k), items[k].phase = COMPLETED PROVE Promised!Step(k)
    <3>1. items[k].ready
      BY <2>2, WorkedRow DEF FAILED, COMPLETED
    <3>. QED  BY <2>1, <2>2, <3>1, RemovesAreSteps DEF Exists
  <2>. QED  BY <2>1, <2>2, SameRowStays DEF Follows
<1>2. CASE ReleaseCommit(r)
  <2>1. items'[k] = IF k \in stale[r] THEN Released(items[k]) ELSE items[k]
    BY <1>2 DEF ReleaseCommit
  <2>2. ASSUME k \in stale[r] PROVE Promised!Step(k)
    <3>. DEFINE p == items[k].phase
    <3>1. Exists(k) /\ ~items[k].ready /\ p # FAILED /\ items[k].mode # MANUAL
      BY <2>2 DEF IInv, StaleInv
    <3>2. items[k] \in WorkItem /\ p \in Names \ {COMPLETED}
      BY <3>1, WorkedRow
    <3>3. items'[k].phase = p /\ items'[k].ready /\ items'[k] \in WorkItem
      <4>1. Released(items[k]) \in WorkItem
        BY <3>2, WriterTypes
      <4>2. Released(items[k]).phase = p /\ Released(items[k]).ready = TRUE
        BY <3>2 DEF Released, WorkItem
      <4>. QED  BY <2>1, <2>2, <4>1, <4>2
    <3>4. items[k] # NoRow /\ items'[k] # NoRow
      BY <3>2, <3>3, NoRowAssumption
    <3>5. MoveOf(k, At("working", p), At("offered", p))
      BY <3>1, <3>3, <3>4, StatusFacts DEF MoveOf
    <3>. QED  BY <3>2, <3>5, MovesAreSteps
  <2>. QED  BY <2>1, <2>2, SameRowStays DEF Follows
<1>3. CASE UNCHANGED items
  BY <1>3, SameRowStays
<1>. QED
  BY <1>1, <1>2, <1>3
  DEF LoopStep, ReleaseLoad, ReleaseRowGone, SelectReady, GatherDone, UpdateGauges, Wake

LEMMA CoroutineFollows ==
    ASSUME SingleWriter, TypeInv, IInv, NEW r \in Replicas, NEW k \in Keys,
           TaskStep(r, k) \/ TaskDbError(r, k), NEW k2 \in Keys
    PROVE  Follows(k2)
<1>. DEFINE t == tasks[r][k]
            cur == t.phase
            mode == get_phase(PolicyOf(k), cur).mode
<1>1. CASE UNCHANGED items
  BY <1>1, SameRowStays
<1>2. ASSUME t.stage # "none"
      PROVE  /\ items[k] \in WorkItem /\ items[k] # NoRow
             /\ cur \in Names \ {COMPLETED} /\ cur # FAILED /\ items[k].phase = cur
             /\ mode \in {AUTOMATIC, MANUAL}
             /\ next_phase(PolicyOf(k), cur).name \in Names \ {FAILED}
  BY <1>2, TaskRow, TaskPhase DEF Exists
<1>3. CASE ClaimManual(r, k) \/ ClaimAutomatic(r, k)
  <2>1. t.stage = "created" /\ items[k].ready
        /\ items' = [items EXCEPT ![k] = Claimed(@, mode)]
    BY <1>3 DEF ClaimManual, ClaimAutomatic, CanClaim, PhaseOf
  <2>2. items'[k] = Claimed(items[k], mode)
        /\ \A x \in Keys \ {k} : items'[x] = items[x]
    BY <2>1 DEF TypeInv, TypeOK
  <2>3. items'[k].phase = cur /\ ~items'[k].ready /\ items'[k].mode = mode
    <3>1. items[k] \in WorkItem /\ items[k].phase = cur
      BY <1>2, <2>1
    <3>2. /\ Claimed(items[k], mode).phase = items[k].phase
          /\ Claimed(items[k], mode).ready = FALSE
          /\ Claimed(items[k], mode).mode = mode
      BY <3>1 DEF Claimed, WorkItem
    <3>. QED  BY <2>2, <3>1, <3>2
  <2>4. items'[k] # NoRow
    <3>1. items'[k] \in WorkItem
      BY <1>2, <2>1, <2>2, WriterTypes
    <3>. QED  BY <3>1, NoRowAssumption
  <2>5. \/ MoveOf(k, At("offered", cur), At("working", cur)) /\ mode = AUTOMATIC
        \/ MoveOf(k, At("offered", cur), At("review", cur)) /\ mode = MANUAL
    BY <1>2, <2>1, <2>3, <2>4, StatusFacts DEF MoveOf, AUTOMATIC, MANUAL
  <2>6. Promised!Step(k)
    BY <1>2, <2>1, <2>5, MovesAreSteps
  <2>. QED  BY <2>2, <2>6, SameRowStays DEF Follows
<1>4. ASSUME t.stage = "saving"
      PROVE  StatusOf(items[k]) = At("working", cur)
  BY <1>2, <1>4, FreshCopy, StatusFacts DEF AUTOMATIC, MANUAL
<1>5. CASE SaveAdvanced(r, k)
  <2>1. t.stage = "saving"
    BY <1>5 DEF SaveAdvanced
  <2>2. /\ items'[k] # NoRow /\ items'[k].ready
        /\ items'[k].phase = next_phase(PolicyOf(k), cur).name
        /\ \A x \in Keys \ {k} : items'[x] = items[x]
    BY <1>5, AdvanceWrites, NoRowAssumption
  <2>3. MoveOf(k, At("working", cur), At("offered", next_phase(PolicyOf(k), cur).name))
    BY <1>2, <1>4, <2>1, <2>2, StatusFacts DEF MoveOf
  <2>4. Promised!Step(k)
    BY <1>2, <2>1, <2>3, MovesAreSteps
  <2>. QED  BY <2>2, <2>4, SameRowStays DEF Follows
<1>6. CASE SaveFailed(r, k)
  <2>1. t.stage = "saving"
    BY <1>6 DEF SaveFailed
  <2>2. /\ items'[k] # NoRow /\ items'[k].phase = FAILED
        /\ items'[k].failure_reason = "error" /\ items'[k].failed_from_phase = cur
        /\ \A x \in Keys \ {k} : items'[x] = items[x]
    BY <1>6, FailWrites, NoRowAssumption
  <2>3. MoveOf(k, At("working", cur), At("failed", cur))
    BY <1>4, <2>1, <2>2, StatusFacts DEF MoveOf
  <2>4. Promised!Step(k)
    BY <1>2, <2>1, <2>3, MovesAreSteps
  <2>. QED  BY <2>2, <2>4, SameRowStays DEF Follows
<1>. QED
  BY <1>1, <1>3, <1>5, <1>6
  DEF TaskStep, TaskDbError, ClaimMisses, AgentAnswers, AgentFails, AgentReturns, Load,
      SaveRowGone

LEMMA CommitFollows ==
    ASSUME SingleWriter, TypeInv, IInv, NEW q \in Requests, CommitStep(q), NEW k2 \in Keys
    PROVE  Follows(k2)
<1>. DEFINE k   == requests[q].key
            row == requests[q].loaded
            p   == items[k].phase
<1>1. requests[q] # Closed
  BY DEF CommitStep, Approve, Deny, Retry, Delete, RowGone, Commit, Closed, None
<1>2. /\ k \in Keys /\ items[k] \in WorkItem /\ items[k] # NoRow /\ Exists(k)
      /\ row \in WorkItem /\ PolicyOf(k) # NoPolicy /\ Unchanged(items[k], row)
      /\ row.phase = p /\ row.failed_from_phase = items[k].failed_from_phase
  <2>1. /\ k \in Keys /\ items[k] \in WorkItem /\ Exists(k) /\ row \in WorkItem
        /\ PolicyOf(k) # NoPolicy /\ Unchanged(items[k], row)
    BY <1>1, RequestedRow
  <2>. QED  BY <2>1 DEF Unchanged, WorkItem, Exists
<1>3. ASSUME requests[q].command \in {"approve", "deny"}
      PROVE  /\ StatusOf(items[k]) = At("review", p) /\ p \in Names \ {COMPLETED}
             /\ next_phase(PolicyOf(k), p).name \in Names \ {FAILED}
  <2>1. WorkflowRow(k) /\ ~items[k].ready /\ items[k].mode = MANUAL
    BY <1>1, <1>3, RequestedRow
  <2>2. p \in PhaseNames(PolicyOf(k)) /\ p # COMPLETED
    BY <2>1 DEF WorkflowRow
  <2>3. p # FAILED /\ p \in Names /\ next_phase(PolicyOf(k), p).name \in PhaseNames(PolicyOf(k))
    BY <1>2, <2>2, PhaseFacts
  <2>4. next_phase(PolicyOf(k), p).name \in Names \ {FAILED}
    BY <1>2, <2>3, PhaseFacts
  <2>. QED  BY <1>2, <2>1, <2>2, <2>3, <2>4, StatusFacts
<1>4. ASSUME requests[q].command \in {"delete", "retry"}
      PROVE  /\ p = FAILED
             /\ \/ items[k].failure_reason = "denied" /\ items[k].failed_from_phase = None
                \/ /\ items[k].failure_reason = "error"
                   /\ items[k].failed_from_phase \in Names \ {COMPLETED, FAILED}
  <2>1. FailedRow(k) /\ p = FAILED
    BY <1>1, <1>4, RequestedRow
  <2>2. ASSUME items[k].failed_from_phase \in PhaseNames(PolicyOf(k)),
               items[k].failed_from_phase # COMPLETED
        PROVE  items[k].failed_from_phase \in Names \ {COMPLETED, FAILED}
    BY <1>2, <2>2, PhaseFacts
  <2>. QED  BY <2>1, <2>2 DEF FailedRow
<1>5. CASE Approve(q)
  <2>. DEFINE new == Approved(row, next_phase(PolicyOf(k), row.phase).name)
  <2>1. Commit(q, "approve", new) /\ requests[q].command = "approve"
    BY <1>5 DEF Approve, Commit
  <2>2. new \in WorkItem
    BY <1>2, <1>3, <2>1, WriterTypes
  <2>3. new.phase = next_phase(PolicyOf(k), p).name /\ new.ready = TRUE
        /\ new.locked_at = NoLock
    BY <1>2 DEF Approved, WorkItem
  <2>. HIDE DEF new
  <2>4. items'[k] = new /\ \A x \in Keys \ {k} : items'[x] = items[x]
    BY <1>1, <1>2, <2>1, <2>2, <2>3, FreshCopyWritten DEF Commit
  <2>5. MoveOf(k, At("review", p), At("offered", next_phase(PolicyOf(k), p).name))
    BY <1>3, <2>1, <2>2, <2>3, <2>4, StatusFacts, NoRowAssumption DEF MoveOf
  <2>6. Promised!Step(k)
    BY <1>2, <1>3, <2>1, <2>5, MovesAreSteps
  <2>. QED  BY <2>4, <2>6, SameRowStays DEF Follows
<1>6. CASE Deny(q)
  <2>. DEFINE new == Denied(row)
  <2>1. /\ requests[q].command = "deny" /\ SetRequest(q, Closed)
        /\ \E differs : items' = [items EXCEPT ![k] = FlushReason(@, row, new, differs)]
    BY <1>6 DEF Deny
  <2>2. new \in WorkItem
    BY <1>2, WriterTypes
  <2>3. /\ new.phase = FAILED /\ new.locked_at = NoLock
        /\ new.failure_reason = "denied" /\ new.failed_from_phase = None
    BY <1>2 DEF Denied, WorkItem
  <2>. HIDE DEF new
  <2>4. items'[k] = new /\ \A x \in Keys \ {k} : items'[x] = items[x]
    BY <1>1, <1>2, <2>1, <2>2, <2>3, FreshCopyWritten DEF Commit
  <2>5. MoveOf(k, At("review", p), At("denied", None))
    BY <1>3, <2>1, <2>2, <2>3, <2>4, StatusFacts, NoRowAssumption DEF MoveOf
  <2>6. Promised!Step(k)
    BY <1>2, <1>3, <2>1, <2>5, MovesAreSteps
  <2>. QED  BY <2>4, <2>6, SameRowStays DEF Follows
<1>7. CASE Retry(q)
  <2>. DEFINE from == row.failed_from_phase
              new  == Retried(row)
  <2>1. Commit(q, "retry", new) /\ requests[q].command = "retry"
    BY <1>7 DEF Retry, Commit
  <2>2. from \in Names
    BY <1>1, <2>1 DEF TypeInv, RequestsChecked, RequestChecked
  <2>3. new \in WorkItem
    BY <1>2, <2>2, WriterTypes
  <2>4. new.phase = from /\ new.ready = TRUE /\ new.locked_at = NoLock
    BY <1>2 DEF Retried, WorkItem
  <2>. HIDE DEF new
  <2>5. items'[k] = new /\ \A x \in Keys \ {k} : items'[x] = items[x]
    BY <1>1, <1>2, <2>1, <2>3, <2>4, FreshCopyWritten DEF Commit
  <2>6. /\ p = FAILED /\ items[k].failure_reason # "denied"
        /\ from = items[k].failed_from_phase /\ from \in Names \ {COMPLETED, FAILED}
    BY <1>2, <1>4, <2>1, <2>2, NamesAssumption
  <2>7. MoveOf(k, At("failed", from), At("offered", from))
    BY <1>2, <2>3, <2>4, <2>5, <2>6, StatusFacts, NoRowAssumption DEF MoveOf
  <2>8. Promised!Step(k)
    BY <1>2, <2>6, <2>7, MovesAreSteps
  <2>. QED  BY <2>5, <2>8, SameRowStays DEF Follows
<1>8. CASE Delete(q)
  <2>1. requests[q].command = "delete" /\ items'[k] = NoRow
        /\ \A x \in Keys \ {k} : items'[x] = items[x]
    BY <1>2, <1>8 DEF Delete, TypeInv, TypeOK
  <2>2. Promised!Step(k)
    BY <1>2, <1>4, <2>1, RemovesAreSteps
  <2>. QED  BY <2>1, <2>2, SameRowStays DEF Follows
<1>9. CASE RowGone(q)
  BY <1>9, SameRowStays DEF RowGone
<1>. QED  BY <1>5, <1>6, <1>7, <1>8, <1>9 DEF CommitStep

LEMMA IngestFollows ==
    ASSUME TypeInv, NEW k \in Keys, ReceiveEvent(k), NEW k2 \in Keys
    PROVE  Follows(k2)
<1>1. PolicyOf(k) # NoPolicy /\ items[k] = NoRow /\ items'[k] = Stored(k)
      /\ \A x \in Keys \ {k} : items'[x] = items[x]
  BY DEF ReceiveEvent, Exists, TypeInv, TypeOK
<1>2. Stored(k) # NoRow
  BY <1>1, StoredType, NoRowAssumption
<1>3. first_phase(PolicyOf(k)).name # FAILED
  <2>1. ValidPolicy(PolicyOf(k)) /\ FAILED \notin PhaseNames(PolicyOf(k))
    BY <1>1, MatchPolicy DEF PolicyOf
  <2>. QED  BY <2>1, BeforeFirstPhase
<1>4. StatusOf(items'[k]) = At("offered", first_phase(PolicyOf(k)).name)
  BY <1>1, <1>2, <1>3, StatusFacts DEF Stored
<1>5. Promised!Step(k)
  BY <1>1, <1>4, AcceptsAreSteps
<1>. QED  BY <1>1, <1>5, SameRowStays DEF Follows

LEMMA TickFollows ==
    ASSUME TypeInv, Tick, NEW k \in Keys
    PROVE  Follows(k)
<1>1. items'[k] = IF Exists(k) THEN Older(items[k]) ELSE NoRow
  BY DEF Tick, AgeLocks
<1>2. ASSUME Exists(k) PROVE StatusOf(Older(items[k])) = StatusOf(items[k])
  <2>1. items[k] \in WorkItem
    BY <1>2 DEF TypeInv, TypeOK, Exists
  <2>2. Older(items[k]) # NoRow /\ items[k] # NoRow
    BY <2>1, OlderRow, NoRowAssumption
  <2>. QED  BY <2>1, <2>2, OlderRow DEF StatusOf, StationOf
<1>. QED  BY <1>1, <1>2 DEF Follows, Exists

(* Every step of the service.                                               *)
LEMMA StepFollows ==
    ASSUME SingleWriter, TypeInv, IInv, [Next]_vars, NEW k \in Keys
    PROVE  Follows(k)
<1>1. ASSUME UNCHANGED items PROVE Follows(k)
  BY <1>1, SameRowStays
<1>2. ASSUME NEW r \in Replicas, Loop(r) PROVE Follows(k)
  BY <1>2, LoopFollows DEF Loop
<1>3. ASSUME NEW r \in Replicas, NEW k2 \in Keys, Run(r, k2) \/ TaskError(r, k2)
      PROVE  Follows(k)
  BY <1>3, CoroutineFollows DEF Run, TaskError
<1>4. ASSUME NEW r \in Replicas, NEW k2 \in Keys, Ingest(r, k2) PROVE Follows(k)
  BY <1>4, IngestFollows DEF Ingest
<1>5. ASSUME NEW q \in Requests, CloseRequest(q) PROVE Follows(k)
  BY <1>5, CommitFollows DEF CloseRequest
<1>6. CASE Time
  BY <1>6, TickFollows DEF Time
<1>7. ASSUME NEW r \in Replicas, Boot(r) \/ Crash(r) \/ LoopError(r) PROVE Follows(k)
  BY <1>1, <1>7 DEF Boot, Start, Crash, Stop, LoopError, CycleFails
<1>8. ASSUME NEW r \in Replicas, NEW q \in Requests, NEW k2 \in Keys,
             NEW command \in Clients, OpenRequest(r, q, k2, command)
      PROVE  Follows(k)
  BY <1>1, <1>8 DEF OpenRequest, LoadStep, ReviewLoad, DeleteLoad, RetryLoad, Open
<1>. QED
  BY <1>1, <1>2, <1>3, <1>4, <1>5, <1>6, <1>7, <1>8 DEF Next, vars
-----------------------------------------------------------------------------
LEMMA StatusType ==
    ASSUME NEW row \in WorkItem \cup {NoRow}
    PROVE  StatusOf(row) \in Promised!Status
BY SamePolicies DEF StatusOf, StationOf, WorkItem, Promised!Status, Promised!Stations

(***************************************************************************)
(* The service implements the workflow the README describes: for any       *)
(* items, policies, faults and clients, as long as no two requests for one *)
(* item overlap and one replica runs (README.md:61-83).                    *)
(***************************************************************************)
THEOREM ImplementsWorkflow ==
    ASSUME SingleWriter
    PROVE  Spec => ItemsFollowWorkflow
<1>1. ServiceInit => Promised!Init
  BY SamePolicies DEF ServiceInit, Init, Promised!Init, Promised!Absent, StatusOf
<1>2. ASSUME TypeInv, IInv, TypeInv', [Next]_vars
      PROVE  Promised!Next
  <2>1. \A k \in Keys : StatusOf(items'[k]) \in Promised!Status
    BY <1>2, StatusType DEF TypeInv, TypeOK
  <2>2. \A k \in Keys : Follows(k)
    BY <1>2, StepFollows
  <2>. QED  BY <2>1, <2>2 DEF Promised!Next, Follows
<1>3. TypeInv /\ IInv /\ TypeInv' /\ [Next]_vars
         => [Promised!Next]_([k \in Keys |-> StatusOf(items[k])])
  BY <1>2
<1>. QED  BY <1>1, <1>3, Inductive, PTL DEF Spec, ItemsFollowWorkflow, Promised!Spec
-----------------------------------------------------------------------------
(* What a status tells of the row behind it.                                *)
LEMMA RowOfStatus ==
    ASSUME NEW row
    PROVE  /\ row = NoRow <=> StatusOf(row).at = "absent"
           /\ StatusOf(row).at \in {"offered", "working", "review"} =>
                 row.phase = StatusOf(row).phase
           /\ StatusOf(row).at \in {"failed", "denied"} =>
                 row.phase = FAILED /\ row.failed_from_phase = StatusOf(row).phase
           /\ row # NoRow /\ row.phase = FAILED =>
                 StatusOf(row).at \in {"failed", "denied"}
<1>1. CASE row = NoRow
  BY <1>1 DEF StatusOf
<1>2. CASE row # NoRow
  BY <1>2, StatusFacts DEF At
<1>. QED  BY <1>1, <1>2

(* The moves of an item that is there, as moves of its row.                 *)
LEMMA MovesOfRow ==
    ASSUME NEW k \in Keys, Exists(k), Follows(k)
    PROVE  /\ ~Exists(k)' => items[k].phase \in {COMPLETED, FAILED}
           /\ Exists(k)' /\ items'[k].phase # items[k].phase =>
                 items'[k].phase \in
                    IF items[k].phase = FAILED
                    THEN {items[k].failed_from_phase}
                    ELSE {FAILED, next_phase(PolicyOf(k), items[k].phase).name}
<1>. DEFINE old == StatusOf(items[k])
            new == StatusOf(items'[k])
<1>1. old.at # "absent" /\ (Exists(k)' <=> new.at # "absent")
  BY RowOfStatus DEF Exists
<1>2. CASE new = old
  <2>1. Exists(k)'
    BY <1>1, <1>2
  <2>2. old.at \in {"offered", "working", "review", "failed", "denied"}
    BY <1>1 DEF StatusOf, StationOf
  <2>. QED  BY <1>2, <2>1, <2>2, RowOfStatus
<1>3. CASE Promised!Step(k)
  <2>1. \A from, to : Promised!Move(k, from, to) => old = from /\ new = to
    BY DEF Promised!Move
  <2>2. \A s, x : Promised!At(s, x) = At(s, x)
    BY DEF Promised!At, At
  <2>3. ~Promised!Accept(k)
    BY <1>1, <2>1 DEF Promised!Accept, Promised!Absent
  <2>4. PICK p \in Names :
           \/ old = At("offered", p) /\ new \in {At("working", p), At("review", p)}
           \/ old \in {At("working", p), At("review", p)}
                 /\ new = At("offered", next_phase(PolicyOf(k), p).name)
           \/ old = At("working", p) /\ new \in {At("failed", p), At("offered", p)}
           \/ old = At("review", p) /\ new = At("denied", None)
           \/ old = At("failed", p) /\ new = At("offered", p)
           \/ old \in {At("offered", COMPLETED), At("failed", p), At("denied", None)}
                 /\ new = Promised!Absent
    BY <1>3, <2>1, <2>2, <2>3, SamePolicies
    DEF Promised!Step, Promised!Begin, Promised!AskReview, Promised!Advance,
        Promised!Fail, Promised!GiveBack, Promised!Approve, Promised!Deny,
        Promised!Retry, Promised!Remove
  <2>. DEFINE row  == items[k]
              row2 == items'[k]
              next == next_phase(PolicyOf(k), p).name
  <2>5. \/ /\ old.at = "offered" /\ old.phase = p
           /\ new.at \in {"working", "review"} /\ new.phase = p
        \/ /\ old.at \in {"working", "review"} /\ old.phase = p
           /\ new.at = "offered" /\ new.phase \in {p, next}
        \/ /\ old.at \in {"working", "review"} /\ old.phase = p
           /\ new.at \in {"failed", "denied"}
        \/ /\ old.at = "failed" /\ old.phase = p
           /\ new.at = "offered" /\ new.phase = p
        \/ /\ \/ old.at = "offered" /\ old.phase = COMPLETED
              \/ old.at \in {"failed", "denied"}
           /\ new.at = "absent"
    BY <2>4 DEF At, Promised!Absent
  <2>6. /\ old.at \in {"offered", "working", "review"} => row.phase = old.phase
        /\ old.at \in {"failed", "denied"} =>
              row.phase = FAILED /\ row.failed_from_phase = old.phase
        /\ new.at \in {"offered", "working", "review"} => row2.phase = new.phase
        /\ new.at \in {"failed", "denied"} => row2.phase = FAILED
        /\ row.phase = FAILED => old.at \in {"failed", "denied"}
    BY RowOfStatus DEF Exists
  <2>. HIDE DEF old, new, row, row2, next
  <2>7. /\ new.at = "absent" => row.phase \in {COMPLETED, FAILED}
        /\ new.at # "absent" /\ row2.phase # row.phase =>
              \/ old.at = "failed" /\ row.phase = FAILED /\ row2.phase = row.failed_from_phase
              \/ old.at # "failed" /\ row.phase = p /\ row2.phase \in {FAILED, next}
    BY <2>5, <2>6
  <2>8. new.at # "absent" /\ row2.phase # row.phase =>
           row2.phase \in IF row.phase = FAILED THEN {row.failed_from_phase} ELSE {FAILED, next}
    <3>1. CASE row.phase = FAILED
      BY <2>5, <2>6, <2>7, <3>1
    <3>2. CASE row.phase # FAILED
      BY <2>7, <3>2
    <3>. QED  BY <3>1, <3>2
  <2>9. row.phase # FAILED => row.phase = p \/ new.at = "absent" \/ row2.phase = row.phase
    BY <2>7
  <2>. QED  BY <1>1, <2>7, <2>8, <2>9 DEF old, new, row, row2, next
<1>. QED  BY <1>2, <1>3 DEF Follows

(***************************************************************************)
(* For the same services: the phase of a row goes to the next phase of its *)
(* policy or to failed, and leaves failed only for the phase that failed   *)
(* (orchestrator.py:106-127, items.py:122-135, 196-204).                   *)
(***************************************************************************)
THEOREM PhasesAdvance ==
    ASSUME SingleWriter
    PROVE  Spec => PhaseMovesForward
<1>. DEFINE Forward ==
        \A k \in Rows : Exists(k)' /\ items'[k].phase # items[k].phase =>
          items'[k].phase \in
              IF items[k].phase = FAILED
              THEN {items[k].failed_from_phase}
              ELSE {FAILED, next_phase(PolicyOf(k), items[k].phase).name}
<1>1. ASSUME TypeInv, IInv, [Next]_vars PROVE [Forward]_vars
  BY <1>1, StepFollows, MovesOfRow DEF Rows
<1>2. TypeInv /\ IInv /\ [Next]_vars => [Forward]_vars
  BY <1>1
<1>. QED  BY <1>2, Inductive, PTL DEF Spec, PhaseMovesForward

(***************************************************************************)
(* If moreover the names of a policy's phases differ, a step takes an item *)
(* from the i-th phase of its policy to the next one of the list, or to    *)
(* failed: none is skipped and none comes twice, except that a retry goes  *)
(* back to the phase that failed (README.md:63-81, orchestrator.py:106-127). *)
(***************************************************************************)
THEOREM PhasesComeInOrder ==
    ASSUME SingleWriter, \A k \in Keys : DistinctNames(PolicyOf(k))
    PROVE  Spec => [][\A k \in Rows : \A i \in DOMAIN PolicyOf(k).phases :
                        /\ Exists(k)'
                        /\ items[k].phase = PolicyOf(k).phases[i].name
                        /\ items'[k].phase # items[k].phase
                        => \/ items'[k].phase = FAILED
                           \/ /\ i + 1 \in DOMAIN PolicyOf(k).phases
                              /\ items'[k].phase = PolicyOf(k).phases[i + 1].name]_vars
<1>. DEFINE InOrder ==
        \A k \in Rows : \A i \in DOMAIN PolicyOf(k).phases :
            /\ Exists(k)'
            /\ items[k].phase = PolicyOf(k).phases[i].name
            /\ items'[k].phase # items[k].phase
            => \/ items'[k].phase = FAILED
               \/ /\ i + 1 \in DOMAIN PolicyOf(k).phases
                  /\ items'[k].phase = PolicyOf(k).phases[i + 1].name
<1>1. ASSUME TypeInv, IInv, [Next]_vars PROVE InOrder
  <2>. SUFFICES ASSUME NEW k \in Rows, NEW i \in DOMAIN PolicyOf(k).phases,
                       Exists(k)', items[k].phase = PolicyOf(k).phases[i].name,
                       items'[k].phase # items[k].phase, items'[k].phase # FAILED
                PROVE  /\ i + 1 \in DOMAIN PolicyOf(k).phases
                       /\ items'[k].phase = PolicyOf(k).phases[i + 1].name
    OBVIOUS
  <2>. DEFINE p == PolicyOf(k)
  <2>1. k \in Keys /\ Exists(k) /\ p # NoPolicy
    BY <1>1 DEF Rows, IInv, RowInv
  <2>2. ValidPolicy(p) /\ FAILED \notin PhaseNames(p)
    BY <2>1, MatchPolicy DEF PolicyOf
  <2>3. items[k].phase # FAILED
    BY <2>2 DEF PhaseNames
  <2>4. items'[k].phase = next_phase(p, p.phases[i].name).name
    BY <1>1, <2>1, <2>3, StepFollows, MovesOfRow
  <2>5. items'[k].phase \in Names
    <3>1. items'[k] \in WorkItem
      BY <1>1, <2>1, TypeInvStep DEF TypeInv, TypeOK, Exists
    <3>. QED  BY <3>1 DEF WorkItem
  <2>6. i # Len(p.phases)
    <3>1. ASSUME i = Len(p.phases) PROVE next_phase(p, p.phases[i].name) = NoPhase
      BY <2>1, <2>2, <3>1, DistinctPhasesRunInOrder
    <3>. QED  BY <2>4, <2>5, <3>1, NamesAssumption DEF NoPhase
  <2>7. i < Len(p.phases) /\ i + 1 \in DOMAIN p.phases
    BY <2>2, <2>6, PositionsAreIndices DEF ValidPolicy
  <2>. QED  BY <2>1, <2>2, <2>4, <2>7, DistinctPhasesRunInOrder
<1>2. TypeInv /\ IInv /\ [Next]_vars => [InOrder]_vars
  BY <1>1
<1>. QED  BY <1>2, Inductive, PTL DEF Spec

(***************************************************************************)
(* For the same services: only a completed or a failed item is removed     *)
(* (orchestrator.py:212-219, items.py:172-176).                            *)
(***************************************************************************)
THEOREM OnlyFinishedItemsGo ==
    ASSUME SingleWriter
    PROVE  Spec => OnlyFinishedRowsGo
<1>. DEFINE Finished ==
        \A k \in Rows : ~Exists(k)' => items[k].phase \in {COMPLETED, FAILED}
<1>1. ASSUME TypeInv, IInv, [Next]_vars PROVE [Finished]_vars
  BY <1>1, StepFollows, MovesOfRow DEF Rows
<1>2. TypeInv /\ IInv /\ [Next]_vars => [Finished]_vars
  BY <1>1
<1>. QED  BY <1>2, Inductive, PTL DEF Spec, OnlyFinishedRowsGo
=============================================================================
