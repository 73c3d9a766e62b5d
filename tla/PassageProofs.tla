---------------------------- MODULE PassageProofs ---------------------------
(***************************************************************************)
(* What holds of the order of phases without any assumption on replicas,   *)
(* clients or time.  No copy of a row is fresh here and no claim exclusive: *)
(* the invariant speaks of every column by itself, and only of what has    *)
(* happened, which no late write can undo.                                 *)
(***************************************************************************)
EXTENDS Passage, TypeProofs

-----------------------------------------------------------------------------
(* Earned and Sound of the next state, of a phase or a row of this one.     *)
EarnedNext(k, phase) ==
    /\ ManualBefore(PolicyOf(k), phase) \subseteq granted'[k]
    /\ AgentBefore(PolicyOf(k), phase) \subseteq granted'[k] \cup answered'[k]

SoundNext(k, phase) == phase \in {None, FAILED} \/ EarnedNext(k, phase)

SoundRowNext(k, row) == SoundNext(k, row.phase) /\ SoundNext(k, row.failed_from_phase)

SoundTaskNext(k, t) ==
    t.stage # "none" =>
        /\ EarnedNext(k, t.phase)
        /\ t.stage # "created" => get_phase(PolicyOf(k), t.phase).mode # MANUAL
        /\ t.stage \in {"loading", "saving"} /\ AgentPhase(PolicyOf(k), t.phase) =>
              t.outcome = "error" \/ t.phase \in answered'[k]
        /\ t.stage = "saving" => SoundRowNext(k, t.loaded)

(* What was earned stays earned.                                            *)
LEMMA PastStays ==
    ASSUME Recorded, NEW k \in Keys
    PROVE  /\ \A n : Earned(k, n) => EarnedNext(k, n)
           /\ \A row : SoundRow(k, row) => SoundRowNext(k, row)
           /\ \A t : SoundTask(k, t) => SoundTaskNext(k, t)
<1>1. granted[k] \subseteq granted'[k] /\ answered[k] \subseteq answered'[k]
  BY DEF Recorded
<1>2. \A n : Earned(k, n) => EarnedNext(k, n)
  BY <1>1 DEF Earned, EarnedNext
<1>3. \A row : SoundRow(k, row) => SoundRowNext(k, row)
  BY <1>2 DEF SoundRow, SoundRowNext, Sound, SoundNext
<1>. QED  BY <1>1, <1>2, <1>3 DEF SoundTask, SoundTaskNext

(* A phase is earned once the one before it is, and was passed.             *)
LEMMA NextIsEarned ==
    ASSUME NEW k, NEW n, next_phase(PolicyOf(k), n) # NoPhase, EarnedNext(k, n),
           get_phase(PolicyOf(k), n).mode = MANUAL => n \in granted'[k],
           AgentPhase(PolicyOf(k), n) => n \in granted'[k] \cup answered'[k]
    PROVE  EarnedNext(k, next_phase(PolicyOf(k), n).name)
BY NextAsks DEF EarnedNext

(* The columns a writer changes are sound, those it leaves alone were.      *)
LEMMA SoundWriters ==
    ASSUME NEW k, NEW row \in WorkItem, SoundRowNext(k, row)
    PROVE  /\ \A m : SoundRowNext(k, Claimed(row, m))
           /\ \A n, done : SoundNext(k, n) => SoundRowNext(k, Advanced(row, n, done))
           /\ \A n : SoundNext(k, n) => SoundRowNext(k, Failed(row, n))
           /\ SoundRowNext(k, Released(row))
           /\ \A n : SoundNext(k, n) => SoundRowNext(k, Approved(row, n))
           /\ SoundRowNext(k, Denied(row))
           /\ SoundRowNext(k, Retried(row))
           /\ SoundRowNext(k, Older(row))
<1>1. SoundNext(k, None) /\ SoundNext(k, FAILED)
  BY DEF SoundNext
<1>. HIDE DEF SoundNext
<1>. QED
  BY <1>1
  DEF SoundRowNext, WorkItem, Claimed, Advanced, Failed, Released, Approved, Denied,
      Retried, Older

LEMMA SoundFlush ==
    ASSUME NEW k, NEW now, NEW old, NEW new, SoundRowNext(k, now), SoundRowNext(k, new)
    PROVE  /\ SoundRowNext(k, Flush(now, old, new))
           /\ \A done : SoundRowNext(k, FlushResult(now, old, new, done))
           /\ \A differs : SoundRowNext(k, FlushReason(now, old, new, differs))
BY DEF SoundRowNext, Flush, FlushResult, FlushReason, Column
-----------------------------------------------------------------------------
(* The parts of the invariant in the next state.                            *)
RowsNext == \A k \in Keys : items'[k] # NoRow => SoundRowNext(k, items'[k])

TasksNext == \A r \in Replicas, k \in Keys : SoundTaskNext(k, tasks'[r][k])

RequestsNext ==
    \A q \in Requests :
        requests'[q] # Closed => SoundRowNext(requests'[q].key, requests'[q].loaded)

LEMMA PartsMakePassageInv ==
    ASSUME RowsNext, TasksNext, RequestsNext
    PROVE  PassageInv'
BY DEF RowsNext, TasksNext, RequestsNext, PassageInv, Rows, Exists, SoundRow, SoundRowNext,
       Sound, SoundNext, Earned, EarnedNext, SoundTask, SoundTaskNext

(* What a step leaves alone, or writes to one item, coroutine or request.   *)
LEMMA Untouched ==
    ASSUME TypeInv, PassageInv, Recorded
    PROVE  /\ \A k \in Keys : Exists(k) => SoundRowNext(k, items[k])
           /\ \A r \in Replicas, k \in Keys : SoundTaskNext(k, tasks[r][k])
           /\ \A q \in Requests : requests[q] # Closed =>
                 SoundRowNext(requests[q].key, requests[q].loaded)
           /\ items' = items => RowsNext
           /\ tasks' = tasks => TasksNext
           /\ requests' = requests => RequestsNext
<1>1. \A k \in Keys : Exists(k) => SoundRowNext(k, items[k])
  BY PastStays DEF PassageInv, Rows
<1>2. \A r \in Replicas, k \in Keys : SoundTaskNext(k, tasks[r][k])
  BY PastStays DEF PassageInv
<1>3. ASSUME NEW q \in Requests, requests[q] # Closed
      PROVE  SoundRowNext(requests[q].key, requests[q].loaded)
  <2>1. requests[q].key \in Keys
    BY <1>3 DEF TypeInv, TypeOK, Request
  <2>. QED  BY <1>3, <2>1, PastStays DEF PassageInv
<1>. QED  BY <1>1, <1>2, <1>3 DEF RowsNext, TasksNext, RequestsNext, Exists

LEMMA RowWritten ==
    ASSUME TypeInv, PassageInv, Recorded, NEW k \in Keys, NEW row,
           items' = [items EXCEPT ![k] = row], row = NoRow \/ SoundRowNext(k, row)
    PROVE  RowsNext
BY Untouched DEF RowsNext, Exists, TypeInv, TypeOK

LEMMA TaskWritten ==
    ASSUME TypeInv, PassageInv, Recorded, NEW r \in Replicas, NEW k \in Keys, NEW t,
           SetTask(r, k, t), SoundTaskNext(k, t)
    PROVE  TasksNext
<1>1. \A r2 \in Replicas, k2 \in Keys :
         tasks'[r2][k2] = IF r2 = r /\ k2 = k THEN t ELSE tasks[r2][k2]
  BY DEF SetTask, TypeInv, TypeOK
<1>. QED  BY <1>1, Untouched DEF TasksNext

LEMMA NoTaskIsSound == \A k : SoundTaskNext(k, NoTask)
BY DEF SoundTaskNext, NoTask

LEMMA RequestWritten ==
    ASSUME TypeInv, PassageInv, Recorded, NEW q \in Requests, NEW req, SetRequest(q, req),
           req # Closed => SoundRowNext(req.key, req.loaded)
    PROVE  RequestsNext
BY Untouched DEF RequestsNext, SetRequest, TypeInv, TypeOK
-----------------------------------------------------------------------------
(* No policy goes on from "failed".                                         *)
LEMMA NothingAfterFailed == \A k : next_phase(PolicyOf(k), FAILED) = NoPhase
<1>. SUFFICES ASSUME NEW k PROVE next_phase(PolicyOf(k), FAILED) = NoPhase
  OBVIOUS
<1>1. FAILED \notin PhaseNames(PolicyOf(k))
  <2>1. CASE PolicyOf(k) = NoPolicy
    BY <2>1 DEF NoPolicy, PhaseNames
  <2>2. CASE PolicyOf(k) # NoPolicy
    BY <2>2, MatchPolicy DEF PolicyOf
  <2>. QED  BY <2>1, <2>2
<1>2. Positions(PolicyOf(k), FAILED) = {}
  BY <1>1 DEF Positions, PhaseNames
<1>. QED  BY <1>2, Lookups, NextPhaseInPolicy

(* The steps of run_loop write no phase and create tasks from sound rows.   *)
LEMMA LoopPassage ==
    ASSUME TypeInv, PassageInv, Recorded, NEW r \in Replicas, LoopStep(r)
    PROVE  RowsNext /\ TasksNext
<1>1. CASE CleanupCompleted(r)
  <2>1. \A k \in Keys : items'[k] = NoRow \/ items'[k] = items[k]
    BY <1>1 DEF CleanupCompleted
  <2>. QED  BY <1>1, <2>1, Untouched DEF CleanupCompleted, RowsNext, Exists
<1>2. CASE ReleaseCommit(r)
  <2>1. ASSUME NEW k \in Keys, items'[k] # NoRow
        PROVE  SoundRowNext(k, items'[k])
    <3>1. CASE k \in stale[r]
      <4>1. Exists(k) /\ items'[k] = Released(items[k])
        BY <1>2, <3>1 DEF ReleaseCommit
      <4>2. items[k] \in WorkItem
        BY <4>1 DEF Exists, TypeInv, TypeOK
      <4>. QED  BY <4>1, <4>2, Untouched, SoundWriters
    <3>2. CASE k \notin stale[r]
      <4>1. items'[k] = items[k]
        BY <1>2, <3>2 DEF ReleaseCommit
      <4>. QED  BY <2>1, <4>1, Untouched DEF Exists
    <3>. QED  BY <3>1, <3>2
  <2>. QED  BY <1>2, <2>1, Untouched DEF ReleaseCommit, RowsNext
<1>3. CASE SelectReady(r)
  <2>. DEFINE new(k) == IF Selectable(k)
                        THEN [NoTask EXCEPT !.stage = "created",
                                            !.phase = items[k].phase,
                                            !.results = items[k].step_results]
                        ELSE NoTask
  <2>1. ASSUME NEW k \in Keys
        PROVE  SoundTaskNext(k, new(k))
    <3>1. CASE Selectable(k)
      <4>1. items[k].phase # FAILED /\ items[k] \in WorkItem /\ Exists(k)
        BY <3>1 DEF Selectable, Exists, TypeInv, TypeOK
      <4>2. items[k].phase # None
        BY <4>1, NamesAssumption DEF WorkItem
      <4>3. EarnedNext(k, items[k].phase)
        BY <4>1, <4>2, Untouched DEF SoundRowNext, SoundNext
      <4>4. new(k).stage = "created" /\ new(k).phase = items[k].phase
        BY <3>1 DEF NoTask
      <4>. HIDE DEF new
      <4>. QED  BY <4>3, <4>4 DEF SoundTaskNext
    <3>2. CASE ~Selectable(k)
      BY <3>2, NoTaskIsSound
    <3>. QED  BY <3>1, <3>2
  <2>2. tasks' = [tasks EXCEPT ![r] = [k \in Keys |-> new(k)]] /\ items' = items
    BY <1>3 DEF SelectReady
  <2>. HIDE DEF new
  <2>3. \A r2 \in Replicas, k \in Keys :
           tasks'[r2][k] = IF r2 = r THEN new(k) ELSE tasks[r2][k]
    BY <2>2 DEF TypeInv, TypeOK
  <2>. QED  BY <2>1, <2>2, <2>3, Untouched DEF TasksNext
<1>4. CASE ReleaseLoad(r) \/ ReleaseRowGone(r) \/ GatherDone(r) \/ UpdateGauges(r) \/ Wake(r)
  BY <1>4, Untouched DEF ReleaseLoad, ReleaseRowGone, GatherDone, UpdateGauges, Wake
<1>. QED  BY <1>1, <1>2, <1>3, <1>4 DEF LoopStep

(* The claims: a manual phase ends its coroutine here.                      *)
LEMMA ClaimPassage ==
    ASSUME TypeInv, PassageInv, Recorded, NEW r \in Replicas, NEW k \in Keys,
           ClaimManual(r, k) \/ ClaimAutomatic(r, k)
    PROVE  RowsNext /\ TasksNext
<1>. DEFINE t == tasks[r][k]
<1>1. Exists(k) /\ items[k] \in WorkItem
  BY DEF ClaimManual, ClaimAutomatic, CanClaim, Exists, TypeInv, TypeOK
<1>2. RowsNext
  <2>1. \A m : SoundRowNext(k, Claimed(items[k], m))
    BY <1>1, Untouched, SoundWriters
  <2>. QED  BY <2>1, RowWritten DEF ClaimManual, ClaimAutomatic
<1>3. CASE ClaimManual(r, k)
  BY <1>2, <1>3, NoTaskIsSound, TaskWritten DEF ClaimManual
<1>4. CASE ClaimAutomatic(r, k)
  <2>. DEFINE n == IF PhaseOf(r, k).operation
                   THEN [t EXCEPT !.stage = "calling"]
                   ELSE [t EXCEPT !.stage = "loading", !.outcome = "skipped"]
  <2>1. t.stage = "created" /\ PhaseOf(r, k).mode # MANUAL /\ SetTask(r, k, n)
    BY <1>4 DEF ClaimAutomatic
  <2>2. t \in Task
    BY DEF TypeInv, TypeOK
  <2>3. EarnedNext(k, t.phase)
    BY <2>1, Untouched DEF SoundTaskNext
  <2>4. n.phase = t.phase /\ n.stage \in {"calling", "loading"}
        /\ (n.stage = "loading" => ~PhaseOf(r, k).operation)
    BY <2>2 DEF Task
  <2>. HIDE DEF n
  <2>5. SoundTaskNext(k, n)
    BY <2>1, <2>3, <2>4 DEF SoundTaskNext, PhaseOf, AgentPhase
  <2>. QED  BY <1>2, <2>1, <2>5, TaskWritten
<1>. QED  BY <1>3, <1>4

(* The end of a call: a result is remembered for ever.                      *)
LEMMA AnswerPassage ==
    ASSUME TypeInv, PassageInv, Recorded, NEW r \in Replicas, NEW k \in Keys,
           AgentAnswers(r, k) \/ AgentFails(r, k)
    PROVE  RowsNext /\ TasksNext
<1>. DEFINE t    == tasks[r][k]
            n(o) == [t EXCEPT !.stage = "loading", !.outcome = o]
<1>1. t \in Task
  BY DEF TypeInv, TypeOK
<1>2. PICK o \in {"result", "error"} : AgentReturns(r, k, o)
  BY DEF AgentAnswers, AgentFails
<1>3. t.stage = "calling" /\ SetTask(r, k, n(o)) /\ items' = items
  BY <1>2 DEF AgentReturns
<1>4. n(o).stage = "loading" /\ n(o).phase = t.phase /\ n(o).outcome = o
  BY <1>1 DEF Task
<1>5. tasks'[r][k] = n(o)
  BY <1>3 DEF SetTask, TypeInv, TypeOK
<1>. HIDE DEF n
<1>6. o = "result" => t.phase \in answered'[k]
  BY <1>4, <1>5 DEF Recorded, Results
<1>7. SoundTaskNext(k, n(o))
  BY <1>3, <1>4, <1>6, Untouched DEF SoundTaskNext
<1>. QED  BY <1>3, <1>7, TaskWritten, Untouched

(* session.get copies a sound row.                                          *)
LEMMA LoadPassage ==
    ASSUME TypeInv, PassageInv, Recorded, NEW r \in Replicas, NEW k \in Keys, Load(r, k)
    PROVE  RowsNext /\ TasksNext
<1>. DEFINE t == tasks[r][k]
            n == [t EXCEPT !.stage = "saving", !.loaded = items[k]]
<1>1. CASE Exists(k)
  <2>1. t \in Task /\ t.stage = "loading" /\ SetTask(r, k, n) /\ items' = items
    BY <1>1 DEF Load, TypeInv, TypeOK
  <2>2. n.stage = "saving" /\ n.phase = t.phase /\ n.outcome = t.outcome
        /\ n.loaded = items[k]
    BY <2>1 DEF Task
  <2>. HIDE DEF n
  <2>3. SoundTaskNext(k, n)
    BY <1>1, <2>1, <2>2, Untouched DEF SoundTaskNext
  <2>. QED  BY <2>1, <2>3, TaskWritten, Untouched
<1>2. CASE ~Exists(k)
  BY <1>2, NoTaskIsSound, TaskWritten, Untouched DEF Load
<1>. QED  BY <1>1, <1>2

(* The commits of a coroutine, on whatever the row has become.              *)
LEMMA SavePassage ==
    ASSUME TypeInv, PassageInv, Recorded, NEW r \in Replicas, NEW k \in Keys,
           SaveAdvanced(r, k) \/ SaveFailed(r, k)
    PROVE  RowsNext /\ TasksNext
<1>. DEFINE t    == tasks[r][k]
            done == IF t.outcome = "result" THEN {t.phase} ELSE {}
            next == NextOf(r, k).name
<1>1. t.stage = "saving" /\ Exists(k) /\ SetTask(r, k, NoTask)
  BY DEF SaveAdvanced, SaveFailed
<1>2. TasksNext
  BY <1>1, NoTaskIsSound, TaskWritten
<1>3. items[k] \in WorkItem /\ t.loaded \in WorkItem
  BY <1>1 DEF Exists, TypeInv, TypeOK, TasksTyped
<1>4. SoundRowNext(k, items[k]) /\ SoundRowNext(k, t.loaded) /\ EarnedNext(k, t.phase)
  BY <1>1, Untouched DEF SoundTaskNext
<1>5. CASE SaveAdvanced(r, k)
  <2>1. Succeeds(r, k)
        /\ items' = [items EXCEPT ![k] =
                       FlushResult(@, t.loaded, Advanced(t.loaded, next, done), done)]
    BY <1>5 DEF SaveAdvanced
  <2>2. EarnedNext(k, next)
    BY <1>1, <1>4, <2>1, Untouched, NextIsEarned DEF SoundTaskNext, NextOf, Succeeds
  <2>. HIDE DEF t, done, next
  <2>3. SoundRowNext(k, Advanced(t.loaded, next, done))
    BY <1>3, <1>4, <2>2, SoundWriters DEF SoundNext
  <2>4. SoundRowNext(k, FlushResult(items[k], t.loaded,
                                    Advanced(t.loaded, next, done), done))
    BY <1>4, <2>3, SoundFlush
  <2>. QED  BY <1>2, <2>1, <2>4, RowWritten
<1>6. CASE SaveFailed(r, k)
  <2>1. PICK differs \in BOOLEAN :
           items' = [items EXCEPT ![k] =
                        FlushReason(@, t.loaded, Failed(t.loaded, t.phase), differs)]
    BY <1>6 DEF SaveFailed
  <2>2. SoundRowNext(k, Failed(t.loaded, t.phase))
    BY <1>3, <1>4, SoundWriters DEF SoundNext
  <2>3. SoundRowNext(k, FlushReason(items[k], t.loaded, Failed(t.loaded, t.phase),
                                    differs))
    BY <1>4, <2>2, SoundFlush
  <2>. QED  BY <1>2, <2>1, <2>3, RowWritten
<1>. QED  BY <1>5, <1>6

LEMMA TaskPassage ==
    ASSUME TypeInv, PassageInv, Recorded, NEW r \in Replicas, NEW k \in Keys,
           TaskStep(r, k) \/ TaskDbError(r, k)
    PROVE  RowsNext /\ TasksNext
<1>1. CASE ClaimMisses(r, k) \/ SaveRowGone(r, k) \/ TaskDbError(r, k)
  BY <1>1, NoTaskIsSound, TaskWritten, Untouched DEF ClaimMisses, SaveRowGone, TaskDbError
<1>. QED
  BY <1>1, ClaimPassage, AnswerPassage, LoadPassage, SavePassage DEF TaskStep
-----------------------------------------------------------------------------
(* The commits of the handlers: an approval passes the phase it read.       *)
LEMMA CommitPassage ==
    ASSUME TypeInv, PassageInv, Recorded, NEW q \in Requests, CommitStep(q)
    PROVE  RowsNext /\ RequestsNext
<1>. DEFINE k    == requests[q].key
            row  == requests[q].loaded
            next == next_phase(PolicyOf(k), row.phase).name
<1>1. SetRequest(q, Closed) /\ requests[q].command \in Commands
  BY DEF CommitStep, Approve, Deny, Retry, Delete, RowGone, Commit, Commands
<1>2. requests[q] \in Request /\ requests[q] # Closed
  BY <1>1, OpenRequestType DEF TypeInv, Closed, Commands, None
<1>3. k \in Keys /\ row \in WorkItem
  BY <1>2 DEF Request
<1>4. SoundRowNext(k, row)
  BY <1>2, Untouched
<1>5. RequestsNext
  BY <1>1, RequestWritten
<1>6. ASSUME NEW command, NEW new, Commit(q, command, new), SoundRowNext(k, new)
      PROVE  RowsNext
  <2>1. Exists(k) /\ items' = [items EXCEPT ![k] = Flush(@, row, new)]
    BY <1>6 DEF Commit
  <2>2. SoundRowNext(k, Flush(items[k], row, new))
    BY <1>3, <1>6, <2>1, Untouched, SoundFlush
  <2>. QED  BY <1>3, <2>1, <2>2, RowWritten
<1>7. CASE Approve(q)
  <2>1. Commit(q, "approve", Approved(row, next))
        /\ approved' = [approved EXCEPT ![k] = @ \cup {row.phase}]
    BY <1>7 DEF Approve
  <2>2. next_phase(PolicyOf(k), row.phase) # NoPhase
    BY <2>1 DEF Commit, RequestChecked, RequestsChecked, TypeInv
  <2>3. row.phase \notin {None, FAILED}
    BY <1>3, <2>2, NothingAfterFailed, NamesAssumption DEF WorkItem
  <2>4. EarnedNext(k, row.phase)
    BY <1>4, <2>3 DEF SoundRowNext, SoundNext
  <2>5. row.phase \in granted'[k]
    BY <1>3, <2>1 DEF Recorded, TypeInv, TypeOK
  <2>6. EarnedNext(k, next)
    BY <2>2, <2>4, <2>5, NextIsEarned
  <2>. HIDE DEF next
  <2>7. SoundRowNext(k, Approved(row, next))
    BY <1>3, <1>4, <2>6, SoundWriters DEF SoundNext
  <2>. QED  BY <1>5, <1>6, <2>1, <2>7
<1>8. CASE Deny(q)
  <2>1. PICK differs \in BOOLEAN :
           items' = [items EXCEPT ![k] = FlushReason(@, row, Denied(row), differs)]
    BY <1>8 DEF Deny
  <2>2. Exists(k) /\ SoundRowNext(k, Denied(row))
    BY <1>3, <1>4, <1>8, SoundWriters DEF Deny
  <2>3. SoundRowNext(k, FlushReason(items[k], row, Denied(row), differs))
    BY <1>3, <2>2, Untouched, SoundFlush
  <2>. QED  BY <1>3, <1>5, <2>1, <2>3, RowWritten
<1>9. CASE Retry(q)
  BY <1>3, <1>4, <1>5, <1>6, <1>9, SoundWriters DEF Retry
<1>10. CASE Delete(q)
  BY <1>3, <1>5, <1>10, RowWritten DEF Delete
<1>11. CASE RowGone(q)
  BY <1>5, <1>11, Untouched DEF RowGone
<1>. QED  BY <1>7, <1>8, <1>9, <1>10, <1>11 DEF CommitStep

(* A request keeps a copy of a sound row.                                   *)
LEMMA OpenPassage ==
    ASSUME TypeInv, PassageInv, Recorded, NEW r \in Replicas, NEW q \in Requests,
           NEW k \in Keys, NEW command, LoadStep(r, q, k, command)
    PROVE  RowsNext /\ RequestsNext
<1>. DEFINE req == [at |-> r, key |-> k, command |-> command, loaded |-> items[k]]
<1>1. Exists(k) /\ SetRequest(q, req) /\ items' = items
  BY DEF LoadStep, ReviewLoad, DeleteLoad, RetryLoad, Open
<1>2. SoundRowNext(req.key, req.loaded)
  BY <1>1, Untouched
<1>. HIDE DEF req
<1>. QED  BY <1>1, <1>2, RequestWritten, Untouched

(* An item starts where nothing is asked of it.                             *)
LEMMA IngestPassage ==
    ASSUME TypeInv, PassageInv, Recorded, NEW k \in Keys, ReceiveEvent(k)
    PROVE  RowsNext /\ RequestsNext
<1>1. PolicyOf(k) # NoPolicy /\ items' = [items EXCEPT ![k] = Stored(k)]
      /\ requests' = requests
  BY DEF ReceiveEvent
<1>2. Before(PolicyOf(k), first_phase(PolicyOf(k)).name) = {}
  BY <1>1, MatchPolicy, BeforeFirstPhase DEF PolicyOf
<1>3. EarnedNext(k, first_phase(PolicyOf(k)).name)
  BY <1>2 DEF EarnedNext, ManualBefore, AgentBefore
<1>4. SoundRowNext(k, Stored(k))
  BY <1>3 DEF SoundRowNext, SoundNext, Stored
<1>. QED  BY <1>1, <1>4, RowWritten, Untouched

(* Time changes no phase.                                                   *)
LEMMA TickPassage ==
    ASSUME TypeInv, PassageInv, Recorded, Tick
    PROVE  RowsNext /\ TasksNext
<1>1. RowsNext
  <2>1. ASSUME NEW k \in Keys, items'[k] # NoRow
        PROVE  SoundRowNext(k, items'[k])
    <3>1. Exists(k) /\ items'[k] = Older(items[k])
      BY <2>1 DEF Tick, AgeLocks
    <3>2. items[k] \in WorkItem
      BY <3>1 DEF Exists, TypeInv, TypeOK
    <3>. QED  BY <3>1, <3>2, Untouched, SoundWriters
  <2>. QED  BY <2>1 DEF RowsNext
<1>2. TasksNext
  <2>1. ASSUME NEW r \in Replicas, NEW k \in Keys
        PROVE  SoundTaskNext(k, tasks'[r][k])
    <3>. DEFINE t == tasks[r][k]
                n == IF t.stage \in {"calling", "loading", "saving"}
                     THEN [t EXCEPT !.held = @ + 1] ELSE t
    <3>1. tasks'[r][k] = n /\ t \in Task
      BY DEF Tick, TypeInv, TypeOK
    <3>2. n.stage = t.stage /\ n.phase = t.phase /\ n.outcome = t.outcome
          /\ n.loaded = t.loaded
      BY <3>1 DEF Task
    <3>. HIDE DEF n
    <3>. QED  BY <3>1, <3>2, Untouched DEF SoundTaskNext
  <2>. QED  BY <2>1 DEF TasksNext
<1>. QED  BY <1>1, <1>2

(* The end of a process only forgets.                                       *)
LEMMA CrashPassage ==
    ASSUME TypeInv, PassageInv, Recorded, NEW r \in Replicas, Crash(r)
    PROVE  RowsNext /\ TasksNext /\ RequestsNext
<1>1. \A r2 \in Replicas, k \in Keys :
         tasks'[r2][k] = IF r2 = r THEN NoTask ELSE tasks[r2][k]
  BY DEF Crash, Stop, TypeInv, TypeOK
<1>2. \A q \in Requests : requests'[q] = Closed \/ requests'[q] = requests[q]
  BY DEF Crash, DropRequests
<1>3. items' = items
  BY DEF Crash, Stop
<1>. QED  BY <1>1, <1>2, <1>3, Untouched, NoTaskIsSound DEF TasksNext, RequestsNext
-----------------------------------------------------------------------------
LEMMA PassageInitInv == PassageInit => PassageInv
BY DEF PassageInit, ServiceInit, Init, OrchestratorInit, RoutesInit, PassageInv, Rows,
       Exists, SoundTask, NoTask

LEMMA PassageInvStep ==
    TypeInv /\ PassageInv /\ [PassageNext]_<<vars, history>> => PassageInv'
<1>. SUFFICES ASSUME TypeInv, PassageInv, [PassageNext]_<<vars, history>>
              PROVE  PassageInv'
  OBVIOUS
<1>1. CASE UNCHANGED <<vars, history>>
  <2>1. items' = items /\ tasks' = tasks /\ requests' = requests
        /\ granted' = granted /\ answered' = answered
    BY <1>1 DEF vars, history
  <2>. QED
    BY <2>1 DEF PassageInv, Rows, Exists, SoundRow, Sound, Earned, SoundTask
<1>2. CASE PassageNext
  <2>. USE DEF orchestrator, routes
  <2>1. Next /\ Recorded
    BY <1>2 DEF PassageNext
  <2>2. ASSUME NEW r \in Replicas, Loop(r) PROVE PassageInv'
    BY <2>1, <2>2, LoopPassage, Untouched, PartsMakePassageInv DEF Loop
  <2>3. ASSUME NEW r \in Replicas, Boot(r) \/ LoopError(r) PROVE PassageInv'
    BY <2>1, <2>3, Untouched, PartsMakePassageInv DEF Boot, Start, LoopError, CycleFails
  <2>4. ASSUME NEW r \in Replicas, Crash(r) PROVE PassageInv'
    BY <2>1, <2>4, CrashPassage, PartsMakePassageInv
  <2>5. ASSUME NEW r \in Replicas, NEW k \in Keys, Run(r, k) \/ TaskError(r, k)
        PROVE  PassageInv'
    BY <2>1, <2>5, TaskPassage, Untouched, PartsMakePassageInv DEF Run, TaskError
  <2>6. ASSUME NEW r \in Replicas, NEW k \in Keys, Ingest(r, k) PROVE PassageInv'
    BY <2>1, <2>6, IngestPassage, Untouched, PartsMakePassageInv DEF Ingest
  <2>7. ASSUME NEW r \in Replicas, NEW q \in Requests, NEW k \in Keys,
               NEW command \in Clients, OpenRequest(r, q, k, command)
        PROVE  PassageInv'
    BY <2>1, <2>7, OpenPassage, Untouched, PartsMakePassageInv DEF OpenRequest
  <2>8. ASSUME NEW q \in Requests, CloseRequest(q) PROVE PassageInv'
    BY <2>1, <2>8, CommitPassage, Untouched, PartsMakePassageInv DEF CloseRequest
  <2>9. CASE Time
    BY <2>1, <2>9, TickPassage, Untouched, PartsMakePassageInv DEF Time
  <2>. QED
    BY <2>1, <2>2, <2>3, <2>4, <2>5, <2>6, <2>7, <2>8, <2>9 DEF Next
<1>. QED  BY <1>1, <1>2

(***************************************************************************)
(* Whatever the number of replicas, the claims they take from each other,  *)
(* the requests that overlap and the crashes between two steps: no column  *)
(* of a row, of a coroutine's copy or of a request's copy names a phase    *)
(* that was not earned (orchestrator.py:67-128, 225-250,                   *)
(* items.py:95-212, events.py:86-104).                                     *)
(***************************************************************************)
THEOREM PassageIsSound == PassageSpec => [](TypeInv /\ PassageInv)
<1>1. PassageInit => TypeInv /\ PassageInv
  BY InitTypeInv, PassageInitInv DEF PassageInit
<1>2. TypeInv /\ [PassageNext]_<<vars, history>> => TypeInv'
  BY TypeInvStep DEF PassageNext, vars
<1>3. TypeInv /\ PassageInv /\ [PassageNext]_<<vars, history>> => PassageInv'
  BY PassageInvStep
<1>. QED  BY <1>1, <1>2, <1>3, PTL DEF PassageSpec

(***************************************************************************)
(* An agent is called only for a phase whose earlier manual phases a       *)
(* reviewer approved for this event and whose earlier agent phases gave a  *)
(* result or were approved past: with any replicas, clients, overlapping   *)
(* requests and faults (README.md:66-77, orchestrator.py:88-128).          *)
(***************************************************************************)
THEOREM EveryCallIsEarned == PassageSpec => []CallsAreEarned
<1>1. PassageInv => CallsAreEarned
  BY DEF PassageInv, SoundTask, CallsAreEarned, Calling
<1>. QED  BY <1>1, PassageIsSound, PTL

(***************************************************************************)
(* What the loop removes as completed was completed: each of its agent     *)
(* phases gave a result or was approved past, each manual one approved     *)
(* (README.md:66-73, orchestrator.py:121-128, 212-219).                    *)
(***************************************************************************)
THEOREM EveryCompletionIsEarned == PassageSpec => []CompletionIsEarned
<1>1. PassageInv => CompletionIsEarned
  BY DEF PassageInv, SoundRow, Sound, CompletionIsEarned, COMPLETED, FAILED, None
<1>. QED  BY <1>1, PassageIsSound, PTL
=============================================================================
