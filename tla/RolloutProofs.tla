--------------------------- MODULE RolloutProofs ----------------------------
(***************************************************************************)
(* What holds while replicas of two configurations work on one table: the  *)
(* types, and that nothing both configurations ask of an item is left out. *)
(***************************************************************************)
EXTENDS RolloutPassage, TypeProofs

-----------------------------------------------------------------------------
(* What the two instances of the service have in common.                    *)
LEMMA SameWords ==
    /\ New!MANUAL = MANUAL /\ New!AUTOMATIC = AUTOMATIC
    /\ New!COMPLETED = COMPLETED /\ New!FAILED = FAILED /\ New!None = None
    /\ New!NoPhase = NoPhase /\ New!NoPolicy = NoPolicy
    /\ New!NoLock = NoLock /\ New!NoTask = NoTask /\ New!Closed = Closed
BY DEF New!MANUAL, MANUAL, New!AUTOMATIC, AUTOMATIC, New!COMPLETED, COMPLETED,
       New!FAILED, FAILED, New!None, None, New!NoPhase, NoPhase, New!NoPolicy, NoPolicy,
       New!NoLock, NoLock, New!NoTask, NoTask, New!Closed, Closed

LEMMA SameMin == \A S : New!Min(S) = Min(S)
BY DEF New!Min, Min

LEMMA SameLookups ==
    /\ \A p, n : /\ New!get_phase(p, n) = get_phase(p, n)
                 /\ New!next_phase(p, n) = next_phase(p, n)
    /\ \A p : New!first_phase(p) = first_phase(p)
<1>1. \A S : New!Min(S) = Min(S)
  BY SameMin
<1>2. \A p, n : New!Positions(p, n) = Positions(p, n)
  BY DEF New!Positions, Positions
<1>3. \A p, n : New!get_phase(p, n) = get_phase(p, n)
  BY <1>1, <1>2, SameWords DEF New!get_phase, get_phase
<1>4. \A p, n : New!next_phase(p, n) = next_phase(p, n)
  BY <1>1, <1>2, SameWords DEF New!next_phase, next_phase
<1>5. \A p : New!first_phase(p) = first_phase(p)
  BY DEF New!first_phase, first_phase
<1>. QED  BY <1>3, <1>4, <1>5

LEMMA SameWriters ==
    /\ \A k : New!Exists(k) = Exists(k)
    /\ \A row, m : New!Claimed(row, m) = Claimed(row, m)
    /\ \A row, n, done : New!Advanced(row, n, done) = Advanced(row, n, done)
    /\ \A row, n : New!Failed(row, n) = Failed(row, n)
    /\ \A row, n : New!Approved(row, n) = Approved(row, n)
    /\ \A row : /\ New!Released(row) = Released(row)
                /\ New!Denied(row) = Denied(row)
                /\ New!Retried(row) = Retried(row)
    /\ \A now, old, new : New!Flush(now, old, new) = Flush(now, old, new)
    /\ \A now, old, new, done :
          New!FlushResult(now, old, new, done) = FlushResult(now, old, new, done)
    /\ \A now, old, new, differs :
          New!FlushReason(now, old, new, differs) = FlushReason(now, old, new, differs)
<1>1. \A k : New!Exists(k) = Exists(k)
  BY DEF New!Exists, Exists
<1>2. \A row, m : New!Claimed(row, m) = Claimed(row, m)
  BY DEF New!Claimed, Claimed
<1>3. \A row, n, done : New!Advanced(row, n, done) = Advanced(row, n, done)
  BY SameWords DEF New!Advanced, Advanced
<1>4. \A row, n : New!Failed(row, n) = Failed(row, n)
  BY SameWords DEF New!Failed, Failed
<1>5. \A row, n : New!Approved(row, n) = Approved(row, n)
  BY SameWords DEF New!Approved, Approved
<1>6. \A row : New!Released(row) = Released(row)
  BY SameWords DEF New!Released, Released
<1>7. \A row : New!Denied(row) = Denied(row)
  BY SameWords DEF New!Denied, Denied
<1>8. \A row : New!Retried(row) = Retried(row)
  BY SameWords DEF New!Retried, Retried
<1>9. \A now, old, new : New!Column(now, old, new) = Column(now, old, new)
  BY DEF New!Column, Column
<1>10. \A now, old, new : New!Flush(now, old, new) = Flush(now, old, new)
  BY <1>9 DEF New!Flush, Flush
<1>11. \A now, old, new, done :
          New!FlushResult(now, old, new, done) = FlushResult(now, old, new, done)
  BY <1>10 DEF New!FlushResult, FlushResult
<1>12. \A now, old, new, differs :
          New!FlushReason(now, old, new, differs) = FlushReason(now, old, new, differs)
  BY <1>10 DEF New!FlushReason, FlushReason
<1>. QED  BY <1>1, <1>2, <1>3, <1>4, <1>5, <1>6, <1>7, <1>8, <1>10, <1>11, <1>12

LEMMA SameSteps ==
    /\ \A r, from, to : New!Goto(r, from, to) = Goto(r, from, to)
    /\ \A r, k, t : New!SetTask(r, k, t) = SetTask(r, k, t)
    /\ \A q, r : New!SetRequest(q, r) = SetRequest(q, r)
    /\ \A r, q, k, c : New!Open(r, q, k, c) = Open(r, q, k, c)
    /\ \A q, c, new : New!Commit(q, c, new) = Commit(q, c, new)
<1>1. \A r, from, to : New!Goto(r, from, to) = Goto(r, from, to)
  BY DEF New!Goto, Goto
<1>2. \A r, k, t : New!SetTask(r, k, t) = SetTask(r, k, t)
  BY DEF New!SetTask, SetTask
<1>3. \A q, r : New!SetRequest(q, r) = SetRequest(q, r)
  BY DEF New!SetRequest, SetRequest
<1>4. \A r, q, k, c : New!Open(r, q, k, c) = Open(r, q, k, c)
  BY <1>3, SameWords DEF New!Open, Open
<1>5. \A q, c, new : New!Commit(q, c, new) = Commit(q, c, new)
  BY <1>3, SameWords, SameWriters DEF New!Commit, Commit
<1>. QED  BY <1>1, <1>2, <1>3, <1>4, <1>5
-----------------------------------------------------------------------------
(* An approval has a next phase to go to, under the policies it was read by. *)
ApprovalsFollow ==
    \A q \in Requests :
        requests[q].command = "approve" =>
            next_phase(PolicyAt(requests[q].at, requests[q].key), requests[q].loaded.phase)
                # NoPhase

RolloutInv == Typed /\ ApprovalsFollow

LEMMA NewLookups ==
    ASSUME NEW k, NEW n
    PROVE  /\ New!PolicyOf(k).phases \in Seq(PhaseConfig)
           /\ get_phase(New!PolicyOf(k), n) \in PhaseConfig \cup {NoPhase}
           /\ next_phase(New!PolicyOf(k), n) \in PhaseConfig \cup {NoPhase}
           /\ New!PolicyOf(k) # NoPolicy => first_phase(New!PolicyOf(k)) \in PhaseConfig
<1>. DEFINE p == New!PolicyOf(k)
            handlers == {m \in DOMAIN NewPolicies : EventType[k] \in NewPolicies[m].event_types}
<1>1. p = IF handlers = {} THEN NoPolicy ELSE NewPolicies[Min(handlers)]
  BY SameWords, SameMin DEF New!PolicyOf, New!match_policy
<1>2. handlers \in SUBSET Nat
  BY NewPoliciesAssumption
<1>3. p = NoPolicy \/ ValidPolicy(p)
  BY <1>1, <1>2, MinIsLeast, NewPoliciesAssumption
<1>. HIDE DEF p
<1>4. p.phases \in Seq(PhaseConfig)
  <2>1. CASE p = NoPolicy
    BY <2>1 DEF NoPolicy
  <2>2. CASE ValidPolicy(p)
    BY <2>2 DEF ValidPolicy
  <2>. QED  BY <1>3, <2>1, <2>2
<1>5. get_phase(p, n) \in PhaseConfig \cup {NoPhase}
  BY <1>4, GetPhase
<1>6. next_phase(p, n) \in PhaseConfig \cup {NoPhase}
  BY <1>4, NextPhaseType
<1>7. p # NoPolicy => first_phase(p) \in PhaseConfig
  BY <1>3, BeforeFirstPhase
<1>. QED  BY <1>4, <1>5, <1>6, <1>7 DEF p
-----------------------------------------------------------------------------
(* What the loop and the coroutines of a new process do.                    *)
LEMMA NewLoopIsAny == ASSUME NEW r, New!LoopStep(r) PROVE AnyLoopStep(r)
<1>. USE SameWords, SameWriters, SameSteps
<1>1. ASSUME New!SelectReady(r) PROVE AnySelect(r)
  <2>. DEFINE S == {k \in Keys : New!Selectable(k)}
  <2>1. S \in SUBSET Rows
    BY DEF New!Selectable, Rows
  <2>2. \A k \in Keys : New!Selectable(k) <=> k \in S
    OBVIOUS
  <2>. HIDE DEF S
  <2>. QED  BY <1>1, <2>1, <2>2 DEF New!SelectReady, AnySelect
<1>2. New!CleanupCompleted(r) => CleanupCompleted(r)
  BY DEF New!CleanupCompleted, CleanupCompleted
<1>3. \A row : New!Stale(row) = Stale(row)
  BY DEF New!Stale, Stale
<1>4. New!ReleaseLoad(r) => ReleaseLoad(r)
  BY <1>3 DEF New!ReleaseLoad, ReleaseLoad
<1>5. New!ReleaseCommit(r) => ReleaseCommit(r)
  BY DEF New!ReleaseCommit, ReleaseCommit
<1>6. New!ReleaseRowGone(r) => ReleaseRowGone(r)
  BY DEF New!ReleaseRowGone, ReleaseRowGone
<1>7. New!GatherDone(r) => GatherDone(r)
  BY DEF New!GatherDone, GatherDone
<1>8. New!UpdateGauges(r) \/ New!Wake(r) => UpdateGauges(r) \/ Wake(r)
  BY DEF New!UpdateGauges, UpdateGauges, New!Wake, Wake
<1>. QED
  BY <1>1, <1>2, <1>4, <1>5, <1>6, <1>7, <1>8 DEF New!LoopStep, AnyLoopStep

(* The steps of a coroutine by the policy p of its process.                 *)
ClaimBy(p, r, k) ==
    LET t == tasks[r][k]
        c == get_phase(p, t.phase)
    IN  /\ t.stage = "created"
        /\ Exists(k)
        /\ items' = [items EXCEPT ![k] = Claimed(@, c.mode)]
        /\ SetTask(r, k, IF c.mode = MANUAL THEN NoTask
                         ELSE IF c.operation THEN [t EXCEPT !.stage = "calling"]
                         ELSE [t EXCEPT !.stage = "loading", !.outcome = "skipped"])
        /\ UNCHANGED <<loop, stale>>

SaveBy(p, r, k) ==
    LET t    == tasks[r][k]
        next == next_phase(p, t.phase)
        done == IF t.outcome = "result" THEN {t.phase} ELSE {}
        new  == Advanced(t.loaded, next.name, done)
    IN  /\ t.stage = "saving"
        /\ Exists(k)
        /\ \/ /\ t.outcome # "error" /\ next # NoPhase
              /\ items' = [items EXCEPT ![k] = FlushResult(@, t.loaded, new, done)]
           \/ \E differs \in BOOLEAN :
                 items' = [items EXCEPT ![k] =
                     FlushReason(@, t.loaded, Failed(t.loaded, t.phase), differs)]
        /\ SetTask(r, k, NoTask)
        /\ UNCHANGED <<loop, stale>>

TaskBy(p, r, k) ==
    \/ ClaimMisses(r, k) \/ ClaimBy(p, r, k) \/ AgentAnswers(r, k) \/ AgentFails(r, k)
    \/ Load(r, k) \/ SaveBy(p, r, k) \/ SaveRowGone(r, k)

LEMMA OldTaskIsBy ==
    ASSUME NEW r, NEW k, TaskStep(r, k)
    PROVE  TaskBy(PolicyOf(k), r, k)
<1>1. ClaimManual(r, k) \/ ClaimAutomatic(r, k) => ClaimBy(PolicyOf(k), r, k)
  BY DEF ClaimManual, ClaimAutomatic, CanClaim, PhaseOf, ClaimBy
<1>2. SaveAdvanced(r, k) \/ SaveFailed(r, k) => SaveBy(PolicyOf(k), r, k)
  BY DEF SaveAdvanced, SaveFailed, Succeeds, NextOf, SaveBy
<1>. QED  BY <1>1, <1>2 DEF TaskStep, TaskBy

LEMMA NewTaskIsBy ==
    ASSUME NEW r, NEW k, New!TaskStep(r, k)
    PROVE  TaskBy(New!PolicyOf(k), r, k)
<1>. USE SameWords, SameWriters, SameSteps, SameLookups
<1>1. New!ClaimManual(r, k) \/ New!ClaimAutomatic(r, k) => ClaimBy(New!PolicyOf(k), r, k)
  BY DEF New!ClaimManual, New!ClaimAutomatic, New!CanClaim, New!PhaseOf, ClaimBy
<1>2. New!SaveAdvanced(r, k) => SaveBy(New!PolicyOf(k), r, k)
  BY DEF New!SaveAdvanced, New!Succeeds, New!NextOf, SaveBy
<1>3. New!SaveFailed(r, k) => SaveBy(New!PolicyOf(k), r, k)
  BY DEF New!SaveFailed, SaveBy
<1>4. New!ClaimMisses(r, k) => ClaimMisses(r, k)
  BY DEF New!ClaimMisses, ClaimMisses, New!CanClaim, CanClaim
<1>5. New!AgentAnswers(r, k) \/ New!AgentFails(r, k) => AgentAnswers(r, k) \/ AgentFails(r, k)
  BY DEF New!AgentAnswers, New!AgentFails, New!AgentReturns, AgentAnswers, AgentFails,
         AgentReturns
<1>6. New!Load(r, k) => Load(r, k)
  BY DEF New!Load, Load
<1>7. New!SaveRowGone(r, k) => SaveRowGone(r, k)
  BY DEF New!SaveRowGone, SaveRowGone
<1>. QED
  BY <1>1, <1>2, <1>3, <1>4, <1>5, <1>6, <1>7 DEF New!TaskStep, TaskBy

LEMMA NewTaskIsAny ==
    ASSUME Typed, NEW r \in Replicas, NEW k \in Keys, New!TaskStep(r, k)
    PROVE  AnyTaskStep(r, k)
<1>. DEFINE t == tasks[r][k]
            c == get_phase(New!PolicyOf(k), t.phase)
            next == next_phase(New!PolicyOf(k), t.phase)
            done == IF t.outcome = "result" THEN {t.phase} ELSE {}
<1>1. TaskBy(New!PolicyOf(k), r, k)
  BY NewTaskIsBy
<1>2. ASSUME ClaimBy(New!PolicyOf(k), r, k) PROVE AnyClaim(r, k)
  <2>1. c.mode \in {AUTOMATIC, MANUAL, None}
    BY NewLookups, ModeTypes
  <2>2. /\ t.stage = "created" /\ Exists(k) /\ UNCHANGED <<loop, stale>>
        /\ \E m \in {AUTOMATIC, MANUAL, None} : items' = [items EXCEPT ![k] = Claimed(@, m)]
        /\ \E n \in {NoTask, [t EXCEPT !.stage = "calling"],
                     [t EXCEPT !.stage = "loading", !.outcome = "skipped"]} : SetTask(r, k, n)
    BY <1>2, <2>1 DEF ClaimBy
  <2>. QED  BY <2>2, ClaimWrites DEF AnyClaim
<1>3. ASSUME SaveBy(New!PolicyOf(k), r, k) PROVE AnySave(r, k)
  <2>1. t.stage = "saving" /\ Exists(k) /\ SetTask(r, k, NoTask) /\ UNCHANGED <<loop, stale>>
    BY <1>3 DEF SaveBy
  <2>2. done \in SUBSET Names
    BY <2>1 DEF Typed, TasksTyped
  <2>3. CASE /\ next # NoPhase
             /\ items' = [items EXCEPT ![k] =
                       FlushResult(@, t.loaded, Advanced(t.loaded, next.name, done), done)]
    <3>1. next.name \in Names
      BY <2>3, NewLookups, ModeTypes
    <3>2. WriteRow(k)
      BY <2>1, <2>2, <2>3, <3>1, SaveWrites
    <3>. QED  BY <2>1, <3>2 DEF AnySave
  <2>4. CASE \E differs \in BOOLEAN : items' = [items EXCEPT ![k] =
                       FlushReason(@, t.loaded, Failed(t.loaded, t.phase), differs)]
    <3>1. FAILED \in Names
      BY NamesAssumption
    <3>2. WriteRow(k)
      BY <2>1, <2>2, <2>4, <3>1, SaveWrites
    <3>. QED  BY <2>1, <3>2 DEF AnySave
  <2>. QED  BY <1>3, <2>3, <2>4 DEF SaveBy
<1>. QED  BY <1>1, <1>2, <1>3 DEF TaskBy, AnyTaskStep

(* What its handlers do.                                                    *)
LEMMA NewIngestIsAny == ASSUME NEW k, New!ReceiveEvent(k) PROVE AnyIngest(k)
<1>. USE SameWords, SameWriters, SameLookups
<1>1. New!Stored(k) \in WorkItem
  BY NewLookups, LockTypes, NamesAssumption
  DEF New!ReceiveEvent, New!Stored, WorkItem, PhaseConfig
<1>. QED  BY <1>1 DEF New!ReceiveEvent, AnyIngest, WriteRow

LEMMA NewLoadIsAny ==
    ASSUME NEW r, NEW q, NEW k, NEW command, New!LoadStep(r, q, k, command)
    PROVE  /\ AnyLoad(r, q, k, command)
           /\ command = "approve" => next_phase(New!PolicyOf(k), items[k].phase) # NoPhase
BY SameWords, SameWriters, SameSteps, SameLookups
DEF New!LoadStep, New!ReviewLoad, New!DeleteLoad, New!RetryLoad, AnyLoad

LEMMA NewCommitIsAny ==
    ASSUME Typed, NEW q \in Requests, New!CommitStep(q),
           requests[q].command = "approve" =>
              next_phase(New!PolicyOf(requests[q].key), requests[q].loaded.phase) # NoPhase
    PROVE  AnyCommit(q)
<1>. USE SameWords, SameWriters, SameSteps, SameLookups
<1>. DEFINE row == requests[q].loaded
            next == next_phase(New!PolicyOf(requests[q].key), row.phase)
<1>1. CASE New!Approve(q)
  <2>1. /\ Commit(q, "approve", Approved(row, next.name))
        /\ approved' = [approved EXCEPT ![requests[q].key] = @ \cup {row.phase}]
    BY <1>1 DEF New!Approve
  <2>2. next.name \in Names
    BY <2>1, NewLookups, ModeTypes DEF Commit
  <2>. QED  BY <2>1, <2>2, ApprovalIsAny
<1>2. New!Deny(q) => Deny(q)
  BY DEF New!Deny, Deny
<1>3. New!Retry(q) => Retry(q)
  BY DEF New!Retry, Retry
<1>4. New!Delete(q) => Delete(q)
  BY DEF New!Delete, Delete
<1>5. New!RowGone(q) => RowGone(q)
  BY DEF New!RowGone, RowGone
<1>. QED  BY <1>1, <1>2, <1>3, <1>4, <1>5, OtherCommitIsAny DEF New!CommitStep
-----------------------------------------------------------------------------
LEMMA RolloutIsAny == ASSUME RolloutInv, [RolloutNext]_rollout PROVE AnyStep
<1>. USE DEF orchestrator, routes, RolloutInv
<1>1. ASSUME NEW r \in Replicas, LoopOf(r) PROVE AnyStep
  <2>1. AnyLoopStep(r) /\ UNCHANGED routes /\ faults' = faults
    BY <1>1, LoopIsAny, NewLoopIsAny DEF LoopOf, Loop, New!Loop, New!routes
  <2>. QED  BY <2>1 DEF AnyStep
<1>2. ASSUME NEW r \in Replicas, Upgrade(r) PROVE AnyStep
  BY <1>2 DEF Upgrade, AnyStop, AnyStep
<1>3. ASSUME NEW r \in Replicas, NEW k \in Keys, RunOf(r, k) PROVE AnyStep
  <2>1. AnyTaskStep(r, k) /\ UNCHANGED routes /\ faults' = faults
    BY <1>3, TaskIsAny, NewTaskIsAny DEF RunOf, Run, New!Run, New!routes
  <2>. QED  BY <2>1 DEF AnyStep
<1>4. ASSUME NEW r \in Replicas, NEW k \in Keys, IngestOf(r, k) PROVE AnyStep
  <2>1. AnyIngest(k) /\ UNCHANGED orchestrator /\ faults' = faults
    BY <1>4, IngestIsAny, NewIngestIsAny DEF IngestOf, Ingest, New!Ingest, New!orchestrator
  <2>. QED  BY <2>1 DEF AnyStep
<1>5. ASSUME NEW r \in Replicas, NEW q \in Requests, NEW k \in Keys,
             NEW command \in Clients, RequestOf(r, q, k, command)
      PROVE  AnyStep
  <2>1. AnyLoad(r, q, k, command) /\ UNCHANGED orchestrator /\ faults' = faults
    BY <1>5, LoadIsAny, NewLoadIsAny
    DEF RequestOf, OpenRequest, New!OpenRequest, New!orchestrator
  <2>. QED  BY <2>1 DEF AnyStep
<1>6. ASSUME NEW q \in Requests, CommitOf(q) PROVE AnyStep
  <2>1. CASE Old(requests[q].at) /\ CloseRequest(q)
    <3>1. AnyCommit(q)
      <4>. DEFINE row == requests[q].loaded
                  next == next_phase(PolicyOf(requests[q].key), row.phase)
      <4>1. requests[q].command = "approve" => next # NoPhase
        BY <2>1 DEF Old, ApprovalsFollow, PolicyAt
      <4>. QED  BY <2>1, <4>1, CommitIsAny DEF CloseRequest
    <3>. QED  BY <2>1, <3>1 DEF CloseRequest, AnyStep
  <2>2. CASE Upgraded(requests[q].at) /\ New!CloseRequest(q)
    <3>1. AnyCommit(q)
      BY <2>2, NewCommitIsAny DEF Upgraded, New!CloseRequest, ApprovalsFollow, PolicyAt
    <3>. QED  BY <2>2, <3>1 DEF New!CloseRequest, New!orchestrator, AnyStep
  <2>. QED  BY <1>6, <2>1, <2>2 DEF CommitOf
<1>7. CASE Rest
  <2>1. ASSUME NEW r \in Replicas, Boot(r) \/ LoopError(r) PROVE AnyStep
    BY <2>1 DEF Boot, LoopError, AnyLoopStep, AnyStep
  <2>2. ASSUME NEW r \in Replicas, Crash(r) PROVE AnyStep
    BY <2>2 DEF Crash, AnyStop, AnyStep
  <2>3. ASSUME NEW r \in Replicas, NEW k \in Keys, TaskError(r, k) PROVE AnyStep
    BY <2>3 DEF TaskError, AnyTaskStep, AnyStep
  <2>4. CASE Time
    BY <2>4 DEF Time, AnyStep
  <2>. QED  BY <1>7, <2>1, <2>2, <2>3, <2>4 DEF Rest
<1>8. CASE UNCHANGED rollout
  BY <1>8 DEF rollout, vars, AnyStep
<1>. QED  BY <1>1, <1>2, <1>3, <1>4, <1>5, <1>6, <1>7, <1>8 DEF RolloutNext

(* An approval is committed by the process that read it.                    *)
LEMMA ApprovalsFollowStep ==
    ASSUME RolloutInv, [RolloutNext]_rollout
    PROVE  ApprovalsFollow'
<1>. DEFINE Follows(req, u) ==
        req.command = "approve" =>
            next_phase(IF req.at \in u THEN New!PolicyOf(req.key) ELSE PolicyOf(req.key),
                       req.loaded.phase) # NoPhase
<1>1. \A q \in Requests : Follows(requests[q], upgraded)
  BY DEF RolloutInv, ApprovalsFollow, PolicyAt
<1>2. requests \in [Requests -> Request \cup {Closed}]
  BY DEF RolloutInv, Typed, TypeOK
<1>3. \A u : Follows(Closed, u)
  BY NothingClosed DEF Commands
<1>4. SUFFICES \A q \in Requests : Follows(requests'[q], upgraded')
  BY DEF ApprovalsFollow, PolicyAt
<1>. HIDE DEF Follows
<1>5. CASE UNCHANGED <<requests, upgraded>>
  BY <1>1, <1>5
<1>6. ASSUME NEW q \in Requests, NEW req, SetRequest(q, req), Follows(req, upgraded),
             upgraded' = upgraded
      PROVE  \A q2 \in Requests : Follows(requests'[q2], upgraded')
  BY <1>1, <1>2, <1>6 DEF SetRequest
<1>7. ASSUME NEW r \in Replicas, DropRequests(r), upgraded' \subseteq upgraded \cup {r},
             upgraded \subseteq upgraded'
      PROVE  \A q \in Requests : Follows(requests'[q], upgraded')
  <2>1. \A q \in Requests :
           \/ requests'[q] = Closed
           \/ requests'[q] = requests[q] /\ requests[q].at # r
    BY <1>7 DEF DropRequests
  <2>. QED  BY <1>1, <1>3, <1>7, <2>1 DEF Follows
<1>8. ASSUME NEW r \in Replicas, LoopOf(r) PROVE UNCHANGED <<requests, upgraded>>
  BY <1>8 DEF LoopOf, Loop, New!Loop, routes, New!routes, Old, Upgraded
<1>9. ASSUME NEW r \in Replicas, NEW k \in Keys, RunOf(r, k) \/ IngestOf(r, k)
      PROVE  UNCHANGED <<requests, upgraded>>
  BY <1>9 DEF RunOf, Run, New!Run, IngestOf, Ingest, New!Ingest, ReceiveEvent,
              New!ReceiveEvent, routes, New!routes, Old, Upgraded
<1>10. ASSUME NEW r \in Replicas, NEW q \in Requests, NEW k \in Keys,
              NEW command \in Clients, RequestOf(r, q, k, command)
       PROVE  \A q2 \in Requests : Follows(requests'[q2], upgraded')
  <2>. DEFINE req == [at |-> r, key |-> k, command |-> command, loaded |-> items[k]]
  <2>1. AnyLoad(r, q, k, command) /\ upgraded' = upgraded
    BY <1>10, LoadIsAny, NewLoadIsAny
    DEF RequestOf, OpenRequest, New!OpenRequest, Old, Upgraded
  <2>2. Follows(req, upgraded)
    BY <1>10, LoadIsAny, NewLoadIsAny
    DEF RequestOf, OpenRequest, New!OpenRequest, Old, Upgraded, Follows
  <2>3. SetRequest(q, req)
    BY <2>1 DEF AnyLoad, Open
  <2>. QED  BY <1>6, <2>1, <2>2, <2>3
<1>11. ASSUME NEW q \in Requests, CommitOf(q)
       PROVE  \A q2 \in Requests : Follows(requests'[q2], upgraded')
  <2>1. SetRequest(q, Closed) /\ upgraded' = upgraded
    <3>1. CASE Old(requests[q].at) /\ CloseRequest(q)
      BY <3>1 DEF Old, CloseRequest, CommitStep, Approve, Deny, Retry, Delete, RowGone, Commit
    <3>2. CASE Upgraded(requests[q].at) /\ New!CloseRequest(q)
      BY <3>2, SameWords, SameSteps
      DEF Upgraded, New!CloseRequest, New!CommitStep, New!Approve, New!Deny, New!Retry,
          New!Delete, New!RowGone, Commit
    <3>. QED  BY <1>11, <3>1, <3>2 DEF CommitOf
  <2>. QED  BY <1>3, <1>6, <2>1
<1>12. ASSUME NEW r \in Replicas, Upgrade(r) \/ (Crash(r) /\ UNCHANGED upgraded)
       PROVE  \A q \in Requests : Follows(requests'[q], upgraded')
  BY <1>7, <1>12 DEF Upgrade, Crash
<1>13. CASE Rest
  <2>1. ASSUME NEW r \in Replicas, Boot(r) \/ LoopError(r) PROVE requests' = requests
    BY <2>1 DEF Boot, LoopError, routes
  <2>2. ASSUME NEW r \in Replicas, NEW k \in Keys, TaskError(r, k) PROVE requests' = requests
    BY <2>2 DEF TaskError, routes
  <2>3. CASE Time
    BY <1>5, <1>13, <2>3 DEF Time, routes, Rest
  <2>. QED  BY <1>5, <1>12, <1>13, <2>1, <2>2, <2>3 DEF Rest
<1>14. CASE UNCHANGED rollout
  BY <1>5, <1>14 DEF rollout, vars
<1>. QED
  BY <1>5, <1>8, <1>9, <1>10, <1>11, <1>12, <1>13, <1>14 DEF RolloutNext

(***************************************************************************)
(* Rows, coroutines and requests keep their types while replicas of two    *)
(* configurations work on one table, whatever the new one has in common    *)
(* with the old: an approval is checked and committed by one process, so a *)
(* process never writes a phase that its policies do not have              *)
(* (config.py:101-127, items.py:112-124, models.py:122-150).               *)
(***************************************************************************)
THEOREM RolloutTypeCorrect == RolloutSpec => []RolloutInv
<1>1. RolloutInit => RolloutInv
  <2>1. ServiceInit => Typed
    BY InitTypeInv, TypeInvIsTyped
  <2>2. ServiceInit => ApprovalsFollow
    BY NothingClosed DEF ServiceInit, RoutesInit, ApprovalsFollow, Commands
  <2>. QED  BY <2>1, <2>2 DEF RolloutInit, RolloutInv
<1>2. RolloutInv /\ [RolloutNext]_rollout => RolloutInv'
  BY RolloutIsAny, TypedStep, ApprovalsFollowStep DEF RolloutInv
<1>. QED  BY <1>1, <1>2, PTL DEF RolloutSpec

-----------------------------------------------------------------------------
(* EarnedInBoth and what is made of it, of the next state.                  *)
EarnedNext(k, phase) ==
    /\ ReviewedInBoth[k][phase] \subseteq granted'[k]
    /\ DemandedInBoth[k][phase] \subseteq granted'[k] \cup answered'[k]

SoundNext(k, phase) == phase \in {None, FAILED} \/ EarnedNext(k, phase)

SoundRowNext(k, row) == SoundNext(k, row.phase) /\ SoundNext(k, row.failed_from_phase)

SoundTaskNext(p, k, t) ==
    t.stage # "none" =>
        /\ EarnedNext(k, t.phase)
        /\ t.stage # "created" => ~Reviewed(p, t.phase)
        /\ t.stage \in {"loading", "saving"} /\ AgentPhase(p, t.phase) =>
              t.outcome = "error" \/ t.phase \in answered'[k]
        /\ t.stage = "saving" => SoundRowNext(k, t.loaded)

(* What was earned stays earned.                                            *)
LEMMA PastStays ==
    ASSUME Recorded, NEW k \in Keys
    PROVE  /\ \A row : SoundRowInBoth(k, row) => SoundRowNext(k, row)
           /\ \A r, t : SoundTaskInBoth(r, k, t) => SoundTaskNext(PolicyAt(r, k), k, t)
<1>1. granted[k] \subseteq granted'[k] /\ answered[k] \subseteq answered'[k]
  BY DEF Recorded
<1>2. \A n : EarnedInBoth(k, n) => EarnedNext(k, n)
  BY <1>1 DEF EarnedInBoth, EarnedNext
<1>3. \A row : SoundRowInBoth(k, row) => SoundRowNext(k, row)
  BY <1>2 DEF SoundRowInBoth, SoundRowNext, SoundInBoth, SoundNext
<1>. QED  BY <1>1, <1>2, <1>3 DEF SoundTaskInBoth, SoundTaskNext

(* The policies a process may go by, of either configuration.               *)
PoliciesOf(k) == {PolicyOf(k), New!PolicyOf(k)}

LEMMA PolicyFacts ==
    ASSUME NEW k, NEW p \in PoliciesOf(k)
    PROVE  /\ p.phases \in Seq(PhaseConfig)
           /\ FAILED \notin PhaseNames(p)
           /\ p # NoPolicy => ValidPolicy(p)
<1>1. PhaseNames(NoPolicy) = {}
  BY DEF NoPolicy, PhaseNames
<1>2. CASE p = PolicyOf(k)
  BY <1>1, <1>2, Lookups, MatchPolicy DEF PolicyOf
<1>3. CASE p = New!PolicyOf(k)
  <2>. DEFINE handlers == {m \in DOMAIN NewPolicies :
                             EventType[k] \in NewPolicies[m].event_types}
  <2>1. p = IF handlers = {} THEN NoPolicy ELSE NewPolicies[Min(handlers)]
    BY <1>3, SameWords, SameMin DEF New!PolicyOf, New!match_policy
  <2>2. handlers \in SUBSET Nat
    BY NewPoliciesAssumption
  <2>3. p = NoPolicy \/ (ValidPolicy(p) /\ FAILED \notin PhaseNames(p))
    BY <2>1, <2>2, MinIsLeast, NewPoliciesAssumption
  <2>. HIDE DEF handlers
  <2>. QED  BY <1>1, <1>3, <2>3, NewLookups
<1>. QED  BY <1>2, <1>3 DEF PoliciesOf

LEMMA BeforeFacts ==
    ASSUME NEW p, NEW n
    PROVE  /\ Before(p, n) \subseteq PhaseNames(p)
           /\ n \notin PhaseNames(p) => Before(p, n) = PhaseNames(p)
BY DEF Before, PhaseNames, Positions

(* A phase both put before the next one is the phase just left, or stands   *)
(* before it in both: the other policy has no phase in between.             *)
LEMMA BeforeNextInBoth ==
    ASSUME SameOrder, NEW k \in Keys, NEW p \in PoliciesOf(k), NEW n,
           next_phase(p, n) # NoPhase
    PROVE  BeforeInBoth(k, next_phase(p, n).name) \subseteq BeforeInBoth(k, n) \cup {n}
<1>. DEFINE q == next_phase(p, n).name
<1>1. p.phases \in Seq(PhaseConfig)
  BY PolicyFacts
<1>2. Before(p, q) \subseteq Before(p, n) \cup {n}
  BY <1>1, BeforeNextPhase
<1>3. n \in PhaseNames(p)
  BY <1>1, NextPhaseInPolicy DEF Positions, PhaseNames
<1>. HIDE DEF q
<1>4. ASSUME NEW o \in PoliciesOf(k), PoliciesOf(k) = {p, o},
             NEW m \in Before(p, q) \cap Before(o, q), m # n
      PROVE  m \in Before(p, n) \cap Before(o, n)
  <2>1. m \in Before(p, n)
    BY <1>2, <1>4
  <2>2. CASE n \notin PhaseNames(o)
    BY <1>4, <2>1, <2>2, BeforeFacts
  <2>3. CASE n \in PhaseNames(o)
    <3>1. m \in PhaseNames(p) \cap PhaseNames(o)
      BY <1>4, BeforeFacts
    <3>. QED  BY <1>3, <1>4, <2>1, <2>3, <3>1 DEF SameOrder, PoliciesOf
  <2>. QED  BY <2>1, <2>2, <2>3
<1>5. CASE p = PolicyOf(k)
  BY <1>4, <1>5 DEF PoliciesOf, BeforeInBoth, q
<1>6. CASE p = New!PolicyOf(k)
  BY <1>4, <1>6 DEF PoliciesOf, BeforeInBoth, q
<1>. QED  BY <1>5, <1>6 DEF PoliciesOf

(* A phase is earned once the one before it is, and was passed.             *)
LEMMA NextIsEarned ==
    ASSUME SameOrder, NEW k \in Keys, NEW p \in PoliciesOf(k), NEW n \in Names,
           next_phase(p, n) # NoPhase, EarnedNext(k, n),
           Reviewed(p, n) => n \in granted'[k],
           Demanded(p, n) => n \in granted'[k] \cup answered'[k]
    PROVE  EarnedNext(k, next_phase(p, n).name)
<1>. DEFINE q == next_phase(p, n).name
<1>1. BeforeInBoth(k, q) \subseteq BeforeInBoth(k, n) \cup {n}
  BY BeforeNextInBoth
<1>2. q \in Names
  BY PolicyFacts, NextPhaseType DEF PhaseConfig
<1>. HIDE DEF q
<1>3. /\ ReviewedInBoth[k][q] \subseteq
            ReviewedInBoth[k][n] \cup {m \in {n} : Reviewed(p, m)}
      /\ DemandedInBoth[k][q] \subseteq
            DemandedInBoth[k][n] \cup {m \in {n} : Demanded(p, m)}
  BY <1>1, <1>2 DEF ReviewedInBoth, DemandedInBoth, PoliciesOf
<1>. QED  BY <1>3 DEF EarnedNext, q

(* The columns a writer changes are sound, those it leaves alone were.      *)
LEMMA SoundWriters ==
    ASSUME NEW k, NEW row \in WorkItem, SoundRowNext(k, row)
    PROVE  /\ \A m : SoundRowNext(k, Claimed(row, m))
           /\ \A n, done : SoundNext(k, n) => SoundRowNext(k, Advanced(row, n, done))
           /\ \A n : SoundNext(k, n) => SoundRowNext(k, Failed(row, n))
           /\ SoundRowNext(k, Released(row))
           /\ \A n : SoundNext(k, n) => SoundRowNext(k, Approved(row, n))
           /\ SoundRowNext(k, Denied(row))
           /\ SoundRowNext(k, Retried(row))
           /\ SoundRowNext(k, Older(row))
<1>1. SoundNext(k, None) /\ SoundNext(k, FAILED)
  BY DEF SoundNext
<1>. HIDE DEF SoundNext
<1>. QED
  BY <1>1
  DEF SoundRowNext, WorkItem, Claimed, Advanced, Failed, Released, Approved, Denied,
      Retried, Older

LEMMA SoundFlush ==
    ASSUME NEW k, NEW now, NEW old, NEW new, SoundRowNext(k, now), SoundRowNext(k, new)
    PROVE  /\ SoundRowNext(k, Flush(now, old, new))
           /\ \A done : SoundRowNext(k, FlushResult(now, old, new, done))
           /\ \A differs : SoundRowNext(k, FlushReason(now, old, new, differs))
BY DEF SoundRowNext, Flush, FlushResult, FlushReason, Column
-----------------------------------------------------------------------------
(* The parts of the invariant in the next state.                            *)
RowsNext == \A k \in Keys : items'[k] # NoRow => SoundRowNext(k, items'[k])

TasksNext ==
    \A r \in Replicas, k \in Keys : SoundTaskNext(PolicyAt(r, k)', k, tasks'[r][k])

RequestsNext ==
    \A q \in Requests :
        requests'[q] # Closed => SoundRowNext(requests'[q].key, requests'[q].loaded)

LEMMA PartsMakeInv ==
    ASSUME RowsNext, TasksNext, RequestsNext
    PROVE  RolloutPassageInv'
BY DEF RowsNext, TasksNext, RequestsNext, RolloutPassageInv, Rows, Exists, SoundRowInBoth,
       SoundRowNext, SoundInBoth, SoundNext, EarnedInBoth, EarnedNext, SoundTaskInBoth,
       SoundTaskNext

(* What a step leaves alone, or writes to one item, coroutine or request.   *)
LEMMA Untouched ==
    ASSUME RolloutInv, RolloutPassageInv, Recorded
    PROVE  /\ \A k \in Keys : Exists(k) => SoundRowNext(k, items[k])
           /\ \A r \in Replicas, k \in Keys : SoundTaskNext(PolicyAt(r, k), k, tasks[r][k])
           /\ \A q \in Requests : requests[q] # Closed =>
                 SoundRowNext(requests[q].key, requests[q].loaded)
           /\ items' = items => RowsNext
           /\ tasks' = tasks /\ upgraded' = upgraded => TasksNext
           /\ requests' = requests => RequestsNext
<1>1. \A k \in Keys : Exists(k) => SoundRowNext(k, items[k])
  BY PastStays DEF RolloutPassageInv, Rows
<1>2. \A r \in Replicas, k \in Keys : SoundTaskNext(PolicyAt(r, k), k, tasks[r][k])
  BY PastStays DEF RolloutPassageInv
<1>3. ASSUME NEW q \in Requests, requests[q] # Closed
      PROVE  SoundRowNext(requests[q].key, requests[q].loaded)
  <2>1. requests[q].key \in Keys
    BY <1>3 DEF RolloutInv, Typed, TypeOK, Request
  <2>. QED  BY <1>3, <2>1, PastStays DEF RolloutPassageInv
<1>4. upgraded' = upgraded =>
         \A r \in Replicas, k \in Keys : PolicyAt(r, k)' = PolicyAt(r, k)
  BY DEF PolicyAt
<1>. QED  BY <1>1, <1>2, <1>3, <1>4 DEF RowsNext, TasksNext, RequestsNext, Exists

LEMMA RowWritten ==
    ASSUME RolloutInv, RolloutPassageInv, Recorded, NEW k \in Keys, NEW row,
           items' = [items EXCEPT ![k] = row], row = NoRow \/ SoundRowNext(k, row)
    PROVE  RowsNext
BY Untouched DEF RowsNext, Exists, RolloutInv, Typed, TypeOK

LEMMA TaskWritten ==
    ASSUME RolloutInv, RolloutPassageInv, Recorded, upgraded' = upgraded,
           NEW r \in Replicas, NEW k \in Keys, NEW t,
           SetTask(r, k, t), SoundTaskNext(PolicyAt(r, k), k, t)
    PROVE  TasksNext
<1>1. \A r2 \in Replicas, k2 \in Keys :
         tasks'[r2][k2] = IF r2 = r /\ k2 = k THEN t ELSE tasks[r2][k2]
  BY DEF SetTask, RolloutInv, Typed, TypeOK
<1>2. \A r2 \in Replicas, k2 \in Keys : PolicyAt(r2, k2)' = PolicyAt(r2, k2)
  BY DEF PolicyAt
<1>. QED  BY <1>1, <1>2, Untouched DEF TasksNext

LEMMA NoTaskIsSound == \A p, k : SoundTaskNext(p, k, NoTask)
BY DEF SoundTaskNext, NoTask

LEMMA RequestWritten ==
    ASSUME RolloutInv, RolloutPassageInv, Recorded, NEW q \in Requests, NEW req,
           SetRequest(q, req), req # Closed => SoundRowNext(req.key, req.loaded)
    PROVE  RequestsNext
BY Untouched DEF RequestsNext, SetRequest, RolloutInv, Typed, TypeOK
-----------------------------------------------------------------------------
(* The loop of either configuration creates tasks from rows that can run.   *)
LEMMA LoopTasks ==
    ASSUME Typed, NEW r \in Replicas, LoopStep(r) \/ New!LoopStep(r), tasks' # tasks,
           NEW k \in Keys
    PROVE  /\ \A r2 \in Replicas \ {r} : tasks'[r2][k] = tasks[r2][k]
           /\ \/ tasks'[r][k] = NoTask
              \/ /\ Exists(k) /\ items[k].phase # FAILED
                 /\ tasks'[r][k].stage = "created"
                 /\ tasks'[r][k].phase = items[k].phase
<1>1. SelectReady(r) \/ New!SelectReady(r)
  BY LoopIsAny, NewLoopIsAny
  DEF LoopStep, New!LoopStep, CleanupCompleted, ReleaseLoad, ReleaseCommit, ReleaseRowGone,
      GatherDone, UpdateGauges, Wake, New!CleanupCompleted, New!ReleaseLoad,
      New!ReleaseCommit, New!ReleaseRowGone, New!GatherDone, New!UpdateGauges, New!Wake
<1>2. CASE SelectReady(r)
  BY <1>2 DEF SelectReady, Selectable, NoTask, Typed, TypeOK
<1>3. CASE New!SelectReady(r)
  BY <1>3, SameWords, SameWriters, SameSteps
  DEF New!SelectReady, New!Selectable, NoTask, Typed, TypeOK
<1>. QED  BY <1>1, <1>2, <1>3

LEMMA LoopRows ==
    ASSUME Typed, NEW r \in Replicas, AnyLoopStep(r), NEW k \in Keys
    PROVE  \/ items'[k] \in {NoRow, items[k]}
           \/ Exists(k) /\ items'[k] = Released(items[k])
<1>1. CASE CleanupCompleted(r)
  BY <1>1 DEF CleanupCompleted
<1>2. CASE ReleaseCommit(r)
  BY <1>2 DEF ReleaseCommit
<1>3. CASE items' = items
  BY <1>3
<1>. QED
  BY <1>1, <1>2, <1>3
  DEF AnyLoopStep, ReleaseLoad, ReleaseRowGone, AnySelect, GatherDone, UpdateGauges, Wake,
      Start, CycleFails

LEMMA LoopInBoth ==
    ASSUME RolloutInv, RolloutPassageInv, Recorded, upgraded' = upgraded,
           NEW r \in Replicas, LoopStep(r) \/ New!LoopStep(r)
    PROVE  RowsNext /\ TasksNext
<1>1. ASSUME NEW k \in Keys, items'[k] # NoRow
      PROVE  SoundRowNext(k, items'[k])
  <2>1. items'[k] = items[k] \/ (Exists(k) /\ items'[k] = Released(items[k]))
    BY <1>1, LoopIsAny, NewLoopIsAny, LoopRows DEF RolloutInv
  <2>2. Exists(k) /\ items[k] \in WorkItem
    BY <1>1, <2>1 DEF Exists, RolloutInv, Typed, TypeOK
  <2>. QED  BY <2>1, <2>2, Untouched, SoundWriters
<1>2. ASSUME tasks' # tasks, NEW r2 \in Replicas, NEW k \in Keys
      PROVE  SoundTaskNext(PolicyAt(r2, k)', k, tasks'[r2][k])
  <2>1. CASE tasks'[r2][k] = tasks[r2][k]
    BY <2>1, Untouched DEF PolicyAt
  <2>2. CASE tasks'[r2][k] = NoTask
    BY <2>2, NoTaskIsSound
  <2>3. CASE /\ Exists(k) /\ items[k].phase # FAILED
             /\ tasks'[r2][k].stage = "created" /\ tasks'[r2][k].phase = items[k].phase
    <3>1. items[k].phase # None
      BY <2>3, NamesAssumption DEF Exists, WorkItem, RolloutInv, Typed, TypeOK
    <3>2. EarnedNext(k, items[k].phase)
      BY <2>3, <3>1, Untouched DEF SoundRowNext, SoundNext
    <3>. QED  BY <2>3, <3>2 DEF SoundTaskNext
  <2>. QED  BY <1>2, <2>1, <2>2, <2>3, LoopTasks DEF RolloutInv
<1>. QED  BY <1>1, <1>2, Untouched DEF RowsNext, TasksNext

(* A coroutine by the policy of its process: its claim, its call, its save. *)
LEMMA ClaimInBoth ==
    ASSUME RolloutInv, RolloutPassageInv, Recorded, upgraded' = upgraded,
           NEW r \in Replicas, NEW k \in Keys, ClaimBy(PolicyAt(r, k), r, k)
    PROVE  RowsNext /\ TasksNext
<1>. DEFINE t == tasks[r][k]
            c == get_phase(PolicyAt(r, k), t.phase)
            n == IF c.mode = MANUAL THEN NoTask
                 ELSE IF c.operation THEN [t EXCEPT !.stage = "calling"]
                 ELSE [t EXCEPT !.stage = "loading", !.outcome = "skipped"]
<1>1. Exists(k) /\ items[k] \in WorkItem /\ t \in Task
  BY DEF ClaimBy, Exists, RolloutInv, Typed, TypeOK
<1>2. RowsNext
  <2>1. \A m : SoundRowNext(k, Claimed(items[k], m))
    BY <1>1, Untouched, SoundWriters
  <2>. QED  BY <2>1, RowWritten DEF ClaimBy
<1>3. t.stage = "created" /\ SetTask(r, k, n)
  BY DEF ClaimBy
<1>4. EarnedNext(k, t.phase)
  BY <1>3, Untouched DEF SoundTaskNext
<1>5. SoundTaskNext(PolicyAt(r, k), k, n)
  <2>1. CASE c.mode = MANUAL
    BY <2>1, NoTaskIsSound
  <2>2. CASE c.mode # MANUAL
    <3>1. /\ n.phase = t.phase /\ n.stage \in {"calling", "loading"}
          /\ n.stage = "loading" => ~c.operation
      BY <1>1, <2>2 DEF Task
    <3>. HIDE DEF n
    <3>. QED  BY <1>4, <2>2, <3>1 DEF SoundTaskNext, Reviewed, AgentPhase
  <2>. QED  BY <2>1, <2>2
<1>. HIDE DEF n
<1>. QED  BY <1>2, <1>3, <1>5, TaskWritten

LEMMA AnswerInBoth ==
    ASSUME RolloutInv, RolloutPassageInv, Recorded, upgraded' = upgraded,
           NEW r \in Replicas, NEW k \in Keys, AgentAnswers(r, k) \/ AgentFails(r, k)
    PROVE  RowsNext /\ TasksNext
<1>. DEFINE t    == tasks[r][k]
            n(o) == [t EXCEPT !.stage = "loading", !.outcome = o]
<1>1. t \in Task
  BY DEF RolloutInv, Typed, TypeOK
<1>2. PICK o \in {"result", "error"} : AgentReturns(r, k, o)
  BY DEF AgentAnswers, AgentFails
<1>3. t.stage = "calling" /\ SetTask(r, k, n(o)) /\ items' = items
  BY <1>2 DEF AgentReturns
<1>4. n(o).stage = "loading" /\ n(o).phase = t.phase /\ n(o).outcome = o
  BY <1>1 DEF Task
<1>5. tasks'[r][k] = n(o)
  BY <1>3 DEF SetTask, RolloutInv, Typed, TypeOK
<1>. HIDE DEF n
<1>6. o = "result" => t.phase \in answered'[k]
  BY <1>4, <1>5 DEF Recorded, Results
<1>7. SoundTaskNext(PolicyAt(r, k), k, n(o))
  BY <1>3, <1>4, <1>6, Untouched DEF SoundTaskNext
<1>. QED  BY <1>3, <1>7, TaskWritten, Untouched

LEMMA LoadInBoth ==
    ASSUME RolloutInv, RolloutPassageInv, Recorded, upgraded' = upgraded,
           NEW r \in Replicas, NEW k \in Keys, Load(r, k)
    PROVE  RowsNext /\ TasksNext
<1>. DEFINE t == tasks[r][k]
            n == [t EXCEPT !.stage = "saving", !.loaded = items[k]]
<1>1. CASE Exists(k)
  <2>1. t \in Task /\ t.stage = "loading" /\ SetTask(r, k, n) /\ items' = items
    BY <1>1 DEF Load, RolloutInv, Typed, TypeOK
  <2>2. n.stage = "saving" /\ n.phase = t.phase /\ n.outcome = t.outcome
        /\ n.loaded = items[k]
    BY <2>1 DEF Task
  <2>. HIDE DEF n
  <2>3. SoundTaskNext(PolicyAt(r, k), k, n)
    BY <1>1, <2>1, <2>2, Untouched DEF SoundTaskNext
  <2>. QED  BY <2>1, <2>3, TaskWritten, Untouched
<1>2. CASE ~Exists(k)
  BY <1>2, NoTaskIsSound, TaskWritten, Untouched DEF Load
<1>. QED  BY <1>1, <1>2

LEMMA SaveInBoth ==
    ASSUME SameOrder, RolloutInv, RolloutPassageInv, Recorded, upgraded' = upgraded,
           NEW r \in Replicas, NEW k \in Keys, SaveBy(PolicyAt(r, k), r, k)
    PROVE  RowsNext /\ TasksNext
<1>. DEFINE t    == tasks[r][k]
            p    == PolicyAt(r, k)
            done == IF t.outcome = "result" THEN {t.phase} ELSE {}
            next == next_phase(p, t.phase).name
<1>1. t.stage = "saving" /\ Exists(k) /\ SetTask(r, k, NoTask)
  BY DEF SaveBy
<1>2. TasksNext
  BY <1>1, NoTaskIsSound, TaskWritten
<1>3. items[k] \in WorkItem /\ t.loaded \in WorkItem /\ t.phase \in Names
  BY <1>1 DEF Exists, RolloutInv, Typed, TypeOK, TasksTyped
<1>4. SoundRowNext(k, items[k]) /\ SoundRowNext(k, t.loaded) /\ EarnedNext(k, t.phase)
  BY <1>1, Untouched DEF SoundTaskNext
<1>5. CASE /\ t.outcome # "error" /\ next_phase(p, t.phase) # NoPhase
           /\ items' = [items EXCEPT ![k] =
                       FlushResult(@, t.loaded, Advanced(t.loaded, next, done), done)]
  <2>1. p \in PoliciesOf(k)
    BY DEF PolicyAt, PoliciesOf
  <2>2. ~Reviewed(p, t.phase) /\ (AgentPhase(p, t.phase) => t.phase \in answered'[k])
    BY <1>1, <1>5, Untouched DEF SoundTaskNext
  <2>3. EarnedNext(k, next)
    BY <1>3, <1>4, <1>5, <2>1, <2>2, NextIsEarned DEF Demanded
  <2>. HIDE DEF t, done, next
  <2>4. SoundRowNext(k, Advanced(t.loaded, next, done))
    BY <1>3, <1>4, <2>3, SoundWriters DEF SoundNext
  <2>5. SoundRowNext(k, FlushResult(items[k], t.loaded,
                                    Advanced(t.loaded, next, done), done))
    BY <1>4, <2>4, SoundFlush
  <2>. QED  BY <1>2, <1>5, <2>5, RowWritten
<1>6. ASSUME NEW differs,
             items' = [items EXCEPT ![k] =
                         FlushReason(@, t.loaded, Failed(t.loaded, t.phase), differs)]
      PROVE  RowsNext
  <2>1. SoundRowNext(k, Failed(t.loaded, t.phase))
    BY <1>3, <1>4, SoundWriters DEF SoundNext
  <2>2. SoundRowNext(k, FlushReason(items[k], t.loaded, Failed(t.loaded, t.phase),
                                    differs))
    BY <1>4, <2>1, SoundFlush
  <2>. QED  BY <1>6, <2>2, RowWritten
<1>. QED  BY <1>2, <1>5, <1>6 DEF SaveBy

LEMMA TaskInBoth ==
    ASSUME SameOrder, RolloutInv, RolloutPassageInv, Recorded, upgraded' = upgraded,
           NEW r \in Replicas, NEW k \in Keys,
           TaskBy(PolicyAt(r, k), r, k) \/ TaskDbError(r, k)
    PROVE  RowsNext /\ TasksNext
<1>1. CASE ClaimMisses(r, k) \/ SaveRowGone(r, k) \/ TaskDbError(r, k)
  BY <1>1, NoTaskIsSound, TaskWritten, Untouched DEF ClaimMisses, SaveRowGone, TaskDbError
<1>. QED
  BY <1>1, ClaimInBoth, AnswerInBoth, LoadInBoth, SaveInBoth DEF TaskBy
-----------------------------------------------------------------------------
(* The commits of the handlers: an approval passes the phase it read, by    *)
(* the policy its process has read.                                         *)
ApproveBy(p, q) ==
    LET row == requests[q].loaded
    IN  /\ Commit(q, "approve", Approved(row, next_phase(p, row.phase).name))
        /\ approved' = [approved EXCEPT ![requests[q].key] = @ \cup {row.phase}]

CommitBy(p, q) == ApproveBy(p, q) \/ Deny(q) \/ Retry(q) \/ Delete(q) \/ RowGone(q)

LEMMA CommitIsBy ==
    ASSUME NEW q
    PROVE  /\ CommitStep(q) => CommitBy(PolicyOf(requests[q].key), q)
           /\ New!CommitStep(q) => CommitBy(New!PolicyOf(requests[q].key), q)
<1>1. CommitStep(q) => CommitBy(PolicyOf(requests[q].key), q)
  BY DEF CommitStep, Approve, CommitBy, ApproveBy
<1>2. New!Approve(q) => ApproveBy(New!PolicyOf(requests[q].key), q)
  BY SameWriters, SameSteps, SameLookups DEF New!Approve, ApproveBy
<1>3. New!Deny(q) \/ New!Retry(q) \/ New!Delete(q) \/ New!RowGone(q)
         => Deny(q) \/ Retry(q) \/ Delete(q) \/ RowGone(q)
  BY SameWords, SameWriters, SameSteps
  DEF New!Deny, Deny, New!Retry, Retry, New!Delete, Delete, New!RowGone, RowGone
<1>. QED  BY <1>1, <1>2, <1>3 DEF New!CommitStep, CommitBy

LEMMA CommitInBoth ==
    ASSUME SameOrder, RolloutInv, RolloutPassageInv, Recorded, NEW q \in Requests,
           CommitBy(PolicyAt(requests[q].at, requests[q].key), q)
    PROVE  RowsNext /\ RequestsNext
<1>. DEFINE k    == requests[q].key
            row  == requests[q].loaded
            p    == PolicyAt(requests[q].at, k)
            next == next_phase(p, row.phase).name
<1>1. SetRequest(q, Closed) /\ requests[q].command \in Commands
  BY DEF CommitBy, ApproveBy, Deny, Retry, Delete, RowGone, Commit, Commands
<1>2. requests[q] \in Request /\ requests[q] # Closed
  BY <1>1, OpenRequestType DEF RolloutInv, Typed, Closed, Commands, None
<1>3. k \in Keys /\ row \in WorkItem
  BY <1>2 DEF Request
<1>4. SoundRowNext(k, row)
  BY <1>2, Untouched
<1>5. RequestsNext
  BY <1>1, RequestWritten
<1>6. ASSUME NEW command, NEW new, Commit(q, command, new), SoundRowNext(k, new)
      PROVE  RowsNext
  <2>1. Exists(k) /\ items' = [items EXCEPT ![k] = Flush(@, row, new)]
    BY <1>6 DEF Commit
  <2>2. SoundRowNext(k, Flush(items[k], row, new))
    BY <1>3, <1>6, <2>1, Untouched, SoundFlush
  <2>. QED  BY <1>3, <2>1, <2>2, RowWritten
<1>7. CASE ApproveBy(p, q)
  <2>1. Commit(q, "approve", Approved(row, next))
        /\ approved' = [approved EXCEPT ![k] = @ \cup {row.phase}]
    BY <1>7 DEF ApproveBy
  <2>2. next_phase(p, row.phase) # NoPhase
    BY <2>1 DEF Commit, RolloutInv, ApprovalsFollow
  <2>3. p \in PoliciesOf(k)
    BY DEF PolicyAt, PoliciesOf
  <2>4. row.phase \notin {None, FAILED} /\ row.phase \in Names
    <3>1. row.phase \in PhaseNames(p)
      BY <2>2, <2>3, PolicyFacts, NextPhaseInPolicy DEF Positions, PhaseNames
    <3>. QED  BY <1>3, <2>3, <3>1, PolicyFacts, NamesAssumption DEF WorkItem
  <2>5. EarnedNext(k, row.phase)
    BY <1>4, <2>4 DEF SoundRowNext, SoundNext
  <2>6. row.phase \in granted'[k]
    BY <1>3, <2>1 DEF Recorded, RolloutInv, Typed, TypeOK
  <2>7. EarnedNext(k, next)
    BY <1>3, <2>2, <2>3, <2>4, <2>5, <2>6, NextIsEarned
  <2>. HIDE DEF next
  <2>8. SoundRowNext(k, Approved(row, next))
    BY <1>3, <1>4, <2>7, SoundWriters DEF SoundNext
  <2>. QED  BY <1>5, <1>6, <2>1, <2>8
<1>8. CASE Deny(q)
  <2>1. PICK differs \in BOOLEAN :
           items' = [items EXCEPT ![k] = FlushReason(@, row, Denied(row), differs)]
    BY <1>8 DEF Deny
  <2>2. Exists(k) /\ SoundRowNext(k, Denied(row))
    BY <1>3, <1>4, <1>8, SoundWriters DEF Deny
  <2>3. SoundRowNext(k, FlushReason(items[k], row, Denied(row), differs))
    BY <1>3, <2>2, Untouched, SoundFlush
  <2>. QED  BY <1>3, <1>5, <2>1, <2>3, RowWritten
<1>9. CASE Retry(q)
  BY <1>3, <1>4, <1>5, <1>6, <1>9, SoundWriters DEF Retry
<1>10. CASE Delete(q)
  BY <1>3, <1>5, <1>10, RowWritten DEF Delete
<1>11. CASE RowGone(q)
  BY <1>5, <1>11, Untouched DEF RowGone
<1>. QED  BY <1>7, <1>8, <1>9, <1>10, <1>11 DEF CommitBy

(* A request keeps a copy of a sound row.                                   *)
LEMMA OpenInBoth ==
    ASSUME RolloutInv, RolloutPassageInv, Recorded, NEW r \in Replicas,
           NEW q \in Requests, NEW k \in Keys, NEW command, AnyLoad(r, q, k, command)
    PROVE  RowsNext /\ RequestsNext
<1>. DEFINE req == [at |-> r, key |-> k, command |-> command, loaded |-> items[k]]
<1>1. Exists(k) /\ SetRequest(q, req) /\ items' = items
  BY DEF AnyLoad, Open
<1>2. SoundRowNext(req.key, req.loaded)
  BY <1>1, Untouched
<1>. HIDE DEF req
<1>. QED  BY <1>1, <1>2, RequestWritten, Untouched

(* An item starts where the policy that stores it asks nothing of it.       *)
LEMMA IngestInBoth ==
    ASSUME RolloutInv, RolloutPassageInv, Recorded, NEW k \in Keys,
           ReceiveEvent(k) \/ New!ReceiveEvent(k)
    PROVE  RowsNext /\ RequestsNext
<1>. DEFINE StoredBy(p, row) ==
        /\ p # NoPolicy /\ items' = [items EXCEPT ![k] = row] /\ requests' = requests
        /\ row.phase = first_phase(p).name /\ row.failed_from_phase = None
<1>0. \E p \in PoliciesOf(k) : \E row : StoredBy(p, row)
  <2>1. CASE ReceiveEvent(k)
    <3>1. StoredBy(PolicyOf(k), Stored(k))
      BY <2>1 DEF ReceiveEvent, Stored
    <3>. HIDE DEF StoredBy
    <3>. QED  BY <3>1 DEF PoliciesOf
  <2>2. CASE New!ReceiveEvent(k)
    <3>1. StoredBy(New!PolicyOf(k), New!Stored(k))
      BY <2>2, SameWords, SameWriters, SameLookups DEF New!ReceiveEvent, New!Stored
    <3>. HIDE DEF StoredBy
    <3>. QED  BY <3>1 DEF PoliciesOf
  <2>. QED  BY <2>1, <2>2
<1>1. PICK p \in PoliciesOf(k) : \E row : StoredBy(p, row)
  BY <1>0
<1>2. PICK row : StoredBy(p, row)
  BY <1>1
<1>3. Before(p, row.phase) = {} /\ row.phase \in Names
  BY <1>2, PolicyFacts, BeforeFirstPhase DEF PhaseConfig
<1>4. BeforeInBoth(k, row.phase) = {}
  BY <1>3 DEF BeforeInBoth, PoliciesOf
<1>5. EarnedNext(k, row.phase)
  BY <1>3, <1>4 DEF EarnedNext, ReviewedInBoth, DemandedInBoth
<1>6. SoundRowNext(k, row)
  BY <1>2, <1>5 DEF SoundRowNext, SoundNext
<1>. QED  BY <1>2, <1>6, RowWritten, Untouched

(* Time changes no phase.                                                   *)
LEMMA TickInBoth ==
    ASSUME RolloutInv, RolloutPassageInv, Recorded, upgraded' = upgraded, Tick
    PROVE  RowsNext /\ TasksNext
<1>1. ASSUME NEW k \in Keys, items'[k] # NoRow
      PROVE  SoundRowNext(k, items'[k])
  <2>1. Exists(k) /\ items'[k] = Older(items[k])
    BY <1>1 DEF Tick, AgeLocks
  <2>2. items[k] \in WorkItem
    BY <2>1 DEF Exists, RolloutInv, Typed, TypeOK
  <2>. QED  BY <2>1, <2>2, Untouched, SoundWriters
<1>2. ASSUME NEW r \in Replicas, NEW k \in Keys
      PROVE  SoundTaskNext(PolicyAt(r, k)', k, tasks'[r][k])
  <2>. DEFINE t == tasks[r][k]
              n == IF t.stage \in {"calling", "loading", "saving"}
                   THEN [t EXCEPT !.held = @ + 1] ELSE t
  <2>1. tasks'[r][k] = n /\ t \in Task
    BY DEF Tick, RolloutInv, Typed, TypeOK
  <2>2. n.stage = t.stage /\ n.phase = t.phase /\ n.outcome = t.outcome
        /\ n.loaded = t.loaded
    BY <2>1 DEF Task
  <2>3. PolicyAt(r, k)' = PolicyAt(r, k)
    BY DEF PolicyAt
  <2>. HIDE DEF n
  <2>. QED  BY <2>1, <2>2, <2>3, Untouched DEF SoundTaskNext
<1>. QED  BY <1>1, <1>2 DEF RowsNext, TasksNext

(* The end of a process only forgets: what it may read anew afterwards is   *)
(* used by none of its coroutines.                                          *)
LEMMA StopInBoth ==
    ASSUME RolloutInv, RolloutPassageInv, Recorded, NEW r \in Replicas, AnyStop(r),
           upgraded' \in {upgraded, upgraded \cup {r}}
    PROVE  RowsNext /\ TasksNext /\ RequestsNext
<1>1. \A r2 \in Replicas, k \in Keys :
         tasks'[r2][k] = IF r2 = r THEN NoTask ELSE tasks[r2][k]
  BY DEF AnyStop, Stop, RolloutInv, Typed, TypeOK
<1>2. \A r2 \in Replicas \ {r}, k \in Keys : PolicyAt(r2, k)' = PolicyAt(r2, k)
  BY DEF PolicyAt
<1>3. \A q \in Requests : requests'[q] = Closed \/ requests'[q] = requests[q]
  BY DEF AnyStop, DropRequests
<1>4. items' = items
  BY DEF AnyStop, Stop
<1>. QED  BY <1>1, <1>2, <1>3, <1>4, Untouched, NoTaskIsSound DEF TasksNext, RequestsNext
-----------------------------------------------------------------------------
LEMMA RolloutPassageInvInit == RolloutPassageInit => RolloutPassageInv
BY DEF RolloutPassageInit, PassageInit, ServiceInit, Init, OrchestratorInit, RoutesInit,
       RolloutPassageInv, Rows, Exists, SoundTaskInBoth, NoTask

LEMMA RolloutPassageInvStep ==
    ASSUME SameOrder, RolloutInv, RolloutPassageInv,
           [RolloutPassageNext]_<<rollout, history>>
    PROVE  RolloutPassageInv'
<1>. USE DEF orchestrator, routes
<1>1. CASE UNCHANGED <<rollout, history>>
  <2>1. /\ items' = items /\ tasks' = tasks /\ requests' = requests
        /\ upgraded' = upgraded /\ granted' = granted /\ answered' = answered
    BY <1>1 DEF rollout, vars, history
  <2>2. \A k, n : EarnedInBoth(k, n)' <=> EarnedInBoth(k, n)
    BY <2>1 DEF EarnedInBoth
  <2>3. \A k, row : SoundRowInBoth(k, row)' <=> SoundRowInBoth(k, row)
    BY <2>2 DEF SoundRowInBoth, SoundInBoth
  <2>4. \A r, k, t : SoundTaskInBoth(r, k, t)' <=> SoundTaskInBoth(r, k, t)
    BY <2>1, <2>2, <2>3 DEF SoundTaskInBoth, PolicyAt
  <2>. HIDE DEF orchestrator, routes
  <2>. QED
    BY <2>1, <2>3, <2>4 DEF RolloutPassageInv, Rows, Exists
<1>2. CASE RolloutPassageNext
  <2>1. RolloutNext /\ Recorded
    BY <1>2 DEF RolloutPassageNext
  <2>2. ASSUME NEW r \in Replicas, LoopOf(r) PROVE RolloutPassageInv'
    <3>1. (LoopStep(r) \/ New!LoopStep(r)) /\ requests' = requests /\ upgraded' = upgraded
      BY <2>2 DEF LoopOf, Old, Upgraded, Loop, New!Loop, New!routes
    <3>. QED  BY <2>1, <3>1, LoopInBoth, Untouched, PartsMakeInv
  <2>3. ASSUME NEW r \in Replicas, Upgrade(r) PROVE RolloutPassageInv'
    BY <2>1, <2>3, StopInBoth, PartsMakeInv DEF Upgrade, AnyStop
  <2>4. ASSUME NEW r \in Replicas, NEW k \in Keys, RunOf(r, k) PROVE RolloutPassageInv'
    <3>1. TaskBy(PolicyAt(r, k), r, k) /\ requests' = requests /\ upgraded' = upgraded
      BY <2>4, OldTaskIsBy, NewTaskIsBy
      DEF RunOf, Old, Upgraded, Run, New!Run, New!routes, PolicyAt
    <3>. QED  BY <2>1, <3>1, TaskInBoth, Untouched, PartsMakeInv
  <2>5. ASSUME NEW r \in Replicas, NEW k \in Keys, IngestOf(r, k) PROVE RolloutPassageInv'
    <3>1. /\ ReceiveEvent(k) \/ New!ReceiveEvent(k)
          /\ tasks' = tasks /\ upgraded' = upgraded
      BY <2>5 DEF IngestOf, Old, Upgraded, Ingest, New!Ingest, New!orchestrator
    <3>. QED  BY <2>1, <3>1, IngestInBoth, Untouched, PartsMakeInv
  <2>6. ASSUME NEW r \in Replicas, NEW q \in Requests, NEW k \in Keys,
               NEW command \in Clients, RequestOf(r, q, k, command)
        PROVE  RolloutPassageInv'
    <3>1. AnyLoad(r, q, k, command) /\ tasks' = tasks /\ upgraded' = upgraded
      BY <2>6, LoadIsAny, NewLoadIsAny
      DEF RequestOf, Old, Upgraded, OpenRequest, New!OpenRequest, New!orchestrator
    <3>. QED  BY <2>1, <3>1, OpenInBoth, Untouched, PartsMakeInv
  <2>7. ASSUME NEW q \in Requests, CommitOf(q) PROVE RolloutPassageInv'
    <3>1. /\ CommitBy(PolicyAt(requests[q].at, requests[q].key), q)
          /\ tasks' = tasks /\ upgraded' = upgraded
      BY <2>7, CommitIsBy
      DEF CommitOf, Old, Upgraded, CloseRequest, New!CloseRequest, New!orchestrator, PolicyAt
    <3>. QED  BY <2>1, <3>1, CommitInBoth, Untouched, PartsMakeInv
  <2>8. CASE Rest
    <3>1. ASSUME NEW r \in Replicas, Boot(r) \/ LoopError(r) PROVE RolloutPassageInv'
      BY <2>1, <2>8, <3>1, Untouched, PartsMakeInv DEF Rest, Boot, Start, LoopError, CycleFails
    <3>2. ASSUME NEW r \in Replicas, Crash(r) PROVE RolloutPassageInv'
      BY <2>1, <2>8, <3>2, StopInBoth, PartsMakeInv DEF Rest, Crash, AnyStop
    <3>3. ASSUME NEW r \in Replicas, NEW k \in Keys, TaskError(r, k)
          PROVE  RolloutPassageInv'
      BY <2>1, <2>8, <3>3, TaskInBoth, Untouched, PartsMakeInv DEF Rest, TaskError
    <3>4. CASE Time
      BY <2>1, <2>8, <3>4, TickInBoth, Untouched, PartsMakeInv DEF Rest, Time
    <3>. QED  BY <2>8, <3>1, <3>2, <3>3, <3>4 DEF Rest
  <2>. QED
    BY <2>1, <2>2, <2>3, <2>4, <2>5, <2>6, <2>7, <2>8 DEF RolloutNext
<1>. QED  BY <1>1, <1>2

(***************************************************************************)
(* While a configuration is rolled out that adds, drops or changes phases  *)
(* but reorders none, no writer of either configuration has a phase in     *)
(* hand, in a row, a coroutine or a request, before which something that   *)
(* both ask of the item was left out: for every pair of configurations,    *)
(* any replicas and clients, claims taken from each other, late commits    *)
(* and crashes (orchestrator.py:67-128, items.py:95-212, config.py:66-71). *)
(***************************************************************************)
THEOREM RolloutIsSound ==
    ASSUME SameOrder
    PROVE  RolloutPassageSpec => []RolloutPassageInv
<1>1. RolloutPassageInit => RolloutInv /\ RolloutPassageInv
  <2>1. ServiceInit => RolloutInv
    BY InitTypeInv, TypeInvIsTyped, NothingClosed
    DEF RolloutInv, ServiceInit, RoutesInit, ApprovalsFollow, Commands
  <2>. QED  BY <2>1, RolloutPassageInvInit DEF RolloutPassageInit, PassageInit
<1>2. ASSUME RolloutInv, RolloutPassageInv, [RolloutPassageNext]_<<rollout, history>>
      PROVE  RolloutInv' /\ RolloutPassageInv'
  <2>1. [RolloutNext]_rollout
    BY <1>2 DEF RolloutPassageNext
  <2>2. RolloutInv'
    BY <1>2, <2>1, RolloutIsAny, TypedStep, ApprovalsFollowStep DEF RolloutInv
  <2>. QED  BY <1>2, <2>2, RolloutPassageInvStep
<1>3. RolloutInv /\ RolloutPassageInv /\ [RolloutPassageNext]_<<rollout, history>>
         => (RolloutInv /\ RolloutPassageInv)'
  BY <1>2
<1>. QED  BY <1>1, <1>3, PTL DEF RolloutPassageSpec

(***************************************************************************)
(* An agent is called and an item completed only when all that both        *)
(* configurations put before has been approved or answered, whichever      *)
(* process, old or new, passed it on (README.md:66-77, 184-195,            *)
(* orchestrator.py:75-128, 250).                                           *)
(***************************************************************************)
THEOREM RolloutLeavesNothingOut ==
    ASSUME SameOrder
    PROVE  RolloutPassageSpec => []RolloutSkipsNothing
<1>1. RolloutPassageInv => RolloutSkipsNothing
  BY DEF RolloutPassageInv, SoundTaskInBoth, SoundRowInBoth, SoundInBoth,
         RolloutSkipsNothing, Calling, Rows, COMPLETED, FAILED, None
<1>. QED  BY <1>1, RolloutIsSound, PTL
=============================================================================
