---------------------------- MODULE SafetyProofs ----------------------------
(***************************************************************************)
(* The safety of the service when one replica runs and no two requests for *)
(* one item are open at once, for any number of items, any configuration   *)
(* and any faults.  The inductive invariant is IInv of Invariants; what    *)
(* makes it inductive is that whoever writes a row later than he read it   *)
(* keeps everybody else off that row meanwhile.                            *)
(***************************************************************************)
EXTENDS TypeProofs, Gauges

-----------------------------------------------------------------------------
(* The policy of a row, and where its phase leads (policies are valid).     *)
LEMMA PhaseFacts ==
    ASSUME NEW k, PolicyOf(k) # NoPolicy, NEW n \in PhaseNames(PolicyOf(k))
    PROVE  /\ n # FAILED /\ FAILED \notin PhaseNames(PolicyOf(k))
           /\ n \in Names
           /\ get_phase(PolicyOf(k), n) # NoPhase
           /\ get_phase(PolicyOf(k), n).mode \in {AUTOMATIC, MANUAL}
           /\ n # COMPLETED => next_phase(PolicyOf(k), n) # NoPhase
           /\ next_phase(PolicyOf(k), n) # NoPhase =>
                 next_phase(PolicyOf(k), n).name \in PhaseNames(PolicyOf(k))
           /\ n \notin Before(PolicyOf(k), n)
<1>1. ValidPolicy(PolicyOf(k)) /\ FAILED \notin PhaseNames(PolicyOf(k))
  BY MatchPolicy DEF PolicyOf
<1>2. PolicyOf(k).phases \in Seq(PhaseConfig)
  BY Lookups
<1>3. get_phase(PolicyOf(k), n) \in PhaseConfig /\ get_phase(PolicyOf(k), n).name = n
      /\ get_phase(PolicyOf(k), n) # NoPhase
  BY <1>2, GetPhase
<1>4. get_phase(PolicyOf(k), n).mode \in {AUTOMATIC, MANUAL} /\ n \in Names
  BY <1>3 DEF PhaseConfig
<1>5. n # COMPLETED => next_phase(PolicyOf(k), n) # NoPhase
  BY <1>1, NextPhaseExists
<1>6. next_phase(PolicyOf(k), n) # NoPhase =>
         next_phase(PolicyOf(k), n).name \in PhaseNames(PolicyOf(k))
  BY <1>2, NextPhaseType
<1>7. n \notin Before(PolicyOf(k), n)
  BY <1>2, NotBeforeItself
<1>. QED  BY <1>1, <1>3, <1>4, <1>5, <1>6, <1>7

(* Writing back a copy that is not stale is writing the row.                *)
LEMMA FlushOfFreshCopy ==
    ASSUME NEW row \in WorkItem, NEW copy \in WorkItem, NEW new \in WorkItem,
           Unchanged(row, copy), new.locked_at = NoLock
    PROVE  /\ Flush(row, copy, new) = new
           /\ \A done : FlushResult(row, copy, new, done) = new
           /\ \A differs : FlushReason(row, copy, new, differs) = new
<1>1. Flush(row, copy, new) = new
  BY DEF Flush, Column, Unchanged, WorkItem
<1>2. \A done : FlushResult(row, copy, new, done) = new
  BY <1>1 DEF FlushResult, WorkItem
<1>3. \A differs : FlushReason(row, copy, new, differs) = new
  BY <1>1 DEF FlushReason, WorkItem
<1>. QED  BY <1>1, <1>2, <1>3
-----------------------------------------------------------------------------
(* Who may write a row keeps the others from it: a coroutine, a request and *)
(* a release never hold the same item.                                      *)
LEMMA Exclusion ==
    ASSUME SingleWriter, TypeInv, IInv, NEW k \in Keys
    PROVE  /\ \A r, r2 \in Replicas, q \in Requests : tasks[r][k].stage # "none" =>
                 /\ ~(requests[q] # Closed /\ requests[q].key = k)
                 /\ k \notin stale[r2]
           /\ \A q \in Requests, r \in Replicas :
                 ~(requests[q] # Closed /\ requests[q].key = k /\ k \in stale[r])
<1>1. ASSUME NEW r \in Replicas, NEW r2 \in Replicas, tasks[r][k].stage # "none"
      PROVE  k \notin stale[r2]
  <2>1. loop[r] = "gather" /\ r2 = r
    BY <1>1 DEF IInv, TaskInv, SingleWriter
  <2>. QED  BY <2>1 DEF IInv, StaleInv
<1>2. ASSUME NEW r \in Replicas, NEW q \in Requests, tasks[r][k].stage # "none",
             requests[q] # Closed, requests[q].key = k
      PROVE  FALSE
  <2>1. /\ Exists(k) /\ items[k].phase \notin {COMPLETED, FAILED}
        /\ items[k].ready \/ items[k].mode = AUTOMATIC
    BY <1>2 DEF IInv, TaskInv
  <2>2. WorkflowRow(k)
    BY <2>1 DEF IInv, RowInv
  <2>3. items[k].mode # MANUAL
    BY <2>1, <2>2 DEF WorkflowRow, AUTOMATIC, MANUAL
  <2>4. requests[q].command \in Commands
    BY <1>2 DEF TypeInv, TypeOK, Request
  <2>. QED  BY <1>2, <2>1, <2>3, <2>4 DEF IInv, RequestInv, Commands
<1>3. ASSUME NEW q \in Requests, NEW r \in Replicas,
             requests[q] # Closed, requests[q].key = k, k \in stale[r]
      PROVE  FALSE
  <2>1. requests[q].command \in Commands
    BY <1>3 DEF TypeInv, TypeOK, Request
  <2>. QED  BY <1>3, <2>1 DEF IInv, RequestInv, StaleInv, Commands
<1>. QED  BY <1>1, <1>2, <1>3

(* A row waiting for a review, or failed: nobody but requests holds it.     *)
LEMMA RequestedRow ==
    ASSUME SingleWriter, TypeInv, IInv, NEW q \in Requests, requests[q] # Closed
    PROVE  /\ requests[q] \in Request /\ requests[q].key \in Keys
           /\ Exists(requests[q].key) /\ items[requests[q].key] \in WorkItem
           /\ PolicyOf(requests[q].key) # NoPolicy
           /\ requests[q].loaded \in WorkItem
           /\ Unchanged(items[requests[q].key], requests[q].loaded)
           /\ items[requests[q].key].phase # COMPLETED
           /\ requests[q].command \in {"approve", "deny"} =>
                 /\ WorkflowRow(requests[q].key)
                 /\ ~items[requests[q].key].ready
                 /\ items[requests[q].key].mode = MANUAL
           /\ requests[q].command \in {"delete", "retry"} =>
                 /\ items[requests[q].key].phase = FAILED
                 /\ FailedRow(requests[q].key)
<1>. DEFINE k == requests[q].key
<1>1. requests[q] \in Request /\ k \in Keys /\ requests[q].loaded \in WorkItem
      /\ requests[q].command \in Commands
  BY DEF TypeInv, TypeOK, Request
<1>2. Exists(k) /\ Unchanged(items[k], requests[q].loaded)
      /\ (requests[q].command \in {"approve", "deny"} => items[k].mode = MANUAL)
      /\ (requests[q].command \in {"delete", "retry"} => items[k].phase = FAILED)
  BY DEF IInv, RequestInv
<1>3. items[k] \in WorkItem
  BY <1>1, <1>2 DEF TypeInv, TypeOK, Exists
<1>4. RowInv(k)
  BY <1>1 DEF IInv
<1>5. CASE items[k].mode = MANUAL
  <2>1. WorkflowRow(k) /\ ~items[k].ready /\ items[k].phase # COMPLETED
    BY <1>2, <1>4, <1>5 DEF RowInv, FailedRow, WorkflowRow
  <2>2. PolicyOf(k) # NoPolicy
    BY <1>2, <1>4 DEF RowInv
  <2>3. items[k].phase # FAILED
    BY <2>1, <2>2, PhaseFacts DEF WorkflowRow
  <2>. QED  BY <1>1, <1>2, <1>3, <1>5, <2>1, <2>2, <2>3
<1>6. CASE items[k].mode # MANUAL
  <2>1. items[k].phase = FAILED /\ FailedRow(k) /\ PolicyOf(k) # NoPolicy
    BY <1>1, <1>2, <1>4, <1>6 DEF Commands, RowInv
  <2>. QED  BY <1>1, <1>2, <1>3, <1>6, <2>1 DEF FAILED, COMPLETED
<1>. QED  BY <1>5, <1>6

(* The row of a coroutine, and what the coroutine knows of it.              *)
LEMMA TaskRow ==
    ASSUME SingleWriter, TypeInv, IInv, NEW r \in Replicas, NEW k \in Keys,
           tasks[r][k].stage # "none"
    PROVE  /\ tasks[r][k] \in Task /\ loop[r] = "gather"
           /\ Exists(k) /\ items[k] \in WorkItem
           /\ PolicyOf(k) # NoPolicy /\ WorkflowRow(k)
           /\ tasks[r][k].phase = items[k].phase
           /\ tasks[r][k].phase \in PhaseNames(PolicyOf(k)) \ {COMPLETED}
           /\ \A r2 \in Replicas : k \notin stale[r2]
           /\ \A q \in Requests : requests[q] # Closed => requests[q].key # k
<1>1. /\ loop[r] = "gather" /\ Exists(k) /\ items[k].phase = tasks[r][k].phase
      /\ items[k].phase \notin {COMPLETED, FAILED}
  BY DEF IInv, TaskInv
<1>2. PolicyOf(k) # NoPolicy /\ WorkflowRow(k)
  BY <1>1 DEF IInv, RowInv
<1>3. items[k].phase \in PhaseNames(PolicyOf(k))
  BY <1>2 DEF WorkflowRow
<1>4. tasks[r][k] \in Task /\ items[k] \in WorkItem
  BY <1>1 DEF TypeInv, TypeOK, Exists
<1>5. \A r2 \in Replicas : k \notin stale[r2]
  <2>1. \A r2 \in Replicas : r2 = r
    BY DEF SingleWriter
  <2>. QED  BY <1>1, <2>1 DEF IInv, StaleInv
<1>. QED  BY <1>1, <1>2, <1>3, <1>4, <1>5, Exclusion
-----------------------------------------------------------------------------
(* A step that touches one item at most, and only opens requests for none.  *)
LEMMA KeyStep ==
    ASSUME IInv, TypeInv, NEW k \in Keys,
           \A k2 \in Keys \ {k} : items'[k2] = items[k2] /\ approved'[k2] = approved[k2],
           \A r \in Replicas, k2 \in Keys \ {k} : tasks'[r][k2] = tasks[r][k2],
           loop' = loop, stale' = stale,
           items'[k] = items[k] \/ \A r \in Replicas : k \notin stale[r],
           \A q \in Requests :
              \/ requests'[q] = Closed
              \/ /\ requests'[q] = requests[q]
                 /\ requests[q].key # k \/ items'[k] = items[k],
           RowInv(k)',
           \A r \in Replicas : TaskInv(r, k)'
    PROVE  IInv'
<1>1. ASSUME NEW k2 \in Keys PROVE RowInv(k2)'
  <2>1. CASE k2 = k
    BY <2>1
  <2>2. CASE k2 # k
    BY <2>2 DEF IInv, RowInv, FailedRow, WorkflowRow, Reached, Exists
  <2>. QED  BY <2>1, <2>2
<1>2. ASSUME NEW r \in Replicas, NEW k2 \in Keys PROVE TaskInv(r, k2)'
  <2>1. CASE k2 = k
    BY <2>1
  <2>2. CASE k2 # k
    <3>1. TaskInv(r, k2) /\ items'[k2] = items[k2] /\ tasks'[r][k2] = tasks[r][k2]
      BY <2>2 DEF IInv
    <3>. QED  BY <3>1 DEF TaskInv, Exists
  <2>. QED  BY <2>1, <2>2
<1>3. ASSUME NEW q \in Requests PROVE RequestInv(q)'
  <2>1. CASE requests'[q] = Closed
    BY <2>1 DEF RequestInv
  <2>2. CASE requests'[q] # Closed
    <3>1. requests'[q] = requests[q] /\ requests[q] # Closed /\ RequestInv(q)
      BY <2>2 DEF IInv
    <3>2. requests[q].key \in Keys
      BY <3>1 DEF TypeInv, TypeOK, Request
    <3>3. items'[requests[q].key] = items[requests[q].key]
      BY <2>2, <3>1, <3>2
    <3>4. \A other \in Requests : requests'[other] \in {requests[other], Closed}
      OBVIOUS
    <3>. QED  BY <3>1, <3>3, <3>4 DEF RequestInv, Exists
  <2>. QED  BY <2>1, <2>2
<1>4. ASSUME NEW r \in Replicas PROVE StaleInv(r)'
  <2>1. StaleInv(r) /\ stale[r] \subseteq Keys
    BY DEF IInv, TypeInv, TypeOK
  <2>2. \A k2 \in stale[r] : items'[k2] = items[k2]
    BY <2>1
  <2>. QED  BY <2>1, <2>2 DEF StaleInv, Exists
<1>. QED  BY <1>1, <1>2, <1>3, <1>4 DEF IInv

(* A step of a replica whose coroutines have all ended leaves the requests, *)
(* and the rows that somebody waits to write, alone.                        *)
LEMMA LoopFrame ==
    ASSUME IInv, TypeInv,
           \A k \in Keys : approved'[k] = approved[k],
           \A k \in Keys : RowInv(k)',
           \A r \in Replicas, k \in Keys : TaskInv(r, k)',
           \A r \in Replicas : StaleInv(r)',
           \A q \in Requests :
              \/ requests'[q] = Closed
              \/ /\ requests'[q] = requests[q]
                 /\ requests[q] # Closed =>
                       items'[requests[q].key] = items[requests[q].key]
    PROVE  IInv'
<1>1. ASSUME NEW q \in Requests PROVE RequestInv(q)'
  <2>1. CASE requests'[q] = Closed
    BY <2>1 DEF RequestInv
  <2>2. CASE requests'[q] # Closed
    <3>1. requests'[q] = requests[q] /\ requests[q] # Closed /\ RequestInv(q)
          /\ items'[requests[q].key] = items[requests[q].key]
      BY <2>2 DEF IInv
    <3>2. \A other \in Requests : requests'[other] \in {requests[other], Closed}
      OBVIOUS
    <3>. QED  BY <3>1, <3>2 DEF RequestInv, Exists
  <2>. QED  BY <2>1, <2>2
<1>. QED  BY <1>1 DEF IInv

LEMMA SameRow ==
    ASSUME NEW k, RowInv(k), items'[k] = items[k], approved'[k] = approved[k]
    PROVE  RowInv(k)'
BY DEF RowInv, FailedRow, WorkflowRow, Reached, Exists

(* Where the only replica is tells what it holds.                           *)
LEMMA Idle ==
    ASSUME SingleWriter, IInv, NEW r \in Replicas
    PROVE  /\ \A r2 \in Replicas : r2 = r
           /\ loop[r] # "gather" =>
                 \A r2 \in Replicas, k \in Keys : tasks[r2][k].stage = "none"
           /\ loop[r] # "releasing" => \A r2 \in Replicas : stale[r2] = {}
<1>1. \A r2 \in Replicas : r2 = r
  BY DEF SingleWriter
<1>2. ASSUME loop[r] # "gather", NEW k \in Keys PROVE tasks[r][k].stage = "none"
  BY <1>2 DEF IInv, TaskInv
<1>3. ASSUME loop[r] # "releasing" PROVE stale[r] = {}
  BY <1>3 DEF IInv, StaleInv
<1>. QED  BY <1>1, <1>2, <1>3

(* Steps that only move the loop, with no coroutine left.                   *)
LEMMA MoveStep ==
    ASSUME SingleWriter, TypeInv, IInv, NEW r \in Replicas,
           UNCHANGED <<items, tasks, approved>>,
           \A r2 \in Replicas, k \in Keys : tasks[r2][k].stage = "none",
           stale' = stale \/ stale' = [stale EXCEPT ![r] = {}],
           loop[r] = "releasing" => stale'[r] = {},
           \A q \in Requests : requests'[q] \in {requests[q], Closed}
    PROVE  IInv'
<1>1. \A r2 \in Replicas : r2 = r
  BY Idle
<1>2. stale'[r] = {}
  BY Idle DEF TypeInv, TypeOK
<1>3. \A r2 \in Replicas, k \in Keys : TaskInv(r2, k)'
  BY DEF TaskInv
<1>4. \A r2 \in Replicas : StaleInv(r2)'
  BY <1>1, <1>2 DEF StaleInv
<1>5. \A k \in Keys : RowInv(k)'
  BY SameRow DEF IInv
<1>. QED  BY <1>3, <1>4, <1>5, LoopFrame

(* The steps of run_loop.                                                   *)
LEMMA LoopStepKeeps ==
    ASSUME SingleWriter, TypeInv, IInv, NEW r \in Replicas, LoopStep(r),
           UNCHANGED routes
    PROVE  IInv'
<1>. USE DEF routes
<1>0. loop \in [Replicas -> LoopStates] /\ \A k \in Keys : RowInv(k)
  BY DEF TypeInv, TypeOK, IInv
<1>1. CASE CleanupCompleted(r)
  <2>1. loop[r] = "cleanup" /\ UNCHANGED <<stale, tasks>>
        /\ \A k \in Keys : items'[k] = IF Exists(k) /\ items[k].phase = COMPLETED
                                       THEN NoRow ELSE items[k]
    BY <1>1 DEF CleanupCompleted, Goto
  <2>2. \A k \in Keys : RowInv(k)'
    <3>1. ASSUME NEW k \in Keys, items'[k] = NoRow PROVE RowInv(k)'
      BY <3>1 DEF RowInv, Exists
    <3>. QED  BY <1>0, <2>1, <3>1, SameRow
  <2>3. \A r2 \in Replicas, k \in Keys : TaskInv(r2, k)'
    BY <2>1, Idle DEF TaskInv
  <2>4. \A r2 \in Replicas : StaleInv(r2)'
    BY <2>1, Idle DEF StaleInv
  <2>5. \A q \in Requests : requests[q] # Closed =>
           items'[requests[q].key] = items[requests[q].key]
    BY <2>1, RequestedRow
  <2>. QED  BY <2>2, <2>3, <2>4, <2>5, LoopFrame
<1>2. CASE ReleaseLoad(r)
  <2>. DEFINE found == {k \in Keys : Exists(k) /\ Stale(items[k])}
  <2>1. /\ loop[r] = "release" /\ UNCHANGED <<items, tasks>>
        /\ loop'[r] = IF found = {} THEN "select" ELSE "releasing"
        /\ stale'[r] = found
    BY <1>0, <1>2 DEF ReleaseLoad, Goto, TypeInv, TypeOK
  <2>2. \A k \in Keys : RowInv(k)'
    BY <1>0, <2>1, SameRow
  <2>3. \A r2 \in Replicas, k \in Keys : TaskInv(r2, k)'
    BY <2>1, Idle DEF TaskInv
  <2>4. StaleInv(r)'
    <3>1. ASSUME NEW k \in found PROVE items[k].phase # FAILED
      BY <1>0, <3>1 DEF RowInv, FailedRow, Stale
    <3>. QED  BY <2>1, <3>1 DEF StaleInv, Stale, Exists
  <2>5. \A r2 \in Replicas : StaleInv(r2)'
    BY <2>4, Idle
  <2>. QED  BY <2>1, <2>2, <2>3, <2>5, LoopFrame
<1>3. CASE ReleaseCommit(r)
  <2>1. /\ loop[r] = "releasing" /\ UNCHANGED tasks /\ stale'[r] = {}
        /\ \A k \in Keys : items'[k] = IF k \in stale[r] THEN Released(items[k]) ELSE items[k]
    BY <1>3 DEF ReleaseCommit, Goto, TypeInv, TypeOK
  <2>2. ASSUME NEW k \in Keys PROVE RowInv(k)'
    <3>1. CASE k \notin stale[r]
      BY <1>0, <2>1, <3>1, SameRow
    <3>2. CASE k \in stale[r]
      <4>1. Exists(k) /\ ~items[k].ready /\ items[k].phase # FAILED
            /\ items[k].mode # MANUAL
        BY <3>2 DEF IInv, StaleInv
      <4>2. WorkflowRow(k) /\ PolicyOf(k) # NoPolicy /\ items[k] \in WorkItem
        BY <1>0, <4>1 DEF RowInv, Exists, TypeInv, TypeOK
      <4>3. /\ items'[k].phase = items[k].phase /\ items'[k].ready
            /\ items'[k].mode = items[k].mode /\ items'[k].locked_at = NoLock
            /\ items'[k].step_results = items[k].step_results
            /\ items'[k].failure_reason = items[k].failure_reason
            /\ items'[k].failed_from_phase = items[k].failed_from_phase
        BY <2>1, <3>2, <4>2 DEF Released, WorkItem
      <4>. QED  BY <4>1, <4>2, <4>3 DEF RowInv, WorkflowRow, Reached
    <3>. QED  BY <3>1, <3>2
  <2>3. \A r2 \in Replicas, k \in Keys : TaskInv(r2, k)'
    BY <2>1, Idle DEF TaskInv
  <2>4. \A r2 \in Replicas : StaleInv(r2)'
    BY <2>1, Idle DEF StaleInv
  <2>5. ASSUME NEW q \in Requests, requests[q] # Closed
        PROVE  items'[requests[q].key] = items[requests[q].key]
    <3>1. requests[q].key \in Keys
      BY <2>5, RequestedRow
    <3>2. requests[q].key \notin stale[r]
      BY <2>5, <3>1, Exclusion
    <3>. QED  BY <2>1, <3>1, <3>2
  <2>. QED  BY <2>2, <2>3, <2>4, <2>5, LoopFrame
<1>4. CASE ReleaseRowGone(r)
  <2>1. loop[r] = "releasing" /\ UNCHANGED <<items, tasks>>
        /\ stale' = [stale EXCEPT ![r] = {}] /\ stale'[r] = {}
    BY <1>4 DEF ReleaseRowGone, Goto, TypeInv, TypeOK
  <2>. QED  BY <2>1, Idle, MoveStep
<1>5. CASE SelectReady(r)
  <2>1. loop[r] = "select" /\ UNCHANGED <<items, stale>> /\ loop'[r] = "gather"
    BY <1>0, <1>5 DEF SelectReady, Goto
  <2>2. ASSUME NEW k \in Keys
        PROVE  tasks'[r][k] = IF Selectable(k)
                              THEN [NoTask EXCEPT !.stage = "created",
                                                  !.phase = items[k].phase,
                                                  !.results = items[k].step_results]
                              ELSE NoTask
    BY <1>5 DEF SelectReady, TypeInv, TypeOK
  <2>3. ASSUME NEW k \in Keys PROVE TaskInv(r, k)'
    <3>1. CASE ~Selectable(k)
      <4>1. tasks'[r][k] = NoTask
        BY <2>2, <3>1
      <4>2. NoTask.stage = "none"
        BY DEF NoTask
      <4>. QED  BY <4>1, <4>2 DEF TaskInv
    <3>2. CASE Selectable(k)
      <4>1. /\ tasks'[r][k].stage = "created" /\ tasks'[r][k].phase = items[k].phase
            /\ tasks'[r][k].results = items[k].step_results
        BY <2>2, <3>2 DEF NoTask
      <4>. QED  BY <2>1, <3>2, <4>1 DEF Selectable, TaskInv, Exists
    <3>. QED  BY <3>1, <3>2
  <2>4. \A r2 \in Replicas, k \in Keys : TaskInv(r2, k)'
    BY <2>3, Idle
  <2>5. \A r2 \in Replicas : StaleInv(r2)'
    BY <2>1, Idle DEF StaleInv
  <2>6. \A k \in Keys : RowInv(k)'
    BY <1>0, <2>1, SameRow
  <2>. QED  BY <2>1, <2>4, <2>5, <2>6, LoopFrame
<1>6. CASE GatherDone(r)
  <2>1. \A r2 \in Replicas, k \in Keys : tasks[r2][k].stage = "none"
    BY <1>6, Idle DEF GatherDone
  <2>. QED  BY <1>6, <2>1, MoveStep DEF GatherDone, Goto
<1>7. CASE UpdateGauges(r)
  BY <1>7, Idle, MoveStep DEF UpdateGauges, Goto
<1>8. CASE Wake(r)
  BY <1>8, Idle, MoveStep DEF Wake, Goto
<1>. QED  BY <1>1, <1>2, <1>3, <1>4, <1>5, <1>6, <1>7, <1>8 DEF LoopStep
-----------------------------------------------------------------------------
(* A coroutine changes its own task and the row it holds.                   *)
LEMMA CoroutineStep ==
    ASSUME SingleWriter, TypeInv, IInv, NEW r \in Replicas, NEW k \in Keys,
           tasks[r][k].stage # "none", NEW t, SetTask(r, k, t),
           items' \in [Keys -> WorkItem \cup {NoRow}],
           \A k2 \in Keys \ {k} : items'[k2] = items[k2],
           UNCHANGED <<loop, stale, requests, approved>>,
           RowInv(k)',
           t.stage = "none" \/ TaskInv(r, k)'
    PROVE  IInv'
<1>1. \A r2 \in Replicas, k2 \in Keys :
         tasks'[r2][k2] = IF r2 = r /\ k2 = k THEN t ELSE tasks[r2][k2]
  BY DEF SetTask, TypeInv, TypeOK
<1>2. TaskInv(r, k)'
  <2>1. CASE t.stage = "none"
    BY <1>1, <2>1 DEF TaskInv
  <2>. QED  BY <2>1
<1>3. \A r2 \in Replicas : TaskInv(r2, k)'
  BY <1>2, Idle
<1>4. \A q \in Requests : requests[q] = Closed \/ requests[q].key # k
  BY TaskRow
<1>5. \A r2 \in Replicas : k \notin stale[r2]
  BY TaskRow
<1>. QED  BY <1>1, <1>3, <1>4, <1>5, KeyStep

(* A save: the copy is fresh, so the row becomes what was computed from it. *)
LEMMA FreshCopy ==
    ASSUME SingleWriter, TypeInv, IInv, NEW r \in Replicas, NEW k \in Keys,
           tasks[r][k].stage = "saving"
    PROVE  LET t   == tasks[r][k]
               cur == tasks[r][k].phase
           IN  /\ t.loaded \in WorkItem /\ Unchanged(items[k], t.loaded)
               /\ t.loaded.phase = cur /\ t.loaded.mode = AUTOMATIC
               /\ t.loaded.step_results = items[k].step_results
               /\ t.loaded.failure_reason = None /\ t.loaded.failed_from_phase = None
               /\ t.outcome \in {"result", "skipped", "error"}
               /\ AgentPhase(PolicyOf(k), cur) <=> t.outcome # "skipped"
               /\ get_phase(PolicyOf(k), cur).mode = AUTOMATIC
               /\ items[k].mode = AUTOMATIC /\ ~items[k].ready
<1>. DEFINE t == tasks[r][k]
            cur == t.phase
<1>1. /\ t \in Task /\ items[k] \in WorkItem /\ WorkflowRow(k)
      /\ cur = items[k].phase
  BY TaskRow
<1>2. t.loaded \in WorkItem /\ Unchanged(items[k], t.loaded)
  BY DEF IInv, TypeInv, TasksTyped, TaskInv
<1>3. items[k].mode = AUTOMATIC /\ ~items[k].ready /\ t.outcome # None
      /\ (AgentPhase(PolicyOf(k), cur) <=> t.outcome # "skipped")
  BY DEF IInv, TaskInv
<1>4. items[k].failure_reason = None /\ items[k].failed_from_phase = None
      /\ items[k].mode = get_phase(PolicyOf(k), cur).mode
  BY <1>1, <1>3 DEF WorkflowRow
<1>5. /\ t.loaded.phase = items[k].phase /\ t.loaded.mode = items[k].mode
      /\ t.loaded.step_results = items[k].step_results
      /\ t.loaded.failure_reason = items[k].failure_reason
      /\ t.loaded.failed_from_phase = items[k].failed_from_phase
  BY <1>1, <1>2 DEF Unchanged, WorkItem
<1>6. t.outcome \in {"result", "skipped", "error"}
  BY <1>1, <1>3 DEF Task, Outcomes
<1>. QED  BY <1>1, <1>2, <1>3, <1>4, <1>5, <1>6

(* The phase of a coroutine has a next one.                                 *)
LEMMA TaskPhase ==
    ASSUME SingleWriter, TypeInv, IInv, NEW r \in Replicas, NEW k \in Keys,
           tasks[r][k].stage # "none"
    PROVE  LET p   == PolicyOf(k)
               cur == tasks[r][k].phase
           IN  /\ cur \in Names /\ cur \notin {FAILED, COMPLETED}
               /\ get_phase(p, cur).mode \in {AUTOMATIC, MANUAL}
               /\ get_phase(p, cur) # NoPhase
               /\ next_phase(p, cur) # NoPhase
               /\ next_phase(p, cur).name \in PhaseNames(p)
               /\ next_phase(p, cur).name \in Names \ {FAILED}
BY TaskRow, PhaseFacts

LEMMA AdvanceWrites ==
    ASSUME SingleWriter, TypeInv, IInv, NEW r \in Replicas, NEW k \in Keys,
           SaveAdvanced(r, k)
    PROVE  LET cur == tasks[r][k].phase
           IN  /\ items'[k] \in WorkItem
               /\ items'[k].phase = next_phase(PolicyOf(k), cur).name
               /\ items'[k].ready = TRUE /\ items'[k].mode = AUTOMATIC
               /\ items'[k].locked_at = NoLock
               /\ items'[k].step_results = items[k].step_results \cup
                        (IF tasks[r][k].outcome = "result" THEN {cur} ELSE {})
               /\ items'[k].failure_reason = None /\ items'[k].failed_from_phase = None
               /\ \A k2 \in Keys \ {k} : items'[k2] = items[k2]
<1>. DEFINE t    == tasks[r][k]
            cur  == t.phase
            done == IF t.outcome = "result" THEN {cur} ELSE {}
            next == next_phase(PolicyOf(k), cur)
            new  == Advanced(t.loaded, next.name, done)
<1>1. /\ t.stage = "saving"
      /\ items' = [items EXCEPT ![k] = FlushResult(@, t.loaded, new, done)]
  BY DEF SaveAdvanced, NextOf
<1>2. t.stage # "none"
  BY <1>1
<1>3. done \in SUBSET Names /\ next.name \in Names
  BY <1>2, TaskPhase
<1>4. new \in WorkItem
  BY <1>1, <1>3, FreshCopy, WriterTypes
<1>5. /\ new.phase = next.name /\ new.ready = TRUE /\ new.mode = AUTOMATIC
      /\ new.locked_at = NoLock /\ new.step_results = items[k].step_results \cup done
      /\ new.failure_reason = None /\ new.failed_from_phase = None
  BY <1>1, FreshCopy DEF Advanced, WorkItem
<1>. HIDE DEF new
<1>6. items[k] \in WorkItem
  BY <1>2, TaskRow
<1>7. FlushResult(items[k], t.loaded, new, done) = new
  BY <1>1, <1>4, <1>5, <1>6, FreshCopy, FlushOfFreshCopy
<1>8. items' = [items EXCEPT ![k] = new]
  BY <1>1, <1>7
<1>9. items'[k] = new /\ \A k2 \in Keys \ {k} : items'[k2] = items[k2]
  BY <1>8 DEF TypeInv, TypeOK
<1>. QED  BY <1>4, <1>5, <1>9

LEMMA FailWrites ==
    ASSUME SingleWriter, TypeInv, IInv, NEW r \in Replicas, NEW k \in Keys,
           SaveFailed(r, k)
    PROVE  /\ items'[k] \in WorkItem
           /\ items'[k].phase = FAILED
           /\ items'[k].ready = FALSE /\ items'[k].mode = AUTOMATIC
           /\ items'[k].locked_at = NoLock
           /\ items'[k].step_results = items[k].step_results
           /\ items'[k].failure_reason = "error"
           /\ items'[k].failed_from_phase = tasks[r][k].phase
           /\ \A k2 \in Keys \ {k} : items'[k2] = items[k2]
           /\ tasks[r][k].outcome = "error"
<1>. DEFINE t   == tasks[r][k]
            new == Failed(t.loaded, t.phase)
<1>1. /\ t.stage = "saving" /\ ~Succeeds(r, k)
      /\ \E differs : items' = [items EXCEPT ![k] = FlushReason(@, t.loaded, new, differs)]
  BY DEF SaveFailed
<1>2. t.stage # "none"
  BY <1>1
<1>3. new \in WorkItem
  BY <1>1, <1>2, FreshCopy, TaskPhase, WriterTypes
<1>4. /\ new.phase = FAILED /\ new.ready = FALSE /\ new.mode = AUTOMATIC
      /\ new.locked_at = NoLock /\ new.step_results = items[k].step_results
      /\ new.failure_reason = "error" /\ new.failed_from_phase = t.phase
  BY <1>1, FreshCopy DEF Failed, WorkItem
<1>. HIDE DEF new
<1>5. items[k] \in WorkItem
  BY <1>2, TaskRow
<1>6. \A differs : FlushReason(items[k], t.loaded, new, differs) = new
  BY <1>1, <1>3, <1>4, <1>5, FreshCopy, FlushOfFreshCopy
<1>7. items' = [items EXCEPT ![k] = new]
  BY <1>1, <1>6
<1>8. items'[k] = new /\ \A k2 \in Keys \ {k} : items'[k2] = items[k2]
  BY <1>7 DEF TypeInv, TypeOK
<1>9. t.outcome = "error"
  BY <1>1, <1>2, TaskPhase DEF Succeeds, NextOf
<1>. QED  BY <1>3, <1>4, <1>8, <1>9

(* The steps of a coroutine, its database errors included.                  *)
LEMMA TaskStepKeeps ==
    ASSUME SingleWriter, TypeInv, IInv, NEW r \in Replicas, NEW k \in Keys,
           TaskStep(r, k) \/ TaskDbError(r, k), UNCHANGED routes
    PROVE  IInv'
<1>. DEFINE t == tasks[r][k]
            cur == t.phase
            p == PolicyOf(k)
<1>. USE DEF routes
<1>1. t.stage # "none" /\ UNCHANGED <<loop, stale>>
  BY DEF TaskStep, TaskDbError, ClaimMisses, ClaimManual, ClaimAutomatic, AgentAnswers,
         AgentFails, AgentReturns, Load, SaveAdvanced, SaveFailed, SaveRowGone
<1>2. /\ t \in Task /\ Exists(k) /\ items[k] \in WorkItem /\ loop[r] = "gather"
      /\ p # NoPolicy /\ WorkflowRow(k) /\ cur = items[k].phase
      /\ cur \in PhaseNames(p) /\ cur # COMPLETED
  BY <1>1, TaskRow
<1>3. TaskInv(r, k) /\ RowInv(k)
  BY DEF IInv
<1>4. items' \in [Keys -> WorkItem \cup {NoRow}]
  BY TypeInvIsTyped, TaskIsAny, TaskTypeStep
<1>5. cur # FAILED /\ get_phase(p, cur).mode \in {AUTOMATIC, MANUAL}
      /\ get_phase(p, cur) # NoPhase
      /\ next_phase(p, cur) # NoPhase /\ next_phase(p, cur).name \in PhaseNames(p)
  BY <1>2, PhaseFacts
<1>6. NoTask.stage = "none"
  BY DEF NoTask
<1>7. ASSUME UNCHANGED items, SetTask(r, k, NoTask) PROVE IInv'
  <2>1. RowInv(k)'
    BY <1>3, <1>7, SameRow
  <2>. QED  BY <1>1, <1>4, <1>6, <1>7, <2>1, CoroutineStep
<1>8. CASE ClaimMisses(r, k) \/ SaveRowGone(r, k) \/ TaskDbError(r, k)
  BY <1>7, <1>8 DEF ClaimMisses, SaveRowGone, TaskDbError
(* A claim: the row is the one that was selected.                           *)
<1>9. ASSUME t.stage = "created", items' = [items EXCEPT ![k] = Claimed(@, PhaseOf(r, k).mode)]
      PROVE  /\ RowInv(k)'
             /\ items'[k].phase = cur /\ ~items'[k].ready /\ Exists(k)'
             /\ items'[k].mode = get_phase(p, cur).mode
             /\ items'[k].step_results = t.results
             /\ \A k2 \in Keys \ {k} : items'[k2] = items[k2]
  <2>1. /\ items'[k].phase = cur /\ ~items'[k].ready /\ items'[k].locked_at = 0
        /\ items'[k].mode = get_phase(p, cur).mode
        /\ items'[k].step_results = items[k].step_results
        /\ items'[k].failure_reason = items[k].failure_reason
        /\ items'[k].failed_from_phase = items[k].failed_from_phase
        /\ \A k2 \in Keys \ {k} : items'[k2] = items[k2]
    BY <1>2, <1>9 DEF TypeInv, TypeOK, Claimed, WorkItem, PhaseOf
  <2>2. Exists(k)'
    BY <1>2, <1>9, NoRowAssumption, WriterTypes, Lookups, ModeTypes
    DEF TypeInv, TypeOK, Exists, PhaseOf
  <2>3. RowInv(k)'
    BY <1>2, <1>5, <2>1 DEF RowInv, WorkflowRow, Reached, NoLock
  <2>4. t.results = items[k].step_results
    BY <1>1, <1>3 DEF TaskInv
  <2>. QED  BY <2>1, <2>2, <2>3, <2>4
<1>10. CASE ClaimManual(r, k)
  <2>1. /\ t.stage = "created" /\ SetTask(r, k, NoTask)
        /\ items' = [items EXCEPT ![k] = Claimed(@, PhaseOf(r, k).mode)]
    BY <1>10 DEF ClaimManual
  <2>. QED  BY <1>1, <1>4, <1>6, <1>9, <2>1, CoroutineStep
<1>11. CASE ClaimAutomatic(r, k)
  <2>. DEFINE n == IF PhaseOf(r, k).operation
                   THEN [t EXCEPT !.stage = "calling"]
                   ELSE [t EXCEPT !.stage = "loading", !.outcome = "skipped"]
  <2>1. /\ t.stage = "created" /\ SetTask(r, k, n)
        /\ items' = [items EXCEPT ![k] = Claimed(@, PhaseOf(r, k).mode)]
        /\ PhaseOf(r, k) = get_phase(p, cur) /\ PhaseOf(r, k).mode # MANUAL
    BY <1>11 DEF ClaimAutomatic, PhaseOf
  <2>2. /\ n.phase = cur /\ n.results = t.results
        /\ PhaseOf(r, k).operation => n.stage = "calling"
        /\ ~PhaseOf(r, k).operation => n.stage = "loading" /\ n.outcome = "skipped"
    BY <1>2, <2>1 DEF Task
  <2>3. tasks'[r][k] = n
    BY <2>1 DEF SetTask, TypeInv, TypeOK
  <2>4. items'[k].mode = AUTOMATIC /\ (AgentPhase(p, cur) <=> PhaseOf(r, k).operation)
    BY <1>5, <1>9, <2>1 DEF AgentPhase
  <2>. HIDE DEF n
  <2>5. TaskInv(r, k)'
    BY <1>1, <1>2, <1>5, <1>9, <2>1, <2>2, <2>3, <2>4 DEF TaskInv, None
  <2>. QED  BY <1>1, <1>4, <1>9, <2>1, <2>5, CoroutineStep
<1>12. ASSUME NEW o \in {"result", "error"}, AgentReturns(r, k, o) PROVE IInv'
  <2>. DEFINE n == [t EXCEPT !.stage = "loading", !.outcome = o]
  <2>1. t.stage = "calling" /\ SetTask(r, k, n) /\ UNCHANGED items
    BY <1>12 DEF AgentReturns
  <2>2. /\ n.phase = cur /\ n.results = t.results
        /\ n.stage = "loading" /\ n.outcome = o
    BY <1>2 DEF Task
  <2>3. tasks'[r][k] = n
    BY <2>1 DEF SetTask, TypeInv, TypeOK
  <2>. HIDE DEF n
  <2>4. TaskInv(r, k)'
    BY <1>1, <1>3, <2>1, <2>2, <2>3 DEF TaskInv, None, Exists
  <2>5. RowInv(k)'
    BY <1>3, <2>1, SameRow
  <2>. QED  BY <1>1, <1>4, <2>1, <2>4, <2>5, CoroutineStep
<1>13. CASE AgentAnswers(r, k) \/ AgentFails(r, k)
  BY <1>12, <1>13 DEF AgentAnswers, AgentFails
<1>14. CASE Load(r, k)
  <2>. DEFINE n == [t EXCEPT !.stage = "saving", !.loaded = items[k]]
  <2>1. t.stage = "loading" /\ SetTask(r, k, n) /\ UNCHANGED items
    BY <1>2, <1>14 DEF Load
  <2>2. /\ n.phase = cur /\ n.results = t.results /\ n.outcome = t.outcome
        /\ n.stage = "saving" /\ n.loaded = items[k]
    BY <1>2 DEF Task
  <2>3. tasks'[r][k] = n
    BY <2>1 DEF SetTask, TypeInv, TypeOK
  <2>4. Unchanged(items[k], items[k])
    BY <1>2 DEF Unchanged, WorkItem
  <2>5. Unchanged(items[k], n.loaded)'
    BY <2>1, <2>2, <2>4 DEF Unchanged
  <2>. HIDE DEF n
  <2>6. TaskInv(r, k)'
    BY <1>1, <1>3, <2>1, <2>2, <2>3, <2>4 DEF TaskInv, Exists, Unchanged
  <2>7. RowInv(k)'
    BY <1>3, <2>1, SameRow
  <2>. QED  BY <1>1, <1>4, <2>1, <2>6, <2>7, CoroutineStep
<1>15. CASE SaveAdvanced(r, k)
  <2>. DEFINE done == IF t.outcome = "result" THEN {cur} ELSE {}
              next == next_phase(p, cur)
  <2>1. t.stage = "saving" /\ Succeeds(r, k) /\ SetTask(r, k, NoTask)
    BY <1>15 DEF SaveAdvanced
  <2>2. /\ items'[k].phase = next.name /\ items'[k].ready = TRUE
        /\ items'[k].mode = AUTOMATIC /\ items'[k].locked_at = NoLock
        /\ items'[k].step_results = items[k].step_results \cup done
        /\ items'[k].failure_reason = None /\ items'[k].failed_from_phase = None
        /\ \A k2 \in Keys \ {k} : items'[k2] = items[k2]
    BY <1>15, AdvanceWrites
  <2>3. AgentPhase(p, cur) => done = {cur}
    BY <2>1, FreshCopy DEF Succeeds
  <2>4. Reached(k, cur) /\ get_phase(p, cur).mode = AUTOMATIC
    BY <1>2, <2>1, FreshCopy DEF WorkflowRow
  <2>5. /\ ManualBefore(p, next.name) \subseteq approved[k]
        /\ AgentBefore(p, next.name) \subseteq items'[k].step_results
    BY <1>5, <2>2, <2>3, <2>4, NextAsks DEF Reached, AUTOMATIC, MANUAL
  <2>6. next.name # FAILED
    BY <1>2, <1>5, PhaseFacts
  <2>7. RowInv(k)'
    BY <1>2, <1>5, <2>2, <2>5, <2>6
    DEF RowInv, WorkflowRow, Reached, AUTOMATIC, MANUAL
  <2>. QED  BY <1>1, <1>4, <1>6, <2>1, <2>2, <2>7, CoroutineStep
<1>16. CASE SaveFailed(r, k)
  <2>1. t.stage = "saving" /\ SetTask(r, k, NoTask)
    BY <1>16 DEF SaveFailed
  <2>2. /\ items'[k].phase = FAILED /\ items'[k].ready = FALSE
        /\ items'[k].mode = AUTOMATIC /\ items'[k].locked_at = NoLock
        /\ items'[k].step_results = items[k].step_results
        /\ items'[k].failure_reason = "error" /\ items'[k].failed_from_phase = cur
        /\ \A k2 \in Keys \ {k} : items'[k2] = items[k2]
        /\ t.outcome = "error"
    BY <1>16, FailWrites
  <2>3. AgentPhase(p, cur) /\ Reached(k, cur)
    BY <1>2, <2>1, <2>2, FreshCopy DEF WorkflowRow
  <2>4. RowInv(k)'
    BY <1>2, <2>2, <2>3 DEF RowInv, FailedRow, Reached, AUTOMATIC, MANUAL
  <2>. QED  BY <1>1, <1>4, <1>6, <2>1, <2>2, <2>4, CoroutineStep
<1>. QED
  BY <1>8, <1>10, <1>11, <1>13, <1>14, <1>15, <1>16 DEF TaskStep
-----------------------------------------------------------------------------
(* A commit closes its request and changes at most the row it is about.     *)
LEMMA CommitFrame ==
    ASSUME SingleWriter, TypeInv, IInv, NEW q \in Requests, requests[q] # Closed,
           NEW k \in Keys, k = requests[q].key,
           SetRequest(q, Closed),
           \A k2 \in Keys \ {k} : items'[k2] = items[k2] /\ approved'[k2] = approved[k2],
           UNCHANGED orchestrator,
           RowInv(k)'
    PROVE  IInv'
<1>1. requests'[q] = Closed /\ \A q2 \in Requests \ {q} : requests'[q2] = requests[q2]
  BY DEF SetRequest, TypeInv, TypeOK
<1>2. \A q2 \in Requests \ {q} : requests[q2] = Closed \/ requests[q2].key # k
  BY DEF IInv, RequestInv
<1>3. \A r \in Replicas : k \notin stale[r] /\ tasks[r][k].stage = "none"
  BY Exclusion
<1>4. loop' = loop /\ stale' = stale /\ tasks' = tasks
  BY DEF orchestrator
<1>5. \A r \in Replicas : TaskInv(r, k)'
  BY <1>3, <1>4 DEF TaskInv
<1>6. \A q2 \in Requests :
         \/ requests'[q2] = Closed
         \/ requests'[q2] = requests[q2] /\ (requests[q2].key # k \/ items'[k] = items[k])
  BY <1>1, <1>2
<1>. QED  BY <1>3, <1>4, <1>5, <1>6, KeyStep

(* What a request with a fresh copy writes is the row it has made of it.     *)
LEMMA FreshCopyWritten ==
    ASSUME TypeInv, NEW k \in Keys, NEW copy \in WorkItem, NEW new \in WorkItem,
           Exists(k), Unchanged(items[k], copy), new.locked_at = NoLock,
           \/ items' = [items EXCEPT ![k] = Flush(items[k], copy, new)]
           \/ \E differs : items' = [items EXCEPT ![k] =
                                        FlushReason(items[k], copy, new, differs)]
    PROVE  items'[k] = new /\ \A k2 \in Keys \ {k} : items'[k2] = items[k2]
<1>1. items[k] \in WorkItem
  BY DEF Exists, TypeInv, TypeOK
<1>2. /\ Flush(items[k], copy, new) = new
      /\ \A differs : FlushReason(items[k], copy, new, differs) = new
  BY <1>1, FlushOfFreshCopy
<1>3. items' = [items EXCEPT ![k] = new]
  BY <1>2
<1>. QED  BY <1>3 DEF TypeInv, TypeOK

(* The commits of the handlers: the copy of a request is fresh as well.     *)
LEMMA CommitStepKeeps ==
    ASSUME SingleWriter, TypeInv, IInv, NEW q \in Requests, CommitStep(q),
           NEW k, k = requests[q].key, UNCHANGED orchestrator
    PROVE  IInv'
<1>. DEFINE row == requests[q].loaded
            p == PolicyOf(k)
<1>1. SetRequest(q, Closed) /\ requests[q] # Closed
  BY DEF CommitStep, Approve, Deny, Retry, Delete, RowGone, Commit, Closed, None
<1>2. /\ k \in Keys /\ Exists(k) /\ items[k] \in WorkItem /\ row \in WorkItem
      /\ Unchanged(items[k], row) /\ p # NoPolicy /\ items[k].phase # COMPLETED
      /\ RowInv(k)
  BY <1>1, RequestedRow DEF IInv
<1>3. /\ row.phase = items[k].phase /\ row.mode = items[k].mode
      /\ row.step_results = items[k].step_results
      /\ row.failure_reason = items[k].failure_reason
      /\ row.failed_from_phase = items[k].failed_from_phase
  BY <1>2 DEF Unchanged, WorkItem
<1>4. CASE Approve(q)
  <2>. DEFINE cur == row.phase
              next == next_phase(p, cur)
              new  == Approved(row, next.name)
  <2>1. Commit(q, "approve", new) /\ approved' = [approved EXCEPT ![k] = @ \cup {cur}]
    BY <1>4 DEF Approve
  <2>2. requests[q].command = "approve"
    BY <2>1 DEF Commit
  <2>3. WorkflowRow(k) /\ ~items[k].ready /\ items[k].mode = MANUAL
    BY <1>1, <2>2, RequestedRow
  <2>4. cur \in PhaseNames(p) /\ cur # COMPLETED /\ get_phase(p, cur).mode = MANUAL
        /\ Reached(k, cur) /\ row.failure_reason = None /\ row.failed_from_phase = None
    BY <1>2, <1>3, <2>3 DEF WorkflowRow
  <2>5. next # NoPhase /\ next.name \in PhaseNames(p) /\ next.name \in Names
        /\ next.name # FAILED
    BY <1>2, <2>4, PhaseFacts
  <2>6. new \in WorkItem
    BY <1>2, <2>5, WriterTypes
  <2>7. /\ new.phase = next.name /\ new.ready = TRUE /\ new.mode = None
        /\ new.locked_at = NoLock /\ new.step_results = items[k].step_results
        /\ new.failure_reason = None /\ new.failed_from_phase = None
    BY <1>2, <1>3, <2>4 DEF Approved, WorkItem
  <2>. HIDE DEF new
  <2>8. items'[k] = new /\ \A k2 \in Keys \ {k} : items'[k2] = items[k2]
    BY <1>2, <2>1, <2>6, <2>7, FreshCopyWritten DEF Commit
  <2>9. approved'[k] = approved[k] \cup {cur}
        /\ \A k2 \in Keys \ {k} : approved'[k2] = approved[k2]
    BY <1>2, <2>1 DEF TypeInv, TypeOK
  <2>10. ManualBefore(p, next.name) \subseteq approved'[k]
         /\ AgentBefore(p, next.name) \subseteq new.step_results
    BY <2>4, <2>5, <2>7, <2>9, NextAsks DEF Reached, AgentPhase, AUTOMATIC, MANUAL
  <2>11. RowInv(k)'
    BY <1>2, <2>5, <2>7, <2>8, <2>10
    DEF RowInv, WorkflowRow, Reached, MANUAL, None
  <2>. QED  BY <1>1, <1>2, <2>8, <2>9, <2>11, CommitFrame
<1>5. CASE Deny(q)
  <2>. DEFINE new == Denied(row)
  <2>1. /\ requests[q].command = "deny" /\ UNCHANGED approved
        /\ \E differs : items' = [items EXCEPT ![k] =
                                    FlushReason(@, row, new, differs)]
    BY <1>5 DEF Deny
  <2>2. new \in WorkItem
    BY <1>2, WriterTypes
  <2>3. /\ new.phase = FAILED /\ new.ready = FALSE /\ new.mode = None
        /\ new.locked_at = NoLock
        /\ new.failure_reason = "denied" /\ new.failed_from_phase = None
    BY <1>2 DEF Denied, WorkItem
  <2>. HIDE DEF new
  <2>4. items'[k] = new /\ \A k2 \in Keys \ {k} : items'[k2] = items[k2]
    BY <1>2, <2>1, <2>2, <2>3, FreshCopyWritten
  <2>5. RowInv(k)'
    BY <1>2, <2>3, <2>4 DEF RowInv, FailedRow, MANUAL, None
  <2>. QED  BY <1>1, <1>2, <2>1, <2>4, <2>5, CommitFrame
<1>6. CASE Retry(q)
  <2>. DEFINE from == row.failed_from_phase
              new  == Retried(row)
  <2>1. Commit(q, "retry", new) /\ UNCHANGED approved
    BY <1>6 DEF Retry
  <2>2. requests[q].command = "retry"
    BY <2>1 DEF Commit
  <2>3. FailedRow(k) /\ from \in Names
    BY <1>1, <2>2, RequestedRow DEF TypeInv, RequestsChecked, RequestChecked
  <2>4. from \in PhaseNames(p) /\ Reached(k, from)
    BY <1>3, <2>3, NamesAssumption DEF FailedRow
  <2>5. from # FAILED /\ from \notin Before(p, from)
    BY <1>2, <2>4, PhaseFacts
  <2>6. new \in WorkItem
    BY <1>2, <2>3, WriterTypes
  <2>7. /\ new.phase = from /\ new.ready = TRUE /\ new.mode = None
        /\ new.locked_at = NoLock
        /\ new.step_results = items[k].step_results \ {from}
        /\ new.failure_reason = None /\ new.failed_from_phase = None
    BY <1>2, <1>3 DEF Retried, WorkItem
  <2>. HIDE DEF new
  <2>8. items'[k] = new /\ \A k2 \in Keys \ {k} : items'[k2] = items[k2]
    BY <1>2, <2>1, <2>6, <2>7, FreshCopyWritten DEF Commit
  <2>9. AgentBefore(p, from) \subseteq new.step_results
    BY <2>4, <2>5, <2>7 DEF Reached, AgentBefore
  <2>10. RowInv(k)'
    BY <1>2, <2>1, <2>4, <2>5, <2>7, <2>8, <2>9
    DEF RowInv, WorkflowRow, Reached, MANUAL, None
  <2>. QED  BY <1>1, <1>2, <2>1, <2>8, <2>10, CommitFrame
<1>7. CASE Delete(q)
  <2>1. items'[k] = NoRow /\ \A k2 \in Keys \ {k} : items'[k2] = items[k2]
    BY <1>2, <1>7 DEF Delete, TypeInv, TypeOK
  <2>2. RowInv(k)'
    BY <2>1 DEF RowInv, Exists
  <2>. QED  BY <1>1, <1>2, <1>7, <2>1, <2>2, CommitFrame DEF Delete
<1>8. CASE RowGone(q)
  BY <1>2, <1>8 DEF RowGone
<1>. QED  BY <1>4, <1>5, <1>6, <1>7, <1>8 DEF CommitStep

(* The handlers up to their commits; requests for one item do not overlap.  *)
LEMMA OpenRequestKeeps ==
    ASSUME SingleWriter, TypeInv, IInv, NEW r \in Replicas, NEW q \in Requests,
           NEW k \in Keys, NEW command \in Commands, OpenRequest(r, q, k, command)
    PROVE  IInv'
<1>. DEFINE req == [at |-> r, key |-> k, command |-> command, loaded |-> items[k]]
<1>1. /\ Exists(k) /\ requests[q] = Closed /\ SetRequest(q, req)
      /\ UNCHANGED <<items, approved, loop, stale, tasks>>
      /\ \A other \in Requests : requests[other].key # k
      /\ command \in {"approve", "deny"} => items[k].mode = MANUAL
      /\ command \in {"delete", "retry"} => items[k].phase = FAILED
  BY DEF OpenRequest, LoadStep, ReviewLoad, DeleteLoad, RetryLoad, Open, orchestrator,
         SingleWriter
<1>2. \A q2 \in Requests : requests'[q2] = IF q2 = q THEN req ELSE requests[q2]
  BY <1>1 DEF SetRequest, TypeInv, TypeOK
<1>3. req.key = k /\ req.command = command /\ req.loaded = items[k]
  OBVIOUS
<1>. HIDE DEF req
<1>4. items[k] \in WorkItem
  BY <1>1 DEF TypeInv, TypeOK, Exists
<1>5. Unchanged(items[k], items[k])
  BY <1>4 DEF Unchanged, WorkItem
<1>6. RequestInv(q)'
  BY <1>1, <1>2, <1>3, <1>5 DEF RequestInv, Unchanged, Exists
<1>7. ASSUME NEW q2 \in Requests, q2 # q PROVE RequestInv(q2)'
  <2>1. requests'[q2] = requests[q2] /\ requests[q2].key # k /\ RequestInv(q2)
    BY <1>1, <1>2, <1>7 DEF IInv
  <2>. QED  BY <1>1, <1>2, <1>3, <2>1 DEF RequestInv, Unchanged, Exists
<1>8. \A k2 \in Keys : RowInv(k2)'
  BY <1>1, SameRow DEF IInv
<1>9. \A r2 \in Replicas, k2 \in Keys : TaskInv(r2, k2)'
  BY <1>1 DEF IInv, TaskInv, Exists, Unchanged
<1>10. \A r2 \in Replicas : StaleInv(r2)'
  BY <1>1 DEF IInv, StaleInv, Exists
<1>. QED  BY <1>6, <1>7, <1>8, <1>9, <1>10 DEF IInv

(* A new row: nobody holds a key that has none.                             *)
LEMMA IngestKeeps ==
    ASSUME SingleWriter, TypeInv, IInv, NEW k \in Keys, ReceiveEvent(k),
           UNCHANGED orchestrator
    PROVE  IInv'
<1>. DEFINE p == PolicyOf(k)
<1>1. p # NoPolicy /\ ~Exists(k) /\ UNCHANGED <<requests, loop, stale, tasks>>
      /\ items'[k] = Stored(k) /\ approved'[k] = {}
      /\ \A k2 \in Keys \ {k} : items'[k2] = items[k2] /\ approved'[k2] = approved[k2]
  BY DEF ReceiveEvent, orchestrator, TypeInv, TypeOK
<1>2. /\ first_phase(p).name \in PhaseNames(p) /\ Before(p, first_phase(p).name) = {}
      /\ first_phase(p).name # FAILED
  <2>1. ValidPolicy(p) /\ FAILED \notin PhaseNames(p)
    BY <1>1, MatchPolicy DEF PolicyOf
  <2>. QED  BY <2>1, BeforeFirstPhase
<1>3. RowInv(k)'
  BY <1>1, <1>2
  DEF RowInv, WorkflowRow, Reached, Stored, ManualBefore, AgentBefore, MANUAL, None
<1>4. \A r \in Replicas : k \notin stale[r] /\ tasks[r][k].stage = "none"
  BY <1>1 DEF IInv, StaleInv, TaskInv
<1>5. \A r \in Replicas : TaskInv(r, k)'
  BY <1>1, <1>4 DEF TaskInv
<1>6. \A q \in Requests : requests[q] # Closed => requests[q].key # k
  BY <1>1 DEF IInv, RequestInv
<1>. QED  BY <1>1, <1>3, <1>4, <1>5, <1>6, KeyStep

(* A lock that ages stays a lock, and a copy of its row stays fresh.        *)
LEMMA OlderRow ==
    ASSUME NEW row \in WorkItem
    PROVE  /\ Older(row) \in WorkItem
           /\ Older(row) = [row EXCEPT !.locked_at = Older(row).locked_at]
           /\ Older(row).phase = row.phase /\ Older(row).ready = row.ready
           /\ Older(row).mode = row.mode /\ Older(row).step_results = row.step_results
           /\ Older(row).failure_reason = row.failure_reason
           /\ Older(row).failed_from_phase = row.failed_from_phase
           /\ Older(row).locked_at = NoLock <=> row.locked_at = NoLock
           /\ \A copy \in WorkItem : Unchanged(row, copy) => Unchanged(Older(row), copy)
<1>1. Older(row) \in WorkItem
  BY WriterTypes
<1>2. Older(row) = [row EXCEPT !.locked_at = Older(row).locked_at]
  BY DEF Older, WorkItem
<1>3. /\ Older(row).phase = row.phase /\ Older(row).ready = row.ready
      /\ Older(row).mode = row.mode /\ Older(row).step_results = row.step_results
      /\ Older(row).failure_reason = row.failure_reason
      /\ Older(row).failed_from_phase = row.failed_from_phase
  BY DEF Older, WorkItem
<1>4. Older(row).locked_at = NoLock <=> row.locked_at = NoLock
  BY ItemsAssumption DEF Older, WorkItem, NoLock, Ages
<1>5. ASSUME NEW copy \in WorkItem, Unchanged(row, copy)
      PROVE  Unchanged(Older(row), copy)
  BY <1>1, <1>3, <1>4, <1>5 DEF Unchanged, WorkItem
<1>. QED  BY <1>1, <1>2, <1>3, <1>4, <1>5

(* The clock.                                                               *)
LEMMA TickKeeps ==
    ASSUME SingleWriter, TypeInv, IInv, Tick, UNCHANGED routes
    PROVE  IInv'
<1>1. UNCHANGED <<loop, stale, requests, approved>>
  BY DEF Tick, routes
<1>2. ASSUME NEW k \in Keys
      PROVE  /\ Exists(k) => items[k] \in WorkItem /\ items'[k] = Older(items[k])
             /\ ~Exists(k) => items'[k] = NoRow
             /\ Exists(k)' <=> Exists(k)
  <2>1. Exists(k) => items[k] \in WorkItem
    BY DEF Exists, TypeInv, TypeOK
  <2>2. items'[k] = IF Exists(k) THEN Older(items[k]) ELSE NoRow
    BY DEF Tick, AgeLocks
  <2>. QED  BY <2>1, <2>2, OlderRow, NoRowAssumption DEF Exists
<1>3. ASSUME NEW k \in Keys PROVE RowInv(k)'
  <2>1. CASE ~Exists(k)
    BY <1>2, <2>1 DEF RowInv
  <2>2. CASE Exists(k)
    <3>1. RowInv(k) /\ items[k] \in WorkItem /\ items'[k] = Older(items[k])
      BY <1>2, <2>2 DEF IInv
    <3>. QED
      BY <1>1, <2>2, <3>1, OlderRow DEF RowInv, FailedRow, WorkflowRow, Reached
  <2>. QED  BY <2>1, <2>2
<1>4. ASSUME NEW r \in Replicas, NEW k \in Keys
      PROVE  /\ tasks'[r][k].stage = tasks[r][k].stage
             /\ tasks'[r][k].phase = tasks[r][k].phase
             /\ tasks'[r][k].results = tasks[r][k].results
             /\ tasks'[r][k].outcome = tasks[r][k].outcome
             /\ tasks'[r][k].loaded = tasks[r][k].loaded
  <2>1. tasks'[r][k] = IF tasks[r][k].stage \in {"calling", "loading", "saving"}
                       THEN [tasks[r][k] EXCEPT !.held = @ + 1] ELSE tasks[r][k]
    BY DEF Tick
  <2>2. tasks[r][k] \in Task
    BY DEF TypeInv, TypeOK
  <2>. QED  BY <2>1, <2>2 DEF Task
<1>5. ASSUME NEW r \in Replicas, NEW k \in Keys PROVE TaskInv(r, k)'
  <2>1. CASE tasks[r][k].stage = "none"
    BY <1>4, <2>1 DEF TaskInv
  <2>2. CASE tasks[r][k].stage # "none"
    <3>1. TaskInv(r, k) /\ Exists(k)
      BY <2>2 DEF IInv, TaskInv
    <3>2. items[k] \in WorkItem /\ items'[k] = Older(items[k]) /\ Exists(k)'
      BY <1>2, <3>1
    <3>3. ASSUME tasks[r][k].stage = "saving"
          PROVE  Unchanged(items[k], tasks[r][k].loaded)'
      <4>1. tasks[r][k].loaded \in WorkItem /\ Unchanged(items[k], tasks[r][k].loaded)
        BY <2>2, <3>1, <3>3 DEF TaskInv, TypeInv, TasksTyped
      <4>2. Unchanged(Older(items[k]), tasks[r][k].loaded)
        BY <3>2, <4>1, OlderRow
      <4>. QED  BY <1>4, <3>2, <4>2 DEF Unchanged
    <3>4. /\ items'[k].phase = items[k].phase /\ items'[k].ready = items[k].ready
          /\ items'[k].mode = items[k].mode /\ items'[k].step_results = items[k].step_results
      BY <3>2, OlderRow
    <3>. QED  BY <1>1, <1>4, <3>1, <3>2, <3>3, <3>4 DEF TaskInv
  <2>. QED  BY <2>1, <2>2
<1>6. ASSUME NEW q \in Requests PROVE RequestInv(q)'
  <2>1. CASE requests[q] = Closed
    BY <1>1, <2>1 DEF RequestInv
  <2>2. CASE requests[q] # Closed
    <3>. DEFINE k == requests[q].key
    <3>1. RequestInv(q) /\ k \in Keys /\ Exists(k) /\ requests[q].loaded \in WorkItem
          /\ Unchanged(items[k], requests[q].loaded) /\ items[k] \in WorkItem
      BY <2>2, RequestedRow DEF IInv
    <3>2. items'[k] = Older(items[k]) /\ items'[k] # NoRow
      BY <1>2, <3>1 DEF Exists
    <3>3. Unchanged(items'[k], requests[q].loaded)
      BY <3>1, <3>2, OlderRow
    <3>4. items'[k].phase = items[k].phase /\ items'[k].mode = items[k].mode
      BY <3>1, <3>2, OlderRow
    <3>. QED  BY <1>1, <2>2, <3>1, <3>2, <3>3, <3>4 DEF RequestInv, Exists, Unchanged
  <2>. QED  BY <2>1, <2>2
<1>7. ASSUME NEW r \in Replicas PROVE StaleInv(r)'
  <2>1. StaleInv(r) /\ stale[r] \subseteq Keys
    BY DEF IInv, TypeInv, TypeOK
  <2>2. \A k \in stale[r] : /\ Exists(k)' /\ items'[k].ready = items[k].ready
                            /\ items'[k].phase = items[k].phase
                            /\ items'[k].mode = items[k].mode
    BY <1>2, <2>1, OlderRow DEF StaleInv
  <2>. QED  BY <1>1, <2>1, <2>2 DEF StaleInv
<1>. QED  BY <1>3, <1>5, <1>6, <1>7 DEF IInv
-----------------------------------------------------------------------------
LEMMA InitIInv == ServiceInit => IInv
<1>. SUFFICES ASSUME ServiceInit PROVE IInv
  OBVIOUS
<1>. USE DEF ServiceInit, Init, OrchestratorInit, RoutesInit
<1>1. \A k \in Keys : RowInv(k)
  BY DEF RowInv, Exists
<1>2. \A r \in Replicas, k \in Keys : TaskInv(r, k)
  BY DEF TaskInv, NoTask
<1>3. \A q \in Requests : RequestInv(q)
  BY DEF RequestInv
<1>4. \A r \in Replicas : StaleInv(r)
  BY DEF StaleInv
<1>. QED  BY <1>1, <1>2, <1>3, <1>4 DEF IInv

LEMMA IInvStep ==
    ASSUME SingleWriter
    PROVE  TypeInv /\ IInv /\ [Next]_vars => IInv'
<1>. SUFFICES ASSUME TypeInv, IInv, [Next]_vars PROVE IInv'
  OBVIOUS
<1>1. ASSUME NEW r \in Replicas, Loop(r) PROVE IInv'
  BY <1>1, LoopStepKeeps DEF Loop
<1>2. ASSUME NEW r \in Replicas, Boot(r) PROVE IInv'
  BY <1>2, Idle, MoveStep DEF Boot, Start, Goto, routes
<1>3. ASSUME NEW r \in Replicas, Crash(r) PROVE IInv'
  <2>1. /\ UNCHANGED <<items, approved>> /\ stale'[r] = {}
        /\ \A k \in Keys : tasks'[r][k].stage = "none"
    BY <1>3 DEF Crash, Stop, DropRequests, NoTask, TypeInv, TypeOK
  <2>2. \A q \in Requests : requests'[q] \in {requests[q], Closed}
    BY <1>3 DEF Crash, DropRequests
  <2>3. \A k \in Keys : RowInv(k)'
    BY <2>1, SameRow DEF IInv
  <2>4. \A r2 \in Replicas, k \in Keys : TaskInv(r2, k)'
    BY <2>1, Idle DEF TaskInv
  <2>5. \A r2 \in Replicas : StaleInv(r2)'
    BY <2>1, Idle DEF StaleInv
  <2>. QED  BY <2>1, <2>2, <2>3, <2>4, <2>5, LoopFrame
<1>4. ASSUME NEW r \in Replicas, LoopError(r) PROVE IInv'
  <2>1. loop[r] # "gather" /\ UNCHANGED <<items, tasks, routes>>
        /\ stale' = [stale EXCEPT ![r] = {}] /\ stale'[r] = {}
    BY <1>4 DEF LoopError, CycleFails, TypeInv, TypeOK
  <2>. QED  BY <2>1, Idle, MoveStep DEF routes
<1>5. ASSUME NEW r \in Replicas, NEW k \in Keys, Run(r, k) \/ TaskError(r, k) PROVE IInv'
  BY <1>5, TaskStepKeeps DEF Run, TaskError
<1>6. ASSUME NEW r \in Replicas, NEW k \in Keys, Ingest(r, k) PROVE IInv'
  BY <1>6, IngestKeeps DEF Ingest
<1>7. ASSUME NEW r \in Replicas, NEW q \in Requests, NEW k \in Keys,
             NEW command \in Clients, OpenRequest(r, q, k, command)
      PROVE  IInv'
  BY <1>7, OpenRequestKeeps, ClientsAssumption
<1>8. ASSUME NEW q \in Requests, CloseRequest(q) PROVE IInv'
  BY <1>8, CommitStepKeeps DEF CloseRequest
<1>9. CASE Time
  BY <1>9, TickKeeps DEF Time
<1>10. CASE UNCHANGED vars
  <2>1. UNCHANGED <<items, loop, stale, tasks, requests, approved>>
    BY <1>10 DEF vars
  <2>2. (\A k \in Keys : RowInv(k)') /\ \A r \in Replicas : StaleInv(r)'
    BY <2>1, SameRow DEF IInv, StaleInv, Exists
  <2>3. \A r \in Replicas, k \in Keys : TaskInv(r, k)'
    BY <2>1 DEF IInv, TaskInv, Exists, Unchanged
  <2>. QED  BY <2>1, <2>2, <2>3, LoopFrame
<1>. QED
  BY <1>1, <1>2, <1>3, <1>4, <1>5, <1>6, <1>7, <1>8, <1>9, <1>10 DEF Next

(***************************************************************************)
(* With one replica and no overlapping requests for one item, every row is *)
(* well formed and everybody who is about to write one knows its state     *)
(* (orchestrator.py:67-128, 225-250, items.py:95-212).                     *)
(***************************************************************************)
THEOREM Inductive ==
    ASSUME SingleWriter
    PROVE  Spec => [](TypeInv /\ IInv)
<1>1. ServiceInit => TypeInv /\ IInv
  BY InitTypeInv, InitIInv
<1>2. TypeInv /\ IInv /\ [Next]_vars => (TypeInv /\ IInv)'
  BY TypeInvStep, IInvStep
<1>. QED  BY <1>1, <1>2, PTL DEF Spec
-----------------------------------------------------------------------------
(***************************************************************************)
(* What the invariant says of an agent call, of a row waiting for review,  *)
(* of a failed row and of a completed one.                                 *)
(***************************************************************************)
LEMMA CallsAreDue ==
    ASSUME SingleWriter, TypeInv, IInv
    PROVE  ApprovalGate /\ PromptHasResults /\ WorkerHoldsItem
<1>1. ASSUME NEW r \in Replicas, NEW k \in Keys, Working(r, k)
      PROVE  /\ Exists(k) /\ ~items[k].ready /\ items[k].phase = tasks[r][k].phase
             /\ Reached(k, tasks[r][k].phase)
             /\ tasks[r][k].results = items[k].step_results
  <2>1. tasks[r][k].stage # "none" /\ tasks[r][k].stage # "created"
    BY <1>1 DEF Working
  <2>2. Exists(k) /\ WorkflowRow(k) /\ tasks[r][k].phase = items[k].phase
    BY <2>1, TaskRow
  <2>. QED  BY <2>1, <2>2 DEF IInv, TaskInv, WorkflowRow
<1>2. \A r \in Replicas, k \in Keys : Calling(r, k) => Working(r, k)
  BY DEF Calling, Working
<1>. QED  BY <1>1, <1>2 DEF ApprovalGate, PromptHasResults, WorkerHoldsItem, Reached

LEMMA RowsAreKept ==
    ASSUME SingleWriter, TypeInv, IInv
    PROVE  CompletedMeansAllRan /\ NoLimbo /\ DenialIsNotRetriable
<1>1. ASSUME NEW k \in Rows
      PROVE  /\ k \in Keys /\ PolicyOf(k) # NoPolicy
             /\ items[k].phase = FAILED => FailedRow(k)
             /\ items[k].phase # FAILED => WorkflowRow(k)
  BY <1>1 DEF Rows, IInv, RowInv
<1>2. CompletedMeansAllRan
  BY <1>1 DEF CompletedMeansAllRan, WorkflowRow, Reached, FAILED, COMPLETED
<1>3. ASSUME NEW k \in Rows, ~items[k].ready, items[k].phase # FAILED
      PROVE  items[k].locked_at # NoLock /\ items[k].mode # None
  <2>1. /\ items[k].locked_at # NoLock /\ items[k].phase \in PhaseNames(PolicyOf(k))
        /\ items[k].mode = get_phase(PolicyOf(k), items[k].phase).mode
    BY <1>1, <1>3 DEF WorkflowRow
  <2>2. items[k].mode \in {AUTOMATIC, MANUAL}
    BY <1>1, <2>1, PhaseFacts
  <2>. QED  BY <2>1, <2>2 DEF AUTOMATIC, MANUAL, None
<1>4. DenialIsNotRetriable
  BY <1>1 DEF DenialIsNotRetriable, FailedRow
<1>. QED  BY <1>2, <1>3, <1>4 DEF NoLimbo

LEMMA VerdictsAreKept ==
    ASSUME SingleWriter, TypeInv, IInv
    PROVE  DenialIsFinal /\ ManualMeansManual
<1>1. ASSUME NEW k \in Rows, items[k].failure_reason = "denied"
      PROVE  items[k].phase = FAILED /\ \A r \in Replicas : ~Working(r, k)
  <2>1. k \in Keys /\ RowInv(k) /\ Exists(k)
    BY <1>1 DEF Rows, IInv
  <2>2. items[k].phase = FAILED
    BY <1>1, <2>1 DEF RowInv, WorkflowRow, None
  <2>3. ASSUME NEW r \in Replicas, Working(r, k) PROVE FALSE
    BY <2>1, <2>2, <2>3 DEF IInv, TaskInv, Working
  <2>. QED  BY <2>2, <2>3
<1>2. ASSUME NEW k \in Keys, Waiting(k)
      PROVE  /\ get_phase(PolicyOf(k), items[k].phase).mode = MANUAL
             /\ ~items[k].ready
             /\ \A r \in Replicas : ~Working(r, k)
  <2>1. Exists(k) /\ items[k].mode = MANUAL /\ RowInv(k)
    BY <1>2 DEF Waiting, IInv
  <2>2. WorkflowRow(k) /\ ~items[k].ready
    BY <2>1 DEF RowInv, FailedRow, WorkflowRow
  <2>3. get_phase(PolicyOf(k), items[k].phase).mode = MANUAL
    BY <2>1, <2>2 DEF WorkflowRow
  <2>4. ASSUME NEW r \in Replicas, Working(r, k) PROVE FALSE
    BY <2>1, <2>4 DEF IInv, TaskInv, Working, AUTOMATIC, MANUAL
  <2>. QED  BY <2>2, <2>3, <2>4
<1>. QED  BY <1>1, <1>2 DEF DenialIsFinal, ManualMeansManual

(***************************************************************************)
(* No agent works for a phase behind a manual one that no reviewer has     *)
(* approved for this item (README.md:77, orchestrator.py:88-90).           *)
(***************************************************************************)
THEOREM NothingRunsUnapproved ==
    ASSUME SingleWriter PROVE Spec => []ApprovalGate
<1>1. TypeInv /\ IInv => ApprovalGate
  BY CallsAreDue
<1>. QED  BY <1>1, Inductive, PTL

(***************************************************************************)
(* A prompt carries the results of all earlier agent phases, after failures *)
(* and retries as well (orchestrator.py:165-171, items.py:196-198).        *)
(***************************************************************************)
THEOREM PromptsAreComplete ==
    ASSUME SingleWriter PROVE Spec => []PromptHasResults
<1>1. TypeInv /\ IInv => PromptHasResults
  BY CallsAreDue
<1>. QED  BY <1>1, Inductive, PTL

(***************************************************************************)
(* A claimed item belongs to its coroutine until that has saved or died    *)
(* (orchestrator.py:63-128).                                               *)
(***************************************************************************)
THEOREM ClaimsAreExclusive ==
    ASSUME SingleWriter PROVE Spec => []WorkerHoldsItem
<1>1. TypeInv /\ IInv => WorkerHoldsItem
  BY CallsAreDue
<1>. QED  BY <1>1, Inductive, PTL

(***************************************************************************)
(* Nothing is cleaned up as completed before all its phases ran and all    *)
(* its reviews were given (orchestrator.py:121-128, 212-219).              *)
(***************************************************************************)
THEOREM CompletedItemsRan ==
    ASSUME SingleWriter PROVE Spec => []CompletedMeansAllRan
<1>1. TypeInv /\ IInv => CompletedMeansAllRan
  BY RowsAreKept
<1>. QED  BY <1>1, Inductive, PTL

(***************************************************************************)
(* No crash, error or request leaves an item where neither the loop, nor   *)
(* _release_stale, nor a reviewer can pick it up (README.md:56).           *)
(***************************************************************************)
THEOREM NoItemInLimbo ==
    ASSUME SingleWriter PROVE Spec => []NoLimbo
<1>1. TypeInv /\ IInv => NoLimbo
  BY RowsAreKept
<1>. QED  BY <1>1, Inductive, PTL

(***************************************************************************)
(* failed_from_phase tells a denial from an error, and names an agent      *)
(* phase of the policy (README.md:81, items.py:184-195).                   *)
(***************************************************************************)
THEOREM OnlyErrorsAreRetriable ==
    ASSUME SingleWriter PROVE Spec => []DenialIsNotRetriable
<1>1. TypeInv /\ IInv => DenialIsNotRetriable
  BY RowsAreKept
<1>. QED  BY <1>1, Inductive, PTL

(***************************************************************************)
(* A denied item stays failed and nobody works on it (README.md:81,        *)
(* items.py:127-135).                                                      *)
(***************************************************************************)
THEOREM DenialsAreFinal ==
    ASSUME SingleWriter PROVE Spec => []DenialIsFinal
<1>1. TypeInv /\ IInv => DenialIsFinal
  BY VerdictsAreKept
<1>. QED  BY <1>1, Inductive, PTL

(***************************************************************************)
(* mode = manual shows exactly items in a manual phase that wait for their *)
(* review (items.py:105, 224, orchestrator.py:67-90).                      *)
(***************************************************************************)
THEOREM ManualItemsWait ==
    ASSUME SingleWriter PROVE Spec => []ManualMeansManual
<1>1. TypeInv /\ IInv => ManualMeansManual
  BY VerdictsAreKept
<1>. QED  BY <1>1, Inductive, PTL
-----------------------------------------------------------------------------
(* The four conditions, on a row that is as IInv says.                      *)
LEMMA OneGaugeEach ==
    ASSUME TypeInv, IInv, NEW k \in Rows
    PROVE  /\ k \in items_waiting_manual <=>
                 items[k].phase # FAILED /\ ~items[k].ready /\ items[k].mode = MANUAL
           /\ k \in items_in_flight <=>
                 items[k].phase # FAILED /\ ~items[k].ready /\ items[k].mode # MANUAL
           /\ k \in items_ready <=>
                 items[k].phase # FAILED /\ items[k].ready /\ items[k].phase # COMPLETED
           /\ k \in items_failed <=> items[k].phase = FAILED
           /\ items[k].phase = COMPLETED => items[k].ready
<1>1. k \in Keys /\ RowInv(k) /\ Exists(k)
  BY DEF Rows, IInv
<1>2. CASE items[k].phase = FAILED
  BY <1>1, <1>2 DEF RowInv, FailedRow, items_waiting_manual, items_in_flight,
     items_ready, items_failed, FAILED, COMPLETED
<1>3. CASE items[k].phase # FAILED
  <2>1. PolicyOf(k) # NoPolicy /\ WorkflowRow(k)
    BY <1>1, <1>3 DEF RowInv
  <2>2. get_phase(PolicyOf(k), items[k].phase).mode \in {AUTOMATIC, MANUAL}
    BY <2>1, PhaseFacts DEF WorkflowRow
  <2>. QED  BY <1>3, <2>1, <2>2 DEF WorkflowRow, items_waiting_manual,
            items_in_flight, items_ready, items_failed, AUTOMATIC, MANUAL, None
<1>. QED  BY <1>2, <1>3

(***************************************************************************)
(* Every item that is not completed is counted by one of the four gauges,  *)
(* and by one only, in every state (orchestrator.py:255-300).              *)
(***************************************************************************)
THEOREM CountsAddUp ==
    ASSUME SingleWriter PROVE Spec => []GaugesPartitionItems
<1>1. ASSUME TypeInv, IInv PROVE GaugesPartitionItems
  <2>. SUFFICES ASSUME NEW k \in Rows
                PROVE  LET counted == {i \in 1..4 : k \in gauges[i]}
                       IN  IF items[k].phase = COMPLETED THEN counted = {}
                           ELSE \E i \in 1..4 : counted = {i}
    BY DEF GaugesPartitionItems
  <2>. DEFINE counted == {i \in 1..4 : k \in gauges[i]}
  <2>1. \A i \in 1..4 : i \in counted <=>
           \/ i = 1 /\ k \in items_waiting_manual
           \/ i = 2 /\ k \in items_in_flight
           \/ i = 3 /\ k \in items_ready
           \/ i = 4 /\ k \in items_failed
    BY DEF gauges
  <2>2. counted \subseteq 1..4
    OBVIOUS
  <2>. HIDE DEF counted
  <2>3. CASE items[k].phase = COMPLETED
    <3>1. \A i \in 1..4 : i \notin counted
      BY <1>1, <2>1, <2>3, OneGaugeEach DEF FAILED, COMPLETED
    <3>. QED  BY <2>2, <2>3, <3>1 DEF counted
  <2>4. CASE items[k].phase # COMPLETED
    <3>1. PICK j \in 1..4 : \A i \in 1..4 : i \in counted <=> i = j
      <4>1. CASE items[k].phase = FAILED
        BY <1>1, <2>1, <4>1, OneGaugeEach
      <4>2. CASE items[k].phase # FAILED /\ items[k].ready
        BY <1>1, <2>1, <2>4, <4>2, OneGaugeEach
      <4>3. CASE items[k].phase # FAILED /\ ~items[k].ready /\ items[k].mode = MANUAL
        BY <1>1, <2>1, <4>3, OneGaugeEach
      <4>4. CASE items[k].phase # FAILED /\ ~items[k].ready /\ items[k].mode # MANUAL
        BY <1>1, <2>1, <4>4, OneGaugeEach
      <4>. QED  BY <4>1, <4>2, <4>3, <4>4
    <3>2. counted = {j}
      BY <2>2, <3>1
    <3>. QED  BY <2>4, <3>2 DEF counted
  <2>. QED  BY <2>3, <2>4
<1>. QED  BY <1>1, Inductive, PTL
=============================================================================
