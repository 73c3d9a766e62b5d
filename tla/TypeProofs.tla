----------------------------- MODULE TypeProofs -----------------------------
(***************************************************************************)
(* What the lookups of a policy return, what a step of the service writes  *)
(* whatever they return, and from both the type correctness of the service, *)
(* for any number of replicas, items and open requests, any valid          *)
(* configuration (names of phases may repeat) and any behaviour of clients. *)
(***************************************************************************)
EXTENDS Invariants, WellFoundedInduction, TLAPS

(* The list loops of the code find a least position: it exists.             *)
LEMMA MinIsLeast ==
    ASSUME NEW S \in SUBSET Nat, S # {}
    PROVE  Min(S) \in S /\ \A y \in S : Min(S) <= y
<1>1. \E x \in S : \A y \in S : ~(<<y, x>> \in OpToRel(<, Nat))
  BY NatLessThanWellFounded, WFMin
<1>2. \E x \in S : \A y \in S : x <= y
  <2>1. PICK x \in S : \A y \in S : ~(<<y, x>> \in OpToRel(<, Nat))
    BY <1>1
  <2>2. \A y \in S : x \in Nat /\ y \in Nat /\ ~(y < x)
    BY <2>1 DEF OpToRel
  <2>3. \A y \in S : x <= y
    BY <2>2, SMT
  <2>. QED  BY <2>3
<1>. QED  BY <1>2 DEF Min

(* None is no phase name, so NoPhase is told from every phase by its name.  *)
LEMMA PhaseIsNotNoPhase ==
    ASSUME NEW c \in PhaseConfig
    PROVE  c # NoPhase /\ c.name \in Names
BY NamesAssumption DEF PhaseConfig, NoPhase

LEMMA PositionsAreIndices ==
    ASSUME NEW p, p.phases \in Seq(PhaseConfig), NEW n
    PROVE  /\ DOMAIN p.phases = 1..Len(p.phases)
           /\ Len(p.phases) \in Nat
           /\ \A i \in DOMAIN p.phases : p.phases[i] \in PhaseConfig
           /\ Positions(p, n) \in SUBSET Nat
           /\ Positions(p, n) \subseteq DOMAIN p.phases
BY DEF Positions

(* get_phase returns the first phase with the name, if there is one.        *)
LEMMA GetPhase ==
    ASSUME NEW p, p.phases \in Seq(PhaseConfig), NEW n
    PROVE  /\ n \notin PhaseNames(p) => get_phase(p, n) = NoPhase
           /\ n \in PhaseNames(p) => /\ get_phase(p, n) \in PhaseConfig
                                     /\ get_phase(p, n).name = n
                                     /\ get_phase(p, n) # NoPhase
<1>1. CASE Positions(p, n) = {}
  <2>1. n \notin PhaseNames(p)
    BY <1>1 DEF Positions, PhaseNames
  <2>. QED  BY <1>1, <2>1 DEF get_phase
<1>2. CASE Positions(p, n) # {}
  <2>1. Min(Positions(p, n)) \in Positions(p, n)
    BY <1>2, PositionsAreIndices, MinIsLeast
  <2>2. get_phase(p, n) \in PhaseConfig /\ get_phase(p, n).name = n
    BY <1>2, <2>1, PositionsAreIndices DEF get_phase, Positions
  <2>3. n \in PhaseNames(p)
    BY <2>1 DEF Positions, PhaseNames
  <2>. QED  BY <2>2, <2>3, PhaseIsNotNoPhase
<1>. QED  BY <1>1, <1>2

(* next_phase returns a phase of the policy or NoPhase.                     *)
LEMMA NextPhaseInPolicy ==
    ASSUME NEW p, p.phases \in Seq(PhaseConfig), NEW n, next_phase(p, n) # NoPhase
    PROVE  \E i \in Positions(p, n) :
              /\ i + 1 \in DOMAIN p.phases
              /\ \A j \in Positions(p, n) : i <= j
              /\ next_phase(p, n) = p.phases[i + 1]
<1>. DEFINE followed == {i \in Positions(p, n) : i + 1 <= Len(p.phases)}
<1>1. followed # {} /\ next_phase(p, n) = p.phases[Min(followed) + 1]
  BY DEF next_phase
<1>2. followed \in SUBSET Nat
  BY PositionsAreIndices
<1>3. Min(followed) \in followed /\ \A j \in followed : Min(followed) <= j
  BY <1>1, <1>2, MinIsLeast
<1>4. Min(followed) + 1 \in DOMAIN p.phases
  BY <1>3, PositionsAreIndices
<1>5. ASSUME NEW j \in Positions(p, n)
      PROVE  Min(followed) <= j
  <2>1. CASE j \in followed
    BY <2>1, <1>3
  <2>2. CASE j \notin followed
    BY <2>2, <1>3, PositionsAreIndices
  <2>. QED  BY <2>1, <2>2
<1>. QED  BY <1>1, <1>3, <1>4, <1>5

LEMMA NextPhaseType ==
    ASSUME NEW p, p.phases \in Seq(PhaseConfig), NEW n, next_phase(p, n) # NoPhase
    PROVE  /\ next_phase(p, n) \in PhaseConfig
           /\ next_phase(p, n).name \in PhaseNames(p)
BY NextPhaseInPolicy, PositionsAreIndices DEF PhaseNames

(***************************************************************************)
(* In a policy the validator accepts, every phase but "completed" has a    *)
(* next one: the error branches of orchestrator.py:107-114 and             *)
(* items.py:118-119 cannot be taken for an item in a workflow phase.       *)
(***************************************************************************)
THEOREM NextPhaseExists ==
    ASSUME NEW p, ValidPolicy(p), NEW n \in PhaseNames(p), n # COMPLETED
    PROVE  next_phase(p, n) # NoPhase
<1>. DEFINE followed == {i \in Positions(p, n) : i + 1 <= Len(p.phases)}
<1>1. PICK i \in DOMAIN p.phases : p.phases[i].name = n
  BY DEF PhaseNames
<1>2. i \in Positions(p, n)
  BY <1>1 DEF Positions
<1>3. i # Len(p.phases)
  BY <1>1 DEF ValidPolicy
<1>4. i \in followed
  BY <1>2, <1>3, PositionsAreIndices DEF ValidPolicy
<1>5. followed \in SUBSET Nat
  BY PositionsAreIndices DEF ValidPolicy
<1>6. Min(followed) \in followed
  BY <1>4, <1>5, MinIsLeast
<1>7. p.phases[Min(followed) + 1] \in PhaseConfig
  <2>1. Min(followed) \in Nat /\ Min(followed) + 1 <= Len(p.phases)
    BY <1>5, <1>6
  <2>2. Min(followed) + 1 \in 1..Len(p.phases)
    BY <2>1, PositionsAreIndices DEF ValidPolicy
  <2>. QED  BY <2>2, PositionsAreIndices DEF ValidPolicy
<1>8. next_phase(p, n) = p.phases[Min(followed) + 1]
  BY <1>4 DEF next_phase
<1>. QED  BY <1>7, <1>8, PhaseIsNotNoPhase

(***************************************************************************)
(* One step of the workflow adds at most the phase just left to what has   *)
(* been passed: nothing between a phase and the next one is skipped.       *)
(***************************************************************************)
THEOREM BeforeNextPhase ==
    ASSUME NEW p, p.phases \in Seq(PhaseConfig), NEW n, next_phase(p, n) # NoPhase
    PROVE  Before(p, next_phase(p, n).name) \subseteq Before(p, n) \cup {n}
<1>1. PICK i \in Positions(p, n) :
          /\ i + 1 \in DOMAIN p.phases
          /\ \A j \in Positions(p, n) : i <= j
          /\ next_phase(p, n) = p.phases[i + 1]
  BY NextPhaseInPolicy
<1>. DEFINE m == next_phase(p, n).name
<1>2. i + 1 \in Positions(p, m)
  BY <1>1 DEF Positions
<1>3. SUFFICES ASSUME NEW j \in DOMAIN p.phases, \A h \in Positions(p, m) : j < h
               PROVE  p.phases[j].name \in Before(p, n) \cup {n}
  BY DEF Before
<1>4. j \in Nat /\ i \in Nat /\ j < i + 1 /\ i \in DOMAIN p.phases
  BY <1>1, <1>2, <1>3, PositionsAreIndices
<1>5. CASE j = i
  BY <1>5, <1>1 DEF Positions
<1>6. CASE j < i
  <2>1. \A h \in Positions(p, n) : h \in Nat /\ j < h
    BY <1>1, <1>4, <1>6, PositionsAreIndices
  <2>. QED  BY <2>1, <1>3 DEF Before
<1>. QED  BY <1>4, <1>5, <1>6

(* What README.md:63 takes for granted and the validator does not check.    *)
DistinctNames(p) ==
    \A i, j \in DOMAIN p.phases : p.phases[i].name = p.phases[j].name => i = j

(***************************************************************************)
(* If the names of a policy differ, a lookup finds the phase it was meant  *)
(* to find, the next phase is the next one of the list, and what comes     *)
(* before a phase is all that stands before it (models.py:67-79).          *)
(***************************************************************************)
THEOREM DistinctPhasesRunInOrder ==
    ASSUME NEW p, ValidPolicy(p), DistinctNames(p), NEW i \in DOMAIN p.phases
    PROVE  /\ get_phase(p, p.phases[i].name) = p.phases[i]
           /\ i < Len(p.phases) => next_phase(p, p.phases[i].name) = p.phases[i + 1]
           /\ i = Len(p.phases) => next_phase(p, p.phases[i].name) = NoPhase
           /\ Before(p, p.phases[i].name) = {p.phases[j].name : j \in 1..(i - 1)}
<1>. DEFINE n == p.phases[i].name
<1>1. DOMAIN p.phases = 1..Len(p.phases) /\ Len(p.phases) \in Nat /\ i \in Nat
  BY PositionsAreIndices DEF ValidPolicy
<1>2. Positions(p, n) = {i}
  BY DEF Positions, DistinctNames
<1>3. \A S \in SUBSET Nat : S = {i} => Min(S) = i
  BY MinIsLeast
<1>4. get_phase(p, n) = p.phases[i]
  <2>1. Min(Positions(p, n)) = i
    BY <1>1, <1>2, <1>3
  <2>. QED  BY <1>2, <2>1 DEF get_phase
<1>. DEFINE followed == {h \in Positions(p, n) : h + 1 <= Len(p.phases)}
<1>5. ASSUME i < Len(p.phases) PROVE next_phase(p, n) = p.phases[i + 1]
  <2>1. followed = {i} /\ followed \in SUBSET Nat
    BY <1>1, <1>2, <1>5
  <2>. HIDE DEF followed
  <2>2. Min(followed) = i
    BY <1>3, <2>1
  <2>. QED  BY <2>1, <2>2 DEF next_phase, followed
<1>6. ASSUME i = Len(p.phases) PROVE next_phase(p, n) = NoPhase
  <2>1. followed = {}
    BY <1>1, <1>2, <1>6
  <2>. QED  BY <2>1 DEF next_phase
<1>7. \A j \in DOMAIN p.phases : j < i <=> j \in 1..(i - 1)
  BY <1>1
<1>8. 1..(i - 1) \subseteq DOMAIN p.phases
  BY <1>1
<1>9. Before(p, n) = {p.phases[j].name : j \in 1..(i - 1)}
  BY <1>2, <1>7, <1>8 DEF Before
<1>. QED  BY <1>4, <1>5, <1>6, <1>9

(***************************************************************************)
(* Whoever starts with the first phase and goes on to the next one visits  *)
(* every phase of such a policy, in the order of the list, and "completed" *)
(* last (README.md:63-66, models.py:62-72).                                *)
(***************************************************************************)
THEOREM WalkVisitsEveryPhase ==
    ASSUME NEW p, ValidPolicy(p), DistinctNames(p), NEW walk,
           walk[1] = first_phase(p),
           \A j \in 1..(Len(p.phases) - 1) : walk[j + 1] = next_phase(p, walk[j].name)
    PROVE  /\ \A j \in DOMAIN p.phases : walk[j] = p.phases[j]
           /\ walk[Len(p.phases)].name = COMPLETED
<1>. DEFINE Lost == {j \in DOMAIN p.phases : walk[j] # p.phases[j]}
<1>1. DOMAIN p.phases = 1..Len(p.phases) /\ Len(p.phases) \in Nat
  BY PositionsAreIndices DEF ValidPolicy
<1>2. ASSUME Lost # {} PROVE FALSE
  <2>1. Lost \in SUBSET Nat
    BY <1>1
  <2>. HIDE DEF Lost
  <2>2. PICK j \in Lost : \A h \in Lost : j <= h
    BY <1>2, <2>1, MinIsLeast
  <2>3. j \in 1..Len(p.phases) /\ walk[j] # p.phases[j]
    BY <1>1, <2>2 DEF Lost
  <2>4. j # 1
    BY <2>3 DEF first_phase
  <2>5. j - 1 \in DOMAIN p.phases /\ j - 1 \notin Lost /\ j - 1 \in 1..(Len(p.phases) - 1)
    BY <1>1, <2>1, <2>2, <2>3, <2>4
  <2>6. walk[j - 1] = p.phases[j - 1]
    BY <2>5 DEF Lost
  <2>7. walk[(j - 1) + 1] = next_phase(p, p.phases[j - 1].name)
    BY <2>5, <2>6
  <2>8. next_phase(p, p.phases[j - 1].name) = p.phases[(j - 1) + 1]
    BY <1>1, <2>3, <2>5, DistinctPhasesRunInOrder
  <2>9. (j - 1) + 1 = j
    BY <2>3
  <2>. QED  BY <2>3, <2>7, <2>8, <2>9
<1>3. \A j \in DOMAIN p.phases : walk[j] = p.phases[j]
  BY <1>2
<1>4. Len(p.phases) \in DOMAIN p.phases
  BY <1>1 DEF ValidPolicy
<1>. QED  BY <1>3, <1>4 DEF ValidPolicy

(* Nothing comes before the first phase.                                    *)
LEMMA BeforeFirstPhase ==
    ASSUME NEW p, ValidPolicy(p)
    PROVE  /\ first_phase(p) \in PhaseConfig
           /\ first_phase(p).name \in PhaseNames(p)
           /\ Before(p, first_phase(p).name) = {}
<1>1. p.phases \in Seq(PhaseConfig) /\ 1 \in DOMAIN p.phases
  BY DEF ValidPolicy
<1>2. 1 \in Positions(p, first_phase(p).name)
  BY <1>1 DEF Positions, first_phase
<1>3. \A j \in DOMAIN p.phases : ~(j < 1)
  BY <1>1
<1>. QED  BY <1>1, <1>2, <1>3 DEF Before, first_phase, PhaseNames

(* No phase comes before itself.                                            *)
LEMMA NotBeforeItself ==
    ASSUME NEW p, p.phases \in Seq(PhaseConfig), NEW n
    PROVE  n \notin Before(p, n)
<1>1. SUFFICES ASSUME NEW i \in DOMAIN p.phases, p.phases[i].name = n,
                      \A h \in Positions(p, n) : i < h
               PROVE  FALSE
  BY DEF Before
<1>2. i \in Positions(p, n) /\ i \in Nat
  BY <1>1, PositionsAreIndices DEF Positions
<1>. QED  BY <1>1, <1>2

(* match_policy finds a policy of the list, or nothing.                     *)
LEMMA MatchPolicy ==
    ASSUME NEW t, match_policy(t) # NoPolicy
    PROVE  ValidPolicy(match_policy(t)) /\ FAILED \notin PhaseNames(match_policy(t))
<1>. DEFINE handlers == {n \in DOMAIN Policies : t \in Policies[n].event_types}
<1>1. handlers # {} /\ match_policy(t) = Policies[Min(handlers)]
  BY DEF match_policy
<1>2. handlers \in SUBSET Nat
  BY PoliciesAssumption
<1>3. Min(handlers) \in DOMAIN Policies
  BY <1>1, <1>2, MinIsLeast
<1>. QED  BY <1>1, <1>3, PoliciesAssumption
-----------------------------------------------------------------------------
(* The policy of a key, found or not, has a list of phases to look up.      *)
LEMMA Lookups ==
    ASSUME NEW k, NEW n
    PROVE  /\ PolicyOf(k).phases \in Seq(PhaseConfig)
           /\ get_phase(PolicyOf(k), n) \in PhaseConfig \cup {NoPhase}
           /\ next_phase(PolicyOf(k), n) \in PhaseConfig \cup {NoPhase}
           /\ PolicyOf(k) # NoPolicy => first_phase(PolicyOf(k)) \in PhaseConfig
<1>1. PolicyOf(k).phases \in Seq(PhaseConfig)
  <2>1. CASE PolicyOf(k) = NoPolicy
    BY <2>1 DEF NoPolicy
  <2>2. CASE PolicyOf(k) # NoPolicy
    BY <2>2, MatchPolicy DEF PolicyOf, ValidPolicy
  <2>. QED  BY <2>1, <2>2
<1>2. get_phase(PolicyOf(k), n) \in PhaseConfig \cup {NoPhase}
  BY <1>1, GetPhase
<1>3. next_phase(PolicyOf(k), n) \in PhaseConfig \cup {NoPhase}
  BY <1>1, NextPhaseType
<1>4. PolicyOf(k) # NoPolicy => first_phase(PolicyOf(k)) \in PhaseConfig
  BY MatchPolicy, BeforeFirstPhase DEF PolicyOf
<1>. QED  BY <1>1, <1>2, <1>3, <1>4

(* What the next phase asks for beyond what the present one asked for.      *)
LEMMA NextAsks ==
    ASSUME NEW k, NEW n, next_phase(PolicyOf(k), n) # NoPhase
    PROVE  LET m == next_phase(PolicyOf(k), n).name
               p == PolicyOf(k)
           IN  /\ ManualBefore(p, m) \subseteq
                     ManualBefore(p, n) \cup
                     {x \in {n} : get_phase(p, n).mode = MANUAL}
               /\ AgentBefore(p, m) \subseteq
                     AgentBefore(p, n) \cup {x \in {n} : AgentPhase(p, n)}
<1>1. Before(PolicyOf(k), next_phase(PolicyOf(k), n).name)
         \subseteq Before(PolicyOf(k), n) \cup {n}
  BY Lookups, BeforeNextPhase
<1>. QED  BY <1>1 DEF ManualBefore, AgentBefore

LEMMA ModeTypes ==
    ASSUME NEW c \in PhaseConfig \cup {NoPhase}
    PROVE  /\ c.mode \in {AUTOMATIC, MANUAL, None}
           /\ c.operation \in BOOLEAN
           /\ c # NoPhase => c.name \in Names
<1>1. c.mode \in {AUTOMATIC, MANUAL, None} /\ (c # NoPhase => c.name \in Names)
  BY SMT DEF PhaseConfig, NoPhase
<1>2. c.operation \in BOOLEAN
  <2>1. CASE c \in PhaseConfig
    BY <2>1 DEF PhaseConfig
  <2>2. CASE c = NoPhase
    BY <2>2 DEF NoPhase
  <2>. QED  BY <2>1, <2>2
<1>. QED  BY <1>1, <1>2

LEMMA LockTypes == NoLock \in Ages /\ 0 \in Ages
BY ItemsAssumption DEF Ages, NoLock

(* Every writer of the table writes a row.                                  *)
LEMMA WriterTypes ==
    ASSUME NEW row \in WorkItem
    PROVE  /\ \A m \in {AUTOMATIC, MANUAL, None} : Claimed(row, m) \in WorkItem
           /\ \A n \in Names, done \in SUBSET Names : Advanced(row, n, done) \in WorkItem
           /\ \A n \in Names \cup {None} : Failed(row, n) \in WorkItem
           /\ Released(row) \in WorkItem
           /\ \A n \in Names : Approved(row, n) \in WorkItem
           /\ Denied(row) \in WorkItem
           /\ row.failed_from_phase \in Names => Retried(row) \in WorkItem
           /\ Older(row) \in WorkItem
<1>. USE NamesAssumption, LockTypes
<1>1. \A m \in {AUTOMATIC, MANUAL, None} : Claimed(row, m) \in WorkItem
  BY DEF WorkItem, Claimed
<1>2. \A n \in Names, done \in SUBSET Names : Advanced(row, n, done) \in WorkItem
  BY DEF WorkItem, Advanced
<1>3. \A n \in Names \cup {None} : Failed(row, n) \in WorkItem
  BY DEF WorkItem, Failed, FAILED
<1>4. Released(row) \in WorkItem
  BY DEF WorkItem, Released
<1>5. \A n \in Names : Approved(row, n) \in WorkItem
  BY DEF WorkItem, Approved
<1>6. Denied(row) \in WorkItem
  BY DEF WorkItem, Denied, FAILED
<1>7. row.failed_from_phase \in Names => Retried(row) \in WorkItem
  BY DEF WorkItem, Retried
<1>8. Older(row) \in WorkItem
  BY ItemsAssumption DEF WorkItem, Older, Ages, NoLock
<1>. QED  BY <1>1, <1>2, <1>3, <1>4, <1>5, <1>6, <1>7, <1>8

LEMMA StoredType ==
    ASSUME NEW k, PolicyOf(k) # NoPolicy
    PROVE  Stored(k) \in WorkItem
BY Lookups, LockTypes, NamesAssumption DEF Stored, WorkItem, PhaseConfig

LEMMA FlushType ==
    ASSUME NEW now \in WorkItem, NEW old \in WorkItem, NEW new \in WorkItem
    PROVE  /\ Flush(now, old, new) \in WorkItem
           /\ \A done : FlushResult(now, old, new, done) \in WorkItem
           /\ \A differs : FlushReason(now, old, new, differs) \in WorkItem
<1>1. Flush(now, old, new) \in WorkItem
  BY DEF WorkItem, Flush, Column
<1>2. \A done : FlushResult(now, old, new, done) \in WorkItem
  BY <1>1 DEF WorkItem, FlushResult
<1>3. \A differs : FlushReason(now, old, new, differs) \in WorkItem
  BY <1>1 DEF WorkItem, FlushReason
<1>. QED  BY <1>1, <1>2, <1>3

LEMMA NoTaskType == NoTask \in Task
BY MaxHoldAssumption DEF NoTask, Task, Stages, Outcomes

(* Only an open request has a command.                                      *)
LEMMA OpenRequestType ==
    ASSUME NEW q \in Requests, TypeOK, requests[q].command \in Commands
    PROVE  requests[q] \in Request
BY DEF TypeOK, Closed, Commands, None
-----------------------------------------------------------------------------
(***************************************************************************)
(* The steps of the service whatever its policies say: a lookup may return *)
(* any phase the types allow.  What needs no more is proved of these, once *)
(* for every configuration.                                                *)
(***************************************************************************)
WriteRow(k) == \E row \in WorkItem : items' = [items EXCEPT ![k] = row]

AnySelect(r) ==
    /\ Goto(r, "select", "gather")
    /\ \E S \in SUBSET Rows :
          tasks' = [tasks EXCEPT ![r] =
                      [k \in Keys |->
                         IF k \in S THEN [NoTask EXCEPT !.stage = "created",
                                                       !.phase = items[k].phase,
                                                       !.results = items[k].step_results]
                         ELSE NoTask]]
    /\ UNCHANGED <<items, stale>>

AnyClaim(r, k) ==
    /\ tasks[r][k].stage = "created"
    /\ WriteRow(k)
    /\ \E t \in {NoTask, [tasks[r][k] EXCEPT !.stage = "calling"],
                 [tasks[r][k] EXCEPT !.stage = "loading", !.outcome = "skipped"]} :
          SetTask(r, k, t)
    /\ UNCHANGED <<loop, stale>>

AnySave(r, k) ==
    /\ tasks[r][k].stage = "saving"
    /\ WriteRow(k)
    /\ SetTask(r, k, NoTask)
    /\ UNCHANGED <<loop, stale>>

AnyLoopStep(r) ==
    \/ CleanupCompleted(r) \/ ReleaseLoad(r) \/ ReleaseCommit(r) \/ ReleaseRowGone(r)
    \/ AnySelect(r) \/ GatherDone(r) \/ UpdateGauges(r) \/ Wake(r)
    \/ Start(r) \/ CycleFails(r)

AnyTaskStep(r, k) ==
    \/ ClaimMisses(r, k) \/ AnyClaim(r, k) \/ AgentAnswers(r, k) \/ AgentFails(r, k)
    \/ Load(r, k) \/ AnySave(r, k) \/ SaveRowGone(r, k) \/ TaskDbError(r, k)

AnyStop(r) == Stop(r) /\ DropRequests(r)

AnyIngest(k) ==
    /\ WriteRow(k)
    /\ approved' = [approved EXCEPT ![k] = {}]
    /\ UNCHANGED requests

AnyLoad(r, q, k, command) ==
    /\ Exists(k)
    /\ command = "retry" => items[k].failed_from_phase # None
    /\ Open(r, q, k, command)

AnyCommit(q) ==
    /\ requests[q].command \in Commands
    /\ \/ WriteRow(requests[q].key)
       \/ items' = items
       \/ requests[q].command = "delete"
             /\ items' = [items EXCEPT ![requests[q].key] = NoRow]
    /\ SetRequest(q, Closed)
    /\ approved' \in [Keys -> SUBSET Names]

AnyStep ==
    /\ \/ /\ \/ \E r \in Replicas : AnyLoopStep(r)
             \/ \E r \in Replicas, k \in Keys : AnyTaskStep(r, k)
             \/ Tick
          /\ UNCHANGED routes
       \/ \E r \in Replicas : AnyStop(r)
       \/ /\ \/ \E k \in Keys : AnyIngest(k)
             \/ \E r \in Replicas, q \in Requests, k \in Keys, command \in Clients :
                   AnyLoad(r, q, k, command)
             \/ \E q \in Requests : AnyCommit(q)
             \/ UNCHANGED <<items, routes>>
          /\ UNCHANGED orchestrator
    /\ faults' = faults \/ Fault

(* What any of these steps keeps.                                           *)
RetriesTyped ==
    \A q \in Requests :
        requests[q].command = "retry" => requests[q].loaded.failed_from_phase \in Names

Typed == TypeOK /\ TasksTyped /\ RetriesTyped

LEMMA TypeInvIsTyped == TypeInv => Typed
BY DEF TypeInv, Typed, RequestsChecked, RequestChecked, RetriesTyped
-----------------------------------------------------------------------------
LEMMA InitTypeInv == ServiceInit => TypeInv
<1>. SUFFICES ASSUME ServiceInit PROVE TypeInv
  OBVIOUS
<1>. USE DEF ServiceInit, Init, OrchestratorInit, RoutesInit
<1>1. TypeOK
  BY NoTaskType, MaxFaultsAssumption DEF TypeOK, LoopStates
<1>2. TasksTyped
  BY DEF TasksTyped, NoTask
<1>3. RequestsChecked
  BY DEF RequestsChecked, RequestChecked, Closed, None
<1>. QED  BY <1>1, <1>2, <1>3 DEF TypeInv

LEMMA WriteType ==
    ASSUME Typed, NEW k \in Keys, WriteRow(k)
    PROVE  items' \in [Keys -> WorkItem \cup {NoRow}]
BY DEF WriteRow, Typed, TypeOK

(* The tasks a step leaves alone keep their types.                          *)
LEMMA TaskSet ==
    ASSUME Typed, NEW r \in Replicas, NEW k \in Keys, NEW t \in Task,
           t.stage # "none" => t.phase \in Names,
           t.stage = "saving" => t.loaded \in WorkItem,
           SetTask(r, k, t)
    PROVE  tasks' \in [Replicas -> [Keys -> Task]] /\ TasksTyped'
<1>1. tasks' \in [Replicas -> [Keys -> Task]]
  BY DEF Typed, TypeOK, SetTask
<1>2. ASSUME NEW r2 \in Replicas, NEW k2 \in Keys
      PROVE  tasks'[r2][k2] = IF r2 = r /\ k2 = k THEN t ELSE tasks[r2][k2]
  BY DEF Typed, TypeOK, SetTask
<1>3. TasksTyped'
  BY <1>2 DEF TasksTyped, Typed
<1>. QED  BY <1>1, <1>3

LEMMA SameTasks == ASSUME Typed, tasks' = tasks PROVE TasksTyped'
BY DEF Typed, TasksTyped

LEMMA GotoType ==
    ASSUME Typed, NEW r \in Replicas, NEW from, NEW to \in LoopStates, Goto(r, from, to)
    PROVE  loop' \in [Replicas -> LoopStates]
BY DEF Typed, TypeOK, Goto

(* The SELECT takes its snapshots from rows.                                *)
LEMMA SelectType ==
    ASSUME Typed, NEW r \in Replicas, AnySelect(r)
    PROVE  tasks' \in [Replicas -> [Keys -> Task]] /\ TasksTyped'
<1>1. PICK S \in SUBSET Rows :
        tasks' = [tasks EXCEPT ![r] =
                    [k \in Keys |->
                       IF k \in S THEN [NoTask EXCEPT !.stage = "created",
                                                     !.phase = items[k].phase,
                                                     !.results = items[k].step_results]
                       ELSE NoTask]]
  BY DEF AnySelect
<1>. DEFINE new(k) == IF k \in S THEN [NoTask EXCEPT !.stage = "created",
                                                    !.phase = items[k].phase,
                                                    !.results = items[k].step_results]
                      ELSE NoTask
<1>2. ASSUME NEW k \in Keys
      PROVE  /\ new(k) \in Task
             /\ new(k).stage # "none" => new(k).phase \in Names
             /\ new(k).stage # "saving"
  <2>1. CASE k \in S
    <3>1. items[k] \in WorkItem
      BY <2>1 DEF Rows, Exists, Typed, TypeOK
    <3>2. items[k].phase \in Names /\ items[k].step_results \in SUBSET Names
      BY <3>1 DEF WorkItem
    <3>. QED  BY <2>1, <3>2, NoTaskType DEF NoTask, Task, Stages
  <2>2. CASE k \notin S
    BY <2>2, NoTaskType DEF NoTask
  <2>. QED  BY <2>1, <2>2
<1>3. tasks' = [tasks EXCEPT ![r] = [k \in Keys |-> new(k)]]
  BY <1>1
<1>. HIDE DEF new
<1>4. tasks' \in [Replicas -> [Keys -> Task]]
  BY <1>2, <1>3 DEF Typed, TypeOK
<1>5. ASSUME NEW r2 \in Replicas, NEW k \in Keys
      PROVE  tasks'[r2][k] = IF r2 = r THEN new(k) ELSE tasks[r2][k]
  BY <1>3 DEF Typed, TypeOK
<1>6. TasksTyped'
  BY <1>2, <1>5 DEF TasksTyped, Typed
<1>. QED  BY <1>4, <1>6

(* The steps of run_loop.                                                   *)
LEMMA LoopTypeStep ==
    ASSUME Typed, NEW r \in Replicas, AnyLoopStep(r)
    PROVE  /\ items' \in [Keys -> WorkItem \cup {NoRow}]
           /\ loop' \in [Replicas -> LoopStates]
           /\ stale' \in [Replicas -> SUBSET Keys]
           /\ tasks' \in [Replicas -> [Keys -> Task]]
           /\ TasksTyped'
<1>. USE DEF LoopStates
<1>1. CASE CleanupCompleted(r)
  BY <1>1, GotoType, SameTasks DEF CleanupCompleted, Typed, TypeOK
<1>2. CASE ReleaseLoad(r)
  BY <1>2, GotoType, SameTasks DEF ReleaseLoad, Typed, TypeOK
<1>3. CASE ReleaseCommit(r)
  <2>1. \A k \in stale[r] : Released(items[k]) \in WorkItem
    BY <1>3, WriterTypes DEF ReleaseCommit, Typed, TypeOK, Exists
  <2>. QED  BY <1>3, <2>1, GotoType, SameTasks DEF ReleaseCommit, Typed, TypeOK
<1>4. CASE ReleaseRowGone(r)
  BY <1>4, GotoType, SameTasks DEF ReleaseRowGone, Typed, TypeOK
<1>5. CASE AnySelect(r)
  BY <1>5, GotoType, SelectType DEF AnySelect, Typed, TypeOK
<1>6. CASE GatherDone(r)
  BY <1>6, GotoType, SameTasks DEF GatherDone, Typed, TypeOK
<1>7. CASE UpdateGauges(r) \/ Wake(r) \/ Start(r)
  BY <1>7, GotoType, SameTasks DEF UpdateGauges, Wake, Start, Typed, TypeOK
<1>8. CASE CycleFails(r)
  BY <1>8, SameTasks DEF CycleFails, Typed, TypeOK
<1>. QED  BY <1>1, <1>2, <1>3, <1>4, <1>5, <1>6, <1>7, <1>8 DEF AnyLoopStep

(* The steps of a coroutine.                                                *)
LEMMA TaskTypeStep ==
    ASSUME Typed, NEW r \in Replicas, NEW k \in Keys, AnyTaskStep(r, k)
    PROVE  /\ items' \in [Keys -> WorkItem \cup {NoRow}]
           /\ tasks' \in [Replicas -> [Keys -> Task]]
           /\ TasksTyped'
           /\ UNCHANGED <<loop, stale>>
<1>. DEFINE t == tasks[r][k]
<1>1. t \in Task /\ items[k] \in WorkItem \cup {NoRow}
  BY DEF Typed, TypeOK
<1>2. t.stage # "none" => t.phase \in Names
  BY DEF Typed, TasksTyped
<1>3. ASSUME SetTask(r, k, NoTask)
      PROVE  tasks' \in [Replicas -> [Keys -> Task]] /\ TasksTyped'
  BY <1>3, TaskSet, NoTaskType DEF NoTask
<1>4. ASSUME WriteRow(k) PROVE items' \in [Keys -> WorkItem \cup {NoRow}]
  BY <1>4, WriteType
<1>5. CASE ClaimMisses(r, k) \/ SaveRowGone(r, k) \/ TaskDbError(r, k)
  BY <1>3, <1>5 DEF ClaimMisses, SaveRowGone, TaskDbError, Typed, TypeOK
<1>6. CASE AnyClaim(r, k)
  <2>1. t.stage = "created" /\ UNCHANGED <<loop, stale>>
    BY <1>6 DEF AnyClaim
  <2>3. items' \in [Keys -> WorkItem \cup {NoRow}]
    BY <1>4, <1>6 DEF AnyClaim
  <2>4. PICK n \in {NoTask, [t EXCEPT !.stage = "calling"],
                    [t EXCEPT !.stage = "loading", !.outcome = "skipped"]} : SetTask(r, k, n)
    BY <1>6 DEF AnyClaim
  <2>5. CASE n = NoTask
    BY <1>3, <2>1, <2>3, <2>4, <2>5
  <2>6. CASE n # NoTask
    <3>1. n \in Task /\ n.phase \in Names /\ n.stage # "saving"
      BY <1>1, <1>2, <2>1, <2>4, <2>6 DEF Task, Stages, Outcomes
    <3>2. tasks' \in [Replicas -> [Keys -> Task]] /\ TasksTyped'
      BY <2>4, <3>1, TaskSet
    <3>. QED  BY <2>1, <2>3, <3>2
  <2>. QED  BY <2>5, <2>6
<1>7. ASSUME NEW o \in Outcomes, AgentReturns(r, k, o)
      PROVE  tasks' \in [Replicas -> [Keys -> Task]] /\ TasksTyped'
  <2>. DEFINE n == [t EXCEPT !.stage = "loading", !.outcome = o]
  <2>1. t.stage = "calling" /\ SetTask(r, k, n)
    BY <1>7 DEF AgentReturns
  <2>2. n \in Task /\ n.phase \in Names /\ n.stage # "saving"
    BY <1>1, <1>2, <2>1 DEF Task, Stages
  <2>. HIDE DEF n
  <2>. QED  BY <2>1, <2>2, TaskSet
<1>8. CASE AgentAnswers(r, k) \/ AgentFails(r, k)
  BY <1>7, <1>8 DEF AgentAnswers, AgentFails, Outcomes, AgentReturns, Typed, TypeOK
<1>9. CASE Load(r, k)
  <2>1. CASE Exists(k)
    <3>. DEFINE n == [t EXCEPT !.stage = "saving", !.loaded = items[k]]
    <3>1. t.stage = "loading" /\ SetTask(r, k, n)
      BY <1>9, <2>1 DEF Load
    <3>2. items[k] \in WorkItem
      BY <1>1, <2>1 DEF Exists
    <3>3. n \in Task /\ n.phase \in Names /\ n.loaded \in WorkItem
      BY <1>1, <1>2, <3>1, <3>2 DEF Task, Stages
    <3>. HIDE DEF n
    <3>. QED  BY <1>9, <3>1, <3>3, TaskSet DEF Load, Typed, TypeOK
  <2>2. CASE ~Exists(k)
    BY <1>3, <1>9, <2>2 DEF Load, Typed, TypeOK
  <2>. QED  BY <2>1, <2>2
<1>10. CASE AnySave(r, k)
  BY <1>3, <1>4, <1>10 DEF AnySave
<1>. QED  BY <1>5, <1>6, <1>8, <1>9, <1>10 DEF AnyTaskStep, AgentAnswers, AgentFails, AgentReturns, Load

(* The clock: no lock and no call grows past its bound.                     *)
LEMMA TickTypeStep ==
    ASSUME Typed, Tick
    PROVE  /\ items' \in [Keys -> WorkItem \cup {NoRow}]
           /\ tasks' \in [Replicas -> [Keys -> Task]]
           /\ TasksTyped'
<1>1. items' \in [Keys -> WorkItem \cup {NoRow}]
  <2>1. \A k \in Keys : Exists(k) => Older(items[k]) \in WorkItem
    BY WriterTypes DEF Typed, TypeOK, Exists
  <2>. QED  BY <2>1 DEF Tick, AgeLocks
<1>. DEFINE t(r, k) == tasks[r][k]
            new(r, k) == IF t(r, k).stage \in {"calling", "loading", "saving"}
                         THEN [t(r, k) EXCEPT !.held = @ + 1] ELSE t(r, k)
<1>2. ASSUME NEW r \in Replicas, NEW k \in Keys
      PROVE  /\ new(r, k) \in Task
             /\ new(r, k).stage = t(r, k).stage
             /\ new(r, k).phase = t(r, k).phase
             /\ new(r, k).loaded = t(r, k).loaded
  <2>1. t(r, k) \in Task
    BY DEF Typed, TypeOK
  <2>2. CASE t(r, k).stage \in {"calling", "loading", "saving"}
    <3>1. t(r, k).held < MaxHold
      BY <2>2 DEF Tick
    <3>2. t(r, k).held + 1 \in 0..MaxHold
      BY <2>1, <3>1, MaxHoldAssumption DEF Task
    <3>. QED  BY <2>1, <2>2, <3>2 DEF Task
  <2>3. CASE t(r, k).stage \notin {"calling", "loading", "saving"}
    BY <2>1, <2>3
  <2>. QED  BY <2>2, <2>3
<1>3. tasks' = [r \in Replicas |-> [k \in Keys |-> new(r, k)]]
  BY DEF Tick
<1>. HIDE DEF new
<1>4. tasks' \in [Replicas -> [Keys -> Task]]
  BY <1>2, <1>3
<1>5. \A r \in Replicas, k \in Keys : tasks'[r][k] = new(r, k)
  BY <1>3
<1>6. TasksTyped'
  BY <1>2, <1>5 DEF TasksTyped, Typed
<1>. QED  BY <1>1, <1>4, <1>6

(* The end of a process.                                                    *)
LEMMA StopTypeStep ==
    ASSUME Typed, NEW r \in Replicas, AnyStop(r)
    PROVE  /\ items' = items /\ approved' = approved
           /\ loop' \in [Replicas -> LoopStates]
           /\ stale' \in [Replicas -> SUBSET Keys]
           /\ tasks' \in [Replicas -> [Keys -> Task]]
           /\ TasksTyped'
           /\ requests' = [q \in Requests |->
                             IF requests[q].at = r THEN Closed ELSE requests[q]]
<1>1. loop' \in [Replicas -> LoopStates] /\ stale' \in [Replicas -> SUBSET Keys]
      /\ items' = items /\ approved' = approved
  BY DEF AnyStop, Stop, DropRequests, Typed, TypeOK, LoopStates
<1>2. tasks' = [tasks EXCEPT ![r] = [k \in Keys |-> NoTask]]
  BY DEF AnyStop, Stop
<1>3. tasks' \in [Replicas -> [Keys -> Task]]
  BY <1>2, NoTaskType DEF Typed, TypeOK
<1>4. ASSUME NEW r2 \in Replicas, NEW k \in Keys
      PROVE  tasks'[r2][k] = IF r2 = r THEN NoTask ELSE tasks[r2][k]
  BY <1>2 DEF Typed, TypeOK
<1>5. NoTask.stage = "none"
  BY DEF NoTask
<1>6. TasksTyped'
  BY <1>4, <1>5 DEF TasksTyped, Typed
<1>. QED  BY <1>1, <1>3, <1>6 DEF AnyStop, DropRequests
-----------------------------------------------------------------------------
(* The requests a step leaves alone stay what they were.                    *)
LEMMA RequestSet ==
    ASSUME Typed, NEW q \in Requests, NEW req \in Request \cup {Closed}, SetRequest(q, req),
           req.command = "retry" => req.loaded.failed_from_phase \in Names
    PROVE  requests' \in [Requests -> Request \cup {Closed}] /\ RetriesTyped'
<1>1. requests' \in [Requests -> Request \cup {Closed}]
  BY DEF Typed, TypeOK, SetRequest
<1>2. ASSUME NEW q2 \in Requests
      PROVE  requests'[q2] = IF q2 = q THEN req ELSE requests[q2]
  BY DEF Typed, TypeOK, SetRequest
<1>3. RetriesTyped'
  BY <1>2 DEF RetriesTyped, Typed
<1>. QED  BY <1>1, <1>3

LEMMA NothingClosed == Closed.command \notin Commands
BY DEF Closed, None, Commands

(* What the handlers read and refuse.                                       *)
LEMMA LoadTypeStep ==
    ASSUME Typed, NEW r \in Replicas, NEW q \in Requests, NEW k \in Keys,
           NEW command \in Commands, AnyLoad(r, q, k, command)
    PROVE  /\ requests' \in [Requests -> Request \cup {Closed}]
           /\ RetriesTyped'
           /\ UNCHANGED <<items, approved>>
<1>. DEFINE req == [at |-> r, key |-> k, command |-> command, loaded |-> items[k]]
<1>1. items[k] \in WorkItem
  BY DEF AnyLoad, Typed, TypeOK, Exists
<1>2. items[k].failed_from_phase \in Names \cup {None}
  BY <1>1 DEF WorkItem
<1>3. req \in Request
  BY <1>1 DEF Request
<1>4. req.command = "retry" => req.loaded.failed_from_phase \in Names
  BY <1>2 DEF AnyLoad
<1>5. SetRequest(q, req) /\ UNCHANGED <<items, approved>>
  BY DEF AnyLoad, Open
<1>. HIDE DEF req
<1>. QED  BY <1>3, <1>4, <1>5, RequestSet

LEMMA TypedStep == ASSUME Typed, AnyStep PROVE Typed'
<1>. USE DEF orchestrator, routes
<1>1. faults' \in 0..MaxFaults
  BY MaxFaultsAssumption DEF AnyStep, Fault, Typed, TypeOK
<1>2. ASSUME requests' = requests PROVE RetriesTyped'
  BY <1>2 DEF RetriesTyped, Typed
<1>3. ASSUME NEW r \in Replicas, AnyLoopStep(r), UNCHANGED routes PROVE Typed'
  BY <1>1, <1>2, <1>3, LoopTypeStep DEF Typed, TypeOK
<1>4. ASSUME NEW r \in Replicas, NEW k \in Keys, AnyTaskStep(r, k), UNCHANGED routes
      PROVE  Typed'
  BY <1>1, <1>2, <1>4, TaskTypeStep DEF Typed, TypeOK
<1>5. CASE Tick /\ UNCHANGED routes
  BY <1>1, <1>2, <1>5, TickTypeStep DEF Tick, Typed, TypeOK
<1>6. ASSUME NEW r \in Replicas, AnyStop(r) PROVE Typed'
  <2>1. requests' \in [Requests -> Request \cup {Closed}]
    BY <1>6, StopTypeStep DEF Typed, TypeOK
  <2>2. \A q \in Requests : requests'[q] \in {Closed, requests[q]}
    BY <1>6, StopTypeStep
  <2>3. RetriesTyped'
    BY <2>2, NothingClosed DEF RetriesTyped, Typed, Commands
  <2>. QED  BY <1>1, <1>6, <2>1, <2>3, StopTypeStep DEF Typed, TypeOK
<1>7. ASSUME NEW k \in Keys, AnyIngest(k), UNCHANGED orchestrator PROVE Typed'
  <2>1. items' \in [Keys -> WorkItem \cup {NoRow}] /\ approved' \in [Keys -> SUBSET Names]
    BY <1>7, WriteType DEF AnyIngest, Typed, TypeOK
  <2>. QED  BY <1>1, <1>2, <1>7, <2>1, SameTasks DEF AnyIngest, Typed, TypeOK
<1>8. ASSUME NEW r \in Replicas, NEW q \in Requests, NEW k \in Keys,
             NEW command \in Clients, AnyLoad(r, q, k, command), UNCHANGED orchestrator
      PROVE  Typed'
  <2>1. command \in Commands
    BY ClientsAssumption
  <2>. QED  BY <1>1, <1>8, <2>1, LoadTypeStep, SameTasks DEF Typed, TypeOK
<1>9. ASSUME NEW q \in Requests, AnyCommit(q), UNCHANGED orchestrator PROVE Typed'
  <2>1. requests' \in [Requests -> Request \cup {Closed}] /\ RetriesTyped'
    BY <1>9, NothingClosed, RequestSet DEF AnyCommit, Commands
  <2>2. requests[q].key \in Keys
    BY <1>9, OpenRequestType DEF AnyCommit, Request, Typed
  <2>3. items' \in [Keys -> WorkItem \cup {NoRow}]
    BY <1>9, <2>2, WriteType DEF AnyCommit, Typed, TypeOK
  <2>. QED  BY <1>1, <1>9, <2>1, <2>3, SameTasks DEF AnyCommit, Typed, TypeOK
<1>10. CASE UNCHANGED <<items, routes>> /\ UNCHANGED orchestrator
  BY <1>1, <1>2, <1>10, SameTasks DEF Typed, TypeOK
<1>. QED  BY <1>3, <1>4, <1>5, <1>6, <1>7, <1>8, <1>9, <1>10 DEF AnyStep
-----------------------------------------------------------------------------
(* The steps of the service with its policies are such steps.               *)
LEMMA LoopIsAny == ASSUME NEW r, LoopStep(r) PROVE AnyLoopStep(r)
<1>1. ASSUME SelectReady(r) PROVE AnySelect(r)
  <2>. DEFINE S == {k \in Keys : Selectable(k)}
  <2>1. S \in SUBSET Rows
    BY DEF Selectable, Rows
  <2>2. \A k \in Keys : Selectable(k) <=> k \in S
    OBVIOUS
  <2>. HIDE DEF S
  <2>. QED  BY <1>1, <2>1, <2>2 DEF SelectReady, AnySelect
<1>. QED  BY <1>1 DEF LoopStep, AnyLoopStep

LEMMA ClaimWrites ==
    ASSUME Typed, NEW k \in Keys, Exists(k), NEW m \in {AUTOMATIC, MANUAL, None},
           items' = [items EXCEPT ![k] = Claimed(@, m)]
    PROVE  WriteRow(k)
<1>1. items[k] \in WorkItem
  BY DEF Exists, Typed, TypeOK
<1>2. Claimed(items[k], m) \in WorkItem
  BY <1>1, WriterTypes
<1>. QED  BY <1>2 DEF WriteRow

(* What a coroutine writes over whatever the row has become.                *)
LEMMA SaveWrites ==
    ASSUME Typed, NEW r \in Replicas, NEW k \in Keys, tasks[r][k].stage = "saving",
           Exists(k), NEW n \in Names, NEW done \in SUBSET Names,
           NEW differs,
           LET t == tasks[r][k]
           IN  \/ items' = [items EXCEPT ![k] =
                       FlushReason(items[k], t.loaded, Failed(t.loaded, t.phase), differs)]
               \/ items' = [items EXCEPT ![k] =
                       FlushResult(@, t.loaded, Advanced(t.loaded, n, done), done)]
    PROVE  WriteRow(k)
<1>. DEFINE t == tasks[r][k]
            new == Advanced(t.loaded, n, done)
<1>1. items[k] \in WorkItem /\ t.loaded \in WorkItem /\ t.phase \in Names
  BY DEF Exists, Typed, TasksTyped, TypeOK
<1>2. FlushReason(items[k], t.loaded, Failed(t.loaded, t.phase), differs) \in WorkItem
  BY <1>1, WriterTypes, FlushType
<1>3. new \in WorkItem
  BY <1>1, WriterTypes
<1>. HIDE DEF new
<1>4. FlushResult(items[k], t.loaded, new, done) \in WorkItem
  BY <1>1, <1>3, FlushType
<1>. QED  BY <1>2, <1>4 DEF WriteRow, new

(* What a handler does.                                                     *)
LEMMA HandlerWrites ==
    ASSUME Typed, NEW q \in Requests, NEW command \in Commands, NEW new,
           requests[q].loaded \in WorkItem => new \in WorkItem,
           requests[q].command = command, Exists(requests[q].key),
           NEW differs,
           LET k   == requests[q].key
               row == requests[q].loaded
           IN  \/ items' = [items EXCEPT ![k] = Flush(@, row, new)]
               \/ items' = [items EXCEPT ![k] = FlushReason(items[k], row, new, differs)]
    PROVE  WriteRow(requests[q].key)
<1>. DEFINE k == requests[q].key
            old == requests[q].loaded
<1>1. requests[q] \in Request
  BY OpenRequestType DEF Typed
<1>2. k \in Keys /\ old \in WorkItem
  BY <1>1 DEF Request
<1>3. items[k] \in WorkItem
  BY <1>2 DEF Exists, Typed, TypeOK
<1>4. Flush(items[k], old, new) \in WorkItem
      /\ FlushReason(items[k], old, new, differs) \in WorkItem
  BY <1>2, <1>3, FlushType
<1>. QED  BY <1>4 DEF WriteRow

LEMMA ApprovalIsAny ==
    ASSUME Typed, NEW q \in Requests, NEW n \in Names,
           Commit(q, "approve", Approved(requests[q].loaded, n)),
           approved' = [approved EXCEPT ![requests[q].key] = @ \cup {requests[q].loaded.phase}]
    PROVE  AnyCommit(q)
<1>1. WriteRow(requests[q].key)
  BY WriterTypes, HandlerWrites DEF Commit, Commands
<1>2. requests[q] \in Request
  BY OpenRequestType DEF Commit, Commands, Typed
<1>3. approved' \in [Keys -> SUBSET Names]
  BY <1>2 DEF Request, WorkItem, Typed, TypeOK
<1>. QED  BY <1>1, <1>3 DEF AnyCommit, Commit, Commands

LEMMA OtherCommitIsAny ==
    ASSUME Typed, NEW q \in Requests, Deny(q) \/ Retry(q) \/ Delete(q) \/ RowGone(q)
    PROVE  AnyCommit(q)
<1>1. SetRequest(q, Closed) /\ requests[q].command \in Commands /\ approved' = approved
  BY DEF Deny, Retry, Delete, RowGone, Commit, Commands
<1>2. approved' \in [Keys -> SUBSET Names]
  BY <1>1 DEF Typed, TypeOK
<1>3. CASE Deny(q)
  <2>. DEFINE row == requests[q].loaded
  <2>1. PICK differs \in BOOLEAN :
           items' = [items EXCEPT ![requests[q].key] =
                        FlushReason(@, row, Denied(row), differs)]
    BY <1>3 DEF Deny
  <2>2. row \in WorkItem => Denied(row) \in WorkItem
    BY WriterTypes
  <2>3. Exists(requests[q].key) /\ requests[q].command = "deny" /\ "deny" \in Commands
    BY <1>3 DEF Deny, Commands
  <2>. DEFINE new == Denied(row)
  <2>4. items' = [items EXCEPT ![requests[q].key] = FlushReason(@, row, new, differs)]
    BY <2>1
  <2>5. row \in WorkItem => new \in WorkItem
    BY <2>2
  <2>. HIDE DEF new
  <2>6. WriteRow(requests[q].key)
    BY <2>3, <2>4, <2>5, HandlerWrites
  <2>. QED  BY <1>1, <1>2, <2>6 DEF AnyCommit
<1>4. CASE Retry(q)
  <2>1. requests[q].loaded.failed_from_phase \in Names
    BY <1>4 DEF Retry, Commit, Typed, RetriesTyped
  <2>2. WriteRow(requests[q].key)
    BY <1>4, <2>1, WriterTypes, HandlerWrites DEF Retry, Commit, Commands
  <2>. QED  BY <1>1, <1>2, <2>2 DEF AnyCommit
<1>5. CASE Delete(q) \/ RowGone(q)
  BY <1>1, <1>2, <1>5 DEF Delete, RowGone, AnyCommit
<1>. QED  BY <1>3, <1>4, <1>5

LEMMA TaskIsAny ==
    ASSUME Typed, NEW r \in Replicas, NEW k \in Keys, TaskStep(r, k) \/ TaskDbError(r, k)
    PROVE  AnyTaskStep(r, k)
<1>. DEFINE t == tasks[r][k]
<1>1. ASSUME ClaimManual(r, k) \/ ClaimAutomatic(r, k) PROVE AnyClaim(r, k)
  <2>1. PhaseOf(r, k).mode \in {AUTOMATIC, MANUAL, None}
    BY Lookups, ModeTypes DEF PhaseOf
  <2>2. WriteRow(k)
    BY <1>1, <2>1, ClaimWrites DEF ClaimManual, ClaimAutomatic, CanClaim
  <2>. QED  BY <1>1, <2>2 DEF ClaimManual, ClaimAutomatic, AnyClaim
<1>2. ASSUME SaveAdvanced(r, k) PROVE AnySave(r, k)
  <2>. DEFINE done == IF t.outcome = "result" THEN {t.phase} ELSE {}
  <2>1. done \in SUBSET Names /\ NextOf(r, k).name \in Names
    BY <1>2, Lookups, ModeTypes DEF SaveAdvanced, NextOf, Succeeds, Typed, TasksTyped
  <2>2. WriteRow(k)
    BY <1>2, <2>1, SaveWrites DEF SaveAdvanced
  <2>. QED  BY <1>2, <2>2 DEF SaveAdvanced, AnySave
<1>3. ASSUME SaveFailed(r, k) PROVE AnySave(r, k)
  <2>1. PICK differs \in BOOLEAN :
           items' = [items EXCEPT ![k] =
                        FlushReason(@, t.loaded, Failed(t.loaded, t.phase), differs)]
    BY <1>3 DEF SaveFailed
  <2>2. FAILED \in Names /\ {} \in SUBSET Names
    BY NamesAssumption
  <2>3. WriteRow(k)
    BY <1>3, <2>1, <2>2, SaveWrites DEF SaveFailed
  <2>. QED  BY <1>3, <2>3 DEF SaveFailed, AnySave
<1>. QED  BY <1>1, <1>2, <1>3 DEF TaskStep, AnyTaskStep

LEMMA LoadIsAny ==
    ASSUME NEW r, NEW q, NEW k, NEW command, LoadStep(r, q, k, command)
    PROVE  /\ AnyLoad(r, q, k, command)
           /\ command = "approve" => next_phase(PolicyOf(k), items[k].phase) # NoPhase
BY DEF LoadStep, ReviewLoad, DeleteLoad, RetryLoad, AnyLoad

LEMMA IngestIsAny == ASSUME NEW k, ReceiveEvent(k) PROVE AnyIngest(k)
BY StoredType DEF ReceiveEvent, AnyIngest, WriteRow

LEMMA CommitIsAny ==
    ASSUME Typed, NEW q \in Requests, CommitStep(q),
           requests[q].command = "approve" =>
              next_phase(PolicyOf(requests[q].key), requests[q].loaded.phase) # NoPhase
    PROVE  AnyCommit(q)
<1>. DEFINE row == requests[q].loaded
            next == next_phase(PolicyOf(requests[q].key), row.phase)
<1>1. CASE Approve(q)
  <2>1. next.name \in Names
    BY <1>1, Lookups, ModeTypes DEF Approve, Commit
  <2>. QED  BY <1>1, <2>1, ApprovalIsAny DEF Approve
<1>2. CASE ~Approve(q)
  BY <1>2, OtherCommitIsAny DEF CommitStep
<1>. QED  BY <1>1, <1>2

LEMMA NextIsAny == ASSUME TypeInv, [Next]_vars PROVE AnyStep
<1>. USE TypeInvIsTyped DEF orchestrator, routes
<1>1. ASSUME NEW r \in Replicas, Loop(r) \/ Boot(r) \/ LoopError(r) PROVE AnyStep
  BY <1>1, LoopIsAny DEF Loop, Boot, LoopError, AnyLoopStep, AnyStep
<1>2. ASSUME NEW r \in Replicas, Crash(r) PROVE AnyStep
  BY <1>2 DEF Crash, AnyStop, AnyStep
<1>3. ASSUME NEW r \in Replicas, NEW k \in Keys, Run(r, k) \/ TaskError(r, k) PROVE AnyStep
  BY <1>3, TaskIsAny DEF Run, TaskError, AnyStep
<1>4. ASSUME NEW r \in Replicas, NEW k \in Keys, Ingest(r, k) PROVE AnyStep
  BY <1>4, IngestIsAny DEF Ingest, AnyStep
<1>5. ASSUME NEW r \in Replicas, NEW q \in Requests, NEW k \in Keys,
             NEW command \in Clients, OpenRequest(r, q, k, command)
      PROVE  AnyStep
  BY <1>5, LoadIsAny DEF OpenRequest, AnyStep
<1>6. ASSUME NEW q \in Requests, CloseRequest(q) PROVE AnyStep
  <2>1. AnyCommit(q)
    BY <1>6, CommitIsAny
    DEF CloseRequest, TypeInv, RequestsChecked, RequestChecked
  <2>. QED  BY <1>6, <2>1 DEF CloseRequest, AnyStep
<1>7. CASE Time \/ UNCHANGED vars
  BY <1>7 DEF Time, vars, AnyStep
<1>. QED  BY <1>1, <1>2, <1>3, <1>4, <1>5, <1>6, <1>7 DEF Next

(* The open requests a step leaves open, and the one it opens.              *)
LEMMA RequestsOfStep ==
    ASSUME TypeInv, [Next]_vars, NEW q \in Requests
    PROVE  \/ requests'[q] \in {requests[q], Closed}
           \/ \E r \in Replicas, k \in Keys, command \in Commands :
                 LoadStep(r, q, k, command)
<1>1. ASSUME NEW q2 \in Requests, NEW req, SetRequest(q2, req)
      PROVE  requests'[q] = IF q = q2 THEN req ELSE requests[q]
  BY <1>1 DEF SetRequest, TypeInv, TypeOK
<1>2. ASSUME NEW r \in Replicas, NEW q2 \in Requests, NEW k \in Keys,
             NEW command \in Clients, OpenRequest(r, q2, k, command)
      PROVE  requests'[q] = requests[q] \/ (q = q2 /\ LoadStep(r, q2, k, command))
  BY <1>1, <1>2 DEF OpenRequest, LoadStep, ReviewLoad, DeleteLoad, RetryLoad, Open
<1>3. ASSUME NEW q2 \in Requests, CloseRequest(q2) PROVE requests'[q] \in {requests[q], Closed}
  BY <1>1, <1>3
  DEF CloseRequest, CommitStep, Approve, Deny, Retry, Delete, RowGone, Commit
<1>4. ASSUME NEW r \in Replicas, Crash(r) PROVE requests'[q] \in {requests[q], Closed}
  BY <1>4 DEF Crash, DropRequests
<1>5. ASSUME NEW r \in Replicas, Loop(r) \/ Boot(r) \/ LoopError(r) PROVE requests' = requests
  BY <1>5 DEF Loop, Boot, LoopError, routes
<1>6. ASSUME NEW r \in Replicas, NEW k \in Keys, Run(r, k) \/ TaskError(r, k) \/ Ingest(r, k)
      PROVE  requests' = requests
  BY <1>6 DEF Run, TaskError, Ingest, ReceiveEvent, routes
<1>7. CASE Time \/ UNCHANGED vars
  BY <1>7 DEF Time, vars, routes
<1>. QED  BY <1>2, <1>3, <1>4, <1>5, <1>6, <1>7, ClientsAssumption DEF Next

LEMMA TypeInvStep == TypeInv /\ [Next]_vars => TypeInv'
<1>. SUFFICES ASSUME TypeInv, [Next]_vars PROVE TypeInv'
  OBVIOUS
<1>1. Typed'
  BY TypeInvIsTyped, NextIsAny, TypedStep
<1>2. ASSUME NEW q \in Requests
      PROVE  requests'[q].command = "approve" =>
                next_phase(PolicyOf(requests'[q].key), requests'[q].loaded.phase) # NoPhase
  <2>1. CASE requests'[q] \in {requests[q], Closed}
    BY <2>1, NothingClosed DEF TypeInv, RequestsChecked, RequestChecked, Commands
  <2>2. ASSUME NEW r \in Replicas, NEW k \in Keys, NEW command \in Commands,
               LoadStep(r, q, k, command)
        PROVE  requests'[q].command = "approve" =>
                  next_phase(PolicyOf(requests'[q].key), requests'[q].loaded.phase) # NoPhase
    <3>1. requests'[q] = [at |-> r, key |-> k, command |-> command, loaded |-> items[k]]
      BY <2>2, LoadIsAny DEF AnyLoad, Open, SetRequest, TypeInv, TypeOK
    <3>. QED  BY <2>2, <3>1, LoadIsAny
  <2>. QED  BY <2>1, <2>2, RequestsOfStep
<1>. QED  BY <1>1, <1>2 DEF Typed, RetriesTyped, TypeInv, RequestsChecked, RequestChecked

(***************************************************************************)
(* Every row stays a row, every snapshot a coroutine or a request holds is *)
(* one of a row, locks and calls stay within their bounds, and no commit   *)
(* moves an item to a phase that does not exist (models.py:122,            *)
(* orchestrator.py:67, items.py:95-119, 158-195): for any number of        *)
(* replicas and any clients, overlapping requests included.                *)
(***************************************************************************)
THEOREM TypeCorrect == Spec => []TypeInv
<1>1. ServiceInit => TypeInv
  BY InitTypeInv
<1>2. TypeInv /\ [Next]_vars => TypeInv'
  BY TypeInvStep
<1>. QED  BY <1>1, <1>2, PTL DEF Spec
=============================================================================
