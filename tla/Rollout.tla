------------------------------ MODULE Rollout -------------------------------
(***************************************************************************)
(* A new configuration is rolled out while items are in the table: policies *)
(* are read once per process (load_config, app/models/config.py), so each  *)
(* replica changes when it is restarted, and until the last one has, old   *)
(* and new policies drive the same rows (README.md:184-195).               *)
(***************************************************************************)
EXTENDS Automator

CONSTANT NewPolicies    \* the policies of the new configuration

VARIABLE upgraded       \* the replicas that have read it

New == INSTANCE Automator WITH Policies <- NewPolicies

ASSUME NewPoliciesAssumption ==
    /\ NewPolicies \in Seq([event_types: SUBSET STRING, phases: Seq(PhaseConfig)])
    /\ \A n \in DOMAIN NewPolicies : /\ ValidPolicy(NewPolicies[n])
                                     /\ FAILED \notin PhaseNames(NewPolicies[n])

RolloutInit == ServiceInit /\ upgraded = {}

Old(r) == r \notin upgraded /\ UNCHANGED upgraded
Upgraded(r) == r \in upgraded /\ UNCHANGED upgraded

(* What a replica does depends on the policies it has read.                 *)
LoopOf(r) ==
    \/ Old(r) /\ Loop(r)
    \/ Upgraded(r) /\ New!Loop(r)

RunOf(r, k) ==
    \/ Old(r) /\ Run(r, k)
    \/ Upgraded(r) /\ New!Run(r, k)

IngestOf(r, k) ==
    \/ Old(r) /\ Ingest(r, k)
    \/ Upgraded(r) /\ New!Ingest(r, k)

RequestOf(r, q, k, command) ==
    \/ Old(r) /\ OpenRequest(r, q, k, command)
    \/ Upgraded(r) /\ New!OpenRequest(r, q, k, command)

CommitOf(q) ==
    \/ Old(requests[q].at) /\ CloseRequest(q)
    \/ Upgraded(requests[q].at) /\ New!CloseRequest(q)

(* The deployment stops the process and starts one with the new file.       *)
Upgrade(r) ==
    /\ r \notin upgraded
    /\ Stop(r)
    /\ DropRequests(r)
    /\ UNCHANGED faults
    /\ upgraded' = upgraded \cup {r}

(* What no policy is asked for.                                             *)
Rest ==
    /\ \/ \E r \in Replicas : Boot(r) \/ Crash(r) \/ LoopError(r)
       \/ \E r \in Replicas, k \in Keys : TaskError(r, k)
       \/ Time
    /\ UNCHANGED upgraded

RolloutNext ==
    \/ \E r \in Replicas : LoopOf(r) \/ Upgrade(r)
    \/ \E r \in Replicas, k \in Keys : RunOf(r, k) \/ IngestOf(r, k)
    \/ \E r \in Replicas, q \in Requests, k \in Keys, command \in Clients :
          RequestOf(r, q, k, command)
    \/ \E q \in Requests : CommitOf(q)
    \/ Rest

rollout == <<vars, upgraded>>

RolloutSpec == RolloutInit /\ [][RolloutNext]_rollout

(* The fairness of Automator; nobody has to upgrade anything.               *)
RolloutFairness ==
    /\ \A r \in Replicas :
          WF_rollout(LoopOf(r)) /\ WF_rollout(Boot(r) /\ UNCHANGED upgraded)
    /\ \A r \in Replicas, k \in Keys : WF_rollout(RunOf(r, k))
    /\ \A q \in Requests : WF_rollout(CommitOf(q))
    /\ WF_rollout(Time /\ UNCHANGED upgraded)

FairRollout == RolloutSpec /\ RolloutFairness
=============================================================================
