----------------------------- MODULE MCReplicas -----------------------------
(***************************************************************************)
(* A rollout over several replicas.                                        *)
(***************************************************************************)
EXTENDS RolloutPassage, MCAutomator, TLC

CONSTANTS r1, r2

MCAlertOnly == <<AlertPolicy>>

(* The new configuration has a plan made between assessment and approval.   *)
MCPlanned ==
    <<[event_types |-> {"alert"},
       phases |-> <<Agent("assess"), Agent("plan"), Review("approve"),
                    Agent("remediate"), Skip(COMPLETED)>>]>>

(* What RolloutLeavesNothingOut asks of the two configurations.             *)
ASSUME PlannedKeepsOrder == SameOrder

(* Bound: what follows once the item has been removed is left to other runs. *)
PostedOnce == \A k \in Keys : ~Exists(k) => granted[k] = {} /\ answered[k] = {}

Replicated == Permutations({r1, r2})
=============================================================================
