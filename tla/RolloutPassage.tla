--------------------------- MODULE RolloutPassage ---------------------------
(***************************************************************************)
(* What an item has been through while replicas of two configurations work *)
(* on the table: Rollout with the history variables of Passage.  A phase   *)
(* may be new or gone in the new configuration, or have another mode; what *)
(* both ask for is said here.                                              *)
(***************************************************************************)
EXTENDS Rollout, Passage

RolloutPassageInit == PassageInit /\ upgraded = {}

RolloutPassageNext == RolloutNext /\ Recorded

RolloutPassageSpec ==
    RolloutPassageInit /\ [][RolloutPassageNext]_<<rollout, history>>
-----------------------------------------------------------------------------
(* What the policy p asks of phase n: a review, or an agent or a review.    *)
Reviewed(p, n) == get_phase(p, n).mode = MANUAL
Demanded(p, n) == Reviewed(p, n) \/ AgentPhase(p, n)

(* The phases that both configurations put before the phase.                *)
BeforeInBoth(k, phase) ==
    Before(PolicyOf(k), phase) \cap Before(New!PolicyOf(k), phase)

(* Those of them that both have reviewed, that both demand something of.    *)
ReviewedInBoth ==
    [k \in Keys |-> [phase \in Names |->
        {n \in BeforeInBoth(k, phase) :
            Reviewed(PolicyOf(k), n) /\ Reviewed(New!PolicyOf(k), n)}]]

DemandedInBoth ==
    [k \in Keys |-> [phase \in Names |->
        {n \in BeforeInBoth(k, phase) :
            Demanded(PolicyOf(k), n) /\ Demanded(New!PolicyOf(k), n)}]]

(* The former were approved, the latter approved or answered, at least once. *)
EarnedInBoth(k, phase) ==
    /\ ReviewedInBoth[k][phase] \subseteq granted[k]
    /\ DemandedInBoth[k][phase] \subseteq granted[k] \cup answered[k]

(* The two configurations have the phases they share in one order.          *)
SameOrder ==
    \A k \in Keys :
        LET old == PolicyOf(k)
            new == New!PolicyOf(k)
        IN  \A m, n \in PhaseNames(old) \cap PhaseNames(new) :
                m \in Before(old, n) <=> m \in Before(new, n)

(***************************************************************************)
(* While a configuration that adds, drops or changes phases without        *)
(* reordering them is rolled out, nothing that both configurations ask of  *)
(* an item is left out: whichever replica, old or new, claims, releases,   *)
(* advances or reviews it between two steps of the others, an agent is     *)
(* called and the item completed only when all that both put before has    *)
(* been approved or answered (README.md:66-77, 184-195,                    *)
(* orchestrator.py:75-128, 250, config.py:66-71).                          *)
(***************************************************************************)
RolloutSkipsNothing ==
    /\ \A r \in Replicas, k \in Keys :
          Calling(r, k) => EarnedInBoth(k, tasks[r][k].phase)
    /\ \A k \in Rows : items[k].phase = COMPLETED => EarnedInBoth(k, COMPLETED)
-----------------------------------------------------------------------------
(* The policy a process of replica r drives items of key k by.              *)
PolicyAt(r, k) == IF r \in upgraded THEN New!PolicyOf(k) ELSE PolicyOf(k)

SoundInBoth(k, phase) == phase \in {None, FAILED} \/ EarnedInBoth(k, phase)

SoundRowInBoth(k, row) ==
    SoundInBoth(k, row.phase) /\ SoundInBoth(k, row.failed_from_phase)

(* A coroutine goes by the policy of its own process.                       *)
SoundTaskInBoth(r, k, t) ==
    t.stage # "none" =>
        /\ EarnedInBoth(k, t.phase)
        /\ t.stage # "created" => ~Reviewed(PolicyAt(r, k), t.phase)
        /\ t.stage \in {"loading", "saving"} /\ AgentPhase(PolicyAt(r, k), t.phase) =>
              t.outcome = "error" \/ t.phase \in answered[k]
        /\ t.stage = "saving" => SoundRowInBoth(k, t.loaded)

(***************************************************************************)
(* The invariant behind it: a phase that any writer of either              *)
(* configuration has in hand - in a row, a coroutine or a request - is one *)
(* before which nothing was left out (orchestrator.py:67-128,              *)
(* items.py:95-212).                                                       *)
(***************************************************************************)
RolloutPassageInv ==
    /\ \A k \in Rows : SoundRowInBoth(k, items[k])
    /\ \A r \in Replicas, k \in Keys : SoundTaskInBoth(r, k, tasks[r][k])
    /\ \A q \in Requests :
          requests[q] # Closed => SoundRowInBoth(requests[q].key, requests[q].loaded)
=============================================================================
