----------------------------- MODULE MCRollout ------------------------------
(***************************************************************************)
(* Rollouts of configurations that add to the old one or go against it.    *)
(***************************************************************************)
EXTENDS Rollout, MCAutomator

(* README.md:188-195: an event type and a policy are added.                 *)
MCAlertOnly == <<AlertPolicy>>

MCAdded == <<AlertPolicy, UpgradePolicy>>

(* A phase is left out.                                                     *)
MCLeftOut ==
    <<[event_types |-> {"alert"}, phases |-> <<Agent("plan"), Skip(COMPLETED)>>]>>
=============================================================================
