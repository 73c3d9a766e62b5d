----------------------------- MODULE MCPassage ------------------------------
(***************************************************************************)
(* A policy in which a late write can pass over both kinds of phases.      *)
(***************************************************************************)
EXTENDS Passage, MCAutomator, TLC

CONSTANTS q1, q2

ReleasePolicy ==
    [event_types |-> {"alert"},
     phases |-> <<Review("review"), Agent("plan"), Agent("deploy"), Skip(COMPLETED)>>]

MCReleasePolicies == <<ReleasePolicy>>

Same == Permutations({q1, q2})
=============================================================================
