---------------------------- MODULE MCAutomator -----------------------------
(***************************************************************************)
(* Small instances of Automator: a policy with every kind of phase.        *)
(***************************************************************************)
EXTENDS Promises, Gauges

CONSTANTS k1, k2

Agent(n)  == [name |-> n, mode |-> AUTOMATIC, operation |-> TRUE]
Skip(n)   == [name |-> n, mode |-> AUTOMATIC, operation |-> FALSE]
Review(n) == [name |-> n, mode |-> MANUAL, operation |-> FALSE]

(* The workflow of README.md:104-112.                                       *)
AlertPolicy ==
    [event_types |-> {"alert"},
     phases |-> <<Agent("assess"), Review("approve"), Agent("remediate"),
                  Skip(COMPLETED)>>]

(* A workflow that starts with a review and passes a phase without agent.   *)
UpgradePolicy ==
    [event_types |-> {"upgrade", "alert"},
     phases |-> <<Review("approve"), Skip("record"), Agent("upgrade"),
                  Skip(COMPLETED)>>]

(* Two agent phases: nothing to review.                                     *)
DeployPolicy ==
    [event_types |-> {"alert"},
     phases |-> <<Agent("plan"), Agent("deploy"), Skip(COMPLETED)>>]

MCDeployPolicies == <<DeployPolicy>>

MCPolicies == <<AlertPolicy, UpgradePolicy>>

(* The validator accepts a name twice; next_phase always finds the first.   *)
RepeatedPolicy ==
    [event_types |-> {"alert"},
     phases |-> <<Agent("assess"), Agent("deploy"), Agent("assess"),
                  Skip(COMPLETED)>>]

MCRepeatedPolicies == <<RepeatedPolicy>>

MCNames == {"assess", "review", "approve", "remediate", "record", "upgrade", "plan",
            "deploy", COMPLETED, FAILED}

MCTypesOne == [k \in Keys |-> "alert"]
MCTypesTwo == [k \in Keys |-> IF k = k1 THEN "alert" ELSE "upgrade"]
=============================================================================
