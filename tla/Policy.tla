------------------------------- MODULE Policy -------------------------------
(***************************************************************************)
(* Policies: the configured workflows (app/models/models.py) and how an    *)
(* event type selects one (AppConfig.match_policy, app/models/config.py).  *)
(* The configuration is read once at start-up, so it is a constant here.   *)
(***************************************************************************)
EXTENDS Naturals, Sequences, FiniteSetsExt

CONSTANTS
    Policies,   \* the list cfg.policies, in the order of the YAML file
    Names       \* the strings that are names of phases

MANUAL    == "manual"
AUTOMATIC == "automatic"
COMPLETED == "completed"
FAILED    == "failed"

None == "<null>"   \* Python's None in a nullable string: a token, no phase's name

(***************************************************************************)
(* An operation is a prompt for an agent: only whether there is one        *)
(* matters, since a phase without one is passed without calling an agent.  *)
(***************************************************************************)
PhaseConfig == [name: Names, mode: {AUTOMATIC, MANUAL}, operation: BOOLEAN]

NoPhase  == [name |-> None, mode |-> None, operation |-> FALSE]
NoPolicy == [event_types |-> {}, phases |-> <<>>]

(* Policy._validate_phases: what pydantic demands of a policy, no more.     *)
ValidPolicy(p) ==
    /\ p.phases \in Seq(PhaseConfig)
    /\ Len(p.phases) >= 2
    /\ p.phases[Len(p.phases)].name = COMPLETED

PhaseNames(p) == {p.phases[i].name : i \in DOMAIN p.phases}

ASSUME NamesAssumption == {COMPLETED, FAILED} \subseteq Names /\ None \notin Names

(* Every policy passes the validator and, as README.md:80 says, leaves the  *)
(* terminal state "failed" undefined (the validator does not check that).   *)
ASSUME PoliciesAssumption ==
    /\ Policies \in Seq([event_types: SUBSET STRING, phases: Seq(PhaseConfig)])
    /\ \A n \in DOMAIN Policies : /\ ValidPolicy(Policies[n])
                                  /\ FAILED \notin PhaseNames(Policies[n])
-----------------------------------------------------------------------------
first_phase(p) == p.phases[1]

(* The positions a name has in the list: nothing makes names unique.        *)
Positions(p, name) == {i \in DOMAIN p.phases : p.phases[i].name = name}

(* The loop of next_phase skips a match in last position and goes on.       *)
next_phase(p, current) ==
    LET followed == {i \in Positions(p, current) : i + 1 <= Len(p.phases)}
    IN  IF followed = {} THEN NoPhase ELSE p.phases[Min(followed) + 1]

get_phase(p, name) ==
    IF Positions(p, name) = {} THEN NoPhase ELSE p.phases[Min(Positions(p, name))]

match_policy(type) ==
    LET handlers == {n \in DOMAIN Policies : type \in Policies[n].event_types}
    IN  IF handlers = {} THEN NoPolicy ELSE Policies[Min(handlers)]
-----------------------------------------------------------------------------
(***************************************************************************)
(* Vocabulary of the properties, not code: the phases a work item has to   *)
(* go through before it can be in phase name.                              *)
(***************************************************************************)
Before(p, name) ==
    {p.phases[i].name : i \in {j \in DOMAIN p.phases :
                                 \A h \in Positions(p, name) : j < h}}

ManualBefore(p, name) == {n \in Before(p, name) : get_phase(p, n).mode = MANUAL}

AgentPhase(p, n) == get_phase(p, n).mode = AUTOMATIC /\ get_phase(p, n).operation

AgentBefore(p, name) == {n \in Before(p, name) : AgentPhase(p, n)}
=============================================================================
