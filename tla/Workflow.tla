------------------------------ MODULE Workflow ------------------------------
(***************************************************************************)
(* What the service promises of a work item (README.md:61-83, 149): the    *)
(* states an item has for a user of the API and the moves between them.    *)
(* No table, no lock, no coroutine, no request: those are how Automator    *)
(* keeps the promise.                                                      *)
(***************************************************************************)
EXTENDS Policy

CONSTANTS
    Keys,       \* the items there can be
    EventType   \* the event type of each of them

VARIABLE status     \* where each item is

Stations == {"absent", "offered", "working", "review", "failed", "denied"}

(* The phase is that of the policy the item is in; of a denial none is kept. *)
Status == [at : Stations, phase : Names \cup {None}]

Absent == [at |-> "absent", phase |-> None]

At(station, phase) == [at |-> station, phase |-> phase]

PolicyOf(k) == match_policy(EventType[k])

Init == status = [k \in Keys |-> Absent]
-----------------------------------------------------------------------------
(* One move of item k; the phase it is in is p where it matters.            *)
Move(k, from, to) == status[k] = from /\ status'[k] = to

(* An event arrives, and a policy handles its type.                         *)
Accept(k) == /\ PolicyOf(k) # NoPolicy
             /\ Move(k, Absent, At("offered", first_phase(PolicyOf(k)).name))

(* The loop picks the item up, for an agent or for a reviewer.              *)
Begin(k, p)     == /\ get_phase(PolicyOf(k), p).mode = AUTOMATIC
                   /\ Move(k, At("offered", p), At("working", p))
AskReview(k, p) == /\ get_phase(PolicyOf(k), p).mode = MANUAL
                   /\ Move(k, At("offered", p), At("review", p))

(* Work ends: done, failed, or given up by a process that is gone.          *)
Advance(k, p) ==
    Move(k, At("working", p), At("offered", next_phase(PolicyOf(k), p).name))
Fail(k, p)     == Move(k, At("working", p), At("failed", p))
GiveBack(k, p) == Move(k, At("working", p), At("offered", p))

(* The reviewer answers.                                                    *)
Approve(k, p) ==
    Move(k, At("review", p), At("offered", next_phase(PolicyOf(k), p).name))
Deny(k, p)    == Move(k, At("review", p), At("denied", None))

(* A failed item is tried again; a completed or failed one is removed.      *)
Retry(k, p)   == Move(k, At("failed", p), At("offered", p))
Remove(k, p)  == \/ Move(k, At("offered", COMPLETED), Absent)
                 \/ Move(k, At("failed", p), Absent)
                 \/ Move(k, At("denied", None), Absent)

Step(k) ==
    \/ Accept(k)
    \/ \E p \in Names :
          /\ p # COMPLETED
          /\ \/ Begin(k, p) \/ AskReview(k, p)
             \/ Advance(k, p) \/ Fail(k, p) \/ GiveBack(k, p)
             \/ Approve(k, p) \/ Deny(k, p) \/ Retry(k, p) \/ Remove(k, p)

(* Cleanup and release move any number of items at once.                    *)
Next ==
    /\ status' \in [Keys -> Status]
    /\ \A k \in Keys : Step(k) \/ status'[k] = status[k]

Spec == Init /\ [][Next]_status
=============================================================================
