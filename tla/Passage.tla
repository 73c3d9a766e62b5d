------------------------------ MODULE Passage -------------------------------
(***************************************************************************)
(* What an item has been through, kept across everything that can be done  *)
(* to its row: Automator with two history variables.  Replicas take items  *)
(* from each other, requests commit late, rows are removed and their events *)
(* posted again; what is left of the order of phases is said here.         *)
(***************************************************************************)
EXTENDS Automator

VARIABLES
    granted,    \* the phases a reviewer has approved, ever, of each key
    answered    \* the phases an agent has given a result for, ever

history == <<granted, answered>>

PassageInit ==
    /\ ServiceInit
    /\ granted = [k \in Keys |-> {}]
    /\ answered = [k \in Keys |-> {}]

(* The phases of k whose agent has given a result to a coroutine of now.    *)
Results(k) == {tasks[r][k].phase : r \in {x \in Replicas : tasks[x][k].outcome = "result"}}

Recorded ==
    /\ granted' = [k \in Keys |-> granted[k] \cup approved'[k]]
    /\ answered' = [k \in Keys |-> answered[k] \cup Results(k)']

PassageNext == Next /\ Recorded

PassageSpec == PassageInit /\ [][PassageNext]_<<vars, history>>
-----------------------------------------------------------------------------
(* All that comes before the phase has happened to the item at least once.  *)
Earned(k, phase) ==
    /\ ManualBefore(PolicyOf(k), phase) \subseteq granted[k]
    /\ AgentBefore(PolicyOf(k), phase) \subseteq granted[k] \cup answered[k]

(***************************************************************************)
(* Whatever replicas, reviewers and clients do to each other, an agent is  *)
(* called for an event only when each earlier manual phase has been        *)
(* approved for that event, now or before it was posted again, and no      *)
(* earlier agent phase was passed but by a result or a reviewer            *)
(* (README.md:66-77, orchestrator.py:88-128, items.py:101-136).            *)
(***************************************************************************)
CallsAreEarned ==
    \A r \in Replicas, k \in Keys :
        Calling(r, k) => Earned(k, tasks[r][k].phase)

(***************************************************************************)
(* The same of what the loop removes as completed (README.md:66-73,        *)
(* orchestrator.py:212-219).                                               *)
(***************************************************************************)
CompletionIsEarned ==
    \A k \in Rows : items[k].phase = COMPLETED => Earned(k, COMPLETED)
-----------------------------------------------------------------------------
(* A phase column that any writer may write, whatever it has read.          *)
Sound(k, phase) == phase \in {None, FAILED} \/ Earned(k, phase)

(* Columns of one row may come from several writers: each is sound alone.   *)
SoundRow(k, row) == Sound(k, row.phase) /\ Sound(k, row.failed_from_phase)

(* What a coroutine keeps of its item stays true of the past.               *)
SoundTask(k, t) ==
    t.stage # "none" =>
        /\ Earned(k, t.phase)
        /\ t.stage # "created" => get_phase(PolicyOf(k), t.phase).mode # MANUAL
        /\ t.stage \in {"loading", "saving"} /\ AgentPhase(PolicyOf(k), t.phase) =>
              t.outcome = "error" \/ t.phase \in answered[k]
        /\ t.stage = "saving" => SoundRow(k, t.loaded)

(***************************************************************************)
(* The invariant behind both: every copy of a row, and every column of it, *)
(* names phases that were earned when it was written, and what was earned  *)
(* once stays earned (orchestrator.py:67-128, items.py:95-212).            *)
(***************************************************************************)
PassageInv ==
    /\ \A k \in Rows : SoundRow(k, items[k])
    /\ \A r \in Replicas, k \in Keys : SoundTask(k, tasks[r][k])
    /\ \A q \in Requests :
          requests[q] # Closed => SoundRow(requests[q].key, requests[q].loaded)
=============================================================================
