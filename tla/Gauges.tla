------------------------------- MODULE Gauges -------------------------------
(***************************************************************************)
(* What /metrics tells of the table: the gauges _update_gauges sets at the *)
(* end of a cycle (app/services/orchestrator.py, app/metrics.py), as the   *)
(* sets of keys they count.  A condition on a column that is NULL counts   *)
(* nothing.                                                                *)
(***************************************************************************)
EXTENDS Automator

items_waiting_manual == {k \in Rows : items[k].mode = MANUAL /\ ~items[k].ready}

items_in_flight == {k \in Rows : /\ items[k].locked_at # NoLock
                                 /\ items[k].mode \notin {MANUAL, None}}

(* Mutant of items_ready: completed items are counted.                      *)
ready_or_completed == {k \in Rows : items[k].ready}

items_ready == {k \in Rows : items[k].ready /\ items[k].phase # COMPLETED}

items_failed == {k \in Rows : items[k].phase = FAILED}

gauges == <<items_waiting_manual, items_in_flight, items_ready, items_failed>>
-----------------------------------------------------------------------------
(***************************************************************************)
(* Between them the four gauges count every item that is not completed,    *)
(* and none of them twice (README.md:169-172, orchestrator.py:255-300),    *)
(* although each is a condition on other columns, which other steps write. *)
(***************************************************************************)
GaugesPartitionItems ==
    \A k \in Rows :
        LET counted == {i \in 1..4 : k \in gauges[i]}
        IN  IF items[k].phase = COMPLETED
            THEN counted = {}
            ELSE \E i \in 1..4 : counted = {i}

(***************************************************************************)
(* What the gauge is said to show: an item it counts when it is refreshed  *)
(* is being worked on (app/metrics.py:42, README.md:170).  The refresh     *)
(* waits for gather, so what it counts on a single replica is what a crash *)
(* or an error has left claimed (orchestrator.py:30-33, 276).              *)
(***************************************************************************)
InFlightIsBeingWorked ==
    \A r \in Replicas : loop[r] = "gauges" =>
        \A k \in items_in_flight : \E s \in Replicas : Working(s, k)
=============================================================================
