----------------------------- MODULE ItemRoutes -----------------------------
(***************************************************************************)
(* The HTTP handlers that write the table: event ingestion                 *)
(* (app/routes/events.py), review and failed-item actions                  *)
(* (app/routes/items.py).  A handler reads the row in one await and writes *)
(* it in another; its checks are made on the row it read.                  *)
(***************************************************************************)
EXTENDS WorkItems

CONSTANT
    Requests    \* review and failed-item requests that can be open at a time

VARIABLES
    requests,   \* the open requests
    approved    \* history: the phases a reviewer approved since the insert

routes == <<requests, approved>>

Commands == {"approve", "deny", "delete", "retry"}

Request == [at : Replicas, key : Keys, command : Commands, loaded : WorkItem]

Closed == [at |-> None, key |-> None, command |-> None, loaded |-> NoRow]

RoutesInit ==
    /\ requests = [q \in Requests |-> Closed]
    /\ approved = [k \in Keys |-> {}]

SetRequest(q, r) == requests' = [requests EXCEPT ![q] = r]

Open(r, q, k, command) ==
    /\ requests[q] = Closed
    /\ SetRequest(q, [at |-> r, key |-> k, command |-> command, loaded |-> items[k]])
    /\ UNCHANGED <<items, approved>>
-----------------------------------------------------------------------------
(***************************************************************************)
(* receive_event and _store_event.  Posting the same name, type and time   *)
(* again meets the primary key and changes nothing while the row is there. *)
(***************************************************************************)
ReceiveEvent(k) ==
    /\ PolicyOf(k) # NoPolicy
    /\ ~Exists(k)
    /\ items' = [items EXCEPT ![k] = Stored(k)]
    /\ approved' = [approved EXCEPT ![k] = {}]
    /\ UNCHANGED requests

(* Mutant of ReviewLoad: the mode of the item is not checked.               *)
ReviewAnything(r, q, k, command) ==
    /\ command \in {"approve", "deny"}
    /\ Exists(k)
    /\ PolicyOf(k) # NoPolicy
    /\ next_phase(PolicyOf(k), items[k].phase) # NoPhase
    /\ Open(r, q, k, command)

(* review_item up to its commit: 404, 400, 500 and 400 leave no request.    *)
ReviewLoad(r, q, k, command) ==
    /\ command \in {"approve", "deny"}
    /\ Exists(k)
    /\ items[k].mode = MANUAL
    /\ PolicyOf(k) # NoPolicy
    /\ next_phase(PolicyOf(k), items[k].phase) # NoPhase
    /\ Open(r, q, k, command)

(* Mutant of DeleteLoad: the phase of the item is not checked.              *)
DeleteAnything(r, q, k, command) ==
    /\ command = "delete"
    /\ Exists(k)
    /\ Open(r, q, k, command)

(* Mutant of RetryLoad: failed_from_phase is not checked.                   *)
RetryAnything(r, q, k, command) ==
    /\ command = "retry"
    /\ Exists(k)
    /\ items[k].phase = FAILED
    /\ Open(r, q, k, command)

(* failed_item_action up to its commit: its delete, its retry.              *)
DeleteLoad(r, q, k, command) ==
    /\ command = "delete"
    /\ Exists(k)
    /\ items[k].phase = FAILED
    /\ Open(r, q, k, command)

RetryLoad(r, q, k, command) ==
    /\ command = "retry"
    /\ Exists(k)
    /\ items[k].phase = FAILED
    /\ items[k].failed_from_phase # None
    /\ get_phase(PolicyOf(k), items[k].failed_from_phase) # NoPhase
    /\ Open(r, q, k, command)
-----------------------------------------------------------------------------
(* The UPDATE of a commit: what the handler changed in the row it read.     *)
Commit(q, command, new) ==
    LET k == requests[q].key
    IN  /\ requests[q].command = command
        /\ Exists(k)
        /\ items' = [items EXCEPT ![k] = Flush(@, requests[q].loaded, new)]
        /\ SetRequest(q, Closed)

Approve(q) ==
    LET k == requests[q].key
        row == requests[q].loaded
    IN  /\ Commit(q, "approve",
                  Approved(row, next_phase(PolicyOf(k), row.phase).name))
        /\ approved' = [approved EXCEPT ![k] = @ \cup {row.phase}]

(* The reason of a denial may be another text than the one that was read.   *)
Deny(q) ==
    LET k   == requests[q].key
        row == requests[q].loaded
    IN  /\ requests[q].command = "deny"
        /\ Exists(k)
        /\ \E differs \in BOOLEAN :
              items' = [items EXCEPT ![k] = FlushReason(@, row, Denied(row), differs)]
        /\ SetRequest(q, Closed)
        /\ UNCHANGED approved

Retry(q) ==
    /\ Commit(q, "retry", Retried(requests[q].loaded))
    /\ UNCHANGED approved

(* DELETE by primary key; a row already gone is only a warning.             *)
Delete(q) ==
    /\ requests[q].command = "delete"
    /\ items' = [items EXCEPT ![requests[q].key] = NoRow]
    /\ SetRequest(q, Closed)
    /\ UNCHANGED approved

(* The row to UPDATE is gone: StaleDataError, the client gets a 500.        *)
RowGone(q) ==
    /\ requests[q].command \in {"approve", "deny", "retry"}
    /\ ~Exists(requests[q].key)
    /\ SetRequest(q, Closed)
    /\ UNCHANGED <<items, approved>>

(* Requests open in a process end with it, before their commit.             *)
DropRequests(r) ==
    /\ requests' = [q \in Requests |->
                       IF requests[q].at = r THEN Closed ELSE requests[q]]
    /\ UNCHANGED approved

LoadStep(r, q, k, command) ==
    \/ ReviewLoad(r, q, k, command)
    \/ DeleteLoad(r, q, k, command)
    \/ RetryLoad(r, q, k, command)

CommitStep(q) == Approve(q) \/ Deny(q) \/ Retry(q) \/ Delete(q) \/ RowGone(q)
=============================================================================
