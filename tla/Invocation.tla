----------------------------- MODULE Invocation -----------------------------
(***************************************************************************)
(* What the loop relies on when it awaits _invoke_agent: the call ends, as *)
(* a text or an exception, within a bounded time.  AgentReturns and Tick   *)
(* of Orchestrator are this specification, once per coroutine.             *)
(***************************************************************************)
EXTENDS Naturals

CONSTANT MaxHold

VARIABLES stage, outcome, held

vars == <<stage, outcome, held>>

Init == stage = "none" /\ outcome = "none" /\ held = 0

(* A coroutine awaits a call; the one before it has ended.                  *)
Call == /\ stage # "calling"
        /\ stage' = "calling" /\ outcome' = "none" /\ held' = 0

Returns == /\ stage = "calling"
           /\ stage' = "ended"
           /\ outcome' \in {"result", "error"}
           /\ UNCHANGED held

Tick == /\ stage = "calling" /\ held < MaxHold
        /\ held' = held + 1
        /\ UNCHANGED <<stage, outcome>>

Next == Call \/ Returns \/ Tick

Spec == Init /\ [][Next]_vars /\ WF_vars(Returns)
=============================================================================
