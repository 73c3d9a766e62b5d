----------------------------- MODULE A2AClient ------------------------------
(***************************************************************************)
(* send_message (app/services/a2a_client.py): one invocation of an agent,  *)
(* with its attempts over a network that loses requests and answers.  An   *)
(* attempt has its own HTTP client and message id, so an answer to an      *)
(* earlier one reaches nobody.                                             *)
(***************************************************************************)
EXTENDS Integers

CONSTANTS
    MaxExtra,   \* _TRANSIENT_RETRY_MAX_EXTRA
    Backoff,    \* _TRANSIENT_RETRY_BACKOFF_BASE_SECONDS, in ticks
    Timeout,    \* timeout_seconds, in ticks: of each HTTP operation
    MaxReads    \* an assumption on agents: the reads a prompt answer takes

ASSUME A2AAssumption == /\ MaxExtra \in Nat /\ Backoff \in Nat
                        /\ Timeout \in Nat /\ MaxReads \in Nat \ {0}

VARIABLES
    stage,      \* where the invocation is
    attempt,    \* of _async_retry_on_transient
    operation,  \* HTTP operations this attempt has completed
    quiet,      \* ticks since the last of them, or in the sleep
    delivered,  \* the attempts whose message the agent received
    answer,     \* the answer that was read
    error,      \* the exception raised last
    elapsed     \* ticks since the call

vars == <<stage, attempt, operation, quiet, delivered, answer, error, elapsed>>

Stages == {"none", "trying", "sleeping", "returned", "raised"}

(* Answers: a message, no event at all, or a task in one of its states.     *)
TaskStates == {"completed", "failed", "working", "rejected"}
Answers    == TaskStates \cup {"message", "nothing"}

(* Exceptions by what the retry asks of them: timeouts, broken transport,   *)
(* 502/503/504; any other HTTP status or RPC error; a failed task; cancel.  *)
Errors == {"timeout", "transport", "unavailable", "refused", "task_failed",
           "cancelled"}

max_attempts == 1 + MaxExtra

(* Mutant of transient_invocation_error: every exception is retried.        *)
AnyErrorIsTransient(e) == e # "cancelled"

transient_invocation_error(e) == e \in {"timeout", "transport", "unavailable"}

(* Mutant of Delay: the exponent is the attempt itself.                     *)
DelayOffByOne(n) == Backoff * 2^n

Delay(n) == Backoff * 2^(n - 1)

Init ==
    /\ stage = "none" /\ attempt = 0 /\ operation = 0 /\ quiet = 0
    /\ delivered = {} /\ answer = "none" /\ error = "none" /\ elapsed = 0

Ended == stage \in {"none", "returned", "raised"}

(* The first attempt of the next invocation.                                *)
Begin ==
    /\ Ended
    /\ stage' = "trying" /\ attempt' = 1 /\ operation' = 0 /\ quiet' = 0
    /\ delivered' = {} /\ answer' = "none" /\ error' = "none" /\ elapsed' = 0

(* Mutants of Raise: one attempt too many; one too few.                     *)
RaiseLate(e) ==
    /\ stage' = IF ~transient_invocation_error(e) \/ attempt > max_attempts
                THEN "raised" ELSE "sleeping"
    /\ error' = e
    /\ quiet' = 0

RaiseEarly(e) ==
    /\ stage' = IF ~transient_invocation_error(e) \/ attempt >= MaxExtra
                THEN "raised" ELSE "sleeping"
    /\ error' = e
    /\ quiet' = 0

(* The except branch of _async_retry_on_transient.                          *)
Raise(e) ==
    /\ stage' = IF ~transient_invocation_error(e) \/ attempt >= max_attempts
                THEN "raised" ELSE "sleeping"
    /\ error' = e
    /\ quiet' = 0

(* An HTTP operation completes: the connection, the request (the message is *)
(* with the agent then), and reads of the answer.  Nothing counts the reads.*)
Progress ==
    /\ stage = "trying"
    /\ operation' = operation + 1
    /\ quiet' = 0
    /\ delivered' = IF operation' = 2 THEN delivered \cup {attempt} ELSE delivered
    /\ UNCHANGED <<stage, attempt, answer, error, elapsed>>

TimedOut ==
    /\ stage = "trying" /\ quiet = Timeout
    /\ Raise("timeout")
    /\ UNCHANGED <<attempt, operation, delivered, answer, elapsed>>

Broken ==
    /\ stage = "trying"
    /\ Raise("transport")
    /\ UNCHANGED <<attempt, operation, delivered, answer, elapsed>>

(* An error status, of a proxy before the agent or of the agent itself.     *)
HttpError(e) ==
    /\ stage = "trying" /\ operation >= 2
    /\ Raise(e)
    /\ UNCHANGED <<attempt, operation, delivered, answer, elapsed>>

(* _send_message_once: the first event of the response ends the attempt.    *)
AnswerRead(a) ==
    /\ stage = "trying" /\ operation >= 2
    /\ answer' = a
    /\ IF a = "failed"
       THEN Raise("task_failed")
       ELSE stage' = "returned" /\ UNCHANGED <<error, quiet>>
    /\ UNCHANGED <<attempt, operation, delivered, elapsed>>

(* The loop is cancelled at shutdown, in an attempt or in the sleep.        *)
Cancelled ==
    /\ ~Ended
    /\ stage' = "raised" /\ error' = "cancelled" /\ quiet' = 0
    /\ UNCHANGED <<attempt, operation, delivered, answer, elapsed>>

(* After the sleep: a new message id, a new client.                         *)
Retry ==
    /\ stage = "sleeping" /\ quiet = Delay(attempt)
    /\ stage' = "trying" /\ attempt' = attempt + 1 /\ operation' = 0 /\ quiet' = 0
    /\ UNCHANGED <<delivered, answer, error, elapsed>>

(* Time: an operation ends at its timeout, a sleep at its delay.            *)
Tick ==
    /\ \/ stage = "trying" /\ quiet < Timeout
       \/ stage = "sleeping" /\ quiet < Delay(attempt)
    /\ quiet' = quiet + 1 /\ elapsed' = elapsed + 1
    /\ UNCHANGED <<stage, attempt, operation, delivered, answer, error>>

Next ==
    \/ Begin \/ Progress \/ TimedOut \/ Broken \/ Cancelled \/ Retry \/ Tick
    \/ \E e \in {"unavailable", "refused"} : HttpError(e)
    \/ \E a \in Answers : AnswerRead(a)

Spec == Init /\ [][Next]_vars

(***************************************************************************)
(* The timeout bounds the silence before an operation, not the attempt: an *)
(* agent that sends its answer piece by piece, each within the timeout,    *)
(* holds the call for as long as it likes (httpx.Timeout,                  *)
(* a2a_client.py:169).  A prompt agent needs at most MaxReads pieces.      *)
(***************************************************************************)
Prompt == operation <= 1 + MaxReads

PromptNext == Next /\ Prompt'

(* The coroutine is scheduled; time passes.                                 *)
PromptSpec == Init /\ [][PromptNext]_vars /\ WF_vars(~Ended /\ PromptNext)
-----------------------------------------------------------------------------
(* No attempt after the last: the counter of the retry stays in its range.  *)
TypeOK ==
    /\ stage \in Stages /\ attempt \in 0..max_attempts
    /\ operation \in Nat
    /\ quiet \in Nat /\ elapsed \in Nat
    /\ delivered \subseteq 1..max_attempts
    /\ answer \in Answers \cup {"none"} /\ error \in Errors \cup {"none"}

(***************************************************************************)
(* An agent that has answered, be it that it failed, is not asked again:   *)
(* only a lost attempt is repeated (a2a_client.py:41-51, 66-71, 181-192).  *)
(***************************************************************************)
AnswerIsFinal == answer # "none" => Ended /\ attempt \in delivered

(***************************************************************************)
(* A timeout, a broken transport and 502/503/504 end the invocation only   *)
(* when every attempt is used up; they are also the only errors after      *)
(* which there is a sleep or a further attempt, whose result is returned   *)
(* (README.md:123, a2a_client.py:35, 42-51, 65-71,                         *)
(* tests/unit/test_a2a_client.py:133).                                     *)
(***************************************************************************)
RetriesAreUsed ==
    LET lost == error \in {"timeout", "transport", "unavailable"}
    IN  /\ stage = "raised" /\ lost => attempt = 1 + MaxExtra
        /\ stage = "sleeping" => lost
        /\ stage \in {"trying", "returned"} /\ attempt > 1 => lost

(* The longest a prompt agent takes: every operation of every attempt at its *)
(* timeout, and the sleeps 1, 2, 4, ... between the attempts.               *)
Budget == max_attempts * (2 + MaxReads) * Timeout + Backoff * (2^MaxExtra - 1)

Abstract ==
    INSTANCE Invocation WITH
        MaxHold <- Budget,
        held <- elapsed,
        stage <- IF stage = "none" THEN "none" ELSE IF Ended THEN "ended" ELSE "calling",
        outcome <- CASE stage = "returned" -> "result"
                     [] stage = "raised" -> "error"
                     [] OTHER -> "none"

(***************************************************************************)
(* send_message is the call the loop awaits: with a prompt agent it ends,  *)
(* with a text or an exception, within Budget, whatever is lost on the way *)
(* (orchestrator.py:92-96, 172-180, a2a_client.py:54-83).                  *)
(***************************************************************************)
CallEndsInTime == Abstract!Spec
=============================================================================
