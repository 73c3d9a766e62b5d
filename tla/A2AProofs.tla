----------------------------- MODULE A2AProofs ------------------------------
(***************************************************************************)
(* What send_message keeps for every number of retries and every timeout.  *)
(***************************************************************************)
EXTENDS A2AClient, TLAPS

(* A sleep is followed by an attempt that is still allowed, and an answer   *)
(* can only come from an agent that was reached.                            *)
A2AInv ==
    /\ TypeOK
    /\ AnswerIsFinal
    /\ RetriesAreUsed
    /\ stage = "sleeping" => attempt < max_attempts
    /\ stage = "trying" /\ operation >= 2 => attempt \in delivered
    /\ ~Ended => attempt \in 1..max_attempts

LEMMA A2AInit == Init => A2AInv
BY A2AAssumption
DEF Init, A2AInv, TypeOK, AnswerIsFinal, RetriesAreUsed, Ended, Stages, max_attempts

(* What the except branch does to an attempt.                               *)
LEMMA RaiseStep ==
    ASSUME A2AInv, stage = "trying", NEW e \in Errors, Raise(e),
           attempt' = attempt, operation' = operation, delivered' = delivered,
           answer' \in Answers \cup {"none"}, elapsed' = elapsed,
           answer' # "none" => attempt \in delivered /\ e = "task_failed"
    PROVE  A2AInv'
<1>1. stage' \in {"raised", "sleeping"} /\ error' = e /\ quiet' = 0
      /\ (stage' = "sleeping" => attempt < max_attempts /\ transient_invocation_error(e))
      /\ (stage' = "raised" => ~transient_invocation_error(e) \/ attempt = 1 + MaxExtra)
  BY A2AAssumption DEF Raise, A2AInv, Ended, max_attempts
<1>2. TypeOK'
  BY <1>1 DEF A2AInv, TypeOK, Stages
<1>3. AnswerIsFinal'
  BY <1>1 DEF AnswerIsFinal, Ended, transient_invocation_error
<1>4. RetriesAreUsed'
  BY <1>1 DEF RetriesAreUsed, transient_invocation_error
<1>. QED  BY <1>1, <1>2, <1>3, <1>4 DEF A2AInv, Ended, max_attempts

LEMMA A2AStep == A2AInv /\ [Next]_vars => A2AInv'
<1>. SUFFICES ASSUME A2AInv, [Next]_vars PROVE A2AInv'
  OBVIOUS
<1>. USE A2AAssumption DEF max_attempts
<1>1. CASE Begin
  BY <1>1 DEF Begin, A2AInv, TypeOK, AnswerIsFinal, RetriesAreUsed, Ended, Stages
<1>2. CASE Progress
  <2>1. answer = "none" /\ attempt \in 1..max_attempts
    BY <1>2 DEF Progress, A2AInv, AnswerIsFinal, Ended
  <2>2. /\ stage' = "trying" /\ operation' = operation + 1 /\ quiet' = 0
        /\ operation' \in Nat
        /\ operation' = 2 => delivered' = delivered \cup {attempt}
        /\ operation' # 2 => delivered' = delivered
        /\ UNCHANGED <<stage, attempt, answer, error, elapsed>>
    BY <1>2 DEF Progress, A2AInv, TypeOK
  <2>3. operation' >= 2 => attempt \in delivered'
    BY <1>2, <2>2 DEF Progress, A2AInv, TypeOK
  <2>. QED
    BY <2>1, <2>2, <2>3 DEF A2AInv, TypeOK, AnswerIsFinal, RetriesAreUsed, Ended, Stages
<1>3. ASSUME stage = "trying" PROVE answer = "none"
  BY <1>3 DEF A2AInv, AnswerIsFinal, Ended
<1>4. CASE TimedOut
  BY <1>3, <1>4, RaiseStep DEF TimedOut, Errors
<1>5. CASE Broken
  BY <1>3, <1>5, RaiseStep DEF Broken, Errors
<1>6. ASSUME NEW e \in {"unavailable", "refused"}, HttpError(e) PROVE A2AInv'
  BY <1>3, <1>6, RaiseStep DEF HttpError, Errors
<1>7. ASSUME NEW a \in Answers, AnswerRead(a) PROVE A2AInv'
  <2>1. stage = "trying" /\ attempt \in delivered /\ a # "none"
    BY <1>7 DEF AnswerRead, A2AInv, Answers, TaskStates
  <2>2. CASE a = "failed"
    BY <1>7, <2>1, <2>2, RaiseStep DEF AnswerRead, Errors
  <2>3. CASE a # "failed"
    BY <1>7, <2>1, <2>3
    DEF AnswerRead, A2AInv, TypeOK, AnswerIsFinal, RetriesAreUsed, Ended, Stages
  <2>. QED  BY <2>2, <2>3
<1>8. CASE Cancelled
  BY <1>8
  DEF Cancelled, A2AInv, TypeOK, AnswerIsFinal, RetriesAreUsed, Ended, Stages, Errors
<1>9. CASE Retry
  BY <1>9 DEF Retry, A2AInv, TypeOK, AnswerIsFinal, RetriesAreUsed, Ended, Stages
<1>10. CASE Tick
  BY <1>10 DEF Tick, A2AInv, TypeOK, AnswerIsFinal, RetriesAreUsed, Ended, Stages
<1>11. CASE UNCHANGED vars
  BY <1>11 DEF vars, A2AInv, TypeOK, AnswerIsFinal, RetriesAreUsed, Ended, Stages
<1>. QED
  BY <1>1, <1>2, <1>4, <1>5, <1>6, <1>7, <1>8, <1>9, <1>10, <1>11 DEF Next

(***************************************************************************)
(* Only a lost attempt is repeated: once an answer was read, of a failed   *)
(* task too, nothing more is sent (a2a_client.py:66-71, 181-192).          *)
(***************************************************************************)
THEOREM NoRetryAfterAnswer == Spec => []AnswerIsFinal
<1>1. A2AInv => AnswerIsFinal
  BY DEF A2AInv
<1>. QED  BY <1>1, A2AInit, A2AStep, PTL DEF Spec

(***************************************************************************)
(* No transient error ends an invocation before its last attempt, and no   *)
(* other error is followed by one (README.md:123, a2a_client.py:63-83).    *)
(***************************************************************************)
THEOREM TransientErrorsAreRetried == Spec => []RetriesAreUsed
<1>1. A2AInv => RetriesAreUsed
  BY DEF A2AInv
<1>. QED  BY <1>1, A2AInit, A2AStep, PTL DEF Spec

(***************************************************************************)
(* The counter of the retry, and with it the delay of a sleep, stays in    *)
(* its range (a2a_client.py:63-83).                                        *)
(***************************************************************************)
THEOREM AttemptsAreCounted == Spec => []TypeOK
<1>1. A2AInv => TypeOK
  BY DEF A2AInv
<1>. QED  BY <1>1, A2AInit, A2AStep, PTL DEF Spec
-----------------------------------------------------------------------------
(* All operations of one attempt, and the sleeps after the first n.         *)
Span     == (2 + MaxReads) * Timeout
Slept(n) == Backoff * (2^n - 1)

(* What the provers have to be told of powers.                              *)
PowersOfTwo ==
    \A n \in 0..MaxExtra : /\ 2^n \in Nat /\ 2^n >= 1
                           /\ 2^n <= 2^MaxExtra
                           /\ n # 0 => 2^n = 2 * 2^(n - 1)

(* Where the time went: to attempts, to sleeps, to the present one of them. *)
TimeInv ==
    /\ stage = "trying" =>
         /\ quiet <= Timeout
         /\ elapsed <= (attempt - 1) * Span + operation * Timeout + Slept(attempt - 1) + quiet
    /\ stage = "sleeping" =>
         /\ quiet <= Delay(attempt)
         /\ elapsed <= attempt * Span + Slept(attempt - 1) + quiet
    /\ elapsed <= Budget

LEMMA Sums ==
    ASSUME PowersOfTwo
    PROVE  /\ Budget = max_attempts * Span + Slept(MaxExtra) /\ Budget \in Nat
           /\ \A a \in 1..max_attempts :
                 /\ (a - 1) * Span \in Nat /\ a * Span \in Nat
                 /\ (a - 1) * Span + Span = a * Span /\ a * Span <= max_attempts * Span
           /\ \A n \in 0..(1 + MaxReads) :
                 n * Timeout \in Nat /\ (n + 1) * Timeout = n * Timeout + Timeout
           /\ \A n \in 0..(1 + MaxReads) : n * Timeout + Timeout <= Span
           /\ \A n \in 0..MaxExtra : Slept(n) \in Nat /\ Slept(n) <= Slept(MaxExtra)
           /\ \A a \in 1..MaxExtra : Delay(a) \in Nat /\ Slept(a) = Slept(a - 1) + Delay(a)
<1>. USE A2AAssumption DEF max_attempts
<1>1. Span \in Nat
  BY DEF Span
<1>2. \A a \in 1..max_attempts :
         /\ (a - 1) * Span \in Nat /\ a * Span \in Nat
         /\ (a - 1) * Span + Span = a * Span /\ a * Span <= max_attempts * Span
  BY <1>1
<1>3. \A n \in 0..(1 + MaxReads) :
         n * Timeout \in Nat /\ (n + 1) * Timeout = n * Timeout + Timeout
  OBVIOUS
<1>4. \A n \in 0..(1 + MaxReads) : n * Timeout + Timeout <= Span
  <2>. SUFFICES ASSUME NEW n \in 0..(1 + MaxReads) PROVE n * Timeout + Timeout <= Span
    OBVIOUS
  <2>1. PICK m \in Nat : 1 + MaxReads = n + m
    <3>1. 1 + MaxReads - n \in Nat /\ 1 + MaxReads = n + (1 + MaxReads - n)
      OBVIOUS
    <3>. QED  BY <3>1
  <2>2. Span = n * Timeout + Timeout + m * Timeout /\ m * Timeout \in Nat /\ n * Timeout \in Nat
    BY <2>1 DEF Span
  <2>. QED  BY <2>2
<1>5. \A n \in 0..MaxExtra : Slept(n) \in Nat /\ Slept(n) <= Slept(MaxExtra)
  <2>. SUFFICES ASSUME NEW n \in 0..MaxExtra
                PROVE  Slept(n) \in Nat /\ Slept(n) <= Slept(MaxExtra)
    OBVIOUS
  <2>. DEFINE x == 2^n - 1
              y == 2^MaxExtra - 1
  <2>1. x \in Nat /\ y \in Nat /\ x <= y
    BY DEF PowersOfTwo
  <2>2. \A u, v \in Nat : u <= v => Backoff * u \in Nat /\ Backoff * u <= Backoff * v
    OBVIOUS
  <2>. QED  BY <2>1, <2>2 DEF Slept
<1>6. \A a \in 1..MaxExtra : Delay(a) \in Nat /\ Slept(a) = Slept(a - 1) + Delay(a)
  <2>. SUFFICES ASSUME NEW a \in 1..MaxExtra
                PROVE  Delay(a) \in Nat /\ Slept(a) = Slept(a - 1) + Delay(a)
    OBVIOUS
  <2>1. 2^(a - 1) \in Nat /\ 2^a = 2 * 2^(a - 1)
    BY DEF PowersOfTwo
  <2>2. \A u \in Nat : /\ Backoff * u \in Nat
                       /\ Backoff * (2 * u - 1) = Backoff * (u - 1) + Backoff * u
    OBVIOUS
  <2>. QED  BY <2>1, <2>2 DEF Slept, Delay
<1>7. Budget = max_attempts * Span + Slept(MaxExtra)
  <2>1. Budget = max_attempts * (2 + MaxReads) * Timeout + Slept(MaxExtra)
    BY DEF Budget, Slept
  <2>2. max_attempts * (2 + MaxReads) * Timeout = max_attempts * Span
    BY DEF Span
  <2>. QED  BY <2>1, <2>2
<1>8. Budget \in Nat
  BY <1>1, <1>2, <1>5, <1>7
<1>. QED  BY <1>2, <1>3, <1>4, <1>5, <1>6, <1>7, <1>8

(* The time t an attempt has taken after q ticks of its operation n.        *)
LEMMA InAttempt ==
    ASSUME PowersOfTwo, NEW a \in 1..max_attempts, NEW n \in 0..(1 + MaxReads),
           NEW q \in Nat, q <= Timeout, NEW t \in Nat,
           t <= (a - 1) * Span + n * Timeout + Slept(a - 1) + q
    PROVE  t <= a * Span + Slept(a - 1) /\ t <= Budget
<1>. DEFINE before == (a - 1) * Span
            here   == n * Timeout
            after  == a * Span
            all    == max_attempts * Span
            slept  == Slept(a - 1)
            sleeps == Slept(MaxExtra)
<1>1. a - 1 \in 0..MaxExtra
  BY A2AAssumption DEF max_attempts
<1>2. /\ before \in Nat /\ here \in Nat /\ after \in Nat /\ slept \in Nat
      /\ here + Timeout <= Span /\ before + Span = after /\ Span \in Nat
      /\ after <= all /\ slept <= sleeps /\ Budget = all + sleeps
  BY <1>1, A2AAssumption, Sums DEF Span
<1>3. all \in Nat /\ sleeps \in Nat
  BY <1>1, A2AAssumption, Sums DEF max_attempts
<1>4. t <= before + here + slept + q
  OBVIOUS
<1>. HIDE DEF before, here, after, all, slept, sleeps
<1>5. t <= after + slept
  BY <1>2, <1>4, A2AAssumption
<1>6. t <= Budget
  BY <1>2, <1>3, <1>5
<1>. QED  BY <1>5, <1>6 DEF after, slept

(* The same for q ticks of the sleep after attempt a.                       *)
LEMMA InSleep ==
    ASSUME PowersOfTwo, NEW a \in 1..MaxExtra,
           NEW q \in Nat, q <= Delay(a), NEW t \in Nat,
           t <= a * Span + Slept(a - 1) + q
    PROVE  t <= a * Span + Slept(a) /\ t <= Budget
<1>. DEFINE after  == a * Span
            all    == max_attempts * Span
            slept  == Slept(a - 1)
            sleeps == Slept(MaxExtra)
            now    == Slept(a)
<1>1. a - 1 \in 0..MaxExtra /\ a \in 0..MaxExtra /\ a \in 1..max_attempts
  BY A2AAssumption DEF max_attempts
<1>2. /\ after \in Nat /\ slept \in Nat /\ now \in Nat /\ Delay(a) \in Nat
      /\ now = slept + Delay(a) /\ after <= all /\ now <= sleeps
      /\ Budget = all + sleeps
  BY <1>1, Sums
<1>3. all \in Nat /\ sleeps \in Nat
  BY <1>1, A2AAssumption, Sums DEF max_attempts
<1>4. t <= after + slept + q
  OBVIOUS
<1>. HIDE DEF after, all, slept, sleeps, now
<1>5. t <= after + now
  BY <1>2, <1>4
<1>6. t <= Budget
  BY <1>2, <1>3, <1>5
<1>. QED  BY <1>5, <1>6 DEF after, now

LEMMA TimeStep ==
    ASSUME PowersOfTwo, A2AInv, A2AInv', Prompt, TimeInv, [Next]_vars
    PROVE  TimeInv'
<1>. DEFINE attempts(a, n, q) == (a - 1) * Span + n * Timeout + Slept(a - 1) + q
            sleeping(a, q)    == a * Span + Slept(a - 1) + q
<1>. USE A2AAssumption DEF TimeInv
<1>1. /\ stage \in Stages /\ attempt \in 0..max_attempts /\ operation \in 0..(1 + MaxReads)
      /\ quiet \in Nat /\ elapsed \in Nat
      /\ quiet' \in Nat /\ elapsed' \in Nat
      /\ ~Ended => attempt \in 1..max_attempts
      /\ stage = "sleeping" => attempt \in 1..MaxExtra
  BY DEF A2AInv, TypeOK, Ended, max_attempts, Prompt
<1>2. stage = "trying" => (attempt - 1) * Span \in Nat /\ Slept(attempt - 1) \in Nat
  <2>. SUFFICES ASSUME stage = "trying"
                PROVE  (attempt - 1) * Span \in Nat /\ Slept(attempt - 1) \in Nat
    OBVIOUS
  <2>1. attempt \in 1..max_attempts /\ attempt - 1 \in 0..MaxExtra
    BY <1>1 DEF Ended, max_attempts
  <2>. QED  BY <2>1, Sums
<1>3. ASSUME Begin PROVE TimeInv'
  <2>1. (attempt' - 1) * Span + operation' * Timeout + Slept(attempt' - 1) + quiet' = 0
    <3>1. attempt' - 1 = 0 /\ operation' = 0 /\ quiet' = 0
      BY <1>3 DEF Begin
    <3>2. 0 * Span = 0 /\ 0 * Timeout = 0
      BY DEF Span
    <3>3. Slept(0) = 0
      BY DEF Slept
    <3>. QED  BY <3>1, <3>2, <3>3
  <2>. QED  BY <1>3, <2>1, Sums DEF Begin
(* The attempt ends: what it took is at most its share.                     *)
<1>4. ASSUME stage = "trying", elapsed' = elapsed, attempt' = attempt, quiet' = 0,
             stage' \in {"sleeping", "raised"},
             stage' = "sleeping" => attempt \in 1..MaxExtra
      PROVE  TimeInv'
  <2>1. elapsed <= attempt * Span + Slept(attempt - 1)
    BY <1>1, <1>4, InAttempt DEF Ended
  <2>2. stage' = "sleeping" => Delay(attempt') \in Nat
    BY <1>4, Sums
  <2>3. stage' = "sleeping" =>
          elapsed' <= attempt' * Span + Slept(attempt' - 1) + quiet'
    <3>. SUFFICES ASSUME stage' = "sleeping" PROVE elapsed <= attempt * Span + Slept(attempt - 1) + 0
      BY <1>4
    <3>1. attempt * Span \in Nat /\ Slept(attempt - 1) \in Nat
      BY <1>1, <1>4, Sums DEF max_attempts
    <3>. QED  BY <2>1, <3>1
  <2>. QED  BY <1>4, <2>2, <2>3
<1>5. ASSUME stage = "trying", NEW e \in Errors, Raise(e), elapsed' = elapsed,
             attempt' = attempt
      PROVE  TimeInv'
  BY <1>1, <1>4, <1>5 DEF Raise, max_attempts, Ended
<1>6. ASSUME TimedOut \/ Broken \/ \E e \in {"unavailable", "refused"} : HttpError(e)
      PROVE  TimeInv'
  BY <1>5, <1>6 DEF TimedOut, Broken, HttpError, Errors
<1>7. ASSUME NEW a \in Answers, AnswerRead(a) PROVE TimeInv'
  BY <1>5, <1>7 DEF AnswerRead, Errors
<1>8. ASSUME Cancelled PROVE TimeInv'
  BY <1>8 DEF Cancelled
<1>9. ASSUME Progress PROVE TimeInv'
  <2>1. elapsed <= attempts(attempt, operation, quiet) /\ quiet <= Timeout
    BY <1>9 DEF Progress
  <2>2. attempts(attempt, operation, quiet) <= attempts(attempt, operation + 1, 0)
    <3>. DEFINE before == (attempt - 1) * Span
                slept  == Slept(attempt - 1)
    <3>1. before \in Nat /\ slept \in Nat
      BY <1>9, <1>2 DEF Progress
    <3>2. /\ operation * Timeout \in Nat
          /\ (operation + 1) * Timeout = operation * Timeout + Timeout
      BY <1>1, Sums
    <3>. HIDE DEF before, slept
    <3>3. before + operation * Timeout + slept + quiet
            <= before + (operation + 1) * Timeout + slept + 0
      BY <1>1, <2>1, <3>1, <3>2
    <3>. QED  BY <3>3 DEF before, slept
  <2>3. elapsed <= attempts(attempt, operation + 1, 0)
    <3>1. /\ operation * Timeout \in Nat
          /\ (operation + 1) * Timeout = operation * Timeout + Timeout
      BY <1>1, Sums
    <3>2. attempts(attempt, operation, quiet) \in Nat /\ attempts(attempt, operation + 1, 0) \in Nat
      BY <1>1, <1>9, <1>2, <3>1 DEF Progress
    <3>. QED  BY <1>1, <2>1, <2>2, <3>2
  <2>. QED  BY <1>9, <2>3 DEF Progress
<1>10. ASSUME Retry PROVE TimeInv'
  <2>1. elapsed <= attempt * Span + Slept(attempt)
    BY <1>1, <1>10, InSleep DEF Retry
  <2>2. (attempt + 1) - 1 = attempt /\ 0 * Timeout = 0
    BY <1>1
  <2>3. attempt * Span \in Nat /\ Slept(attempt) \in Nat
    BY <1>1, <1>10, Sums DEF Retry, max_attempts
  <2>4. elapsed <= attempts(attempt + 1, 0, 0)
    BY <2>1, <2>2, <2>3
  <2>. QED  BY <1>10, <2>4 DEF Retry
<1>11. ASSUME Tick, stage = "trying" PROVE TimeInv'
  <2>1. elapsed + 1 <= attempts(attempt, operation, quiet + 1) /\ quiet + 1 <= Timeout
    <3>. DEFINE used == (attempt - 1) * Span + operation * Timeout + Slept(attempt - 1)
    <3>1. used \in Nat
      BY <1>1, <1>11, <1>2, Sums
    <3>2. elapsed <= used + quiet
      BY <1>11
    <3>. HIDE DEF used
    <3>3. elapsed + 1 <= used + (quiet + 1)
      BY <1>1, <3>1, <3>2
    <3>. QED  BY <1>1, <1>11, <3>3 DEF Tick, used
  <2>2. elapsed + 1 <= Budget
    BY <1>1, <1>11, <2>1, InAttempt DEF Ended
  <2>. QED  BY <1>11, <2>1, <2>2 DEF Tick
<1>12. ASSUME Tick, stage = "sleeping" PROVE TimeInv'
  <2>1. elapsed + 1 <= sleeping(attempt, quiet + 1) /\ quiet + 1 <= Delay(attempt)
    <3>. DEFINE used == attempt * Span + Slept(attempt - 1)
    <3>1. used \in Nat /\ Delay(attempt) \in Nat
      BY <1>1, <1>12, Sums DEF Ended, max_attempts
    <3>2. elapsed <= used + quiet
      BY <1>12
    <3>. HIDE DEF used
    <3>3. elapsed + 1 <= used + (quiet + 1)
      BY <1>1, <3>1, <3>2
    <3>. QED  BY <1>1, <1>12, <3>1, <3>3 DEF Tick, used
  <2>2. elapsed + 1 <= Budget
    BY <1>1, <1>12, <2>1, InSleep
  <2>. QED  BY <1>12, <2>1, <2>2 DEF Tick
<1>13. ASSUME UNCHANGED vars PROVE TimeInv'
  BY <1>13 DEF vars, Delay
<1>. QED
  BY <1>3, <1>6, <1>7, <1>8, <1>9, <1>10, <1>11, <1>12, <1>13 DEF Next, Tick
-----------------------------------------------------------------------------
(***************************************************************************)
(* The safety half of CallEndsInTime: for any timeout, backoff and number  *)
(* of retries, every step of send_message with a prompt agent is one the   *)
(* loop allows an agent call, or none it sees, so no call is open for more *)
(* than Budget (orchestrator.py:92-96, a2a_client.py:54-83).               *)
(***************************************************************************)
THEOREM CallsImplementInvocation ==
    ASSUME PowersOfTwo
    PROVE  PromptSpec => Abstract!Init /\ [][Abstract!Next]_(Abstract!vars)
<1>1. Init => Abstract!Init
  BY DEF Init, Abstract!Init, Ended
<1>2. Init => TimeInv
  BY Sums DEF Init, TimeInv
<1>3. A2AInv /\ A2AInv' /\ Prompt /\ TimeInv /\ [Next]_vars => TimeInv'
  BY TimeStep
<1>4. ASSUME A2AInv, A2AInv', TimeInv, TimeInv', [Next]_vars
      PROVE  [Abstract!Next]_(Abstract!vars)
  <2>. USE DEF Abstract!Next, Abstract!vars, Ended
  <2>1. CASE Begin
    BY <2>1 DEF Begin, Abstract!Call
  <2>2. ASSUME stage = "trying", NEW e \in Errors, Raise(e), elapsed' = elapsed
        PROVE  [Abstract!Next]_(Abstract!vars)
    BY <2>2 DEF Raise, Abstract!Returns
  <2>3. CASE TimedOut \/ Broken \/ \E e \in {"unavailable", "refused"} : HttpError(e)
    BY <2>2, <2>3 DEF TimedOut, Broken, HttpError, Errors
  <2>4. ASSUME NEW a \in Answers, AnswerRead(a) PROVE [Abstract!Next]_(Abstract!vars)
    BY <2>2, <2>4 DEF AnswerRead, Errors, Abstract!Returns
  <2>5. CASE Cancelled
    BY <2>5 DEF Cancelled, Abstract!Returns, A2AInv, TypeOK, Stages
  <2>6. CASE Progress \/ Retry
    BY <2>6 DEF Progress, Retry
  <2>7. CASE Tick
    <3>1. elapsed < Budget
      BY <1>4, <2>7, Sums DEF Tick, TimeInv, A2AInv, TypeOK
    <3>. QED  BY <2>7, <3>1 DEF Tick, Abstract!Tick
  <2>8. CASE UNCHANGED vars
    BY <2>8 DEF vars
  <2>. QED
    BY <1>4, <2>1, <2>3, <2>4, <2>5, <2>6, <2>7, <2>8 DEF Next
<1>5. A2AInv /\ A2AInv' /\ TimeInv /\ TimeInv' /\ [Next]_vars
        => [Abstract!Next]_(Abstract!vars)
  BY <1>4
<1>6. Init => Prompt
  BY A2AAssumption DEF Init, Prompt
<1>7. [PromptNext]_vars => [Next]_vars /\ (Prompt => Prompt')
  BY DEF PromptNext, Prompt, vars
<1>. QED  BY <1>1, <1>2, <1>3, <1>5, <1>6, <1>7, A2AInit, A2AStep, PTL DEF PromptSpec
=============================================================================
