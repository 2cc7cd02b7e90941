----------------------------- MODULE PromiseRetry -----------------------------
(***************************************************************************)
(* Retries whose attempts time out: retry and retryWithBackoff,            *)
(* withTimeout, isRetryableError and makeCancelable of utils/promise.ts.   *)
(* A timeout only stops waiting: the attempt runs on beside the next one,  *)
(* and so does everything after a cancel.                                  *)
(***************************************************************************)
EXTENDS Naturals, FiniteSets

CONSTANTS
    MaxAttempts,
    None

RetryAssumption == MaxAttempts \in Nat \ {0}

VARIABLES
    timed,      \* retry with a timeout; retryWithBackoff has none
    choosy,     \* its retryCondition is isRetryableError
    attempt, phase,
    runs,       \* what each attempt's function is doing
    expired,    \* attempts given up by their timer
    error,      \* the last error
    canceled,   \* the caller cancelled before the promise settled
    outcome,    \* of the cancelable promise
    stopped     \* history: what settled retry's own promise

vars == <<timed, choosy, attempt, phase, runs, expired, error, canceled, outcome, stopped>>

\* Kinds of error: a network code, a status of 500 or more, 429, a message that says
\* "temporary" or "timeout", and any other.
Errors == {"network", "server", "rate", "temporary", "client"}
Attempts == 1 .. MaxAttempts

TypeOK ==
    /\ timed \in BOOLEAN /\ choosy \in BOOLEAN
    /\ attempt \in Attempts /\ phase \in {"trying", "sleeping", "settled"}
    /\ runs \in [Attempts -> {"none", "running", "ok", "failed"}]
    /\ expired \subseteq Attempts
    /\ error \in Errors \cup {"timeout", None}
    /\ canceled \in BOOLEAN /\ outcome \in {"pending", "value", "error", "canceled"}
    /\ stopped \in {None, "value", "error"}

\* The timer's message is "Operation timed out after ...", which holds neither
\* "timeout" nor "temporary".
isRetryableError(kind) == kind \in {"network", "server", "rate", "temporary"}

Settle(result) ==
    /\ phase' = "settled" /\ stopped' = result
    /\ outcome' = IF canceled THEN "canceled" ELSE result

MayRetry(kind) == attempt < MaxAttempts /\ (~choosy \/ isRetryableError(kind))

AttemptFails(kind) ==
    /\ error' = kind
    /\ IF MayRetry(kind)
       THEN phase' = "sleeping" /\ UNCHANGED <<outcome, stopped>>
       ELSE Settle("error")

Waits(n) == phase = "trying" /\ n = attempt /\ n \notin expired

\* An attempt that answers after its timer is not heard.
Answers(n) ==
    /\ runs[n] = "running" /\ runs' = [runs EXCEPT ![n] = "ok"]
    /\ IF Waits(n) THEN Settle("value") ELSE UNCHANGED <<phase, outcome, stopped>>
    /\ UNCHANGED <<timed, choosy, attempt, expired, error, canceled>>

Fails(n) ==
    /\ runs[n] = "running" /\ runs' = [runs EXCEPT ![n] = "failed"]
    /\ IF Waits(n) THEN \E kind \in Errors : AttemptFails(kind)
       ELSE UNCHANGED <<phase, error, outcome, stopped>>
    /\ UNCHANGED <<timed, choosy, attempt, expired, canceled>>

TimerFires ==
    /\ timed /\ Waits(attempt)
    /\ expired' = expired \cup {attempt}
    /\ AttemptFails("timeout")
    /\ UNCHANGED <<timed, choosy, attempt, runs, canceled>>

\* The delay grows up to a maximum.
SleepEnds ==
    /\ phase = "sleeping" /\ phase' = "trying"
    /\ attempt' = attempt + 1
    /\ runs' = [runs EXCEPT ![attempt + 1] = "running"]
    /\ UNCHANGED <<timed, choosy, expired, error, canceled, outcome, stopped>>

\* Nothing is stopped: only the caller's promise will be rejected.
cancel ==
    /\ ~canceled /\ outcome = "pending"
    /\ canceled' = TRUE
    /\ UNCHANGED <<timed, choosy, attempt, phase, runs, expired, error, outcome, stopped>>

Init ==
    /\ timed \in BOOLEAN /\ choosy \in BOOLEAN
    /\ attempt = 1 /\ phase = "trying"
    /\ runs = [n \in Attempts |-> IF n = 1 THEN "running" ELSE "none"]
    /\ expired = {} /\ error = None /\ canceled = FALSE /\ outcome = "pending" /\ stopped = None

RunEnds(n) == Answers(n) \/ Fails(n)
Next == cancel \/ TimerFires \/ SleepEnds \/ \E n \in Attempts : RunEnds(n)

Spec == Init /\ [][Next]_vars

\* Timers fire.  Nothing says that a function's promise ever settles.
FairSpec == Spec /\ WF_vars(TimerFires) /\ WF_vars(SleepEnds)

-----------------------------------------------------------------------------
(* Properties *)

\* The answer is the current attempt's and came in time; earlier attempts failed or
\* were given up, and those given up are the only ones that may still run.
AnswerInTime ==
    /\ stopped = "value" => attempt \notin expired /\ runs[attempt] = "ok"
    /\ \A n \in 1 .. attempt - 1 : n \in expired \/ runs[n] = "failed"
    /\ canceled /\ phase = "settled" => outcome = "canceled"

\* With isRetryableError as the condition a timeout is never retried, although it
\* is listed there among the temporary failures.
TimeoutIsFinal == choosy /\ expired # {} => phase = "settled" /\ expired = {attempt}
=============================================================================
