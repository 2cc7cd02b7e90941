-------------------------------- MODULE Errors --------------------------------
(***************************************************************************)
(* What the extension makes of an error: ErrorHandler and                  *)
(* handleSimpleError (utils/error-handler.ts), beside isRetryableError     *)
(* (utils/promise.ts).  An error is [kind, code, status, response, detail, *)
(* hint]: code, status and response.status are HTTP statuses, Text for     *)
(* what is no number, or None.                                             *)
(***************************************************************************)
EXTENDS Integers, Sequences, FiniteSets

CONSTANTS None

Text == -1   \* "Failure" of Kubernetes, "ERR_BAD_REQUEST" of axios

\* An Error has a message, so it too is taken for one of Rancher's.
isRancherError(e) ==
    e.kind \in {"error", "object with message"} \/ e.status # None \/ e.response # None

\* The first that is there, though a later one may be the number.
HttpStatus(e) ==
    IF e.code # None THEN e.code ELSE IF e.status # None THEN e.status ELSE e.response

isRetryableStatus(status) == status \in {408, 429, 500, 502, 503, 504}

\* Mutant: only Rancher's own status is read.
normalizeErrorOfStatus(e) ==
    [status |-> IF e.status = Text THEN None ELSE e.status, retryable |-> isRetryableStatus(e.status),
     detail |-> e.detail /\ isRancherError(e)]

normalizeError(e) ==
    LET status == IF isRancherError(e) THEN HttpStatus(e) ELSE None
    IN  [status |-> IF status = Text THEN None ELSE status, retryable |-> isRetryableStatus(status),
         detail |-> e.detail /\ isRancherError(e)]

\* The message's origin: the error, Rancher's fallback, the caller's, or that of the unknown.
MessageOf(e) ==
    IF e.kind \in {"error", "object with message", "string"} THEN "own"
    ELSE IF isRancherError(e) THEN "API request failed" ELSE "Unknown error occurred"
handleSimpleError(e) ==
    IF e.kind \in {"error", "object with message", "string"} THEN "own" ELSE "fallback"

getUserFriendlyMessage(std) ==
    IF std.status = None THEN IF std.detail THEN "detailed" ELSE "own"
    ELSE CASE std.status = 404 -> "gone" [] std.status = 403 -> "forbidden" [] std.status = 409 -> "changed"
           [] std.status >= 500 -> "server" [] OTHER -> IF std.detail THEN "detailed" ELSE "own"

\* The notifications shown; what may be retried is kept quiet.
handleApiError(e) ==
    LET std == normalizeError(e)
    IN  IF std.retryable THEN <<>> ELSE <<getUserFriendlyMessage(std)>>

\* withRetry of an operation whose calls would end in results, each None (it succeeds) or
\* an error: the calls made, whether the last succeeded, and the notifications.
withRetry(results, maxRetries) ==
    LET Ends(n) == \/ results[n] = None \/ n = maxRetries + 1
                   \/ ~normalizeError(results[n]).retryable
        calls == CHOOSE n \in DOMAIN results : Ends(n) /\ \A m \in 1 .. n - 1 : ~Ends(m)
    IN  [calls |-> calls, ok |-> results[calls] = None,
         told |-> IF results[calls] = None THEN <<>> ELSE handleApiError(results[calls])]

\* isRetryableError: it looks at response.status and at the message.
isRetryableError(e) ==
    \/ e.hint = "network"
    \/ e.response # None /\ (e.response >= 500 \/ e.response = 429)
    \/ e.hint = "temporary"

\* createOrUpgradeApp installs what an answer of 404 says is absent, and throws otherwise.
TakenForAbsent(e) == normalizeError(e).status = 404

-----------------------------------------------------------------------------
(* Laws *)

Says(e, status) == {e.code, e.status, e.response} \ {None, Text} = {status}

\* An App that is absent is installed whichever of code, status and response.status says
\* 404, so long as those before it are missing; behind a code that is text, as axios
\* gives, the 404 is not seen and the install throws.  No other answer installs.
AbsenceSeen(e) ==
    /\ isRancherError(e) /\ Says(e, 404) => (TakenForAbsent(e) <=> HttpStatus(e) # Text)
    /\ TakenForAbsent(e) => 404 \in {e.code, e.status, e.response}

\* A retried operation tells its failure at most once, and not at all exactly when its
\* last error might have been retried once more: the retries ran out.
ToldOnce(results, maxRetries) ==
    LET run == withRetry(results, maxRetries)
    IN  /\ Len(run.told) <= 1 /\ (run.ok => run.told = <<>>)
        /\ \A n \in 1 .. run.calls - 1 : handleApiError(results[n]) = <<>>
        /\ ~run.ok /\ run.told = <<>> <=>
              run.calls = maxRetries + 1 /\ \A n \in 1 .. run.calls :
                  results[n] # None /\ normalizeError(results[n]).retryable

\* Of what answers with a status both retry the same, but for 408, which only the handler
\* repeats, and the server errors that it shows as such: 501 and others.  Neither way of
\* writing a message loses the error's own.
RetriesAgree(e) ==
    /\ e.code = None /\ e.status = None /\ e.response \notin {None, Text} /\ e.hint = None =>
          \/ normalizeError(e).retryable <=> isRetryableError(e)
          \/ e.response = 408 /\ normalizeError(e).retryable
          \/ isRetryableError(e) /\ handleApiError(e) = <<"server">>
    /\ handleSimpleError(e) = "own" <=> MessageOf(e) = "own"
===============================================================================
