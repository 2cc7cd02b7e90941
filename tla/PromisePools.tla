----------------------------- MODULE PromisePools -----------------------------
(***************************************************************************)
(* The ways the extension bounds how many promises run at once:            *)
(* PromiseQueue, throttlePromises and batchPromises with                   *)
(* executeWithProgress over the first (utils/promise.ts), and              *)
(* performBulkClusterOperation (utils/cluster-operations.ts).  A step is   *)
(* the code between two awaits.  A rejected promise never leaves the list  *)
(* of those that execute, so it keeps its place until the caller notices   *)
(* it at the next await.                                                   *)
(***************************************************************************)
EXTENDS Naturals, Sequences, FiniteSets

CONSTANTS
    Jobs,       \* how many promise functions there are
    Limit,      \* maxConcurrent, or the size of a batch
    None

PoolAssumption == {Jobs, Limit} \subseteq Nat \ {0}

VARIABLES
    how,        \* which of them is called
    delayed,    \* it sleeps between launches
    jobs,       \* what became of each function
    queue, paused,   \* of PromiseQueue
    next, at,        \* the loop of the others: next index, and where it waits
    told             \* the last ProgressTracker that executeWithProgress reported

vars == <<how, delayed, jobs, queue, paused, next, at, told>>

Ids == 1 .. Jobs
Kinds == {"queue", "throttle", "batch", "tolerant", "strict", "bulk", "serial"}
Ended == {"ok", "failed"}

Tracker == [completed : 0 .. Jobs, failed : 0 .. Jobs, isComplete : BOOLEAN]

In(states) == {j \in Ids : jobs[j] \in states}

TypeOK ==
    /\ how \in Kinds /\ delayed \in BOOLEAN
    /\ jobs \in [Ids -> {"idle", "waiting", "running", "ok", "failed", "dropped"}]
    /\ queue \in Seq(Ids) /\ paused \in BOOLEAN
    /\ next \in 1 .. Jobs + 1
    /\ at \in {"calls", "loop", "race", "sleep", "all", "resolved", "rejected"}
    /\ told = None \/ told \in Tracker

-----------------------------------------------------------------------------
(* PromiseQueue *)

Min(a, b) == IF a < b THEN a ELSE b

\* Every start calls processQueue again, so it goes on up to the limit.
processQueue(state, list, running) ==
    LET free == IF running >= Limit THEN 0 ELSE Limit - running
        started == SubSeq(list, 1, Min(free, Len(list)))
    IN /\ jobs' = [j \in Ids |-> IF \E n \in DOMAIN started : started[n] = j THEN "running" ELSE state[j]]
       /\ queue' = SubSeq(list, Len(started) + 1, Len(list))

add(j) ==
    /\ how = "queue" /\ jobs[j] = "idle"
    /\ LET state == [jobs EXCEPT ![j] = "waiting"]
           list == Append(queue, j)
       IN IF paused THEN jobs' = state /\ queue' = list
          ELSE processQueue(state, list, Cardinality(In({"running"})))
    /\ UNCHANGED <<how, delayed, paused, next, at, told>>

pause ==
    /\ how = "queue" /\ ~paused
    /\ paused' = TRUE
    /\ UNCHANGED <<how, delayed, jobs, queue, next, at, told>>

resume ==
    /\ how = "queue" /\ paused
    /\ paused' = FALSE
    /\ processQueue(jobs, queue, Cardinality(In({"running"})))
    /\ UNCHANGED <<how, delayed, next, at, told>>

\* The promises of what is cleared never settle.
clear ==
    /\ how = "queue" /\ queue # <<>>
    /\ queue' = <<>>
    /\ jobs' = [j \in Ids |-> IF jobs[j] = "waiting" THEN "dropped" ELSE jobs[j]]
    /\ UNCHANGED <<how, delayed, paused, next, at, told>>

\* Mutant: an ended promise makes no room for the next.
QueuedEndsQuietly(j, result) ==
    /\ how = "queue" /\ jobs[j] = "running"
    /\ jobs' = [jobs EXCEPT ![j] = result]
    /\ UNCHANGED <<how, delayed, queue, paused, next, at, told>>

QueuedEnds(j, result) ==
    /\ how = "queue" /\ jobs[j] = "running"
    /\ LET state == [jobs EXCEPT ![j] = result]
       IN IF paused THEN jobs' = state /\ UNCHANGED queue
          ELSE processQueue(state, queue, Cardinality(In({"running"})) - 1)
    /\ UNCHANGED <<how, delayed, paused, next, at, told>>

-----------------------------------------------------------------------------
(* throttlePromises and executeWithProgress: a place is free when a promise resolves *)

Throttles == {"throttle", "tolerant", "strict"}

\* executeWithProgress catches the failure unless continueOnError is false.
Rejected(state, j) == state[j] = "failed" /\ how # "tolerant"
Executing(state, n) == {j \in Ids : j < n /\ (state[j] = "running" \/ Rejected(state, j))}
Noticed(state, n) == \E j \in Executing(state, n) : Rejected(state, j)

AtAll(state, n) ==
    IF Noticed(state, n) THEN "rejected" ELSE IF Executing(state, n) = {} THEN "resolved" ELSE "all"
Past(state, n) ==
    IF n > Jobs THEN AtAll(state, n) ELSE IF delayed THEN "sleep" ELSE "loop"

\* Mutant: one more than the limit.
AtRaceAbove(state, n) ==
    IF Cardinality(Executing(state, n)) <= Limit THEN Past(state, n)
    ELSE IF Noticed(state, n) THEN "rejected" ELSE "race"

AtRace(state, n) ==
    IF Cardinality(Executing(state, n)) < Limit THEN Past(state, n)
    ELSE IF Noticed(state, n) THEN "rejected" ELSE "race"

Started(last) == [j \in Ids |-> IF j \in next .. last THEN "running" ELSE jobs[j]]

throttlePromises ==
    /\ how \in Throttles /\ at = "loop"
    /\ jobs' = Started(next) /\ next' = next + 1
    /\ at' = AtRace(jobs', next')
    /\ UNCHANGED <<how, delayed, queue, paused, told>>

\* The loop does not look at what ended while it sleeps.
Awakes ==
    /\ at = "sleep" /\ at' = "loop"
    /\ UNCHANGED <<how, delayed, jobs, queue, paused, next, told>>

Goes(state) ==
    CASE at = "race" -> IF Noticed(state, next) THEN "rejected" ELSE Past(state, next)
      [] at = "all"  -> AtAll(state, next)
      [] OTHER -> at

Report(state) ==
    LET count(s) == Cardinality({j \in Ids : state[j] = s})
    IN [completed |-> count("ok"), failed |-> count("failed"),
        isComplete |-> count("ok") + count("failed") = Jobs]

ThrottledEnds(j, result) ==
    /\ how \in Throttles /\ jobs[j] = "running"
    /\ at # "loop"           \* the loop starts all it may in one turn
    /\ jobs' = [jobs EXCEPT ![j] = result]
    /\ at' = Goes(jobs')
    /\ told' = IF how = "throttle" THEN told ELSE Report(jobs')
    /\ UNCHANGED <<how, delayed, queue, paused, next>>

-----------------------------------------------------------------------------
(* batchPromises and performBulkClusterOperation *)

\* The operation of one cluster never rejects; one at a time when it is not parallel.
Size == IF how = "serial" THEN 1 ELSE Limit

AtBatch(state, n) ==
    IF how = "batch" /\ \E j \in Ids : state[j] = "failed" THEN "rejected"
    ELSE IF \E j \in Ids : state[j] = "running" THEN "all"
    ELSE IF n > Jobs THEN "resolved" ELSE IF delayed /\ how = "batch" THEN "sleep" ELSE "loop"

batchPromises ==
    /\ how \in {"batch", "bulk", "serial"} /\ at = "loop"
    /\ LET last == Min(Jobs, next + Size - 1)
       IN jobs' = Started(last) /\ next' = last + 1
    /\ at' = "all"
    /\ UNCHANGED <<how, delayed, queue, paused, told>>

BatchedEnds(j, result) ==
    /\ how \in {"batch", "bulk", "serial"} /\ jobs[j] = "running"
    /\ jobs' = [jobs EXCEPT ![j] = result]
    /\ at' = IF at = "all" THEN AtBatch(jobs', next) ELSE at
    /\ UNCHANGED <<how, delayed, queue, paused, next, told>>

-----------------------------------------------------------------------------

Init ==
    /\ how \in Kinds /\ delayed \in BOOLEAN
    /\ jobs = [j \in Ids |-> "idle"] /\ queue = <<>> /\ paused = FALSE
    /\ next = 1 /\ at = IF how = "queue" THEN "calls" ELSE "loop"
    /\ told = None

JobEnds(j) ==
    \E result \in Ended : QueuedEnds(j, result) \/ ThrottledEnds(j, result) \/ BatchedEnds(j, result)
LoopStep == throttlePromises \/ Awakes \/ batchPromises

Next ==
    \/ \E j \in Ids : add(j) \/ JobEnds(j)
    \/ pause \/ resume \/ clear \/ LoopStep

Spec == Init /\ [][Next]_vars

\* The functions' promises settle and the loops go on.
FairSpec == Spec /\ WF_vars(LoopStep) /\ \A j \in Ids : WF_vars(JobEnds(j))

-----------------------------------------------------------------------------
(* Properties *)

\* Never more than the limit run, and the queue lets nothing wait that could run.
Bounded ==
    /\ Cardinality(In({"running"})) <= Limit
    /\ how = "queue" /\ ~paused /\ queue # <<>> => Cardinality(In({"running"})) = Limit

\* The caller's promise says what happened: resolved when all functions ended and
\* none of them in failure that counts, rejected only for one that failed; and
\* executeWithProgress has told that all is complete exactly when it is.
OutcomeFits ==
    /\ at = "resolved" => /\ In(Ended) = Ids
                          /\ how \in {"throttle", "strict", "batch"} => In({"failed"}) = {}
    /\ at = "rejected" => In({"failed"}) # {} /\ how \notin {"tolerant", "bulk", "serial"}
    /\ told # None => (told.isComplete <=> In(Ended) = Ids)
=============================================================================
