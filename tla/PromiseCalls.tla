----------------------------- MODULE PromiseCalls -----------------------------
(***************************************************************************)
(* Wrappers that share or delay the calls of a function: memoizePromise,   *)
(* throttlePromise and debouncePromise of utils/promise.ts.  A call is     *)
(* answered by the run of the function that it waits for.                  *)
(***************************************************************************)
EXTENDS Naturals, FiniteSets

CONSTANTS
    Keys,       \* arguments
    Delay,      \* ttlMs or delay
    MaxTime,    \* bound on the clock; calls are made a delay before it
    MaxCalls,   \* bound on the calls
    None

CallsAssumption == Delay \in Nat \ {0} /\ {MaxTime, MaxCalls} \subseteq Nat

VARIABLES
    how,        \* which wrapper
    now,
    made,       \* calls made: each has its arguments and the run it waits for
    runs,       \* runs of the function: arguments, begin, end and result
    cache,      \* of memoizePromise: a run and when it expires
    last,       \* lastExecution of throttlePromise
    pending,    \* its pendingPromise
    timers      \* calls that wait for a timer, and when it is due

vars == <<how, now, made, runs, cache, last, pending, timers>>

Ids == 1 .. MaxCalls
Times == 0 .. MaxTime
PromisedCall == [key : Keys, at : Times, run : Ids \cup {None}]
Entry == [run : Ids, expiry : Times]
Run == [key : Keys, begin : Times, end : Times \cup {None}, ok : BOOLEAN]

TypeOK ==
    /\ how \in {"memo", "throttle", "debounce"} /\ now \in Times
    /\ \A c \in Ids : made[c] = None \/ made[c] \in PromisedCall
    /\ \A r \in Ids : runs[r] = None \/ runs[r] \in Run
    /\ \A k \in Keys : cache[k] = None \/ cache[k] \in Entry
    /\ last = None \/ last \in Times
    /\ pending \in Ids \cup {None}
    /\ \A t \in timers : t.call \in Ids /\ t.due \in Nat

Made == {c \in Ids : made[c] # None}
Fresh == Cardinality(Made) + 1
Running(r) == runs[r] # None /\ runs[r].end = None

\* A run has the number of the call that starts it.
Starts(c, key) == runs' = [runs EXCEPT ![c] = [key |-> key, begin |-> now, end |-> None, ok |-> FALSE]]
Waits(c, key, r) == made' = [made EXCEPT ![c] = [key |-> key, at |-> now, run |-> r]]

-----------------------------------------------------------------------------
(* memoizePromise *)

Cached(key) == cache[key] # None /\ cache[key].expiry > now

memoizePromise(key) ==
    /\ how = "memo"
    /\ IF Cached(key) THEN Waits(Fresh, key, cache[key].run) /\ UNCHANGED <<runs, cache>>
       ELSE /\ Starts(Fresh, key) /\ Waits(Fresh, key, Fresh)
            /\ cache' = [cache EXCEPT ![key] = [run |-> Fresh, expiry |-> now + Delay]]
    /\ UNCHANGED <<last, pending, timers>>

-----------------------------------------------------------------------------
(* throttlePromise *)

throttlePromise(key) ==
    /\ how = "throttle"
    /\ IF pending # None THEN Waits(Fresh, key, pending) /\ UNCHANGED <<runs, last, pending, timers>>
       ELSE IF last = None \/ now - last >= Delay
       THEN /\ Starts(Fresh, key) /\ Waits(Fresh, key, Fresh)
            /\ last' = now /\ pending' = Fresh /\ UNCHANGED timers
       ELSE /\ Waits(Fresh, key, None)
            /\ timers' = timers \cup {[call |-> Fresh, due |-> last + Delay]}
            /\ UNCHANGED <<runs, last, pending>>
    /\ UNCHANGED cache

-----------------------------------------------------------------------------
(* debouncePromise *)

\* The timer of an earlier call is cleared and its promise never settles.
debouncePromise(key) ==
    /\ how = "debounce"
    /\ Waits(Fresh, key, None)
    /\ timers' = {[call |-> Fresh, due |-> now + Delay]}
    /\ UNCHANGED <<runs, cache, last, pending>>

-----------------------------------------------------------------------------

TimerFires(t) ==
    /\ t \in timers /\ t.due <= now
    /\ timers' = timers \ {t}
    /\ Starts(t.call, made[t.call].key) /\ made' = [made EXCEPT ![t.call].run = t.call]
    /\ last' = IF how = "throttle" THEN now ELSE last
    /\ UNCHANGED <<how, now, cache, pending>>

\* The failure of a run takes whatever entry its arguments have by then.
RunEnds(r) ==
    /\ Running(r)
    /\ \E ok \in BOOLEAN :
          /\ runs' = [runs EXCEPT ![r].end = now, ![r].ok = ok]
          /\ cache' = IF how = "memo" /\ ~ok THEN [cache EXCEPT ![runs[r].key] = None] ELSE cache
    /\ pending' = IF pending = r THEN None ELSE pending
    /\ UNCHANGED <<how, now, made, last, timers>>

Call ==
    /\ Fresh \in Ids /\ now + Delay <= MaxTime
    /\ \E key \in Keys : memoizePromise(key) \/ throttlePromise(key) \/ debouncePromise(key)
    /\ UNCHANGED <<how, now>>

Tick ==
    /\ now < MaxTime /\ now' = now + 1
    /\ UNCHANGED <<how, made, runs, cache, last, pending, timers>>

Init ==
    /\ how \in {"memo", "throttle", "debounce"} /\ now = 0
    /\ made = [c \in Ids |-> None] /\ runs = [r \in Ids |-> None]
    /\ cache = [k \in Keys |-> None]
    /\ last = None /\ pending = None /\ timers = {}

Next == Call \/ Tick \/ (\E t \in timers : TimerFires(t)) \/ \E r \in Ids : RunEnds(r)

Spec == Init /\ [][Next]_vars

\* The clock goes on, timers fire and runs settle.
FairSpec ==
    /\ Spec /\ WF_vars(Tick)
    /\ \A c \in Ids : WF_vars(\E t \in timers : t.call = c /\ TimerFires(t)) /\ WF_vars(RunEnds(c))

-----------------------------------------------------------------------------
(* Properties *)

\* Two runs of a memoized function for the same arguments begin within the time an
\* entry lives only if a run for them failed in between; nobody gets an answer older
\* than that time, nor a failure that was known when he called.
Memoized ==
    how = "memo" =>
        /\ \A c \in Made :
              LET run == runs[made[c].run]
              IN run.begin + Delay > made[c].at /\ (run.end # None /\ run.end < made[c].at => run.ok)
        /\ \A r, s \in {x \in Ids : runs[x] # None} :
              r < s /\ runs[r].key = runs[s].key /\ runs[s].begin < runs[r].begin + Delay =>
                \E f \in Ids : /\ runs[f] # None /\ runs[f].key = runs[s].key
                               /\ runs[f].end # None /\ ~runs[f].ok
                               /\ runs[f].end \in runs[r].begin .. runs[s].begin

\* Every call is answered, except one that a later debounced call replaced.
Answered(c) ==
    c \in Made => \/ made[c].run # None /\ runs[made[c].run].end # None
                  \/ how = "debounce" /\ c < Cardinality(Made)
=============================================================================
