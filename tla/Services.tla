-------------------------------- MODULE Services --------------------------------
(* What the pages lean on: the records of installations, the catalogue, installs *)
(* that share the service accounts of a namespace, pools of promises, retries,    *)
(* wrapped calls, the unused class AppLifecycleService, and the functions without *)
(* state (Laws).  The parts share nothing: part says which of them a behaviour is *)
(* of, and the variables of the others are None.                                  *)
EXTENDS Naturals, FiniteSets

CONSTANTS
    None, MaxCalls, MaxFaults,
    Apps, Clusters, Keys, ClusterOf,                                   \* InstallationStore
    Words, Indexed, Short, Terms, Hits, Repos, BuiltIn, CheckedClusters, \* CatalogStore
    Installs, Secrets, Accounts, AccountOf, Default, MaxTries,         \* PullSecrets
    Jobs, Limit,                                                       \* PromisePools
    MaxRetries,                                                        \* PromiseRetry
    Arguments, Delay, MaxTime, MaxPromises,                            \* PromiseCalls
    MaxAttempts, MaxOthers,                                            \* AppLifecycle
    Versions, Inputs                                                   \* Laws

VARIABLES part, input,
    calls, removals, began, faults, mixed,
    recs, byApp, byCluster, ops, selected, refreshes,
    apps, index, text, loadingAll, errors, repos, syncing, capable, discovering, stage,
    secretOf, secrets, accounts, pc, todo, seen, named, tries, met,
    how, runs, delayed, jobs, queue, paused, next, at, told,
    timed, choosy, attempt, phase, expired, error, canceled, outcome, stopped,
    now, made, cache, last, pending, timers,
    setting, mode, step, try, upgraded, baseline, app, helm, others, heeds, deleting, alone

shared == <<calls, removals, began, mixed>>
recordsOnly == <<recs, byApp, byCluster, ops, selected, refreshes>>
catalogOnly == <<apps, index, text, loadingAll, errors, repos, syncing, capable, discovering, stage>>
secretsOnly == <<secretOf, secrets, accounts, pc, todo, seen, named, tries, met>>
poolsOnly == <<delayed, jobs, queue, paused, next, at, told>>
retryOnly == <<timed, choosy, attempt, phase, expired, error, canceled, outcome, stopped>>
callsOnly == <<now, made, cache, last, pending, timers>>
lifecycleVars == <<setting, mode, step, try, upgraded, baseline, app, helm, others, heeds, deleting, alone>>
storeVars == <<faults, shared, recordsOnly, catalogOnly, secretsOnly>>
promiseVars == <<how, runs, poolsOnly, retryOnly, callsOnly>>
vars == <<part, input, storeVars, promiseVars, lifecycleVars>>

S == INSTANCE InstallationStore
C == INSTANCE CatalogStore WITH Clusters <- CheckedClusters
P == INSTANCE PullSecrets
Q == INSTANCE PromisePools
R == INSTANCE PromiseRetry WITH MaxAttempts <- MaxRetries
M == INSTANCE PromiseCalls WITH Keys <- Arguments, MaxCalls <- MaxPromises
Y == INSTANCE AppLifecycle WITH pc <- step, attempt <- try, ops <- helm
L == INSTANCE Laws

\* None is none of the values that it stands in for.
NoneIsNone ==
    /\ None \notin Nat /\ None \notin {"value", "error"} /\ None \notin Accounts
    /\ None \notin S!Record /\ None \notin S!Operation /\ None \notin P!Account
    /\ None \notin Q!Tracker /\ None \notin M!PromisedCall /\ None \notin M!Run /\ None \notin M!Entry

\* The store's objects have finitely many keys.
ASSUME ServicesAssumption ==
    /\ NoneIsNone /\ IsFiniteSet(Apps) /\ IsFiniteSet(Keys)
    /\ S!PlacesAssumption /\ S!BoundsAssumption /\ C!CatalogAssumption
    /\ P!PlacesAssumption /\ P!BoundsAssumption
    /\ Q!PoolAssumption /\ R!RetryAssumption /\ M!CallsAssumption
    /\ MaxAttempts \in Nat \ {0} /\ MaxOthers \in Nat /\ L!LawsAssumption

-----------------------------------------------------------------------------
(* The parts *)

NoRecords ==
    recs = None /\ byApp = None /\ byCluster = None /\ ops = None /\ selected = None /\ refreshes = None
NoCatalog ==
    /\ apps = None /\ index = None /\ text = None /\ loadingAll = None /\ errors = None
    /\ repos = None /\ syncing = None /\ capable = None /\ discovering = None /\ stage = None
NoSecrets ==
    /\ secretOf = None /\ secrets = None /\ accounts = None /\ pc = None /\ todo = None
    /\ seen = None /\ named = None /\ tries = None /\ met = None
NoPools ==
    /\ delayed = None /\ jobs = None /\ queue = None /\ paused = None
    /\ next = None /\ at = None /\ told = None
NoRetry ==
    /\ timed = None /\ choosy = None /\ attempt = None /\ phase = None /\ expired = None
    /\ error = None /\ canceled = None /\ outcome = None /\ stopped = None
NoCalls ==
    now = None /\ made = None /\ cache = None /\ last = None /\ pending = None /\ timers = None
NoLifecycle ==
    /\ setting = None /\ mode = None /\ step = None /\ try = None /\ upgraded = None /\ baseline = None
    /\ app = None /\ helm = None /\ others = None /\ heeds = None /\ deleting = None /\ alone = None

NoShared == calls = None /\ removals = None /\ began = None /\ mixed = None
NoStores == NoRecords /\ NoCatalog /\ NoSecrets /\ NoShared /\ faults = None
NoPromises == NoPools /\ NoRetry /\ NoCalls /\ how = None /\ runs = None

StoresInit ==
    \/ part = "records" /\ S!Init /\ NoCatalog /\ NoSecrets
    \/ part = "catalog" /\ C!Init /\ NoRecords /\ NoSecrets
    \/ part = "secrets" /\ P!Init /\ NoRecords /\ NoCatalog /\ NoShared

PromisesInit ==
    \/ part = "pools" /\ Q!Init /\ NoRetry /\ NoCalls /\ runs = None
    \/ part = "retry" /\ R!Init /\ NoPools /\ NoCalls /\ how = None
    \/ part = "calls" /\ M!Init /\ NoPools /\ NoRetry

Init ==
    \/ StoresInit /\ NoPromises /\ NoLifecycle /\ input = None
    \/ PromisesInit /\ NoStores /\ NoLifecycle /\ input = None
    \/ part = "lifecycle" /\ Y!Init /\ NoStores /\ NoPromises /\ input = None
    \/ part = "laws" /\ L!Init /\ NoStores /\ NoPromises /\ NoLifecycle

NotStores == <<input, promiseVars, lifecycleVars>>
NotPromises == <<input, storeVars, lifecycleVars>>

Records(action) == part = "records" /\ action /\ UNCHANGED <<part, catalogOnly, secretsOnly, NotStores>>
Catalog(action) == part = "catalog" /\ action /\ UNCHANGED <<part, recordsOnly, secretsOnly, NotStores>>
PullSecret(action) ==
    part = "secrets" /\ action /\ UNCHANGED <<part, shared, recordsOnly, catalogOnly, NotStores>>
Pools(action) == part = "pools" /\ action /\ UNCHANGED <<part, runs, retryOnly, callsOnly, NotPromises>>
Retry(action) == part = "retry" /\ action /\ UNCHANGED <<part, how, poolsOnly, callsOnly, NotPromises>>
Calls(action) == part = "calls" /\ action /\ UNCHANGED <<part, poolsOnly, retryOnly, NotPromises>>

StoresNext == Records(S!Next) \/ Catalog(C!Next) \/ PullSecret(P!Next)
PromisesNext == Pools(Q!Next) \/ Retry(R!Next) \/ Calls(M!Next)
LifecycleNext == part = "lifecycle" /\ Y!Next /\ UNCHANGED <<part, input, storeVars, promiseVars>>

Next == StoresNext \/ PromisesNext \/ LifecycleNext

Spec == Init /\ [][Next]_vars

\* Imports and requests of InstallationStore end, and its timers fire; timers of the
\* promise modules fire and the functions called settle, but for those PromiseRetry
\* tries, which may hang.
Fairness ==
    /\ \A i \in 1 .. MaxCalls :
          /\ WF_vars(Records(\E c \in calls : c.id = i /\ S!CallStep(c)))
          /\ WF_vars(Records(\E t \in removals : t.id = i /\ S!RemovalFires(t)))
    /\ WF_vars(Pools(Q!LoopStep)) /\ \A j \in 1 .. Jobs : WF_vars(Pools(Q!JobEnds(j)))
    /\ WF_vars(Retry(R!TimerFires)) /\ WF_vars(Retry(R!SleepEnds))
    /\ WF_vars(Calls(M!Tick))
    /\ \A c \in 1 .. MaxPromises :
          /\ WF_vars(Calls(\E t \in timers : t.call = c /\ M!TimerFires(t)))
          /\ WF_vars(Calls(M!RunEnds(c)))

FairSpec == Spec /\ Fairness

-----------------------------------------------------------------------------
(* Properties *)

\* The state of each part keeps its type.
TypeOK ==
    /\ part = "records" => S!TypeOK
    /\ part = "catalog" => C!TypeOK
    /\ part = "secrets" => P!TypeOK
    /\ part = "pools" => Q!TypeOK
    /\ part = "retry" => R!TypeOK
    /\ part = "calls" => M!TypeOK
    /\ part = "lifecycle" => Y!TypeOK

\* What is recorded is found by app and by cluster, and what runs is shown.
RecordsKept == part = "records" => S!IndexesComplete /\ S!GettersAgree /\ S!OperationShown

\* Both searches of the catalogue find the same apps; there is no spinner without a call.
CatalogKept == part = "catalog" => C!SearchesAgree /\ C!QuietWhenIdle /\ C!SyncShown

\* Installs have their secrets where their pods look for them.
Attached == part = "secrets" => P!Attached

\* Installs leave each other's secrets alone.
NothingDetached ==
    [][part = "secrets" => \A a \in Accounts : accounts[a] # None =>
          accounts'[a] # None /\ accounts[a].pulls \subseteq accounts'[a].pulls]_vars

\* Pools keep to their limit and say what became of their jobs; answers are neither late
\* nor stale.
PromisesSound ==
    /\ part = "pools" => Q!Bounded /\ Q!OutcomeFits
    /\ part = "retry" => R!AnswerInTime /\ R!TimeoutIsFinal
    /\ part = "calls" => M!Memoized

\* Waits of AppLifecycleService end with their own operation's result.
LifecycleSound == [][part = "lifecycle" => Y!Sound]_vars

\* Versions are shown and compared in their order, and allow what they should (Versions).
VersionLaws == part = "laws" => L!VersionLaws

\* The status, the colours and the actions of an app agree, whichever function is asked, and so
\* does what is told of an error (AppStatus, Errors).
StatusLaws == part = "laws" => L!StatusLaws /\ L!ErrorLaws

\* Whether an app fits in a cluster, and which clusters are ready, selected and warned of (Clusters).
ClusterLaws == part = "laws" => L!ClusterLaws

\* Charts, versions and installations looked for; the wizard opening (ChartSources, WizardOpening);
\* the operator's API, webhook and index (ExtensionApi); and what lists are folded to.
LookupLaws == part = "laws" => L!LookupLaws /\ L!ApiLaws /\ L!ListLaws

\* The validators of forms, names, quantities and values agree or nest (Validation).
ValidationLaws == part = "laws" => L!ValidationLaws

\* The views of the stores add up, and what is written into a store is found (StoreViews).
StoreLaws == part = "laws" => L!StoreLaws

\* No operation is shown as running; nothing that was called or added, and is not held
\* back, is still to be answered.
Settled ==
    /\ part = "records" => \A k \in Keys : ops[k] = None \/ ops[k].error
    /\ part = "pools" =>
          /\ how # "queue" => at \in {"resolved", "rejected"}
          /\ \A j \in 1 .. Jobs : jobs[j] = "waiting" => paused
    /\ part = "retry" => (timed => phase = "settled")
    /\ part = "calls" => \A c \in 1 .. MaxPromises : M!Answered(c)

\* What is called, added or shown as running ends: calls being finitely many, none is left
\* in the end.
CallsEnd == <>[]Settled
===============================================================================
