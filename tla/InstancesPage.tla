--------------------------- MODULE InstancesPage ---------------------------
(***************************************************************************)
(* The page that lists the instances of one application over all clusters  *)
(* (pages/AppInstances.vue): manual refreshes, the silent ones of its      *)
(* 30 s timer and deletions, which interleave at every await.  The apps of *)
(* the clusters are the environment.                                       *)
(***************************************************************************)
EXTENDS Naturals

CONSTANTS
    Instances,   \* instances the application may have
    Clusters,    \* clusters that may be registered in Rancher
    ClusterOf,   \* the cluster of an instance
    KeyOf,       \* getInstanceKey: the key of an instance's row
    None,
    MaxLoads,    \* bound on the loads in flight at once
    MaxChanges,  \* bound on what users here and elsewhere start
    MaxFaults    \* bound on the requests that fail

PlacesAssumption == /\ ClusterOf \in [Instances -> Clusters]
                           /\ DOMAIN KeyOf = Instances
NoneAssumption == \A S \in SUBSET Clusters : S # None
BoundAssumption == {MaxLoads, MaxChanges, MaxFaults} \subseteq Nat

VARIABLES
    apps,        \* state of each instance in its cluster, as Rancher reports it
    registered,  \* clusters Rancher knows
    loading,     \* loading.value
    error,       \* who set error.value last, "none" if nobody since it was cleared
    rows,        \* instances.value
    cache,       \* clustersCache, None when empty or expired
    loads,       \* the calls of loadAppInstances in flight
    deletes,     \* where the deletion of each instance stands
    deleting,    \* deletingInstances.value
    changes, faults

page  == <<loading, error, rows, cache, loads, deletes, deleting>>
world == <<apps, registered>>
vars  == <<page, world, changes, faults>>

RancherStates ==
    {"absent", "pending-install", "pending-upgrade", "deployed", "failed", "uninstalling"}
Statuses == {"installing", "upgrading", "deployed", "failed", "uninstalling"}

\* Mutant: Rancher's names are taken over.
InstanceStatusRaw(state) == state

\* The switch over the state Rancher reports.
InstanceStatus(state) ==
    CASE state = "pending-install" -> "installing"
      [] state = "pending-upgrade" -> "upgrading"
      [] OTHER -> state

Row  == [inst : Instances, status : Statuses]
Load == [kind : {"refresh", "silent"}, step : {"clusters", "query", "info"},
         todo : SUBSET Clusters, found : SUBSET Row]
Slots == 1 .. MaxLoads

TypeOK ==
    /\ apps \in [Instances -> RancherStates]
    /\ registered \subseteq Clusters
    /\ loading \in BOOLEAN
    /\ error \in {"none", "refresh", "silent", "delete"}
    /\ rows \subseteq Row
    /\ cache = None \/ cache \subseteq Clusters
    /\ loads \in [Slots -> Load \cup {None}]
    /\ deletes \in [Instances -> {"idle", "posting", "waiting"}]
    /\ deleting \subseteq {KeyOf[i] : i \in Instances}
    /\ changes \in 0 .. MaxChanges /\ faults \in 0 .. MaxFaults

-----------------------------------------------------------------------------
(* Buttons and table *)

CanDelete(row) == row.status \notin {"installing", "upgrading"}

\* The table is hidden while a refresh loads.
TableShown == ~loading /\ rows # {}
DeleteEnabled(row) ==
    TableShown /\ row \in rows /\ CanDelete(row) /\ KeyOf[row.inst] \notin deleting
RefreshEnabledAlways == TRUE  \* mutant
RefreshEnabled == ~loading

-----------------------------------------------------------------------------
(* Loading *)

\* A load takes the cached clusters at once, or asks for them first.
NewLoad(kind) ==
    IF cache = None
    THEN [kind |-> kind, step |-> "clusters", todo |-> {}, found |-> {}]
    ELSE [kind |-> kind, step |-> "query", todo |-> cache, found |-> {}]

StartLoad(s, kind) == loads[s] = None /\ loads' = [loads EXCEPT ![s] = NewLoad(kind)]

Refresh(s) ==
    /\ RefreshEnabled
    /\ StartLoad(s, "refresh")
    /\ loading' = TRUE /\ error' = "none"
    /\ UNCHANGED <<rows, cache, deletes, deleting, world, changes, faults>>

SilentRefresh(s) ==
    /\ ~loading /\ deleting = {}
    /\ StartLoad(s, "silent")
    /\ UNCHANGED <<loading, error, rows, cache, deletes, deleting, world, changes, faults>>

\* A silent load ends with its rows; a refresh ends when loadAppInfo has too.
Ended(load) == IF load.kind = "silent" THEN None ELSE [load EXCEPT !.step = "info"]

ClustersAnswered(s) ==
    /\ loads[s] # None /\ loads[s].step = "clusters"
    /\ cache' = registered
    /\ loads' = [loads EXCEPT ![s].step = "query", ![s].todo = registered]
    /\ UNCHANGED <<loading, error, rows, deletes, deleting, world, changes, faults>>

\* loadAppInstances catches its failure and shows it, whoever called it.
ClustersFailed(s) ==
    /\ loads[s] # None /\ loads[s].step = "clusters" /\ faults < MaxFaults
    /\ error' = loads[s].kind
    /\ loads' = [loads EXCEPT ![s] = Ended(@)]
    /\ faults' = faults + 1
    /\ UNCHANGED <<loading, rows, cache, deletes, deleting, world, changes>>

FoundIn(c) == {[inst |-> i, status |-> InstanceStatus(apps[i])] :
                  i \in {j \in Instances : ClusterOf[j] = c /\ apps[j] # "absent"}}

\* One cluster answers; after the last of them the rows are replaced.
QueryDone(s, found) ==
    \E c \in loads[s].todo :
        LET load == [loads[s] EXCEPT !.todo = @ \ {c}, !.found = @ \cup found[c]]
        IN IF load.todo = {}
           THEN rows' = load.found /\ loads' = [loads EXCEPT ![s] = Ended(load)]
           ELSE loads' = [loads EXCEPT ![s] = load] /\ UNCHANGED rows

QueryAnswered(s) ==
    /\ loads[s] # None /\ loads[s].step = "query"
    /\ QueryDone(s, [c \in Clusters |-> FoundIn(c)])
    /\ UNCHANGED <<loading, error, cache, deletes, deleting, world, changes, faults>>

\* A cluster that fails is passed over.
QueryFailed(s) ==
    /\ loads[s] # None /\ loads[s].step = "query" /\ faults < MaxFaults
    /\ QueryDone(s, [c \in Clusters |-> {}])
    /\ faults' = faults + 1
    /\ UNCHANGED <<loading, error, cache, deletes, deleting, world, changes>>

\* Without a cluster the rows are emptied.
NothingToQuery(s) ==
    /\ loads[s] # None /\ loads[s].step = "query" /\ loads[s].todo = {}
    /\ rows' = {} /\ loads' = [loads EXCEPT ![s] = Ended(@)]
    /\ UNCHANGED <<loading, error, cache, deletes, deleting, world, changes, faults>>

\* loadAppInfo answers last (before the rows it makes no difference).
InfoAnswered(s) ==
    /\ loads[s] # None /\ loads[s].step = "info"
    /\ loading' = FALSE
    /\ loads' = [loads EXCEPT ![s] = None]
    /\ UNCHANGED <<error, rows, cache, deletes, deleting, world, changes, faults>>

\* Mutant: the clusters are kept for ever.
CacheExpiresNever == cache # None /\ UNCHANGED vars

CacheExpires ==
    /\ cache # None
    /\ cache' = None
    /\ UNCHANGED <<loading, error, rows, loads, deletes, deleting, world, changes, faults>>

-----------------------------------------------------------------------------
(* Deleting *)

Delete(i) ==
    /\ \E row \in rows : row.inst = i /\ DeleteEnabled(row)
    /\ changes < MaxChanges
    /\ deleting' = deleting \cup {KeyOf[i]}
    /\ deletes' = [deletes EXCEPT ![i] = "posting"]
    /\ changes' = changes + 1
    /\ UNCHANGED <<loading, error, rows, cache, loads, world, faults>>

\* Rancher accepts the uninstall; deleteApp then waits five seconds.
UninstallPosted(i) ==
    /\ deletes[i] = "posting" /\ apps[i] # "absent"
    /\ apps' = [apps EXCEPT ![i] = "uninstalling"]
    /\ deletes' = [deletes EXCEPT ![i] = "waiting"]
    /\ UNCHANGED <<loading, error, rows, cache, loads, deleting, registered, changes, faults>>

UninstallFailed(i) ==
    /\ deletes[i] = "posting"
    /\ \/ apps[i] = "absent" /\ UNCHANGED faults
       \/ apps[i] # "absent" /\ faults < MaxFaults /\ faults' = faults + 1
    /\ error' = "delete"
    /\ deleting' = deleting \ {KeyOf[i]}
    /\ deletes' = [deletes EXCEPT ![i] = "idle"]
    /\ UNCHANGED <<loading, rows, cache, loads, world, changes>>

\* The first row with the key is removed, if there is one.
RemoveRow(key) ==
    LET hits == {row \in rows : KeyOf[row.inst] = key}
    IN IF hits = {} THEN UNCHANGED rows ELSE \E row \in hits : rows' = rows \ {row}

Deleted(i) ==
    /\ deletes[i] = "waiting"
    /\ RemoveRow(KeyOf[i])
    /\ deleting' = deleting \ {KeyOf[i]}
    /\ deletes' = [deletes EXCEPT ![i] = "idle"]
    /\ UNCHANGED <<loading, error, cache, loads, world, changes, faults>>

-----------------------------------------------------------------------------
(* The clusters *)

SetApp(i, state) ==
    /\ apps' = [apps EXCEPT ![i] = state]
    /\ UNCHANGED <<page, registered, faults>>

UserInstalls(i) ==
    /\ ClusterOf[i] \in registered /\ changes < MaxChanges
    /\ \/ apps[i] = "absent" /\ SetApp(i, "pending-install")
       \/ apps[i] \in {"deployed", "failed"} /\ SetApp(i, "pending-upgrade")
    /\ changes' = changes + 1

HelmEnds(i) ==
    /\ \/ /\ apps[i] \in {"pending-install", "pending-upgrade"}
          /\ \E state \in {"deployed", "failed"} : SetApp(i, state)
       \/ apps[i] = "uninstalling" /\ SetApp(i, "absent")
    /\ UNCHANGED changes

ClusterRegistered(c) ==
    /\ c \notin registered /\ changes < MaxChanges
    /\ registered' = registered \cup {c}
    /\ changes' = changes + 1
    /\ UNCHANGED <<page, apps, faults>>

-----------------------------------------------------------------------------

Init ==
    /\ registered \in (SUBSET Clusters) \ {{}}
    /\ apps \in [Instances -> {"absent", "deployed"}]
    /\ \A i \in Instances : apps[i] # "absent" => ClusterOf[i] \in registered
    /\ loading = TRUE /\ error = "none" /\ rows = {} /\ cache = None
    /\ loads = [s \in Slots |-> IF s = 1 THEN NewLoad("refresh") ELSE None]
    /\ deletes = [i \in Instances |-> "idle"] /\ deleting = {}
    /\ changes = 0 /\ faults = 0

LoadStep(s) == \/ ClustersAnswered(s) \/ ClustersFailed(s) \/ QueryAnswered(s)
               \/ QueryFailed(s) \/ NothingToQuery(s) \/ InfoAnswered(s)
DeleteStep(i) == UninstallPosted(i) \/ UninstallFailed(i) \/ Deleted(i)

Next ==
    \/ \E s \in Slots : Refresh(s) \/ SilentRefresh(s) \/ LoadStep(s)
    \/ \E i \in Instances : Delete(i) \/ DeleteStep(i) \/ UserInstalls(i) \/ HelmEnds(i)
    \/ CacheExpires
    \/ \E c \in Clusters : ClusterRegistered(c)

Spec == Init /\ [][Next]_vars

(***************************************************************************)
(* Requests are answered or time out, the timer fires while the page is    *)
(* open, the cache expires and helm finishes.  Users may do nothing.       *)
(***************************************************************************)
Fairness ==
    /\ \A s \in Slots : WF_vars(LoadStep(s))
    /\ WF_vars(\E s \in Slots : SilentRefresh(s))
    /\ WF_vars(CacheExpires)
    /\ \A i \in Instances : WF_vars(DeleteStep(i)) /\ WF_vars(HelmEnds(i))

FairSpec == Spec /\ Fairness

-----------------------------------------------------------------------------
(* Properties *)

\* The spinner shows exactly while one manual refresh is in flight, however the
\* silent loads overlap it: it never sticks and no second refresh starts.
LoadingIsRefresh ==
    LET refreshes == {s \in Slots : loads[s] # None /\ loads[s].kind = "refresh"}
    IN IF loading THEN \E s \in Slots : refreshes = {s} ELSE refreshes = {}

\* A row's Delete button is disabled exactly while a deletion of that key runs,
\* although loads replace the rows meanwhile.
DeletingMarks == deleting = {KeyOf[i] : i \in {j \in Instances : deletes[j] # "idle"}}

\* What the page shows in progress is what is.
Indicators == LoadingIsRefresh /\ DeletingMarks

\* Once users rest the page shows exactly what is in the clusters, for good:
\* loads that overlap and end out of order, failures, a stale list of clusters
\* and rows that come back after a deletion are all put right by the timer.
UpToDate == rows = UNION {FoundIn(c) : c \in registered}
=============================================================================
