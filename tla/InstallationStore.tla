-------------------------- MODULE InstallationStore --------------------------
(***************************************************************************)
(* The records and operations of the extension's store                     *)
(* (store/modules/installations.ts, and the bulk operations of             *)
(* store/suseai-common.ts).  Calls of the actions interleave at their      *)
(* awaits; everything is looked up by key, the cluster, namespace and      *)
(* release name together, so calls on one key act on each other's          *)
(* operation and a timer removes whatever operation it finds.              *)
(***************************************************************************)
EXTENDS Naturals, FiniteSets

CONSTANTS
    Apps, Clusters, Keys,
    ClusterOf,     \* the cluster named in a key
    None,
    MaxCalls,      \* bound on the calls begun
    MaxFaults      \* bound on the calls that fail

PlacesAssumption == ClusterOf \in [Keys -> Clusters]
BoundsAssumption == MaxCalls \in Nat /\ MaxFaults \in Nat

VARIABLES
    recs,        \* state.installations: what is recorded under a key
    byApp,       \* state.installationsByApp
    byCluster,   \* state.installationsByCluster
    ops,         \* state.installing: the operation under a key
    selected,    \* state.ui.selectedApps
    calls,       \* calls of the actions that wait
    removals,    \* timers of COMPLETE_OPERATION
    refreshes,   \* timers that refresh, after an install or upgrade
    began, faults,
    mixed        \* history: keys on which a call met another call, a timer or a cancel

records == <<recs, byApp, byCluster>>
vars == <<records, ops, selected, calls, removals, refreshes, began, faults, mixed>>

Types == {"install", "upgrade", "uninstall", "rollback"}
Call  == [id : Nat, type : Types, app : Apps, key : Keys, step : {"import", "request"}]
Record == [app : Apps, status : {"installing", "upgrading"}]
Operation == [full : BOOLEAN, error : BOOLEAN]

TypeOK ==
    /\ \A k \in Keys : recs[k] = None \/ recs[k] \in Record
    /\ byApp \in [Apps -> SUBSET Keys] /\ byCluster \in [Clusters -> SUBSET Keys]
    /\ \A k \in Keys : ops[k] = None \/ ops[k] \in Operation
    /\ selected \subseteq Apps /\ mixed \subseteq Keys
    /\ calls \subseteq Call
    /\ \A t \in removals : t.key \in Keys /\ t.id \in Nat
    /\ refreshes \in Nat /\ began \in 0 .. MaxCalls /\ faults \in 0 .. MaxFaults

-----------------------------------------------------------------------------
(* Getters *)

Records(keys) == {k \in keys : recs[k] # None}

IsAppInstalled(app) == Records(byApp[app]) # {}
IsAppInstalledOn(app, c) == \E k \in Records(byApp[app]) : ClusterOf[k] = c

InstalledAppIds == {recs[k].app : k \in Records(Keys)}

\* installationInfo of one cluster: some record of the app there.
InstallationInfo(app, c) == {recs[k] : k \in {j \in Records(byApp[app]) : ClusterOf[j] = c}}

-----------------------------------------------------------------------------
(* Mutations *)

SET_INSTALLATION(k, app) ==
    /\ recs' = [recs EXCEPT ![k] = [app |-> app, status |-> "installing"]]
    /\ byApp' = [byApp EXCEPT ![app] = @ \cup {k}]
    /\ byCluster' = [byCluster EXCEPT ![ClusterOf[k]] = @ \cup {k}]

\* Mutant: the index of clusters is forgotten.
REMOVE_INSTALLATIONFromApps(k) ==
    IF recs[k] = None THEN UNCHANGED records
    ELSE /\ recs' = [recs EXCEPT ![k] = None]
         /\ byApp' = [byApp EXCEPT ![recs[k].app] = @ \ {k}]
         /\ UNCHANGED byCluster

\* Removes the key from the indexes of the record it holds now, and of no other.
REMOVE_INSTALLATION(k) ==
    IF recs[k] = None THEN UNCHANGED records
    ELSE /\ recs' = [recs EXCEPT ![k] = None]
         /\ byApp' = [byApp EXCEPT ![recs[k].app] = @ \ {k}]
         /\ byCluster' = [byCluster EXCEPT ![ClusterOf[k]] = @ \ {k}]

\* Mutant: the upgrade is taken to be over when its request is answered.
UPDATE_INSTALLATION_STATUSDeployed(k, status) ==
    /\ recs' = IF recs[k] = None THEN recs ELSE [recs EXCEPT ![k].status = "deployed"]
    /\ UNCHANGED <<byApp, byCluster>>

UPDATE_INSTALLATION_STATUS(k, status) ==
    /\ recs' = IF recs[k] = None THEN recs ELSE [recs EXCEPT ![k].status = status]
    /\ UNCHANGED <<byApp, byCluster>>

\* discoverInstallations always commits the empty list: there is no source of releases yet.
SET_INSTALLATIONS ==
    /\ recs' = [k \in Keys |-> None]
    /\ byApp' = [a \in Apps |-> {}] /\ byCluster' = [c \in Clusters |-> {}]

START_OPERATION == [full |-> FALSE, error |-> FALSE]

UPDATE_OPERATION(k) == ops' = IF ops[k] = None THEN ops ELSE [ops EXCEPT ![k].full = FALSE]

COMPLETE_OPERATION(c) ==
    IF ops[c.key] = None THEN UNCHANGED <<ops, removals>>
    ELSE /\ ops' = [ops EXCEPT ![c.key].full = TRUE]
         /\ removals' = removals \cup {[key |-> c.key, id |-> c.id]}

FAIL_OPERATION(k) == ops' = IF ops[k] = None THEN ops ELSE [ops EXCEPT ![k].error = TRUE]

-----------------------------------------------------------------------------
(* Actions *)

Busy(k) == (\E c \in calls : c.key = k) \/ (\E t \in removals : t.key = k)

\* The requests start in one turn of the event loop, each up to its first await.
Begin(requests) ==
    LET rank == CHOOSE f \in [requests -> 1 .. Cardinality(requests)] :
                    \A q, r \in requests : f[q] = f[r] => q = r
        twice(k) == \E q, r \in requests : q # r /\ q.key = k /\ r.key = k
    IN /\ began + Cardinality(requests) <= MaxCalls
       /\ began' = began + Cardinality(requests)
       /\ calls' = calls \cup {[id |-> began + rank[r], type |-> r.type, app |-> r.app,
                                key |-> r.key, step |-> "import"] : r \in requests}
       /\ ops' = [k \in Keys |-> IF \E r \in requests : r.key = k THEN START_OPERATION ELSE ops[k]]
       /\ mixed' = mixed \cup {k \in Keys : twice(k) \/ (Busy(k) /\ \E r \in requests : r.key = k)}
       /\ UNCHANGED <<records, selected, removals, refreshes, faults>>

installApp(app, k)   == Begin({[type |-> "install", app |-> app, key |-> k]})
upgradeApp(app, k)   == Begin({[type |-> "upgrade", app |-> app, key |-> k]})
uninstallApp(app, k) == Begin({[type |-> "uninstall", app |-> app, key |-> k]})
rollbackApp(app, k)  == Begin({[type |-> "rollback", app |-> app, key |-> k]})

\* One payload for all selected apps, so one key.
performBulkInstall(k) ==
    selected # {} /\ Begin({[type |-> "install", app |-> a, key |-> k] : a \in selected})
performBulkUpgrade(k) ==
    selected # {} /\ Begin({[type |-> "upgrade", app |-> a, key |-> k] : a \in selected})

\* Everything indexed under the selected apps.  A key without a record throws, after
\* some of the uninstalls have begun and before the others.
performBulkUninstall ==
    LET indexed == {[type |-> "uninstall", app |-> p[1], key |-> p[2]] :
                       p \in {q \in selected \X Keys : q[2] \in byApp[q[1]]}}
        sound == {r \in indexed : recs[r.key] # None}
    IN \E begun \in SUBSET sound : /\ begun # {} /\ (sound = indexed => begun = indexed)
                                   /\ Begin(begun)

\* The service is imported; there is none for a rollback.
Imported(c) ==
    /\ c \in calls /\ c.step = "import"
    /\ IF c.type = "rollback"
       THEN FAIL_OPERATION(c.key) /\ calls' = calls \ {c}
       ELSE UPDATE_OPERATION(c.key) /\ calls' = (calls \ {c}) \cup {[c EXCEPT !.step = "request"]}
    /\ UNCHANGED <<records, selected, removals, refreshes, began, faults, mixed>>

\* createOrUpgradeApp or deleteApp returns.
Succeeds(c) ==
    /\ c \in calls /\ c.step = "request"
    /\ \/ c.type = "install" /\ SET_INSTALLATION(c.key, c.app) /\ refreshes' = refreshes + 1
       \/ c.type = "upgrade" /\ UPDATE_INSTALLATION_STATUS(c.key, "upgrading") /\ refreshes' = refreshes + 1
       \/ c.type = "uninstall" /\ REMOVE_INSTALLATION(c.key) /\ UNCHANGED refreshes
    /\ COMPLETE_OPERATION(c)
    /\ calls' = calls \ {c}
    /\ UNCHANGED <<selected, began, faults, mixed>>

\* The import or the request fails.
Fails(c) ==
    /\ c \in calls /\ faults < MaxFaults
    /\ FAIL_OPERATION(c.key)
    /\ calls' = calls \ {c}
    /\ faults' = faults + 1
    /\ UNCHANGED <<records, selected, removals, refreshes, began, mixed>>

\* The operation is marked; its call goes on.
cancelOperation(k) ==
    /\ ops[k] # None /\ ~ops[k].error
    /\ FAIL_OPERATION(k)
    /\ mixed' = mixed \cup {k}
    /\ UNCHANGED <<records, selected, calls, removals, refreshes, began, faults>>

CLEAR_COMPLETED_OPERATIONS ==
    /\ \E k \in Keys : ops[k] # None /\ ops[k].full /\ ~ops[k].error
    /\ ops' = [k \in Keys |-> IF ops[k] # None /\ ops[k].full /\ ~ops[k].error THEN None ELSE ops[k]]
    /\ UNCHANGED <<records, selected, calls, removals, refreshes, began, faults, mixed>>

\* Three seconds after COMPLETE_OPERATION.
RemovalFires(t) ==
    /\ t \in removals
    /\ removals' = removals \ {t}
    /\ ops' = [ops EXCEPT ![t.key] = None]
    /\ UNCHANGED <<records, selected, calls, refreshes, began, faults, mixed>>

\* Five seconds after an install or upgrade, of whatever cluster.
RefreshFires ==
    /\ refreshes > 0 /\ refreshes' = refreshes - 1
    /\ SET_INSTALLATIONS
    /\ UNCHANGED <<ops, selected, calls, removals, began, faults, mixed>>

discoverInstallations ==
    /\ SET_INSTALLATIONS
    /\ UNCHANGED <<ops, selected, calls, removals, refreshes, began, faults, mixed>>

SelectApps ==
    /\ \E app \in Apps : selected' \in {selected \cup {app}, selected \ {app}, {}}
    /\ UNCHANGED <<records, ops, calls, removals, refreshes, began, faults, mixed>>

-----------------------------------------------------------------------------

Init ==
    /\ recs = [k \in Keys |-> None]
    /\ byApp = [a \in Apps |-> {}] /\ byCluster = [c \in Clusters |-> {}]
    /\ ops = [k \in Keys |-> None]
    /\ selected = {} /\ calls = {} /\ removals = {} /\ refreshes = 0
    /\ began = 0 /\ faults = 0 /\ mixed = {}

CallStep(c) == Imported(c) \/ Succeeds(c) \/ Fails(c)

Next ==
    \/ \E k \in Keys : \/ \E a \in Apps : \/ installApp(a, k) \/ upgradeApp(a, k)
                                          \/ uninstallApp(a, k) \/ rollbackApp(a, k)
                       \/ performBulkInstall(k) \/ performBulkUpgrade(k) \/ cancelOperation(k)
    \/ performBulkUninstall \/ SelectApps
    \/ \E c \in calls : CallStep(c)
    \/ \E t \in removals : RemovalFires(t)
    \/ RefreshFires \/ discoverInstallations \/ CLEAR_COMPLETED_OPERATIONS

Spec == Init /\ [][Next]_vars

-----------------------------------------------------------------------------
(* Properties *)

\* Every record is found under its app and under its cluster, the cluster index
\* has no other key, whatever calls and timers do to one key.
IndexesComplete ==
    /\ \A k \in Records(Keys) : k \in byApp[recs[k].app]
    /\ byCluster = [c \in Clusters |-> {k \in Records(Keys) : ClusterOf[k] = c}]

\* As long as no key was shared by overlapping acts or by two apps the two ways
\* the store tells what is installed agree: isAppInstalled by the index of apps,
\* installedAppIds by the records.
OneApp == \A k \in Keys : \A a, b \in Apps : k \in byApp[a] /\ k \in byApp[b] => a = b
GettersAgree ==
    OneApp => \A a \in Apps : IsAppInstalled(a) <=> a \in InstalledAppIds

\* A call's operation is shown as running until the call ends, unless acts on its
\* key overlapped.
OperationShown ==
    \A c \in calls : c.key \notin mixed => ops[c.key] # None /\ ~ops[c.key].full
=============================================================================
