------------------------------ MODULE StoreViews ------------------------------
(***************************************************************************)
(* What the getters of the extension's store read from one state: those of *)
(* the root (store/suseai-common.ts) from the records of installations,    *)
(* the apps and the clusters together, those of store/modules/apps.ts and  *)
(* clusters.ts from their own; and the mutations that only these getters   *)
(* see.  The modules' state takes the place of what createInitialState     *)
(* gives under the same names.                                             *)
(***************************************************************************)
EXTENDS Integers, FiniteSets, SequencesExt

CONSTANTS None

\* The state s of a store: recs, byApp and byCluster as in InstallationStore, where a record
\* is [app, cluster, status]; apps, the flags of each app of the catalogue; selected.
Known(s, ids) == ids \cap DOMAIN s.apps
Recorded(s, keys) == {s.recs[k] : k \in keys \cap DOMAIN s.recs}
Deployed(records) == {r.app : r \in {q \in records : q.status = "deployed"}}
Under(index, id) == IF id \in DOMAIN index THEN index[id] ELSE {}
All(s) == Recorded(s, DOMAIN s.recs)

-----------------------------------------------------------------------------
(* Getters of the root *)

installationInfo(s, app) == Recorded(s, Under(s.byApp, app))
installedApps(s) == Known(s, Deployed(All(s)))
installedAppsForCluster(s, c) == Known(s, Deployed(Recorded(s, Under(s.byCluster, c))))

appsForCluster(s, c, ready) ==
    IF ready THEN [installed |-> installedAppsForCluster(s, c),
                   available |-> DOMAIN s.apps \ Deployed(Recorded(s, Under(s.byCluster, c)))]
    ELSE [installed |-> {}, available |-> {}]

availableAppsForCluster(s, c, ready) == IF ready THEN DOMAIN s.apps ELSE {}

appsWithInstallations(s) == {a \in DOMAIN s.apps : Under(s.byApp, a) # {}}

totalAppsCount(s) == Cardinality(DOMAIN s.apps)
installedAppsCount(s) == Cardinality(Deployed(All(s)))
availableAppsCount(s) == totalAppsCount(s) - installedAppsCount(s)
clustersWithAppsCount(s) == Cardinality(DOMAIN s.byCluster)

canPerformBulkOperation(s, operation) ==
    \E a \in Known(s, s.selected) :
        CASE operation = "install" -> ~s.apps[a].installed
          [] operation = "upgrade" -> s.apps[a].installed /\ s.apps[a].updates
          [] operation = "uninstall" -> s.apps[a].installed
          [] OTHER -> FALSE

\* The getter of the installations' module, for which what is on its way is installed.
InstalledAppIds(s) == {r.app : r \in {q \in All(s) : q.status \in {"deployed", "installing", "upgrading"}}}

-----------------------------------------------------------------------------
(* Mutations *)

Extended(index, id, key) == [i \in DOMAIN index \cup {id} |-> Under(index, i) \cup IF i = id THEN {key} ELSE {}]

\* Mutant: the index of clusters is not extended.
setInstallationInfoOfApp(s, key, record) ==
    [s EXCEPT !.recs = [k \in DOMAIN s.recs \cup {key} |-> IF k = key THEN record ELSE s.recs[k]],
              !.byApp = Extended(s.byApp, record.app, key)]

setInstallationInfo(s, key, record) ==
    [s EXCEPT !.recs = [k \in DOMAIN s.recs \cup {key} |-> IF k = key THEN record ELSE s.recs[k]],
              !.byApp = Extended(s.byApp, record.app, key),
              !.byCluster = Extended(s.byCluster, record.cluster, key)]

\* The flags of an app after UPDATE_APP_INSTALLATIONS with these records; updates is kept.
UPDATE_APP_INSTALLATIONS(s, app, records) ==
    IF app \notin DOMAIN s.apps THEN s
    ELSE [s EXCEPT !.apps[app] =
             [installed |-> records # {}, updates |-> @.updates,
              running |-> \E r \in records : r.status = "deployed",
              failed |-> \E r \in records : r.status = "failed"]]

\* setRepositories of a list of [name, cluster], whose cluster may be None: the last of a
\* name is kept, and each is named under its cluster.
setRepositories(list) ==
    LET named(n) == {i \in DOMAIN list : list[i].name = n}
        names == {list[i].name : i \in DOMAIN list}
        places == {list[i].cluster : i \in DOMAIN list} \ {None}
    IN  [repositories |-> [n \in names |-> list[CHOOSE i \in named(n) : \A j \in named(n) : j <= i]],
         byCluster |-> [c \in places |-> {list[i].name : i \in {j \in DOMAIN list : list[j].cluster = c}}]]

-----------------------------------------------------------------------------
(* Clusters: one of them, [cluster, connection], each None if it is not there; fetchClusters *)
(* has no source of clusters yet, but any component may commit these mutations.              *)

Stored(ready) ==
    [ready |-> ready, connectionStatus |-> IF ready THEN "connected" ELSE "disconnected", healthError |-> FALSE]

START_CLUSTER_CONNECTION == [connecting |-> TRUE, retryCount |-> 0, error |-> FALSE]

COMPLETE_CLUSTER_CONNECTION(c, success) ==
    IF c.connection = None THEN c
    ELSE [cluster |-> IF c.cluster = None THEN None
                      ELSE [c.cluster EXCEPT !.connectionStatus = IF success THEN "connected" ELSE "error",
                                             !.healthError = ~success],
          connection |-> [connecting |-> FALSE, error |-> ~success,
                          retryCount |-> c.connection.retryCount + IF success THEN 0 ELSE 1]]

UPDATE_CLUSTER_STATUS(c, status) ==
    IF c.cluster = None THEN c ELSE [c EXCEPT !.cluster.connectionStatus = status]

\* One mutation; SET_CLUSTERS of a list without the cluster keeps its connection.
Mutated(c, m) ==
    CASE m = "set ready" -> [c EXCEPT !.cluster = Stored(TRUE)]
      [] m = "set" -> [c EXCEPT !.cluster = Stored(FALSE)]
      [] m = "clear" -> [c EXCEPT !.cluster = None]
      [] m = "start" -> [c EXCEPT !.connection = START_CLUSTER_CONNECTION]
      [] m = "connected" -> COMPLETE_CLUSTER_CONNECTION(c, TRUE)
      [] m = "failed" -> COMPLETE_CLUSTER_CONNECTION(c, FALSE)
      [] m = "checked" -> UPDATE_CLUSTER_STATUS(c, "disconnected")  \* checkClusterHealth, whatever the cluster
After(mutations) == FoldLeft(Mutated, [cluster |-> None, connection |-> None], mutations)

Connected(c) == c.cluster # None /\ c.cluster.connectionStatus = "connected" /\ c.cluster.ready
canInstallApps(c, able) == Connected(c) /\ able = TRUE
IsAvailable(c, able) == c.cluster # None /\ c.cluster.ready /\ able = TRUE
isClusterHealthy(c) == Connected(c) /\ ~c.cluster.healthError
clusterConnectionStatus(c) ==
    IF c.connection # None /\ c.connection.connecting THEN "connecting"
    ELSE IF c.cluster = None THEN "unknown" ELSE c.cluster.connectionStatus

-----------------------------------------------------------------------------
(* Laws *)

\* Of a store whose indexes name exactly its records and clusters: a ready cluster offers
\* each app once, installed or available, an app is installed when it is on some cluster,
\* and the counts differ by just the deployed apps the catalogue no longer has.
WellIndexed(s) ==
    /\ \A k \in DOMAIN s.recs : k \in Under(s.byApp, s.recs[k].app) /\ k \in Under(s.byCluster, s.recs[k].cluster)
    /\ \A c \in DOMAIN s.byCluster : \A k \in s.byCluster[c] : k \in DOMAIN s.recs /\ s.recs[k].cluster = c
    /\ \A a \in DOMAIN s.byApp : \A k \in s.byApp[a] : k \in DOMAIN s.recs /\ s.recs[k].app = a
AppsAddUp(s) ==
    WellIndexed(s) =>
        /\ \A c \in DOMAIN s.byCluster :
              LET shown == appsForCluster(s, c, TRUE)
              IN  /\ shown.installed \cup shown.available = availableAppsForCluster(s, c, TRUE)
                  /\ shown.installed \cap shown.available = {}
                  /\ shown.installed = installedAppsForCluster(s, c)
        /\ installedApps(s) = UNION {installedAppsForCluster(s, c) : c \in DOMAIN s.byCluster}
        /\ installedApps(s) \subseteq InstalledAppIds(s) \cap appsWithInstallations(s)
        /\ totalAppsCount(s) - Cardinality(installedApps(s)) =
              availableAppsCount(s) + Cardinality(Deployed(All(s)) \ DOMAIN s.apps)
        /\ clustersWithAppsCount(s) >= Cardinality({r.cluster : r \in All(s)})

\* A record that is written is found under its app and its cluster, and others are found as
\* before; the key stays under the app or cluster the record had before, so the getter of
\* that app tells of another's record.  Flags made from an app's own records agree with
\* what the root counts.
InfoFound(s, key, record) ==
    LET t == setInstallationInfo(s, key, record)
        flagged == UPDATE_APP_INSTALLATIONS(t, record.app, {r \in All(t) : r.app = record.app})
    IN  /\ record \in installationInfo(t, record.app)
        /\ record.status = "deployed" => Known(t, {record.app}) \subseteq installedAppsForCluster(t, record.cluster)
        /\ WellIndexed(s) /\ ~WellIndexed(t) <=>
              WellIndexed(s) /\ key \in DOMAIN s.recs
                 /\ (s.recs[key].app # record.app \/ s.recs[key].cluster # record.cluster)
        /\ record.app \in DOMAIN s.apps =>
              /\ flagged.apps[record.app].running <=> record.app \in installedApps(t)
              /\ canPerformBulkOperation([flagged EXCEPT !.selected = {record.app}], "uninstall")

\* What may be upgraded may be uninstalled, nothing may be done with nothing selected, and
\* something may with an app of the catalogue.
BulkFits(s) ==
    /\ canPerformBulkOperation(s, "upgrade") => canPerformBulkOperation(s, "uninstall")
    /\ Known(s, s.selected) # {} <=>
          canPerformBulkOperation(s, "install") \/ canPerformBulkOperation(s, "uninstall")

\* A repository named under a cluster is there; it is of that cluster unless another of
\* its name came after.
RepositoriesFound(list) ==
    LET s == setRepositories(list)
    IN  \A c \in DOMAIN s.byCluster : \A n \in s.byCluster[c] :
            /\ n \in DOMAIN s.repositories
            /\ s.repositories[n].cluster = c \/
                  \E i, j \in DOMAIN list : i < j /\ list[i] = [name |-> n, cluster |-> c]
                                            /\ list[j].name = n /\ list[j].cluster # c

\* Apps are installed on clusters that are available and connected only; an attempt that
\* failed, or a check of its health, keeps a cluster from that until it is listed or
\* connected again, and the failures counted are those of the last attempt begun.
ConnectionTold(mutations, able) ==
    LET c == After(mutations)
        since(m) == {i \in DOMAIN mutations : mutations[i] = m}
        Renewed(i) == \E j \in DOMAIN mutations : j > i /\ mutations[j] \in {"set ready", "connected"}
    IN  /\ canInstallApps(c, able) => IsAvailable(c, able) /\ clusterConnectionStatus(c) \in {"connected", "connecting"}
        /\ isClusterHealthy(c) => Connected(c)
        /\ \A i \in since("checked") : canInstallApps(c, able) => Renewed(i)
        /\ \A i \in since("failed") :
              (\E j \in since("start") : j < i) /\ isClusterHealthy(c) => Renewed(i)
        /\ c.connection # None =>
              LET last == CHOOSE i \in since("start") : \A j \in since("start") : j <= i
              IN  c.connection.retryCount = Cardinality({i \in since("failed") : i > last})
===============================================================================
