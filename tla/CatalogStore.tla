---------------------------- MODULE CatalogStore ----------------------------
(***************************************************************************)
(* Apps, repositories, clusters and discovery in the extension's store     *)
(* (store/modules/apps.ts, repositories.ts and clusters.ts, and the        *)
(* discovery of store/suseai-common.ts).  The sources of data are still    *)
(* placeholders: the apps are a static list, there are no clusters, and    *)
(* repositories are the built-in ones or none.  Calls interleave at their  *)
(* awaits and share the flags of the store.                                *)
(***************************************************************************)
EXTENDS Naturals

CONSTANTS
    Apps,        \* the static list of fetchSuseAiApps
    Words,       \* words of the apps' texts
    Indexed,     \* of each app: words of its names and keywords, long words of its description
    Short,       \* of each app: words of at most two letters in its description
    Terms, Hits, \* search terms, and the words that contain each
    Repos,       \* repositories that may be named; the built-in ones are among them
    BuiltIn, Clusters, None,
    MaxCalls, MaxFaults

CatalogAssumption ==
    /\ Indexed \in [Apps -> SUBSET Words] /\ Short \in [Apps -> SUBSET Words]
    /\ Hits \in [Terms -> SUBSET Words] /\ BuiltIn \subseteq Repos
    /\ None \notin Terms /\ {MaxCalls, MaxFaults} \subseteq Nat

VARIABLES
    apps, index,          \* state.apps, and the searchIndex built of it
    text,                 \* filters.searchText, None when empty
    loadingAll, errors,
    repos,                \* repositories and their syncStatus
    syncing,              \* the sync operation shown for a repository
    capable,              \* clusters with capabilities
    discovering, stage,
    calls,                \* calls that wait
    removals,             \* timers of COMPLETE_SYNC_OPERATION
    began, faults,
    mixed                 \* history: repositories whose syncs overlapped

catalog == <<apps, index, text, loadingAll, errors>>
sources == <<repos, syncing, capable, removals, mixed>>
progress == <<discovering, stage>>
vars == <<catalog, sources, progress, calls, began, faults>>

Stages == {"idle", "connecting", "discovering-repositories", "discovering-apps",
           "discovering-installations", "completed", "error"}
Kinds == {"fetch", "sync", "installations", "clusters", "repositories", "apps", "releases"}

TypeOK ==
    /\ apps \subseteq Apps /\ index \subseteq Words \X Apps /\ text \in Terms \cup {None}
    /\ loadingAll \in BOOLEAN /\ errors \subseteq Apps \cup {"global"}
    /\ \A r \in Repos : repos[r] \in {None, "synced", "unknown", "failed"}
    /\ \A r \in Repos : syncing[r] \in {None, "running", "full", "failed"}
    /\ capable \subseteq Clusters /\ discovering \in BOOLEAN /\ stage \in Stages
    /\ \A c \in calls : c.kind \in Kinds /\ c.repo \in Repos \cup {None} /\ c.waits \in 0 .. 2
    /\ began \in 0 .. MaxCalls /\ faults \in 0 .. MaxFaults /\ mixed \subseteq Repos

-----------------------------------------------------------------------------
(* Getters: the two searches *)

Includes(word) == text # None /\ word \in Hits[text]

filteredApps == {a \in apps : text = None \/ \E w \in Indexed[a] \cup Short[a] : Includes(w)}
searchResults == {a \in apps : \E w \in Words : Includes(w) /\ <<w, a>> \in index}

-----------------------------------------------------------------------------

BUILD_SEARCH_INDEX(list) == {p \in Words \X list : p[1] \in Indexed[p[2]]}
\* Mutant: the index is not built anew.
SET_APPSWithoutIndex(list) == apps' = list /\ UNCHANGED index

SET_APPS(list) == apps' = list /\ index' = BUILD_SEARCH_INDEX(list)

Call(kind, repo, waits) == [id |-> began + 1, kind |-> kind, repo |-> repo, waits |-> waits]

Begin(kind, repo, waits) ==
    /\ began < MaxCalls /\ began' = began + 1
    /\ calls' = calls \cup {Call(kind, repo, waits)}

GoesOn(c, kind) == calls' = (calls \ {c}) \cup {[c EXCEPT !.kind = kind]}
Ends(c) == calls' = calls \ {c}

fetchAllApps ==
    /\ Begin("fetch", None, 0)
    /\ loadingAll' = TRUE
    /\ UNCHANGED <<apps, index, text, errors, sources, progress, faults>>

AppsAnswered(c) == SET_APPS(Apps) /\ loadingAll' = FALSE

FetchAnswered(c) ==
    /\ c \in calls /\ c.kind = "fetch"
    /\ AppsAnswered(c) /\ Ends(c)
    /\ UNCHANGED <<text, errors, sources, progress, began, faults>>

\* A failed fetch leaves an error that nothing removes but clearCache.
AppsFailed(c) ==
    /\ faults < MaxFaults /\ faults' = faults + 1
    /\ loadingAll' = FALSE /\ errors' = errors \cup {"global"}
    /\ Ends(c)
    /\ UNCHANGED <<apps, index, text, sources, began>>

FetchFailed(c) == c \in calls /\ c.kind = "fetch" /\ AppsFailed(c) /\ UNCHANGED progress

\* There is no source of a single app: it is never found.
fetchApp(a) ==
    /\ errors' = errors \cup {a}
    /\ UNCHANGED <<apps, index, text, loadingAll, sources, progress, calls, began, faults>>

searchApps(t) ==
    /\ text' = t
    /\ UNCHANGED <<apps, index, loadingAll, errors, sources, progress, calls, began, faults>>

\* The flag goes too, whatever is in flight.
clearCache ==
    /\ apps' = {} /\ index' = {} /\ loadingAll' = FALSE /\ errors' = {}
    /\ UNCHANGED <<text, sources, progress, calls, began, faults>>

-----------------------------------------------------------------------------
(* Repositories and clusters *)

SET_REPOSITORIES(list) == repos' = [r \in Repos |-> IF r \in list THEN "synced" ELSE None]

\* None without a cluster; refreshRepositories passes its options as the cluster.
\* addRepository and removeRepository only fetch.
fetchRepositories ==
    /\ \E list \in {{}, BuiltIn} : SET_REPOSITORIES(list)
    /\ UNCHANGED <<catalog, syncing, capable, removals, mixed, progress, calls, began, faults>>

Syncs(r) == (\E c \in calls : c.repo = r) \/ (\E t \in removals : t.repo = r)

syncRepository(r) ==
    /\ Begin("sync", r, 2)
    /\ syncing' = [syncing EXCEPT ![r] = "running"]
    /\ mixed' = IF Syncs(r) THEN mixed \cup {r} ELSE mixed
    /\ UNCHANGED <<catalog, repos, capable, removals, progress, faults>>

\* One second, then two more; progress goes back below 100 if another sync had ended.
SyncWaited(c) ==
    /\ c \in calls /\ c.kind = "sync" /\ c.waits = 2
    /\ calls' = (calls \ {c}) \cup {[c EXCEPT !.waits = 1]}
    /\ syncing' = [syncing EXCEPT ![c.repo] = IF @ = "full" THEN "running" ELSE @]
    /\ UNCHANGED <<catalog, repos, capable, removals, mixed, progress, began, faults>>

SyncEnds(c) ==
    /\ c \in calls /\ c.kind = "sync" /\ c.waits = 1
    /\ Ends(c)
    /\ IF syncing[c.repo] = None THEN UNCHANGED <<syncing, repos, removals>>
       ELSE /\ syncing' = [syncing EXCEPT ![c.repo] = "full"]
            /\ repos' = [repos EXCEPT ![c.repo] = IF @ = None THEN None ELSE "synced"]
            /\ removals' = removals \cup {[id |-> c.id, repo |-> c.repo]}
    /\ UNCHANGED <<catalog, capable, mixed, progress, began, faults>>

\* Three seconds later, whichever sync is shown by then.
RemovalFires(t) ==
    /\ t \in removals /\ removals' = removals \ {t}
    /\ syncing' = [syncing EXCEPT ![t.repo] = None]
    /\ UNCHANGED <<catalog, repos, capable, mixed, progress, calls, began, faults>>

refreshClusterCapabilities(cl) ==
    /\ capable' = capable \cup {cl}
    /\ UNCHANGED <<catalog, repos, syncing, removals, mixed, progress, calls, began, faults>>

-----------------------------------------------------------------------------
(* Discovery *)

SetProgress(flag, s) == discovering' = flag /\ stage' = s

\* The root action: it shares the flag with discoverAllData.
discoverInstallations ==
    /\ Begin("installations", None, 0)
    /\ SetProgress(TRUE, "discovering-installations")
    /\ UNCHANGED <<catalog, sources, faults>>

discoverAllData ==
    /\ Begin("clusters", None, 0)
    /\ SetProgress(TRUE, "connecting")
    /\ UNCHANGED <<catalog, sources, faults>>

\* Each step of discoverAllData runs up to the await of the next.
ClustersFetched(c) ==
    /\ c \in calls /\ c.kind = "clusters"
    /\ GoesOn(c, "repositories") /\ SetProgress(discovering, "discovering-repositories")
    /\ SET_REPOSITORIES({})
    /\ UNCHANGED <<catalog, syncing, capable, removals, mixed, began, faults>>

RepositoriesFetched(c) ==
    /\ c \in calls /\ c.kind = "repositories"
    /\ GoesOn(c, "apps") /\ SetProgress(discovering, "discovering-apps")
    /\ loadingAll' = TRUE
    /\ UNCHANGED <<apps, index, text, errors, sources, began, faults>>

AllAppsFetched(c) ==
    /\ c \in calls /\ c.kind = "apps"
    /\ GoesOn(c, "releases") /\ SetProgress(discovering, "discovering-installations")
    /\ AppsAnswered(c)
    /\ UNCHANGED <<text, errors, sources, began, faults>>

\* FAIL_DISCOVERY.
DiscoveryFailed(c) ==
    /\ c \in calls /\ c.kind = "apps"
    /\ AppsFailed(c)
    /\ SetProgress(FALSE, "error")

\* COMPLETE_DISCOVERY, or the end of the root action.
Discovered(c) ==
    /\ c \in calls /\ c.kind \in {"releases", "installations"}
    /\ Ends(c) /\ SetProgress(FALSE, "completed")
    /\ UNCHANGED <<catalog, sources, began, faults>>

-----------------------------------------------------------------------------

Init ==
    /\ apps = {} /\ index = {} /\ text = None /\ loadingAll = FALSE /\ errors = {}
    /\ repos = [r \in Repos |-> None] /\ syncing = [r \in Repos |-> None]
    /\ capable = {} /\ discovering = FALSE /\ stage = "idle"
    /\ calls = {} /\ removals = {} /\ began = 0 /\ faults = 0 /\ mixed = {}

CallStep(c) ==
    \/ FetchAnswered(c) \/ FetchFailed(c) \/ SyncWaited(c) \/ SyncEnds(c)
    \/ ClustersFetched(c) \/ RepositoriesFetched(c) \/ AllAppsFetched(c)
    \/ DiscoveryFailed(c) \/ Discovered(c)

Next ==
    \/ fetchAllApps \/ clearCache \/ fetchRepositories \/ discoverInstallations \/ discoverAllData
    \/ \E a \in Apps : fetchApp(a)
    \/ \E t \in Terms : searchApps(t)
    \/ \E r \in Repos : syncRepository(r)
    \/ \E cl \in Clusters : refreshClusterCapabilities(cl)
    \/ \E c \in calls : CallStep(c)
    \/ \E t \in removals : RemovalFires(t)

Spec == Init /\ [][Next]_vars

-----------------------------------------------------------------------------
(* Properties *)

\* What searchApps returns by the index is among what the filter shows for the
\* same text, and all of it unless the text only matches short words: the index is
\* never older than the apps, however fetches and clearCache overlap.
SearchesAgree ==
    text # None =>
        /\ searchResults \subseteq filteredApps
        /\ \A a \in filteredApps \ searchResults : Indexed[a] \cap Hits[text] = {}

\* When nothing is in flight no spinner is left on, though calls share the flags
\* and each clears them for all.
QuietWhenIdle ==
    calls = {} => ~loadingAll /\ ~discovering /\ stage \in {"idle", "completed", "error"}

\* A sync is shown while it runs, unless it met another sync of its repository
\* or the timer of one.
SyncShown == \A c \in calls : c.kind = "sync" /\ c.repo \notin mixed => syncing[c.repo] = "running"
=============================================================================
