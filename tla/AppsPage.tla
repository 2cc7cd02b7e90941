------------------------------ MODULE AppsPage ------------------------------
(***************************************************************************)
(* The catalogue page (pages/Apps.vue): the list of SUSE AI apps or of the *)
(* repository selected, and the marks of what is installed.  A refresh and *)
(* the watcher of the selection are tasks that interleave at every await:  *)
(* they list the repositories, then read index after index, and look each  *)
(* app up in cluster after cluster.  Nothing cancels a task when the       *)
(* selection, the repositories or the clusters change under it.            *)
(***************************************************************************)
EXTENDS Naturals

CONSTANTS
    Slugs,       \* slug_name of the charts
    Repos,       \* ClusterRepos
    SuseSlugs,   \* the static list of SUSE AI apps
    SuseRepo,    \* the repository of their repository_url
    CatalogOf,   \* the charts in the index of each repository
    Clusters,
    Here,        \* currentClusterId, which the page passes on as a slug to look for
    Deployments, \* what may be installed where when the page is opened
    None,
    MaxTasks,    \* bound on the tasks in flight at once
    MaxChanges,  \* bound on what users here and elsewhere do
    MaxFaults    \* bound on the requests that fail

CatalogAssumption ==
    /\ SuseSlugs \subseteq Slugs /\ SuseRepo \in Repos
    /\ CatalogOf \in [Repos -> (SUBSET Slugs) \ {{}}]
    /\ Repos \cap {"default", "all", "suse"} = {}
    /\ Here \notin Slugs /\ Clusters # {}
    /\ Deployments \subseteq [Clusters -> SUBSET (Slugs \cup {Here})]
BoundsAssumption == {MaxTasks, MaxChanges, MaxFaults} \subseteq Nat

VARIABLES
    ready,        \* repositories enabled and downloaded in Rancher
    options,      \* repositories.value
    selected,     \* selectedRepo.value
    items,        \* items.value
    repoApps,     \* allRepositoryApps.value, None where not loaded
    marks,        \* the slugs installedMap.value says are installed
    loading, repoLoading,
    tasks,        \* refreshes and watchers in flight
    deployed,     \* the slugs installed in each cluster
    moved,        \* history: deployed or ready has changed since a selection found no task in flight
    changes, faults

page == <<options, selected, items, repoApps, marks, loading, repoLoading, tasks>>
vars == <<page, ready, deployed, moved, changes, faults>>

\* An app in a list: its slug and where the entry comes from.
Item == [slug : Slugs, from : Repos \cup {"suse"}]
Names == Slugs \cup {Here}

\* lists: the repositories are being listed; asked, got: the indexes to come and those
\* that came; todo: the slugs to look up; now, left, found: the one that is being looked
\* up, the clusters that have not answered yet, and whether one of the others has it.
Task == [kind : {"refresh", "watch"}, step : {"fetch", "discover", "over"},
         target : Repos \cup {"default", "all"}, lists : BOOLEAN,
         asked : SUBSET Repos, got : SUBSET Repos, todo : SUBSET Slugs,
         now : Slugs \cup {None}, left : SUBSET Clusters, found : BOOLEAN]
Slots == 1 .. MaxTasks

TypeOK ==
    /\ ready \subseteq Repos /\ options \subseteq Repos
    /\ selected \in Repos \cup {"default", "all"}
    /\ items \subseteq Item
    /\ repoApps \in [Repos -> (SUBSET Slugs) \cup {None}]
    /\ marks \subseteq Slugs /\ deployed \in [Clusters -> SUBSET Names]
    /\ moved \in BOOLEAN /\ loading \in BOOLEAN /\ repoLoading \in BOOLEAN
    /\ tasks \in [Slots -> Task \cup {None}]
    /\ changes \in 0 .. MaxChanges /\ faults \in 0 .. MaxFaults

From(src, slugs) == {[slug |-> g, from |-> src] : g \in slugs}
SlugsOf(list) == {item.slug : item \in list}

SuseItems == From("suse", SuseSlugs)
Loaded(r) == repoApps[r] # None
RepoItems(r) == IF Loaded(r) THEN From(r, repoApps[r]) ELSE {}

\* One entry of each slug: which repository's depends on the order of the answers.
Merges(list) ==
    {m \in SUBSET list : /\ SlugsOf(m) = SlugsOf(list)
                         /\ \A x, y \in m : x.slug = y.slug => x = y}

\* In "all" the items come first.
Selection ==
    CASE selected = "default" -> items
      [] selected = "all" ->
            items \cup {x \in UNION {RepoItems(r) : r \in Repos} : x.slug \notin SlugsOf(items)}
      [] OTHER -> RepoItems(selected)

\* Without search text; the box "Installed" leaves what is marked.
filteredApps(installedOnly) == {x \in Selection : installedOnly => x.slug \in marks}
Shown == filteredApps(FALSE)

\* The repository that a click on a tile passes on, looked up by URL for the
\* static list; an app of the combined list passes none.
TileRepo(item) ==
    CASE item.from = "suse" -> IF SuseRepo \in ready THEN SuseRepo ELSE None
      [] item.from # "suse" /\ selected \in Repos -> selected
      [] OTHER -> None

\* discoverExistingInstall finds a release or chart named like the app, or like the
\* current cluster: Apps.vue passes the cluster's name where the slug is expected.
FoundIn(g, c) == deployed[c] \cap {g, Here} # {}
Installed(g) == \E c \in Clusters : FoundIn(g, c)

Settled == \A s \in Slots : tasks[s] = None

-----------------------------------------------------------------------------
(* Tasks *)

Start(s, task) == tasks[s] = None /\ tasks' = [tasks EXCEPT ![s] = task]

\* loadInstallationStates goes through the items of the moment it begins.
Discovering(task, list) == [task EXCEPT !.step = "discover", !.todo = SlugsOf(list)]
Fetching(kind, target) ==
    [kind |-> kind, step |-> "fetch", target |-> target, lists |-> kind = "refresh" \/ target = "all",
     asked |-> {}, got |-> {}, todo |-> {}, now |-> None, left |-> {}, found |-> FALSE]

\* fetchSuseAiApps answers from the static list at once.
Refresh(s) ==
    /\ ~loading /\ changes < MaxChanges
    /\ loading' = TRUE
    /\ items' = SuseItems
    /\ Start(s, Fetching("refresh", "default"))
    /\ changes' = changes + 1
    /\ UNCHANGED <<ready, options, selected, repoApps, marks, repoLoading, deployed, moved, faults>>

\* The store's fetchAllApps comes between the list and the marks.
StoreAnswered(s) ==
    /\ tasks[s] # None /\ tasks[s].kind = "refresh" /\ tasks[s].step = "fetch"
    /\ tasks' = [tasks EXCEPT ![s] = Discovering(@, items)]
    /\ UNCHANGED <<ready, options, selected, items, repoApps, marks, loading, repoLoading, deployed, moved, changes, faults>>

StoreFailed(s) ==
    /\ tasks[s] # None /\ tasks[s].kind = "refresh" /\ tasks[s].step = "fetch"
    /\ faults < MaxFaults /\ faults' = faults + 1
    /\ tasks' = [tasks EXCEPT ![s] = IF @.lists THEN [@ EXCEPT !.step = "over"] ELSE None]
    /\ loading' = FALSE
    /\ UNCHANGED <<ready, options, selected, items, repoApps, marks, repoLoading, deployed, moved, changes>>

\* fetchClusterRepositories: those ready, or none when it fails.
RepositoriesAnswered(s) ==
    /\ tasks[s] # None /\ tasks[s].lists /\ tasks[s].kind = "refresh"
    /\ tasks' = [tasks EXCEPT ![s] = IF @.step = "over" THEN None ELSE [@ EXCEPT !.lists = FALSE]]
    /\ \/ options' = ready /\ UNCHANGED faults
       \/ options' = {} /\ faults < MaxFaults /\ faults' = faults + 1
    /\ UNCHANGED <<ready, selected, items, repoApps, marks, loading, repoLoading, deployed, moved, changes>>

\* Mutant: the marks of the last selection stay.
KeptMarks == marks
ClearedMarks == {}

\* The watcher of selectedRepo clears the marks and loads what is not loaded yet;
\* all repositories are loaded anew each time.
Select(s, target) ==
    /\ target # selected /\ target \in options \cup {"default", "all"} /\ changes < MaxChanges
    /\ selected' = target
    /\ marks' = ClearedMarks
    /\ moved' = (moved /\ ~Settled)
    /\ \/ /\ target = "default"
          /\ items' = SuseItems
          /\ Start(s, Discovering(Fetching("watch", target), SuseItems))
          /\ UNCHANGED repoLoading
       \/ /\ target \in Repos /\ Loaded(target)
          /\ items' = RepoItems(target)
          /\ Start(s, Discovering(Fetching("watch", target), RepoItems(target)))
          /\ UNCHANGED repoLoading
       \/ /\ target = "all" \/ (target \in Repos /\ ~Loaded(target))
          /\ repoLoading' = TRUE
          /\ Start(s, Fetching("watch", target))
          /\ UNCHANGED items
    /\ changes' = changes + 1
    /\ UNCHANGED <<ready, options, repoApps, loading, deployed, faults>>

Stored(r, apps) == [repoApps EXCEPT ![r] = apps]

\* fetchAppsFromRepository: a failure is an empty list, and kept as such.
RepoAnswered(s) ==
    /\ tasks[s] # None /\ tasks[s].step = "fetch" /\ tasks[s].target \in Repos
    /\ LET r == tasks[s].target
       IN \E apps \in {CatalogOf[r], {}} :
            /\ \/ apps # {} /\ UNCHANGED faults
               \/ apps = {} /\ faults < MaxFaults /\ faults' = faults + 1
            /\ repoApps' = Stored(r, apps)
            /\ items' = From(r, apps)
            /\ tasks' = [tasks EXCEPT ![s] = Discovering(@, From(r, apps))]
    /\ UNCHANGED <<ready, options, selected, marks, loading, repoLoading, deployed, moved, changes>>

\* fetchAllRepositoryApps lists the repositories, and asks each for its index.
AllListed(s) ==
    /\ tasks[s] # None /\ tasks[s].lists /\ tasks[s].target = "all"
    /\ \E listed \in {ready, {}} :
         /\ \/ listed = ready /\ UNCHANGED faults
            \/ listed = {} /\ faults < MaxFaults /\ faults' = faults + 1
         /\ tasks' = [tasks EXCEPT ![s].lists = FALSE, ![s].asked = listed]
    /\ UNCHANGED <<ready, options, selected, items, repoApps, marks, loading, repoLoading, deployed, moved, changes>>

IndexAnswered(s) ==
    /\ tasks[s] # None /\ tasks[s].target = "all"
    /\ \E r \in tasks[s].asked :
         \/ /\ tasks' = [tasks EXCEPT ![s].asked = @ \ {r}, ![s].got = @ \cup {r}]
            /\ UNCHANGED faults
         \/ /\ tasks' = [tasks EXCEPT ![s].asked = @ \ {r}]
            /\ faults < MaxFaults /\ faults' = faults + 1
    /\ UNCHANGED <<ready, options, selected, items, repoApps, marks, loading, repoLoading, deployed, moved, changes>>

\* All have answered: what failed is left out, and the table is replaced.
AllAnswered(s) ==
    /\ tasks[s] # None /\ tasks[s].step = "fetch" /\ tasks[s].target = "all"
    /\ ~tasks[s].lists /\ tasks[s].asked = {}
    /\ repoApps' = [r \in Repos |-> IF r \in tasks[s].got THEN CatalogOf[r] ELSE None]
    /\ \E m \in Merges(UNION {From(r, CatalogOf[r]) : r \in tasks[s].got}) :
         /\ items' = m
         /\ tasks' = [tasks EXCEPT ![s] = Discovering(@, m)]
    /\ UNCHANGED <<ready, options, selected, marks, loading, repoLoading, deployed, moved, changes, faults>>

\* The next cluster in the order of getClusters, which is the same for every task.
NextOf(left) == CHOOSE c \in left : TRUE

\* discoverExistingInstall goes through the clusters for one app after the other.  A
\* cluster that fails has nothing; the answer of the last decides whether to mark the app.
Discover(s) ==
    /\ tasks[s] # None /\ tasks[s].step = "discover"
    /\ LET task  == tasks[s]
           first == task.now = None
           left  == IF first THEN Clusters ELSE task.left
           c     == NextOf(left)
       IN
       \E g \in (IF first THEN task.todo ELSE {task.now}), hit \in BOOLEAN :
         LET found == (~first /\ task.found) \/ hit IN
         /\ \/ hit = FoundIn(g, c) /\ UNCHANGED faults
            \/ ~hit /\ faults < MaxFaults /\ faults' = faults + 1
         /\ IF left \ {c} # {}
            THEN /\ tasks' = [tasks EXCEPT ![s] = [task EXCEPT !.now = g, !.left = left \ {c}, !.found = found]]
                 /\ UNCHANGED marks
            ELSE /\ tasks' = [tasks EXCEPT ![s] = [task EXCEPT !.todo = @ \ {g}, !.now = None,
                                                             !.left = {}, !.found = FALSE]]
                 /\ marks' = IF found THEN marks \cup {g} ELSE marks
    /\ UNCHANGED <<ready, options, selected, items, repoApps, loading, repoLoading, deployed, moved, changes>>

\* Every watcher that ends clears repoLoading, whoever set it.
TaskEnds(s) ==
    /\ tasks[s] # None /\ tasks[s].step = "discover" /\ tasks[s].todo = {} /\ ~tasks[s].lists
    /\ tasks' = [tasks EXCEPT ![s] = None]
    /\ loading' = (IF tasks[s].kind = "refresh" THEN FALSE ELSE loading)
    /\ repoLoading' = (IF tasks[s].kind = "watch" THEN FALSE ELSE repoLoading)
    /\ UNCHANGED <<ready, options, selected, items, repoApps, marks, deployed, moved, changes, faults>>

Toggled(x, set) == IF x \in set THEN set \ {x} ELSE set \cup {x}

\* Installed or uninstalled from elsewhere.
Deployment(c, name) ==
    /\ changes < MaxChanges /\ changes' = changes + 1
    /\ deployed' = [deployed EXCEPT ![c] = Toggled(name, @)] /\ moved' = TRUE
    /\ UNCHANGED <<page, ready, faults>>

\* A repository is added, enabled, downloaded, or none of it any more.
RepoChanges(r) ==
    /\ changes < MaxChanges /\ changes' = changes + 1
    /\ ready' = Toggled(r, ready) /\ moved' = TRUE
    /\ UNCHANGED <<page, deployed, faults>>

-----------------------------------------------------------------------------

\* Mounted, the page refreshes.
Init ==
    /\ ready \in SUBSET Repos /\ options = {}
    /\ selected = "default" /\ items = SuseItems
    /\ repoApps = [r \in Repos |-> None]
    /\ marks = {} /\ deployed \in Deployments /\ moved = FALSE
    /\ loading = TRUE /\ repoLoading = FALSE
    /\ tasks = [s \in Slots |-> IF s = 1 THEN Fetching("refresh", "default") ELSE None]
    /\ changes = 0 /\ faults = 0

TaskStep(s) == \/ StoreAnswered(s) \/ StoreFailed(s) \/ RepositoriesAnswered(s)
               \/ RepoAnswered(s) \/ AllListed(s) \/ IndexAnswered(s) \/ AllAnswered(s)
               \/ Discover(s) \/ TaskEnds(s)

Next ==
    \/ \E s \in Slots : \/ Refresh(s) \/ TaskStep(s)
                        \/ \E target \in Repos \cup {"default", "all"} : Select(s, target)
    \/ \E c \in Clusters, name \in Names : Deployment(c, name)
    \/ \E r \in Repos : RepoChanges(r)

Spec == Init /\ [][Next]_vars

-----------------------------------------------------------------------------
(* Properties *)

\* With one repository selected only its own apps are shown, and a click passes
\* that repository on, whichever tasks of earlier selections end meanwhile and
\* overwrite the list of items.
CatalogOfRepo ==
    selected \in Repos =>
        /\ Shown \subseteq From(selected, CatalogOf[selected])
        /\ \A item \in Shown : TileRepo(item) = selected

\* When nothing failed and every task has ended, a repository that is ready shows
\* its whole index and "all" every repository's, although a load of all of them
\* replaces the table that loads of single ones fill: if no repository has come or
\* gone since a selection that found no task in flight.  A task that a change meets
\* on its way may bring the older picture after the newer one.
SettledCatalog ==
    Settled /\ faults = 0 /\ ~moved =>
        /\ selected \in ready => Shown = From(selected, CatalogOf[selected])
        /\ selected = "all" => UNION {CatalogOf[r] : r \in ready} \subseteq SlugsOf(Shown)

\* When nothing failed and every task has ended, the box "Installed" leaves exactly
\* what is installed in some cluster, and everything if a release is named like the
\* current cluster: if that has not changed since a selection that found no task in
\* flight (a refresh adds marks and removes none, and a task goes on marking what it
\* has found after a selection cleared the marks).
SettledMarks ==
    Settled /\ faults = 0 /\ ~moved =>
        filteredApps(TRUE) = {x \in Shown : Installed(x.slug)}

\* The spinners stop once users rest, though tasks overlap and share them.
Still == ~loading /\ ~repoLoading
=============================================================================
