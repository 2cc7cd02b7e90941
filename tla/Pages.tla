-------------------------------- MODULE Pages --------------------------------
(* One of the two pages is open; they share nothing but Rancher.  The variables *)
(* of the page that is not open are None.                                       *)
EXTENDS Naturals

CONSTANTS
    None, MaxChanges, MaxFaults,
    Instances, Clusters, ClusterOf, KeyOf, MaxLoads,                  \* InstancesPage
    Slugs, Repos, SuseSlugs, SuseRepo, CatalogOf, Here, Deployments, MaxTasks   \* AppsPage

VARIABLES open, loading, changes, faults,
    apps, registered, error, rows, cache, loads, deletes, deleting,
    ready, options, selected, items, repoApps, marks, repoLoading, tasks, deployed, moved

instancesOnly == <<apps, registered, error, rows, cache, loads, deletes, deleting>>
appsOnly == <<ready, options, selected, items, repoApps, marks, repoLoading, tasks, deployed, moved>>
vars == <<open, loading, changes, faults, instancesOnly, appsOnly>>

I == INSTANCE InstancesPage
A == INSTANCE AppsPage

\* None is no value of a variable; a page loads at least once.
NoneIsNone ==
    /\ I!NoneAssumption /\ None \notin I!Load
    /\ None \notin A!Task /\ \A S \in SUBSET Slugs : S # None

ASSUME PagesAssumption ==
    /\ I!PlacesAssumption /\ I!BoundAssumption /\ MaxLoads # 0
    /\ A!CatalogAssumption /\ A!BoundsAssumption /\ MaxTasks # 0
    /\ NoneIsNone

Init ==
    \/ /\ open = "instances" /\ I!Init
       /\ ready = None /\ options = None /\ selected = None /\ items = None /\ repoApps = None
       /\ marks = None /\ repoLoading = None /\ tasks = None /\ deployed = None /\ moved = None
    \/ /\ open = "apps" /\ A!Init
       /\ apps = None /\ registered = None /\ error = None /\ rows = None /\ cache = None
       /\ loads = None /\ deletes = None /\ deleting = None

Next ==
    \/ open = "instances" /\ I!Next /\ UNCHANGED <<open, appsOnly>>
    \/ open = "apps" /\ A!Next /\ UNCHANGED <<open, instancesOnly>>

Spec == Init /\ [][Next]_vars

\* The fairness of InstancesPage, and the same of AppsPage: requests are answered or
\* time out, and nothing is assumed of users.
OnInstances(action) == open = "instances" /\ action /\ UNCHANGED <<open, appsOnly>>
OnApps(action) == open = "apps" /\ action /\ UNCHANGED <<open, instancesOnly>>
Fairness ==
    /\ \A s \in 1 .. MaxLoads : WF_vars(OnInstances(I!LoadStep(s)))
    /\ WF_vars(OnInstances(\E s \in 1 .. MaxLoads : I!SilentRefresh(s)))
    /\ WF_vars(OnInstances(I!CacheExpires))
    /\ \A i \in Instances : WF_vars(OnInstances(I!DeleteStep(i))) /\ WF_vars(OnInstances(I!HelmEnds(i)))
    /\ \A s \in 1 .. MaxTasks : WF_vars(OnApps(A!TaskStep(s)))

FairSpec == Spec /\ Fairness

-----------------------------------------------------------------------------

\* The types of both pages.
TypeOK == (open = "instances" => I!TypeOK) /\ (open = "apps" => A!TypeOK)

\* What the instances page shows in progress is what is.
Indicators == open = "instances" => I!Indicators

\* A repository shows its apps and nothing else, with marks that say what is installed.
CatalogShown == open = "apps" => A!CatalogOfRepo /\ A!SettledCatalog /\ A!SettledMarks

\* Once users rest the instances page shows exactly what is in the clusters, and the
\* spinners of the catalogue stop.
PagesSettle ==
    /\ <>[](open = "instances" => I!UpToDate)
    /\ <>[](open = "apps" => A!Still)
=============================================================================
