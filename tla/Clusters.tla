------------------------------- MODULE Clusters -------------------------------
(***************************************************************************)
(* Clusters and what they can carry: services/cluster-resources.ts, the    *)
(* selection of pages/components/ClusterResourceTable.vue, the predicates  *)
(* of utils/cluster-operations.ts and models/cluster/cluster-resource.ts.  *)
(* CPU is in thousandths of a core and memory in Mi until it is rounded;   *)
(* a summary has tenths of a core and GB.  A quantity is an amount and the *)
(* unit it is written with.                                                *)
(***************************************************************************)
EXTENDS SequencesExt, Lists

CONSTANTS None

-----------------------------------------------------------------------------
(* What an application needs *)

APP_RESOURCE_PROFILES ==
    LET Needs(cpu, memory, gpu, storage) ==
            [cpu |-> cpu, memory |-> memory, gpu |-> gpu, storage |-> storage]
    IN  [ollama |-> Needs(4, 16, 8, 100), pytorch |-> Needs(4, 16, 8, 100),
         openwebui |-> Needs(2, 4, 0, 10), mcpo |-> Needs(2, 4, 0, 2),
         pipelines |-> Needs(2, 4, 0, 2), milvus |-> Needs(4, 8, 0, 100),
         deployer |-> Needs(4, 16, 12, 100), observability |-> Needs(1, 2, 0, 2),
         vllm |-> Needs(4, 16, 12, 100), qdrant |-> Needs(2, 4, 0, 10),
         litellm |-> Needs(4, 8, 0, 10)]
Known == DOMAIN APP_RESOURCE_PROFILES
getDefaultAppResourceRequirements == [cpu |-> 1, memory |-> 2, gpu |-> 0, storage |-> 10]
AppRequirements(slug) ==
    IF slug \in Known THEN APP_RESOURCE_PROFILES[slug] ELSE getDefaultAppResourceRequirements

-----------------------------------------------------------------------------
(* What a cluster has: node = [allocatable, capacity, usage, gpu], where    *)
(* allocatable, capacity and usage are None or [cpu, memory : quantity] and *)
(* gpu is None or [count, kind]                                             *)

MiPer == [Gi |-> 1024, Mi |-> 1, G |-> 1024, M |-> 1]

\* What ends in another unit is read as bytes: "1Ti" is next to nothing.
parseK8sMemory(q) ==
    IF q.unit \in {"Ki", "K"} THEN q.amount \div 1024
    ELSE IF q.unit \in DOMAIN MiPer THEN q.amount * MiPer[q.unit] ELSE 0

\* parseFloat stops at the unit: "3920m" is 3920 cores.
CpuTotal(q) == q.amount * 1000
\* Usage is taken for nanocores; the amounts here are millions of them.
CpuUsed(q) == IF q.unit = "n" THEN q.amount ELSE 0

estimateGpuMemory(gpu) ==
    IF gpu = None THEN 0
    ELSE gpu.count * (CASE gpu.kind \in {"a100", "a40"} -> 40
                        [] gpu.kind \in {"v100", "t4"} -> 16
                        [] gpu.kind \in {"rtx", "4090", "3090"} -> 24
                        [] OTHER -> 8)

ResourceData(node) == IF node.allocatable # None THEN node.allocatable ELSE node.capacity

\* What the nodes have together; amounts has an amount for each.
Over(amounts) == FoldLeft(LAMBDA sum, amount : sum + amount, 0, amounts)
Rounded(amount, unit) == (amount + unit \div 2) \div unit

ErrorSummary(classes) ==
    [cpu |-> [used |-> 0, total |-> 0], memory |-> [used |-> 0, total |-> 0], gpu |-> 0,
     classes |-> classes, status |-> "error"]

\* One summary of the nodes, the metrics and the storage classes; a request that
\* failed has given an empty list.
getClusterResourceMetrics(nodes, classes) ==
    IF nodes = <<>> THEN ErrorSummary(classes)
    ELSE LET data == [n \in DOMAIN nodes |-> ResourceData(nodes[n])]
             usage == [n \in DOMAIN nodes |-> nodes[n].usage]
             usedCpu == [n \in DOMAIN nodes |-> IF usage[n] = None THEN 0 ELSE CpuUsed(usage[n].cpu)]
             usedMemory == [n \in DOMAIN nodes |-> IF usage[n] = None THEN 0 ELSE parseK8sMemory(usage[n].memory)]
         IN [cpu |-> [used |-> Rounded(Over(usedCpu), 100),
                      total |-> Rounded(Over([n \in DOMAIN nodes |-> CpuTotal(data[n].cpu)]), 100)],
             memory |-> [used |-> Rounded(Over(usedMemory), 1024),
                         total |-> Rounded(Over([n \in DOMAIN nodes |-> parseK8sMemory(data[n].memory)]), 1024)],
             gpu |-> Over([n \in DOMAIN nodes |-> estimateGpuMemory(nodes[n].gpu)]),
             classes |-> classes, status |-> "compatible"]

-----------------------------------------------------------------------------
(* Compatibility *)

Unmet(needs, has) ==
    {r \in {"cpu", "memory", "gpu", "storage"} :
        CASE r = "cpu" -> has.cpu.total - has.cpu.used < 10 * needs.cpu
          [] r = "memory" -> has.memory.total - has.memory.used < needs.memory
          [] r = "gpu" -> has.gpu < needs.gpu
          [] r = "storage" -> needs.storage > 0 /\ ~has.classes}

\* Mutant: only the CPU is looked at.
LowHeadroomOfCpu(needs, has) ==
    IF has.cpu.total > 0 /\ 5 * (has.cpu.total - has.cpu.used - 10 * needs.cpu) < has.cpu.total THEN {"cpu"} ELSE {}

\* Less than a fifth of the total would be left.
LowHeadroom(needs, has) ==
    LET low(r, need) == r.total > 0 /\ 5 * (r.total - r.used - need) < r.total
    IN  (IF low(has.cpu, 10 * needs.cpu) THEN {"cpu"} ELSE {})
            \cup (IF low(has.memory, needs.memory) THEN {"memory"} ELSE {})

checkAppCompatibility(needs, estimated, has) ==
    LET warnings == LowHeadroom(needs, has) \cup (IF estimated THEN {"estimated"} ELSE {})
    IN  IF has.status = "error" \/ (has.cpu.total = 0 /\ has.memory.total = 0) THEN "error"
        ELSE IF Unmet(needs, has) # {} THEN "insufficient"
        ELSE IF warnings = {} \/ (estimated /\ Cardinality(warnings) = 1) THEN "compatible"
        ELSE "limited"

-----------------------------------------------------------------------------
(* The selection of the table: rows is a function from cluster ids to      *)
(* statuses, selected a set of ids (of this list or of an earlier one)     *)

compatibleClusters(rows) == {c \in DOMAIN rows : rows[c] \in {"compatible", "limited"}}
allCompatibleSelected(rows, selected) ==
    compatibleClusters(rows) # {} /\ compatibleClusters(rows) \subseteq selected
someButNotAllSelected(rows, selected) ==
    LET chosen == compatibleClusters(rows) \cap selected
    IN  chosen # {} /\ chosen # compatibleClusters(rows)
hasIncompatibleSelections(rows, selected) ==
    \E c \in selected \cap DOMAIN rows : rows[c] \in {"insufficient", "error"}

\* A radio button, in the table of one cluster.
selectSingleCluster(selected, id) == {id}
toggleCluster(selected, id) == (selected \cup {id}) \ (selected \cap {id})
toggleSelectAllCompatible(rows, selected) ==
    IF allCompatibleSelected(rows, selected) THEN selected \ compatibleClusters(rows)
    ELSE selected \cup compatibleClusters(rows)

\* The colour of a resource's bar.
getResourceBarClass(used, total) ==
    IF total = 0 THEN "low" ELSE IF 100 * used >= 90 * total THEN "critical"
    ELSE IF 100 * used >= 70 * total THEN "high" ELSE "low"

\* What stands below the table of what is selected: the row's own message, or a chip for
\* each and the warning.
SelectedInfo(rows, selected, multiSelect) ==
    IF multiSelect
    THEN [warned |-> hasIncompatibleSelections(rows, selected),
          classes |-> {IF c \in DOMAIN rows THEN rows[c] ELSE "unlisted" : c \in selected}]
    ELSE IF Cardinality(selected) = 1 /\ selected \subseteq DOMAIN rows
    THEN LET status == rows[CHOOSE c \in selected : TRUE]
         IN  [warned |-> status # "compatible", classes |-> {status}]
    ELSE [warned |-> FALSE, classes |-> {}]

\* The load selects the first row, whatever its status, when nothing is selected.
loadClusterResources(first, rows, selected) ==
    IF selected = {} /\ rows # <<>> THEN {first} ELSE selected

\* The select box of one cluster does it when there is no other.
ClusterSelectMounted(options, selected) ==
    IF Cardinality(options) = 1 /\ selected = None THEN CHOOSE o \in options : TRUE ELSE selected

-----------------------------------------------------------------------------
(* cluster-operations.ts: cluster = [ready, connection, version, provider,  *)
(* labels, text, checked], capabilities a set                               *)

isClusterReady(c) == c.ready /\ c.connection = "connected" /\ c.version # "Unknown"

validateClusterForAppInstall(c, able) ==
    (IF isClusterReady(c) THEN {} ELSE {"ready"})
        \cup ({"canInstallApps", "hasHelmSupport", "canManageNamespaces"} \ able)

filterClusters(clusters, f) ==
    Filtered(clusters, LAMBDA c :
        /\ f.ready # None => c.ready = f.ready
        /\ f.connections # None => c.connection \in f.connections
        /\ f.providers # {} => c.provider \in f.providers
        /\ f.text # None => f.text \in c.text)

\* Nothing is asked of the cluster yet.
getClusterCapabilities ==
    {"canInstallApps", "canManageNamespaces", "canAccessSecrets", "hasHelmSupport", "hasRancherAppsSupport"}

\* Of the four core components those that fail their check are unhealthy, each with a
\* critical issue.
checkClusterHealth(failing, components) ==
    [overall |-> IF failing = {} THEN "healthy"
                 ELSE IF 2 * Cardinality(components \ failing) >= Cardinality(components) THEN "degraded"
                 ELSE "unhealthy",
     issues |-> failing]

\* By readiness; the sort is stable, and "desc" turns the comparison round.
sortClusters(clusters, descending) ==
    LET ready(c) == c.ready
        waits(c) == ~c.ready
    IN  IF descending THEN Filtered(clusters, waits) \o Filtered(clusters, ready)
        ELSE Filtered(clusters, ready) \o Filtered(clusters, waits)

HasIssue(c) == ~c.ready \/ c.connection = "error"
getClusterStatusSummary(clusters) ==
    LET count(Has(_)) == Len(Filtered(clusters, Has))
    IN  [total |-> Len(clusters),
         ready |-> count(LAMBDA c : c.ready),
         connected |-> count(LAMBDA c : c.connection = "connected"),
         hasIssues |-> count(HasIssue)]

\* checked is None, "today" or "before": a cluster never checked is not due.
clusterNeedsAttention(c, health) ==
    ~c.ready \/ c.connection # "connected" \/ health \in {"unhealthy", "degraded"}
        \/ c.checked = "before"

\* With a repository: the first cluster that has it, or an object of nulls; without,
\* the local one or else the first.
getClusterContext(clusters, repos, repoName) ==
    IF clusters = None THEN [clusterId |-> None]
    ELSE IF clusters = <<>> THEN [clusterId |-> "local"]
    ELSE IF repoName = None
         THEN [clusterId |-> IF Contains(clusters, "local") THEN "local" ELSE Head(clusters)]
    ELSE LET holds == FirstOf(clusters, LAMBDA c : repoName \in repos[c])
         IN  [clusterId |-> IF holds = 0 THEN None ELSE clusters[holds]]

-----------------------------------------------------------------------------
(* ClusterResource: r = [state, transitioning, ready, able, apps, id] *)

isReady(r) == r.ready /\ r.state # "error"
hasError(r) == r.state = "error" \/ ~r.ready
stateColor(r) ==
    IF r.state = "error" THEN "error" ELSE IF r.transitioning THEN "info"
    ELSE IF ~r.ready THEN "warning" ELSE "success"
\* A capability nobody stated is taken from the readiness.
CapabilityOf(r) == IF r.able = None THEN isReady(r) ELSE r.able
availableActions(r) ==
    {"view-cluster"}
        \cup (IF CapabilityOf(r) THEN {"browse-apps", "manage-namespaces"} ELSE {})
        \cup (IF r.apps > 0 THEN {"view-apps"} ELSE {})
        \cup (IF r.id # "local" THEN {"download-kubeconfig"} ELSE {})

-----------------------------------------------------------------------------
(* Laws *)

\* The quantities the code reads as they are meant.
Exact(node) ==
    /\ ResourceData(node).cpu.unit = "" /\ ResourceData(node).memory.unit \in {"Ki", "Mi", "Gi"}
    /\ node.usage # None => node.usage.cpu.unit = "n" /\ node.usage.memory.unit \in {"Ki", "Mi", "Gi"}

\* Thousandths of a core, and Mi, that are really free.
Free(nodes) ==
    LET milli(q) == q.amount * (IF q.unit = "" THEN 1000 ELSE 1)
        mi(q) == IF q.unit = "Ti" THEN q.amount * 1048576 ELSE parseK8sMemory(q)
        cpu(n) == milli(ResourceData(n).cpu) - (IF n.usage = None THEN 0 ELSE milli(n.usage.cpu))
        memory(n) == mi(ResourceData(n).memory) - (IF n.usage = None THEN 0 ELSE mi(n.usage.memory))
    IN  [cpu |-> Over([n \in DOMAIN nodes |-> cpu(nodes[n])]), memory |-> Over([n \in DOMAIN nodes |-> memory(nodes[n])])]

\* A cluster shown as compatible has what the application needs, but for what is lost in
\* rounding, a tenth of a core and one GB, when its quantities have the units the code
\* reads (with "3920m" or "1Ti" they have not, and it may be wrong either way).
CompatibleFits(nodes, classes, slug) ==
    LET needs == AppRequirements(slug)
        status == checkAppCompatibility(needs, slug \notin Known, getClusterResourceMetrics(nodes, classes))
    IN  status \in {"compatible", "limited"} /\ (\A n \in DOMAIN nodes : Exact(nodes[n])) =>
            /\ Free(nodes).cpu + 100 >= 1000 * needs.cpu
            /\ Free(nodes).memory + 1024 >= 1024 * needs.memory
            /\ needs.storage > 0 => classes

\* What is estimated is not told apart: an unknown application gets the status that a
\* known one with the same needs gets.
EstimateSpeaksAlike(needs, has) ==
    checkAppCompatibility(needs, TRUE, has) = checkAppCompatibility(needs, FALSE, has)

\* Select-all brings the box to all or none, leaves the other rows alone, so also what
\* the warning says, and a second click undoes a first from all or none.
SelectAllSettles(rows, selected) ==
    LET after == toggleSelectAllCompatible(rows, selected)
    IN  /\ ~someButNotAllSelected(rows, after)
        /\ after \ compatibleClusters(rows) = selected \ compatibleClusters(rows)
        /\ hasIncompatibleSelections(rows, after) = hasIncompatibleSelections(rows, selected)
        /\ ~someButNotAllSelected(rows, selected) => toggleSelectAllCompatible(rows, after) = selected
        /\ \A c \in DOMAIN rows : toggleCluster(toggleCluster(selected, c), c) = selected

\* A cluster whose row says compatible has no bar that says critical.
BarsFit(needs, estimated, has) ==
    checkAppCompatibility(needs, estimated, has) = "compatible" =>
        \A r \in {has.cpu, has.memory} : getResourceBarClass(r.used, r.total) # "critical"

\* One that is listed as unfit is not selected without a warning, in either kind of table;
\* of one that is no longer listed, after another load, nothing is said.
UnfitWarned(rows, selected, id) ==
    /\ id \in DOMAIN rows /\ rows[id] \in {"insufficient", "error"} =>
          /\ SelectedInfo(rows, selectSingleCluster(selected, id), FALSE).warned
          /\ SelectedInfo(rows, selected \cup {id}, TRUE).warned
    /\ SelectedInfo(rows, selected, TRUE).warned => selected \cap DOMAIN rows # {}

\* What may be installed on is ready, what is ready counts no issue, and what counts an
\* issue needs attention (not the reverse: a disconnected cluster that is ready).  So does
\* one with a critical issue of a component.  With the capabilities that are stated for
\* every cluster readiness decides alone.
ReadinessNested(c, able, health) ==
    /\ validateClusterForAppInstall(c, getClusterCapabilities) = {} <=> isClusterReady(c)
    /\ \A failing \in SUBSET {"api-server", "etcd", "controller-manager", "scheduler"} :
          LET found == checkClusterHealth(failing, {"api-server", "etcd", "controller-manager", "scheduler"})
          IN  found.issues # {} => clusterNeedsAttention(c, found.overall)
    /\ validateClusterForAppInstall(c, able) = {} => isClusterReady(c)
    /\ isClusterReady(c) => ~HasIssue(c)
    /\ HasIssue(c) => clusterNeedsAttention(c, health)

\* Filters may be applied one after the other, sorting loses and adds no cluster, and the
\* summary adds up: what is not ready is an issue.
ListsKept(clusters, f, g) ==
    /\ filterClusters(filterClusters(clusters, f), g) = filterClusters(filterClusters(clusters, g), f)
    /\ \A down \in BOOLEAN :
          LET sorted == sortClusters(clusters, down)
          IN  Len(sorted) = Len(clusters) /\ ToSet(sorted) = ToSet(clusters)
    /\ LET s == getClusterStatusSummary(clusters)
       IN  s.total <= s.ready + s.hasIssues

\* A cluster resource with an error is not shown in green, and applications may be browsed
\* on it only when its capabilities say so.
ErrorsShown(r) ==
    /\ hasError(r) = ~isReady(r)
    /\ stateColor(r) = "success" => isReady(r)
    /\ hasError(r) /\ r.able = None => "browse-apps" \notin availableActions(r)
===============================================================================
