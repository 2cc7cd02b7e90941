--------------------------------- MODULE Laws ---------------------------------
(***************************************************************************)
(* The laws of the functions without state: of AppStatus, Errors, Versions, *)
(* Clusters, ChartSources, WizardOpening, Validation, StoreViews and        *)
(* ExtensionApi.  input is what a function is called with, and stays so; it *)
(* is one of Inputs, a record whose kind says which laws are about it.      *)
(***************************************************************************)
EXTENDS Integers, Sequences, FiniteSets

CONSTANTS
    None,
    Versions,   \* the versions that a version may stand before
    Inputs

VARIABLE input

S == INSTANCE AppStatus
C == INSTANCE Clusters
W == INSTANCE WizardOpening
E == INSTANCE Errors
G == INSTANCE StoreViews
D == INSTANCE Validation
X == INSTANCE ExtensionApi

Init == input \in Inputs

-----------------------------------------------------------------------------
(* What inputs are like: what the code's types say of them, and what the    *)
(* models write them as.                                                    *)

IsFunction(f) == f = [x \in DOMAIN f |-> f[x]]
IsList(list) == Len(list) \in Nat /\ list = [n \in 1 .. Len(list) |-> list[n]]

\* Three numbers, perhaps a candidate's, and what a version packages, whose first number is
\* written with one digit or two.
Numbers == [1 .. 3 -> Nat]
Version == [core : Numbers, pre : {None, "rc"}, up : {None} \cup {n \in Numbers : n[1] < 100}]
Plain == {v \in Version : v.pre = None /\ v.up = None}
VersionsTyped(list) == IsList(list) /\ \A n \in DOMAIN list : list[n] \in Version

VersionTyped(i) ==
    /\ i.kind = "pair" => i.a \in Version /\ i.b \in Version
    /\ i.kind = "list" =>
          VersionsTyped(i.list) /\ i.base \in Plain
    /\ i.kind = "feature" => i.cluster # None
    /\ i.kind = "release" => i.able # None

StatusTyped(i) ==
    /\ i.kind = "phases" => i.list \in Seq(S!Phases)
    /\ i.kind = "apps" => i.list \in Seq(S!Moving \cup {"available", "deployed", "failed", "unknown"})
    /\ i.kind = "health" =>
          i.ready \in Nat /\ i.total \in Nat /\ i.errors \in BOOLEAN /\ i.critical \in BOOLEAN
    /\ i.kind = "one" =>
          i \in [kind : {"one"}, phase : S!Phases, error : BOOLEAN, ready : Seq(BOOLEAN), after : Seq(BOOLEAN)]

\* The status of an answer is a number.
ErrorTyped(i) ==
    /\ i.kind = "error" =>
          {i.error.code, i.error.status, i.error.response} \subseteq Int \cup {None} /\ i.error.response # E!Text
    /\ i.kind = "results" => i.results # <<>> /\ IsList(i.results)

\* A node says what can be allocated or what it has, and what it uses if there are metrics.
Quantities == [cpu : [amount : Nat, unit : STRING], memory : [amount : Nat, unit : STRING]]
NodeTyped(node) ==
    /\ node.capacity \in Quantities /\ {node.allocatable, node.usage} \subseteq {None} \cup Quantities

\* What is used and what there is are not negative.
ClusterTyped(i) ==
    /\ i.kind = "nodes" => IsList(i.nodes) /\ \A n \in DOMAIN i.nodes : NodeTyped(i.nodes[n])
    /\ i.kind = "clusters" => i.one.ready \in BOOLEAN /\ i.two.ready \in BOOLEAN
    /\ i.kind = "summary" => \A r \in {i.has.cpu, i.has.memory} : r.used \in Nat /\ r.total \in Nat
    /\ i.kind = "cluster" => i.cluster.ready \in BOOLEAN
    /\ i.kind = "resource" => i.ready \in BOOLEAN /\ i.transitioning \in BOOLEAN

\* An object of the store has finitely many keys.
StateTyped(s) ==
    /\ s = [recs |-> s.recs, selected |-> s.selected, apps |-> s.apps, byApp |-> s.byApp, byCluster |-> s.byCluster]
    /\ IsFiniteSet(DOMAIN s.recs) /\ IsFiniteSet(DOMAIN s.apps) /\ IsFiniteSet(DOMAIN s.byCluster)
    /\ s.apps \in [DOMAIN s.apps -> [installed : BOOLEAN, updates : BOOLEAN, running : BOOLEAN, failed : BOOLEAN]]
Mutations == {"set ready", "set", "clear", "start", "connected", "failed", "checked"}
StoreTyped(i) ==
    /\ i.kind = "connections" => IsList(i.mutations) /\ \A n \in DOMAIN i.mutations : i.mutations[n] \in Mutations
    /\ i.kind \in {"store", "info"} => StateTyped(i.state)
    /\ i.kind = "repositories" =>
          /\ IsList(i.list)
          /\ \A n \in DOMAIN i.list : i.list[n] = [name |-> i.list[n].name, cluster |-> i.list[n].cluster]

TextTyped(t) ==
    /\ t.blank \in {"no", "empty", "spaces"} /\ t.length \in Nat /\ (t.blank = "empty" <=> t.length = 0)
    /\ t.blank # "no" => ~t.padded /\ t.letters = "other" /\ t.reads = {"yaml"}
    /\ "http" \in t.reads => "url" \in t.reads
    /\ "json" \in t.reads => "yaml" \in t.reads
    /\ "reserved" \in t.reads => t.letters = "dns" /\ t.length <= 53
ValidationTyped(i) ==
    /\ i.kind = "text" => TextTyped(i.text)
    /\ i.kind = "quantity" => i.amount \in Nat /\ i.digits \in {"n", "n.n", ".n", "bad"}
    /\ i.kind = "values" =>
          /\ IsFunction(i.values)
          /\ \A k \in DOMAIN i.values : LET v == i.values[k]
                                        IN  v = [type |-> v.type, size |-> v.size, reads |-> v.reads, inside |-> v.inside]

\* A repository has a name of its own, and each of its entries the versions of a chart.
RepoTyped(repo) ==
    /\ repo = [id |-> repo.id, answer |-> repo.answer, entries |-> repo.entries] /\ repo.id # None
    /\ IsList(repo.entries)
    /\ \A n \in DOMAIN repo.entries :
          LET e == repo.entries[n]
          IN  /\ e # None /\ VersionsTyped(e.versions)
              /\ None \notin [chartName : {e.name}, version : {e.versions[k] : k \in DOMAIN e.versions}]
ReposTyped(repos) ==
    /\ IsList(repos) /\ \A n \in DOMAIN repos : RepoTyped(repos[n])
    /\ \A m, n \in DOMAIN repos : repos[m].id = repos[n].id => m = n

\* No path of values goes through a leaf.
ValuesTyped(values) == IsFunction(values) /\ \A p, q \in DOMAIN values : ~W!Crosses(p, q)
SecretsTyped(secrets) ==
    /\ IsList(secrets)
    /\ \A n \in DOMAIN secrets :
          LET s == secrets[n]
          IN  /\ s # None /\ s.revision \in Int
              /\ s.release # None =>
                    s.release.version \in Version /\ ValuesTyped(s.release.defaults) /\ ValuesTyped(s.release.user)

Listings == [of : {"chart", "subchart"}, text : BOOLEAN]
Archived == [sought : BOOLEAN, size : Nat]
Searched == [app : BOOLEAN, wide : BOOLEAN, page : Nat, listed : BOOLEAN, namespaces : Seq(BOOLEAN)]
LookupTyped(i) ==
    /\ i.kind \in {"repos", "install", "manage"} => ReposTyped(i.repos)
    /\ i.kind \in {"install", "manage"} => \A n \in DOMAIN i.repos : i.repos[n].id = n
    /\ i.kind = "installs" => \A c \in {i.one, i.two} : c \in Searched /\ c.namespaces # <<>>
    /\ i.kind = "secrets" => SecretsTyped(i.list)
    /\ i.kind = "manage" /\ i.secrets # None => SecretsTyped(i.secrets)
    /\ i.kind = "files" => {i.files, i.archive} \subseteq Seq(Listings)
    /\ i.kind = "archive" => i.files \in Seq(Archived) /\ i.length \in Nat

\* An entry of an index has three numbers and annotations.
EntryTyped(e) ==
    e # None /\ e.core \in Numbers /\ e.pre \in BOOLEAN /\ e.valid \in BOOLEAN /\ e.annotations # None
IndexTyped(index) == IsList(index) /\ \A n \in DOMAIN index : EntryTyped(index[n])
ApiTyped(i) ==
    /\ i.kind = "conversion" => X!ConvertTo(i.spec) # None
    /\ i.kind = "admission" =>
          /\ IsList(i.requests)
          /\ \A n \in DOMAIN i.requests : i.requests[n].name \in {"m", "n"} /\ i.requests[n].lag \in Nat
    /\ i.kind = "index" => IndexTyped(i.entries)
    /\ i.kind = "resolve" =>
          /\ IsFunction(i.cache) /\ {"index", "assets"} \subseteq DOMAIN i.cache /\ i.expires \in BOOLEAN
          /\ \A u \in {"index", "assets"} : \A index \in {i.cache[u], i.before[u]} \ {None} : IndexTyped(index)

Typed(i) == VersionTyped(i) /\ StatusTyped(i) /\ ErrorTyped(i) /\ ClusterTyped(i) /\ StoreTyped(i)
            /\ ValidationTyped(i) /\ LookupTyped(i) /\ ApiTyped(i)

\* None is no status of an answer, no hint of what failed, no part of a version, and nothing
\* that it stands in for.
ClusterForms == [ready : BOOLEAN, connectionStatus : {"connected", "disconnected", "error"}, healthError : BOOLEAN]
ConnectionForms == [connecting : BOOLEAN, retryCount : Nat, error : BOOLEAN]
Found == [at : {1, 2} \X ({"app", "helm"} \cup Nat), clusters : Seq({1, 2})]
NoneApart ==
    /\ None \notin Int /\ None \notin {"network", "temporary", "rc", "chart", "subchart"}
    /\ None \notin Version /\ None # W!getClusterVersion
    /\ None \notin ClusterForms /\ None \notin ConnectionForms /\ None \notin Found /\ None \notin Archived

LawsAssumption == NoneApart /\ Versions \subseteq Version /\ \A i \in Inputs : Typed(i)

-----------------------------------------------------------------------------
(* The laws, by kind *)

VersionLaws ==
    /\ input.kind = "pair" => W!ShownInOrder(input.a, input.b) /\ W!OrdersAgree(input.a, input.b)
    /\ input.kind = "list" => W!ConstraintMet(input.list, input.op, input.base)
    /\ input.kind = "feature" => W!FeatureAllowed(input, input.cluster, input.able, input.preference)
    /\ input.kind = "release" =>
          W!ReleaseFeatures(input.able, [flag \in DOMAIN W!RELEASE_FEATURES |->
                                            IF flag = input.flag THEN input.prefer ELSE None])

StatusLaws ==
    /\ input.kind = "phases" =>
          S!SummariesAgree(input.list) /\ S!OrderMatters(input.list) /\ S!OffersFit(input.list)
    /\ input.kind = "apps" => S!ClassesAddUp(input.list)
    /\ input.kind = "health" /\ input.ready <= input.total =>
          S!HealthFits(input.ready, input.total, input.errors, input.critical)
    /\ input.kind = "one" =>
          S!OneSpeaksAlike(input) /\ S!HealthTold([input EXCEPT !.error = FALSE], input.after)

\* As many results as there are attempts.
ErrorLaws ==
    /\ input.kind = "error" => E!AbsenceSeen(input.error) /\ E!RetriesAgree(input.error)
    /\ input.kind = "results" => E!ToldOnce(input.results, Len(input.results) - 1)

ClusterLaws ==
    /\ input.kind = "summary" =>
          LET needs == C!AppRequirements(input.slug)
          IN  C!BarsFit(needs, input.slug \notin C!Known, input.has) /\ C!EstimateSpeaksAlike(needs, input.has)
    /\ input.kind = "rows" =>
          C!SelectAllSettles(input.rows, input.selected) /\ C!UnfitWarned(input.rows, input.selected, input.id)
    /\ input.kind = "cluster" => C!ReadinessNested(input.cluster, input.able, input.health)
    /\ input.kind = "resource" => C!ErrorsShown(input)

StoreLaws ==
    /\ input.kind = "store" => G!AppsAddUp(input.state) /\ G!BulkFits(input.state)
    /\ input.kind = "info" => G!InfoFound(input.state, input.key, input.record)
    /\ input.kind = "repositories" => G!RepositoriesFound(input.list)

ValidationLaws ==
    /\ input.kind = "text" => D!NamesNested(input.text) /\ D!FormatsAgree(input.text)
    /\ input.kind = "value" => D!RequiredAgree(input.of)
    /\ input.kind = "quantity" => D!QuantitiesNested(input)
    /\ input.kind = "field" => D!FormsAgree(input.field, input.text, input.whole)
    /\ input.kind = "values" => D!LeftOut(input.values, input.schema, input.key)
    /\ input.kind = "pods" => D!SchedulingFits(input.pairs, {input.pod})

\* What follows lists: the nodes of a cluster, of any number; two clusters, filtered and
\* sorted; and mutations one after the other, as many as there are.
ListLaws ==
    /\ input.kind = "nodes" => C!CompatibleFits(input.nodes, input.classes, input.slug)
    /\ input.kind = "clusters" =>
          \A g \in {[input.f EXCEPT !.ready = FALSE], [input.f EXCEPT !.providers = {"k3s"}]} :
              C!ListsKept(<<input.one, input.two>>, input.f, g)
    /\ input.kind = "connections" => G!ConnectionTold(input.mutations, input.able)

Chart == <<"ollama", "ollama">>
\* Installations are looked for in two clusters.
LookupLaws ==
    /\ input.kind = "repos" =>
          /\ W!InferredHolds(input.repos, Chart, input.prefer) /\ W!ServicesAgree(input.repos, Chart, input.prefer)
          /\ \A n \in DOMAIN input.repos : W!ProposedIsNewest(input.repos[n], Chart)
    /\ input.kind = "installs" =>
          LET cluster(n, c) == [id |-> n, app |-> c.app, wide |-> c.wide, page |-> c.page, listed |-> c.listed,
                                namespaces |-> c.namespaces]
          IN  W!FoundIsThere(<<cluster(1, input.one), cluster(2, input.two)>>, input.prefer)
    /\ input.kind = "secrets" => W!DetailsFit(input.list)
    /\ input.kind = "files" => W!SourcesFit(input.files, input.file, input.archive)
    /\ input.kind = "words" => \A word \in {"ai_ml", "database", "storage", "tools"} : W!CategoryFirst(input.words, word)
    /\ input.kind = "install" /\ {input.query, input.static} \subseteq {None} \cup DOMAIN input.repos =>
          W!InstallOpens(input.repos, input.query, input.static, Chart)
    /\ input.kind = "manage" => W!ManageOpens(input.repos, input.secrets, Chart)
    /\ input.kind = "archive" => W!ArchiveRead(input.files, input.length)
    /\ input.kind = "namespaces" /\ (input.install => input.chosen = "own") =>
          W!NamespacesFit([failed |-> input.failed], input.clusters, input.system, "own", input.install, input.chosen)

ApiLaws ==
    /\ input.kind = "conversion" => X!ConversionKeeps(input.spec)
    /\ input.kind = "admission" => X!NamesUnique(input.requests, {"m", "n"})
    /\ input.kind = "index" => X!LatestIsGreatest(input.entries)
    /\ input.kind = "resolve" => X!ResolvedFound(input.of, input.cache, input.before, input.later, input.expires)
    /\ input.kind = "metadata" => X!MetadataFits(input.annotations, input.user)
===============================================================================
