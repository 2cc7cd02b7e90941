-------------------------------- MODULE MCLaws --------------------------------
(* Inputs for the laws of the functions without state (Laws), by module: of     *)
(* AppStatus, Errors, Versions, Clusters, ChartSources, WizardOpening,          *)
(* Validation, StoreViews and ExtensionApi.                                     *)
EXTENDS Integers, Sequences, FiniteSets

CONSTANT None

\* The sequences over S with at most n members.
SeqUpTo(S, n) == UNION {[1 .. m -> S] : m \in 0 .. n}

-----------------------------------------------------------------------------
(* Versions *)

Cores == {<<1, 0, 0>>, <<1, 0, 2>>, <<1, 2, 1>>, <<2, 0, 0>>}
Plain == [core : Cores, pre : {None}, up : {None}]
SomeVersions ==
    Plain \cup [core : Cores, pre : {"rc"}, up : {None}]
        \cup [core : Cores, pre : {None}, up : {<<m, n, 0>> : m \in {1, 2, 10}, n \in 0 .. 1}]
Few == {v \in SomeVersions : v.up \in {None, <<1, 0, 0>>}}

V == INSTANCE Versions WITH Versions <- SomeVersions

Needs == {n \in [rancher : {None} \cup Plain, kubernetes : {None}, helm : Plain, capabilities : SUBSET {"helm"}] :
            n.helm.core = <<1, 0, 2>> /\ (n.rancher # None => n.rancher.core = <<1, 2, 1>>)}
VersionInputs ==
    [kind : {"pair"}, a : SomeVersions, b : SomeVersions]
        \cup [kind : {"list"}, list : SeqUpTo(Few, 2) \ {<<>>}, op : {">=", "^", "~"}, base : Plain]
        \cup [kind : {"feature"}, needs : Needs, deprecated : BOOLEAN, defaultEnabled : BOOLEAN,
              cluster : [rancher : Plain, kubernetes : Plain, helm : {None} \cup Plain],
              able : {None} \cup {{}, {"helm"}}, preference : {None, TRUE, FALSE}]
        \cup [kind : {"release"}, able : SUBSET {"namespaces", "secrets", "metrics", "helm"},
              prefer : {None, TRUE, FALSE}, flag : DOMAIN V!RELEASE_FEATURES]

-----------------------------------------------------------------------------
(* Statuses *)

S == INSTANCE AppStatus

StatusInputs ==
    [kind : {"phases"}, list : SeqUpTo(S!Phases, 3)]
        \cup [kind : {"apps"}, list : SeqUpTo(S!Moving \cup {"available", "deployed", "failed", "unknown"}, 2)]
        \cup [kind : {"health"}, ready : 0 .. 5, total : 0 .. 4, errors : BOOLEAN, critical : BOOLEAN]
        \cup [kind : {"one"}, phase : S!Phases, error : BOOLEAN, ready : SeqUpTo(BOOLEAN, 2),
              after : SeqUpTo(BOOLEAN, 2)]

-----------------------------------------------------------------------------
(* Clusters *)

C == INSTANCE Clusters

Quantities(cpu, memory) == {[cpu |-> c, memory |-> m] : c \in cpu, m \in memory}
Q(amount, unit) == [amount |-> amount, unit |-> unit]
Nodes ==
    [allocatable : {None} \cup Quantities({Q(1, ""), Q(4, ""), Q(1500, "m")},
                                          {Q(4, "Gi"), Q(16100, "Mi"), Q(4194304, "Ki"), Q(1, "Ti")}),
     capacity : Quantities({Q(2, "")}, {Q(3, "Gi")}),
     usage : {None} \cup Quantities({Q(40, "n"), Q(650, "n"), Q(250, "m")}, {Q(400, "Mi"), Q(2000, "Mi")}),
     gpu : {None, [count |-> 1, kind |-> "a100"], [count |-> 1, kind |-> "other"]}]
\* Two nodes are two of the same.
Pairs == {<<>>} \cup {<<n>> : n \in Nodes} \cup {<<n, n>> : n \in Nodes}
ClusterInfos ==
    [ready : BOOLEAN, connection : {"connected", "disconnected", "error"}, version : {"1.28", "Unknown"},
     provider : {"rke2", "k3s"}, text : {{"a"}, {}}, checked : {None, "today", "before"}]
Filters == [ready : {None, TRUE}, connections : {None, {"connected"}}, providers : {{}, {"rke2"}},
            text : {None, "a"}]
Amounts == {r \in [used : {0, 12, 36, 190, 450}, total : {0, 20, 40, 200, 500}] : r.used <= r.total}
Summaries == {C!ErrorSummary(FALSE)} \cup
    [cpu : Amounts, memory : Amounts, gpu : {0, 16}, classes : BOOLEAN, status : {"compatible"}]
Slugs == {"ollama", "openwebui", "observability", "unknown"}
Rows == [{"c1", "c2", "c3"} -> {"compatible", "limited", "insufficient", "error"}]
ClusterInputs ==
    [kind : {"nodes"}, nodes : Pairs, classes : BOOLEAN, slug : Slugs]
        \cup [kind : {"summary"}, has : Summaries, slug : Slugs]
        \cup [kind : {"rows"}, rows : Rows, selected : SUBSET {"c1", "c2", "c3", "gone"}, id : {"c1", "gone"}]
        \cup [kind : {"cluster"}, cluster : ClusterInfos, health : {None, "healthy", "degraded"},
              able : SUBSET {"canInstallApps", "hasHelmSupport", "canManageNamespaces"}]
        \cup [kind : {"clusters"}, one : ClusterInfos, two : {c \in ClusterInfos : c.checked = None /\ c.text = {}},
              f : Filters]
        \cup [kind : {"resource"}, state : {"active", "error"}, transitioning : BOOLEAN, ready : BOOLEAN,
              able : {None, TRUE, FALSE}, apps : 0 .. 1, id : {"local", "c1"}]

-----------------------------------------------------------------------------
(* Lookups *)

Chart == <<"ollama", "ollama">>  \* as in Laws
Releases ==  \* of the chart, in a repository
    LET v(n, pre) == [core |-> <<1, n, 0>>, pre |-> pre, up |-> None]
    IN  {<<>>, <<v(0, None)>>, <<v(1, None), v(0, None), v(1, None)>>, <<v(2, "rc")>>}
RepoAnswers ==
    {[answer |-> a, entries |-> <<>>] : a \in {"none", "failed"}}
        \cup {[answer |-> "ok", entries |-> <<[name |-> <<"other", "other">>, versions |-> <<>>]>>]}
        \cup {[answer |-> "ok", entries |-> <<[name |-> <<"ollama", "Ollama">>, versions |-> r]>>] : r \in Releases}
        \cup {[answer |-> "wrapped", entries |-> <<[name |-> <<"ollama", "Ollama">>, versions |-> r]>>] :
              r \in {s \in Releases : Len(s) = 3}}
RepoLists == {[n \in 1 .. Len(list) |-> [id |-> n, answer |-> list[n].answer, entries |-> list[n].entries]] :
              list \in SeqUpTo(RepoAnswers, 3)}
Searched == [app : BOOLEAN, wide : BOOLEAN, page : 0 .. 2, listed : BOOLEAN, namespaces : SeqUpTo(BOOLEAN, 2) \ {<<>>}]
Values == {<<>>} \cup UNION {[P -> {"x", "y"}] : P \in {{<<"a">>}, {<<"a", "b">>}, {<<"a", "b">>, <<"c">>}}}
SecretForms == [kin : BOOLEAN, revision : 1 .. 2,
                release : {None} \cup [name : {Chart}, version : {[core |-> <<1, n, 0>>, pre |-> None, up |-> None] : n \in 0 .. 1},
                                       defaults : Values, user : Values]]
FewSecretForms == {s \in SecretForms : s.release # None => s.release.defaults = <<>> /\ s.release.user = <<>>}
Files == SeqUpTo([of : {"chart", "subchart"}, text : BOOLEAN], 2)
LookupInputs ==
    [kind : {"repos"}, repos : RepoLists, prefer : {None, [core |-> <<1, 1, 0>>, pre |-> None, up |-> None]}]
        \cup [kind : {"installs"}, one : Searched, two : Searched, prefer : {None, 1, 2}]
        \cup [kind : {"secrets"}, list : {<<a>> : a \in SecretForms} \cup {<<a, b>> : a, b \in FewSecretForms}]
        \cup [kind : {"files"}, files : Files, file : BOOLEAN, archive : Files]
        \cup [kind : {"words"}, words : SUBSET {"ai_ml", "database", "storage", "tools"}]
        \cup [kind : {"install"}, repos : RepoLists, query : {None, 1, 2}, static : {None, 1, 2}]
        \cup [kind : {"manage"}, repos : RepoLists, secrets : {None, <<>>} \cup {<<s>> : s \in FewSecretForms}]
        \cup [kind : {"archive"}, files : SeqUpTo([sought : BOOLEAN, size : {0, 1, 511, 512, 513}], 3),
              length : {0, 511, 512, 1023, 1024, 1025, 1536, 1537, 2048, 9999}]
        \cup [kind : {"namespaces"}, clusters : {None} \cup SUBSET ({None} \cup SUBSET {"own", "kube-system", "other"}),
              system : {{"kube-system"}, {"own", "kube-system"}}, install : BOOLEAN,
              chosen : {"own", "kube-system", "other"}, failed : BOOLEAN]

-----------------------------------------------------------------------------
(* Errors *)

E == INSTANCE Errors

Answered == {None, E!Text, 404, 408, 409, 500, 501}
ErrorsOf(kinds) ==
    {e \in [kind : kinds, code : Answered, status : Answered, response : Answered \ {E!Text}, detail : BOOLEAN,
            hint : {None, "network", "temporary"}] :
        /\ e.kind = "string" => e.code = None /\ e.status = None /\ e.response = None /\ ~e.detail /\ e.hint = None
        /\ e.detail => e.response # None
        /\ e.kind \in {"object", "other"} => e.hint = None
        /\ e.kind = "other" => e.status = None /\ e.response = None}
FewErrors == {e \in ErrorsOf({"error"}) : e.code = None /\ e.status = None /\ ~e.detail /\ e.hint = None}
ErrorInputs ==
    [kind : {"error"}, error : ErrorsOf({"error", "object with message", "object", "string", "other"})]
        \cup [kind : {"results"}, results : [1 .. 3 -> {None} \cup FewErrors]]

-----------------------------------------------------------------------------
(* The store *)

Ids == {"a", "b"}
\* Two keys, the indexes as the records have them, or with one entry more.
StoredRecords == [app : Ids, cluster : {"c", "d"}, status : {"deployed", "installing", "failed"}]
StatesOf(flags) ==
    {[recs |-> r, selected |-> s, apps |-> f,
      byApp |-> [a \in Ids |-> {k \in DOMAIN r : r[k].app = a} \cup IF stale THEN {"k1"} ELSE {}],
      byCluster |-> [c \in {"c", "d"} |-> {k \in DOMAIN r : r[k].cluster = c}]] :
        r \in UNION {[K -> StoredRecords] : K \in SUBSET {"k1", "k2"}}, s \in {{}, {"a"}, {"b", "gone"}},
        f \in UNION {[A -> flags] : A \in SUBSET Ids}, stale \in BOOLEAN}
StoreStates ==
    StatesOf({[installed |-> i, updates |-> u, running |-> FALSE, failed |-> FALSE] : i \in BOOLEAN, u \in BOOLEAN})
FewStates == {s \in StoreStates : s.selected = {} /\ \A a \in DOMAIN s.apps : ~s.apps[a].installed /\ ~s.apps[a].updates}
StoreInputs ==
    [kind : {"store"}, state : StoreStates]
        \cup [kind : {"info"}, state : FewStates, key : {"k1"}, record : StoredRecords]
        \cup [kind : {"repositories"}, list : SeqUpTo([name : {"r", "s"}, cluster : {None, "c", "d"}], 3)]
        \cup [kind : {"connections"}, able : {None, TRUE, FALSE},
              mutations : SeqUpTo({"set ready", "set", "clear", "start", "connected", "failed", "checked"}, 4)]

-----------------------------------------------------------------------------
(* Validation *)

D == INSTANCE Validation

Texts ==
    {t \in [blank : {"no", "empty", "spaces"}, padded : BOOLEAN, letters : {"dns", "label", "other"},
            length : {0, 1, 53, 54, 63, 64},
            reads : SUBSET {"email", "url", "http", "json", "yaml", "tab"} \cup {{"yaml", "scalar"}, {"reserved", "yaml", "scalar"}}] :
        /\ t.blank = "empty" <=> t.length = 0
        /\ t.blank # "no" => ~t.padded /\ t.letters = "other" /\ t.reads = {"yaml"}
        /\ "http" \in t.reads => "url" \in t.reads
        /\ "json" \in t.reads => "yaml" \in t.reads
        /\ "reserved" \in t.reads => t.letters = "dns" /\ t.length <= 53}
Fields == [required : BOOLEAN, type : {"text", "email", "url", "yaml", "namespace"}, shown : BOOLEAN,
           rule : {None, "accepts", "refuses"}]
FewTexts == {t \in Texts : t.length \in {0, 1, 64} /\ ~t.padded /\ t.reads \in {{}, {"yaml"}, {"email"}, {"url"}, {"tab"}}}
Scalars == {[type |-> "null", size |-> 0], [type |-> "string", size |-> 0], [type |-> "string", size |-> 2],
            [type |-> "number", size |-> 0], [type |-> "number", size |-> 2]}
Leaf(v) == [type |-> v.type, size |-> v.size, reads |-> v.type = "string" /\ v.size = 0, inside |-> <<>>]
ChartValues ==
    LET some == {Leaf(v) : v \in Scalars} \cup
                {[type |-> "object", size |-> 0, reads |-> FALSE, inside |-> i] :
                    i \in UNION {[K -> {Leaf(v) : v \in Scalars}] : K \in SUBSET {"k"}}} \cup
                {[type |-> "array", size |-> 0, reads |-> FALSE, inside |-> <<Leaf(v)>>] : v \in Scalars}
    IN  UNION {[K -> some] : K \in SUBSET {"a", "b"}}
Schemas ==
    LET free == [least |-> None, greatest |-> None]
        open(required, type) ==
            [required |-> required, type |-> type, enum |-> None, range |-> free, length |-> free, pattern |-> None,
             items |-> None, members |-> <<>>, needed |-> {}]
        texts == {[open(r, "string") EXCEPT !.enum = e, !.length.greatest = g, !.pattern = p] :
                    r \in BOOLEAN, e \in {None, {<<"string", 2>>}}, g \in {None, 1}, p \in {None, {<<"string", 0>>}}}
        numbers == {[open(r, "number") EXCEPT !.enum = e, !.range.least = l, !.range.greatest = g, !.length.least = m] :
                    r \in BOOLEAN, e \in {None, {<<"number", 2>>}}, l \in {None, 1}, g \in {None, 1}, m \in {None, 2}}
        leaves == texts \cup numbers \cup {open(TRUE, None)}
        objects == {[open(needed # {}, "object") EXCEPT !.members = [k \in {"k"} |-> m], !.needed = needed] :
                       m \in leaves, needed \in SUBSET {"k"}}
        arrays == {[open(FALSE, "array") EXCEPT !.items = m] : m \in leaves \cup {None}}
    IN  [{"a"} -> leaves \cup objects \cup arrays]
Pods == {[key |-> k, effect |-> e, operator |-> o] : k \in {None, "k"}, e \in {None, "NoExecute", "bad"}, o \in {None, "Exists", "bad"}}
ValidationInputs ==
    [kind : {"text"}, text : Texts]
        \cup [kind : {"value"}, of : {"null", "empty", "spaces", "text", "list of none", "list", "object of none", "object", "number", "boolean"}]
        \cup {q \in [kind : {"quantity"}, digits : {"n", "n.n", ".n", "bad"}, amount : {0, 5, 10, 640, 1290},
                     unit : D!Units \cup {"x"}, padded : BOOLEAN] : q.digits = "n" => q.amount % 10 = 0}
        \cup [kind : {"field"}, field : Fields, text : FewTexts, whole : {None, "accepts", "refuses"}]
        \cup [kind : {"values"}, values : ChartValues, schema : Schemas, key : {"a", "b"}]
        \cup [kind : {"pods"}, pairs : SUBSET [key : {"k", "master", "bad"}, value : {"v", "bad"}], pod : Pods]

-----------------------------------------------------------------------------
(* The operator's API, webhook and index *)

Charts == {"x", "y"}
Gits == {None, "g"}
AlphaSpecs == [helm : {None} \cup Charts, source : {None} \cup
                 {s \in [helm : {None} \cup Charts, git : Gits] : s.helm = None \/ s.git = None}]
Requests == [name : {"m", "n"}, extension : {None, "e", "f"}, lag : 0 .. 2]
Entries == [core : {<<1, 0, 2>>, <<1, 2, 0>>, <<2, 0, 0>>}, pre : BOOLEAN, valid : BOOLEAN, annotations : {"of it"}]
Indexes ==
    LET v(n, valid) == [core |-> <<1, n, 0>>, pre |-> FALSE, valid |-> valid, annotations |-> "of it"]
    IN {<<v(0, TRUE)>>, <<v(0, TRUE), v(1, TRUE)>>, <<v(0, FALSE)>>}
Sources == [{"index", "assets"} -> {None} \cup Indexes]
Metadata(keys) == UNION {[K -> {"a", "b"}] : K \in SUBSET keys}
ApiInputs ==
    [kind : {"conversion"}, spec : AlphaSpecs]
        \cup [kind : {"admission"}, requests : SeqUpTo(Requests, 3)]
        \cup [kind : {"index"}, entries : SeqUpTo(Entries, 2)]
        \cup [kind : {"resolve"}, of : {"helm", "git"}, cache : {s \in Sources : None \in {s["index"], s["assets"]}},
              before : Sources, later : Sources, expires : BOOLEAN]
        \cup [kind : {"metadata"}, annotations : Metadata({"display-name", "rancher-version", "other"}),
              user : Metadata({"display-name", "mine"})]

-----------------------------------------------------------------------------
EveryInput == ValidationInputs \cup VersionInputs \cup StatusInputs \cup ClusterInputs \cup LookupInputs
              \cup ErrorInputs \cup StoreInputs \cup ApiInputs
===============================================================================
