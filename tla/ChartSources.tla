----------------------------- MODULE ChartSources -----------------------------
(***************************************************************************)
(* Where a chart, its versions, its values and an existing installation    *)
(* are found: the lookups of services/rancher-apps.ts, their copies in     *)
(* services/chart-service.ts and the sources of services/chart-values.ts.  *)
(* A name is a pair: its letters, and how it is written.  A repository is  *)
(* [id, answer, entries]: the index is "ok", or "wrapped" in one more data; *)
(* there is "none", or asking for it "failed".  The last laws are of the   *)
(* files of a chart, read from a listing or from its archive.              *)
(***************************************************************************)
EXTENDS Versions

sameName(a, b) == a[1] = b[1]

-----------------------------------------------------------------------------
(* The index of a repository: entries = <<[name, versions], ...>> *)

HasIndex(repo) == repo.answer \in {"ok", "wrapped"}

Entry(repo, chart) ==
    LET n == FirstOf(repo.entries, LAMBDA e : sameName(e.name, chart))
    IN  IF ~HasIndex(repo) \/ n = 0 THEN None ELSE repo.entries[n]

\* The released versions, each once, newest first.
listChartVersions(repo, chart) ==
    IF Entry(repo, chart) = None THEN <<>>
    ELSE LET released == {v \in ToSet(Entry(repo, chart).versions) : SEMVER_CORE(v)}
         IN  Ordered(released, {p \in released \X released : semverDesc(p[1], p[2]) < 0})

findChartInRepo(repo, slug) ==
    LET versions == listChartVersions(repo, slug)
    IN  IF versions = <<>> THEN None
        ELSE [chartName |-> Entry(repo, slug).name, version |-> versions[1]]

\* The copy of rancher-apps throws when the index cannot be fetched, that of
\* chart-service has found nothing.
Throws(repo) == repo.answer = "failed"

\* Mutant: the last repository with the chart is kept instead of the first.
inferClusterRepoForChartLast(repos, chart, preferVersion) ==
    LET holds == {n \in DOMAIN repos : Entry(repos[n], chart) # None}
    IN  IF holds = {} THEN None ELSE repos[CHOOSE n \in holds : \A m \in holds : m <= n].id

\* A repository with the preferred version, else the first with the chart.  One whose
\* index cannot be fetched is passed over.
inferClusterRepoForChart(repos, chart, preferVersion) ==
    LET holds == {n \in DOMAIN repos : Entry(repos[n], chart) # None}
        perfect == {n \in holds : preferVersion \in ToSet(Entry(repos[n], chart).versions)}
    IN  IF holds = {} THEN None ELSE repos[Least(IF perfect # {} THEN perfect ELSE holds)].id

\* chart-service gives up quietly: an index, or the list of repositories, that cannot be
\* fetched is one with nothing in it.  It does not unwrap an index, and so has no
\* entries of a wrapped one.
Missed(repo) == repo.answer \in {"failed", "wrapped"}
ServiceIndex(repo) == IF Missed(repo) THEN [repo EXCEPT !.answer = "none"] ELSE repo
ServiceFindChartInRepo(repo, slug) == findChartInRepo(ServiceIndex(repo), slug)
ServiceListChartVersions(repo, chart) == listChartVersions(ServiceIndex(repo), chart)
ServiceListClusterRepos(repos, listed) == IF listed THEN repos ELSE <<>>
ServiceInferClusterRepoForChart(repos, listed, chart, preferVersion) ==
    LET all == ServiceListClusterRepos(repos, listed)
    IN  inferClusterRepoForChart([n \in DOMAIN all |-> ServiceIndex(all[n])], chart, preferVersion)

-----------------------------------------------------------------------------
(* An existing installation.  cluster = [id, app, wide, page, listed,        *)
(* namespaces]: an App matches; Helm's secrets may be listed in the whole    *)
(* cluster, and those of so many namespaces are among the first 500, which   *)
(* is all that is asked for; its namespaces can be listed; and which of them *)
(* have a secret that matches                                                *)

\* A match in the first page of the cluster's secrets.
OnPage(c) == \E n \in DOMAIN c.namespaces : n <= c.page /\ c.namespaces[n]

Noted(found, c, place, hit) ==
    IF ~hit THEN found
    ELSE IF found = None THEN [at |-> <<c.id, place>>, clusters |-> <<c.id>>]
    ELSE IF Contains(found.clusters, c.id) THEN found
    ELSE [found EXCEPT !.clusters = Append(@, c.id)]

\* Namespace by namespace, as far as the first after which something is found,
\* here or in an earlier cluster.
FallbackSearch(found, c) ==
    LET n == FirstOf(c.namespaces, LAMBDA hit : hit)
    IN  IF ~c.listed \/ c.namespaces = <<>> THEN found
        ELSE IF found # None THEN Noted(found, c, 1, c.namespaces[1])
        ELSE Noted(found, c, n, n # 0)

SearchCluster(found, c) ==
    LET apps == Noted(found, c, "app", c.app)
    IN  IF c.wide THEN Noted(apps, c, "helm", OnPage(c))
        ELSE FallbackSearch(apps, c)

discoverExistingInstall(clusters, prefer) ==
    FoldLeft(SearchCluster, None,
             Filtered(clusters, LAMBDA c : c.id = prefer) \o Filtered(clusters, LAMBDA c : c.id # prefer))

-----------------------------------------------------------------------------
(* The installed release: secrets = <<[kin, revision, release], ...>>, where *)
(* kin is the secret of another release whose name begins with this one's    *)
(* and ".v", and release is None or [name, version, defaults, user]          *)

findHelmReleaseObjects(secrets) ==
    LET n == FirstOf(secrets, LAMBDA s : \A m \in DOMAIN secrets : secrets[m].revision <= s.revision)
    IN  IF n = 0 \/ secrets[n].release = None THEN None ELSE secrets[n]

\* Values are functions from paths to leaves; a leaf overrides what is below it, and
\* what is below a leaf overrides it.
Crosses(p, q) == p # q /\ (IsPrefix(p, q) \/ IsPrefix(q, p))
deepMerge(target, source) ==
    LET kept == {p \in DOMAIN target \ DOMAIN source : \A q \in DOMAIN source : ~Crosses(p, q)}
    IN  [p \in kept \cup DOMAIN source |-> IF p \in DOMAIN source THEN source[p] ELSE target[p]]

\* A release that is not there gets its own name as the name of its chart.
getInstalledHelmDetails(secrets, releaseName) ==
    LET secret == findHelmReleaseObjects(secrets)
    IN  IF secret = None THEN [chartName |-> releaseName, chartVersion |-> None, values |-> <<>>]
        ELSE [chartName |-> secret.release.name, chartVersion |-> secret.release.version,
              values |-> deepMerge(secret.release.defaults, secret.release.user)]

-----------------------------------------------------------------------------
(* The files of a chart.  A listing has, in its order, the files whose name  *)
(* ends like the one looked for: [of : "chart" or "subchart", text : whether *)
(* it reads as YAML]; a request that failed has given none                   *)

FirstFile(listing) == IF listing # <<>> /\ listing[1].text THEN listing[1].of ELSE None
SomeFile(listing) ==
    LET n == FirstOf(listing, LAMBDA f : f.text) IN IF n = 0 THEN None ELSE listing[n].of
FirstFound(answers, otherwise) ==
    LET n == FirstOf(answers, LAMBDA a : a # None) IN IF n = 0 THEN otherwise ELSE answers[n]

BlockSize == 512

\* Where in an archive of that length the file looked for is found.  headerAt gives the
\* block at an offset, read as the header of a file, or None if it is empty; a file that is
\* cut short throws, which is caught.
extractFileFromTarGz(headerAt, length) ==
    LET walk[offset \in Nat] ==
            LET file == headerAt[offset]
            IN  IF offset + BlockSize > length \/ file = None THEN None
                ELSE IF file.sought THEN IF offset + BlockSize + file.size <= length THEN offset ELSE None
                ELSE walk[offset + BlockSize + ((file.size + BlockSize - 1) \div BlockSize) * BlockSize]
    IN  walk[0]

\* tar: a header, the data, and zeros up to the next block; two empty blocks at the end.
Padded(size) == BlockSize * (CHOOSE n \in 0 .. size : BlockSize * n >= size /\ BlockSize * (n - 1) < size)
HeaderOf(files, n) == FoldLeft(LAMBDA sum, f : sum + BlockSize + Padded(f.size), 0, SubSeq(files, 1, n - 1))
ArchiveEnd(files) == HeaderOf(files, Len(files) + 1)

\* Link "files", link "file" (whose one file is the chart's own), the archive.
getDefaultValues(files, file, archive) ==
    FirstFound(<<FirstFile(files), IF file THEN "chart" ELSE None, FirstFile(archive)>>, "template")
\* For Chart.yaml the listing is read on until a file reads as YAML.
fetchChartYaml(files, file, archive) ==
    FirstFound(<<SomeFile(files), IF file THEN "chart" ELSE None, FirstFile(archive)>>, None)

\* The first category one of whose words is there.
Categories == <<"ai_ml", "database", "monitoring", "analytics", "security",
                "networking", "storage", "web", "tools">>
categorizeChart(words) ==
    LET n == FirstOf(Categories, LAMBDA c : c \in words) IN IF n = 0 THEN "other" ELSE Categories[n]

-----------------------------------------------------------------------------
(* Laws *)

IdsOf(repos, Has(_)) == {repos[n].id : n \in {m \in DOMAIN repos : Has(repos[m])}}

\* The repository inferred has the chart, and the preferred version whenever one of
\* those that answered has it; but the chart is found in it only if it has a released
\* version there, and another repository that has one is not looked for.
InferredHolds(repos, chart, preferVersion) ==
    LET one == inferClusterRepoForChart(repos, chart, preferVersion)
        holding == IdsOf(repos, LAMBDA r : Entry(r, chart) # None)
        perfect == IdsOf(repos, LAMBDA r : Entry(r, chart) # None /\ preferVersion \in ToSet(Entry(r, chart).versions))
        chosen == repos[FirstOf(repos, LAMBDA r : r.id = one)]
    IN  /\ one = None <=> holding = {}
        /\ one # None => one \in holding
        /\ perfect # {} => one \in perfect
        /\ perfect = {} /\ one # None => \A n \in DOMAIN repos :
              repos[n].id \in holding => FirstOf(repos, LAMBDA r : r.id = one) <= n
        /\ one # None /\ findChartInRepo(chosen, chart) = None =>
              \A n \in DOMAIN Entry(chosen, chart).versions : isPrereleaseVersion(Entry(chosen, chart).versions[n])

\* chart-service finds the same as rancher-apps but nothing where that throws or unwraps
\* the index.  What it infers is what that infers unless the list of repositories is not
\* there or that infers a repository with a wrapped index: then it infers another, whose
\* index it can read, or none.
ServicesAgree(repos, chart, preferVersion) ==
    /\ \A n \in DOMAIN repos :
          /\ ServiceFindChartInRepo(repos[n], chart) = IF Missed(repos[n]) THEN None ELSE findChartInRepo(repos[n], chart)
          /\ ToSet(ServiceListChartVersions(repos[n], chart)) \subseteq ToSet(listChartVersions(repos[n], chart))
    /\ \A listed \in BOOLEAN :
          LET one == ServiceInferClusterRepoForChart(repos, listed, chart, preferVersion)
              other == inferClusterRepoForChart(repos, chart, preferVersion)
          IN  /\ listed /\ other \notin IdsOf(repos, Missed) => one = other
              /\ one # None => listed /\ one \in IdsOf(repos, LAMBDA r : ~Missed(r) /\ Entry(r, chart) # None)

\* Of a chart the version proposed first is among those listed, and none listed is newer.
ProposedIsNewest(repo, chart) ==
    LET found == findChartInRepo(repo, chart)
        list == listChartVersions(repo, chart)
    IN  found # None =>
          /\ found.version \in ToSet(list) /\ sameName(found.chartName, chart)
          /\ \A n \in DOMAIN list : semverDesc(found.version, list[n]) <= 0
          /\ IsInjective(list)

\* An installation is found where there is one, and in every cluster that has one, but for
\* two cases: its secrets are all beyond the first page of the cluster's; or they can be
\* listed by namespace only, and then one that is not in the first namespace is missed if
\* an earlier cluster had one, as all are if namespaces cannot be listed either.  The
\* preferred cluster is named first if it has one that is seen.
FoundIsThere(clusters, prefer) ==
    LET found == discoverExistingInstall(clusters, prefer)
        Has(c) == c.app \/ \E n \in DOMAIN c.namespaces : c.namespaces[n]
        Hidden(c) == ~c.app /\ IF c.wide THEN ~OnPage(c) ELSE c.listed => c.namespaces[1] = FALSE
        seen == IF found = None THEN {} ELSE ToSet(found.clusters)
    IN  /\ seen \subseteq IdsOf(clusters, Has)
        /\ IdsOf(clusters, LAMBDA c : Has(c) /\ ~Hidden(c)) \subseteq seen
        /\ found = None => \A n \in DOMAIN clusters :
              Has(clusters[n]) => IF clusters[n].wide THEN Hidden(clusters[n]) ELSE ~clusters[n].listed
        /\ prefer \in seen => found.clusters[1] = prefer

\* The release shown is the one of the highest revision, and another release's only when
\* that one's name begins alike and its revision is as high; what the user set is
\* kept, what is kept of the defaults is what nothing set crosses, and setting the same
\* again changes nothing.
DetailsFit(secrets) ==
    LET secret == findHelmReleaseObjects(secrets)
    IN  secret # None =>
          LET user == secret.release.user
              shown == getInstalledHelmDetails(secrets, None).values
          IN  /\ secret.kin => \A n \in DOMAIN secrets : ~secrets[n].kin => secrets[n].revision <= secret.revision
              /\ \A p \in DOMAIN user : shown[p] = user[p]
              /\ \A p, q \in DOMAIN shown : ~Crosses(p, q)
              /\ deepMerge(shown, user) = shown
              /\ \A p \in DOMAIN secret.release.defaults :
                    p \notin DOMAIN shown => \E q \in DOMAIN user : Crosses(p, q)

\* The default values are the chart's own unless a listing has a subchart's before them;
\* Chart.yaml is found wherever the values are, if the listings are alike, and there are
\* no values but the template's only when no source has a first file that reads as YAML.
SourcesFit(files, file, archive) ==
    LET values == getDefaultValues(files, file, archive)
        own(listing) == listing # <<>> => listing[1].of = "chart"
    IN  /\ own(files) /\ own(archive) => values \in {"chart", "template"}
        /\ values # "template" => fetchChartYaml(files, file, archive) # None
        /\ values = "template" => ~file /\ FirstFile(files) = None /\ FirstFile(archive) = None

\* The walk reads headers only, never a file's data as one, and finds the first of the
\* files looked for if the archive goes on to its end, whatever is missing behind it.
ArchiveRead(files, length) ==
    LET headers == {HeaderOf(files, n) : n \in DOMAIN files}
        Misread == [sought |-> TRUE, size |-> 0]
        headerAt == [offset \in 0 .. length |->
            IF offset \in headers THEN files[CHOOSE n \in DOMAIN files : HeaderOf(files, n) = offset]
            ELSE IF offset < ArchiveEnd(files) THEN Misread ELSE None]
        first == FirstOf(files, LAMBDA f : f.sought)
    IN  extractFileFromTarGz(headerAt, length) =
            IF first # 0 /\ HeaderOf(files, first) + BlockSize + files[first].size <= length
            THEN HeaderOf(files, first) ELSE None

\* One more word never moves a chart to a later category.
CategoryFirst(words, word) ==
    LET place(some) == LET n == FirstOf(Categories, LAMBDA c : c = categorizeChart(some)) IN IF n = 0 THEN 10 ELSE n
    IN  place(words \cup {word}) <= place(words)
===============================================================================
