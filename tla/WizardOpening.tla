---------------------------- MODULE WizardOpening ----------------------------
(***************************************************************************)
(* What the wizard shows when it opens (AppWizard.vue, from onMounted to   *)
(* refreshVersions), to install a chart or to manage a release.  The form  *)
(* is [failed, repo, chart, version]; the id of a repository is its place  *)
(* in the list.                                                            *)
(***************************************************************************)
EXTENDS ChartSources

\* The repository of the catalogue's entry, or else the one inferred from the chart's name.
findRepoForApp(repos, static, slug) ==
    IF static # None THEN static ELSE inferClusterRepoForChart(repos, slug, None)

\* What was found goes into the form.
Filled(form, guess) ==
    IF guess = None THEN form ELSE [form EXCEPT !.chart = guess.chartName, !.version = guess.version]

\* Ask repo for the chart: what is thrown ends the opening.
Ask(form, repos, repo, slug) ==
    IF Throws(repos[repo]) THEN [form EXCEPT !.failed = TRUE, !.repo = repo]
    ELSE Filled([form EXCEPT !.repo = repo], findChartInRepo(repos[repo], slug))

\* The second try, for a form that still has no version.
AskAgain(form, repos, repo, slug) ==
    IF form.failed \/ form.version # None \/ repo = None THEN form ELSE Ask(form, repos, repo, slug)

initializeInstallMode(repos, query, static, slug) ==
    LET blank == [failed |-> FALSE, repo |-> query, chart |-> slug, version |-> None]
    IN  AskAgain(IF query = None THEN blank ELSE Ask(blank, repos, query, slug),
                 repos, findRepoForApp(repos, static, slug), slug)

\* The repository is inferred without the version that is installed; that the repositories
\* cannot be listed is as if there were none.  secrets is None when no cluster is given,
\* or it does not answer.
initializeManageMode(repos, secrets, releaseName) ==
    LET details == getInstalledHelmDetails(secrets, releaseName)
    IN  IF secrets = None THEN [failed |-> TRUE, repo |-> None, chart |-> releaseName, version |-> None]
        ELSE
        [failed |-> FALSE, repo |-> inferClusterRepoForChart(repos, details.chartName, None),
         chart |-> details.chartName, version |-> details.chartVersion]

\* The newest version unless there is one; nothing to list without a repository.
Offered(form, versions) ==
    IF form.version = None /\ versions # <<>> THEN [form EXCEPT !.version = versions[1]] ELSE form
refreshVersions(form, repos) ==
    IF form.failed \/ form.repo = None THEN form
    ELSE IF Throws(repos[form.repo]) THEN [form EXCEPT !.failed = TRUE]
    ELSE Offered(form, listChartVersions(repos[form.repo], form.chart))

\* The namespaces to choose from, and the one chosen.  clusters is None if they cannot be
\* listed, or has for each its namespaces, None if they cannot be; system are the names
\* with one of the system's prefixes, which <slug>-system may be too.
fetchAllNamespaces(clusters, system, own, install, chosen) ==
    IF clusters = None THEN [options |-> {}, namespace |-> chosen]
    ELSE [options |-> ((UNION (clusters \ {None})) \ system) \cup {own},
          namespace |-> IF install THEN own ELSE chosen]

\* onMounted: a failed opening stops before the namespaces, and shows its error.
Mounted(form, clusters, system, own, install, chosen) ==
    IF form.failed THEN [options |-> {}, namespace |-> chosen, banner |-> TRUE]
    ELSE LET listed == fetchAllNamespaces(clusters, system, own, install, chosen)
         IN  [options |-> listed.options, namespace |-> listed.namespace, banner |-> FALSE]

-----------------------------------------------------------------------------
(* Laws *)

\* Once something is offered a new release's namespace is on offer, and so is the one of
\* the release that is managed unless it is a system's or its cluster did not answer;
\* nothing is offered, without a word, when the clusters cannot be listed.
NamespacesFit(form, clusters, system, own, install, chosen) ==
    LET shown == Mounted(form, clusters, system, own, install, chosen)
    IN  /\ shown.options # {} => own \in shown.options /\ shown.options \cap system \subseteq {own}
        /\ shown.options # {} /\ shown.namespace \notin shown.options =>
              /\ ~install
              /\ chosen \in system \/ \A names \in clusters \ {None} : chosen \notin names
        /\ shown.options = {} /\ ~shown.banner => clusters = None

\* To install, the version shown is the newest its repository lists under that name; one
\* is missing only if the repository shown lists none, though another may (the one the
\* catalogue names is not given up for it), and the opening fails only if that index
\* cannot be fetched.
InstallOpens(repos, query, static, slug) ==
    LET form == refreshVersions(initializeInstallMode(repos, query, static, slug), repos)
        listed == IF form.repo = None THEN <<>> ELSE listChartVersions(repos[form.repo], form.chart)
    IN  /\ form.version # None => listed[1] = form.version
        /\ form.version = None => listed = <<>>
        /\ form.failed <=> form.repo # None /\ Throws(repos[form.repo])
        /\ form.version = None /\ ~form.failed =>
              \A n \in DOMAIN repos : findChartInRepo(repos[n], slug) # None =>
                  static # None \/ (\E m \in 1 .. n - 1 : Entry(repos[m], slug) # None)

\* To manage, the form opens whether or not the release exists if its cluster answers, and shows the installed
\* version when it is known.  It is one the repository shown lists unless it is not
\* released or an earlier repository has a chart of that name without it; of a release
\* that is not there the newest version of a chart with the release's name is shown.
ManageOpens(repos, secrets, releaseName) ==
    LET form == refreshVersions(initializeManageMode(repos, secrets, releaseName), repos)
        secret == IF secrets = None THEN None ELSE findHelmReleaseObjects(secrets)
        listed == IF form.repo = None THEN {} ELSE ToSet(listChartVersions(repos[form.repo], form.chart))
        Lists(r) == form.version \in ToSet(listChartVersions(r, form.chart))
    IN  /\ form.failed <=> secrets = None
        /\ secret # None => form.version = secret.release.version /\ form.chart = secret.release.name
        /\ secret = None => form.chart = releaseName /\ (form.version # None => form.version \in listed)
        /\ form.version # None /\ form.version \notin listed =>
              \A n \in DOMAIN repos : Lists(repos[n]) =>
                  \E m \in 1 .. n - 1 : Entry(repos[m], form.chart) # None /\ ~Lists(repos[m])
===============================================================================
