------------------------- MODULE InstallAIExtension -------------------------
(***************************************************************************)
(* The reconciler of suse-ai-operator for one InstallAIExtension resource. *)
(*                                                                         *)
(* One action per call the reconciler makes to the API server or to Helm.  *)
(* Between two calls users edit or delete the resource, the informer cache *)
(* catches up, deployments change readiness, a call fails, the operator    *)
(* crashes.                                                                *)
(*                                                                         *)
(* Abstractions.  A chart reference (url, version, values) and a git       *)
(* reference (repo, branch) are both a member of Revs.  The "-server"      *)
(* suffix of the deployment release is the tag of its release name, so a   *)
(* deployment release and a UIPlugin release never share a name.  Time is  *)
(* only whether the waiting-since annotation is older than the readiness   *)
(* timeout.                                                                *)
(***************************************************************************)
EXTENDS Naturals

CONSTANTS
    Names,       \* values of spec.source.helm.name and spec.extension.name
    Revs,        \* contents of a helm chart reference or of a git reference
    Versions,    \* extension versions
    UserSpecs,   \* the specs users submit
    None,        \* the empty string, the absent value
    MaxEdits,    \* bound on creations and edits of the resource
    MaxFaults,   \* bound on failing calls
    MaxCrashes   \* bound on operator crashes

Policies == {"managed", "unmanaged"}

SpecType == [src : {"helm", "git"}, helm : Names \union {None}, rev : Revs,
             ext : Names, version : Versions \union {None}, policy : Policies]

\* The validation rules of the CRD; an empty version means "track the latest".
ValidSpec(s) ==
    /\ s.src = "helm" => /\ s.helm # None
                         /\ s.version # None
                         /\ s.policy = "managed"
    /\ s.src = "git" => s.helm = None

ASSUME NamesAssumption == None \notin Names /\ None \notin Versions
ASSUME SpecsAssumption == /\ UserSpecs \subseteq SpecType
                          /\ \A s \in UserSpecs : ValidSpec(s)
ASSUME BoundsAssumption == {MaxEdits, MaxFaults, MaxCrashes} \subseteq Nat

Server(n) == <<"server", n>>     \* the deployment's helm release, <n>-server
UI(n)     == <<"ui", n>>         \* the UIPlugin's helm release
Releases  == {"server", "ui"} \X Names

VARIABLES
    cr,         \* the resource in the API server
    event,      \* a watch event for it is on its way
    cached,     \* the copy of it in the operator's informer cache
    ext,        \* installExt, the reconciler's own copy
    pc,         \* the next call of the reconciler
    svc,        \* the release whose service svcURL names
    resolved,   \* resolvedVersion
    tracking,   \* requeueAfter is set
    queued,     \* the key is in the work queue
    timer,      \* a RequeueAfter is pending
    releases,   \* helm: the latest revision of each release
    ready,      \* releases whose deployments are all ready
    repos,      \* ClusterRepo objects: where they point
    plugins,    \* UIPlugin objects
    edits, faults, crashes

operatorVars == <<pc, ext, svc, resolved, tracking, queued, timer>>
clusterVars  == <<releases, ready, repos, plugins>>
budgetVars   == <<edits, faults, crashes>>
apiVars == <<cr, event>>
vars == <<apiVars, cached, operatorVars, clusterVars, budgetVars>>

-----------------------------------------------------------------------------
(* The resource and the objects of the cluster.                            *)

LastType == [source : {"none", "helm", "git"}, server : Names \union {None},
             repo : Names \union {None}, ui : Names \union {None},
             policy : Policies \union {"none"}]

\* The last-* annotations before updateSourceAnnotations has run.
NoLast == [source |-> "none", server |-> None, repo |-> None, ui |-> None,
           policy |-> "none"]

Phases == {"Unset", "Installing", "Installed", "Failed"}

ResourceType ==
    [present : BOOLEAN, deleting : BOOLEAN, finalizer : BOOLEAN,
     spec : UserSpecs \union {None}, last : LastType,
     waiting : {"no", "fresh", "expired"}, phase : Phases,
     resolved : Versions \union {None}]

NoResource ==
    [present |-> FALSE, deleting |-> FALSE, finalizer |-> FALSE, spec |-> None,
     last |-> NoLast, waiting |-> "no", phase |-> "Unset", resolved |-> None]

NewResource(s) == [NoResource EXCEPT !.present = TRUE, !.spec = s]

Statuses == {"absent", "pending-install", "pending-upgrade", "deployed", "failed"}
Pending  == {"pending-install", "pending-upgrade"}
ReleaseType == [status : Statuses, content : Revs \union Versions \union {None}]
NoRelease   == [status |-> "absent", content |-> None]

EndpointType == [kind : {"none", "svc", "git"}, at : Names \union Revs \union {None}]
NoEndpoint   == [kind |-> "none", at |-> None]

PluginType == [owner : {"none", "operator", "helm"},
               version : Versions \union {None}, at : EndpointType]
NoPlugin   == [owner |-> "none", version |-> None, at |-> NoEndpoint]

Labels == {"idle", "addFinalizer", "cleanRelease", "cleanRepo", "cleanPlugin",
           "ensureRelease", "helmServer", "service", "readiness", "notReady",
           "markWaiting", "clearWaiting", "resolve", "ensureRepo",
           "ensurePlugin", "helmUI", "annotate", "finish", "setFailed",
           "delRelease", "delUI", "delPlugin", "delRepo", "dropFinalizer"}

TypeOK ==
    /\ cr \in ResourceType /\ cached \in ResourceType /\ ext \in ResourceType
    /\ pc \in Labels
    /\ svc \in Names \union {None}
    /\ resolved \in Versions \union {None}
    /\ event \in BOOLEAN /\ tracking \in BOOLEAN /\ queued \in BOOLEAN /\ timer \in BOOLEAN
    /\ releases \in [Releases -> ReleaseType]
    /\ ready \subseteq Releases
    /\ repos \in [Names -> EndpointType]
    /\ plugins \in [Names -> PluginType]
    /\ edits \in Nat /\ faults \in Nat /\ crashes \in Nat

\* Before any resource: the operator is idle and the cluster empty.
Empty ==
    /\ cr = NoResource /\ event = FALSE
    /\ cached = NoResource /\ ext = NoResource
    /\ pc = "idle" /\ svc = None /\ resolved = None /\ tracking = FALSE
    /\ queued = FALSE /\ timer = FALSE
    /\ releases = [r \in Releases |-> NoRelease] /\ ready = {}
    /\ repos = [n \in Names |-> NoEndpoint]
    /\ plugins = [n \in Names |-> NoPlugin]

Init == Empty /\ edits = 0 /\ faults = 0 /\ crashes = 0

\* clusterRepoName
RepoName(s) == IF s.src = "helm" THEN s.helm ELSE s.ext

\* Mutant: the git repository read at the extension's version, not at its branch.
EndpointAtVersion ==
    IF ext.spec.src = "helm" THEN [kind |-> "svc", at |-> svc]
                             ELSE [kind |-> "git", at |-> ext.spec.version]

\* Where the ClusterRepo and the plugin endpoint point.
Endpoint ==
    IF ext.spec.src = "helm" THEN [kind |-> "svc", at |-> svc]
                             ELSE [kind |-> "git", at |-> ext.spec.rev]

\* What updateSourceAnnotations records of a spec.
LastOf(s) == [source |-> s.src, server |-> s.helm, repo |-> RepoName(s),
              ui |-> s.ext, policy |-> s.policy]

-----------------------------------------------------------------------------
(* Control flow of the reconciler.                                         *)

Goto(label) ==
    /\ pc' = label
    /\ UNCHANGED <<ext, svc, resolved, tracking, queued, timer>>

\* Return from Reconcile; an error or Requeue puts the key back in the queue,
\* RequeueAfter arms the timer.
Return(requeue, after) ==
    /\ pc' = "idle" /\ ext' = NoResource
    /\ svc' = None /\ resolved' = None /\ tracking' = FALSE
    /\ queued' = (queued \/ requeue)
    /\ timer' = (timer \/ after)

ReturnError == Return(TRUE, FALSE)

NoFault == UNCHANGED budgetVars
Fault   == /\ faults < MaxFaults /\ faults' = faults + 1
           /\ UNCHANGED <<edits, crashes>>

\* A merge patch sends the fields in which the reconciler's new copy differs
\* from its old one; the others keep the server's value.
Merge(new, old, server) == IF new # old THEN new ELSE server

Patched(new) ==
    [present |-> cr.present, deleting |-> cr.deleting, spec |-> cr.spec,
     finalizer |-> Merge(new.finalizer, ext.finalizer, cr.finalizer),
     last |-> [source |-> Merge(new.last.source, ext.last.source, cr.last.source),
               server |-> Merge(new.last.server, ext.last.server, cr.last.server),
               repo   |-> Merge(new.last.repo, ext.last.repo, cr.last.repo),
               ui     |-> Merge(new.last.ui, ext.last.ui, cr.last.ui),
               policy |-> Merge(new.last.policy, ext.last.policy, cr.last.policy)],
     waiting  |-> Merge(new.waiting, ext.waiting, cr.waiting),
     phase    |-> Merge(new.phase, ext.phase, cr.phase),
     resolved |-> Merge(new.resolved, ext.resolved, cr.resolved)]

\* A write that changes the resource makes a watch event.
Write(new) == cr' = new /\ event' = (event \/ new # cr)

\* A patch the reconciler goes on from: the response replaces its copy.
PatchThen(new, label) ==
    /\ cr.present /\ NoFault
    /\ Write(Patched(new)) /\ ext' = cr'
    /\ pc' = label
    /\ UNCHANGED <<svc, resolved, tracking, queued, timer>>

\* A patch that is the last call of a reconcile.
PatchAndReturn(new, requeue, after) ==
    /\ cr.present /\ NoFault
    /\ Write(Patched(new))
    /\ Return(requeue, after)

\* A patch that fails: the resource is gone, or the call does.
PatchFails ==
    /\ IF cr.present THEN Fault ELSE NoFault
    /\ UNCHANGED apiVars /\ ReturnError

Reads == UNCHANGED <<apiVars, cached, clusterVars>>

\* Reconcile reads the resource from the informer cache.
Begin(label) ==
    /\ pc = "idle" /\ queued
    /\ pc' = label /\ ext' = cached /\ queued' = FALSE
    /\ UNCHANGED <<svc, resolved, tracking, timer>> /\ NoFault /\ Reads

ReconcileLive == /\ cached.present /\ ~cached.deleting
                 /\ Begin(IF cached.finalizer THEN "cleanRelease" ELSE "addFinalizer")

ReconcileDeleting == /\ cached.present /\ cached.deleting /\ cached.finalizer
                     /\ Begin("delRelease")

ReconcileGone ==
    /\ pc = "idle" /\ queued
    /\ ~(cached.present /\ (cached.deleting => cached.finalizer))
    /\ queued' = FALSE
    /\ UNCHANGED <<pc, ext, svc, resolved, tracking, timer>> /\ NoFault /\ Reads

AddFinalizer ==
    /\ pc = "addFinalizer"
    /\ PatchAndReturn([ext EXCEPT !.finalizer = TRUE], TRUE, FALSE) \/ PatchFails
    /\ UNCHANGED <<cached, clusterVars>>

-----------------------------------------------------------------------------
(* Calls that change the cluster.  Helm's Uninstall removes the release's  *)
(* objects; a release in a pending state can be uninstalled like any other. *)

DeleteRelease(r) ==
    /\ releases' = [releases EXCEPT ![r] = NoRelease]
    /\ ready' = ready \ {r}
    /\ plugins' = IF r[1] = "ui" /\ plugins[r[2]].owner = "helm"
                  THEN [plugins EXCEPT ![r[2]] = NoPlugin]
                  ELSE plugins
    /\ UNCHANGED repos

DeleteRepo(n)   == /\ repos' = [repos EXCEPT ![n] = NoEndpoint]
                   /\ UNCHANGED <<releases, ready, plugins>>

DeletePlugin(n) == /\ plugins' = [plugins EXCEPT ![n] = NoPlugin]
                   /\ UNCHANGED <<releases, ready, repos>>

SetRelease(r, status, content) ==
    /\ releases' = [releases EXCEPT ![r] = [status |-> status, content |-> content]]
    /\ UNCHANGED repos

\* A step that makes one call which changes the cluster, or no call at all.
Call(change, to) == change /\ Goto(to) /\ NoFault /\ UNCHANGED <<apiVars, cached>>
Skip(to)         == Goto(to) /\ NoFault /\ Reads

\* A call that fails without effect: the phase becomes Failed.
CallFails == Goto("setFailed") /\ Fault /\ Reads

-----------------------------------------------------------------------------
(* detectAndCleanupSourceChange.                                           *)

\* Mutant: only a change of the kind of source is noticed.
StaleServerOfSource(e) ==
    { n \in Names : n = e.last.server /\ e.last.source = "helm" /\ e.spec.src = "git" }

\* The deployment release the annotations name and the spec gave up.
StaleServer(e) ==
    { n \in Names : /\ n = e.last.server
                    /\ \/ e.last.source = "helm" /\ e.spec.src = "git"
                       \/ e.spec.src = "helm" /\ e.spec.helm # n }

StaleRepo(e) == { n \in Names : n = e.last.repo /\ n # RepoName(e.spec) }

LastPolicy(e) == IF e.last.policy = "none" THEN "managed" ELSE e.last.policy

AfterCleanup == IF ext.spec.src = "helm" THEN "ensureRelease" ELSE "resolve"

\* With no source recorded there is nothing to clean up.
CleanRelease ==
    /\ pc = "cleanRelease"
    /\ \/ ext.last.source = "none" /\ Skip(AfterCleanup)
       \/ /\ ext.last.source # "none" /\ StaleServer(ext) = {}
          /\ Skip("cleanRepo")
       \/ /\ ext.last.source # "none"
          /\ \E n \in StaleServer(ext) : \/ Call(DeleteRelease(Server(n)), "cleanRepo")
                                         \/ CallFails

CleanRepo ==
    /\ pc = "cleanRepo"
    /\ \/ StaleRepo(ext) = {} /\ Skip("cleanPlugin")
       \/ \E n \in StaleRepo(ext) : Call(DeleteRepo(n), "cleanPlugin") \/ CallFails

\* A change of version policy hands the UIPlugin from one owner to the other.
CleanPlugin ==
    /\ pc = "cleanPlugin"
    /\ \/ LastPolicy(ext) = ext.spec.policy /\ Skip(AfterCleanup)
       \/ /\ LastPolicy(ext) = "unmanaged" /\ ext.spec.policy = "managed"
          /\ Call(DeleteRelease(UI(ext.last.ui)), AfterCleanup) \/ CallFails
       \/ /\ LastPolicy(ext) = "managed" /\ ext.spec.policy = "unmanaged"
          /\ Call(DeletePlugin(ext.spec.ext), AfterCleanup) \/ CallFails

-----------------------------------------------------------------------------
(* Helm: EnsureRelease, and the install or upgrade it starts.              *)

\* The release record is written in a pending state before anything is applied.
Install(r, content, to) ==
    /\ releases[r].status = "absent"
    /\ Call(SetRelease(r, "pending-install", content) /\ UNCHANGED <<ready, plugins>>, to)

\* The manifest is compared with that of the latest revision, deployed or failed.
UpToDate(r, content) == releases[r].content = content

Upgrade(r, content, to) ==
    /\ releases[r].status \in {"deployed", "failed"} /\ ~UpToDate(r, content)
    /\ Call(SetRelease(r, "pending-upgrade", content) /\ UNCHANGED <<ready, plugins>>, to)

\* Helm renders no upgrade over a pending revision.
HelmRefuses(r) == releases[r].status \in Pending /\ Skip("setFailed")

EnsureRelease ==
    /\ pc = "ensureRelease"
    /\ LET r == Server(ext.spec.helm) IN
       \/ Install(r, ext.spec.rev, "helmServer")
       \/ Upgrade(r, ext.spec.rev, "helmServer")
       \/ /\ releases[r].status \in {"deployed", "failed"} /\ UpToDate(r, ext.spec.rev)
          /\ Skip("service")
       \/ HelmRefuses(r)
       \/ CallFails

\* An upgrade waits for its deployments (Wait, 10 minutes), an install does not.
HelmServerDone ==
    /\ pc = "helmServer"
    /\ LET r == Server(ext.spec.helm) IN
       Call(/\ SetRelease(r, "deployed", releases[r].content)
            /\ ready' = IF releases[r].status = "pending-upgrade"
                        THEN ready \union {r} ELSE ready
            /\ UNCHANGED plugins,
            "service")

HelmServerFails ==
    /\ pc = "helmServer" /\ Goto("setFailed") /\ Fault
    /\ LET r == Server(ext.spec.helm) IN
       SetRelease(r, "failed", releases[r].content) /\ ready' \in {ready, ready \ {r}}
    /\ UNCHANGED <<apiVars, cached, plugins>>

\* ServiceForHelmRelease and ServiceEndpoint; a release that failed may have no service.
FindService ==
    /\ pc = "service"
    /\ \/ /\ svc' = ext.spec.helm /\ pc' = "readiness"
          /\ UNCHANGED <<ext, resolved, tracking, queued, timer>> /\ NoFault /\ Reads
       \/ releases[Server(ext.spec.helm)].status = "failed" /\ Skip("setFailed")
       \/ CallFails

-----------------------------------------------------------------------------
(* Readiness of the deployment, handleNotReady.                            *)

CheckReadiness ==
    /\ pc = "readiness"
    /\ LET isReady == Server(ext.spec.helm) \in ready IN
       \/ isReady /\ ext.waiting = "no" /\ Skip("resolve")
       \/ isReady /\ ext.waiting # "no" /\ Skip("clearWaiting")
       \/ ~isReady /\ Skip("notReady")
       \/ isReady /\ Goto("notReady") /\ Fault /\ Reads     \* listing them failed

\* The response to the patch replaces installExt, its spec included.
ClearWaiting ==
    /\ pc = "clearWaiting"
    /\ PatchThen([ext EXCEPT !.waiting = "no"], "resolve") \/ PatchFails
    /\ UNCHANGED <<cached, clusterVars>>

NotReady ==
    /\ pc = "notReady"
    /\ \/ ext.phase = "Installing" /\ Skip("markWaiting")
       \/ /\ ext.phase # "Installing"
          /\ PatchThen([ext EXCEPT !.phase = "Installing"], "markWaiting") \/ PatchFails
          /\ UNCHANGED <<cached, clusterVars>>

MarkWaiting ==
    /\ pc = "markWaiting"
    /\ \/ /\ ext.waiting = "no"
          /\ \/ PatchAndReturn([ext EXCEPT !.waiting = "fresh"], FALSE, TRUE)
             \/ PatchFails
       \/ /\ ext.waiting = "fresh"
          /\ Return(FALSE, TRUE) /\ NoFault /\ UNCHANGED apiVars
       \/ /\ ext.waiting = "expired"
          /\ \/ PatchAndReturn([ext EXCEPT !.phase = "Failed"], FALSE, FALSE)
             \/ PatchFails
    /\ UNCHANGED <<cached, clusterVars>>

-----------------------------------------------------------------------------
(* The Rancher resources.                                                  *)

TracksLatest(s) == s.policy = "managed" /\ s.version = None

\* ResolveLatestVersion reads the version from the repository's index.
Resolve ==
    /\ pc = "resolve"
    /\ \/ /\ tracking' = TracksLatest(ext.spec)
          /\ resolved' \in IF TracksLatest(ext.spec) THEN Versions ELSE {ext.spec.version}
          /\ pc' = "ensureRepo"
          /\ UNCHANGED <<ext, svc, queued, timer>> /\ NoFault /\ Reads
       \/ TracksLatest(ext.spec) /\ CallFails

\* Manager.Ensure: CheckCRDs, then CreateOrUpdate of the ClusterRepo.
EnsureRepo ==
    /\ pc = "ensureRepo"
    /\ \/ Call(/\ repos' = [repos EXCEPT ![RepoName(ext.spec)] = Endpoint]
               /\ UNCHANGED <<releases, ready, plugins>>,
               "ensurePlugin")
       \/ CallFails

\* Managed: CreateOrUpdate of the UIPlugin; an existing one keeps its owner.
EnsureUIPlugin ==
    /\ pc = "ensurePlugin" /\ ext.spec.policy = "managed"
    /\ \/ Call(/\ plugins' = [plugins EXCEPT ![ext.spec.ext] =
                    [owner |-> IF @.owner = "none" THEN "operator" ELSE @.owner,
                     version |-> resolved, at |-> Endpoint]]
               /\ UNCHANGED <<releases, ready, repos>>,
               "annotate")
       \/ CallFails

\* Mutant: EnsureRelease without the look at the release that comes before it.
EnsureUIPluginReleaseAlways ==
    /\ pc = "ensurePlugin" /\ ext.spec.policy = "unmanaged"
    /\ LET n == ext.spec.ext IN
       \/ Install(UI(n), ext.spec.version, "helmUI")
       \/ Upgrade(UI(n), ext.spec.version, "helmUI")
       \/ /\ releases[UI(n)].status \in {"deployed", "failed"}
          /\ UpToDate(UI(n), ext.spec.version)
          /\ Skip("annotate")
       \/ CallFails

\* Unmanaged: install the extension chart unless its release exists.  Helm does
\* not install over an object it does not own.
EnsureUIPluginRelease ==
    /\ pc = "ensurePlugin" /\ ext.spec.policy = "unmanaged"
    /\ LET n == ext.spec.ext
           free == plugins[n].owner = "none" IN
       \/ releases[UI(n)].status # "absent" /\ Skip("annotate")
       \/ free /\ Install(UI(n), ext.spec.version, "helmUI")
       \/ ~free /\ releases[UI(n)].status = "absent" /\ Skip("setFailed")
       \/ CallFails

\* The chart holds the UIPlugin; no version means the newest in the repository.
ChartVersions(wanted) == IF wanted = None THEN Versions ELSE {wanted}

HelmUIDone ==
    /\ pc = "helmUI"
    /\ LET n == ext.spec.ext IN
       \E v \in ChartVersions(releases[UI(n)].content) :
          Call(/\ SetRelease(UI(n), "deployed", v)
               /\ plugins' = [plugins EXCEPT ![n] =
                     [owner |-> "helm", version |-> v, at |-> Endpoint]]
               /\ UNCHANGED ready,
               "annotate")

HelmUIFails ==
    /\ pc = "helmUI" /\ Goto("setFailed") /\ Fault
    /\ LET r == UI(ext.spec.ext) IN SetRelease(r, "failed", releases[r].content)
    /\ UNCHANGED <<apiVars, cached, ready, plugins>>

-----------------------------------------------------------------------------
(* updateSourceAnnotations and the status.                                 *)

Annotate ==
    /\ pc = "annotate"
    /\ \/ ext.last = LastOf(ext.spec) /\ Skip("finish")
       \/ /\ ext.last # LastOf(ext.spec)
          /\ PatchThen([ext EXCEPT !.last = LastOf(ext.spec)], "finish") \/ PatchFails
          /\ UNCHANGED <<cached, clusterVars>>

\* An empty resolvedVersion leaves the one in the status alone.
InstalledStatus ==
    [ext EXCEPT !.phase = "Installed",
                !.resolved = IF resolved = None THEN ext.resolved ELSE resolved]

Finish ==
    /\ pc = "finish"
    /\ \/ /\ ext.phase = "Installed" /\ ext.resolved = resolved
          /\ Return(FALSE, tracking) /\ NoFault /\ UNCHANGED apiVars
       \/ /\ ~(ext.phase = "Installed" /\ ext.resolved = resolved)
          /\ PatchAndReturn(InstalledStatus, FALSE, tracking) \/ PatchFails
    /\ UNCHANGED <<cached, clusterVars>>


\* setStatus(Failed) after an error; its own error is only logged.
SetFailed ==
    /\ pc = "setFailed"
    /\ PatchAndReturn([ext EXCEPT !.phase = "Failed"], TRUE, FALSE) \/ PatchFails
    /\ UNCHANGED <<cached, clusterVars>>

-----------------------------------------------------------------------------
(* handleDeletion: a failing call ends the reconcile with an error.        *)

\* Mutant: the error of handleDeletion is not returned.
DeletionFailsQuietly == Fault /\ Return(FALSE, FALSE) /\ Reads

DeletionFails == Fault /\ ReturnError /\ Reads

\* Mutant: the release is looked up in the annotations alone.
DoomedServerRecorded(e) ==
    { n \in Names : e.last.source = "helm" /\ n = e.last.server }

\* The deployment release named by the spec, or by the annotations when the
\* last reconciled source was helm.
DoomedServer(e) ==
    { n \in Names : IF e.spec.src = "helm" THEN n = e.spec.helm
                    ELSE e.last.source = "helm" /\ n = e.last.server }

DoomedUI(e) == { n \in Names : /\ e.last.policy = "unmanaged"
                               /\ n = IF e.last.ui # None THEN e.last.ui ELSE e.spec.ext }

DeleteServer ==
    /\ pc = "delRelease"
    /\ \/ DoomedServer(ext) = {} /\ Skip("delUI")
       \/ \E n \in DoomedServer(ext) : \/ Call(DeleteRelease(Server(n)), "delUI")
                                       \/ DeletionFails

DeleteUI ==
    /\ pc = "delUI"
    /\ \/ DoomedUI(ext) = {} /\ Skip("delPlugin")
       \/ \E n \in DoomedUI(ext) : \/ Call(DeleteRelease(UI(n)), "delPlugin")
                                   \/ DeletionFails

\* Manager.Cleanup
CleanupPlugin == /\ pc = "delPlugin"
                 /\ Call(DeletePlugin(ext.spec.ext), "delRepo") \/ DeletionFails

\* Mutant: the ClusterRepo of a helm source takes the name of the extension.
CleanupRepoOfExtension == /\ pc = "delRepo"
                          /\ \/ Call(DeleteRepo(ext.spec.ext), "dropFinalizer")
                             \/ DeletionFails

CleanupRepo == /\ pc = "delRepo"
               /\ \/ Call(DeleteRepo(RepoName(ext.spec)), "dropFinalizer")
                  \/ DeletionFails

\* Removing the finalizer of a resource being deleted removes the resource;
\* NotFound is not an error.
RemoveFinalizer ==
    /\ pc = "dropFinalizer"
    /\ \/ /\ cr.present /\ cr.deleting
          /\ Write(NoResource) /\ Return(FALSE, FALSE) /\ NoFault
       \/ /\ cr.present /\ ~cr.deleting
          /\ PatchAndReturn([ext EXCEPT !.finalizer = FALSE], FALSE, FALSE)
       \/ ~cr.present /\ UNCHANGED apiVars /\ Return(FALSE, FALSE) /\ NoFault
       \/ cr.present /\ PatchFails
    /\ UNCHANGED <<cached, clusterVars>>

Operator ==
    \/ ReconcileLive \/ ReconcileDeleting \/ ReconcileGone \/ AddFinalizer
    \/ CleanRelease \/ CleanRepo \/ CleanPlugin
    \/ EnsureRelease \/ HelmServerDone \/ HelmServerFails \/ FindService
    \/ CheckReadiness \/ ClearWaiting \/ NotReady \/ MarkWaiting
    \/ Resolve \/ EnsureRepo \/ EnsureUIPlugin \/ EnsureUIPluginRelease
    \/ HelmUIDone \/ HelmUIFails \/ Annotate \/ Finish \/ SetFailed
    \/ DeleteServer \/ DeleteUI \/ CleanupPlugin \/ CleanupRepo \/ RemoveFinalizer

-----------------------------------------------------------------------------
(* The rest of the world.                                                  *)

\* A watch event: the cache catches up and the key is enqueued.
CacheSync ==
    /\ event /\ event' = FALSE
    /\ cached' = cr /\ queued' = TRUE
    /\ UNCHANGED <<cr, ext, pc, svc, resolved, tracking, timer, clusterVars, budgetVars>>

TimerFires ==
    /\ timer /\ timer' = FALSE /\ queued' = TRUE
    /\ UNCHANGED <<apiVars, cached, ext, pc, svc, resolved, tracking, clusterVars, budgetVars>>

\* The readiness timeout passes for the recorded waiting-since.
Aged(e) == [e EXCEPT !.waiting = IF @ = "fresh" THEN "expired" ELSE @]

ReadinessTimeout ==
    /\ "fresh" \in {cr.waiting, cached.waiting, ext.waiting}
    /\ cr' = Aged(cr) /\ cached' = Aged(cached) /\ ext' = Aged(ext)
    /\ UNCHANGED <<event, pc, svc, resolved, tracking, queued, timer, clusterVars, budgetVars>>

\* The operator stops anywhere and starts again: its memory is gone, the cache
\* is filled by a list, every resource is enqueued.
Crash ==
    /\ crashes < MaxCrashes /\ crashes' = crashes + 1
    /\ pc' = "idle" /\ ext' = NoResource
    /\ svc' = None /\ resolved' = None /\ tracking' = FALSE
    /\ cached' = cr /\ event' = FALSE
    /\ queued' = cr.present /\ timer' = FALSE
    /\ UNCHANGED <<cr, clusterVars, edits, faults>>

BecomeReady(n) ==
    /\ releases[Server(n)].status # "absent"
    /\ Server(n) \notin ready /\ ready' = ready \union {Server(n)}
    /\ UNCHANGED <<apiVars, cached, operatorVars, releases, repos, plugins, budgetVars>>

LoseReadiness(n) ==
    /\ Server(n) \in ready /\ ready' = ready \ {Server(n)} /\ Fault
    /\ UNCHANGED <<apiVars, cached, operatorVars, releases, repos, plugins>>

World == \/ CacheSync \/ TimerFires \/ ReadinessTimeout \/ Crash
         \/ \E n \in Names : BecomeReady(n) \/ LoseReadiness(n)

\* Users of the resource.
EditBudget == /\ edits < MaxEdits /\ edits' = edits + 1
              /\ UNCHANGED <<faults, crashes>>

UserCreate ==
    /\ ~cr.present /\ EditBudget
    /\ \E s \in UserSpecs : Write(NewResource(s))
    /\ UNCHANGED <<cached, operatorVars, clusterVars>>

UserEdit ==
    /\ cr.present /\ EditBudget
    /\ \E s \in UserSpecs \ {cr.spec} : Write([cr EXCEPT !.spec = s])
    /\ UNCHANGED <<cached, operatorVars, clusterVars>>

UserDelete ==
    /\ cr.present /\ ~cr.deleting
    /\ Write(IF cr.finalizer THEN [cr EXCEPT !.deleting = TRUE] ELSE NoResource)
    /\ UNCHANGED <<cached, operatorVars, clusterVars, budgetVars>>

\* Users of Rancher's Extensions page, where an unmanaged extension can be
\* upgraded, downgraded and uninstalled.
UIUpgrade(n) ==
    /\ releases[UI(n)].status = "deployed" /\ plugins[n].owner = "helm"
    /\ \E v \in Versions \ {releases[UI(n)].content} :
         /\ SetRelease(UI(n), "deployed", v)
         /\ plugins' = [plugins EXCEPT ![n].version = v]
    /\ UNCHANGED <<apiVars, cached, operatorVars, ready, budgetVars>>

UIUninstall(n) ==
    /\ releases[UI(n)].status \in {"deployed", "failed"}
    /\ DeleteRelease(UI(n))
    /\ UNCHANGED <<apiVars, cached, operatorVars, budgetVars>>

RancherUser == \E n \in Names : UIUpgrade(n) \/ UIUninstall(n)

-----------------------------------------------------------------------------
(* Environments: users who edit at any time, with Rancher's users or        *)
(* without, who never edit a resource they created, and who wait for        *)
(* Installed before they change it.                                         *)
(* EitherSpec has two in one: users who edit at any time, while nothing     *)
(* fails, and users who wait, while calls fail and the operator crashes.    *)
(* They differ in the budget of faults and crashes, which the first have    *)
(* overdrawn from the start.                                                *)

Settled == /\ cr.present /\ ~cr.deleting /\ cr.phase = "Installed"
           /\ pc = "idle" /\ ~queued /\ ~event

Next        == Operator \/ World \/ UserCreate \/ UserEdit \/ UserDelete \/ RancherUser
StableNext  == Operator \/ World \/ UserCreate \/ UserDelete
EditNext    == StableNext \/ UserEdit
SettledNext == \/ Operator \/ World \/ UserCreate
               \/ Settled /\ (UserEdit \/ UserDelete)

Eager == crashes > MaxCrashes

EagerInit == Empty /\ edits = 0 /\ faults = MaxFaults + 1 /\ crashes = MaxCrashes + 1

EitherNext == \/ Operator \/ World \/ UserCreate
              \/ (Eager \/ Settled) /\ (UserEdit \/ UserDelete)
              \/ Eager /\ RancherUser

Spec        == Init /\ [][Next]_vars
StableSpec  == Init /\ [][StableNext]_vars
EditSpec    == Init /\ [][EditNext]_vars
SettledSpec == Init /\ [][SettledNext]_vars
EitherSpec  == (Init \/ EagerInit) /\ [][EitherNext]_vars

\* The work queue, the watch and the timers always run; the deployments of a deployed
\* release become ready in the end, those of a failed one may never.  Failing calls are
\* bounded by MaxFaults.
Fairness ==
    /\ WF_vars(Operator) /\ WF_vars(CacheSync) /\ WF_vars(TimerFires)
    /\ \A n \in Names : WF_vars(releases[Server(n)].status = "deployed" /\ BecomeReady(n))

FairStableSpec  == StableSpec /\ Fairness
FairSettledSpec == SettledSpec /\ Fairness
FairEitherSpec  == EitherSpec /\ Fairness

-----------------------------------------------------------------------------
(* Properties.                                                             *)

Owned == [servers |-> {n \in Names : releases[Server(n)].status # "absent"},
          uis     |-> {n \in Names : releases[UI(n)].status # "absent"},
          repos   |-> {n \in Names : repos[n].kind # "none"},
          plugins |-> {n \in Names : plugins[n].owner # "none"}]

Nothing == [servers |-> {}, uis |-> {}, repos |-> {}, plugins |-> {}]

\* What a spec asks for.
Wanted(s) == [servers |-> {s.helm} \ {None},
              uis     |-> IF s.policy = "unmanaged" THEN {s.ext} ELSE {},
              repos   |-> {RepoName(s)},
              plugins |-> {s.ext}]

\* When the finalizer is about to go, what handleDeletion is there to remove is
\* gone: the deployment release, the recorded UIPlugin release, the UIPlugin and
\* the ClusterRepo of the resource being deleted.
FinalizerLast ==
    pc = "dropFinalizer" =>
        /\ \A n \in DoomedServer(ext) : releases[Server(n)].status = "absent"
        /\ \A n \in DoomedUI(ext) : releases[UI(n)].status = "absent"
        /\ repos[RepoName(ext.spec)].kind = "none"
        /\ plugins[ext.spec.ext].owner = "none"

\* Once the resource is gone nothing it brought into the cluster remains.
NoOrphans == ~cr.present => Owned = Nothing

\* The cluster holds the objects a spec asks for and no others, pointing at its
\* source; a managed extension is at the version the status shows.  (The UIPlugin of an
\* unmanaged one may be missing: its users may have uninstalled the release.)
Exact(s) ==
    LET owned == Owned
        wanted == Wanted(s) IN
    /\ owned.servers = wanted.servers /\ owned.uis = wanted.uis
    /\ owned.repos = wanted.repos /\ owned.plugins \subseteq wanted.plugins
    /\ s.src = "helm" => /\ releases[Server(s.helm)].content = s.rev
                         /\ repos[s.helm].at = s.helm
    /\ s.src = "git" => repos[s.ext].at = s.rev
    /\ s.policy = "managed" => /\ plugins[s.ext].version = cr.resolved
                               /\ plugins[s.ext].at = repos[RepoName(s)]

\* A resource that is Installed and settled has been applied exactly: what an
\* earlier spec of it brought into the cluster has been cleaned up.
InstalledIsExact == Settled => Exact(cr.spec)

\* With users who wait, the cluster is exactly as the spec they see Installed asks.
SettledIsExact == ~Eager => InstalledIsExact

\* While it applies an unmanaged spec the operator leaves a UIPlugin release that
\* exists alone, whatever its users made of it; only the install itself, which it
\* started when there was none, ends in its hands.
HandsOff ==
    [][/\ pc' # pc /\ pc # "helmUI"
       /\ ext.present /\ ~ext.deleting /\ ext.spec.policy = "unmanaged"
       => \A n \in Names : releases[UI(n)].status # "absent"
                              => releases'[UI(n)] = releases[UI(n)]]_vars

\* A resource marked for deletion goes away.
DeletionCompletes == cr.deleting ~> ~cr.present

\* A helm operation cut short: its release is pending and nobody works on it.
Interrupted == \E r \in DOMAIN releases :
                  releases[r].status \in Pending /\ pc \notin {"helmServer", "helmUI"}

\* The install or upgrade that the resource asks for has failed: its manifest is that of
\* the failed revision, so EnsureRelease finds it up to date and never tries again.
Abandoned == cr.present /\ cr.spec.src = "helm"
             /\ releases[Server(cr.spec.helm)] = [status |-> "failed", content |-> cr.spec.rev]

\* "lifecycle, validation, retries, and cleanup" (README.md, line 2): retries lead
\* to Installed also after a crash.
RetriesSucceed == <>[](cr.present => cr.phase = "Installed" /\ Exact(cr.spec))
=============================================================================
