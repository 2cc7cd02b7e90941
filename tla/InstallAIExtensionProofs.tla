---------------------- MODULE InstallAIExtensionProofs ----------------------
(***************************************************************************)
(* Theorems about the reconciler, for every set of names, versions and     *)
(* specs, every bound on edits, failing calls and crashes.                 *)
(***************************************************************************)
EXTENDS InstallAIExtension, TLAPS

-----------------------------------------------------------------------------
(* Type correctness.  It needs to know that a present resource has a spec, *)
(* and that a reconcile in progress has read a present resource.           *)

ApiOK == /\ cr \in ResourceType /\ cached \in ResourceType /\ event \in BOOLEAN
         /\ cr.present => cr.spec \in UserSpecs
         /\ cached.present => cached.spec \in UserSpecs

\* Where the reconciler works on the deployment release of a helm source.
HelmLabels == {"ensureRelease", "helmServer"}

ControlOK == /\ ext \in ResourceType /\ pc \in Labels
             /\ svc \in Names \union {None}
             /\ resolved \in Versions \union {None}
             /\ tracking \in BOOLEAN /\ queued \in BOOLEAN /\ timer \in BOOLEAN
             /\ pc # "idle" => ext.present /\ ext.spec \in UserSpecs
             /\ pc \in HelmLabels => ext.spec.src = "helm"

\* What a deployment release and what a UIPlugin release is rendered from.
Contents(r) == {None} \union IF r[1] = "server" THEN Revs ELSE Versions

ClusterOK == /\ releases \in [Releases -> ReleaseType]
             /\ \A r \in Releases : releases[r].content \in Contents(r)
             /\ ready \subseteq Releases
             /\ repos \in [Names -> EndpointType]
             /\ plugins \in [Names -> PluginType]

BudgetOK == edits \in Nat /\ faults \in Nat /\ crashes \in Nat

TypeInv == ApiOK /\ ControlOK /\ ClusterOK /\ BudgetOK

\* The inductive invariant is at least as strong as the type invariant.
LEMMA TypeInvType == TypeInv => TypeOK
  BY DEF TypeInv, TypeOK, ApiOK, ControlOK, ClusterOK, BudgetOK

\* The values that stand for an absent object are well-typed.
LEMMA NullTypes == /\ \A r : NoRelease.content \in Contents(r)
                   /\ NoResource \in ResourceType
                   /\ ~NoResource.present
                   /\ NoRelease \in ReleaseType
                   /\ NoEndpoint \in EndpointType
                   /\ NoPlugin \in PluginType
  BY DEF NoResource, ResourceType, NoLast, LastType, Policies, Phases, NoRelease,
         ReleaseType, Statuses, Contents, NoEndpoint, EndpointType, NoPlugin, PluginType

\* What the validation rules of the CRD promise of a submitted spec: a helm source
\* has a name, so RepoName (clusterRepoName) and the recorded names are names.
LEMMA SpecFields ==
  ASSUME NEW s \in UserSpecs
  PROVE  /\ s.src \in {"helm", "git"} /\ s.helm \in Names \union {None}
         /\ s.rev \in Revs /\ s.ext \in Names /\ s.policy \in Policies
         /\ s.version \in Versions \union {None}
         /\ s.src = "helm" => s.helm \in Names
         /\ RepoName(s) \in Names
         /\ LastOf(s) \in LastType
  BY SpecsAssumption DEF SpecType, ValidSpec, RepoName, LastOf, LastType, Policies

\* A merge patch of the present resource leaves it present and well-typed.
LEMMA PatchedType ==
  ASSUME ApiOK, ControlOK, cr.present, NEW new \in ResourceType
  PROVE  /\ Patched(new) \in ResourceType
         /\ Patched(new).present /\ Patched(new).spec = cr.spec
  BY DEF ApiOK, ControlOK, Patched, Merge, ResourceType, LastType

\* Moving the reconciler on leaves its copy as it is.
LEMMA GotoType ==
  ASSUME ControlOK, pc # "idle", NEW label \in Labels, Goto(label),
         label \in HelmLabels => ext.spec.src = "helm"
  PROVE  ControlOK'
  BY DEF ControlOK, Goto

\* Returning from Reconcile forgets its locals.
LEMMA ReturnType ==
  ASSUME ControlOK, NEW q \in BOOLEAN, NEW t \in BOOLEAN, Return(q, t)
  PROVE  ControlOK'
  BY NullTypes DEF ControlOK, Return, Labels, HelmLabels

\* A write of a well-typed resource.
LEMMA WriteType ==
  ASSUME ApiOK, NEW new \in ResourceType, new.present => new.spec \in UserSpecs,
         Write(new), cached' = cached
  PROVE  ApiOK'
  BY DEF ApiOK, Write

\* A failing call costs one fault.
LEMMA FaultType ==
  ASSUME BudgetOK, Fault \/ NoFault
  PROVE  BudgetOK'
  BY DEF BudgetOK, Fault, NoFault, budgetVars

\* The patch a reconcile ends with (setStatus, ensureFinalizer, removeFinalizer).
LEMMA PatchAndReturnType ==
  ASSUME TypeInv, NEW new \in ResourceType, NEW q \in BOOLEAN, NEW t \in BOOLEAN,
         PatchAndReturn(new, q, t), UNCHANGED <<cached, clusterVars>>
  PROVE  TypeInv'
  <1>1. BudgetOK' /\ ControlOK'
    BY FaultType, ReturnType DEF TypeInv, PatchAndReturn
  <1>2. ApiOK'
    <2>1. Patched(new) \in ResourceType /\ Patched(new).spec = cr.spec
      BY PatchedType DEF TypeInv, PatchAndReturn
    <2> QED BY <2>1, WriteType DEF TypeInv, PatchAndReturn, ApiOK
  <1>3. ClusterOK'
    BY DEF TypeInv, ClusterOK, clusterVars
  <1> QED BY <1>1, <1>2, <1>3 DEF TypeInv

\* The patch a reconcile goes on from, with the response as its copy.
LEMMA PatchThenType ==
  ASSUME TypeInv, NEW new \in ResourceType, NEW label \in Labels \ HelmLabels,
         PatchThen(new, label), UNCHANGED <<cached, clusterVars>>
  PROVE  TypeInv'
  <1>1. Patched(new) \in ResourceType /\ Patched(new).present /\ Patched(new).spec = cr.spec
    BY PatchedType DEF TypeInv, PatchThen
  <1>2. ApiOK'
    BY <1>1, WriteType DEF TypeInv, PatchThen, ApiOK
  <1>3. ControlOK'
    BY <1>1 DEF TypeInv, PatchThen, ControlOK, ApiOK, Write
  <1>4. BudgetOK'
    BY FaultType DEF TypeInv, PatchThen
  <1>5. ClusterOK'
    BY DEF TypeInv, ClusterOK, clusterVars
  <1> QED BY <1>2, <1>3, <1>4, <1>5 DEF TypeInv

\* A patch that fails ends the reconcile.
LEMMA PatchFailsType ==
  ASSUME TypeInv, PatchFails, UNCHANGED <<cached, clusterVars>>
  PROVE  TypeInv'
  <1>1. BudgetOK'
    BY FaultType DEF TypeInv, PatchFails
  <1>2. ControlOK'
    BY ReturnType DEF TypeInv, PatchFails, ReturnError
  <1>3. ApiOK' /\ ClusterOK'
    BY DEF TypeInv, PatchFails, ApiOK, apiVars, ClusterOK, clusterVars
  <1> QED BY <1>1, <1>2, <1>3 DEF TypeInv

\* A step that calls the cluster and goes on.
LEMMA StepType ==
  ASSUME TypeInv, pc # "idle", NEW label \in Labels, Goto(label),
         label \in HelmLabels => ext.spec.src = "helm",
         Fault \/ NoFault, ClusterOK', UNCHANGED <<apiVars, cached>>
  PROVE  TypeInv'
  <1>1. ApiOK'
    BY DEF TypeInv, ApiOK, apiVars
  <1>2. ControlOK' /\ BudgetOK'
    BY GotoType, FaultType DEF TypeInv
  <1> QED BY <1>1, <1>2 DEF TypeInv

\* A step that calls nothing that changes the cluster.
LEMMA SkipType ==
  ASSUME TypeInv, pc # "idle", NEW label \in Labels,
         label \in HelmLabels => ext.spec.src = "helm", Skip(label)
  PROVE  TypeInv'
  BY StepType DEF Skip, Reads, clusterVars, ClusterOK, TypeInv

\* A call that fails on the way to applying the spec.
LEMMA CallFailsType ==
  ASSUME TypeInv, pc # "idle", CallFails
  PROVE  TypeInv'
  BY StepType DEF CallFails, Reads, clusterVars, ClusterOK, TypeInv, Labels, HelmLabels

\* A call that fails in handleDeletion.
LEMMA DeletionFailsType ==
  ASSUME TypeInv, DeletionFails
  PROVE  TypeInv'
  <1>1. ControlOK' /\ BudgetOK'
    BY ReturnType, FaultType DEF TypeInv, DeletionFails, ReturnError
  <1>2. ApiOK' /\ ClusterOK'
    BY DEF TypeInv, DeletionFails, Reads, ApiOK, apiVars, ClusterOK, clusterVars
  <1> QED BY <1>1, <1>2 DEF TypeInv

\* Uninstalling a release keeps the cluster well-typed, whatever its name.
LEMMA DeleteReleaseType ==
  ASSUME ClusterOK, NEW r, DeleteRelease(r)
  PROVE  ClusterOK'
  BY NullTypes DEF ClusterOK, DeleteRelease

\* So does deleting a ClusterRepo or a UIPlugin.
LEMMA DeleteObjectType ==
  ASSUME ClusterOK, NEW n, DeleteRepo(n) \/ DeletePlugin(n)
  PROVE  ClusterOK'
  BY NullTypes DEF ClusterOK, DeleteRepo, DeletePlugin

\* Both kinds of release are keys of the releases function.
LEMMA ReleaseNames ==
  \A n \in Names : /\ Server(n) \in Releases /\ Contents(Server(n)) = {None} \union Revs
                  /\ UI(n) \in Releases /\ Contents(UI(n)) = {None} \union Versions
  BY DEF Releases, Server, UI, Contents

\* Recording a revision rendered from what the release is rendered from.
LEMMA SetReleaseType ==
  ASSUME ClusterOK, NEW r \in Releases, NEW status \in Statuses,
         NEW content \in Contents(r),
         SetRelease(r, status, content)
  PROVE  /\ releases' \in [Releases -> ReleaseType]
         /\ \A q \in Releases : releases'[q].content \in Contents(q)
         /\ repos' \in [Names -> EndpointType]
  <1>1. content \in Revs \union Versions \union {None}
    BY DEF Contents
  <1> QED BY <1>1 DEF ClusterOK, SetRelease, ReleaseType

\* EnsureRelease that starts an install or an upgrade.
LEMMA InstallType ==
  ASSUME TypeInv, pc # "idle", NEW r \in Releases, NEW label \in Labels,
         label \in HelmLabels => ext.spec.src = "helm",
         NEW content \in Contents(r),
         Install(r, content, label) \/ Upgrade(r, content, label)
  PROVE  TypeInv'
  <1>1. ASSUME NEW status \in Statuses,
               SetRelease(r, status, content) /\ UNCHANGED <<ready, plugins>>
        PROVE  ClusterOK'
    BY <1>1, SetReleaseType DEF TypeInv, ClusterOK
  <1> QED BY <1>1, StepType DEF Install, Upgrade, Call, Statuses

\* Reconcile starts from a cached copy of a present resource.
LEMMA BeginType ==
  ASSUME TypeInv, cached.present, Begin(IF cached.deleting THEN "delRelease"
                                        ELSE IF cached.finalizer THEN "cleanRelease"
                                        ELSE "addFinalizer")
  PROVE  TypeInv'
  BY DEF TypeInv, ApiOK, apiVars, ControlOK, ClusterOK, clusterVars, BudgetOK, budgetVars,
         Begin, Reads, NoFault, Labels, HelmLabels

\* The copies the reconciler patches its resource with are well-typed.
LEMMA CopyTypes ==
  ASSUME TypeInv, pc # "idle"
  PROVE  /\ \A f \in BOOLEAN : [ext EXCEPT !.finalizer = f] \in ResourceType
         /\ \A w \in {"no", "fresh", "expired"} : [ext EXCEPT !.waiting = w] \in ResourceType
         /\ \A p \in Phases : [ext EXCEPT !.phase = p] \in ResourceType
         /\ [ext EXCEPT !.last = LastOf(ext.spec)] \in ResourceType
         /\ InstalledStatus \in ResourceType
  BY SpecFields DEF TypeInv, ControlOK, ResourceType, InstalledStatus, Phases

\* detectAndCleanupSourceChange.
LEMMA CleanupType ==
  ASSUME TypeInv, CleanRelease \/ CleanRepo \/ CleanPlugin
  PROVE  TypeInv'
  <1>1. /\ AfterCleanup \in Labels
        /\ AfterCleanup \in HelmLabels => ext.spec.src = "helm"
        /\ {"cleanRepo", "cleanPlugin"} \subseteq Labels \ HelmLabels
        /\ ClusterOK
    BY DEF AfterCleanup, Labels, HelmLabels, TypeInv
  <1>2. CASE CleanRelease
    BY <1>1, <1>2, SkipType, CallFailsType, StepType, DeleteReleaseType DEF CleanRelease, Call
  <1>3. CASE CleanRepo
    BY <1>1, <1>3, SkipType, CallFailsType, StepType, DeleteObjectType DEF CleanRepo, Call
  <1>4. CASE CleanPlugin
    BY <1>1, <1>4, SkipType, CallFailsType, StepType, DeleteReleaseType, DeleteObjectType
       DEF CleanPlugin, Call
  <1> QED BY <1>2, <1>3, <1>4

\* reconcileHelmSource works on the release of a helm source.
LEMMA HelmType ==
  ASSUME TypeInv, EnsureRelease \/ HelmServerDone \/ HelmServerFails \/ FindService
  PROVE  TypeInv'
  <1> DEFINE r == Server(ext.spec.helm)
  <1>1. pc # "idle" => /\ ext.spec.rev \in Revs
                       /\ ext.spec.helm \in Names \union {None}
                       /\ ext.spec.src = "helm" => r \in Releases /\ Revs \subseteq Contents(r)
    BY SpecFields, ReleaseNames DEF TypeInv, ControlOK
  <1>2. {"helmServer", "service", "setFailed", "readiness"} \subseteq Labels
    BY DEF Labels
  <1>3. CASE EnsureRelease
    <2> HIDE DEF r
    <2>1. r \in Releases /\ ext.spec.src = "helm" /\ pc # "idle" /\ ext.spec.rev \in Contents(r)
      BY <1>1, <1>3 DEF EnsureRelease, TypeInv, ControlOK, HelmLabels
    <2>2. \/ Install(r, ext.spec.rev, "helmServer") \/ Upgrade(r, ext.spec.rev, "helmServer")
          \/ Skip("service") \/ Skip("setFailed") \/ CallFails
      BY <1>3 DEF EnsureRelease, HelmRefuses, r
    <2> QED BY <1>2, <2>1, <2>2, InstallType, SkipType, CallFailsType
  <1>4. CASE HelmServerDone \/ HelmServerFails
    <2> HIDE DEF r
    <2>1. r \in Releases /\ pc # "idle"
      BY <1>1, <1>4 DEF HelmServerDone, HelmServerFails, TypeInv, ControlOK, HelmLabels
    <2>2. releases[r].content \in Contents(r)
      BY <2>1 DEF TypeInv, ClusterOK
    <2>3. PICK status \in {"deployed", "failed"}, to \in {"service", "setFailed"} :
            /\ SetRelease(r, status, releases[r].content)
            /\ ready' \in {ready, ready \union {r}, ready \ {r}} /\ plugins' = plugins
            /\ Goto(to) /\ (NoFault \/ Fault) /\ UNCHANGED <<apiVars, cached>>
      BY <1>4 DEF HelmServerDone, HelmServerFails, Call, r
    <2>4. ClusterOK'
      BY <2>1, <2>2, <2>3, SetReleaseType DEF TypeInv, ClusterOK, Statuses
    <2> QED BY <1>2, <2>1, <2>3, <2>4, StepType DEF HelmLabels
  <1>5. CASE FindService
    <2>1. CASE CallFails \/ Skip("setFailed")
      BY <1>2, <1>5, <2>1, CallFailsType, SkipType DEF FindService, HelmLabels
    <2>2. CASE ~(CallFails \/ Skip("setFailed"))
      BY <1>1, <1>5, <2>2 DEF FindService, TypeInv, ApiOK, apiVars, ControlOK, ClusterOK,
         clusterVars, BudgetOK, budgetVars, NoFault, Reads, Labels, HelmLabels
    <2> QED BY <2>1, <2>2
  <1> QED BY <1>3, <1>4, <1>5

\* The readiness check and handleNotReady.
LEMMA ReadinessType ==
  ASSUME TypeInv, CheckReadiness \/ ClearWaiting \/ NotReady \/ MarkWaiting
  PROVE  TypeInv'
  <1>1. /\ {"resolve", "clearWaiting", "notReady", "markWaiting"} \subseteq Labels \ HelmLabels
        /\ {"Installing", "Failed"} \subseteq Phases
    BY DEF Labels, HelmLabels, Phases
  <1>2. CASE CheckReadiness
    <2>1. PICK to \in Labels \ HelmLabels : Goto(to) /\ (NoFault \/ Fault) /\ Reads
      BY <1>1, <1>2 DEF CheckReadiness, Skip
    <2> QED BY <1>2, <2>1, StepType
            DEF CheckReadiness, Reads, clusterVars, ClusterOK, TypeInv
  <1>3. CASE ClearWaiting
    BY <1>1, <1>3, CopyTypes, PatchThenType, PatchFailsType DEF ClearWaiting
  <1>4. CASE NotReady
    BY <1>1, <1>4, CopyTypes, SkipType, PatchThenType, PatchFailsType DEF NotReady
  <1>5. CASE MarkWaiting
    <2>1. CASE Return(FALSE, TRUE) /\ NoFault /\ UNCHANGED apiVars
      <3>1. ControlOK' /\ BudgetOK'
        BY <2>1, ReturnType, FaultType DEF TypeInv
      <3>2. ApiOK' /\ ClusterOK'
        BY <1>5, <2>1 DEF MarkWaiting, TypeInv, ApiOK, apiVars, ClusterOK, clusterVars
      <3> QED BY <3>1, <3>2 DEF TypeInv
    <2>2. CASE ~(Return(FALSE, TRUE) /\ NoFault /\ UNCHANGED apiVars)
      BY <1>1, <1>5, <2>2, CopyTypes, PatchAndReturnType, PatchFailsType DEF MarkWaiting
    <2> QED BY <2>1, <2>2
  <1> QED BY <1>2, <1>3, <1>4, <1>5

\* What the ClusterRepo and the plugin are pointed at.
LEMMA EndpointIsTyped ==
  ASSUME TypeInv, pc # "idle"
  PROVE  Endpoint \in EndpointType
  BY SpecFields DEF TypeInv, ControlOK, Endpoint, EndpointType

\* Version resolution and the Ensure calls for the Rancher resources.
LEMMA RancherType ==
  ASSUME TypeInv, Resolve \/ EnsureRepo \/ EnsureUIPlugin \/ EnsureUIPluginRelease
  PROVE  TypeInv'
  <1>1. {"ensureRepo", "ensurePlugin", "helmUI", "annotate", "setFailed"}
          \subseteq Labels \ HelmLabels
    BY DEF Labels, HelmLabels
  <1>2. pc # "idle" => /\ ext.spec.ext \in Names
                       /\ ext.spec.version \in Versions \union {None}
                       /\ ext.spec.version \in Contents(UI(ext.spec.ext))
                       /\ UI(ext.spec.ext) \in Releases
    BY SpecFields, ReleaseNames DEF TypeInv, ControlOK
  <1>3. CASE Resolve
    <2>1. CASE CallFails
      BY <1>3, <2>1, CallFailsType DEF Resolve
    <2>2. CASE ~CallFails
      BY <1>2, <1>3, <2>2 DEF Resolve, TracksLatest, TypeInv, ApiOK, apiVars, ControlOK, ClusterOK,
         clusterVars, BudgetOK, budgetVars, NoFault, Reads, Labels, HelmLabels
    <2> QED BY <2>1, <2>2
  <1>4. CASE EnsureRepo
    <2>1. CASE CallFails
      BY <1>4, <2>1, CallFailsType DEF EnsureRepo
    <2>2. CASE ~CallFails
      <3>1. ClusterOK'
        BY <1>4, <2>2, EndpointIsTyped DEF EnsureRepo, Call, TypeInv, ClusterOK
      <3> QED BY <1>1, <1>4, <2>2, <3>1, StepType DEF EnsureRepo, Call
    <2> QED BY <2>1, <2>2
  <1>5. CASE EnsureUIPlugin
    <2>1. CASE CallFails
      BY <1>5, <2>1, CallFailsType DEF EnsureUIPlugin
    <2>2. CASE ~CallFails
      <3>1. PICK o \in {"none", "operator", "helm"} :
              plugins' = [plugins EXCEPT ![ext.spec.ext] =
                            [owner |-> o, version |-> resolved, at |-> Endpoint]]
        <4>1. plugins[ext.spec.ext].owner \in {"none", "operator", "helm"}
          BY <1>2, <1>5 DEF EnsureUIPlugin, TypeInv, ClusterOK, PluginType
        <4> QED BY <1>5, <2>2, <4>1 DEF EnsureUIPlugin, Call
      <3>2. ClusterOK'
        BY <1>5, <2>2, <3>1, EndpointIsTyped
           DEF EnsureUIPlugin, Call, TypeInv, ClusterOK, ControlOK, PluginType
      <3> QED BY <1>1, <1>5, <2>2, <3>2, StepType DEF EnsureUIPlugin, Call
    <2> QED BY <2>1, <2>2
  <1>6. CASE EnsureUIPluginRelease
    <2>1. PICK to \in {"annotate", "setFailed"} :
            \/ Skip(to) \/ CallFails
            \/ Install(UI(ext.spec.ext), ext.spec.version, "helmUI")
      BY <1>6 DEF EnsureUIPluginRelease
    <2>2. pc # "idle"
      BY <1>6 DEF EnsureUIPluginRelease
    <2> QED BY <1>1, <1>2, <2>1, <2>2, SkipType, CallFailsType, InstallType
  <1> QED BY <1>3, <1>4, <1>5, <1>6

\* The end of the install of the extension chart.
LEMMA HelmUIType ==
  ASSUME TypeInv, HelmUIDone \/ HelmUIFails
  PROVE  TypeInv'
  <1> DEFINE r == UI(ext.spec.ext)
  <1>1. {"annotate", "setFailed"} \subseteq Labels \ HelmLabels /\ pc # "idle"
    BY DEF Labels, HelmLabels, HelmUIDone, HelmUIFails
  <1>2. ext.spec.ext \in Names /\ r \in Releases /\ Contents(r) = {None} \union Versions
    BY <1>1, SpecFields, ReleaseNames DEF TypeInv, ControlOK
  <1>3. releases[r].content \in Contents(r)
    BY <1>2 DEF TypeInv, ClusterOK
  <1> HIDE DEF r
  <1>4. CASE HelmUIDone
    <2>1. PICK v \in Contents(r) :
            /\ SetRelease(r, "deployed", v)
            /\ plugins' = [plugins EXCEPT ![ext.spec.ext] =
                             [owner |-> "helm", version |-> v, at |-> Endpoint]]
      BY <1>2, <1>3, <1>4 DEF HelmUIDone, Call, ChartVersions, r
    <2>2. ClusterOK'
      BY <1>1, <1>2, <1>4, <2>1, SetReleaseType, EndpointIsTyped
         DEF HelmUIDone, Call, TypeInv, ClusterOK, PluginType, Statuses
    <2> QED BY <1>1, <1>4, <2>2, StepType DEF HelmUIDone, Call
  <1>5. CASE HelmUIFails
    <2>1. ClusterOK'
      BY <1>2, <1>3, <1>5, SetReleaseType DEF HelmUIFails, r, TypeInv, ClusterOK, Statuses
    <2> QED BY <1>1, <1>5, <2>1, StepType DEF HelmUIFails
  <1> QED BY <1>4, <1>5

\* updateSourceAnnotations, setStatus and ensureFinalizer.
LEMMA StatusType ==
  ASSUME TypeInv, Annotate \/ Finish \/ SetFailed \/ AddFinalizer
  PROVE  TypeInv'
  <1>1. "finish" \in Labels \ HelmLabels /\ "Failed" \in Phases
    BY DEF Labels, HelmLabels, Phases
  <1>2. CASE Annotate
    BY <1>1, <1>2, CopyTypes, SkipType, PatchThenType, PatchFailsType DEF Annotate
  <1>3. CASE Finish
    <2>1. CASE Return(FALSE, tracking) /\ NoFault /\ UNCHANGED apiVars
      <3>1. ControlOK' /\ BudgetOK'
        BY <2>1, ReturnType, FaultType DEF TypeInv, ControlOK
      <3>2. ApiOK' /\ ClusterOK'
        BY <1>3, <2>1 DEF Finish, TypeInv, ApiOK, apiVars, ClusterOK, clusterVars
      <3> QED BY <3>1, <3>2 DEF TypeInv
    <2>2. CASE ~(Return(FALSE, tracking) /\ NoFault /\ UNCHANGED apiVars)
      BY <1>3, <2>2, CopyTypes, PatchAndReturnType, PatchFailsType
         DEF Finish, TypeInv, ControlOK
    <2> QED BY <2>1, <2>2
  <1>4. CASE SetFailed
    BY <1>1, <1>4, CopyTypes, PatchAndReturnType, PatchFailsType DEF SetFailed
  <1>5. CASE AddFinalizer
    BY <1>5, CopyTypes, PatchAndReturnType, PatchFailsType DEF AddFinalizer
  <1> QED BY <1>2, <1>3, <1>4, <1>5

\* handleDeletion and removeFinalizer.
LEMMA DeletionType ==
  ASSUME TypeInv, \/ DeleteServer \/ DeleteUI \/ CleanupPlugin \/ CleanupRepo
                  \/ RemoveFinalizer
  PROVE  TypeInv'
  <1>1. {"delUI", "delPlugin", "delRepo", "dropFinalizer"} \subseteq Labels \ HelmLabels
        /\ ClusterOK
    BY DEF Labels, HelmLabels, TypeInv
  <1>2. CASE DeleteServer
    BY <1>1, <1>2, SkipType, DeletionFailsType, StepType, DeleteReleaseType DEF DeleteServer, Call
  <1>3. CASE DeleteUI
    BY <1>1, <1>3, SkipType, DeletionFailsType, StepType, DeleteReleaseType DEF DeleteUI, Call
  <1>4. CASE CleanupPlugin
    BY <1>1, <1>4, DeletionFailsType, StepType, DeleteObjectType DEF CleanupPlugin, Call
  <1>5. CASE CleanupRepo
    BY <1>1, <1>5, DeletionFailsType, StepType, DeleteObjectType DEF CleanupRepo, Call
  <1>6. CASE RemoveFinalizer
    <2>1. CASE /\ Return(FALSE, FALSE) /\ NoFault
               /\ Write(NoResource) \/ UNCHANGED apiVars
      <3>1. ControlOK' /\ BudgetOK'
        BY <2>1, ReturnType, FaultType DEF TypeInv
      <3>2. ApiOK' /\ ClusterOK'
        BY <1>6, <2>1, NullTypes, WriteType
           DEF RemoveFinalizer, TypeInv, ApiOK, apiVars, ClusterOK, clusterVars
      <3> QED BY <3>1, <3>2 DEF TypeInv
    <2>2. CASE ~(/\ Return(FALSE, FALSE) /\ NoFault
                 /\ Write(NoResource) \/ UNCHANGED apiVars)
      BY <1>6, <2>2, CopyTypes, PatchAndReturnType, PatchFailsType DEF RemoveFinalizer
    <2> QED BY <2>1, <2>2
  <1> QED BY <1>2, <1>3, <1>4, <1>5, <1>6

\* Every step of the reconciler.
LEMMA OperatorType ==
  ASSUME TypeInv, Operator
  PROVE  TypeInv'
  <1>1. CASE ReconcileLive \/ ReconcileDeleting
    <2>1. cached.deleting \in BOOLEAN /\ cached.finalizer \in BOOLEAN
      BY DEF TypeInv, ApiOK, ResourceType
    <2>2. pc = "idle" /\ pc' \in {"delRelease", "cleanRelease", "addFinalizer"}
      BY <1>1, <2>1 DEF ReconcileLive, ReconcileDeleting, Begin
    <2> QED BY <1>1, <2>1, <2>2, BeginType DEF ReconcileLive, ReconcileDeleting
  <1>2. CASE ReconcileGone
    BY <1>2 DEF ReconcileGone, TypeInv, ApiOK, apiVars, ControlOK, ClusterOK, clusterVars,
       BudgetOK, budgetVars, NoFault, Reads
  <1> QED BY <1>1, <1>2, StatusType, CleanupType, HelmType, ReadinessType, RancherType,
             HelmUIType, DeletionType DEF Operator

\* The watch, the timers, the deployments, a crash.
LEMMA WorldType ==
  ASSUME TypeInv, World
  PROVE  TypeInv'
  <1>1. CASE CacheSync \/ TimerFires
    BY <1>1 DEF CacheSync, TimerFires, TypeInv, ApiOK, apiVars, ControlOK, ClusterOK,
       clusterVars, BudgetOK, budgetVars
  <1>2. CASE ReadinessTimeout
    <2>1. \A e \in ResourceType : /\ Aged(e) \in ResourceType
                                  /\ Aged(e).present = e.present /\ Aged(e).spec = e.spec
      BY DEF Aged, ResourceType
    <2> QED BY <1>2, <2>1 DEF ReadinessTimeout, TypeInv, ApiOK, ControlOK, ClusterOK,
            clusterVars, BudgetOK, budgetVars
  <1>3. CASE Crash
    <2>1. ApiOK'
      BY <1>3 DEF Crash, TypeInv, ApiOK
    <2>2. ClusterOK' /\ BudgetOK'
      BY <1>3 DEF Crash, TypeInv, ClusterOK, clusterVars, BudgetOK
    <2>3. cr.present \in BOOLEAN
      BY DEF TypeInv, ApiOK, ResourceType
    <2>4. ControlOK'
      BY <1>3, <2>3, NullTypes DEF Crash, ControlOK, Labels, HelmLabels
    <2> QED BY <2>1, <2>2, <2>4 DEF TypeInv
  <1>4. CASE \E n \in Names : BecomeReady(n) \/ LoseReadiness(n)
    BY <1>4, ReleaseNames, FaultType
       DEF BecomeReady, LoseReadiness, TypeInv, ApiOK, apiVars, ControlOK, operatorVars,
           ClusterOK, BudgetOK, budgetVars
  <1> QED BY <1>1, <1>2, <1>3, <1>4 DEF World

\* Users create, edit and delete the resource.
LEMMA UserType ==
  ASSUME TypeInv, UserCreate \/ UserEdit \/ UserDelete
  PROVE  TypeInv'
  <1>1. UNCHANGED <<cached, operatorVars, clusterVars>> /\ BudgetOK'
    BY DEF UserCreate, UserEdit, UserDelete, EditBudget, TypeInv, BudgetOK, budgetVars
  <1>2. PICK new \in ResourceType :
          (new.present => new.spec \in UserSpecs) /\ Write(new)
    <2>1. \A s \in UserSpecs : NewResource(s) \in ResourceType /\ NewResource(s).spec = s
      BY NullTypes DEF NewResource, NoResource, ResourceType
    <2>2. \A s \in UserSpecs : /\ [cr EXCEPT !.spec = s] \in ResourceType
                               /\ [cr EXCEPT !.spec = s].spec = s
      BY DEF TypeInv, ApiOK, ResourceType
    <2>3. [cr EXCEPT !.deleting = TRUE] \in ResourceType
          /\ [cr EXCEPT !.deleting = TRUE].spec = cr.spec
      BY DEF TypeInv, ApiOK, ResourceType
    <2> QED BY <2>1, <2>2, <2>3, NullTypes
            DEF UserCreate, UserEdit, UserDelete, TypeInv, ApiOK
  <1>3. ApiOK'
    BY <1>1, <1>2, WriteType DEF TypeInv
  <1> QED BY <1>1, <1>3 DEF TypeInv, ControlOK, operatorVars, ClusterOK, clusterVars

\* Users upgrade and uninstall an unmanaged extension.
LEMMA RancherUserType ==
  ASSUME TypeInv, RancherUser
  PROVE  TypeInv'
  <1>1. PICK n \in Names : UIUpgrade(n) \/ UIUninstall(n)
    BY DEF RancherUser
  <1>2. ClusterOK'
    <2>1. CASE UIUpgrade(n)
      <3>1. PICK v \in Versions : /\ SetRelease(UI(n), "deployed", v)
                                  /\ plugins' = [plugins EXCEPT ![n].version = v]
                                  /\ ready' = ready
        BY <2>1 DEF UIUpgrade
      <3> QED BY <3>1, ReleaseNames, SetReleaseType DEF TypeInv, ClusterOK, PluginType, Statuses
    <2>2. CASE UIUninstall(n)
      BY <2>2, DeleteReleaseType DEF UIUninstall, TypeInv
    <2> QED BY <1>1, <2>1, <2>2
  <1>3. UNCHANGED <<apiVars, cached, operatorVars, budgetVars>>
    BY <1>1 DEF UIUpgrade, UIUninstall
  <1> QED BY <1>2, <1>3 DEF TypeInv, ApiOK, apiVars, ControlOK, operatorVars, BudgetOK, budgetVars

\* Before the resource is created.
LEMMA InitType == Init => TypeInv
  <1> SUFFICES ASSUME Init PROVE TypeInv
    OBVIOUS
  <1>1. ApiOK /\ BudgetOK
    BY NullTypes DEF Init, Empty, ApiOK, BudgetOK
  <1>2. ControlOK
    BY NullTypes DEF Init, Empty, ControlOK, Labels, HelmLabels
  <1>3. ClusterOK
    BY NullTypes DEF Init, Empty, ClusterOK
  <1> QED BY <1>1, <1>2, <1>3 DEF TypeInv

\* The type invariant is inductive.
LEMMA NextType == TypeInv /\ [Next]_vars => TypeInv'
  <1>1. ASSUME TypeInv, UNCHANGED vars
        PROVE  TypeInv'
    BY <1>1 DEF vars, apiVars, operatorVars, clusterVars, budgetVars, TypeInv, ApiOK,
       ControlOK, ClusterOK, BudgetOK
  <1> QED BY <1>1, OperatorType, WorldType, UserType, RancherUserType DEF Next

\* The three environments differ in what their users do; the free one allows it all.
LEMMA NextIsFree == /\ [StableNext]_vars => [Next]_vars
                    /\ [SettledNext]_vars => [Next]_vars
  BY DEF StableNext, SettledNext, Next

\* The type invariant with its strengthening holds in every reachable state.
LEMMA TypeInvariant == Spec => []TypeInv
  <1> QED BY InitType, NextType, PTL DEF Spec

\* Every variable keeps its type: in particular the reconciler never works on a
\* copy without a spec, and never installs a deployment release without a name.
THEOREM TypeCorrect == Spec => []TypeOK
  <1> QED BY TypeInvariant, TypeInvType, PTL

-----------------------------------------------------------------------------
(* The finalizer goes last.  The property speaks of the last step of        *)
(* handleDeletion; the invariant says what each step before it has removed. *)

DeletionLabels == {"delUI", "delPlugin", "delRepo", "dropFinalizer"}

Removed ==
    /\ pc \in DeletionLabels =>
         \A n \in DoomedServer(ext) : releases[Server(n)].status = "absent"
    /\ pc \in DeletionLabels \ {"delUI"} =>
         \A n \in DoomedUI(ext) : releases[UI(n)].status = "absent"
    /\ pc \in {"delRepo", "dropFinalizer"} => plugins[ext.spec.ext].owner = "none"
    /\ pc = "dropFinalizer" => repos[RepoName(ext.spec)].kind = "none"

\* What is absent stays absent.
NothingAppears ==
    \A n \in Names :
      /\ releases[Server(n)].status = "absent" => releases'[Server(n)].status = "absent"
      /\ releases[UI(n)].status = "absent" => releases'[UI(n)].status = "absent"
      /\ plugins[n].owner = "none" => plugins'[n].owner = "none"
      /\ repos[n].kind = "none" => repos'[n].kind = "none"

\* A step that neither moves the reconciler nor creates anything.
LEMMA RemovedStays ==
  ASSUME TypeInv, Removed, pc' = pc, ext'.spec = ext.spec, ext'.last = ext.last,
         NothingAppears
  PROVE  Removed'
  <1>1. DoomedServer(ext)' = DoomedServer(ext) /\ DoomedUI(ext)' = DoomedUI(ext)
    BY DEF DoomedServer, DoomedUI
  <1>2. DoomedServer(ext) \subseteq Names /\ DoomedUI(ext) \subseteq Names
    BY DEF DoomedServer, DoomedUI
  <1>3. pc \in DeletionLabels => ext.spec.ext \in Names /\ RepoName(ext.spec) \in Names
    BY SpecFields DEF TypeInv, ControlOK, DeletionLabels
  <1>4. RepoName(ext.spec)' = RepoName(ext.spec)
    BY DEF RepoName
  <1> QED BY <1>1, <1>2, <1>3, <1>4 DEF Removed, NothingAppears, DeletionLabels

\* Nothing but handleDeletion enters its steps.
LEMMA OnlyDeletionEnters ==
  ASSUME TypeInv, \/ ReconcileLive \/ ReconcileDeleting \/ AddFinalizer
                  \/ CleanRelease \/ CleanRepo \/ CleanPlugin
                  \/ EnsureRelease \/ HelmServerDone \/ HelmServerFails \/ FindService
                  \/ CheckReadiness \/ ClearWaiting \/ NotReady \/ MarkWaiting
                  \/ Resolve \/ EnsureRepo \/ EnsureUIPlugin \/ EnsureUIPluginRelease
                  \/ HelmUIDone \/ HelmUIFails \/ Annotate \/ Finish \/ SetFailed
                  \/ RemoveFinalizer
  PROVE  pc' \notin DeletionLabels /\ (pc' = "delRelease" => ReconcileDeleting)
  <1> USE DEF DeletionLabels, Goto, Return, Call, Skip, CallFails, PatchThen, PatchAndReturn,
          PatchFails, ReturnError
  <1>1. CASE ReconcileLive \/ ReconcileDeleting
    BY <1>1 DEF ReconcileLive, ReconcileDeleting, Begin
  <1>2. CASE AddFinalizer \/ RemoveFinalizer \/ Finish \/ SetFailed \/ Annotate
    BY <1>2 DEF AddFinalizer, RemoveFinalizer, Finish, SetFailed, Annotate
  <1>3. CASE CleanRelease \/ CleanRepo \/ CleanPlugin
    BY <1>3 DEF CleanRelease, CleanRepo, CleanPlugin, AfterCleanup
  <1>4. CASE EnsureRelease \/ HelmServerDone \/ HelmServerFails \/ FindService
    BY <1>4 DEF EnsureRelease, HelmServerDone, HelmServerFails, FindService, Install, Upgrade,
       HelmRefuses
  <1>5. CASE CheckReadiness \/ ClearWaiting \/ NotReady \/ MarkWaiting
    BY <1>5 DEF CheckReadiness, ClearWaiting, NotReady, MarkWaiting
  <1>6. CASE Resolve \/ EnsureRepo \/ EnsureUIPlugin \/ EnsureUIPluginRelease
    BY <1>6 DEF Resolve, EnsureRepo, EnsureUIPlugin, EnsureUIPluginRelease, Install
  <1>7. CASE HelmUIDone \/ HelmUIFails
    BY <1>7 DEF HelmUIDone, HelmUIFails
  <1> QED BY <1>1, <1>2, <1>3, <1>4, <1>5, <1>6, <1>7

\* A deployment release and a UIPlugin release are never the same release.
LEMMA DistinctReleases == \A m, n : /\ Server(m) # UI(n)
                                    /\ Server(m) = Server(n) => m = n
                                    /\ UI(m) = UI(n) => m = n
                                    /\ Server(m)[1] = "server"
                                    /\ UI(m)[1] = "ui" /\ UI(m)[2] = m
  BY DEF Server, UI

\* Uninstalling a release and deleting an object remove them and create nothing.
LEMMA DeletionRemoves ==
  ASSUME TypeInv, NEW n
  PROVE  /\ DeleteRelease(Server(n)) \/ DeleteRelease(UI(n)) => NothingAppears
         /\ DeleteRepo(n) \/ DeletePlugin(n) => NothingAppears
         /\ n \in Names =>
              /\ DeleteRelease(Server(n)) => releases'[Server(n)].status = "absent"
              /\ DeleteRelease(UI(n)) => releases'[UI(n)].status = "absent"
              /\ DeleteRepo(n) => repos'[n].kind = "none"
              /\ DeletePlugin(n) => plugins'[n].owner = "none"
  BY ReleaseNames, DistinctReleases
     DEF TypeInv, ClusterOK, NothingAppears, DeleteRelease, DeleteRepo, DeletePlugin,
         NoRelease, NoEndpoint, NoPlugin

\* Each step of handleDeletion removes what the next one relies on.
LEMMA DeletionSteps ==
  ASSUME TypeInv, Removed, DeleteServer \/ DeleteUI \/ CleanupPlugin \/ CleanupRepo
  PROVE  Removed'
  <1> USE DEF DeletionLabels
  <1>1. /\ pc # "idle" => ext.spec.ext \in Names /\ RepoName(ext.spec) \in Names
        /\ DoomedServer(ext) \subseteq Names /\ DoomedUI(ext) \subseteq Names
    BY SpecFields DEF TypeInv, ControlOK, DoomedServer, DoomedUI
  <1>2. \/ ext' = ext /\ RepoName(ext.spec)' = RepoName(ext.spec)
           /\ DoomedServer(ext)' = DoomedServer(ext) /\ DoomedUI(ext)' = DoomedUI(ext)
        \/ pc' = "idle"
    BY DEF DeleteServer, DeleteUI, CleanupPlugin, CleanupRepo, Call, Skip, Goto,
       DeletionFails, ReturnError, Return, DoomedServer, DoomedUI, RepoName
  <1>3. CASE pc' = "idle"
    BY <1>3 DEF Removed
  <1>4. CASE DeleteServer /\ pc' # "idle"
    <2>1. \A m, n \in DoomedServer(ext) : m = n
      BY DEF DoomedServer
    <2>2. pc' = "delUI" /\ \A n \in DoomedServer(ext) : releases'[Server(n)].status = "absent"
      BY <1>1, <1>4, <2>1, DeletionRemoves
         DEF DeleteServer, Call, Skip, Goto, DeletionFails, ReturnError, Return
    <2> QED BY <1>2, <1>4, <2>2 DEF Removed
  <1>5. CASE DeleteUI /\ pc' # "idle"
    <2>1. \A m, n \in DoomedUI(ext) : m = n
      BY DEF DoomedUI
    <2>2. /\ pc = "delUI" /\ pc' = "delPlugin"
          /\ \A n \in DoomedUI(ext) : releases'[UI(n)].status = "absent"
      BY <1>1, <1>5, <2>1, DeletionRemoves
         DEF DeleteUI, Call, Skip, Goto, DeletionFails, ReturnError, Return
    <2>3. NothingAppears
      BY <1>1, <1>5, DeletionRemoves
         DEF DeleteUI, Call, Skip, Goto, DeletionFails, ReturnError, Return, Reads, clusterVars,
             NothingAppears
    <2> QED BY <1>1, <1>2, <1>5, <2>2, <2>3 DEF Removed, NothingAppears
  <1>6. CASE CleanupPlugin /\ pc' # "idle"
    <2>1. /\ pc = "delPlugin" /\ pc' = "delRepo" /\ DeletePlugin(ext.spec.ext)
      BY <1>6 DEF CleanupPlugin, Call, Goto, DeletionFails, ReturnError, Return
    <2>2. NothingAppears /\ plugins'[ext.spec.ext].owner = "none"
      BY <1>1, <2>1, DeletionRemoves
    <2> QED BY <1>1, <1>2, <1>6, <2>1, <2>2 DEF Removed, NothingAppears
  <1>7. CASE CleanupRepo /\ pc' # "idle"
    <2>1. /\ pc = "delRepo" /\ pc' = "dropFinalizer" /\ DeleteRepo(RepoName(ext.spec))
      BY <1>7 DEF CleanupRepo, Call, Goto, DeletionFails, ReturnError, Return
    <2>2. NothingAppears /\ repos'[RepoName(ext.spec)].kind = "none"
      BY <1>1, <2>1, DeletionRemoves
    <2> QED BY <1>1, <1>2, <1>7, <2>1, <2>2 DEF Removed, NothingAppears
  <1> QED BY <1>3, <1>4, <1>5, <1>6, <1>7

\* Nobody else brings back what handleDeletion has removed.
LEMMA OthersLeaveRemoved ==
  ASSUME TypeInv, Removed,
         \/ ReconcileGone \/ World \/ UserCreate \/ UserEdit \/ UserDelete \/ RancherUser
  PROVE  Removed'
  <1>1. CASE Crash
    BY <1>1 DEF Crash, Removed, DeletionLabels
  <1>2. CASE UNCHANGED <<pc, ext, releases, repos, plugins>>
    BY <1>2, RemovedStays DEF NothingAppears
  <1>3. CASE ReadinessTimeout
    <2>1. Aged(ext).spec = ext.spec /\ Aged(ext).last = ext.last
      BY DEF Aged, TypeInv, ControlOK, ResourceType
    <2> QED BY <1>3, <2>1, RemovedStays DEF ReadinessTimeout, clusterVars, NothingAppears
  <1>4. CASE RancherUser
    <2>1. PICK n \in Names : UIUpgrade(n) \/ UIUninstall(n)
      BY <1>4 DEF RancherUser
    <2>2. CASE UIUninstall(n)
      BY <2>2, RemovedStays, DeletionRemoves DEF UIUninstall, operatorVars
    <2>3. CASE UIUpgrade(n)
      <3>1. \A m \in Names : releases'[Server(m)] = releases[Server(m)]
        BY <2>3, DistinctReleases DEF UIUpgrade, SetRelease, TypeInv, ClusterOK
      <3>2. \A m \in Names : releases[UI(m)].status = "absent" =>
                               releases'[UI(m)].status = "absent"
        BY <2>3, ReleaseNames, DistinctReleases
           DEF UIUpgrade, SetRelease, TypeInv, ClusterOK
      <3>3. \A m \in Names : plugins'[m].owner = plugins[m].owner
        BY <2>3 DEF UIUpgrade, TypeInv, ClusterOK, PluginType
      <3>4. NothingAppears
        BY <2>3, <3>1, <3>2, <3>3 DEF UIUpgrade, SetRelease, NothingAppears
      <3> QED BY <2>3, <3>4, RemovedStays DEF UIUpgrade, operatorVars
    <2> QED BY <2>1, <2>2, <2>3
  <1>5. CASE ReconcileGone \/ CacheSync \/ TimerFires
             \/ UserCreate \/ UserEdit \/ UserDelete
             \/ \E n \in Names : BecomeReady(n) \/ LoseReadiness(n)
    <2>1. UNCHANGED <<pc, ext, releases, repos, plugins>>
      BY <1>5 DEF ReconcileGone, Reads, CacheSync, TimerFires, BecomeReady, LoseReadiness,
         UserCreate, UserEdit, UserDelete, operatorVars, clusterVars
    <2> QED BY <1>2, <2>1
  <1> QED BY <1>1, <1>3, <1>4, <1>5 DEF World

\* What handleDeletion has removed is an inductive invariant.
LEMMA RemovedInductive ==
  ASSUME TypeInv, Removed, [Next]_vars
  PROVE  Removed'
  <1>1. CASE UNCHANGED vars
    BY <1>1, RemovedStays
       DEF vars, operatorVars, clusterVars, NothingAppears
  <1>2. CASE Operator
    <2>1. CASE pc' \notin DeletionLabels
      BY <2>1 DEF Removed, DeletionLabels
    <2> QED BY <1>2, <2>1, OnlyDeletionEnters, DeletionSteps, OthersLeaveRemoved DEF Operator
  <1> QED BY <1>1, <1>2, OthersLeaveRemoved DEF Next

\* When the finalizer is about to be dropped, handleDeletion has removed the
\* releases, the UIPlugin and the ClusterRepo of the resource, whatever users,
\* failing calls and crashes did while it worked.
THEOREM FinalizerIsLast == Spec => []FinalizerLast
  <1>1. Init => Removed
    BY DEF Init, Empty, Removed, DeletionLabels
  <1>2. Removed => FinalizerLast
    BY DEF Removed, FinalizerLast, DeletionLabels
  <1> QED BY <1>1, <1>2, TypeInvariant, RemovedInductive, PTL DEF Spec

-----------------------------------------------------------------------------
(* No orphans, for users who submit managed specs and do not edit them.    *)

ManagedOnly == \A s \in UserSpecs : s.policy = "managed"

DeletionPath == DeletionLabels \union {"delRelease"}
ApplyPath    == Labels \ (DeletionPath \union {"idle", "addFinalizer"})

\* Everything in the cluster is named by the resource, which holds its finalizer.
Contained ==
    \A n \in Names :
      /\ releases[Server(n)].status # "absent" =>
           cr.finalizer /\ cr.spec.src = "helm" /\ n = cr.spec.helm
      /\ releases[UI(n)].status = "absent"
      /\ repos[n].kind # "none" => cr.finalizer /\ n = RepoName(cr.spec)
      /\ plugins[n].owner # "none" => cr.finalizer /\ n = cr.spec.ext

\* What the cached copy says of the resource, which may be another one by now.
CacheAgrees ==
    /\ cached.present /\ cached.finalizer /\ ~cached.deleting =>
         cr.finalizer /\ cr.spec = cached.spec
    /\ cached.deleting /\ cr.finalizer => cr.deleting /\ cr.spec = cached.spec
    /\ cached.deleting /\ pc \notin DeletionPath \union {"idle"} => cr.deleting

\* What a reconcile in progress knows of it.
ReconcileAgrees ==
    /\ pc # "helmUI"
    /\ pc \in ApplyPath => ext.spec = cr.spec /\ cr.finalizer
    /\ pc \in DeletionPath =>
         /\ ext.finalizer
         /\ cr.finalizer => cr.deleting /\ cr.spec = ext.spec
         /\ ~(cached.present /\ cached.finalizer /\ ~cached.deleting)

Owner == /\ cr.finalizer => cr.present
         /\ cr.deleting => cr.finalizer
         /\ Contained /\ CacheAgrees /\ ReconcileAgrees

SameResource == /\ cr'.present = cr.present /\ cr'.deleting = cr.deleting
                /\ cr'.finalizer = cr.finalizer /\ cr'.spec = cr.spec

\* A step that creates nothing leaves everything named by the resource.
LEMMA ContainedStays ==
  ASSUME Contained, NothingAppears, cr'.finalizer = cr.finalizer, cr'.spec = cr.spec
  PROVE  Contained'
  BY DEF Contained, NothingAppears, RepoName

\* So does a step that touches no object of the cluster.
LEMMA UnchangedCluster ==
  ASSUME UNCHANGED clusterVars
  PROVE  NothingAppears
  BY DEF clusterVars, NothingAppears

\* A step that leaves the resource and its cached copy what they are, and the
\* reconciler on its path, or idle.
LEMMA OwnerStays ==
  ASSUME Owner, Contained', SameResource, cached' = cached,
         \/ pc' = "idle"
         \/ pc \in ApplyPath /\ pc' \in ApplyPath \ {"helmUI"} /\ ext'.spec = cr.spec
         \/ pc \in DeletionPath /\ pc' \in DeletionPath /\ ext' = ext
         \/ pc' = pc /\ ext'.spec = ext.spec /\ ext'.finalizer = ext.finalizer
  PROVE  Owner'
  <1>1. /\ ApplyPath \intersect DeletionPath = {}
        /\ "idle" \notin ApplyPath \union DeletionPath /\ "helmUI" \notin DeletionPath
    BY DEF ApplyPath, DeletionPath, DeletionLabels, Labels
  <1>2. CacheAgrees'
    BY <1>1 DEF Owner, CacheAgrees, SameResource
  <1>3. ReconcileAgrees'
    BY <1>1 DEF Owner, ReconcileAgrees, SameResource
  <1> QED BY <1>2, <1>3 DEF Owner, SameResource

\* A patch that does not touch the finalizers leaves the resource what it is.
LEMMA PatchedIdentity ==
  ASSUME NEW new, new.finalizer = ext.finalizer
  PROVE  /\ Patched(new).present = cr.present /\ Patched(new).deleting = cr.deleting
         /\ Patched(new).finalizer = cr.finalizer /\ Patched(new).spec = cr.spec
  BY DEF Patched, Merge

\* A patch of the reconciler while it applies the spec.
LEMMA OwnerPatch ==
  ASSUME Owner, pc \in ApplyPath, NEW new, new.finalizer = ext.finalizer,
         NEW q, NEW t, NEW label \in ApplyPath \ {"helmUI"},
         PatchThen(new, label) \/ PatchAndReturn(new, q, t) \/ PatchFails,
         UNCHANGED <<cached, clusterVars>>
  PROVE  Owner'
  <1>1. SameResource
    BY PatchedIdentity
       DEF SameResource, PatchThen, PatchAndReturn, PatchFails, Write, apiVars
  <1>2. pc' = "idle" \/ (pc' = label /\ ext'.spec = cr.spec)
    BY <1>1 DEF PatchThen, PatchAndReturn, PatchFails, ReturnError, Return, SameResource
  <1>3. Contained'
    BY <1>1, ContainedStays, UnchangedCluster DEF Owner, SameResource
  <1> QED BY <1>1, <1>2, <1>3, OwnerStays

\* A call on the way to applying the spec.
LEMMA OwnerCall ==
  ASSUME Owner, pc \in ApplyPath, NEW label \in ApplyPath \ {"helmUI"}, Goto(label), Contained',
         UNCHANGED <<apiVars, cached>>
  PROVE  Owner'
  <1>1. SameResource /\ pc' = label /\ ext'.spec = cr.spec
    BY DEF SameResource, apiVars, Goto, Owner, ReconcileAgrees
  <1> QED BY <1>1, OwnerStays

\* A step that calls nothing that changes the cluster, or whose call fails.
LEMMA OwnerRead ==
  ASSUME Owner, pc \in ApplyPath, NEW label \in ApplyPath \ {"helmUI"},
         Skip(label) \/ CallFails
  PROVE  Owner'
  <1>1. Contained' /\ UNCHANGED <<apiVars, cached>>
    BY ContainedStays, UnchangedCluster DEF Skip, CallFails, Reads, apiVars, Owner
  <1>2. "setFailed" \in ApplyPath \ {"helmUI"}
    BY DEF ApplyPath, DeletionPath, DeletionLabels, Labels
  <1> QED BY <1>1, <1>2, OwnerCall DEF Skip, CallFails

\* The labels of the two paths.
LEMMA Paths ==
  /\ ApplyPath = {"cleanRelease", "cleanRepo", "cleanPlugin", "ensureRelease", "helmServer",
                  "service", "readiness", "notReady", "markWaiting", "clearWaiting",
                  "resolve", "ensureRepo", "ensurePlugin", "helmUI", "annotate", "finish",
                  "setFailed"}
  /\ DeletionPath = {"delRelease", "delUI", "delPlugin", "delRepo", "dropFinalizer"}
  BY DEF ApplyPath, DeletionPath, DeletionLabels, Labels

\* detectAndCleanupSourceChange only removes.
LEMMA OwnerCleanup ==
  ASSUME TypeInv, Owner, CleanRelease \/ CleanRepo \/ CleanPlugin
  PROVE  Owner'
  <1>1. pc \in ApplyPath /\ AfterCleanup \in ApplyPath \ {"helmUI"}
    BY Paths DEF CleanRelease, CleanRepo, CleanPlugin, AfterCleanup
  <1>2. {"cleanRepo", "cleanPlugin"} \subseteq ApplyPath \ {"helmUI"}
    BY Paths
  <1>3. ASSUME NEW label \in ApplyPath \ {"helmUI"}, NoFault, Goto(label),
               UNCHANGED <<apiVars, cached>>, NothingAppears
        PROVE  Owner'
    BY <1>1, <1>3, ContainedStays, OwnerCall DEF Owner, apiVars
  <1>4. CASE CleanRelease
    BY <1>1, <1>2, <1>3, <1>4, OwnerRead, DeletionRemoves DEF CleanRelease, Call
  <1>5. CASE CleanRepo
    BY <1>1, <1>2, <1>3, <1>5, OwnerRead, DeletionRemoves DEF CleanRepo, Call
  <1>6. CASE CleanPlugin
    BY <1>1, <1>2, <1>3, <1>6, OwnerRead, DeletionRemoves DEF CleanPlugin, Call
  <1> QED BY <1>4, <1>5, <1>6

\* Helm's record of the deployment release is the one the spec names.
LEMMA ContainedServer ==
  ASSUME TypeInv, Owner, pc \in ApplyPath, ext.spec.src = "helm",
         NEW status, NEW content, SetRelease(Server(ext.spec.helm), status, content),
         UNCHANGED <<apiVars, plugins>>
  PROVE  Contained'
  <1>1. cr' = cr /\ ext.spec = cr.spec /\ cr.finalizer
    BY DEF apiVars, Owner, ReconcileAgrees
  <1>2. \A n \in Names : n # ext.spec.helm => releases'[Server(n)] = releases[Server(n)]
    BY DistinctReleases DEF SetRelease, TypeInv, ClusterOK
  <1>3. \A n \in Names : releases'[UI(n)] = releases[UI(n)]
    BY DistinctReleases DEF SetRelease, TypeInv, ClusterOK
  <1> QED BY <1>1, <1>2, <1>3 DEF SetRelease, Owner, Contained

\* reconcileHelmSource creates the release the spec names and no other.
LEMMA OwnerHelm ==
  ASSUME TypeInv, Owner, EnsureRelease \/ HelmServerDone \/ HelmServerFails \/ FindService
  PROVE  Owner'
  <1>1. pc \in ApplyPath
    BY Paths DEF EnsureRelease, HelmServerDone, HelmServerFails, FindService
  <1>2. {"helmServer", "service", "setFailed", "readiness"} \subseteq ApplyPath \ {"helmUI"}
    BY Paths
  <1>3. pc \in HelmLabels => ext.spec.src = "helm"
    BY DEF TypeInv, ControlOK
  <1>4. CASE EnsureRelease
    BY <1>1, <1>2, <1>3, <1>4, ContainedServer, OwnerCall, OwnerRead
       DEF EnsureRelease, Install, Upgrade, HelmRefuses, Call, HelmLabels
  <1>5. CASE HelmServerDone
    BY <1>1, <1>2, <1>3, <1>5, ContainedServer, OwnerCall DEF HelmServerDone, Call, HelmLabels
  <1>6. CASE HelmServerFails
    BY <1>1, <1>2, <1>3, <1>6, ContainedServer, OwnerCall DEF HelmServerFails, HelmLabels
  <1>7. CASE FindService
    <2>1. CASE CallFails \/ Skip("setFailed")
      BY <1>1, <1>2, <2>1, OwnerRead
    <2>2. CASE ~(CallFails \/ Skip("setFailed"))
      <3>1. /\ cached' = cached /\ SameResource /\ Contained'
            /\ pc' = "readiness" /\ ext' = ext
        BY <1>7, <2>2, ContainedStays, UnchangedCluster
           DEF FindService, Reads, apiVars, SameResource, Owner
      <3> QED BY <1>1, <1>2, <3>1, OwnerStays DEF Owner, ReconcileAgrees
    <2> QED BY <2>1, <2>2
  <1> QED BY <1>4, <1>5, <1>6, <1>7

\* The readiness check and handleNotReady touch annotations and status only.
LEMMA OwnerReadiness ==
  ASSUME TypeInv, Owner, CheckReadiness \/ ClearWaiting \/ NotReady \/ MarkWaiting
  PROVE  Owner'
  <1>1. pc \in ApplyPath
    BY Paths DEF CheckReadiness, ClearWaiting, NotReady, MarkWaiting
  <1>2. {"resolve", "clearWaiting", "notReady", "markWaiting"} \subseteq ApplyPath \ {"helmUI"}
    BY Paths
  <1>3. /\ \A w : [ext EXCEPT !.waiting = w].finalizer = ext.finalizer
        /\ \A p : [ext EXCEPT !.phase = p].finalizer = ext.finalizer
    BY DEF TypeInv, ControlOK, ResourceType
  <1>4. CASE CheckReadiness
    <2>1. PICK to \in ApplyPath \ {"helmUI"} : Goto(to) /\ Reads
      BY <1>2, <1>4 DEF CheckReadiness, Skip
    <2>2. Contained' /\ UNCHANGED <<apiVars, cached>>
      BY <2>1, ContainedStays, UnchangedCluster DEF Reads, apiVars, Owner
    <2> QED BY <1>1, <2>1, <2>2, OwnerCall
  <1>5. CASE ClearWaiting
    BY <1>1, <1>2, <1>3, <1>5, OwnerPatch DEF ClearWaiting
  <1>6. CASE NotReady
    BY <1>1, <1>2, <1>3, <1>6, OwnerRead, OwnerPatch DEF NotReady
  <1>7. CASE MarkWaiting
    <2>1. CASE Return(FALSE, TRUE) /\ UNCHANGED apiVars
      <3>1. SameResource /\ Contained' /\ cached' = cached /\ pc' = "idle"
        BY <1>7, <2>1, ContainedStays, UnchangedCluster
           DEF MarkWaiting, Return, SameResource, apiVars, Owner
      <3> QED BY <3>1, OwnerStays
    <2>2. CASE ~(Return(FALSE, TRUE) /\ UNCHANGED apiVars)
      BY <1>1, <1>2, <1>3, <1>7, <2>2, OwnerPatch DEF MarkWaiting
    <2> QED BY <2>1, <2>2
  <1> QED BY <1>4, <1>5, <1>6, <1>7

\* So do updateSourceAnnotations and setStatus.
LEMMA OwnerStatus ==
  ASSUME TypeInv, Owner, Annotate \/ Finish \/ SetFailed
  PROVE  Owner'
  <1>1. pc \in ApplyPath /\ "finish" \in ApplyPath \ {"helmUI"}
    BY Paths DEF Annotate, Finish, SetFailed
  <1>2. /\ \A l : [ext EXCEPT !.last = l].finalizer = ext.finalizer
        /\ \A p : [ext EXCEPT !.phase = p].finalizer = ext.finalizer
        /\ InstalledStatus.finalizer = ext.finalizer
    BY DEF InstalledStatus, TypeInv, ControlOK, ResourceType
  <1>3. CASE Annotate
    BY <1>1, <1>2, <1>3, OwnerRead, OwnerPatch DEF Annotate
  <1>4. CASE Finish
    <2>1. CASE Return(FALSE, tracking) /\ UNCHANGED apiVars
      <3>1. SameResource /\ Contained' /\ cached' = cached /\ pc' = "idle"
        BY <1>4, <2>1, ContainedStays, UnchangedCluster
           DEF Finish, Return, SameResource, apiVars, Owner
      <3> QED BY <3>1, OwnerStays
    <2>2. CASE ~(Return(FALSE, tracking) /\ UNCHANGED apiVars)
      BY <1>1, <1>2, <1>4, <2>2, OwnerPatch DEF Finish
    <2> QED BY <2>1, <2>2
  <1>5. CASE SetFailed
    BY <1>1, <1>2, <1>5, OwnerPatch DEF SetFailed
  <1> QED BY <1>3, <1>4, <1>5

\* The Ensure calls create the objects the spec names; without an unmanaged spec
\* no UIPlugin release is ever installed.
LEMMA OwnerRancher ==
  ASSUME ManagedOnly, TypeInv, Owner,
         \/ Resolve \/ EnsureRepo \/ EnsureUIPlugin
         \/ EnsureUIPluginRelease \/ HelmUIDone \/ HelmUIFails
  PROVE  Owner'
  <1>1. pc \in ApplyPath /\ pc \notin {"idle", "helmUI"}
    BY Paths DEF Resolve, EnsureRepo, EnsureUIPlugin, EnsureUIPluginRelease, HelmUIDone,
       HelmUIFails, Owner, ReconcileAgrees
  <1>2. {"ensureRepo", "ensurePlugin", "annotate"} \subseteq ApplyPath \ {"helmUI"}
    BY Paths
  <1>3. ext.spec.policy = "managed" /\ ext.spec = cr.spec /\ cr.finalizer
    BY <1>1 DEF ManagedOnly, TypeInv, ControlOK, Owner, ReconcileAgrees
  <1>4. CASE CallFails
    BY <1>1, <1>2, <1>4, OwnerRead
  <1>5. CASE Resolve /\ ~CallFails
    <2>1. /\ cached' = cached /\ SameResource /\ Contained'
          /\ pc' = "ensureRepo" /\ ext' = ext
      BY <1>5, ContainedStays, UnchangedCluster
         DEF Resolve, Reads, apiVars, SameResource, Owner
    <2> QED BY <1>1, <1>2, <1>3, <2>1, OwnerStays
  <1>6. CASE EnsureRepo /\ ~CallFails
    <2>1. Contained'
      <3>1. \A n \in Names : n # RepoName(cr.spec) => repos'[n] = repos[n]
        BY <1>3, <1>6 DEF EnsureRepo, Call, TypeInv, ClusterOK
      <3> QED BY <1>3, <1>6, <3>1 DEF EnsureRepo, Call, apiVars, Owner, Contained
    <2> QED BY <1>1, <1>2, <1>6, <2>1, OwnerCall DEF EnsureRepo, Call
  <1>7. CASE EnsureUIPlugin /\ ~CallFails
    <2>1. Contained'
      <3>1. \A n \in Names : n # cr.spec.ext => plugins'[n] = plugins[n]
        BY <1>3, <1>7 DEF EnsureUIPlugin, Call, TypeInv, ClusterOK
      <3> QED BY <1>3, <1>7, <3>1 DEF EnsureUIPlugin, Call, apiVars, Owner, Contained
    <2> QED BY <1>1, <1>2, <1>7, <2>1, OwnerCall DEF EnsureUIPlugin, Call
  <1> QED BY <1>1, <1>3, <1>4, <1>5, <1>6, <1>7
          DEF EnsureUIPluginRelease, HelmUIDone, HelmUIFails

\* handleDeletion only removes, and keeps the copy it works from.
LEMMA OwnerDeletion ==
  ASSUME TypeInv, Owner, DeleteServer \/ DeleteUI \/ CleanupPlugin \/ CleanupRepo
  PROVE  Owner'
  <1>1. pc \in DeletionPath
    BY Paths DEF DeleteServer, DeleteUI, CleanupPlugin, CleanupRepo
  <1>2. \/ pc' = "idle"
        \/ pc' \in DeletionPath /\ ext' = ext
    BY Paths DEF DeleteServer, DeleteUI, CleanupPlugin, CleanupRepo, Call, Skip, Goto,
       DeletionFails, ReturnError, Return
  <1>3. NothingAppears /\ cr' = cr /\ cached' = cached
    BY DeletionRemoves, UnchangedCluster
       DEF DeleteServer, DeleteUI, CleanupPlugin, CleanupRepo, Call, Skip, DeletionFails,
           Reads, apiVars
  <1>4. SameResource /\ Contained'
    BY <1>3, ContainedStays DEF SameResource, Owner
  <1> QED BY <1>1, <1>2, <1>3, <1>4, OwnerStays

\* The finalizer is added to a resource that has none, or has it already.
LEMMA OwnerAddFinalizer ==
  ASSUME TypeInv, Owner, AddFinalizer
  PROVE  Owner'
  <1>1. pc = "addFinalizer" /\ pc' = "idle" /\ cached' = cached /\ NothingAppears
    BY UnchangedCluster
       DEF AddFinalizer, PatchAndReturn, PatchFails, ReturnError, Return
  <1>2. /\ cr'.present = cr.present /\ cr'.deleting = cr.deleting /\ cr'.spec = cr.spec
        /\ cr.finalizer => cr'.finalizer
        /\ cr'.finalizer => cr'.present
    <2>1. CASE PatchFails
      BY <2>1 DEF PatchFails, apiVars, Owner
    <2>2. CASE PatchAndReturn([ext EXCEPT !.finalizer = TRUE], TRUE, FALSE)
      <3>1. [ext EXCEPT !.finalizer = TRUE].finalizer = TRUE
        BY DEF TypeInv, ControlOK, ResourceType
      <3> QED BY <2>2, <3>1 DEF PatchAndReturn, Write, Patched, Merge
    <2> QED BY <2>1, <2>2 DEF AddFinalizer
  <1>3. Contained'
    BY <1>1, <1>2 DEF Owner, Contained, NothingAppears, RepoName
  <1>4. cached.deleting => cr.deleting /\ cr.finalizer /\ cr.spec = cached.spec
    BY <1>1, Paths DEF Owner, CacheAgrees
  <1>5. CacheAgrees'
    BY <1>1, <1>2, <1>4 DEF Owner, CacheAgrees
  <1>6. ReconcileAgrees'
    BY <1>1, Paths DEF ReconcileAgrees
  <1> QED BY <1>2, <1>3, <1>5, <1>6 DEF Owner

\* The finalizer is dropped when nothing is left, and the resource goes with it.
LEMMA OwnerRemoveFinalizer ==
  ASSUME TypeInv, Removed, Owner, RemoveFinalizer
  PROVE  Owner'
  <1>1. /\ pc = "dropFinalizer" /\ pc' = "idle" /\ cached' = cached
        /\ UNCHANGED clusterVars
    BY DEF RemoveFinalizer, PatchAndReturn, PatchFails, ReturnError, Return
  <1>2. /\ ext.finalizer /\ ~(cached.present /\ cached.finalizer /\ ~cached.deleting)
        /\ cr.finalizer => cr.deleting /\ cr.spec = ext.spec
    BY <1>1, Paths DEF Owner, ReconcileAgrees
  <1>3. CASE UNCHANGED apiVars
    BY <1>1, <1>3, OwnerStays, ContainedStays, UnchangedCluster DEF apiVars, SameResource, Owner
  <1>4. CASE ~UNCHANGED apiVars
    <2>1. ~cr'.finalizer /\ ~cr'.deleting
      <3>1. [ext EXCEPT !.finalizer = FALSE].finalizer = FALSE
        BY DEF TypeInv, ControlOK, ResourceType
      <3>2. PICK new : /\ new.finalizer = FALSE
                       /\ \/ cr' = NoResource
                          \/ ~cr.deleting /\ cr' = Patched(new)
        BY <1>4, <3>1 DEF RemoveFinalizer, PatchAndReturn, PatchFails, Write
      <3>3. Patched(new).finalizer = FALSE /\ Patched(new).deleting = cr.deleting
        BY <1>2, <3>2 DEF Patched, Merge
      <3>4. NoResource.finalizer = FALSE /\ NoResource.deleting = FALSE
        BY DEF NoResource
      <3> QED BY <3>2, <3>3, <3>4
    <2>2. \A n \in Names : /\ releases[Server(n)].status = "absent"
                           /\ releases[UI(n)].status = "absent"
                           /\ repos[n].kind = "none" /\ plugins[n].owner = "none"
      BY <1>1, <1>2 DEF Owner, Contained, Removed, DeletionLabels, DoomedServer
    <2>3. Contained'
      BY <1>1, <2>2 DEF Contained, clusterVars
    <2>4. CacheAgrees' /\ ReconcileAgrees'
      BY <1>1, <1>2, <2>1, Paths DEF CacheAgrees, ReconcileAgrees
    <2> QED BY <2>1, <2>3, <2>4 DEF Owner
  <1> QED BY <1>3, <1>4

\* A reconcile starts from the cached copy: it applies the spec of a resource that
\* holds its finalizer, or deletes for one that is going away or gone.
LEMMA OwnerBegin ==
  ASSUME TypeInv, Owner, ReconcileLive \/ ReconcileDeleting \/ ReconcileGone
  PROVE  Owner'
  <1>1. UNCHANGED <<cr, cached, clusterVars>> /\ pc = "idle"
    BY DEF ReconcileLive, ReconcileDeleting, ReconcileGone, Begin, Reads, apiVars
  <1>2. SameResource /\ Contained'
    BY <1>1, ContainedStays, UnchangedCluster DEF SameResource, Owner
  <1>3. CASE ReconcileGone
    BY <1>1, <1>2, <1>3, OwnerStays DEF ReconcileGone
  <1>4. CASE ReconcileLive
    <2>1. CacheAgrees'
      BY <1>1, <1>4 DEF Owner, CacheAgrees, ReconcileLive
    <2>2. /\ pc' \in {"addFinalizer", "cleanRelease"}
          /\ pc' = "cleanRelease" => ext'.spec = cr.spec /\ cr.finalizer
      BY <1>4 DEF Owner, CacheAgrees, ReconcileLive, Begin
    <2>3. ReconcileAgrees'
      BY <1>1, <2>2, Paths DEF ReconcileAgrees
    <2> QED BY <1>1, <1>2, <2>1, <2>3 DEF Owner
  <1>5. CASE ReconcileDeleting
    <2>1. pc' = "delRelease" /\ ext' = cached /\ cached.deleting /\ cached.finalizer
      BY <1>5 DEF ReconcileDeleting, Begin
    <2>2. CacheAgrees' /\ ReconcileAgrees'
      BY <1>1, <2>1, Paths DEF Owner, CacheAgrees, ReconcileAgrees
    <2> QED BY <1>1, <1>2, <2>2 DEF Owner
  <1> QED BY <1>3, <1>4, <1>5

\* The watch, the timers, the deployments, a crash.
LEMMA OwnerWorld ==
  ASSUME TypeInv, Owner, World
  PROVE  Owner'
  <1>1. CASE CacheSync
    <2>1. /\ cr' = cr /\ cached' = cr /\ pc' = pc /\ ext' = ext /\ UNCHANGED clusterVars
      BY <1>1 DEF CacheSync
    <2>2. Contained'
      BY <2>1, ContainedStays, UnchangedCluster DEF Owner
    <2>3. CacheAgrees' /\ ReconcileAgrees'
      BY <2>1 DEF Owner, CacheAgrees, ReconcileAgrees
    <2> QED BY <2>1, <2>2, <2>3 DEF Owner
  <1>2. CASE Crash
    <2>1. /\ cr' = cr /\ cached' = cr /\ pc' = "idle" /\ UNCHANGED clusterVars
      BY <1>2 DEF Crash
    <2>2. Contained'
      BY <2>1, ContainedStays, UnchangedCluster DEF Owner
    <2>3. CacheAgrees' /\ ReconcileAgrees'
      BY <2>1, Paths DEF Owner, CacheAgrees, ReconcileAgrees
    <2> QED BY <2>1, <2>2, <2>3 DEF Owner
  <1>3. CASE ReadinessTimeout
    <2>1. \A e \in ResourceType :
            /\ Aged(e).present = e.present /\ Aged(e).finalizer = e.finalizer
            /\ Aged(e).deleting = e.deleting /\ Aged(e).spec = e.spec
      BY DEF Aged, ResourceType
    <2>2. /\ SameResource /\ pc' = pc /\ UNCHANGED clusterVars
          /\ ext'.spec = ext.spec /\ ext'.finalizer = ext.finalizer
          /\ cached'.present = cached.present /\ cached'.finalizer = cached.finalizer
          /\ cached'.deleting = cached.deleting /\ cached'.spec = cached.spec
      BY <1>3, <2>1 DEF ReadinessTimeout, SameResource, TypeInv, ApiOK, ControlOK
    <2>3. Contained'
      BY <2>2, ContainedStays, UnchangedCluster DEF Owner, SameResource
    <2>4. CacheAgrees' /\ ReconcileAgrees'
      BY <2>2 DEF Owner, CacheAgrees, ReconcileAgrees, SameResource
    <2> QED BY <2>2, <2>3, <2>4 DEF Owner, SameResource
  <1>4. CASE TimerFires \/ \E n \in Names : BecomeReady(n) \/ LoseReadiness(n)
    <2>1. /\ cr' = cr /\ cached' = cached /\ pc' = pc /\ ext' = ext
          /\ UNCHANGED <<releases, repos, plugins>>
      BY <1>4 DEF TimerFires, BecomeReady, LoseReadiness, apiVars, operatorVars, clusterVars
    <2>2. SameResource /\ Contained'
      BY <2>1, ContainedStays DEF SameResource, NothingAppears, Owner
    <2> QED BY <2>1, <2>2, OwnerStays
  <1> QED BY <1>1, <1>2, <1>3, <1>4 DEF World

\* A resource without finalizer owns nothing; one with it stays, marked.
LEMMA OwnerUser ==
  ASSUME TypeInv, Owner, UserCreate \/ UserDelete
  PROVE  Owner'
  <1>1. UNCHANGED <<cached, pc, ext>> /\ NothingAppears
    BY UnchangedCluster DEF UserCreate, UserDelete, operatorVars
  <1>2. CASE UserDelete /\ cr.finalizer
    <2>1. /\ cr'.present = cr.present /\ cr'.finalizer = cr.finalizer /\ cr'.spec = cr.spec
          /\ cr'.deleting = TRUE
      BY <1>2 DEF UserDelete, Write, TypeInv, ApiOK, ResourceType
    <2>2. Contained'
      BY <1>1, <2>1, ContainedStays DEF Owner
    <2>3. CacheAgrees' /\ ReconcileAgrees'
      BY <1>1, <1>2, <2>1 DEF Owner, CacheAgrees, ReconcileAgrees
    <2> QED BY <1>2, <2>1, <2>2, <2>3 DEF Owner
  <1>3. CASE UserCreate \/ ~cr.finalizer
    <2>1. ~cr.finalizer
      BY <1>3 DEF UserCreate, Owner
    <2>2. ~cr'.finalizer /\ ~cr'.deleting
      <3>1. ~NoResource.finalizer /\ ~NoResource.deleting
        BY DEF NoResource
      <3>2. \A s : ~NewResource(s).finalizer /\ ~NewResource(s).deleting
        BY DEF NewResource, NoResource
      <3> QED BY <2>1, <3>1, <3>2 DEF UserCreate, UserDelete, Write
    <2>3. Contained'
      BY <1>1, <2>1 DEF Owner, Contained, NothingAppears
    <2>4. CacheAgrees' /\ ReconcileAgrees'
      BY <1>1, <2>1, <2>2 DEF Owner, CacheAgrees, ReconcileAgrees
    <2> QED BY <2>2, <2>3, <2>4 DEF Owner
  <1> QED BY <1>2, <1>3

\* Ownership is an inductive invariant for users who do not edit.
LEMMA OwnerInductive ==
  ASSUME ManagedOnly, TypeInv, Removed, Owner, [StableNext]_vars
  PROVE  Owner'
  <1>1. CASE UNCHANGED vars
    BY <1>1, OwnerStays, ContainedStays, UnchangedCluster
       DEF vars, apiVars, operatorVars, SameResource, Owner
  <1>2. CASE Operator
    BY <1>2, OwnerBegin, OwnerAddFinalizer, OwnerCleanup, OwnerHelm, OwnerReadiness,
       OwnerRancher, OwnerStatus, OwnerDeletion, OwnerRemoveFinalizer DEF Operator
  <1> QED BY <1>1, <1>2, OwnerWorld, OwnerUser DEF StableNext

\* A managed resource that is gone has left nothing behind: no Helm release, no
\* ClusterRepo and no UIPlugin, whatever stale copies the reconciler worked from
\* and wherever calls failed or the operator crashed.
THEOREM ManagedLeavesNoOrphans ==
  ASSUME ManagedOnly
  PROVE  StableSpec => []NoOrphans
  <1>1. Init => TypeInv /\ Removed /\ Owner
    <2> SUFFICES ASSUME Init PROVE TypeInv /\ Removed /\ Owner
      OBVIOUS
    <2>1. Removed
      BY DEF Init, Empty, Removed, DeletionLabels
    <2>2. Contained
      BY ReleaseNames DEF Init, Empty, Contained, NoRelease, NoEndpoint, NoPlugin
    <2>3. /\ ~cr.finalizer /\ ~cr.deleting
          /\ CacheAgrees /\ ReconcileAgrees
      BY Paths DEF Init, Empty, NoResource, CacheAgrees, ReconcileAgrees
    <2> QED BY <2>1, <2>2, <2>3, InitType DEF Owner
  <1>2. TypeInv /\ Removed /\ Owner /\ [StableNext]_vars => (TypeInv /\ Removed /\ Owner)'
    BY NextIsFree, NextType, RemovedInductive, OwnerInductive
  <1>3. Owner => NoOrphans
    BY DEF Owner, Contained, NoOrphans, Owned, Nothing
  <1> QED BY <1>1, <1>2, <1>3, PTL DEF StableSpec

-----------------------------------------------------------------------------
(* Hands off.  A reconcile that deletes releases on behalf of the finalizer *)
(* works from a copy that is being deleted.                                 *)

DeletesDeleted == pc \in DeletionPath => ext.deleting

\* handleDeletion is entered by ReconcileDeleting, from a copy being deleted, and
\* keeps that copy.
LEMMA DeletesDeletedInductive ==
  ASSUME TypeInv, DeletesDeleted, [Next]_vars
  PROVE  DeletesDeleted'
  <1>1. DeletionPath = DeletionLabels \union {"delRelease"}
    BY DEF DeletionPath
  <1>2. CASE pc' = "idle" \/ pc' \notin DeletionPath
    BY <1>2, Paths DEF DeletesDeleted
  <1>3. CASE pc' = pc /\ ext'.deleting = ext.deleting
    BY <1>3 DEF DeletesDeleted
  <1>4. CASE ReconcileDeleting
    BY <1>4 DEF ReconcileDeleting, Begin, DeletesDeleted
  <1>5. CASE ReconcileLive
    BY <1>5, Paths DEF ReconcileLive, Begin, DeletesDeleted
  <1>6. CASE DeleteServer \/ DeleteUI \/ CleanupPlugin \/ CleanupRepo
    <2>1. pc \in DeletionPath /\ (pc' = "idle" \/ ext' = ext)
      BY <1>6, Paths DEF DeleteServer, DeleteUI, CleanupPlugin, CleanupRepo, Call, Skip, Goto,
         DeletionFails, ReturnError, Return
    <2> QED BY <1>2, <2>1 DEF DeletesDeleted
  <1>7. CASE \/ AddFinalizer \/ CleanRelease \/ CleanRepo \/ CleanPlugin
             \/ EnsureRelease \/ HelmServerDone \/ HelmServerFails \/ FindService
             \/ CheckReadiness \/ ClearWaiting \/ NotReady \/ MarkWaiting
             \/ Resolve \/ EnsureRepo \/ EnsureUIPlugin \/ EnsureUIPluginRelease
             \/ HelmUIDone \/ HelmUIFails \/ Annotate \/ Finish \/ SetFailed
             \/ RemoveFinalizer
    <2>1. pc' \notin DeletionPath \/ ReconcileDeleting
      BY <1>1, <1>7, OnlyDeletionEnters
    <2> QED BY <1>2, <1>4, <2>1
  <1>8. CASE World
    <2>1. CASE ReadinessTimeout
      <3>1. Aged(ext).deleting = ext.deleting
        BY DEF Aged, TypeInv, ControlOK, ResourceType
      <3> QED BY <1>3, <2>1, <3>1 DEF ReadinessTimeout
    <2> QED BY <1>2, <1>3, <1>8, <2>1
            DEF World, CacheSync, TimerFires, Crash, BecomeReady, LoseReadiness, operatorVars
  <1>9. CASE \/ ReconcileGone \/ UserCreate \/ UserEdit \/ UserDelete \/ RancherUser
             \/ UNCHANGED vars
    BY <1>3, <1>9 DEF ReconcileGone, UserCreate, UserEdit, UserDelete, RancherUser, UIUpgrade,
       UIUninstall, operatorVars, vars
  <1> QED BY <1>4, <1>5, <1>6, <1>7, <1>8, <1>9 DEF Next, Operator

\* A change of a deployment release leaves every UIPlugin release alone.
LEMMA ServersAreNotUIs ==
  ASSUME TypeInv, NEW m, NEW x, releases' = [releases EXCEPT ![Server(m)] = x], NEW n \in Names
  PROVE  releases'[UI(n)] = releases[UI(n)]
  BY DistinctReleases, ReleaseNames DEF TypeInv, ClusterOK

\* No step of the reconciler that applies an unmanaged spec touches a UIPlugin
\* release that exists.
LEMMA HandsOffStep ==
  ASSUME TypeInv, DeletesDeleted, [Next]_vars,
         pc' # pc, pc # "helmUI", ext.present, ~ext.deleting, ext.spec.policy = "unmanaged",
         NEW n \in Names, releases[UI(n)].status # "absent"
  PROVE  releases'[UI(n)] = releases[UI(n)]
  <1>1. CASE releases' = releases
    BY <1>1
  <1>2. pc \notin DeletionPath
    BY DEF DeletesDeleted
  <1>3. CASE CleanRelease \/ CleanRepo \/ CleanPlugin
    BY <1>1, <1>3, ServersAreNotUIs
       DEF CleanRelease, CleanRepo, CleanPlugin, Call, Skip, CallFails, Reads, clusterVars,
           DeleteRelease, DeleteRepo, DeletePlugin
  <1>4. CASE EnsureRelease \/ HelmServerDone \/ HelmServerFails \/ FindService
    BY <1>1, <1>4, ServersAreNotUIs
       DEF EnsureRelease, HelmServerDone, HelmServerFails, FindService, Install, Upgrade,
           HelmRefuses, Call, Skip, CallFails, Reads, clusterVars, SetRelease
  <1>5. CASE EnsureUIPluginRelease
    <2>1. CASE Install(UI(ext.spec.ext), ext.spec.version, "helmUI")
      <3>1. UI(n) # UI(ext.spec.ext)
        BY <2>1 DEF Install
      <3> QED BY <2>1, <3>1, ReleaseNames DEF Install, Call, SetRelease, TypeInv, ClusterOK
    <2> QED BY <1>1, <1>5, <2>1
            DEF EnsureUIPluginRelease, Skip, CallFails, Reads, clusterVars
  <1>6. CASE Resolve \/ EnsureRepo \/ EnsureUIPlugin
    BY <1>1, <1>6 DEF Resolve, EnsureRepo, EnsureUIPlugin, Call, CallFails, Reads, clusterVars
  <1>7. CASE \/ ReconcileLive \/ ReconcileDeleting \/ ReconcileGone \/ AddFinalizer
             \/ CheckReadiness \/ ClearWaiting \/ NotReady \/ MarkWaiting
             \/ Annotate \/ Finish \/ SetFailed \/ RemoveFinalizer
    BY <1>1, <1>7
       DEF ReconcileLive, ReconcileDeleting, ReconcileGone, Begin, AddFinalizer, CheckReadiness,
           ClearWaiting, NotReady, MarkWaiting, Annotate, Finish, SetFailed, RemoveFinalizer,
           Skip, Reads, clusterVars
  <1>8. CASE DeleteServer \/ DeleteUI \/ CleanupPlugin \/ CleanupRepo
    BY <1>2, <1>8, Paths DEF DeleteServer, DeleteUI, CleanupPlugin, CleanupRepo
  <1>9. CASE World
    BY <1>1, <1>9 DEF World, CacheSync, TimerFires, ReadinessTimeout, Crash, BecomeReady,
       LoseReadiness, clusterVars
  <1>10. CASE UserCreate \/ UserEdit \/ UserDelete \/ RancherUser \/ UNCHANGED vars
    BY <1>10 DEF UserCreate, UserEdit, UserDelete, RancherUser, UIUpgrade, UIUninstall,
       operatorVars, vars
  <1> QED BY <1>3, <1>4, <1>5, <1>6, <1>7, <1>8, <1>9, <1>10
          DEF Next, Operator, HelmUIDone, HelmUIFails

\* While it applies an unmanaged spec the operator neither upgrades nor removes a
\* UIPlugin release that exists, even when the spec is edited under its feet.
THEOREM UnmanagedIsHandsOff == Spec => HandsOff
  <1>1. Init => DeletesDeleted
    BY Paths DEF Init, Empty, DeletesDeleted
  <1>2. TypeInv /\ DeletesDeleted /\ [Next]_vars =>
          [/\ pc' # pc /\ pc # "helmUI"
           /\ ext.present /\ ~ext.deleting /\ ext.spec.policy = "unmanaged"
           => \A n \in Names : releases[UI(n)].status # "absent"
                                  => releases'[UI(n)] = releases[UI(n)]]_vars
    BY HandsOffStep
  <1> QED BY <1>1, <1>2, TypeInvariant, DeletesDeletedInductive, PTL DEF Spec, HandsOff

-----------------------------------------------------------------------------
(* Exactness, for users who wait for Installed before they change the      *)
(* resource again.  The invariant follows the spec from the resource       *)
(* through the cached copy and the reconciler's own to the cluster.        *)

\* A resource keeps the name of its extension: nothing cleans up after a rename.
OneExtension == \A s, t \in UserSpecs : s.ext = t.ext

HasServer(n) == releases[Server(n)].status # "absent"
HasUI(n)     == releases[UI(n)].status # "absent"
HasRepo(n)   == repos[n].kind # "none"
HasPlugin(n) == plugins[n].owner # "none"

\* What accounts for the objects of the cluster: the spec, and the annotations
\* that record what was last applied.
Accounts == IF cr.finalizer THEN {LastOf(cr.spec), cr.last} ELSE {}

Within ==
    \A n \in Names :
      /\ HasServer(n) => \E l \in Accounts : n = l.server
      /\ HasUI(n) => \E l \in Accounts : l.policy = "unmanaged" /\ n = l.ui
      /\ HasRepo(n) => \E l \in Accounts : n = l.repo
      /\ HasPlugin(n) => \E l \in Accounts : n = l.ui

Held == /\ Within
        /\ cr.finalizer => cr.present
        /\ cr.deleting => cr.finalizer /\ cr.last = LastOf(cr.spec)
        /\ cr.last = NoLast \/ \E t \in UserSpecs : cr.last = LastOf(t)

\* A copy of the resource has its spec, or is that of the resource as it was settled
\* before its last edit; the annotations are the copy's, unless they were written since.
Follows(c) ==
    /\ \/ c.spec = cr.spec
       \/ /\ c.last = LastOf(c.spec) /\ cr.last = c.last
          /\ c.spec.src = "helm" => c.waiting = "no"
    /\ c.last = cr.last \/ cr.last = LastOf(cr.spec)

CacheFollows ==
    /\ cached.present /\ cached.finalizer /\ ~cached.deleting => cr.finalizer /\ Follows(cached)
    /\ cached.deleting /\ cr.finalizer =>
         cr.deleting /\ cr.spec = cached.spec /\ cr.last = cached.last
    /\ cached.deleting /\ pc \notin DeletionPath \union {"idle"} => cr.deleting

\* The steps of reconcileHelmSource that only a helm source takes.
HelmPath == {"ensureRelease", "helmServer", "service", "readiness", "clearWaiting"}

PassFollows ==
    /\ pc \in ApplyPath =>
         /\ cr.finalizer /\ Follows(ext)
         /\ ext.spec = cr.spec /\ pc # "markWaiting" => cached.spec = cr.spec
    /\ pc \in DeletionPath =>
         /\ ext.finalizer
         /\ cr.finalizer => cr.deleting /\ cr.spec = ext.spec /\ cr.last = ext.last
         /\ ~(cached.present /\ cached.finalizer /\ ~cached.deleting)
    /\ pc \in HelmPath => ext.spec.src = "helm"
    /\ pc = "clearWaiting" => ext.waiting # "no"
    /\ pc = "helmUI" => ext.spec.policy = "unmanaged"

\* Past detectAndCleanupSourceChange, nothing is left that the spec does not name.
Unclean == {"cleanRelease", "notReady", "markWaiting", "setFailed"}

Cleaned ==
    pc \in ApplyPath \ Unclean /\ ext.spec = cr.spec =>
      \A n \in Names :
        /\ HasServer(n) => n = ext.spec.helm
        /\ HasRepo(n) /\ pc # "cleanRepo" => n = RepoName(ext.spec)
        /\ HasUI(n) /\ pc \notin {"cleanRepo", "cleanPlugin"} => ext.spec.policy = "unmanaged"

\* What the reconcile in progress has applied so far of its copy of the spec.
AtLast        == {"annotate", "finish"}
FromPlugin    == {"ensurePlugin", "helmUI"} \union AtLast
FromRepo      == {"ensureRepo"} \union FromPlugin
FromResolve   == {"resolve"} \union FromRepo
FromReadiness == {"readiness", "clearWaiting"} \union FromResolve
FromHelm      == {"helmServer", "service"} \union FromReadiness

Progress ==
    /\ pc \in FromHelm /\ ext.spec.src = "helm" =>
         HasServer(ext.spec.helm) /\ releases[Server(ext.spec.helm)].content = ext.spec.rev
    /\ pc \in FromReadiness /\ ext.spec.src = "helm" => svc = ext.spec.helm
    /\ pc \in FromRepo /\ ext.spec.policy = "managed" => resolved # None
    /\ pc \in FromPlugin => repos[RepoName(ext.spec)] = Endpoint
    /\ pc \in AtLast /\ ext.spec.policy = "managed" =>
         plugins[ext.spec.ext].version = resolved /\ plugins[ext.spec.ext].at = Endpoint
    /\ pc \in AtLast \union {"helmUI"} /\ ext.spec.policy = "unmanaged" => HasUI(ext.spec.ext)
    /\ pc = "finish" => ext.last = LastOf(ext.spec)
    /\ pc = "markWaiting" => ext.phase = "Installing"

\* A spec that has been applied: its objects are there, and recorded.
Applied == /\ Exact(cr.spec) /\ cr.last = LastOf(cr.spec)
           /\ cr.spec.src = "helm" => cr.waiting = "no"

\* With no event on its way the cache is current; with no reconcile due either, so is
\* the reconcile in progress, and a settled resource has been applied.
Current ==
    /\ ~event => cached = cr
    /\ ~event /\ ~queued =>
         /\ pc # "idle" => ext = cr
         /\ pc \in FromResolve /\ ext.spec.src = "helm" => ext.waiting = "no"
         /\ Settled => Applied

Follow == Held /\ CacheFollows /\ PassFollows /\ Cleaned /\ Progress /\ Current

\* A step that changes nothing of the resource that the copies of it follow.
SameRecord == SameResource /\ cr'.last = cr.last

-----------------------------------------------------------------------------
\* What updateSourceAnnotations records of a spec, and what it records of none.
LEMMA LastFields ==
  /\ \A s : /\ LastOf(s).source = s.src /\ LastOf(s).server = s.helm
            /\ LastOf(s).repo = RepoName(s) /\ LastOf(s).ui = s.ext
            /\ LastOf(s).policy = s.policy
  /\ NoLast.source = "none" /\ NoLast.server = None /\ NoLast.repo = None
  /\ NoLast.ui = None /\ NoLast.policy = "none"
  BY DEF LastOf, NoLast

\* A spec that a copy holds may have changed since, but it is accounted for.
LEMMA AccountsForCopy ==
  ASSUME Held, PassFollows, pc \in ApplyPath
  PROVE  LastOf(ext.spec) \in Accounts /\ cr.finalizer
  BY DEF PassFollows, Follows, Accounts

\* A step that creates nothing, and leaves what accounts for the objects.
LEMMA WithinStays ==
  ASSUME Within, NothingAppears, Accounts \subseteq Accounts'
  PROVE  Within'
  BY DEF Within, NothingAppears, HasServer, HasUI, HasRepo, HasPlugin

\* The spec and the source annotations are all that accounts for objects.
LEMMA SameAccounts ==
  ASSUME SameRecord
  PROVE  Accounts' = Accounts
  BY DEF SameRecord, SameResource, Accounts, LastOf, RepoName

\* A step that leaves them, and creates nothing unaccounted for.
LEMMA HeldStays ==
  ASSUME Held, SameRecord, NothingAppears \/ Within'
  PROVE  Held'
  <1>1. Within'
    BY WithinStays, SameAccounts DEF Held
  <1>2. LastOf(cr.spec)' = LastOf(cr.spec)
    BY DEF SameRecord, SameResource, LastOf, RepoName
  <1> QED BY <1>1, <1>2 DEF Held, SameRecord, SameResource


\* The cached copy still follows the resource.
LEMMA CacheStays ==
  ASSUME CacheFollows, SameRecord, cached' = cached,
         \/ pc' = pc \/ pc' \in {"idle"} \union DeletionPath
         \/ pc \notin {"idle"} \union DeletionPath
  PROVE  CacheFollows'
  BY DEF CacheFollows, Follows, SameRecord, SameResource

\* So does the reconciler's, on the way to applying it.
LEMMA PassStays ==
  ASSUME PassFollows, SameRecord, cached' = cached, ext' = ext,
         pc \in ApplyPath \ {"markWaiting"}, pc' \in ApplyPath,
         pc' \in HelmPath => ext.spec.src = "helm",
         pc' = "clearWaiting" => ext.waiting # "no",
         pc' = "helmUI" => ext.spec.policy = "unmanaged"
  PROVE  PassFollows'
  <1>1. pc' \notin DeletionPath
    BY Paths
  <1> QED BY <1>1 DEF PassFollows, Follows, SameRecord, SameResource

\* Nothing that has been cleaned up comes back, except by name of the spec.
LEMMA CleanedStays ==
  ASSUME Cleaned, NothingAppears, cr'.spec = cr.spec, ext'.spec = ext.spec,
         \/ pc' \notin ApplyPath \ Unclean
         \/ pc \in ApplyPath \ (Unclean \union {"cleanRepo", "cleanPlugin"})
  PROVE  Cleaned'
  <1>1. RepoName(ext.spec)' = RepoName(ext.spec)
    BY DEF RepoName
  <1> QED BY <1>1 DEF Cleaned, NothingAppears, HasServer, HasRepo, HasUI

\* A reconcile that goes on is as current as before.
LEMMA CurrentStays ==
  ASSUME Current, pc # "idle", pc' # "idle", UNCHANGED <<apiVars, cached, ext, queued>>,
         pc' \in FromResolve /\ ext.spec.src = "helm" => pc \in FromResolve \/ ext.waiting = "no"
  PROVE  Current'
  BY DEF Current, apiVars, Settled

\* A step of a reconcile that neither writes the resource nor reads it.
LEMMA FollowStep ==
  ASSUME Follow, pc \in ApplyPath \ {"markWaiting"}, pc' \in ApplyPath,
         UNCHANGED <<apiVars, cached, ext, queued>>,
         NothingAppears \/ Within', Cleaned', Progress',
         pc' \in HelmPath => ext.spec.src = "helm",
         pc' = "clearWaiting" => ext.waiting # "no",
         pc' = "helmUI" => ext.spec.policy = "unmanaged",
         pc' \in FromResolve /\ ext.spec.src = "helm" => pc \in FromResolve \/ ext.waiting = "no"
  PROVE  Follow'
  <1>1. SameRecord /\ pc # "idle" /\ pc' # "idle" /\ pc \notin DeletionPath
    BY Paths DEF SameRecord, SameResource, apiVars
  <1>2. Held' /\ CacheFollows' /\ PassFollows'
    BY <1>1, HeldStays, CacheStays, PassStays DEF Follow
  <1>3. Current'
    BY <1>1, CurrentStays DEF Follow
  <1> QED BY <1>2, <1>3 DEF Follow

\* A failing step sets the phase next; nothing it may leave behind counts as applied.
LEMMA FollowFailure ==
  ASSUME Follow, pc \in ApplyPath \ {"markWaiting"}, Goto("setFailed"),
         UNCHANGED <<apiVars, cached>>, NothingAppears \/ Within'
  PROVE  Follow'
  <1>1. pc' = "setFailed" /\ UNCHANGED <<ext, queued>> /\ pc' \in ApplyPath
    BY Paths DEF Goto
  <1>2. Cleaned' /\ Progress'
    BY <1>1 DEF Cleaned, Unclean, Progress, FromHelm, FromReadiness, FromResolve, FromRepo,
       FromPlugin, AtLast
  <1> QED BY <1>1, <1>2, FollowStep
          DEF HelmPath, FromResolve, FromRepo, FromPlugin, AtLast

\* A step that calls nothing that changes the cluster, or whose call fails.
LEMMA FollowCallFails ==
  ASSUME Follow, pc \in ApplyPath \ {"markWaiting"}, CallFails \/ Skip("setFailed")
  PROVE  Follow'
  BY FollowFailure, UnchangedCluster DEF CallFails, Skip, Reads, apiVars

\* The reconcile is over: the resource is settled only if it has been applied.
LEMMA FollowEnds ==
  ASSUME Follow, pc' = "idle", cached' = cached, UNCHANGED clusterVars,
         SameRecord, event \/ cr' # cr => event', queued => queued',
         ~event' /\ ~queued' /\ Settled' => Applied'
  PROVE  Follow'
  <1>1. NothingAppears
    BY UnchangedCluster
  <1>2. Held' /\ CacheFollows'
    BY <1>1, HeldStays, CacheStays DEF Follow
  <1>3. PassFollows' /\ Cleaned' /\ Progress'
    BY Paths DEF PassFollows, HelmPath, Cleaned, Progress, FromHelm, FromReadiness, FromResolve,
       FromRepo, FromPlugin, AtLast
  <1>4. Current'
    BY DEF Follow, Current, FromResolve, FromRepo, FromPlugin, AtLast
  <1> QED BY <1>2, <1>3, <1>4 DEF Follow

\* A reconcile that ends with an error is retried.
LEMMA FollowError ==
  ASSUME Follow, PatchFails \/ (DeletionFails /\ pc \in DeletionPath),
         UNCHANGED <<cached, clusterVars>>
  PROVE  Follow'
  <1>1. /\ pc' = "idle" /\ queued' /\ UNCHANGED apiVars
    BY DEF PatchFails, DeletionFails, Reads, ReturnError, Return
  <1>2. SameRecord
    BY <1>1 DEF SameRecord, SameResource, apiVars
  <1> QED BY <1>1, <1>2, FollowEnds DEF apiVars

\* A patch of neither the finalizers nor the source annotations.
LEMMA PatchedRecord ==
  ASSUME TypeInv, NEW new, new.finalizer = ext.finalizer, new.last = ext.last
  PROVE  /\ Patched(new).last = cr.last
         /\ Patched(new).present = cr.present /\ Patched(new).deleting = cr.deleting
         /\ Patched(new).finalizer = cr.finalizer /\ Patched(new).spec = cr.spec
  <1>1. cr.last = [source |-> cr.last.source, server |-> cr.last.server,
                   repo |-> cr.last.repo, ui |-> cr.last.ui, policy |-> cr.last.policy]
    BY DEF TypeInv, ApiOK, ResourceType, LastType
  <1> QED BY <1>1, PatchedIdentity DEF Patched, Merge

\* The patch a reconcile ends with, when it does not say that all has been applied.
LEMMA FollowPatchEnds ==
  ASSUME TypeInv, Follow, NEW new, new.finalizer = ext.finalizer, new.last = ext.last,
         NEW q \in BOOLEAN, NEW t, PatchAndReturn(new, q, t), UNCHANGED <<cached, clusterVars>>,
         ~q /\ ~event /\ ~queued /\ cr' = cr /\ Settled' => Applied'
  PROVE  Follow'
  <1>1. cr' = Patched(new) /\ event' = (event \/ cr' # cr) /\ pc' = "idle"
        /\ queued' = (queued \/ q)
    BY DEF PatchAndReturn, Write, Return
  <1>2. SameRecord
    BY <1>1, PatchedRecord DEF SameRecord, SameResource
  <1>3. queued \in BOOLEAN /\ event \in BOOLEAN
    BY DEF TypeInv, ControlOK, ApiOK
  <1>4. ~event' /\ ~queued' /\ Settled' => Applied'
    BY <1>1, <1>3
  <1> QED BY <1>1, <1>2, <1>3, <1>4, FollowEnds

\* More of the validation rules: a git source names no deployment, a managed spec
\* without a version tracks the latest.
LEMMA SpecRules ==
  ASSUME NEW s \in UserSpecs
  PROVE  /\ s.src = "git" => s.helm = None
         /\ s.src = "helm" => s.policy = "managed" /\ s.version # None
         /\ s.src # "helm" <=> s.src = "git"
         /\ s.policy # "managed" <=> s.policy = "unmanaged"
         /\ s.helm = None => s.src = "git"
         /\ s.src # "none" /\ s.policy # "none"
         /\ None \notin Names
  BY SpecsAssumption, NamesAssumption DEF SpecType, ValidSpec, Policies

\* A copy of the current spec: every record is that of the spec, or the copy's own.
LEMMA RecordsOfCopy ==
  ASSUME Held, PassFollows, pc \in ApplyPath, ext.spec = cr.spec, NEW l \in Accounts
  PROVE  \/ l = LastOf(ext.spec)
         \/ l = ext.last /\ (ext.last = NoLast \/ \E t \in UserSpecs : ext.last = LastOf(t))
  BY DEF Held, PassFollows, Follows, Accounts

\* A step of detectAndCleanupSourceChange.
LEMMA FollowCleanup ==
  ASSUME TypeInv, Follow, pc \in {"cleanRelease", "cleanRepo", "cleanPlugin"},
         pc' \in {"cleanRepo", "cleanPlugin", AfterCleanup}, NothingAppears, Cleaned',
         Goto(pc'), UNCHANGED <<apiVars, cached>>
  PROVE  Follow'
  <1>1. ext.spec \in UserSpecs /\ pc \in ApplyPath \ {"markWaiting"}
    BY Paths DEF TypeInv, ControlOK
  <1>2. /\ pc' \in {"cleanRepo", "cleanPlugin", "ensureRelease", "resolve"}
        /\ pc' = "ensureRelease" => ext.spec.src = "helm"
        /\ pc' = "resolve" => ext.spec.src # "helm"
    BY DEF AfterCleanup
  <1>3. UNCHANGED <<ext, queued>>
    BY DEF Goto
  <1>4. Progress'
    BY <1>2, <1>3 DEF Progress, FromHelm, FromReadiness, FromResolve, FromRepo, FromPlugin, AtLast
  <1>5. pc' \in ApplyPath
    BY <1>2, Paths
  <1>6. pc' \in HelmPath => ext.spec.src = "helm"
    BY <1>2 DEF HelmPath
  <1>7. pc' \in FromResolve => ext.spec.src # "helm"
    BY <1>2 DEF FromResolve, FromRepo, FromPlugin, AtLast
  <1> QED BY <1>1, <1>2, <1>3, <1>4, <1>5, <1>6, <1>7, FollowStep

\* The deployment release that the spec gave up goes first.
LEMMA FollowCleanRelease ==
  ASSUME TypeInv, Follow, CleanRelease
  PROVE  Follow'
  <1>1. pc = "cleanRelease" /\ pc \in ApplyPath \ {"markWaiting"}
    BY Paths DEF CleanRelease
  <1>2. CASE CallFails
    BY <1>1, <1>2, FollowCallFails
  <1>3. CASE ~CallFails
    <2>1. /\ pc' \in {"cleanRepo", AfterCleanup} /\ Goto(pc')
          /\ UNCHANGED <<apiVars, cached, ext>>
      BY <1>3 DEF CleanRelease, Skip, Call, Goto, Reads
    <2>2. NothingAppears
      BY <1>3, UnchangedCluster, DeletionRemoves DEF CleanRelease, Skip, Call, Reads
    <2>3. ASSUME ext.spec = cr.spec, NEW n \in Names, HasServer(n)'
          PROVE  n = ext.spec.helm
      <3>1. HasServer(n)
        BY <2>2, <2>3 DEF NothingAppears, HasServer
      <3>2. PICK l \in Accounts : n = l.server
        BY <3>1 DEF Follow, Held, Within
      <3>3. CASE l = LastOf(ext.spec)
        BY <3>2, <3>3, LastFields
      <3>4. CASE l # LastOf(ext.spec)
        <4>1. l = ext.last /\ (ext.last = NoLast \/ \E t \in UserSpecs : ext.last = LastOf(t))
          BY <1>1, <2>3, <3>4, RecordsOfCopy DEF Follow
        <4>2. n # None /\ ext.spec \in UserSpecs
          BY <1>1, SpecRules DEF TypeInv, ControlOK
        <4>3. PICK t \in UserSpecs : ext.last = LastOf(t)
          BY <3>2, <4>1, <4>2, LastFields
        <4>4. t.src = "helm" /\ ext.last.source = "helm"
          BY <3>2, <4>1, <4>2, <4>3, LastFields, SpecRules
        <4>5. n \notin StaleServer(ext)
          <5>1. ASSUME n \in StaleServer(ext) PROVE FALSE
            <6>1. \A m \in StaleServer(ext) : m = n
              BY <5>1 DEF StaleServer
            <6>2. DeleteRelease(Server(n))
              BY <1>3, <4>4, <5>1, <6>1 DEF CleanRelease, Call
            <6> QED BY <2>3, <6>2, DeletionRemoves DEF HasServer
          <5> QED BY <5>1
        <4> QED BY <3>2, <4>1, <4>2, <4>4, <4>5, SpecRules DEF StaleServer
      <3> QED BY <3>3, <3>4
    <2>4. ASSUME ext.spec = cr.spec, pc' # "cleanRepo", NEW n \in Names
          PROVE  /\ HasRepo(n)' => n = RepoName(ext.spec)
                 /\ HasUI(n)' => ext.spec.policy = "unmanaged"
      <3>1. pc' # "cleanRepo" => ext.last.source = "none"
        BY <1>3 DEF CleanRelease, Skip, Call, Goto
      <3>2. \A l \in Accounts : l = LastOf(ext.spec) \/ l = NoLast
        BY <1>1, <2>4, <3>1, RecordsOfCopy, SpecRules, LastFields DEF Follow
      <3>3. n # None /\ ext.spec \in UserSpecs
        BY <1>1, SpecRules DEF TypeInv, ControlOK
      <3>4. (HasRepo(n)' => HasRepo(n)) /\ (HasUI(n)' => HasUI(n))
        BY <2>2 DEF NothingAppears, HasRepo, HasUI
      <3> QED BY <3>2, <3>3, <3>4, LastFields DEF Follow, Held, Within
    <2>5. Cleaned'
      <3>1. /\ ext' = ext /\ cr' = cr /\ RepoName(ext.spec)' = RepoName(ext.spec)
            /\ pc' \notin {"cleanPlugin"}
        BY <2>1 DEF apiVars, RepoName, AfterCleanup
      <3> QED BY <2>3, <2>4, <3>1 DEF Cleaned
    <2> QED BY <1>1, <2>1, <2>2, <2>5, FollowCleanup
  <1> QED BY <1>2, <1>3

\* Then the ClusterRepo of another name.
LEMMA FollowCleanRepo ==
  ASSUME TypeInv, Follow, CleanRepo
  PROVE  Follow'
  <1>1. pc = "cleanRepo" /\ pc \in ApplyPath \ ({"markWaiting"} \union Unclean)
    BY Paths DEF CleanRepo, Unclean
  <1>2. CASE CallFails
    BY <1>1, <1>2, FollowCallFails
  <1>3. CASE ~CallFails
    <2>1. /\ pc' = "cleanPlugin" /\ Goto(pc') /\ UNCHANGED <<apiVars, cached, ext>>
      BY <1>3 DEF CleanRepo, Skip, Call, Goto, Reads
    <2>2. NothingAppears
      BY <1>3, UnchangedCluster, DeletionRemoves DEF CleanRepo, Skip, Call, Reads
    <2>3. ASSUME ext.spec = cr.spec, NEW n \in Names, HasRepo(n)'
          PROVE  n = RepoName(ext.spec)
      <3>1. HasRepo(n)
        BY <2>2, <2>3 DEF NothingAppears, HasRepo
      <3>2. PICK l \in Accounts : n = l.repo
        BY <3>1 DEF Follow, Held, Within
      <3>3. n \notin StaleRepo(ext)
        <4>1. ASSUME n \in StaleRepo(ext) PROVE FALSE
          <5>1. \A m \in StaleRepo(ext) : m = n
            BY <4>1 DEF StaleRepo
          <5>2. DeleteRepo(n)
            BY <1>3, <4>1, <5>1 DEF CleanRepo, Call
          <5> QED BY <2>3, <5>2, DeletionRemoves DEF HasRepo
        <4> QED BY <4>1
      <3> QED BY <1>1, <2>3, <3>2, <3>3, RecordsOfCopy, LastFields DEF Follow, StaleRepo
    <2>4. Cleaned'
      <3>1. ext' = ext /\ cr' = cr /\ RepoName(ext.spec)' = RepoName(ext.spec)
        BY <2>1 DEF apiVars, RepoName
      <3>2. \A n \in Names : HasServer(n)' => HasServer(n)
        BY <2>2 DEF NothingAppears, HasServer
      <3> QED BY <1>1, <2>1, <2>3, <3>1, <3>2 DEF Follow, Cleaned
    <2> QED BY <1>1, <2>1, <2>2, <2>4, FollowCleanup
  <1> QED BY <1>2, <1>3

\* Then the UIPlugin, when it changes hands.
LEMMA FollowCleanPlugin ==
  ASSUME TypeInv, Follow, CleanPlugin
  PROVE  Follow'
  <1>1. pc = "cleanPlugin" /\ pc \in ApplyPath \ ({"markWaiting"} \union Unclean)
    BY Paths DEF CleanPlugin, Unclean
  <1>2. CASE CallFails
    BY <1>1, <1>2, FollowCallFails
  <1>3. CASE ~CallFails
    <2>1. /\ pc' = AfterCleanup /\ Goto(pc') /\ UNCHANGED <<apiVars, cached, ext>>
      BY <1>3 DEF CleanPlugin, Skip, Call, Goto, Reads
    <2>2. NothingAppears
      BY <1>3, UnchangedCluster, DeletionRemoves DEF CleanPlugin, Skip, Call, Reads
    <2>3. ASSUME ext.spec = cr.spec, NEW n \in Names, HasUI(n)'
          PROVE  ext.spec.policy = "unmanaged"
      <3>1. HasUI(n)
        BY <2>2, <2>3 DEF NothingAppears, HasUI
      <3>2. PICK l \in Accounts : l.policy = "unmanaged" /\ n = l.ui
        BY <3>1 DEF Follow, Held, Within
      <3>3. CASE l = LastOf(ext.spec)
        BY <3>2, <3>3, LastFields
      <3>4. CASE l = ext.last
        <4>1. LastPolicy(ext) = "unmanaged"
          BY <3>2, <3>4 DEF LastPolicy
        <4>2. ~DeleteRelease(UI(ext.last.ui))
          BY <2>3, <3>2, <3>4, DeletionRemoves DEF HasUI
        <4> QED BY <1>3, <4>1, <4>2 DEF CleanPlugin, Call
      <3> QED BY <1>1, <2>3, <3>3, <3>4, RecordsOfCopy DEF Follow
    <2>4. Cleaned'
      <3>1. ext' = ext /\ cr' = cr /\ RepoName(ext.spec)' = RepoName(ext.spec)
        BY <2>1 DEF apiVars, RepoName
      <3>2. \A n \in Names : (HasServer(n)' => HasServer(n)) /\ (HasRepo(n)' => HasRepo(n))
        BY <2>2 DEF NothingAppears, HasServer, HasRepo
      <3> QED BY <1>1, <2>1, <2>3, <3>1, <3>2 DEF Follow, Cleaned
    <2> QED BY <1>1, <2>1, <2>2, <2>4, FollowCleanup
  <1> QED BY <1>2, <1>3

-----------------------------------------------------------------------------
\* Helm's record of the deployment release that the copy's spec names.
LEMMA FollowServer ==
  ASSUME TypeInv, Follow, pc \in ApplyPath \ {"markWaiting"}, ext.spec.src = "helm",
         NEW status, NEW content, SetRelease(Server(ext.spec.helm), status, content),
         UNCHANGED <<apiVars, ext, plugins>>
  PROVE  /\ Within'
         /\ pc' \in ApplyPath /\ pc \notin Unclean \union {"cleanRepo", "cleanPlugin"} => Cleaned'
         /\ status # "absent" => HasServer(ext.spec.helm)'
         /\ releases'[Server(ext.spec.helm)].content = content
  <1>1. /\ ext.spec \in UserSpecs /\ ext.spec.helm \in Names
        /\ Server(ext.spec.helm) \in Releases
    BY Paths, SpecFields, ReleaseNames DEF TypeInv, ControlOK
  <1>2. \A n \in Names : /\ n # ext.spec.helm => HasServer(n)' = HasServer(n)
                         /\ HasUI(n)' = HasUI(n) /\ HasRepo(n)' = HasRepo(n)
                         /\ HasPlugin(n)' = HasPlugin(n)
    BY DistinctReleases
       DEF SetRelease, TypeInv, ClusterOK, HasServer, HasUI, HasRepo, HasPlugin
  <1>3. LastOf(ext.spec) \in Accounts /\ LastOf(ext.spec).server = ext.spec.helm
    BY AccountsForCopy, LastFields DEF Follow
  <1>4. Accounts' = Accounts
    BY SameAccounts DEF SameRecord, SameResource, apiVars
  <1>5. Within'
    BY <1>2, <1>3, <1>4 DEF Follow, Held, Within
  <1>6. pc' \in ApplyPath /\ pc \notin Unclean \union {"cleanRepo", "cleanPlugin"} => Cleaned'
    <2>1. RepoName(ext.spec)' = RepoName(ext.spec)
      BY DEF RepoName
    <2> QED BY <1>2, <2>1 DEF Follow, Cleaned, apiVars
  <1>7. releases'[Server(ext.spec.helm)] = [status |-> status, content |-> content]
    BY <1>1 DEF SetRelease, TypeInv, ClusterOK
  <1> QED BY <1>5, <1>6, <1>7 DEF HasServer

\* reconcileHelmSource.
LEMMA FollowHelm ==
  ASSUME TypeInv, Follow, EnsureRelease \/ HelmServerDone \/ HelmServerFails \/ FindService
  PROVE  Follow'
  <1>1. /\ pc \in ApplyPath \ {"markWaiting"}
        /\ pc \notin Unclean \union {"cleanRepo", "cleanPlugin"}
        /\ ext.spec.src = "helm" /\ pc # "idle"
    BY Paths DEF EnsureRelease, HelmServerDone, HelmServerFails, FindService, Unclean, Follow,
       PassFollows, HelmPath
  <1>2. {"helmServer", "service", "readiness", "setFailed"} \subseteq ApplyPath
    BY Paths
  <1> DEFINE r == Server(ext.spec.helm)
  <1>3. ASSUME NEW label \in {"helmServer", "service"}, Goto(label),
               UNCHANGED <<apiVars, cached, plugins>>, NEW status \in Statuses \ {"absent"},
               SetRelease(r, status, ext.spec.rev)
        PROVE  Follow'
    <2>1. pc' = label /\ UNCHANGED <<ext, queued>>
      BY <1>3 DEF Goto
    <2>2. Within' /\ Cleaned'
      BY <1>1, <1>2, <1>3, <2>1, FollowServer
    <2>3. HasServer(ext.spec.helm)' /\ releases'[r].content = ext.spec.rev
      BY <1>1, <1>3, <2>1, FollowServer
    <2>4. Progress'
      BY <1>3, <2>1, <2>3 DEF Progress, FromReadiness, FromResolve, FromRepo, FromPlugin, AtLast,
         HasServer
    <2> QED BY <1>1, <1>2, <1>3, <2>1, <2>2, <2>4, FollowStep
            DEF FromResolve, FromRepo, FromPlugin, AtLast
  <1>4. CASE EnsureRelease
    <2>1. CASE Install(r, ext.spec.rev, "helmServer") \/ Upgrade(r, ext.spec.rev, "helmServer")
      BY <1>3, <2>1 DEF Install, Upgrade, Call, Statuses
    <2>2. CASE /\ releases[r].status \in {"deployed", "failed"} /\ UpToDate(r, ext.spec.rev)
               /\ Skip("service")
      <3>1. /\ pc' = "service" /\ NothingAppears
            /\ UNCHANGED <<apiVars, cached, ext, queued, releases>>
        BY <2>2, UnchangedCluster DEF Skip, Goto, Reads, clusterVars
      <3>2. Cleaned'
        BY <1>1, <3>1, CleanedStays DEF apiVars, Follow
      <3>3. Progress'
        BY <2>2, <3>1 DEF Progress, FromReadiness, FromResolve, FromRepo, FromPlugin, AtLast,
           HasServer, UpToDate
      <3> QED BY <1>1, <1>2, <3>1, <3>2, <3>3, FollowStep
              DEF FromResolve, FromRepo, FromPlugin, AtLast
    <2> QED BY <1>1, <1>4, <2>1, <2>2, FollowCallFails DEF EnsureRelease, HelmRefuses
  <1>5. CASE HelmServerDone
    <2>1. /\ SetRelease(r, "deployed", releases[r].content) /\ Goto("service")
          /\ UNCHANGED <<apiVars, cached, plugins>>
      BY <1>5 DEF HelmServerDone, Call
    <2>2. releases[r].content = ext.spec.rev
      BY <1>1, <1>5 DEF HelmServerDone, Follow, Progress, FromHelm
    <2> QED BY <1>3, <2>1, <2>2 DEF Statuses
  <1>6. CASE HelmServerFails
    <2>1. /\ SetRelease(r, "failed", releases[r].content) /\ Goto("setFailed")
          /\ UNCHANGED <<apiVars, cached, plugins, ext>>
      BY <1>6 DEF HelmServerFails, Goto
    <2>2. Within'
      BY <1>1, <2>1, FollowServer
    <2> QED BY <1>1, <2>1, <2>2, FollowFailure
  <1>7. CASE FindService /\ ~(CallFails \/ Skip("setFailed"))
    <2>1. /\ pc' = "readiness" /\ svc' = ext.spec.helm /\ NothingAppears
          /\ UNCHANGED <<apiVars, cached, ext, queued, releases>>
      BY <1>7, UnchangedCluster DEF FindService, Reads, clusterVars
    <2>2. Cleaned'
      BY <1>1, <2>1, CleanedStays DEF apiVars, Follow
    <2>3. Progress'
      BY <1>7, <2>1 DEF FindService, Follow, Progress, FromHelm, FromReadiness, FromResolve,
         FromRepo, FromPlugin, AtLast, HasServer
    <2> QED BY <1>1, <1>2, <2>1, <2>2, <2>3, FollowStep
            DEF FromResolve, FromRepo, FromPlugin, AtLast
  <1> QED BY <1>1, <1>4, <1>5, <1>6, <1>7, FollowCallFails DEF FindService

-----------------------------------------------------------------------------
\* A patch the reconciler goes on from: its copy is that of the server from then on.
LEMMA FollowPatchOn ==
  ASSUME TypeInv, Follow, pc \in ApplyPath, NEW new, new.finalizer = ext.finalizer,
         new.last = ext.last, NEW label \in ApplyPath \ (HelmPath \union {"helmUI"}),
         PatchThen(new, label), UNCHANGED <<cached, clusterVars>>,
         label # "markWaiting" => ext.spec = cr.spec /\ pc # "markWaiting",
         Cleaned', Progress',
         label \in FromResolve /\ cr.spec.src = "helm" => cr'.waiting = "no"
  PROVE  Follow'
  <1>1. /\ cr' = Patched(new) /\ event' = (event \/ cr' # cr) /\ pc' = label /\ ext' = cr'
        /\ queued' = queued
    BY DEF PatchThen, Write
  <1>2. SameRecord /\ NothingAppears
    BY <1>1, PatchedRecord, UnchangedCluster DEF SameRecord, SameResource
  <1>3. pc \notin DeletionPath \union {"idle"} /\ pc' \notin DeletionPath \union {"idle"}
    BY <1>1, Paths
  <1>4. Held' /\ CacheFollows'
    BY <1>2, <1>3, HeldStays, CacheStays DEF Follow
  <1>5. PassFollows'
    <2>1. cr.finalizer /\ (label # "markWaiting" => cached.spec = cr.spec)
      BY DEF Follow, PassFollows
    <2>2. label # "clearWaiting" /\ label \notin HelmPath /\ label # "helmUI"
      BY DEF HelmPath
    <2> QED BY <1>1, <1>2, <1>3, <2>1, <2>2 DEF PassFollows, Follows, SameRecord, SameResource
  <1>6. Current'
    BY <1>1, <1>2, <1>3 DEF Follow, Current, Settled, SameRecord, SameResource
  <1> QED BY <1>4, <1>5, <1>6 DEF Follow

\* What a patch leaves of the copy it is made from.
LEMMA CopyFields ==
  ASSUME TypeInv
  PROVE  /\ \A w : LET new == [ext EXCEPT !.waiting = w] IN
              /\ new.waiting = w /\ new.phase = ext.phase
              /\ new.finalizer = ext.finalizer /\ new.last = ext.last
         /\ \A p : LET new == [ext EXCEPT !.phase = p] IN
              /\ new.phase = p /\ new.waiting = ext.waiting
              /\ new.finalizer = ext.finalizer /\ new.last = ext.last
         /\ \A l : LET new == [ext EXCEPT !.last = l] IN
              /\ new.last = l /\ new.finalizer = ext.finalizer
              /\ new.waiting = ext.waiting /\ new.phase = ext.phase
         /\ /\ InstalledStatus.finalizer = ext.finalizer /\ InstalledStatus.last = ext.last
            /\ InstalledStatus.waiting = ext.waiting /\ InstalledStatus.phase = "Installed"
            /\ InstalledStatus.resolved = IF resolved = None THEN ext.resolved ELSE resolved
  BY DEF TypeInv, ControlOK, ResourceType, InstalledStatus

\* The readiness check reads.
LEMMA FollowCheckReadiness ==
  ASSUME TypeInv, Follow, CheckReadiness
  PROVE  Follow'
  <1>1. /\ pc = "readiness" /\ pc \in ApplyPath \ (Unclean \union {"cleanRepo", "cleanPlugin"})
        /\ pc # "markWaiting" /\ ext.spec.src = "helm"
    BY Paths DEF CheckReadiness, Unclean, Follow, PassFollows, HelmPath
  <1>2. PICK label \in {"resolve", "clearWaiting", "notReady"} :
          /\ Goto(label) /\ Reads
          /\ label = "resolve" => ext.waiting = "no"
          /\ label = "clearWaiting" => ext.waiting # "no"
    BY DEF CheckReadiness, Skip
  <1>3. /\ pc' = label /\ pc' \in ApplyPath
        /\ UNCHANGED <<apiVars, cached, ext, queued, svc, releases>> /\ NothingAppears
    BY <1>2, Paths, UnchangedCluster DEF Goto, Reads, clusterVars
  <1>4. Cleaned'
    BY <1>1, <1>3, CleanedStays DEF Follow, apiVars
  <1>5. Progress'
    BY <1>1, <1>3 DEF Follow, Progress, FromHelm, FromReadiness, FromResolve, FromRepo,
       FromPlugin, AtLast, HasServer
  <1> QED BY <1>1, <1>2, <1>3, <1>4, <1>5, FollowStep
          DEF FromResolve, FromRepo, FromPlugin, AtLast

\* Only a copy of the current spec still waits, so the response changes no spec.
LEMMA FollowClearWaiting ==
  ASSUME TypeInv, Follow, ClearWaiting
  PROVE  Follow'
  <1> DEFINE new == [ext EXCEPT !.waiting = "no"]
  <1>1. /\ pc = "clearWaiting" /\ pc \in ApplyPath \ (Unclean \union {"cleanRepo", "cleanPlugin"})
        /\ UNCHANGED <<cached, clusterVars>>
    BY Paths DEF ClearWaiting, Unclean
  <1>2. CASE PatchFails
    BY <1>1, <1>2, FollowError
  <1>3. CASE PatchThen(new, "resolve")
    <2>1. ext.waiting # "no" /\ ext.spec = cr.spec
      BY <1>1 DEF Follow, PassFollows, Follows, HelmPath
    <2>2. /\ cr' = Patched(new) /\ ext' = cr' /\ pc' = "resolve" /\ svc' = svc
          /\ new.finalizer = ext.finalizer /\ new.last = ext.last /\ new.waiting = "no"
      BY <1>3, CopyFields DEF PatchThen, Write
    <2> HIDE DEF new
    <2>3. cr'.spec = cr.spec /\ cr'.waiting = "no"
      BY <2>1, <2>2 DEF Patched, Merge
    <2>4. Cleaned'
      BY <1>1, <2>1, <2>2, <2>3, CleanedStays, UnchangedCluster DEF Follow
    <2>5. Progress'
      BY <1>1, <2>1, <2>2, <2>3 DEF Follow, Progress, FromHelm, FromReadiness, FromResolve,
         FromRepo, FromPlugin, AtLast, HasServer, clusterVars
    <2>6. "resolve" \in ApplyPath \ (HelmPath \union {"helmUI"})
      BY Paths DEF HelmPath
    <2> QED BY <1>1, <1>3, <2>1, <2>2, <2>3, <2>4, <2>5, <2>6, FollowPatchOn
  <1> QED BY <1>2, <1>3 DEF ClearWaiting

\* handleNotReady marks the phase.
LEMMA FollowNotReady ==
  ASSUME TypeInv, Follow, NotReady
  PROVE  Follow'
  <1> DEFINE new == [ext EXCEPT !.phase = "Installing"]
  <1>1. /\ pc = "notReady" /\ pc \in ApplyPath \ {"markWaiting"} /\ "markWaiting" \in ApplyPath
    BY Paths DEF NotReady
  <1>2. CASE ext.phase = "Installing" /\ Skip("markWaiting")
    <2>1. /\ pc' = "markWaiting" /\ UNCHANGED <<apiVars, cached, ext, queued>> /\ NothingAppears
      BY <1>2, UnchangedCluster DEF Skip, Goto, Reads
    <2>2. Cleaned' /\ Progress'
      BY <1>2, <2>1 DEF Cleaned, Unclean, Progress, FromHelm, FromReadiness, FromResolve,
         FromRepo, FromPlugin, AtLast
    <2> QED BY <1>1, <2>1, <2>2, FollowStep DEF HelmPath, FromResolve, FromRepo, FromPlugin, AtLast
  <1>3. CASE ext.phase # "Installing" /\ PatchThen(new, "markWaiting")
    <2>1. /\ cr' = Patched(new) /\ ext' = cr' /\ pc' = "markWaiting"
          /\ new.finalizer = ext.finalizer /\ new.last = ext.last /\ new.phase = "Installing"
          /\ UNCHANGED <<cached, clusterVars>>
      BY <1>3, CopyFields DEF PatchThen, Write, NotReady
    <2> HIDE DEF new
    <2>2. cr'.phase = "Installing"
      BY <1>3, <2>1 DEF Patched, Merge
    <2>3. Cleaned' /\ Progress'
      BY <2>1, <2>2 DEF Cleaned, Unclean, Progress, FromHelm, FromReadiness, FromResolve,
         FromRepo, FromPlugin, AtLast
    <2>4. "markWaiting" \in ApplyPath \ (HelmPath \union {"helmUI"} \union FromResolve)
      BY Paths DEF HelmPath, FromResolve, FromRepo, FromPlugin, AtLast
    <2> QED BY <1>1, <1>3, <2>1, <2>3, <2>4, FollowPatchOn
  <1>4. CASE PatchFails /\ UNCHANGED <<cached, clusterVars>>
    BY <1>4, FollowError
  <1> QED BY <1>2, <1>3, <1>4 DEF NotReady

\* A resource that waits is not Installed.
LEMMA FollowMarkWaiting ==
  ASSUME TypeInv, Follow, MarkWaiting
  PROVE  Follow'
  <1>1. /\ pc = "markWaiting" /\ UNCHANGED <<cached, clusterVars>>
    BY DEF MarkWaiting
  <1>2. ~event /\ ~queued /\ cr' = cr => ~Settled'
    BY <1>1 DEF Follow, Current, Progress, Settled
  <1>3. CASE PatchFails
    BY <1>1, <1>3, FollowError
  <1>4. CASE Return(FALSE, TRUE) /\ UNCHANGED apiVars
    <2>1. pc' = "idle" /\ SameRecord /\ event' = event /\ (queued => queued') /\ cr' = cr
      BY <1>4 DEF Return, SameRecord, SameResource, apiVars
    <2>2. ~queued' => ~queued
      BY <1>4 DEF Return
    <2> QED BY <1>1, <1>2, <2>1, <2>2, FollowEnds
  <1>5. CASE \/ PatchAndReturn([ext EXCEPT !.waiting = "fresh"], FALSE, TRUE)
             \/ PatchAndReturn([ext EXCEPT !.phase = "Failed"], FALSE, FALSE)
    BY <1>1, <1>2, <1>5, CopyFields, FollowPatchEnds
  <1> QED BY <1>3, <1>4, <1>5 DEF MarkWaiting

-----------------------------------------------------------------------------
\* A step from version resolution on.
LEMMA FollowRancherStep ==
  ASSUME TypeInv, Follow, pc \in {"resolve", "ensureRepo", "ensurePlugin", "helmUI"},
         pc' \in {"ensureRepo", "ensurePlugin", "helmUI", "annotate"},
         UNCHANGED <<apiVars, cached, ext, queued>>, NothingAppears \/ Within', Progress',
         pc' = "helmUI" => ext.spec.policy = "unmanaged",
         \A n \in Names : /\ HasServer(n)' => HasServer(n)
                          /\ HasRepo(n)' => HasRepo(n) \/ n = RepoName(ext.spec)
                          /\ HasUI(n)' => HasUI(n) \/ ext.spec.policy = "unmanaged"
  PROVE  Follow'
  <1>1. /\ pc \in ApplyPath \ (Unclean \union {"cleanRepo", "cleanPlugin"})
        /\ pc # "markWaiting" /\ pc' \in ApplyPath /\ pc \in FromResolve
        /\ pc' \notin HelmPath /\ pc' # "clearWaiting"
    BY Paths DEF Unclean, HelmPath, FromResolve, FromRepo, FromPlugin, AtLast
  <1>2. RepoName(ext.spec)' = RepoName(ext.spec)
    BY DEF RepoName
  <1>3. Cleaned'
    BY <1>1, <1>2 DEF Follow, Cleaned, apiVars
  <1> QED BY <1>1, <1>3, FollowStep

\* Version resolution, and the Ensure calls for the Rancher resources of the copy's spec.
LEMMA FollowRancher ==
  ASSUME TypeInv, Follow, Resolve \/ EnsureRepo \/ EnsureUIPlugin
  PROVE  Follow'
  <1>1. /\ pc \in ApplyPath \ {"markWaiting"} /\ pc # "idle"
        /\ ext.spec \in UserSpecs /\ ext.spec.ext \in Names /\ RepoName(ext.spec) \in Names
    BY Paths, SpecFields DEF Resolve, EnsureRepo, EnsureUIPlugin, TypeInv, ControlOK
  <1>2. LastOf(ext.spec) \in Accounts
    BY <1>1, AccountsForCopy DEF Follow
  <1>3. CASE CallFails
    BY <1>1, <1>3, FollowCallFails
  <1>4. CASE Resolve /\ ~CallFails
    <2>1. /\ pc = "resolve" /\ pc' = "ensureRepo"
          /\ UNCHANGED <<apiVars, cached, ext, queued, svc, clusterVars>>
          /\ resolved' \in IF TracksLatest(ext.spec) THEN Versions ELSE {ext.spec.version}
      BY <1>4 DEF Resolve, Reads
    <2>2. ext.spec.policy = "managed" => resolved' # None
      BY <2>1, NamesAssumption DEF TracksLatest
    <2>3. Progress'
      BY <2>1, <2>2 DEF Follow, Progress, FromHelm, FromReadiness, FromResolve, FromRepo,
         FromPlugin, AtLast, HasServer, clusterVars
    <2>4. NothingAppears
      BY <2>1, UnchangedCluster
    <2> QED BY <2>1, <2>3, <2>4, FollowRancherStep DEF NothingAppears, HasServer, HasRepo, HasUI
  <1>5. CASE EnsureRepo /\ ~CallFails
    <2>1. /\ pc = "ensureRepo" /\ pc' = "ensurePlugin"
          /\ UNCHANGED <<apiVars, cached, ext, queued, svc, resolved, releases, plugins>>
          /\ repos' = [repos EXCEPT ![RepoName(ext.spec)] = Endpoint]
      BY <1>5 DEF EnsureRepo, Call, Goto
    <2>2. /\ repos'[RepoName(ext.spec)] = Endpoint
          /\ \A n \in Names : n # RepoName(ext.spec) => repos'[n] = repos[n]
      BY <1>1, <2>1 DEF TypeInv, ClusterOK
    <2>3. Endpoint' = Endpoint /\ RepoName(ext.spec)' = RepoName(ext.spec)
      BY <2>1 DEF Endpoint, RepoName
    <2>4. Within'
      <3>1. Accounts' = Accounts /\ LastOf(ext.spec).repo = RepoName(ext.spec)
        BY <2>1, SameAccounts, LastFields DEF SameRecord, SameResource, apiVars
      <3> QED BY <1>2, <2>1, <2>2, <3>1
              DEF Follow, Held, Within, HasServer, HasUI, HasRepo, HasPlugin
    <2>5. Progress'
      BY <2>1, <2>2, <2>3 DEF Follow, Progress, FromHelm, FromReadiness, FromResolve, FromRepo,
         FromPlugin, AtLast, HasServer
    <2> QED BY <2>1, <2>2, <2>4, <2>5, FollowRancherStep DEF HasServer, HasRepo, HasUI
  <1>6. CASE EnsureUIPlugin /\ ~CallFails
    <2>1. /\ pc = "ensurePlugin" /\ pc' = "annotate" /\ ext.spec.policy = "managed"
          /\ UNCHANGED <<apiVars, cached, ext, queued, svc, resolved, releases, repos>>
      BY <1>6 DEF EnsureUIPlugin, Call, Goto
    <2>2. /\ plugins'[ext.spec.ext].version = resolved /\ plugins'[ext.spec.ext].at = Endpoint
          /\ \A n \in Names : n # ext.spec.ext => plugins'[n] = plugins[n]
      BY <1>1, <1>6 DEF EnsureUIPlugin, Call, TypeInv, ClusterOK
    <2>3. Endpoint' = Endpoint /\ RepoName(ext.spec)' = RepoName(ext.spec)
      BY <2>1 DEF Endpoint, RepoName
    <2>4. Within'
      <3>1. Accounts' = Accounts /\ LastOf(ext.spec).ui = ext.spec.ext
        BY <2>1, SameAccounts, LastFields DEF SameRecord, SameResource, apiVars
      <3> QED BY <1>2, <2>1, <2>2, <3>1
              DEF Follow, Held, Within, HasServer, HasUI, HasRepo, HasPlugin
    <2>5. Progress'
      BY <2>1, <2>2, <2>3 DEF Follow, Progress, FromHelm, FromReadiness, FromResolve, FromRepo,
         FromPlugin, AtLast, HasServer
    <2> QED BY <2>1, <2>4, <2>5, FollowRancherStep DEF HasServer, HasRepo, HasUI
  <1> QED BY <1>3, <1>4, <1>5, <1>6 DEF Resolve, EnsureRepo, EnsureUIPlugin

\* Helm's record of the UIPlugin release that the copy's unmanaged spec names.
LEMMA FollowUI ==
  ASSUME TypeInv, Follow, pc \in ApplyPath \ {"markWaiting"}, ext.spec.policy = "unmanaged",
         NEW status, NEW content, SetRelease(UI(ext.spec.ext), status, content),
         UNCHANGED <<apiVars, ext>>, \A n \in Names \ {ext.spec.ext} : plugins'[n] = plugins[n]
  PROVE  /\ Within'
         /\ \A n \in Names : HasServer(n)' = HasServer(n) /\ HasRepo(n)' = HasRepo(n)
         /\ \A n \in Names : releases'[Server(n)] = releases[Server(n)]
         /\ status # "absent" => HasUI(ext.spec.ext)'
  <1>1. /\ ext.spec \in UserSpecs /\ ext.spec.ext \in Names
        /\ UI(ext.spec.ext) \in Releases
    BY Paths, SpecFields, ReleaseNames DEF TypeInv, ControlOK
  <1>2. \A n \in Names : /\ n # ext.spec.ext => HasUI(n)' = HasUI(n) /\ HasPlugin(n)' = HasPlugin(n)
                         /\ HasServer(n)' = HasServer(n) /\ HasRepo(n)' = HasRepo(n)
                         /\ releases'[Server(n)] = releases[Server(n)]
    BY DistinctReleases
       DEF SetRelease, TypeInv, ClusterOK, HasServer, HasUI, HasRepo, HasPlugin
  <1>3. /\ LastOf(ext.spec) \in Accounts /\ LastOf(ext.spec).ui = ext.spec.ext
        /\ LastOf(ext.spec).policy = "unmanaged"
    BY AccountsForCopy, LastFields DEF Follow
  <1>4. Accounts' = Accounts
    BY SameAccounts DEF SameRecord, SameResource, apiVars
  <1>5. Within'
    BY <1>2, <1>3, <1>4 DEF Follow, Held, Within
  <1>6. releases'[UI(ext.spec.ext)] = [status |-> status, content |-> content]
    BY <1>1 DEF SetRelease, TypeInv, ClusterOK
  <1> QED BY <1>2, <1>5, <1>6 DEF HasUI

\* The UIPlugin release of an unmanaged spec.
LEMMA FollowUIRelease ==
  ASSUME TypeInv, Follow, EnsureUIPluginRelease \/ HelmUIDone \/ HelmUIFails
  PROVE  Follow'
  <1>1. /\ pc \in ApplyPath \ {"markWaiting"} /\ pc # "idle" /\ pc \in {"ensurePlugin", "helmUI"}
        /\ ext.spec \in UserSpecs /\ ext.spec.ext \in Names /\ RepoName(ext.spec) \in Names
        /\ ext.spec.policy = "unmanaged" /\ ext.spec.policy # "managed" /\ ext.spec.src # "helm"
    <2>1. /\ pc \in ApplyPath \ {"markWaiting"} /\ pc \in {"ensurePlugin", "helmUI"}
          /\ ext.spec.policy = "unmanaged"
      BY Paths DEF EnsureUIPluginRelease, HelmUIDone, HelmUIFails, Follow, PassFollows
    <2> QED BY <2>1, SpecFields, SpecRules DEF TypeInv, ControlOK
  <1> DEFINE r == UI(ext.spec.ext)
  <1>2. ASSUME NEW label \in {"helmUI", "annotate"}, Goto(label), UNCHANGED <<apiVars, cached>>,
               NEW status \in Statuses \ {"absent"}, NEW content, SetRelease(r, status, content),
               \A n \in Names \ {ext.spec.ext} : plugins'[n] = plugins[n]
        PROVE  Follow'
    <2>1. pc' = label /\ UNCHANGED <<ext, queued, svc>>
      BY <1>2 DEF Goto
    <2>2. /\ Within' /\ HasUI(ext.spec.ext)'
          /\ \A n \in Names : HasServer(n)' = HasServer(n) /\ HasRepo(n)' = HasRepo(n)
      BY <1>1, <1>2, <2>1, FollowUI
    <2>3. /\ Endpoint' = Endpoint /\ RepoName(ext.spec)' = RepoName(ext.spec)
          /\ repos' = repos
      BY <1>2, <2>1 DEF Endpoint, RepoName, SetRelease
    <2>4. Progress'
      BY <1>1, <1>2, <2>1, <2>2, <2>3 DEF Follow, Progress, FromHelm, FromReadiness, FromResolve,
         FromRepo, FromPlugin, AtLast, HasUI
    <2> QED BY <1>1, <1>2, <2>1, <2>2, <2>4, FollowRancherStep
  <1>3. CASE EnsureUIPluginRelease
    <2>1. CASE Install(r, ext.spec.version, "helmUI")
      BY <1>2, <2>1 DEF Install, Call, Statuses
    <2>2. CASE releases[r].status # "absent" /\ Skip("annotate")
      <3>1. /\ pc' = "annotate" /\ pc = "ensurePlugin"
            /\ UNCHANGED <<apiVars, cached, ext, queued, svc, resolved, releases, repos>>
            /\ NothingAppears
        BY <1>3, <2>2, UnchangedCluster DEF EnsureUIPluginRelease, Skip, Goto, Reads, clusterVars
      <3>2. Endpoint' = Endpoint /\ RepoName(ext.spec)' = RepoName(ext.spec)
        BY <3>1 DEF Endpoint, RepoName
      <3>3. Progress'
        BY <1>1, <2>2, <3>1, <3>2 DEF Follow, Progress, FromHelm, FromReadiness, FromResolve,
           FromRepo, FromPlugin, AtLast, HasUI
      <3> QED BY <1>1, <3>1, <3>3, FollowRancherStep DEF HasServer, HasRepo, HasUI
    <2> QED BY <1>1, <1>3, <2>1, <2>2, FollowCallFails DEF EnsureUIPluginRelease
  <1>4. CASE HelmUIDone
    <2>1. PICK v : /\ SetRelease(r, "deployed", v)
                   /\ plugins' = [plugins EXCEPT ![ext.spec.ext] =
                                    [owner |-> "helm", version |-> v, at |-> Endpoint]]
                   /\ Goto("annotate") /\ UNCHANGED <<apiVars, cached>>
      BY <1>4 DEF HelmUIDone, Call
    <2>2. \A n \in Names \ {ext.spec.ext} : plugins'[n] = plugins[n]
      BY <2>1 DEF TypeInv, ClusterOK
    <2> QED BY <1>2, <2>1, <2>2 DEF Statuses
  <1>5. CASE HelmUIFails
    <2>1. /\ SetRelease(r, "failed", releases[r].content) /\ Goto("setFailed")
          /\ UNCHANGED <<apiVars, cached, plugins, ext>>
      BY <1>5 DEF HelmUIFails, Goto
    <2>2. Within'
      BY <1>1, <2>1, FollowUI
    <2> QED BY <1>1, <2>1, <2>2, FollowFailure
  <1> QED BY <1>3, <1>4, <1>5

-----------------------------------------------------------------------------
\* The annotations the patch leaves are those of the current spec, whichever of the
\* copy's the patch did not have to send.
LEMMA PatchedLast ==
  ASSUME TypeInv, ext.spec = cr.spec, NEW new, new.last = LastOf(ext.spec),
         ext.last = cr.last \/ cr.last = LastOf(cr.spec)
  PROVE  Patched(new).last = LastOf(cr.spec)
  BY DEF Patched, Merge, LastOf

\* updateSourceAnnotations drops the record of the spec before: by now nothing of it
\* is left, except what has the name of the one extension.
LEMMA FollowAnnotatePatch ==
  ASSUME OneExtension, TypeInv, Follow, pc = "annotate", ext.last # LastOf(ext.spec),
         NEW new, new.last = LastOf(ext.spec), new.finalizer = ext.finalizer,
         new.waiting = ext.waiting,
         PatchThen(new, "finish"), UNCHANGED <<cached, clusterVars>>
  PROVE  Follow'
  <1>1. /\ pc \in ApplyPath \ (Unclean \union {"cleanRepo", "cleanPlugin"})
        /\ pc' = "finish" /\ pc' \in ApplyPath \ (HelmPath \union Unclean)
        /\ pc' \notin DeletionPath \union {"idle", "addFinalizer"}
    BY Paths DEF PatchThen, Unclean, HelmPath
  <1>2. /\ ext.spec = cr.spec /\ cached.spec = cr.spec /\ cr.finalizer /\ cr.present
        /\ cr.spec \in UserSpecs /\ LastOf(ext.spec) = LastOf(cr.spec)
        /\ ext.last = cr.last \/ cr.last = LastOf(cr.spec)
    BY <1>1 DEF Follow, Held, PassFollows, Follows, TypeInv, ControlOK
  <1>3. /\ cr' = Patched(new) /\ event' = (event \/ cr' # cr) /\ ext' = cr'
        /\ UNCHANGED <<queued, svc, resolved>>
    BY DEF PatchThen, Write
  <1>4. SameResource /\ cr'.last = LastOf(cr.spec) /\ cr'.last = LastOf(cr'.spec)
        /\ LastOf(cr.spec)' = LastOf(cr.spec) /\ RepoName(ext.spec)' = RepoName(ext.spec)
    <2>1. Patched(new).last = LastOf(cr.spec)
      BY <1>2, PatchedLast
    <2>2. SameResource
      BY <1>3, PatchedIdentity DEF SameResource
    <2>3. LastOf(cr.spec)' = LastOf(cr.spec) /\ LastOf(cr'.spec) = LastOf(cr.spec)
      BY <2>2 DEF SameResource, LastOf, RepoName
    <2>4. RepoName(ext.spec)' = RepoName(ext.spec)
      BY <1>2, <1>3, <2>2 DEF SameResource, RepoName
    <2> QED BY <1>3, <2>1, <2>2, <2>3, <2>4
  <1>5. NothingAppears
    BY UnchangedCluster
  <1>6. Within'
    <2>1. Accounts' = {LastOf(cr.spec)}
      BY <1>2, <1>4 DEF Accounts, SameResource
    <2>2. ASSUME NEW n \in Names, NEW l \in Accounts, n = l.ui
          PROVE  n = cr.spec.ext
      <3>1. l = LastOf(cr.spec) \/ l = NoLast \/ \E t \in UserSpecs : l = LastOf(t)
        BY <1>2, <2>2 DEF Accounts, Follow, Held
      <3> QED BY <1>2, <2>2, <3>1, LastFields, SpecRules DEF OneExtension
    <2>3. ASSUME NEW n \in Names
          PROVE  /\ HasServer(n) => n = cr.spec.helm
                 /\ HasUI(n) => cr.spec.policy = "unmanaged" /\ n = cr.spec.ext
                 /\ HasRepo(n) => n = RepoName(cr.spec)
                 /\ HasPlugin(n) => n = cr.spec.ext
      BY <1>1, <1>2, <2>2, <2>3 DEF Follow, Held, Within, Cleaned
    <2>4. \A n \in Names : /\ HasServer(n)' = HasServer(n) /\ HasUI(n)' = HasUI(n)
                           /\ HasRepo(n)' = HasRepo(n) /\ HasPlugin(n)' = HasPlugin(n)
      BY DEF HasServer, HasUI, HasRepo, HasPlugin, clusterVars
    <2> QED BY <2>1, <2>3, <2>4, LastFields DEF Within
  <1>7. Held'
    BY <1>2, <1>4, <1>6 DEF Follow, Held, SameResource
  <1>8. CacheFollows'
    <2>1. cached.deleting => cr.deleting /\ cr.last = LastOf(cr.spec)
      BY <1>1, Paths DEF Follow, Held, CacheFollows
    <2> QED BY <1>1, <1>2, <1>4, <2>1
            DEF Follow, CacheFollows, Follows, SameResource
  <1>9. PassFollows'
    BY <1>1, <1>2, <1>3, <1>4 DEF PassFollows, Follows, SameResource
  <1>10. Cleaned'
    BY <1>1, <1>2, <1>3, <1>4, <1>5, CleanedStays DEF Follow, SameResource
  <1>11. Progress'
    <2>1. Endpoint' = Endpoint
      BY <1>2, <1>3, <1>4 DEF Endpoint, SameResource
    <2> QED BY <1>1, <1>2, <1>3, <1>4, <2>1 DEF Follow, Progress, FromHelm, FromReadiness,
            FromResolve, FromRepo, FromPlugin, AtLast, HasServer, HasUI, SameResource, clusterVars
  <1>12. Current'
    <2>1. pc \in FromResolve /\ pc # "idle"
      BY DEF FromResolve, FromRepo, FromPlugin, AtLast
    <2> QED BY <1>1, <1>3, <2>1 DEF Follow, Current, Settled
  <1> QED BY <1>7, <1>8, <1>9, <1>10, <1>11, <1>12 DEF Follow

\* updateSourceAnnotations.
LEMMA FollowAnnotate ==
  ASSUME OneExtension, TypeInv, Follow, Annotate
  PROVE  Follow'
  <1>1. /\ pc = "annotate" /\ pc \in ApplyPath \ (Unclean \union {"cleanRepo", "cleanPlugin"})
        /\ pc # "markWaiting" /\ "finish" \in ApplyPath /\ "finish" \notin HelmPath
    BY Paths DEF Annotate, Unclean, HelmPath
  <1>2. CASE ext.last = LastOf(ext.spec) /\ Skip("finish")
    <2>1. /\ pc' = "finish" /\ NothingAppears
          /\ UNCHANGED <<apiVars, cached, ext, queued, svc, resolved, clusterVars>>
      BY <1>2, UnchangedCluster DEF Skip, Goto, Reads
    <2>2. /\ Endpoint' = Endpoint /\ RepoName(ext.spec)' = RepoName(ext.spec)
          /\ LastOf(ext.spec)' = LastOf(ext.spec)
      BY <2>1 DEF Endpoint, RepoName, LastOf
    <2>3. Cleaned'
      BY <1>1, <2>1, CleanedStays DEF Follow, apiVars
    <2>4. Progress'
      BY <1>1, <1>2, <2>1, <2>2 DEF Follow, Progress, FromHelm, FromReadiness, FromResolve,
         FromRepo, FromPlugin, AtLast, HasServer, HasUI, clusterVars
    <2> QED BY <1>1, <2>1, <2>3, <2>4, FollowStep DEF FromResolve, FromRepo, FromPlugin, AtLast
  <1>3. CASE ext.last # LastOf(ext.spec)
             /\ PatchThen([ext EXCEPT !.last = LastOf(ext.spec)], "finish")
    BY <1>1, <1>3, CopyFields, FollowAnnotatePatch DEF Annotate
  <1>4. CASE PatchFails /\ UNCHANGED <<cached, clusterVars>>
    BY <1>4, FollowError
  <1> QED BY <1>2, <1>3, <1>4 DEF Annotate

\* At the end of a reconcile of the current resource its spec has been applied.
LEMMA AppliedAtFinish ==
  ASSUME TypeInv, Follow, pc = "finish", ~event, ~queued,
         cr.spec.policy = "managed" => cr.resolved = resolved
  PROVE  Applied
  <1>1. pc \in ApplyPath \ (Unclean \union {"cleanRepo", "cleanPlugin", "idle"})
    BY Paths DEF Unclean
  <1>2. ext = cr /\ cr.spec \in UserSpecs /\ cr.finalizer /\ cr.last = LastOf(cr.spec)
    BY <1>1 DEF Follow, Current, PassFollows, Progress, TypeInv, ControlOK
  <1>3. cr.spec.src = "helm" => cr.waiting = "no"
    BY <1>1, <1>2 DEF Follow, Current, FromResolve, FromRepo, FromPlugin, AtLast
  <1> DEFINE s == cr.spec
  <1>4. /\ s.ext \in Names /\ RepoName(s) \in Names /\ s.helm \in Names \union {None}
        /\ s.src = "git" => s.helm = None
        /\ s.src = "helm" => s.helm \in Names /\ RepoName(s) = s.helm
        /\ s.src # "helm" => s.src = "git" /\ RepoName(s) = s.ext
        /\ None \notin Names /\ (s.policy = "managed" <=> s.policy # "unmanaged")
    BY <1>2, SpecFields, SpecRules DEF RepoName
  <1>5. \A n \in Names : /\ HasServer(n) => n = s.helm
                         /\ HasUI(n) => s.policy = "unmanaged" /\ n = s.ext
                         /\ HasRepo(n) => n = RepoName(s)
                         /\ HasPlugin(n) => n = s.ext
    <2>1. Accounts = {LastOf(s)}
      BY <1>2 DEF Accounts
    <2>2. \A l \in Accounts : /\ l.server = s.helm /\ l.repo = RepoName(s) /\ l.ui = s.ext
                             /\ l.policy = s.policy
      BY <2>1, LastFields
    <2> HIDE DEF s
    <2> QED BY <2>2 DEF Follow, Held, Within
  <1>6. /\ s.src = "helm" => /\ HasServer(s.helm) /\ svc = s.helm
                             /\ releases[Server(s.helm)].content = s.rev
        /\ repos[RepoName(s)] = Endpoint
        /\ s.policy = "managed" => /\ plugins[s.ext].version = resolved
                                   /\ plugins[s.ext].at = Endpoint
        /\ s.policy = "unmanaged" => HasUI(s.ext)
    BY <1>2 DEF Follow, Progress, FromHelm, FromReadiness, FromResolve, FromRepo, FromPlugin, AtLast
  <1>7. /\ Endpoint.kind # "none"
        /\ s.src = "helm" => Endpoint.at = s.helm
        /\ s.src # "helm" => Endpoint.at = s.rev
    BY <1>2, <1>6 DEF Endpoint
  <1> HIDE DEF s
  <1>8. Owned.servers = Wanted(s).servers
    BY <1>4, <1>5, <1>6 DEF Owned, Wanted, HasServer
  <1>9. Owned.uis = Wanted(s).uis
    BY <1>4, <1>5, <1>6 DEF Owned, Wanted, HasUI
  <1>10. Owned.repos = Wanted(s).repos
    BY <1>4, <1>5, <1>6, <1>7 DEF Owned, Wanted, HasRepo
  <1>11. Owned.plugins \subseteq Wanted(s).plugins
    BY <1>4, <1>5 DEF Owned, Wanted, HasPlugin
  <1>12. /\ s.src = "helm" => /\ releases[Server(s.helm)].content = s.rev
                              /\ repos[s.helm].at = s.helm
         /\ s.src = "git" => repos[s.ext].at = s.rev
    BY <1>4, <1>6, <1>7
  <1>13. s.policy = "managed" => /\ plugins[s.ext].version = cr.resolved
                                 /\ plugins[s.ext].at = repos[RepoName(s)]
    BY <1>6 DEF s
  <1>14. Exact(s)
    BY <1>8, <1>9, <1>10, <1>11, <1>12, <1>13 DEF Exact
  <1> QED BY <1>2, <1>3, <1>14 DEF Applied, s

\* It stays applied while nothing changes.
LEMMA AppliedStays ==
  ASSUME Applied, cr' = cr, UNCHANGED <<releases, repos, plugins>>
  PROVE  Applied'
  <1>1. Owned' = Owned /\ Wanted(cr.spec)' = Wanted(cr.spec)
        /\ RepoName(cr.spec)' = RepoName(cr.spec) /\ LastOf(cr.spec)' = LastOf(cr.spec)
    BY DEF Owned, Wanted, RepoName, LastOf
  <1>2. Exact(cr.spec)'
    BY <1>1 DEF Applied, Exact
  <1> QED BY <1>1, <1>2 DEF Applied

\* setStatus: Installed at the end, Failed after an error.
LEMMA FollowStatus ==
  ASSUME TypeInv, Follow, Finish \/ SetFailed
  PROVE  Follow'
  <1>1. UNCHANGED <<cached, clusterVars>>
    BY DEF Finish, SetFailed
  <1>2. CASE PatchFails
    BY <1>1, <1>2, FollowError
  <1>3. CASE Finish /\ Return(FALSE, tracking) /\ UNCHANGED apiVars /\ ext.resolved = resolved
    <2>1. /\ pc = "finish" /\ pc' = "idle" /\ SameRecord /\ event' = event
          /\ (queued => queued') /\ cr' = cr
      BY <1>3 DEF Finish, Return, SameRecord, SameResource, apiVars
    <2>2. ~event' /\ ~queued' => Applied'
      <3> SUFFICES ASSUME ~event', ~queued' PROVE Applied'
        OBVIOUS
      <3>1. ~event /\ ~queued /\ ext = cr
        BY <2>1 DEF Follow, Current
      <3> QED BY <1>1, <1>3, <2>1, <3>1, AppliedAtFinish, AppliedStays DEF clusterVars
    <2> QED BY <1>1, <2>1, <2>2, FollowEnds
  <1>4. CASE Finish /\ PatchAndReturn(InstalledStatus, FALSE, tracking)
    <2>1. ~event /\ ~queued /\ cr' = cr => Applied'
      <3> SUFFICES ASSUME ~event, ~queued, cr' = cr PROVE Applied'
        OBVIOUS
      <3>1. pc = "finish" /\ ext = cr /\ cr' = Patched(InstalledStatus)
        BY <1>4 DEF Finish, PatchAndReturn, Write, Follow, Current
      <3>2. cr.spec.policy = "managed" => resolved # None
        BY <3>1 DEF Follow, Progress, FromRepo, FromPlugin, AtLast
      <3>3. cr.spec.policy = "managed" => cr.resolved = resolved
        BY <3>1, <3>2, CopyFields DEF Patched, Merge
      <3> QED BY <1>1, <3>1, <3>3, AppliedAtFinish, AppliedStays DEF clusterVars
    <2> QED BY <1>1, <1>4, <2>1, CopyFields, FollowPatchEnds
  <1>5. CASE SetFailed /\ ~PatchFails
    BY <1>1, <1>5, CopyFields, FollowPatchEnds DEF SetFailed
  <1> QED BY <1>2, <1>3, <1>4, <1>5 DEF Finish

-----------------------------------------------------------------------------
\* handleDeletion only removes, and keeps the copy it works from.
LEMMA FollowDeletion ==
  ASSUME TypeInv, Follow, DeleteServer \/ DeleteUI \/ CleanupPlugin \/ CleanupRepo
  PROVE  Follow'
  <1>1. pc \in DeletionPath /\ pc # "idle"
    BY Paths DEF DeleteServer, DeleteUI, CleanupPlugin, CleanupRepo
  <1>2. CASE DeletionFails
    BY <1>1, <1>2, FollowError DEF DeletionFails, Reads
  <1>3. CASE ~DeletionFails
    <2>1. /\ pc' \in DeletionPath /\ UNCHANGED <<apiVars, cached, ext, queued>>
      BY <1>3, Paths DEF DeleteServer, DeleteUI, CleanupPlugin, CleanupRepo, Call, Skip, Goto,
         Reads
    <2>2. NothingAppears
      BY <1>3, DeletionRemoves, UnchangedCluster
         DEF DeleteServer, DeleteUI, CleanupPlugin, CleanupRepo, Call, Skip, Reads
    <2>3. SameRecord /\ pc' \notin ApplyPath /\ pc' # "idle"
      BY <2>1, Paths DEF SameRecord, SameResource, apiVars
    <2>4. Held' /\ CacheFollows'
      BY <2>1, <2>2, <2>3, HeldStays, CacheStays DEF Follow
    <2>5. PassFollows'
      BY <1>1, <2>1, <2>3, Paths DEF Follow, PassFollows, HelmPath, apiVars
    <2>6. Cleaned' /\ Progress' /\ pc' \notin FromResolve
      BY <2>1, Paths DEF Cleaned, Progress, FromHelm, FromReadiness, FromResolve, FromRepo,
         FromPlugin, AtLast
    <2>7. Current'
      BY <1>1, <2>1, <2>3, <2>6, CurrentStays DEF Follow
    <2> QED BY <2>4, <2>5, <2>6, <2>7 DEF Follow
  <1> QED BY <1>2, <1>3

\* The finalizer is added to a resource that has none, or has it already.
LEMMA FollowAddFinalizer ==
  ASSUME TypeInv, Follow, AddFinalizer
  PROVE  Follow'
  <1> DEFINE new == [ext EXCEPT !.finalizer = TRUE]
  <1>1. pc = "addFinalizer" /\ UNCHANGED <<cached, clusterVars>> /\ NothingAppears
    BY UnchangedCluster DEF AddFinalizer
  <1>2. CASE PatchFails
    BY <1>1, <1>2, FollowError
  <1>3. CASE PatchAndReturn(new, TRUE, FALSE)
    <2>1. /\ cr.present /\ cr' = Patched(new) /\ event' = (event \/ cr' # cr) /\ pc' = "idle"
          /\ queued' /\ new.finalizer = TRUE /\ new.last = ext.last
      BY <1>3 DEF PatchAndReturn, Write, Return, TypeInv, ControlOK, ResourceType
    <2> HIDE DEF new
    <2>2. /\ cr'.present = cr.present /\ cr'.deleting = cr.deleting /\ cr'.spec = cr.spec
          /\ cr.finalizer => cr'.finalizer
      BY <2>1 DEF Patched, Merge
    <2>3. cr'.last = cr.last
      <3>1. cr.last = [source |-> cr.last.source, server |-> cr.last.server,
                       repo |-> cr.last.repo, ui |-> cr.last.ui, policy |-> cr.last.policy]
        BY DEF TypeInv, ApiOK, ResourceType, LastType
      <3> QED BY <2>1, <3>1 DEF Patched, Merge
    <2>4. LastOf(cr.spec)' = LastOf(cr.spec)
      BY <2>2 DEF LastOf, RepoName
    <2>5. Accounts \subseteq Accounts'
      BY <2>2, <2>3, <2>4 DEF Accounts
    <2>6. Within'
      BY <1>1, <2>5, WithinStays DEF Follow, Held
    <2>7. Held'
      BY <2>1, <2>2, <2>3, <2>4, <2>6 DEF Follow, Held
    <2>8. CacheFollows'
      <3>1. cached.deleting => cr.deleting /\ cr.finalizer
        BY <1>1, Paths DEF Follow, CacheFollows, Held
      <3> QED BY <1>1, <2>1, <2>2, <2>3, <2>4, <3>1 DEF Follow, CacheFollows, Follows
    <2>9. PassFollows' /\ Cleaned' /\ Progress'
      BY <2>1, Paths DEF PassFollows, HelmPath, Cleaned, Progress, FromHelm, FromReadiness,
         FromResolve, FromRepo, FromPlugin, AtLast
    <2>10. Current'
      BY <1>1, <2>1 DEF Follow, Current
    <2> QED BY <2>7, <2>8, <2>9, <2>10 DEF Follow
  <1> QED BY <1>2, <1>3 DEF AddFinalizer

\* When the finalizer is dropped nothing is left that was accounted for.
LEMMA NothingLeft ==
  ASSUME TypeInv, Removed, Follow, pc = "dropFinalizer", NEW n \in Names
  PROVE  ~HasServer(n) /\ ~HasUI(n) /\ ~HasRepo(n) /\ ~HasPlugin(n)
  <1>1. CASE ~cr.finalizer
    BY <1>1 DEF Follow, Held, Within, Accounts
  <1>2. CASE cr.finalizer
    <2>1. /\ cr.spec = ext.spec /\ cr.last = ext.last /\ cr.last = LastOf(cr.spec)
          /\ ext.spec \in UserSpecs /\ n # None
      BY <1>2, Paths, SpecRules DEF Follow, Held, PassFollows, TypeInv, ControlOK
    <2>2. /\ \A m \in DoomedServer(ext) : releases[Server(m)].status = "absent"
          /\ \A m \in DoomedUI(ext) : releases[UI(m)].status = "absent"
          /\ repos[RepoName(ext.spec)].kind = "none"
          /\ plugins[ext.spec.ext].owner = "none"
      BY DEF Removed, DeletionLabels
    <2>3. \A l \in Accounts : l = ext.last
      BY <1>2, <2>1 DEF Accounts
    <2>4. /\ ext.last.source = ext.spec.src /\ ext.last.server = ext.spec.helm
          /\ ext.last.repo = RepoName(ext.spec) /\ ext.last.ui = ext.spec.ext
          /\ ext.last.policy = ext.spec.policy
      BY <2>1, LastFields
    <2>5. n = ext.last.server => ext.spec.src = "helm" /\ n \in DoomedServer(ext)
      BY <2>1, <2>4, SpecRules DEF DoomedServer
    <2>6. ext.last.policy = "unmanaged" /\ n = ext.last.ui => n \in DoomedUI(ext)
      BY <2>1, <2>4 DEF DoomedUI
    <2> QED BY <2>2, <2>3, <2>4, <2>5, <2>6
            DEF Follow, Held, Within, HasServer, HasUI, HasRepo, HasPlugin
  <1> QED BY <1>1, <1>2

\* The finalizer is dropped when nothing is left, and the resource goes with it.
LEMMA FollowRemoveFinalizer ==
  ASSUME TypeInv, Removed, Follow, RemoveFinalizer
  PROVE  Follow'
  <1> DEFINE new == [ext EXCEPT !.finalizer = FALSE]
  <1>1. pc = "dropFinalizer" /\ UNCHANGED <<cached, clusterVars>> /\ pc \in DeletionPath
    BY Paths DEF RemoveFinalizer
  <1>2. /\ ext.finalizer /\ ~(cached.present /\ cached.finalizer /\ ~cached.deleting)
        /\ cr.finalizer => cr.deleting
    BY <1>1 DEF Follow, PassFollows
  <1>3. CASE PatchFails
    BY <1>1, <1>3, FollowError
  <1>4. CASE /\ ~cr.present /\ UNCHANGED apiVars /\ Return(FALSE, FALSE)
    <2>1. /\ pc' = "idle" /\ SameRecord /\ event' = event /\ (queued => queued') /\ cr' = cr
          /\ ~Settled'
      BY <1>4 DEF Return, SameRecord, SameResource, apiVars, Settled
    <2> QED BY <1>1, <2>1, FollowEnds
  <1>5. CASE \/ cr.present /\ cr.deleting /\ Write(NoResource) /\ Return(FALSE, FALSE)
             \/ cr.present /\ ~cr.deleting /\ PatchAndReturn(new, FALSE, FALSE)
    <2>1. /\ pc' = "idle" /\ event' = (event \/ cr' # cr) /\ queued' = (queued \/ FALSE)
          /\ (cr' = NoResource \/ (~cr.deleting /\ cr' = Patched(new)))
          /\ new.finalizer = FALSE /\ new.last = ext.last
      BY <1>5 DEF PatchAndReturn, Write, Return, TypeInv, ControlOK, ResourceType
    <2> HIDE DEF new
    <2>2. /\ ~cr'.finalizer /\ ~cr'.deleting
          /\ cr'.last = NoLast \/ cr'.last = cr.last
      <3>1. CASE cr' = NoResource
        BY <3>1 DEF NoResource
      <3>2. CASE ~cr.deleting /\ cr' = Patched(new)
        <4>1. cr.last = [source |-> cr.last.source, server |-> cr.last.server,
                         repo |-> cr.last.repo, ui |-> cr.last.ui, policy |-> cr.last.policy]
          BY DEF TypeInv, ApiOK, ResourceType, LastType
        <4> QED BY <1>2, <2>1, <3>2, <4>1 DEF Patched, Merge
      <3> QED BY <2>1, <3>1, <3>2
    <2>3. Within'
      BY <1>1, NothingLeft DEF Within, HasServer, HasUI, HasRepo, HasPlugin, clusterVars
    <2>4. Held'
      BY <2>2, <2>3 DEF Follow, Held
    <2>5. CacheFollows'
      BY <1>1, <1>2, <2>1, <2>2 DEF CacheFollows
    <2>6. PassFollows' /\ Cleaned' /\ Progress'
      BY <2>1, Paths DEF PassFollows, HelmPath, Cleaned, Progress, FromHelm, FromReadiness,
         FromResolve, FromRepo, FromPlugin, AtLast
    <2>7. Current'
      <3>1. ~event' => ~event /\ cr' = cr
        BY <2>1
      <3>2. ~event' /\ ~queued' => FALSE
        <4> SUFFICES ASSUME ~event', ~queued' PROVE FALSE
          OBVIOUS
        <4>1. ext = cr /\ cr' = cr
          BY <1>1, <2>1, <3>1 DEF Follow, Current
        <4> QED BY <1>2, <2>2, <4>1
      <3> QED BY <1>1, <3>1, <3>2 DEF Follow, Current
    <2> QED BY <2>4, <2>5, <2>6, <2>7 DEF Follow
  <1> QED BY <1>3, <1>4, <1>5 DEF RemoveFinalizer

-----------------------------------------------------------------------------
\* A reconcile starts from the cached copy, of a resource that holds its finalizer or
\* of one that is going away or gone.
LEMMA FollowBegin ==
  ASSUME TypeInv, Follow, ReconcileLive \/ ReconcileDeleting \/ ReconcileGone
  PROVE  Follow'
  <1>1. UNCHANGED <<apiVars, cached, clusterVars>> /\ pc = "idle" /\ NothingAppears /\ SameRecord
    BY UnchangedCluster
       DEF ReconcileLive, ReconcileDeleting, ReconcileGone, Begin, Reads, SameRecord,
           SameResource, apiVars
  <1>2. Held'
    BY <1>1, HeldStays DEF Follow
  <1>3. CASE ReconcileGone
    <2>1. pc' = "idle"
      BY <1>1, <1>3 DEF ReconcileGone
    <2>2. CacheFollows'
      BY <1>1, <2>1, CacheStays DEF Follow
    <2>3. PassFollows' /\ Cleaned' /\ Progress'
      BY <2>1, Paths DEF PassFollows, HelmPath, Cleaned, Progress, FromHelm, FromReadiness,
         FromResolve, FromRepo, FromPlugin, AtLast
    <2>4. Current'
      <3>1. cr' = cr /\ event' = event /\ cached' = cached
        BY <1>1 DEF apiVars
      <3>2. ~event => ~Settled'
        BY <1>3, <3>1 DEF ReconcileGone, Follow, Current, Settled
      <3> QED BY <2>1, <3>1, <3>2 DEF Follow, Current, FromResolve, FromRepo, FromPlugin, AtLast
    <2> QED BY <1>2, <2>2, <2>3, <2>4 DEF Follow
  <1>4. CASE ReconcileLive \/ ReconcileDeleting
    <2>1. /\ pc' \in {"cleanRelease", "addFinalizer", "delRelease"} /\ ext' = cached
          /\ pc' = "cleanRelease" => cached.present /\ cached.finalizer /\ ~cached.deleting
          /\ pc' = "delRelease" => cached.deleting /\ cached.finalizer
          /\ pc' # "delRelease" => ~cached.deleting
      BY <1>4 DEF ReconcileLive, ReconcileDeleting, Begin
    <2>2. /\ pc' \in DeletionPath <=> pc' = "delRelease"
          /\ pc' \in ApplyPath <=> pc' = "cleanRelease"
      BY <2>1, Paths
    <2>3. CacheFollows'
      BY <1>1, <2>1, <2>2 DEF Follow, CacheFollows, Follows, apiVars
    <2>4. PassFollows'
      BY <1>1, <2>1, <2>2 DEF Follow, CacheFollows, PassFollows, Follows, HelmPath, apiVars
    <2>5. Cleaned' /\ Progress'
      BY <2>1, <2>2 DEF Cleaned, Unclean, Progress, FromHelm, FromReadiness, FromResolve,
         FromRepo, FromPlugin, AtLast
    <2>6. Current'
      BY <1>1, <2>1 DEF Follow, Current, Settled, FromResolve, FromRepo, FromPlugin, AtLast, apiVars
    <2> QED BY <1>2, <2>3, <2>4, <2>5, <2>6 DEF Follow
  <1> QED BY <1>3, <1>4

\* A step that neither the resource nor the reconciler takes part in.
LEMMA FollowSame ==
  ASSUME Follow, queued => queued',
         UNCHANGED <<apiVars, cached, ext, pc, svc, resolved, releases, repos, plugins>>
  PROVE  Follow'
  <1>1. NothingAppears /\ SameRecord
    BY DEF NothingAppears, SameRecord, SameResource, apiVars
  <1>2. Held' /\ CacheFollows'
    BY <1>1, HeldStays, CacheStays DEF Follow
  <1>3. PassFollows'
    BY DEF Follow, PassFollows, Follows, apiVars
  <1>4. RepoName(ext.spec)' = RepoName(ext.spec) /\ LastOf(ext.spec)' = LastOf(ext.spec)
        /\ Endpoint' = Endpoint
    BY DEF RepoName, LastOf, Endpoint
  <1>5. Cleaned' /\ Progress'
    BY <1>4 DEF Follow, Cleaned, Progress, HasServer, HasUI, HasRepo, apiVars
  <1>6. Current'
    <2>1. ~event' /\ ~queued' /\ Settled' => Applied'
      BY AppliedStays DEF Follow, Current, Settled, apiVars
    <2> QED BY <2>1 DEF Follow, Current, apiVars
  <1> QED BY <1>2, <1>3, <1>5, <1>6 DEF Follow

\* The readiness timeout passes for the resource and every copy of it.
LEMMA FollowTimeout ==
  ASSUME TypeInv, Follow, ReadinessTimeout
  PROVE  Follow'
  <1>1. \A e \in ResourceType :
          /\ Aged(e).present = e.present /\ Aged(e).finalizer = e.finalizer
          /\ Aged(e).deleting = e.deleting /\ Aged(e).spec = e.spec /\ Aged(e).last = e.last
          /\ Aged(e).phase = e.phase /\ Aged(e).resolved = e.resolved
          /\ Aged(e).waiting = "no" <=> e.waiting = "no"
    BY DEF Aged, ResourceType
  <1>2. /\ cr \in ResourceType /\ cached \in ResourceType /\ ext \in ResourceType
        /\ cr' = Aged(cr) /\ cached' = Aged(cached) /\ ext' = Aged(ext)
        /\ UNCHANGED <<event, pc, svc, resolved, queued, clusterVars>>
    BY DEF ReadinessTimeout, TypeInv, ApiOK, ControlOK
  <1>3. SameRecord /\ NothingAppears
    BY <1>1, <1>2, UnchangedCluster DEF SameRecord, SameResource
  <1>4. Held'
    BY <1>3, HeldStays DEF Follow
  <1>5. CacheFollows'
    BY <1>1, <1>2 DEF Follow, CacheFollows, Follows
  <1>6. PassFollows'
    BY <1>1, <1>2 DEF Follow, PassFollows, Follows
  <1>7. /\ RepoName(ext.spec)' = RepoName(ext.spec) /\ LastOf(ext.spec)' = LastOf(ext.spec)
        /\ RepoName(cr.spec)' = RepoName(cr.spec) /\ LastOf(cr.spec)' = LastOf(cr.spec)
        /\ Endpoint' = Endpoint
    BY <1>1, <1>2 DEF RepoName, LastOf, Endpoint
  <1>8. Cleaned' /\ Progress'
    BY <1>1, <1>2, <1>7 DEF Follow, Cleaned, Progress, HasServer, HasUI, HasRepo, clusterVars
  <1>9. Current'
    <2>1. Settled' <=> Settled
      BY <1>1, <1>2 DEF Settled
    <2>2. Applied => Applied'
      <3> SUFFICES ASSUME Applied PROVE Applied'
        OBVIOUS
      <3>1. Owned' = Owned /\ Wanted(cr.spec)' = Wanted(cr.spec)
        BY <1>1, <1>2, <1>7 DEF Owned, Wanted, clusterVars
      <3>2. Exact(cr.spec)'
        BY <1>1, <1>2, <1>7, <3>1 DEF Applied, Exact, clusterVars
      <3> QED BY <1>1, <1>2, <1>7, <3>2 DEF Applied
    <2> QED BY <1>1, <1>2, <2>1, <2>2 DEF Follow, Current
  <1> QED BY <1>4, <1>5, <1>6, <1>8, <1>9 DEF Follow

\* The watch, the timers, the deployments, a crash.
LEMMA FollowWorld ==
  ASSUME TypeInv, Follow, World
  PROVE  Follow'
  <1>1. CASE CacheSync
    <2>1. /\ cr' = cr /\ cached' = cr /\ queued'
          /\ UNCHANGED <<pc, ext, svc, resolved, releases, repos, plugins>>
      BY <1>1 DEF CacheSync, clusterVars
    <2>2. SameRecord /\ NothingAppears
      BY <2>1 DEF SameRecord, SameResource, NothingAppears
    <2>3. Held'
      BY <2>2, HeldStays DEF Follow
    <2>4. CacheFollows' /\ PassFollows'
      BY <2>1 DEF Follow, Held, CacheFollows, PassFollows, Follows
    <2>5. RepoName(ext.spec)' = RepoName(ext.spec) /\ LastOf(ext.spec)' = LastOf(ext.spec)
          /\ Endpoint' = Endpoint
      BY <2>1 DEF RepoName, LastOf, Endpoint
    <2>6. Cleaned' /\ Progress'
      BY <2>1, <2>5 DEF Follow, Cleaned, Progress, HasServer, HasUI, HasRepo
    <2>7. Current'
      BY <2>1 DEF Current
    <2> QED BY <2>3, <2>4, <2>6, <2>7 DEF Follow
  <1>2. CASE Crash
    <2>1. /\ cr' = cr /\ cached' = cr /\ pc' = "idle" /\ queued' = cr.present
          /\ UNCHANGED clusterVars
      BY <1>2 DEF Crash
    <2>2. SameRecord /\ NothingAppears
      BY <2>1, UnchangedCluster DEF SameRecord, SameResource
    <2>3. Held'
      BY <2>2, HeldStays DEF Follow
    <2>4. CacheFollows'
      BY <2>1 DEF Follow, Held, CacheFollows, Follows
    <2>5. PassFollows' /\ Cleaned' /\ Progress'
      BY <2>1, Paths DEF PassFollows, HelmPath, Cleaned, Progress, FromHelm, FromReadiness,
         FromResolve, FromRepo, FromPlugin, AtLast
    <2>6. Current'
      BY <2>1 DEF Current, Settled, FromResolve, FromRepo, FromPlugin, AtLast
    <2> QED BY <2>3, <2>4, <2>5, <2>6 DEF Follow
  <1>3. CASE TimerFires \/ \E n \in Names : BecomeReady(n) \/ LoseReadiness(n)
    BY <1>3, FollowSame
       DEF TimerFires, BecomeReady, LoseReadiness, operatorVars, clusterVars
  <1> QED BY <1>1, <1>2, <1>3, FollowTimeout DEF World

\* Users who wait change a resource that has been applied, and that nothing works on.
LEMMA FollowUser ==
  ASSUME TypeInv, Follow, UserCreate \/ (Settled /\ (UserEdit \/ UserDelete))
  PROVE  Follow'
  <1>1. UNCHANGED <<cached, ext, pc, queued, clusterVars>> /\ NothingAppears
    BY UnchangedCluster DEF UserCreate, UserEdit, UserDelete, operatorVars
  <1>2. CASE UserCreate \/ (Settled /\ UserDelete /\ ~cr.finalizer)
    <2>1. /\ ~cr.finalizer /\ ~cr.deleting /\ event' = TRUE
          /\ ~cr'.finalizer /\ ~cr'.deleting /\ cr'.last = NoLast
      <3>1. ~cr.finalizer /\ ~cr.deleting
        BY <1>2 DEF UserCreate, UserDelete, Follow, Held
      <3>2. \A s : /\ NewResource(s).present /\ ~NewResource(s).finalizer
                   /\ ~NewResource(s).deleting /\ NewResource(s).last = NoLast
        BY DEF NewResource, NoResource
      <3>3. /\ ~NoResource.present /\ ~NoResource.finalizer /\ ~NoResource.deleting
            /\ NoResource.last = NoLast
        BY DEF NoResource
      <3>4. PICK new : /\ Write(new) /\ ~new.finalizer /\ ~new.deleting /\ new.last = NoLast
                       /\ new # cr
        BY <1>2, <3>1, <3>2, <3>3 DEF UserCreate, UserDelete
      <3> QED BY <3>1, <3>4 DEF Write
    <2>2. Within'
      BY <1>1, <2>1 DEF Follow, Held, Within, Accounts, NothingAppears, HasServer, HasUI, HasRepo,
         HasPlugin
    <2>3. Held'
      BY <2>1, <2>2 DEF Held
    <2>4. CacheFollows' /\ PassFollows' /\ Cleaned'
      BY <1>1, <2>1, Paths DEF Follow, CacheFollows, PassFollows, Cleaned
    <2>5. Progress'
      <3>1. RepoName(ext.spec)' = RepoName(ext.spec) /\ LastOf(ext.spec)' = LastOf(ext.spec)
        BY <1>1 DEF RepoName, LastOf
      <3>2. UNCHANGED <<svc, resolved>>
        BY <1>2 DEF UserCreate, UserDelete, operatorVars
      <3>3. Endpoint' = Endpoint
        BY <1>1, <3>2 DEF Endpoint
      <3> QED BY <1>1, <3>1, <3>2, <3>3 DEF Follow, Progress, HasServer, HasUI, clusterVars
    <2>6. Current'
      BY <2>1 DEF Current
    <2> QED BY <2>3, <2>4, <2>5, <2>6 DEF Follow
  <1>3. CASE Settled /\ (UserEdit \/ (UserDelete /\ cr.finalizer))
    <2>1. /\ pc = "idle" /\ ~event /\ ~queued /\ cached = cr /\ ~cr.deleting /\ cr.present
          /\ cr.last = LastOf(cr.spec) /\ (cr.spec.src = "helm" => cr.waiting = "no")
          /\ cr.spec \in UserSpecs
      BY <1>3 DEF Settled, Follow, Current, Applied, TypeInv, ApiOK
    <2>2. /\ cr'.present = cr.present /\ cr'.finalizer = cr.finalizer /\ cr'.last = cr.last
          /\ event'
          /\ \/ cr'.spec # cr.spec /\ cr'.deleting = cr.deleting
             \/ cr'.spec = cr.spec /\ cr'.deleting /\ cr.finalizer
      <3>1. \A x : /\ [cr EXCEPT !.spec = x].spec = x
                   /\ [cr EXCEPT !.spec = x].present = cr.present
                   /\ [cr EXCEPT !.spec = x].finalizer = cr.finalizer
                   /\ [cr EXCEPT !.spec = x].deleting = cr.deleting
                   /\ [cr EXCEPT !.spec = x].last = cr.last
        BY DEF TypeInv, ApiOK, ResourceType
      <3>2. /\ [cr EXCEPT !.deleting = TRUE].deleting = TRUE
            /\ [cr EXCEPT !.deleting = TRUE].present = cr.present
            /\ [cr EXCEPT !.deleting = TRUE].finalizer = cr.finalizer
            /\ [cr EXCEPT !.deleting = TRUE].spec = cr.spec
            /\ [cr EXCEPT !.deleting = TRUE].last = cr.last
        BY DEF TypeInv, ApiOK, ResourceType
      <3>3. CASE UserEdit
        <4>1. PICK x \in UserSpecs \ {cr.spec} : Write([cr EXCEPT !.spec = x])
          BY <3>3 DEF UserEdit
        <4>2. PICK new : /\ Write(new) /\ new.spec = x /\ new.present = cr.present
                         /\ new.finalizer = cr.finalizer /\ new.deleting = cr.deleting
                         /\ new.last = cr.last
          BY <3>1, <4>1
        <4>3. new.spec # cr.spec
          BY <4>2
        <4>4. event' /\ cr' = new
          BY <4>2, <4>3 DEF Write
        <4> QED BY <4>2, <4>3, <4>4
      <3>4. CASE UserDelete /\ cr.finalizer
        BY <2>1, <3>2, <3>4 DEF UserDelete, Write
      <3> QED BY <1>3, <3>3, <3>4
    <2>3. Within'
      <3>1. ASSUME NEW l \in Accounts PROVE l \in Accounts'
        BY <2>1, <2>2, <3>1 DEF Accounts
      <3> QED BY <1>1, <3>1, WithinStays DEF Follow, Held
    <2>4. Held'
      <3>1. cr'.deleting => cr'.last = LastOf(cr.spec)'
        BY <2>1, <2>2 DEF LastOf, RepoName
      <3> QED BY <2>1, <2>2, <2>3, <3>1 DEF Follow, Held
    <2>5. CacheFollows'
      BY <1>1, <2>1, <2>2 DEF CacheFollows, Follows
    <2>6. PassFollows' /\ Cleaned' /\ Progress'
      BY <1>1, <2>1, Paths DEF PassFollows, HelmPath, Cleaned, Progress, FromHelm, FromReadiness,
         FromResolve, FromRepo, FromPlugin, AtLast
    <2>7. Current'
      BY <2>2 DEF Current
    <2> QED BY <2>4, <2>5, <2>6, <2>7 DEF Follow
  <1> QED BY <1>2, <1>3

\* The invariant is inductive for users who wait.
LEMMA FollowInductive ==
  ASSUME OneExtension, TypeInv, Removed, Follow, SettledNext \/ UNCHANGED vars
  PROVE  Follow'
  <1>1. CASE UNCHANGED vars
    BY <1>1, FollowSame DEF vars, operatorVars, clusterVars
  <1>2. CASE Operator
    BY <1>2, FollowBegin, FollowAddFinalizer, FollowCleanRelease, FollowCleanRepo,
       FollowCleanPlugin, FollowHelm, FollowCheckReadiness, FollowClearWaiting, FollowNotReady,
       FollowMarkWaiting, FollowRancher, FollowUIRelease, FollowAnnotate, FollowStatus,
       FollowDeletion, FollowRemoveFinalizer DEF Operator
  <1> QED BY <1>1, <1>2, FollowWorld, FollowUser DEF SettledNext

\* Before the resource is created there is nothing to follow.
LEMMA FollowInit == Empty => Follow
  <1> SUFFICES ASSUME Empty PROVE Follow
    OBVIOUS
  <1>1. /\ cr = NoResource /\ cached = NoResource /\ pc = "idle" /\ ~cr.finalizer
        /\ ~cr.present /\ ~cr.deleting /\ cr.last = NoLast
    BY DEF Empty, NoResource
  <1>2. Held
    <2>1. Within
      BY ReleaseNames
         DEF Empty, Within, HasServer, HasUI, HasRepo, HasPlugin, NoRelease, NoEndpoint, NoPlugin
    <2> QED BY <1>1, <2>1 DEF Held
  <1>3. CacheFollows /\ PassFollows /\ Cleaned /\ Progress
    BY <1>1, Paths DEF CacheFollows, PassFollows, HelmPath, Cleaned, Progress, FromHelm,
       FromReadiness, FromResolve, FromRepo, FromPlugin, AtLast
  <1>4. Current
    BY <1>1 DEF Current, Settled, FromResolve, FromRepo, FromPlugin, AtLast
  <1> QED BY <1>2, <1>3, <1>4 DEF Follow


\* The type invariant holds whatever the budgets.
LEMMA EagerType == EagerInit => TypeInv
  <1> SUFFICES ASSUME EagerInit PROVE TypeInv
    OBVIOUS
  <1>1. ApiOK
    BY NullTypes DEF EagerInit, Empty, ApiOK
  <1>2. BudgetOK
    BY BoundsAssumption DEF EagerInit, BudgetOK
  <1>3. ControlOK
    BY NullTypes DEF EagerInit, Empty, ControlOK, Labels, HelmLabels
  <1>4. ClusterOK
    BY NullTypes DEF EagerInit, Empty, ClusterOK
  <1> QED BY <1>1, <1>2, <1>3, <1>4 DEF TypeInv

\* Crashes stop at their bound: users who wait stay apart from users who do not.
LEMMA EagerStays ==
  ASSUME TypeInv, [Next]_vars
  PROVE  Eager' <=> Eager
  <1>1. crashes' = crashes \/ (crashes < MaxCrashes /\ crashes' = crashes + 1)
    <2>1. CASE UNCHANGED vars
      BY <2>1 DEF vars, budgetVars
    <2>2. CASE Operator
      BY <2>2
         DEF Operator, ReconcileLive, ReconcileDeleting, ReconcileGone, Begin, AddFinalizer,
             PatchAndReturn, PatchFails, CleanRelease, CleanRepo, CleanPlugin, EnsureRelease,
             HelmServerDone, HelmServerFails, FindService, CheckReadiness, ClearWaiting, NotReady,
             MarkWaiting, Resolve, EnsureRepo, EnsureUIPlugin, EnsureUIPluginRelease, HelmUIDone,
             HelmUIFails, Annotate, Finish, SetFailed, DeleteServer, DeleteUI, CleanupPlugin,
             CleanupRepo, RemoveFinalizer, PatchThen, Install, Upgrade, HelmRefuses, Call, Skip,
             CallFails, DeletionFails, NoFault, Fault, budgetVars
    <2>3. CASE World
      BY <2>3 DEF World, CacheSync, TimerFires, ReadinessTimeout, Crash, BecomeReady,
         LoseReadiness, Fault, budgetVars
    <2>4. CASE UserCreate \/ UserEdit \/ UserDelete \/ RancherUser
      BY <2>4 DEF UserCreate, UserEdit, UserDelete, RancherUser, UIUpgrade, UIUninstall,
         EditBudget, budgetVars
    <2> QED BY <2>1, <2>2, <2>3, <2>4 DEF Next
  <1>2. crashes \in Nat /\ MaxCrashes \in Nat
    BY BoundsAssumption DEF TypeInv, BudgetOK
  <1> QED BY <1>1, <1>2 DEF Eager

\* When users wait for Installed before they change a resource again, a resource that
\* shows Installed, with nothing left to do, has been applied exactly: the cluster holds
\* the objects its spec asks for and none of an earlier spec's, whatever stale copies the
\* reconciler worked from and wherever calls failed or the operator crashed.
THEOREM SettledMeansExact ==
  ASSUME OneExtension
  PROVE  EitherSpec => []SettledIsExact
  <1> DEFINE Inv == TypeInv /\ Removed /\ (~Eager => Follow)
  <1>1. Init \/ EagerInit => Inv
    <2>1. Init \/ EagerInit => Removed
      BY DEF Init, EagerInit, Empty, Removed, DeletionLabels
    <2> QED BY <2>1, InitType, EagerType, FollowInit DEF Init, EagerInit
  <1>2. Inv /\ [EitherNext]_vars => Inv'
    <2> SUFFICES ASSUME Inv, [EitherNext]_vars PROVE Inv'
      OBVIOUS
    <2>1. [Next]_vars
      BY DEF EitherNext, Next
    <2>2. TypeInv' /\ Removed' /\ (Eager' <=> Eager)
      BY <2>1, NextType, RemovedInductive, EagerStays
    <2>3. ~Eager => SettledNext \/ UNCHANGED vars
      BY DEF EitherNext, SettledNext
    <2> QED BY <2>2, <2>3, FollowInductive
  <1>3. Inv => SettledIsExact
    BY DEF Follow, Current, Settled, Applied, SettledIsExact, InstalledIsExact
  <1> QED BY <1>1, <1>2, <1>3, PTL DEF EitherSpec
=============================================================================
