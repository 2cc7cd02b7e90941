----------------------------- MODULE AppInstall -----------------------------
(***************************************************************************)
(* One cluster of an install or upgrade: the attempts of installToCluster  *)
(* and upgradeToCluster (AppWizard.vue), each createOrUpgradeApp followed  *)
(* by waitForAppInstall (rancher-apps.ts), against the App resource that   *)
(* Rancher keeps of the helm release.  WizardInstall says when an attempt  *)
(* begins; here the next one may begin whenever the last one failed.       *)
(*                                                                         *)
(* Rancher and helm are outside the code and modelled by what it relies    *)
(* on: a posted operation runs some time after the reply; every change of  *)
(* a release raises the App's generation; the controller then shows its    *)
(* status (status.summary.state) with observedGeneration; an uninstall     *)
(* leaves the App "uninstalling" until helm is done; helm refuses an       *)
(* operation while another one or an uninstall runs, an install of an      *)
(* existing release and an upgrade of an absent one.                       *)
(***************************************************************************)
EXTENDS Integers

CONSTANTS
  MaxAttempts,   \* bound: attempts of this wizard
  MaxOthers      \* bound: operations posted, and uninstalls made, by others

ASSUME BoundsAssumption == MaxAttempts \in Nat \ {0} /\ MaxOthers \in Nat

VARIABLES
  setting,    \* what the attempts meet: "prompt", or anything
  mode,       \* props.mode
  pc,         \* where the attempt is
  attempt,    \* its number, which is also the number of its operation
  upgraded,   \* the operation is an upgrade; the wait is told so (isRetry)
  baseline,   \* initialObs, -1 before the first answer
  app,        \* the App resource, with the helm release it reflects
  ops,        \* the helm operations: of the attempts, then of others
  others      \* acts of others so far

vars == <<setting, mode, pc, attempt, upgraded, baseline, app, ops, others>>

Attempts == 1..MaxAttempts
Ops == 1..(MaxAttempts + MaxOthers)

Labels == {"idle", "namespace", "check", "post", "poll", "attach", "success", "failed"}

OpStatus == {"none", "queued", "running", "deployed", "failed", "refused"}

\* A helm status; "other" is one that is neither a failure nor transitional nor deployed:
\* uninstalling, uninstalled, superseded, unknown.
States == {"none", "pending", "deployed", "failed", "other"}

\* release is helm's status and by the operation it comes from; shown is the App's summary.
AppType == [present : BOOLEAN, gen : Nat, obs : Nat, by : Ops \cup {0},
            release : States, shown : States]

NoApp == [present |-> FALSE, gen |-> 0, obs |-> 0, by |-> 0, release |-> "none", shown |-> "none"]

TypeOK ==
  /\ setting \in {"shared", "prompt"}
  /\ mode \in {"install", "manage"}
  /\ pc \in Labels
  /\ attempt \in 0..MaxAttempts
  /\ upgraded \in BOOLEAN
  /\ baseline \in Int /\ baseline >= -1
  /\ app \in AppType /\ app.obs <= app.gen
  /\ ops \in [Ops -> [status : OpStatus, upgrade : BOOLEAN]]
  /\ others \in 0..MaxOthers

-----------------------------------------------------------------------------
(* The attempt. *)

\* installSingleCluster or upgradeSingleCluster, first or again.
Begin ==
  /\ pc \in {"idle", "failed"} /\ attempt < MaxAttempts
  /\ pc' = "namespace"
  /\ attempt' = attempt + 1
  /\ UNCHANGED <<setting, mode, upgraded, baseline, app, ops, others>>

\* ensureNamespace; credentials and dependencies are skipped when they fail.
EnsureNamespace ==
  /\ pc = "namespace"
  /\ pc' \in {IF mode = "install" THEN "check" ELSE "post", "failed"}
  /\ upgraded' = (mode = "manage")
  /\ UNCHANGED <<setting, mode, attempt, baseline, app, ops, others>>

\* Mutant: an answer other than 404 ends in a state that nothing handles.
CheckAppUnhandled ==
  /\ pc = "check"
  /\ \/ pc' = "post" /\ upgraded' = app.present
     \/ pc' = "error" /\ UNCHANGED upgraded
  /\ UNCHANGED <<setting, mode, attempt, baseline, app, ops, others>>

\* createOrUpgradeApp looks whether the App exists: upgrade it, install it (404), or throw.
CheckApp ==
  /\ pc = "check"
  /\ \/ pc' = "post" /\ upgraded' = app.present
     \/ pc' = "failed" /\ UNCHANGED upgraded
  /\ UNCHANGED <<setting, mode, attempt, baseline, app, ops, others>>

Queued(op, upgrade) == ops' = [ops EXCEPT ![op] = [status |-> "queued", upgrade |-> upgrade]]

\* createOrUpgradeApp posts the operation, and the wait begins.
Post ==
  /\ pc = "post"
  /\ Queued(attempt, upgraded)
  /\ pc' = "poll" /\ baseline' = -1
  /\ UNCHANGED <<setting, mode, attempt, upgraded, app, others>>

\* The post fails and nothing was accepted.
PostRefused ==
  /\ pc = "post"
  /\ pc' = "failed"
  /\ UNCHANGED <<setting, mode, attempt, upgraded, baseline, app, ops, others>>

\* The operation is accepted, but the reply is lost or later than 20 seconds.
PostUnanswered ==
  /\ pc = "post"
  /\ Queued(attempt, upgraded)
  /\ pc' = "failed"
  /\ UNCHANGED <<setting, mode, attempt, upgraded, baseline, app, others>>

\* Mutant: every observation counts.
StaleNever(first) == FALSE

\* Mutant: every wait is told that it is a retry.
StaleAlways(first) == app.obs <= first

\* isStale, for the first observation seen.
Stale(first) == upgraded /\ app.obs <= first

\* Mutant: the generation is not compared.
UndecidedOfAny(first) == Stale(first) \/ app.shown = "pending"

\* What is read does not end the wait.
Undecided(first) == app.obs < app.gen \/ Stale(first) \/ app.shown = "pending"

\* waitForAppInstall reads the App; an absent one, or an error, is no answer, and every
\* state that is neither a failure nor transitional ends the wait well.
Poll ==
  /\ pc = "poll" /\ app.present
  /\ baseline' = IF baseline < 0 THEN app.obs ELSE baseline
  /\ pc' = IF Undecided(baseline') THEN "poll"
           ELSE IF app.shown = "failed" THEN "failed" ELSE "attach"
  /\ UNCHANGED <<setting, mode, attempt, upgraded, app, ops, others>>

\* 180 seconds have passed.
Timeout ==
  /\ pc = "poll"
  /\ pc' = "failed"
  /\ UNCHANGED <<setting, mode, attempt, upgraded, baseline, app, ops, others>>

\* Mutant: a service account that cannot be written starts the attempt over.
AttachAgain ==
  /\ pc = "attach"
  /\ pc' \in {"success", "idle"}
  /\ UNCHANGED <<setting, mode, attempt, upgraded, baseline, app, ops, others>>

\* The service accounts are given the secrets; an upgrade ends at once.  Neither can fail.
Attach ==
  /\ pc = "attach"
  /\ pc' = "success"
  /\ UNCHANGED <<setting, mode, attempt, upgraded, baseline, app, ops, others>>

-----------------------------------------------------------------------------
(* Rancher and helm. *)

Running == \E o \in Ops : ops[o].status = "running"

\* The operation's pod starts: helm refuses, or records a pending revision.
HelmStarts(o) ==
  /\ ops[o].status = "queued"
  /\ IF Running \/ app.present # ops[o].upgrade \/ app.release = "other"
     THEN ops' = [ops EXCEPT ![o].status = "refused"] /\ UNCHANGED app
     ELSE /\ ops' = [ops EXCEPT ![o].status = "running"]
          /\ app' = [app EXCEPT !.present = TRUE, !.gen = @ + 1, !.release = "pending", !.by = o]
  /\ UNCHANGED <<setting, mode, pc, attempt, upgraded, baseline, others>>

HelmEnds(o, status) ==
  /\ ops[o].status = "running"
  /\ ops' = [ops EXCEPT ![o].status = status]
  /\ app' = [app EXCEPT !.gen = @ + 1, !.release = status]
  /\ UNCHANGED <<setting, mode, pc, attempt, upgraded, baseline, others>>

\* The controller catches up with the release.
Observe ==
  /\ app.present /\ app.obs < app.gen
  /\ app' = [app EXCEPT !.obs = app.gen, !.shown = app.release]
  /\ UNCHANGED <<setting, mode, pc, attempt, upgraded, baseline, ops, others>>

\* Another user, in another browser: installs or upgrades, or uninstalls.
OtherPosts ==
  /\ others < MaxOthers
  /\ others' = others + 1
  /\ Queued(MaxAttempts + others', app.present)
  /\ UNCHANGED <<setting, mode, pc, attempt, upgraded, baseline, app>>

OtherUninstalls ==
  /\ others < MaxOthers
  /\ app.present /\ ~Running /\ app.release # "other"
  /\ others' = others + 1
  /\ app' = [app EXCEPT !.gen = @ + 1, !.release = "other"]
  /\ UNCHANGED <<setting, mode, pc, attempt, upgraded, baseline, ops>>

\* helm is done with the uninstall.
OtherUninstalled ==
  /\ app.release = "other"
  /\ app' = NoApp
  /\ UNCHANGED <<setting, mode, pc, attempt, upgraded, baseline, ops, others>>

-----------------------------------------------------------------------------
\* The wizard opens to install what is absent or installed, or to manage what is installed.
Init ==
  /\ setting \in {"shared", "prompt"}
  /\ mode \in {"install", "manage"}
  /\ pc = "idle" /\ attempt = 0 /\ upgraded = FALSE /\ baseline = -1
  /\ app \in {NoApp, [present |-> TRUE, gen |-> 1, obs |-> 1, by |-> 0,
                      release |-> "deployed", shown |-> "deployed"]}
  /\ mode = "manage" => app.present
  /\ ops = [o \in Ops |-> [status |-> "none", upgrade |-> FALSE]]
  /\ others = 0

Wizard == Begin \/ EnsureNamespace \/ CheckApp \/ Post \/ PostRefused \/ Poll \/ Attach

Helm ==
  \/ \E o \in Ops : HelmStarts(o) \/ HelmEnds(o, "deployed") \/ HelmEnds(o, "failed")
  \/ Observe

\* The attempt's operation is over and its result observed, and yet not what was waited for.
Unnoticed ==
  /\ ops[attempt].status \notin {"queued", "running"}
  /\ app.obs = app.gen
  /\ app.present => baseline >= 0 /\ Undecided(baseline)

\* In the setting "prompt" no reply is lost, nobody else is about, and helm is done
\* before the wait is over; in the other all may happen.
Next ==
  \/ Wizard \/ Helm
  \/ Timeout /\ (setting = "prompt" => Unnoticed)
  \/ setting = "shared" /\ (PostUnanswered \/ OtherPosts \/ OtherUninstalls \/ OtherUninstalled)

Spec == Init /\ [][Next]_vars

\* The timer of Timeout is left out: what ends a wait here is an observation.
FairSpec ==
  /\ Spec
  /\ WF_vars(EnsureNamespace \/ CheckApp \/ Post \/ Poll \/ Attach)
  /\ WF_vars(Helm)

\* Replies are not lost and nobody else is about; helm may outlast the wait.
SlowNext == Wizard \/ Helm \/ (Timeout /\ ops[attempt].status = "running")

SlowSpec == Init /\ [][SlowNext]_vars

-----------------------------------------------------------------------------
(***************************************************************************)
(* When the wait ends well, the App exists and the release is at that      *)
(* moment neither in progress nor failed, whoever else acts, and it is     *)
(* deployed unless another user is uninstalling it: the status read is of  *)
(* the App's current generation (obs >= gen in waitForAppInstall).         *)
(***************************************************************************)
SuccessIsCurrent ==
  [][pc = "poll" /\ pc' = "attach" =>
       app.release = "deployed" \/ (app.release = "other" /\ app.present /\ others > 0)]_vars

\* The wait ends with what became of this attempt's operation, not an earlier one.
OwnEnd ==
  /\ pc = "poll" /\ pc' = "attach" => ops[attempt].status = "deployed" /\ app.by = attempt
  /\ Poll /\ pc' = "failed" => ops[attempt].status = "failed" /\ app.by = attempt

(***************************************************************************)
(* "wait for observedGeneration to increment to avoid reading stale status *)
(* from the previous operation" (rancher-apps.ts, lines 355-356), however  *)
(* long helm takes.                                                        *)
(***************************************************************************)
NeverStale == [][OwnEnd]_vars

\* Only a failed operation is told as failed, by what is read or by the timeout; but an
\* upgrade that was over and observed before the first look is missed.
ToldFailed ==
  pc = "poll" /\ pc' = "failed" => ops[attempt].status \in {"failed", "refused"} \/ Stale(baseline)

(***************************************************************************)
(* When helm is done before each wait is over and nobody else acts, every  *)
(* end of a wait, by what it reads or by its timeout, is told as its own   *)
(* operation's result, also for an attempt that retries a failed one; the  *)
(* exception is an upgrade whose result the first look already shows: it   *)
(* becomes the wait's own baseline (initialObs), and is told "did not      *)
(* appear in time" whatever became of it.                                  *)
(***************************************************************************)
OwnVerdict == [][setting = "prompt" => OwnEnd /\ ToldFailed]_vars

(***************************************************************************)
(* An install of an absent App is noticed: the wait ends by what it reads, *)
(* without its timeout, once helm is done (waitForAppInstall).             *)
(***************************************************************************)
InstallNoticed == setting = "prompt" /\ pc = "poll" /\ ~upgraded ~> pc # "poll"

\* What the modal shows of the cluster.
JobOf(c) == CASE pc = "idle" -> "none" [] pc \in {"success", "failed"} -> pc [] OTHER -> "installing"

Job == INSTANCE InstallJobs WITH Clusters <- {"cluster"}, jobs <- [c \in {"cluster"} |-> JobOf(c)]

(***************************************************************************)
(* Attempts are what WizardInstall takes them for: they begin, end once in *)
(* success or failure, and follow one another only after a failure.        *)
(***************************************************************************)
ImplementsJob == Job!Spec
=============================================================================
