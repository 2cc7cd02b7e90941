-------------------------- MODULE AppInstallProofs --------------------------
(***************************************************************************)
(* Theorems about the attempts on one cluster, for any numbers of attempts *)
(* and of acts of others.                                                  *)
(***************************************************************************)
EXTENDS AppInstall, TLAPS

-----------------------------------------------------------------------------
(* The inductive invariant.                                                *)

\* An attempt has a number.
Begun == pc # "idle" => attempt \in Attempts

\* What the App shows of its current generation is helm's status.
Reflects ==
  app.present => app.release # "none" /\ (app.obs = app.gen => app.shown = app.release)

\* Only others uninstall.
Uninstalling == app.release = "other" => app.present /\ others > 0

Active(o) == ops[o].status \in {"queued", "running"}

\* How the App stands to the operation of an attempt that waits.
Fits(op) ==
  /\ op.status # "none"
  /\ op.status = "queued" =>
       /\ op.upgrade = upgraded /\ app.obs = app.gen
       /\ upgraded => baseline \in {-1, app.obs}
       /\ ~upgraded => ~app.present
  /\ op.status = "refused" => ~app.present
  /\ op.status = "running" => app.present /\ app.by = attempt /\ app.release = "pending"
  /\ op.status \in {"deployed", "failed"} =>
       app.present /\ app.by = attempt /\ app.release = op.status

\* With nobody else about only a waiting attempt has an operation in progress, and
\* another begins with everything observed.
Alone ==
  /\ app.release # "other"
  /\ \A o \in Ops : Active(o) => o = attempt /\ pc = "poll"
  /\ pc \notin {"poll", "attach", "success"} => app.obs = app.gen
  /\ pc = "post" /\ ~upgraded => ~app.present
  /\ pc = "poll" => Fits(ops[attempt])

IInv == TypeOK /\ Begun /\ Reflects /\ Uninstalling /\ (setting = "prompt" => Alone)

-----------------------------------------------------------------------------
(* Its preservation. *)

Wizards == Begin \/ EnsureNamespace \/ CheckApp \/ Post \/ PostRefused \/ Poll \/ Attach
             \/ PostUnanswered \/ Timeout

\* What the wizard does leaves the App alone, and what Rancher and others do the attempt.
LEMMA WizardLeavesApp == Wizards => UNCHANGED <<app, setting, others>>
  BY DEF Wizards, Begin, EnsureNamespace, CheckApp, Post, PostRefused, Poll, Attach,
         PostUnanswered, Timeout

LEMMA NumbersAreOps ==
  /\ Attempts \subseteq Ops
  /\ \A n \in 1 .. MaxOthers : MaxAttempts + n \in Ops
  BY BoundsAssumption DEF Attempts, Ops

LEMMA TypeOfWizard ==
  ASSUME TypeOK, Begun, Wizards
  PROVE  TypeOK' /\ Begun'
  <1> USE BoundsAssumption DEF TypeOK, Begun, Labels, Attempts
  <1>1. CASE Begin
    BY <1>1 DEF Begin
  <1>2. CASE EnsureNamespace
    BY <1>2 DEF EnsureNamespace
  <1>3. CASE CheckApp
    BY <1>3 DEF CheckApp, AppType
  <1>4. CASE PostRefused
    BY <1>4 DEF PostRefused
  <1>5. CASE Timeout
    BY <1>5 DEF Timeout
  <1>6. CASE Attach
    BY <1>6 DEF Attach
  <1>7. CASE Poll
    <2>1. app.obs \in Nat
      BY DEF AppType
    <2> QED BY <1>7, <2>1 DEF Poll
  <1>8. CASE Post \/ PostUnanswered
    <2>1. pc = "post" /\ attempt \in Ops /\ Queued(attempt, upgraded)
      BY <1>8, NumbersAreOps DEF Post, PostUnanswered
    <2>2. ops' \in [Ops -> [status : OpStatus, upgrade : BOOLEAN]]
      BY <2>1 DEF Queued, OpStatus
    <2>3. /\ UNCHANGED <<setting, mode, attempt, upgraded, app, others>>
          /\ pc' \in {"poll", "failed"} /\ baseline' \in {-1, baseline}
      BY <1>8 DEF Post, PostUnanswered
    <2>4. attempt \in 1 .. MaxAttempts
      BY <2>1
    <2> QED BY <2>2, <2>3, <2>4
  <1> QED BY <1>1, <1>2, <1>3, <1>4, <1>5, <1>6, <1>7, <1>8 DEF Wizards

\* The App is a record of its parts.
LEMMA AppParts ==
  ASSUME TypeOK
  PROVE  /\ app = [present |-> app.present, gen |-> app.gen, obs |-> app.obs, by |-> app.by,
                   release |-> app.release, shown |-> app.shown]
         /\ app.present \in BOOLEAN /\ app.by \in Ops \cup {0}
         /\ app.gen \in Nat /\ app.obs \in Nat /\ app.obs <= app.gen
         /\ app.release \in States /\ app.shown \in States
  BY DEF TypeOK, AppType

\* What each step of helm makes of the App.
LEMMA AppStarted ==
  ASSUME TypeOK, NEW o \in Ops, HelmStarts(o)
  PROVE  \/ UNCHANGED app
         \/ app' = [present |-> TRUE, gen |-> app.gen + 1, obs |-> app.obs, by |-> o,
                    release |-> "pending", shown |-> app.shown]
  BY AppParts DEF HelmStarts

LEMMA AppEnded ==
  ASSUME TypeOK, NEW o \in Ops, NEW status, HelmEnds(o, status)
  PROVE  app' = [present |-> app.present, gen |-> app.gen + 1, obs |-> app.obs, by |-> app.by,
                 release |-> status, shown |-> app.shown]
  BY AppParts DEF HelmEnds

LEMMA AppObserved ==
  ASSUME TypeOK, Observe
  PROVE  app' = [present |-> app.present, gen |-> app.gen, obs |-> app.gen, by |-> app.by,
                 release |-> app.release, shown |-> app.release]
  BY AppParts DEF Observe

LEMMA TypeOfHelm ==
  ASSUME TypeOK, Helm
  PROVE  TypeOK'
  <1> USE DEF TypeOK, States
  <1>1. ASSUME NEW o \in Ops, HelmStarts(o) PROVE TypeOK'
    <2>1. o \in Ops \cup {0} /\ app.gen + 1 \in Nat /\ app.obs <= app.gen + 1
      BY DEF AppType
    <2>2. app' \in AppType /\ app'.obs <= app'.gen
      BY <1>1, <2>1 DEF HelmStarts, AppType
    <2>3. ops' \in [Ops -> [status : OpStatus, upgrade : BOOLEAN]]
      BY <1>1 DEF HelmStarts, OpStatus
    <2> QED BY <1>1, <2>2, <2>3 DEF HelmStarts
  <1>2. ASSUME NEW o \in Ops, NEW status \in {"deployed", "failed"}, HelmEnds(o, status)
        PROVE  TypeOK'
    <2>1. app.gen + 1 \in Nat /\ app.obs <= app.gen + 1
      BY DEF AppType
    <2>2. app' \in AppType /\ app'.obs <= app'.gen
      BY <1>2, <2>1 DEF HelmEnds, AppType
    <2>3. ops' \in [Ops -> [status : OpStatus, upgrade : BOOLEAN]]
      BY <1>2 DEF HelmEnds, OpStatus
    <2> QED BY <1>2, <2>2, <2>3 DEF HelmEnds
  <1>3. CASE Observe
    <2>2. app' \in AppType /\ app'.obs = app'.gen /\ app'.gen \in Nat
      BY <1>3, AppObserved, AppParts DEF AppType
    <2>3. app'.obs <= app'.gen
      BY <2>2
    <2> QED BY <1>3, <2>2, <2>3 DEF Observe
  <1> QED BY <1>1, <1>2, <1>3 DEF Helm

LEMMA AppUninstalled ==
  ASSUME TypeOK, OtherUninstalls
  PROVE  app' = [present |-> app.present, gen |-> app.gen + 1, obs |-> app.obs, by |-> app.by,
                 release |-> "other", shown |-> app.shown]
  BY AppParts DEF OtherUninstalls

LEMMA TypeOfOthers ==
  ASSUME TypeOK, OtherPosts \/ OtherUninstalls \/ OtherUninstalled
  PROVE  TypeOK'
  <1> USE BoundsAssumption DEF TypeOK
  <1>1. CASE OtherPosts
    <2>1. others' \in 1 .. MaxOthers
      BY <1>1 DEF OtherPosts
    <2>2. MaxAttempts + others' \in Ops
      BY <2>1, NumbersAreOps
    <2>3. ops' \in [Ops -> [status : OpStatus, upgrade : BOOLEAN]]
      BY <1>1, <2>2 DEF OtherPosts, Queued, OpStatus, AppType
    <2> QED BY <1>1, <2>1, <2>3 DEF OtherPosts
  <1>2. CASE OtherUninstalls
    <2>1. app' \in AppType /\ app'.obs <= app'.gen
      BY <1>2, AppUninstalled, AppParts DEF AppType, States
    <2> QED BY <1>2, <2>1 DEF OtherUninstalls
  <1>3. CASE OtherUninstalled
    BY <1>3 DEF OtherUninstalled, NoApp, AppType, States
  <1> QED BY <1>1, <1>2, <1>3

LEMMA TypeStep == TypeOK /\ Begun /\ [Next]_vars => TypeOK' /\ Begun'
  <1> SUFFICES ASSUME TypeOK, Begun, [Next]_vars PROVE TypeOK' /\ Begun'
    OBVIOUS
  <1>1. CASE Wizards
    BY <1>1, TypeOfWizard
  <1>2. ASSUME Helm \/ OtherPosts \/ OtherUninstalls \/ OtherUninstalled PROVE TypeOK' /\ UNCHANGED <<pc, attempt>>
    <2>1. UNCHANGED <<pc, attempt>>
      BY <1>2 DEF Helm, HelmStarts, HelmEnds, Observe, OtherPosts, OtherUninstalls, OtherUninstalled
    <2> QED BY <1>2, <2>1, TypeOfHelm, TypeOfOthers
  <1>3. CASE UNCHANGED vars
    BY <1>3 DEF vars, TypeOK, Begun
  <1> QED BY <1>1, <1>2, <1>3 DEF Next, Wizard, Wizards, Begun

LEMMA ReflectsStep == TypeOK /\ Reflects /\ [Next]_vars => Reflects'
  <1> SUFFICES ASSUME TypeOK, Reflects, [Next]_vars PROVE Reflects'
    OBVIOUS
  <1>1. CASE UNCHANGED app
    BY <1>1 DEF Reflects
  <1>2. ASSUME NEW o \in Ops, HelmStarts(o) PROVE Reflects'
    BY <1>2, AppStarted, AppParts DEF Reflects
  <1>3. ASSUME NEW o \in Ops, NEW status \in {"deployed", "failed"}, HelmEnds(o, status)
        PROVE  Reflects'
    BY <1>3, AppEnded, AppParts DEF Reflects
  <1>4. CASE Observe
    BY <1>4, AppObserved, AppParts DEF Reflects
  <1>5. CASE OtherUninstalls
    BY <1>5, AppUninstalled, AppParts DEF Reflects
  <1>7. CASE OtherUninstalled
    BY <1>7 DEF OtherUninstalled, NoApp, Reflects
  <1>6. Wizards \/ OtherPosts \/ UNCHANGED vars => UNCHANGED app
    BY WizardLeavesApp DEF OtherPosts, vars
  <1> QED BY <1>1, <1>2, <1>3, <1>4, <1>5, <1>6, <1>7 DEF Next, Wizard, Wizards, Helm

LEMMA UninstallingStep == TypeOK /\ Uninstalling /\ [Next]_vars => Uninstalling'
  <1> SUFFICES ASSUME TypeOK, Uninstalling, [Next]_vars PROVE Uninstalling'
    OBVIOUS
  <1>1. ASSUME NEW o \in Ops, HelmStarts(o) PROVE Uninstalling'
    BY <1>1, AppStarted DEF HelmStarts, Uninstalling
  <1>2. ASSUME NEW o \in Ops, NEW status \in {"deployed", "failed"}, HelmEnds(o, status)
        PROVE  Uninstalling'
    BY <1>2, AppEnded DEF Uninstalling
  <1>3. CASE Observe
    BY <1>3, AppObserved DEF Observe, Uninstalling
  <1>4. CASE OtherPosts
    BY <1>4 DEF OtherPosts, Uninstalling, TypeOK
  <1>5. CASE OtherUninstalls
    <2>1. app.present /\ others \in Nat /\ others' = others + 1
      BY <1>5 DEF OtherUninstalls, TypeOK
    <2> QED BY <1>5, <2>1, AppUninstalled DEF Uninstalling
  <1>6. CASE OtherUninstalled
    BY <1>6 DEF OtherUninstalled, NoApp, Uninstalling
  <1>7. Wizards \/ UNCHANGED vars => Uninstalling'
    BY WizardLeavesApp DEF vars, Uninstalling
  <1> QED BY <1>1, <1>2, <1>3, <1>4, <1>5, <1>6, <1>7 DEF Next, Wizard, Wizards, Helm

\* With nobody else about: what the attempt does.
LEMMA AloneWizard ==
  ASSUME TypeOK, Begun, Reflects, Alone, Wizard \/ (Timeout /\ Unnoticed)
  PROVE  Alone'
  <1>1. app' = app /\ (~Post => ops' = ops)
    BY WizardLeavesApp DEF Wizard, Wizards, Begin, EnsureNamespace, CheckApp, Post, PostRefused, Poll,
                           Attach, Timeout
  <1>2. CASE Begin
    BY <1>1, <1>2 DEF Begin, Post, Alone, Active
  <1>3. CASE EnsureNamespace
    BY <1>1, <1>3 DEF EnsureNamespace, Post, Alone, Active, TypeOK
  <1>4. CASE CheckApp
    BY <1>1, <1>4 DEF CheckApp, Post, Alone, Active
  <1>5. CASE PostRefused
    BY <1>1, <1>5 DEF PostRefused, Alone, Active
  <1>6. CASE Attach
    BY <1>1, <1>6 DEF Attach, Post, Alone, Active
  <1>7. CASE Timeout /\ Unnoticed
    <2>1. \A o \in Ops : ~Active(o)
      BY <1>7 DEF Unnoticed, Alone, Active
    <2> QED BY <1>1, <1>7, <2>1 DEF Timeout, Unnoticed, Alone, Active, Post
  <1>8. CASE Post
    <2>1. attempt \in Ops /\ \A o \in Ops : ~Active(o)
      BY <1>8, NumbersAreOps DEF Post, Begun, Alone
    <2>2. ops'[attempt] = [status |-> "queued", upgrade |-> upgraded]
          /\ \A o \in Ops : o # attempt => ops'[o] = ops[o]
      BY <1>8, <2>1 DEF Post, Queued, TypeOK
    <2>3. Fits(ops[attempt])'
      BY <1>1, <1>8, <2>2 DEF Post, Fits, Alone
    <2> QED BY <1>1, <1>8, <2>1, <2>2, <2>3 DEF Post, Alone, Active
  <1>9. CASE Poll
    <2>1. ops' = ops /\ attempt' = attempt /\ upgraded' = upgraded /\ pc = "poll"
      BY <1>1, <1>9 DEF Poll, Post
    <2>2. CASE pc' = "poll"
      <3>1. baseline' \in {baseline, app.obs}
        BY <1>9 DEF Poll
      <3> QED BY <1>1, <2>1, <2>2, <3>1 DEF Alone, Active, Fits
    <2>3. CASE pc' # "poll"
      <3>1. ~Undecided(baseline') /\ app.present
            /\ baseline' = IF baseline < 0 THEN app.obs ELSE baseline
        BY <1>9, <2>3 DEF Poll
      <3>2. app.obs = app.gen /\ app.shown = app.release /\ app.release # "pending"
        BY <3>1, AppParts DEF Undecided, Reflects
      <3>3. ops[attempt].status # "running"
        BY <2>1, <3>2 DEF Alone, Fits
      <3>4. ops[attempt].status # "queued"
        <4> SUFFICES ASSUME ops[attempt].status = "queued" PROVE FALSE
          OBVIOUS
        <4>1. upgraded /\ baseline \in {-1, app.obs}
          BY <2>1, <3>1 DEF Alone, Fits, TypeOK
        <4>2. baseline' = app.obs
          BY <3>1, <4>1, AppParts
        <4> QED BY <3>1, <4>1, <4>2, AppParts DEF Undecided, Stale
      <3>5. \A o \in Ops : ~Active(o)
        BY <3>3, <3>4 DEF Alone, Active
      <3>6. pc' \in {"attach", "failed"}
        BY <1>9, <2>3 DEF Poll
      <3> QED BY <1>1, <2>1, <3>2, <3>5, <3>6 DEF Alone, Active
    <2> QED BY <2>2, <2>3
  <1> QED BY <1>2, <1>3, <1>4, <1>5, <1>6, <1>7, <1>8, <1>9 DEF Wizard

\* ... and what helm does with its operation.
LEMMA AloneHelm ==
  ASSUME TypeOK, Begun, Reflects, Alone, Helm
  PROVE  Alone'
  <1>1. UNCHANGED <<pc, attempt, upgraded, baseline>>
    BY DEF Helm, HelmStarts, HelmEnds, Observe
  <1>2. ASSUME NEW o \in Ops, HelmStarts(o) PROVE Alone'
    <2>1. o = attempt /\ pc = "poll" /\ ~Running
      BY <1>2 DEF HelmStarts, Alone, Active, Running
    <2>2. ops[attempt].status = "queued" /\ ops[attempt].upgrade = upgraded /\ (~upgraded => ~app.present)
      BY <1>2, <2>1 DEF HelmStarts, Alone, Fits
    <2>3. \A p \in Ops : p # attempt => ops'[p] = ops[p]
      BY <1>2, <2>1 DEF HelmStarts, TypeOK
    <2>4. CASE app.present # upgraded
      <3>1. ~app.present /\ app' = app /\ ops'[attempt].status = "refused"
        BY <1>2, <2>1, <2>2, <2>4 DEF HelmStarts, TypeOK
      <3> QED BY <1>1, <2>1, <2>3, <3>1 DEF Alone, Active, Fits
    <2>5. CASE app.present = upgraded
      <3>1. /\ ops'[attempt].status = "running"
            /\ app' = [app EXCEPT !.present = TRUE, !.gen = @ + 1, !.release = "pending", !.by = attempt]
        BY <1>2, <2>1, <2>2, <2>5 DEF HelmStarts, TypeOK, Alone
      <3>2. app'.present /\ app'.release = "pending" /\ app'.by = attempt
        BY <3>1, AppParts
      <3> QED BY <1>1, <2>1, <2>3, <3>1, <3>2 DEF Alone, Active, Fits
    <2> QED BY <2>4, <2>5
  <1>3. ASSUME NEW o \in Ops, NEW status \in {"deployed", "failed"}, HelmEnds(o, status) PROVE Alone'
    <2>1. o = attempt /\ pc = "poll"
      BY <1>3 DEF HelmEnds, Alone, Active
    <2>2. ops[attempt].status = "running" /\ app.present /\ app.by = attempt
      BY <1>3, <2>1 DEF HelmEnds, Alone, Fits
    <2>3. ops'[attempt].status = status /\ \A p \in Ops : p # attempt => ops'[p] = ops[p]
      BY <1>3, <2>1 DEF HelmEnds, TypeOK
    <2>4. app'.present /\ app'.by = attempt /\ app'.release = status
      BY <1>3, <2>2, AppEnded
    <2> QED BY <1>1, <2>1, <2>3, <2>4 DEF Alone, Active, Fits
  <1>4. CASE Observe
    <2>1. ops' = ops /\ app.obs # app.gen
      BY <1>4, AppParts DEF Observe
    <2>2. /\ app'.present = app.present /\ app'.by = app.by /\ app'.release = app.release
          /\ app'.obs = app'.gen
      BY <1>4, AppObserved
    <2>3. pc = "poll" => ops[attempt].status # "queued"
      BY <2>1 DEF Alone, Fits
    <2> QED BY <1>1, <2>1, <2>2, <2>3 DEF Alone, Active, Fits
  <1> QED BY <1>2, <1>3, <1>4 DEF Helm

LEMMA Step == IInv /\ [Next]_vars => IInv'
  <1> SUFFICES ASSUME IInv, [Next]_vars PROVE IInv'
    OBVIOUS
  <1>1. TypeOK' /\ Begun' /\ Reflects' /\ Uninstalling'
    BY TypeStep, ReflectsStep, UninstallingStep DEF IInv
  <1>2. setting' = setting
    BY WizardLeavesApp DEF Next, Wizard, Wizards, Helm, HelmStarts, HelmEnds, Observe, OtherPosts,
                           OtherUninstalls, OtherUninstalled, vars
  <1>3. ASSUME setting = "prompt" PROVE Alone'
    <2>1. CASE Next
      BY <1>3, <2>1, AloneWizard, AloneHelm DEF Next, IInv
    <2>2. CASE UNCHANGED vars
      BY <1>3, <2>2 DEF vars, IInv, Alone, Active, Fits
    <2> QED BY <2>1, <2>2
  <1> QED BY <1>1, <1>2, <1>3 DEF IInv

LEMMA Start == Init => IInv
  <1> SUFFICES ASSUME Init PROVE IInv
    OBVIOUS
  <1>1. app \in AppType /\ app.obs <= app.gen
    <2>1. CASE app = NoApp
      BY <2>1 DEF NoApp, AppType, States
    <2>2. CASE app = [present |-> TRUE, gen |-> 1, obs |-> 1, by |-> 0,
                      release |-> "deployed", shown |-> "deployed"]
      BY <2>2 DEF AppType, States
    <2> QED BY <2>1, <2>2 DEF Init
  <1>2. ops \in [Ops -> [status : OpStatus, upgrade : BOOLEAN]]
    BY DEF Init, OpStatus
  <1>3. attempt \in 0..MaxAttempts /\ others \in 0..MaxOthers
    BY BoundsAssumption DEF Init
  <1>4. baseline \in Int /\ baseline >= -1
    BY DEF Init
  <1>5. upgraded \in BOOLEAN
    BY DEF Init
  <1>6. TypeOK
    BY <1>1, <1>2, <1>3, <1>4, <1>5 DEF Init, TypeOK, Labels
  <1>7. Begun /\ Reflects /\ Uninstalling
    BY DEF Init, NoApp, Begun, Reflects, Uninstalling
  <1>8. Alone
    BY DEF Init, Alone, Active, NoApp
  <1> QED BY <1>6, <1>7, <1>8 DEF IInv

LEMMA Invariance == Spec => []IInv
  BY Start, Step, PTL DEF Spec

-----------------------------------------------------------------------------
(* What follows from it. *)

(***************************************************************************)
(* Every variable keeps its type.                                          *)
(***************************************************************************)
THEOREM TypeCorrect == Spec => []TypeOK
  BY Invariance, PTL DEF IInv

\* What a wait that ends has read.
LEMMA EndReads ==
  ASSUME TypeOK, Reflects, Poll, pc' # "poll"
  PROVE  /\ app.present /\ app.obs = app.gen /\ ~Stale(baseline')
         /\ pc' = "attach" => app.release \in {"deployed", "other"}
         /\ pc' = "failed" => app.release = "failed"
         /\ app.release \in {"deployed", "failed", "other"}
  <1>1. app.present /\ ~Undecided(baseline')
        /\ pc' = IF app.shown = "failed" THEN "failed" ELSE "attach"
    BY DEF Poll
  <1>2. app.obs = app.gen /\ ~Stale(baseline') /\ app.shown # "pending"
    BY <1>1, AppParts DEF Undecided
  <1>3. app.release = app.shown /\ app.release # "none"
    BY <1>1, <1>2 DEF Reflects
  <1> QED BY <1>1, <1>2, <1>3, AppParts DEF States

(***************************************************************************)
(* A wait that ends well ends on an App whose release is neither in        *)
(* progress nor failed, and deployed unless another user is uninstalling   *)
(* it, whatever others do and helm does (waitForAppInstall).               *)
(***************************************************************************)
THEOREM WaitIsCurrent == Spec => SuccessIsCurrent
  <1> DEFINE Current == app.release = "deployed" \/ (app.release = "other" /\ app.present /\ others > 0)
  <1>1. ASSUME IInv, Next, pc = "poll", pc' = "attach" PROVE Current
    <2>1. Poll
      BY <1>1 DEF Next, Wizard, Helm, Begin, EnsureNamespace, CheckApp, Post, PostRefused, Attach, Timeout,
                  PostUnanswered, HelmStarts, HelmEnds, Observe, OtherPosts, OtherUninstalls,
                  OtherUninstalled
    <2> QED BY <1>1, <2>1, EndReads DEF IInv, Uninstalling
  <1>2. IInv /\ [Next]_vars => [pc = "poll" /\ pc' = "attach" => Current]_vars
    BY <1>1
  <1> QED BY <1>2, Invariance, PTL DEF Spec, SuccessIsCurrent

\* What Poll has read when it ends a wait that nobody disturbs.
LEMMA PollIsOwn ==
  ASSUME IInv, setting = "prompt", Poll, pc' # "poll"
  PROVE  /\ app.by = attempt
         /\ pc' = "attach" => ops[attempt].status = "deployed"
         /\ pc' = "failed" => ops[attempt].status = "failed"
  <1>1. Fits(ops[attempt]) /\ app.present /\ app.release \in {"deployed", "failed"}
    BY EndReads DEF IInv, Alone, Poll
  <1>2. ops[attempt].status # "queued"
    <2> SUFFICES ASSUME ops[attempt].status = "queued" PROVE FALSE
      OBVIOUS
    <2>1. upgraded /\ baseline \in {-1, app.obs}
      BY <1>1 DEF Fits, IInv, TypeOK
    <2>2. baseline' = app.obs
      BY <2>1, AppParts DEF Poll, IInv
    <2> QED BY <2>1, <2>2, EndReads, AppParts DEF Stale, IInv
  <1>3. attempt \in Ops
    BY NumbersAreOps DEF IInv, Begun, Poll
  <1>4. ops[attempt].status \in {"deployed", "failed"}
    <2>1. ops[attempt].status \in OpStatus
      BY <1>3 DEF IInv, TypeOK
    <2>2. ops[attempt].status \notin {"none", "running", "refused"}
      BY <1>1 DEF Fits
    <2> QED BY <1>2, <2>1, <2>2 DEF OpStatus
  <1> QED BY <1>1, <1>4, EndReads DEF Fits, IInv

\* What is so when an undisturbed wait is timed out.
LEMMA TimeoutIsOwn ==
  ASSUME IInv, setting = "prompt", Timeout, Unnoticed
  PROVE  ops[attempt].status \in {"failed", "refused"} \/ Stale(baseline)
  <1>1. Fits(ops[attempt]) /\ attempt \in Ops
    BY NumbersAreOps DEF IInv, Alone, Timeout, Begun
  <1>2. ops[attempt].status \in {"deployed", "failed", "refused"}
    BY <1>1 DEF Unnoticed, IInv, TypeOK, OpStatus, Fits
  <1>3. ASSUME ops[attempt].status = "deployed" PROVE Stale(baseline)
    <2>1. app.present /\ app.release = "deployed"
      BY <1>1, <1>3 DEF Fits
    <2>2. app.obs = app.gen /\ app.shown = "deployed" /\ Undecided(baseline)
      BY <2>1 DEF Unnoticed, IInv, Reflects
    <2>3. ~(app.obs < app.gen)
      BY <2>2, AppParts DEF IInv
    <2> QED BY <2>2, <2>3 DEF Undecided
  <1> QED BY <1>2, <1>3

(***************************************************************************)
(* When nobody else acts and helm is done before each wait gives up, every *)
(* attempt, first or again, is told its own operation's result, whether    *)
(* the wait ends by what it reads or by its timeout, but for an upgrade    *)
(* whose result the first look already shows.                              *)
(***************************************************************************)
THEOREM VerdictIsOwn == Spec => OwnVerdict
  <1>1. ASSUME IInv, Next, setting = "prompt", pc = "poll", pc' # "poll"
        PROVE  Poll \/ (Timeout /\ Unnoticed)
    BY <1>1 DEF Next, Wizard, Helm, Begin, EnsureNamespace, CheckApp, Post, PostRefused, Attach,
                HelmStarts, HelmEnds, Observe
  <1>2. ASSUME IInv, Next, setting = "prompt" PROVE OwnEnd
    <2>1. pc = "poll" /\ pc' = "attach" => Poll
      BY <1>1, <1>2 DEF Timeout
    <2> QED BY <1>2, <2>1, PollIsOwn DEF OwnEnd
  <1>3. ASSUME IInv, Next, setting = "prompt" PROVE ToldFailed
    <2>1. CASE pc = "poll" /\ pc' = "failed"
      <3>1. CASE Poll
        BY <1>3, <2>1, <3>1, PollIsOwn DEF ToldFailed
      <3>2. CASE Timeout /\ Unnoticed
        <4>1. ops[attempt].status \in {"failed", "refused"} \/ Stale(baseline)
          BY <1>3, <3>2, TimeoutIsOwn
        <4> QED BY <4>1 DEF ToldFailed
      <3> QED BY <1>1, <1>3, <2>1, <3>1, <3>2
    <2> QED BY <2>1 DEF ToldFailed
  <1>4. IInv /\ [Next]_vars => [setting = "prompt" => OwnEnd /\ ToldFailed]_vars
    BY <1>2, <1>3
  <1> QED BY <1>4, Invariance, PTL DEF Spec, OwnVerdict

-----------------------------------------------------------------------------
(* The refinement. *)

Middle == {"namespace", "check", "post", "poll", "attach"}

LEMMA AttemptMoves ==
  ASSUME TypeOK, Next, pc' # pc
  PROVE  \/ pc \in {"idle", "failed"} /\ pc' = "namespace"
         \/ pc \in Middle /\ pc' \in Middle \cup {"success", "failed"}
  BY DEF Next, Wizard, Helm, Begin, EnsureNamespace, CheckApp, Post, PostRefused, Poll, Attach, Timeout,
         PostUnanswered, HelmStarts, HelmEnds, Observe, OtherPosts, OtherUninstalls, OtherUninstalled,
         Middle

Modal == [c \in {"cluster"} |-> JobOf(c)]

LEMMA StepIsJob == IInv /\ [Next]_vars => [Job!Next]_Modal
  <1> SUFFICES ASSUME IInv, [Next]_vars, Modal' # Modal PROVE Job!Next
    OBVIOUS
  <1>1. pc' # pc /\ Next
    BY DEF Modal, JobOf, vars
  <1>2. CASE pc = "idle" /\ pc' = "namespace"
    <2>1. Job!Request({"cluster"}, {"cluster"})
      BY <1>2 DEF Job!Request, JobOf
    <2> QED BY <2>1 DEF Job!Next
  <1>3. CASE pc = "failed" /\ pc' = "namespace"
    <2>1. Job!Retry({"cluster"}, {"cluster"})
      BY <1>3 DEF Job!Retry, JobOf
    <2> QED BY <2>1 DEF Job!Next
  <1>4. CASE pc \in Middle /\ pc' \in {"success", "failed"}
    <2>1. Job!Finish("cluster", pc', {})
      BY <1>4 DEF Job!Finish, JobOf, Middle
    <2> QED BY <1>4, <2>1 DEF Job!Next, Job!JobStatus
  <1>5. CASE pc \in Middle /\ pc' \in Middle
    BY <1>5 DEF Modal, JobOf, Middle
  <1> QED BY <1>1, <1>2, <1>3, <1>4, <1>5, AttemptMoves DEF IInv

(***************************************************************************)
(* The attempts on one cluster implement InstallJobs, the promise of       *)
(* WizardInstall: each ends once, and only a failed one is followed by     *)
(* another (installToCluster and upgradeToCluster).                        *)
(***************************************************************************)
THEOREM AttemptsImplementJob == Spec => ImplementsJob
  <1>1. Init => Job!Init
    BY DEF Init, Job!Init, JobOf
  <1> QED BY <1>1, StepIsJob, Invariance, PTL DEF Spec, ImplementsJob, Job!Spec, Modal
===============================================================================
