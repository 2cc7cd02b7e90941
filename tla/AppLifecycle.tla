----------------------------- MODULE AppLifecycle -----------------------------
(***************************************************************************)
(* The class AppLifecycleService (services/app-lifecycle-service.ts), used *)
(* as its comment shows: createOrUpgradeApp, waitForAppInstall, deleteApp, *)
(* one after the other, again after a failure or a delete.  The comment's  *)
(* caller does not tell the wait what createOrUpgradeApp returned.  No     *)
(* page of the extension calls the class.  Rancher, helm and other users   *)
(* are those of AppInstall; an uninstall too runs after its reply.         *)
(***************************************************************************)
EXTENDS Integers

CONSTANTS MaxAttempts, MaxOthers

VARIABLES setting, mode, pc, attempt, upgraded, baseline, app, ops, others,  \* as in AppInstall
    heeds,      \* the caller passes the wait what createOrUpgradeApp returned
    deleting,   \* an uninstall was accepted and is not over
    alone       \* history: nothing else was under way when the call began, or since

shared == <<setting, mode, pc, attempt, upgraded, baseline, app, ops, others>>
vars == <<shared, heeds, deleting, alone>>

A == INSTANCE AppInstall

TypeOK ==
    /\ mode \in {"install", "manage"}
    /\ pc \in {"idle", "check", "post", "poll", "attach", "success", "deleting", "failed"}
    /\ attempt \in 0 .. MaxAttempts /\ others \in 0 .. MaxOthers
    /\ baseline \in Int /\ baseline >= -1
    /\ app \in A!AppType /\ app.obs <= app.gen
    /\ \A o \in A!Ops : ops[o].status \in A!OpStatus
    /\ {upgraded, heeds, deleting, alone} \subseteq BOOLEAN

-----------------------------------------------------------------------------
(* createOrUpgradeApp, which is told in mode what the caller prefers *)

Quiet ==
    /\ ~deleting /\ app.release # "other" /\ app.obs = app.gen
    /\ \A o \in A!Ops : ops[o].status \notin {"queued", "running"}

createOrUpgradeApp ==
    /\ pc \in {"idle", "failed"} /\ attempt < MaxAttempts
    /\ attempt' = attempt + 1
    /\ pc' = IF mode = "install" THEN "check" ELSE "post"
    /\ upgraded' = (mode = "manage")
    /\ alone' = Quiet
    /\ UNCHANGED <<setting, mode, baseline, app, ops, others, heeds, deleting>>

CheckApp == A!CheckApp /\ UNCHANGED <<heeds, deleting, alone>>

Post == A!Post /\ UNCHANGED <<heeds, deleting, alone>>

PostFails == (A!PostRefused \/ A!PostUnanswered) /\ UNCHANGED <<heeds, deleting, alone>>

-----------------------------------------------------------------------------
(* waitForAppInstall *)

Stale(first) == heeds /\ upgraded /\ app.obs <= first

\* Mutant: a status of any age counts.
UndecidedOfAny(first) == Stale(first) \/ app.shown = "pending"

Undecided(first) == app.obs < app.gen \/ Stale(first) \/ app.shown = "pending"

\* As in AppInstall, any state that is neither a failure nor transitional ends it well.
Poll ==
    /\ pc = "poll" /\ app.present
    /\ baseline' = IF baseline < 0 THEN app.obs ELSE baseline
    /\ pc' = IF Undecided(baseline') THEN "poll"
             ELSE IF app.shown = "failed" THEN "failed" ELSE "attach"
    /\ UNCHANGED <<setting, mode, attempt, upgraded, app, ops, others, heeds, deleting, alone>>

\* 90 seconds, where helm is given 600.
Timeout == A!Timeout /\ UNCHANGED <<heeds, deleting, alone>>

Return == A!Attach /\ UNCHANGED <<heeds, deleting, alone>>

-----------------------------------------------------------------------------
(* deleteApp *)

\* The uninstall is accepted, refused, or accepted without the answer getting through.
deleteApp ==
    /\ pc = "success"
    /\ pc' \in {"deleting", "failed"}
    /\ deleting' \in {TRUE, pc' = "deleting"}
    /\ UNCHANGED <<setting, mode, attempt, upgraded, baseline, app, ops, others, heeds, alone>>

\* After 5 seconds it returns, whether or not the uninstall has begun, or is over.
DeleteReturns ==
    /\ pc = "deleting" /\ pc' = "idle"
    /\ UNCHANGED <<setting, mode, attempt, upgraded, baseline, app, ops, others, heeds, deleting, alone>>

\* Helm begins to uninstall what is there, unless an operation runs.
UninstallStarts ==
    /\ deleting /\ ~A!Running /\ app.present /\ app.release # "other"
    /\ app' = [app EXCEPT !.gen = @ + 1, !.release = "other"]
    /\ UNCHANGED <<setting, mode, pc, attempt, upgraded, baseline, ops, others, heeds, deleting, alone>>

\* An uninstall is over, this one or another's, or finds nothing.
UninstallEnds ==
    /\ app.release = "other" \/ (deleting /\ ~app.present)
    /\ deleting' \in {deleting, FALSE}
    /\ app' = A!NoApp
    /\ UNCHANGED <<setting, mode, pc, attempt, upgraded, baseline, ops, others, heeds, alone>>

-----------------------------------------------------------------------------
Init == A!Init /\ setting = "shared" /\ heeds \in BOOLEAN /\ deleting = FALSE /\ alone = FALSE

Service == createOrUpgradeApp \/ CheckApp \/ Post \/ PostFails \/ Poll \/ Timeout \/ Return \/ deleteApp \/ DeleteReturns

Next ==
    \/ Service
    \/ UninstallStarts \/ UninstallEnds
    \/ A!Helm /\ UNCHANGED <<heeds, deleting, alone>>
    \/ (A!OtherPosts \/ A!OtherUninstalls) /\ alone' = FALSE /\ UNCHANGED <<heeds, deleting>>

Spec == Init /\ [][Next]_vars

\* A wait that ends well, however it is called and whoever acts, ends on a release that is
\* neither in progress nor failed, and that is deployed when nothing else was under way
\* from the call on, no uninstall of an earlier deleteApp either.  What such a wait reads
\* is then its own operation's result if, after an upgrade, the caller tells the wait so.
Sound ==
    /\ pc = "poll" /\ pc' = "attach" =>
         app.release = "deployed" \/ (app.release = "other" /\ app.present /\ ~alone)
    /\ alone /\ (heeds \/ ~upgraded) => A!OwnEnd
LifecycleSound == [][Sound]_vars
===============================================================================
