--------------------------- MODULE WizardInstall ---------------------------
(***************************************************************************)
(* The submission of the install and manage wizard (AppWizard.vue) and the *)
(* modal that follows it (InstallProgressModal.vue): one attempt per       *)
(* chosen cluster, run in pools of at most Limit, with the buttons that    *)
(* retry, give up or go on.  JavaScript runs one task at a time, so each   *)
(* action is the code from one await to the next: the end of an attempt,   *)
(* the start of its pool's next one and the pool's own end are one step.   *)
(* What an attempt does inside is module AppInstall; here it ends in       *)
(* success or failure.  The order of a queue is abstracted: it is the      *)
(* order in which the user happened to tick the clusters.                  *)
(***************************************************************************)
EXTENDS Naturals, FiniteSets

CONSTANTS
  Clusters,    \* the clusters Rancher manages
  Limit        \* INSTALL_CONCURRENCY

ASSUME ClustersAssumption == IsFiniteSet(Clusters)
ASSUME LimitAssumption == Limit \in Nat \ {0}

VARIABLES
  mode,        \* props.mode of this wizard
  view,        \* what the user looks at: the form, the modal, or another page
  complete,    \* the form has a repository, a chart and a version
  naming,      \* targets of a submission that awaits its clusters' names
  submitting,  \* submitting.value: disables the Install button
  progress,    \* installProgress: the status of every listed cluster, "none" of others
  pools        \* running calls of installWithConcurrencyLimit and upgradeSingleCluster

vars == <<mode, view, complete, naming, submitting, progress, pools>>

Status == {"none", "pending", "installing", "success", "failed"}

Pools == [queue : SUBSET Clusters, executing : SUBSET Clusters]

TypeOK ==
  /\ mode \in {"install", "manage"}
  /\ view \in {"form", "modal", "left"}
  /\ complete \in BOOLEAN
  /\ naming \in SUBSET Clusters
  /\ submitting \in BOOLEAN
  /\ progress \in [Clusters -> Status]
  /\ pools \in SUBSET Pools

Having(status) == {c \in Clusters : progress[c] = status}

Listed == {c \in Clusters : progress[c] # "none"}

-----------------------------------------------------------------------------
(* The modal's computed properties and the buttons they show. *)

AllSucceeded == Listed # {} /\ Having("success") = Listed
\* Mutant: failed so far, instead of failed everywhere.
AllFailedSoFar == Having("failed") # {} /\ Having("success") = {}

AllFailed == Listed # {} /\ Having("failed") = Listed

\* Mutant: off by one.
PartialFailureOfThree == Having("failed") # {} /\ Cardinality(Having("success")) > 1

PartialFailure == Having("failed") # {} /\ Having("success") # {}

Buttons ==
  IF view # "modal" THEN {}
  ELSE IF AllSucceeded THEN {"done"}
  ELSE IF AllFailed THEN {"cancel", "retry-all"}
  ELSE IF PartialFailure THEN {"retry-failed", "continue-anyway"} ELSE {}

-----------------------------------------------------------------------------
(* The loop of installWithConcurrencyLimit. *)

\* Mutant: the limit is compared with <=, one more than Limit is started.
StartsOfOneMore(queue, executing) ==
  {started \in SUBSET queue :
     \/ started = queue /\ Cardinality(executing) + Cardinality(queue) <= Limit + 1
     \/ Cardinality(executing) + Cardinality(started) = Limit + 1}

\* What the loop can start next: as many of queue as there is room for.
StartsOf(queue, executing) ==
  {started \in SUBSET queue :
     \/ started = queue /\ Cardinality(executing) + Cardinality(queue) <= Limit
     \/ Cardinality(executing) + Cardinality(started) = Limit}

\* The statuses once the clusters in started are installing.
Started(statuses, started) ==
  [c \in Clusters |-> IF c \in started THEN "installing" ELSE statuses[c]]

Pool(queue, executing) == [queue |-> queue, executing |-> executing]

\* A new pool for targets, whose statuses become pending and then, for some, installing.
RunPool(targets, statuses) ==
  \E started \in StartsOf(targets, {}) :
    /\ pools' = pools \cup {Pool(targets \ started, started)}
    /\ progress' = Started([c \in Clusters |-> IF c \in targets THEN "pending" ELSE statuses[c]], started)

\* A pool whose loop has ended returns to its caller.
PoolEnds(pool) == pool.queue = {} /\ pool.executing = {}

-----------------------------------------------------------------------------
Init ==
  /\ mode \in {"install", "manage"}
  /\ view = "form"
  /\ complete \in BOOLEAN
  /\ naming = {}
  /\ submitting = FALSE
  /\ progress = [c \in Clusters |-> "none"]
  /\ pools = {}

\* The user edits the form.
EditForm ==
  /\ view = "form"
  /\ complete' = ~complete
  /\ UNCHANGED <<mode, view, naming, submitting, progress, pools>>

\* submit with a form that lacks something: an error, and an early return.
SubmitIncomplete ==
  /\ view = "form" /\ ~submitting /\ ~complete
  /\ submitting' = TRUE
  /\ UNCHANGED <<mode, view, complete, naming, progress, pools>>

\* submit: the names of the clusters are looked up first.  An upgrade takes one cluster.
Submit(targets) ==
  /\ view = "form" /\ ~submitting /\ complete
  /\ targets # {}
  /\ mode = "manage" => Cardinality(targets) = 1
  /\ submitting' = TRUE
  /\ naming' = targets
  /\ UNCHANGED <<mode, view, complete, progress, pools>>

\* The names are there: the modal opens and the attempts begin.
NamesLoaded ==
  /\ naming # {}
  /\ RunPool(naming, [c \in Clusters |-> "none"])
  /\ view' = IF view = "form" THEN "modal" ELSE view
  /\ naming' = {}
  /\ UNCHANGED <<mode, complete, submitting>>

\* Mutant: a failure rejects the race, and with it the loop that feeds the pool.
AttemptEndsStops(pool, c, result) ==
  /\ c \in pool.executing
  /\ LET rest == pool.executing \ {c} IN
     \E started \in (IF result = "failed" THEN {{}} ELSE StartsOf(pool.queue, rest)) :
       LET left == Pool(IF result = "failed" THEN {} ELSE pool.queue \ started, rest \cup started) IN
       /\ progress' = Started([progress EXCEPT ![c] = result], started)
       /\ pools' = (pools \ {pool}) \cup (IF PoolEnds(left) THEN {} ELSE {left})
       /\ submitting' = (submitting /\ ~PoolEnds(left))
  /\ UNCHANGED <<mode, view, complete, naming>>

\* Mutant: a failure is recorded under a status the modal does not know.
AttemptEndsError(pool, c, result) ==
  /\ c \in pool.executing
  /\ LET rest == pool.executing \ {c} IN
     \E started \in StartsOf(pool.queue, rest) :
       LET left == Pool(pool.queue \ started, rest \cup started) IN
       /\ progress' = Started([progress EXCEPT ![c] = IF result = "failed" THEN "error" ELSE result], started)
       /\ pools' = (pools \ {pool}) \cup (IF PoolEnds(left) THEN {} ELSE {left})
       /\ submitting' = (submitting /\ ~PoolEnds(left))
  /\ UNCHANGED <<mode, view, complete, naming>>

\* An attempt of a pool ends; the loop starts what it has room for, or ends.
AttemptEnds(pool, c, result) ==
  /\ c \in pool.executing
  /\ LET rest == pool.executing \ {c} IN
     \E started \in StartsOf(pool.queue, rest) :
       LET left == Pool(pool.queue \ started, rest \cup started) IN
       /\ progress' = Started([progress EXCEPT ![c] = result], started)
       /\ pools' = (pools \ {pool}) \cup (IF PoolEnds(left) THEN {} ELSE {left})
       /\ submitting' = (submitting /\ ~PoolEnds(left))
  /\ UNCHANGED <<mode, view, complete, naming>>

-----------------------------------------------------------------------------
(* The modal's buttons, and the form's own Cancel. *)

\* Mutant: Retry Failed takes every listed cluster.
RetryEverything ==
  /\ Buttons \cap {"retry-all", "retry-failed"} # {}
  /\ RunPool(Listed, progress)
  /\ submitting' = TRUE
  /\ UNCHANGED <<mode, view, complete, naming>>

\* onProgressModalRetryAll and onProgressModalRetryFailed.
Retry ==
  /\ Buttons \cap {"retry-all", "retry-failed"} # {}
  /\ RunPool(IF "retry-all" \in Buttons THEN Listed ELSE Having("failed"), progress)
  /\ submitting' = TRUE
  /\ UNCHANGED <<mode, view, complete, naming>>

\* onProgressModalCancel.
CancelModal ==
  /\ "cancel" \in Buttons
  /\ view' = "form"
  /\ submitting' = FALSE
  /\ UNCHANGED <<mode, complete, naming, progress, pools>>

\* onProgressModalDone and onProgressModalContinueAnyway.
LeaveModal ==
  /\ Buttons \cap {"done", "continue-anyway"} # {}
  /\ view' = "left"
  /\ UNCHANGED <<mode, complete, naming, submitting, progress, pools>>

\* onWizardCancel: enabled whenever the form is shown.
CancelWizard ==
  /\ view = "form"
  /\ view' = "left"
  /\ UNCHANGED <<mode, complete, naming, submitting, progress, pools>>

Next ==
  \/ EditForm \/ SubmitIncomplete \/ NamesLoaded
  \/ \E targets \in SUBSET Clusters : Submit(targets)
  \/ \E pool \in pools, result \in {"success", "failed"} :
       \E c \in pool.executing : AttemptEnds(pool, c, result)
  \/ Retry \/ CancelModal \/ LeaveModal \/ CancelWizard

Spec == Init /\ [][Next]_vars

\* The waits of an install all have timeouts, so every attempt ends; names are looked up.
Fairness ==
  /\ WF_vars(NamesLoaded)
  /\ \A c \in Clusters : WF_vars(\E pool \in pools, result \in {"success", "failed"} :
                                  AttemptEnds(pool, c, result))

FairSpec == Spec /\ Fairness

-----------------------------------------------------------------------------
(***************************************************************************)
(* A cluster has one attempt at a time, whatever is retried while other    *)
(* attempts still run: no cluster is in two pools (or in one twice), what  *)
(* the modal shows of it is where it is, and a cluster shown as pending or *)
(* installing is in the hands of some pool.  Two attempts on one cluster   *)
(* would both post the release (installWithConcurrencyLimit, retries).     *)
(***************************************************************************)
OneAttempt ==
  /\ \A pool \in pools :
       /\ pool.queue \subseteq Having("pending")
       /\ pool.executing \subseteq Having("installing")
       /\ \A other \in pools \ {pool} :
            (pool.queue \cup pool.executing) \cap (other.queue \cup other.executing) = {}
  /\ \A c \in Having("pending") : \E pool \in pools : c \in pool.queue
  /\ \A c \in Having("installing") : \E pool \in pools : c \in pool.executing

(***************************************************************************)
(* A pool never has more than Limit attempts executing, and executes as    *)
(* many as it can while something waits (installWithConcurrencyLimit).     *)
(***************************************************************************)
PoolFull ==
  \A pool \in pools :
    /\ Cardinality(pool.executing) <= Limit
    /\ pool.queue # {} => Cardinality(pool.executing) = Limit

(***************************************************************************)
(* "Install to multiple clusters with concurrency limit" (AppWizard.vue,   *)
(* line 734), "Concurrency limit for parallel installations" (line 699):   *)
(* the wizard runs at most Limit attempts at once.                         *)
(***************************************************************************)
WithinLimit == Cardinality(Having("installing")) <= Limit

\* The pools and the buttons implement the promise made of each cluster.
Jobs == INSTANCE InstallJobs WITH jobs <- progress

(***************************************************************************)
(* Whatever the user retries and whenever, no cluster that succeeded is    *)
(* installed again and none is started while its attempt runs: every step  *)
(* is one of InstallJobs (AppWizard.vue, lines 699-859).                   *)
(***************************************************************************)
ImplementsJobs == Jobs!Spec

(***************************************************************************)
(* Every cluster that waits or installs ends in success or failure, also   *)
(* when the user has left the page (installWithConcurrencyLimit's loop).   *)
(***************************************************************************)
EveryAttemptEnds ==
  \A c \in Clusters : progress[c] \in {"pending", "installing"} ~> progress[c] \in {"success", "failed"}

(***************************************************************************)
(* The modal never locks the user in: it comes to offer a button, whatever *)
(* mix of results it ends with (InstallProgressModal.vue, lines 55-86).    *)
(***************************************************************************)
ModalOffersWayOut == view = "modal" ~> Buttons # {} \/ view # "modal"
=============================================================================
