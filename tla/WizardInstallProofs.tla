------------------------ MODULE WizardInstallProofs ------------------------
(***************************************************************************)
(* Theorems about the install wizard, for every set of clusters and every  *)
(* limit of a pool.                                                        *)
(***************************************************************************)
EXTENDS WizardInstall, FiniteSetTheorems, TLAPS

-----------------------------------------------------------------------------
(* The inductive invariant.  OneAttempt alone is not inductive: when the   *)
(* names of a new submission are there, the statuses of the previous one   *)
(* are dropped, so no pool may still be running (Quiet); that none is when *)
(* the modal is cancelled needs that no pool is empty (Busy).              *)

\* A pool that has ended is gone.
Busy == \A pool \in pools : ~PoolEnds(pool)

\* While the form is shown, or a submission looks names up, nothing runs or has succeeded.
Quiet == /\ view = "form" \/ naming # {} =>
              pools = {} /\ \A c \in Clusters : progress[c] \in {"none", "failed"}
         /\ view = "modal" => naming = {}

IInv == TypeOK /\ OneAttempt /\ Busy /\ Quiet

\* What a step of the loop starts was waiting in its queue.
LEMMA StartsSubset ==
  ASSUME NEW queue, NEW executing, NEW started \in StartsOf(queue, executing)
  PROVE  started \subseteq queue
  BY DEF StartsOf

\* With no pool at work, no listed cluster waits or installs.
LEMMA IdleStatuses ==
  ASSUME OneAttempt, pools = {}
  PROVE  Having("pending") = {} /\ Having("installing") = {}
  BY DEF OneAttempt

\* Everything that has failed is in no pool's hands.
LEMMA FailedIsFree ==
  ASSUME OneAttempt, NEW pool \in pools, NEW c \in pool.queue \cup pool.executing
  PROVE  c \in Clusters /\ progress[c] \in {"pending", "installing"}
  BY DEF OneAttempt, Having

\* When every listed cluster has failed, no pool is at work.
LEMMA AllFailedIdle ==
  ASSUME IInv, AllFailed
  PROVE  pools = {}
  <1> SUFFICES ASSUME NEW pool \in pools PROVE FALSE
    OBVIOUS
  <1>1. PICK c : c \in pool.queue \cup pool.executing
    BY DEF IInv, Busy, PoolEnds
  <1>2. c \in Clusters /\ progress[c] \in {"pending", "installing"}
    BY <1>1, FailedIsFree DEF IInv
  <1> QED BY <1>2 DEF AllFailed, Listed, Having

\* What a retry takes has failed.
LEMMA RetriedFailed ==
  ASSUME Buttons \cap {"retry-all", "retry-failed"} # {}
  PROVE  (IF "retry-all" \in Buttons THEN Listed ELSE Having("failed")) = Having("failed")
  BY DEF Buttons, AllFailed

-----------------------------------------------------------------------------
(* A new pool on clusters that are in nobody's hands preserves the         *)
(* invariant: statuses are the present ones, or none when nothing runs.    *)

LEMMA RunPoolPreserves ==
  ASSUME IInv, NEW targets \in SUBSET Clusters, targets # {},
         NEW statuses \in [Clusters -> Status], RunPool(targets, statuses),
         \/ statuses = progress /\ targets \subseteq Having("failed")
         \/ pools = {} /\ statuses = [c \in Clusters |-> "none"]
  PROVE  pools' \in SUBSET Pools /\ progress' \in [Clusters -> Status] /\ OneAttempt' /\ Busy'
  <1>1. PICK started \in StartsOf(targets, {}) :
          /\ pools' = pools \cup {Pool(targets \ started, started)}
          /\ progress' = Started([c \in Clusters |-> IF c \in targets THEN "pending" ELSE statuses[c]], started)
    BY DEF RunPool
  <1>2. started \subseteq targets
    BY StartsSubset
  <1> DEFINE new == Pool(targets \ started, started)
  <1>3. new.queue = targets \ started /\ new.executing = started /\ new \in Pools
    BY <1>2 DEF Pool, Pools
  <1>4. \A c \in Clusters : progress'[c] = IF c \in started THEN "installing"
                                           ELSE IF c \in targets THEN "pending" ELSE statuses[c]
    BY <1>1 DEF Started
  <1>5. pools' \in SUBSET Pools /\ progress' \in [Clusters -> Status]
    BY <1>1, <1>3, <1>2 DEF IInv, TypeOK, Started, Status
  <1>6. \A pool \in pools : (pool.queue \cup pool.executing) \cap targets = {}
    BY FailedIsFree DEF IInv, Having
  <1>7. \A pool \in pools : \A c \in pool.queue \cup pool.executing : progress'[c] = progress[c]
    BY <1>2, <1>4, <1>6, FailedIsFree DEF IInv
  <1>8. \A pool \in pools : /\ pool.queue \subseteq Having("pending")'
                            /\ pool.executing \subseteq Having("installing")'
    BY <1>7 DEF IInv, OneAttempt, Having
  <1>9. new.queue \subseteq Having("pending")' /\ new.executing \subseteq Having("installing")'
    BY <1>2, <1>3, <1>4 DEF Having
  <1>10. \A pool \in pools' : \A other \in pools' \ {pool} :
           (pool.queue \cup pool.executing) \cap (other.queue \cup other.executing) = {}
    <2>1. new.queue \cup new.executing = targets
      BY <1>2, <1>3
    <2> QED BY <1>1, <1>6, <2>1 DEF IInv, OneAttempt
  <1>11. \A c \in Clusters \ targets : statuses[c] \in {"pending", "installing"} => statuses[c] = progress[c]
    OBVIOUS
  <1>12. \A c \in Having("pending")' : \E pool \in pools' : c \in pool.queue
    BY <1>1, <1>3, <1>4, <1>11 DEF IInv, OneAttempt, Having
  <1>13. \A c \in Having("installing")' : \E pool \in pools' : c \in pool.executing
    BY <1>1, <1>3, <1>4, <1>11 DEF IInv, OneAttempt, Having
  <1>14. OneAttempt'
    BY <1>1, <1>8, <1>9, <1>10, <1>12, <1>13 DEF OneAttempt
  <1>15. Busy'
    BY <1>1, <1>2, <1>3 DEF IInv, Busy, PoolEnds
  <1> QED BY <1>5, <1>14, <1>15

\* The end of an attempt preserves the invariant.
LEMMA AttemptEndsPreserves ==
  ASSUME IInv, NEW pool \in pools, NEW c, NEW result \in {"success", "failed"},
         AttemptEnds(pool, c, result)
  PROVE  pools' \in SUBSET Pools /\ progress' \in [Clusters -> Status] /\ OneAttempt' /\ Busy'
  <1> DEFINE rest == pool.executing \ {c}
  <1>1. PICK started \in StartsOf(pool.queue, rest) :
          LET left == Pool(pool.queue \ started, rest \cup started) IN
          /\ progress' = Started([progress EXCEPT ![c] = result], started)
          /\ pools' = (pools \ {pool}) \cup (IF PoolEnds(left) THEN {} ELSE {left})
    BY DEF AttemptEnds
  <1> DEFINE left == Pool(pool.queue \ started, rest \cup started)
  <1>2. started \subseteq pool.queue
    BY StartsSubset
  <1>3. pool \in Pools /\ pool.queue \subseteq Clusters /\ pool.executing \subseteq Clusters
    BY DEF IInv, TypeOK, Pools
  <1>4. c \in pool.executing /\ c \in Clusters
    BY <1>3 DEF AttemptEnds
  <1>5. left.queue = pool.queue \ started /\ left.executing = rest \cup started /\ left \in Pools
    BY <1>2, <1>3 DEF Pool, Pools
  <1>6. pool.queue \cap pool.executing = {}
    BY DEF IInv, OneAttempt, Having
  <1>7. \A d \in Clusters : progress'[d] = IF d \in started THEN "installing"
                                           ELSE IF d = c THEN result ELSE progress[d]
    BY <1>1 DEF Started, IInv, TypeOK
  <1>8. pools' \in SUBSET Pools /\ progress' \in [Clusters -> Status]
    BY <1>1, <1>4, <1>5 DEF IInv, TypeOK, Started, Status
  <1>9. \A other \in pools \ {pool} :
          /\ (other.queue \cup other.executing) \cap (pool.queue \cup pool.executing) = {}
          /\ other.queue \subseteq Having("pending")'
          /\ other.executing \subseteq Having("installing")'
    BY <1>2, <1>4, <1>7 DEF IInv, OneAttempt, Having
  <1>10. left.queue \subseteq Having("pending")' /\ left.executing \subseteq Having("installing")'
    BY <1>2, <1>3, <1>4, <1>5, <1>6, <1>7 DEF IInv, OneAttempt, Having
  <1>11. left.queue \cup left.executing \subseteq pool.queue \cup pool.executing
    BY <1>2, <1>5
  <1>12. \A p \in pools' : /\ p.queue \subseteq Having("pending")'
                           /\ p.executing \subseteq Having("installing")'
                           /\ \A q \in pools' \ {p} :
                                (p.queue \cup p.executing) \cap (q.queue \cup q.executing) = {}
    BY <1>1, <1>9, <1>10, <1>11 DEF IInv, OneAttempt
  <1>13. \A d \in Having("pending")' : \E p \in pools' : d \in p.queue
    <2> SUFFICES ASSUME NEW d \in Having("pending")' PROVE \E p \in pools' : d \in p.queue
      OBVIOUS
    <2>1. d \in Having("pending") /\ d \notin started
      BY <1>7 DEF Having
    <2>2. PICK p \in pools : d \in p.queue
      BY <2>1 DEF IInv, OneAttempt
    <2>3. CASE p = pool
      <3>1. d \in left.queue
        BY <2>1, <2>2, <2>3, <1>5
      <3> QED BY <3>1, <1>1 DEF PoolEnds
    <2> QED BY <2>2, <2>3, <1>1
  <1>14. \A d \in Having("installing")' : \E p \in pools' : d \in p.executing
    <2> SUFFICES ASSUME NEW d \in Having("installing")' PROVE \E p \in pools' : d \in p.executing
      OBVIOUS
    <2>1. CASE d \in started
      <3>1. d \in left.executing
        BY <2>1, <1>5
      <3> QED BY <3>1, <1>1 DEF PoolEnds
    <2>2. CASE d \notin started
      <3>1. d \in Having("installing") /\ d # c
        BY <2>2, <1>7 DEF Having
      <3>2. PICK p \in pools : d \in p.executing
        BY <3>1 DEF IInv, OneAttempt
      <3>3. CASE p = pool
        <4>1. d \in left.executing
          BY <3>1, <3>2, <3>3, <1>5
        <4> QED BY <4>1, <1>1 DEF PoolEnds
      <3> QED BY <3>2, <3>3, <1>1
    <2> QED BY <2>1, <2>2
  <1>15. OneAttempt'
    BY <1>12, <1>13, <1>14 DEF OneAttempt
  <1>16. Busy'
    BY <1>1 DEF IInv, Busy
  <1> QED BY <1>8, <1>15, <1>16

LEMMA InitIInv == Init => IInv
  BY DEF Init, IInv, TypeOK, Status, OneAttempt, Having, Busy, Quiet

LEMMA NextIInv == IInv /\ [Next]_vars => IInv'
  <1> SUFFICES ASSUME IInv, [Next]_vars PROVE IInv'
    OBVIOUS
  <1>1. CASE UNCHANGED <<pools, progress>> /\ (EditForm \/ SubmitIncomplete \/ LeaveModal \/ CancelWizard)
    <2>1. OneAttempt' /\ Busy'
      BY <1>1 DEF IInv, OneAttempt, Having, Busy, PoolEnds
    <2>2. TypeOK'
      BY <1>1 DEF IInv, TypeOK, EditForm, SubmitIncomplete, LeaveModal, CancelWizard
    <2>3. Quiet'
      BY <1>1 DEF IInv, Quiet, EditForm, SubmitIncomplete, LeaveModal, CancelWizard, Buttons
    <2> QED BY <2>1, <2>2, <2>3 DEF IInv
  <1>2. ASSUME NEW targets \in SUBSET Clusters, Submit(targets) PROVE IInv'
    BY <1>2 DEF IInv, Submit, TypeOK, OneAttempt, Having, Busy, PoolEnds, Quiet
  <1>3. CASE NamesLoaded
    <2>1. pools' \in SUBSET Pools /\ progress' \in [Clusters -> Status] /\ OneAttempt' /\ Busy'
      <3>1. [c \in Clusters |-> "none"] \in [Clusters -> Status]
        BY DEF Status
      <3> QED BY <1>3, <3>1, RunPoolPreserves DEF NamesLoaded, IInv, TypeOK, Quiet
    <2>2. TypeOK'
      BY <1>3, <2>1 DEF NamesLoaded, IInv, TypeOK
    <2>3. Quiet'
      BY <1>3 DEF NamesLoaded, IInv, TypeOK, Quiet
    <2> QED BY <2>1, <2>2, <2>3 DEF IInv
  <1>4. ASSUME NEW pool \in pools, NEW result \in {"success", "failed"}, NEW c \in pool.executing,
               AttemptEnds(pool, c, result)
        PROVE  IInv'
    <2>1. pools' \in SUBSET Pools /\ progress' \in [Clusters -> Status] /\ OneAttempt' /\ Busy'
      BY <1>4, AttemptEndsPreserves
    <2>2. submitting' \in BOOLEAN
      BY <1>4 DEF AttemptEnds
    <2>3. TypeOK'
      BY <1>4, <2>1, <2>2 DEF AttemptEnds, IInv, TypeOK
    <2>4. Quiet'
      BY <1>4 DEF AttemptEnds, IInv, Quiet
    <2> QED BY <2>1, <2>3, <2>4 DEF IInv
  <1>5. CASE Retry
    <2> DEFINE targets == IF "retry-all" \in Buttons THEN Listed ELSE Having("failed")
    <2>1. targets = Having("failed") /\ targets # {} /\ targets \in SUBSET Clusters
      <3>1. targets = Having("failed")
        BY <1>5, RetriedFailed DEF Retry
      <3>2. Having("failed") # {}
        BY <1>5 DEF Retry, Buttons, AllFailed, PartialFailure
      <3> QED BY <3>1, <3>2 DEF Having
    <2>2. RunPool(targets, progress)
      BY <1>5 DEF Retry
    <2>3. pools' \in SUBSET Pools /\ progress' \in [Clusters -> Status] /\ OneAttempt' /\ Busy'
      BY <2>1, <2>2, RunPoolPreserves DEF IInv, TypeOK
    <2>4. TypeOK'
      BY <1>5, <2>3 DEF Retry, IInv, TypeOK
    <2>5. Quiet'
      BY <1>5 DEF Retry, IInv, Quiet, Buttons
    <2> QED BY <2>3, <2>4, <2>5 DEF IInv
  <1>6. CASE CancelModal
    <2>1. pools = {}
      BY <1>6, AllFailedIdle DEF CancelModal, Buttons
    <2>2. OneAttempt' /\ Busy' /\ TypeOK'
      BY <1>6 DEF CancelModal, IInv, TypeOK, OneAttempt, Having, Busy, PoolEnds
    <2>3. Quiet'
      <3>1. \A c \in Clusters : progress[c] \in {"none", "failed"}
        <4>1. AllFailed
          BY <1>6 DEF CancelModal, Buttons
        <4> QED BY <4>1 DEF AllFailed, Listed, Having
      <3> QED BY <1>6, <2>1, <3>1 DEF CancelModal, Quiet
    <2> QED BY <2>2, <2>3 DEF IInv
  <1>7. CASE UNCHANGED vars
    BY <1>7 DEF vars, IInv, TypeOK, OneAttempt, Having, Busy, PoolEnds, Quiet
  <1>8. EditForm \/ SubmitIncomplete \/ LeaveModal \/ CancelWizard => UNCHANGED <<pools, progress>>
    BY DEF EditForm, SubmitIncomplete, LeaveModal, CancelWizard
  <1> QED BY <1>1, <1>2, <1>3, <1>4, <1>5, <1>6, <1>7, <1>8 DEF Next

LEMMA Invariance == Spec => []IInv
  BY InitIInv, NextIInv, PTL DEF Spec

(***************************************************************************)
(* Every variable of the wizard keeps its type.                            *)
(***************************************************************************)
THEOREM TypeCorrect == Spec => []TypeOK
  BY Invariance, PTL DEF IInv

(***************************************************************************)
(* No cluster ever has two attempts, in one pool or in two, and what the   *)
(* modal shows of it is where it is, whatever the user retries and         *)
(* whenever (installWithConcurrencyLimit, the retries of AppWizard.vue).   *)
(***************************************************************************)
THEOREM AttemptsAreExclusive == Spec => []OneAttempt
  <1>1. IInv => OneAttempt
    BY DEF IInv
  <1> QED BY <1>1, Invariance, PTL

-----------------------------------------------------------------------------
(* The limit of a pool. *)

\* After the loop has started what it can, the pool is full or nothing waits.
LEMMA StartsFill ==
  ASSUME NEW queue \in SUBSET Clusters, NEW executing \in SUBSET Clusters,
         queue \cap executing = {}, NEW started \in StartsOf(queue, executing)
  PROVE  /\ Cardinality(executing \cup started) <= Limit
         /\ queue \ started # {} => Cardinality(executing \cup started) = Limit
  <1>1. started \subseteq queue
    BY StartsSubset
  <1>2. IsFiniteSet(queue) /\ IsFiniteSet(executing) /\ IsFiniteSet(started)
    BY <1>1, ClustersAssumption, FS_Subset
  <1>3. executing \cap started = {}
    BY <1>1
  <1>4. Cardinality(executing \cup started) = Cardinality(executing) + Cardinality(started)
    <2>1. Cardinality(executing \cup started)
            = Cardinality(executing) + Cardinality(started) - Cardinality(executing \cap started)
      BY <1>2, FS_Union
    <2>2. Cardinality(executing \cap started) = 0
      BY <1>3, FS_EmptySet
    <2>3. Cardinality(executing) \in Nat /\ Cardinality(started) \in Nat
      BY <1>2, FS_CardinalityType
    <2> QED BY <2>1, <2>2, <2>3
  <1>5. CASE started = queue /\ Cardinality(executing) + Cardinality(queue) <= Limit
    BY <1>4, <1>5
  <1>6. CASE Cardinality(executing) + Cardinality(started) = Limit
    BY <1>4, <1>6, LimitAssumption
  <1> QED BY <1>5, <1>6 DEF StartsOf

LEMMA NewPoolFull ==
  ASSUME PoolFull, NEW targets \in SUBSET Clusters, NEW statuses, RunPool(targets, statuses)
  PROVE  PoolFull'
  <1>1. PICK started \in StartsOf(targets, {}) : pools' = pools \cup {Pool(targets \ started, started)}
    BY DEF RunPool
  <1>2. /\ Cardinality(started) <= Limit
        /\ targets \ started # {} => Cardinality(started) = Limit
    <2>1. {} \cup started = started
      OBVIOUS
    <2> QED BY <2>1, StartsFill
  <1> QED BY <1>1, <1>2 DEF PoolFull, Pool

LEMMA NextPoolFull == IInv /\ PoolFull /\ [Next]_vars => PoolFull'
  <1> SUFFICES ASSUME IInv, PoolFull, [Next]_vars PROVE PoolFull'
    OBVIOUS
  <1>1. CASE UNCHANGED pools
    BY <1>1 DEF PoolFull
  <1>2. CASE NamesLoaded
    BY <1>2, NewPoolFull DEF NamesLoaded, IInv, TypeOK
  <1>3. CASE Retry
    <2>1. Listed \in SUBSET Clusters /\ Having("failed") \in SUBSET Clusters
      BY DEF Listed, Having
    <2> QED BY <1>3, <2>1, NewPoolFull DEF Retry
  <1>4. ASSUME NEW pool \in pools, NEW result \in {"success", "failed"}, NEW c \in pool.executing,
               AttemptEnds(pool, c, result)
        PROVE  PoolFull'
    <2> DEFINE rest == pool.executing \ {c}
    <2>1. PICK started \in StartsOf(pool.queue, rest) :
            LET left == Pool(pool.queue \ started, rest \cup started) IN
            pools' = (pools \ {pool}) \cup (IF PoolEnds(left) THEN {} ELSE {left})
      BY <1>4 DEF AttemptEnds
    <2>2. pool.queue \in SUBSET Clusters /\ rest \in SUBSET Clusters /\ pool.queue \cap rest = {}
      BY DEF IInv, TypeOK, Pools, OneAttempt, Having
    <2>3. /\ Cardinality(rest \cup started) <= Limit
          /\ pool.queue \ started # {} => Cardinality(rest \cup started) = Limit
      BY <2>2, StartsFill
    <2> DEFINE left == Pool(pool.queue \ started, rest \cup started)
    <2>4. left.queue = pool.queue \ started /\ left.executing = rest \cup started
      BY DEF Pool
    <2>5. pools' \subseteq pools \cup {left}
      BY <2>1
    <2> QED BY <2>3, <2>4, <2>5 DEF PoolFull
  <1>5. \/ EditForm \/ SubmitIncomplete \/ CancelModal \/ LeaveModal \/ CancelWizard \/ UNCHANGED vars
        \/ \E targets \in SUBSET Clusters : Submit(targets)
        => UNCHANGED pools
    BY DEF EditForm, SubmitIncomplete, CancelModal, LeaveModal, CancelWizard, Submit, vars
  <1> QED BY <1>1, <1>2, <1>3, <1>4, <1>5 DEF Next

(***************************************************************************)
(* A pool executes at most Limit attempts, and Limit while something waits *)
(* (the loop of installWithConcurrencyLimit).                              *)
(***************************************************************************)
THEOREM PoolsKeepLimit == Spec => []PoolFull
  <1>1. Init => PoolFull
    BY DEF Init, PoolFull
  <1> QED BY <1>1, NextPoolFull, Invariance, PTL DEF Spec

-----------------------------------------------------------------------------
(* The refinement. *)

\* A new pool on clusters that failed, or on new ones, is a step of InstallJobs.
LEMMA NewPoolIsJob ==
  ASSUME NEW targets \in SUBSET Clusters, NEW statuses, RunPool(targets, statuses)
  PROVE  \E started \in SUBSET Clusters :
           /\ started \subseteq targets
           /\ progress' = [c \in Clusters |-> IF c \in started THEN "installing"
                                              ELSE IF c \in targets THEN "pending" ELSE statuses[c]]
  <1>1. PICK started \in StartsOf(targets, {}) :
          progress' = Started([c \in Clusters |-> IF c \in targets THEN "pending" ELSE statuses[c]], started)
    BY DEF RunPool
  <1>2. started \subseteq targets
    BY StartsSubset
  <1> QED BY <1>1, <1>2 DEF Started

LEMMA StepIsJob == IInv /\ [Next]_vars => [Jobs!Next]_progress
  <1> SUFFICES ASSUME IInv, [Next]_vars PROVE [Jobs!Next]_progress
    OBVIOUS
  <1>1. CASE NamesLoaded
    <2>1. \A c \in Clusters : progress[c] \in {"none", "failed"}
      BY <1>1 DEF NamesLoaded, IInv, Quiet
    <2>2. naming \in SUBSET Clusters
      BY DEF IInv, TypeOK
    <2>3. PICK started \in SUBSET Clusters :
            /\ started \subseteq naming
            /\ progress' = [c \in Clusters |-> IF c \in started THEN "installing"
                                   ELSE IF c \in naming THEN "pending" ELSE [d \in Clusters |-> "none"][c]]
      BY <1>1, <2>2, NewPoolIsJob DEF NamesLoaded
    <2>4. Jobs!Request(naming, started)
      BY <2>1, <2>3 DEF Jobs!Request
    <2> QED BY <2>2, <2>4 DEF Jobs!Next
  <1>2. CASE Retry
    <2> DEFINE targets == Having("failed")
    <2>1. RunPool(targets, progress)
      BY <1>2, RetriedFailed DEF Retry
    <2>2. targets \in SUBSET Clusters /\ \A c \in targets : progress[c] = "failed"
      BY DEF Having
    <2>3. PICK started \in SUBSET Clusters :
            /\ started \subseteq targets
            /\ progress' = [c \in Clusters |-> IF c \in started THEN "installing"
                                   ELSE IF c \in targets THEN "pending" ELSE progress[c]]
      BY <2>1, <2>2, NewPoolIsJob
    <2>4. Jobs!Retry(targets, started)
      BY <2>2, <2>3 DEF Jobs!Retry
    <2> QED BY <2>2, <2>4 DEF Jobs!Next
  <1>3. ASSUME NEW pool \in pools, NEW result \in {"success", "failed"}, NEW c \in pool.executing,
               AttemptEnds(pool, c, result)
        PROVE  Jobs!Next
    <2>1. PICK started \in StartsOf(pool.queue, pool.executing \ {c}) :
            progress' = Started([progress EXCEPT ![c] = result], started)
      BY <1>3 DEF AttemptEnds
    <2>2. started \subseteq pool.queue
      BY StartsSubset
    <2>3. /\ c \in Clusters /\ progress[c] = "installing"
          /\ started \in SUBSET Clusters /\ \A d \in started : progress[d] = "pending"
      BY <2>2 DEF IInv, OneAttempt, Having
    <2>4. progress' = [d \in Clusters |-> IF d = c THEN result
                                         ELSE IF d \in started THEN "installing" ELSE progress[d]]
      BY <2>1, <2>3 DEF Started, IInv, TypeOK
    <2>5. Jobs!Finish(c, result, started)
      BY <2>3, <2>4 DEF Jobs!Finish
    <2> QED BY <2>3, <2>5 DEF Jobs!Next, Jobs!JobStatus
  <1>4. \/ EditForm \/ SubmitIncomplete \/ CancelModal \/ LeaveModal \/ CancelWizard \/ UNCHANGED vars
        \/ \E targets \in SUBSET Clusters : Submit(targets)
        => UNCHANGED progress
    BY DEF EditForm, SubmitIncomplete, CancelModal, LeaveModal, CancelWizard, Submit, vars
  <1> QED BY <1>1, <1>2, <1>3, <1>4 DEF Next

(***************************************************************************)
(* The wizard implements InstallJobs: whatever is retried and whenever, a  *)
(* cluster that succeeded is not installed again, and only a cluster whose *)
(* attempt has failed is (AppWizard.vue, lines 699-859).                   *)
(***************************************************************************)
THEOREM WizardImplementsJobs == Spec => ImplementsJobs
  <1>1. Init => Jobs!Init
    BY DEF Init, Jobs!Init
  <1> QED BY <1>1, StepIsJob, Invariance, PTL DEF Spec, ImplementsJobs, Jobs!Spec
=============================================================================
