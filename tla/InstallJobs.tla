---------------------------- MODULE InstallJobs ----------------------------
(***************************************************************************)
(* What the install wizard promises of every cluster it is asked to        *)
(* install to: attempts on one cluster never overlap, an attempt that      *)
(* succeeded is never repeated, and only a failed cluster is retried.      *)
(* How many attempts run at a time, and in which pools, is left to the     *)
(* implementation, WizardInstall.                                          *)
(***************************************************************************)
CONSTANT Clusters

VARIABLE jobs      \* what the user is shown of every cluster

JobStatus == {"none", "pending", "installing", "success", "failed"}

Init == jobs = [c \in Clusters |-> "none"]

(***************************************************************************)
(* A new request for the clusters in wanted, of which those in started     *)
(* begin at once.  Nothing may be running or have succeeded.               *)
(***************************************************************************)
Request(wanted, started) ==
  /\ started \subseteq wanted
  /\ \A c \in Clusters : jobs[c] \in {"none", "failed"}
  /\ jobs' = [c \in Clusters |-> IF c \in started THEN "installing"
                                 ELSE IF c \in wanted THEN "pending" ELSE "none"]

\* Failed clusters are tried again.
Retry(wanted, started) ==
  /\ started \subseteq wanted
  /\ \A c \in wanted : jobs[c] = "failed"
  /\ jobs' = [c \in Clusters |-> IF c \in started THEN "installing"
                                 ELSE IF c \in wanted THEN "pending" ELSE jobs[c]]

\* An attempt ends, which lets waiting ones begin.
Finish(c, result, started) ==
  /\ jobs[c] = "installing"
  /\ result \in {"success", "failed"}
  /\ \A d \in started : jobs[d] = "pending"
  /\ jobs' = [d \in Clusters |-> IF d = c THEN result
                                 ELSE IF d \in started THEN "installing" ELSE jobs[d]]

Next ==
  \/ \E wanted, started \in SUBSET Clusters : Request(wanted, started) \/ Retry(wanted, started)
  \/ \E c \in Clusters, result \in JobStatus, started \in SUBSET Clusters : Finish(c, result, started)

Spec == Init /\ [][Next]_jobs
=============================================================================
