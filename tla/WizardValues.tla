---------------------------- MODULE WizardValues ----------------------------
(***************************************************************************)
(* How the install wizard (AppWizard.vue) loads the default values of the  *)
(* chart version the user selects, and what it then installs.  A load is a *)
(* chain of requests; the code checks nothing when an answer arrives, so   *)
(* chains of several selections interleave.  Each action is one answer, or *)
(* one event of the user, with the code that runs up to the next await.    *)
(* Chart values are abstracted to the version they are the defaults of,    *)
(* whether the names of the pull secrets have been put in, and whether the *)
(* user has edited them.  Values of a version that are {} are values too    *)
(* (versionInfo.values is truthy).  The chart's repository stays as it is. *)
(***************************************************************************)
EXTENDS Naturals, Sequences, SequencesExt

CONSTANTS
  Versions,    \* versions of the chart
  None,        \* no version
  MaxLoads,    \* bound: chains of requests in flight
  MaxChanges,  \* bound: version changes and clicks on Load defaults
  Attempts     \* clusters that one submission installs to

ASSUME NoneAssumption == None \notin Versions
ASSUME BoundsAssumption == MaxLoads \in Nat /\ MaxChanges \in Nat /\ Attempts \in Nat

VARIABLES
  version,        \* form.chartVersion
  info,           \* versionInfo and its key: the version it belongs to
  snapshot,       \* defaultValuesSnapshot: the version it belongs to, None when empty
  values,         \* form.values
  error,          \* the error banner shows that defaults could not be loaded
  failed,         \* history: the last load that ended had failed
  loadingValues,  \* loadingValues
  loads,          \* chains awaiting an answer, in the order of their requests
  step,           \* currentStep
  picked,         \* form.clusters is not empty
  submitted,      \* submit ran: it asks for the clusters' names, then shows the modal
  installed,      \* what each attempt sent; history: it was read with no load in flight or failed
  changes         \* version changes and Load defaults so far

vars == <<version, info, snapshot, values, error, failed, loadingValues, loads, step, picked,
          submitted, installed, changes>>
form == <<version, info, snapshot, values, error, failed, loadingValues, loads>>
wizard == <<step, picked, submitted, installed>>

\* A chain: who started it, what it awaits and for which version it asked.
Loads == [by : {"change", "button"}, awaits : {"info", "fetch", "secrets"}, of : Versions]

Values == [of : Versions \cup {None}, secrets : BOOLEAN, edited : BOOLEAN]

\* What an attempt sends, and whether it read the form with every load ended well.
Sent == [version : Versions, values : Values, settled : BOOLEAN]

Defaults(v) == [of |-> v, secrets |-> FALSE, edited |-> FALSE]

TypeOK ==
  /\ version \in Versions
  /\ info \in Versions \cup {None}
  /\ snapshot \in Versions \cup {None}
  /\ values \in Values
  /\ {error, failed, loadingValues} \subseteq BOOLEAN
  /\ loads \in Seq(Loads) /\ Len(loads) <= MaxLoads
  /\ step \in 0..3 /\ picked \in BOOLEAN /\ submitted \in {"no", "naming", "shown"}
  /\ installed \in Seq(Sent) /\ Len(installed) <= Attempts
  /\ changes \in 0..MaxChanges

-----------------------------------------------------------------------------
\* Mutant: a chain goes on and is also answered again.
ContinueTwice(i, load) == loads' = Append(loads, load)

\* The chain at i goes on to another request, or ends.
Continue(i, load) == loads' = Append(RemoveAt(loads, i), load)
End(i) == loads' = RemoveAt(loads, i)

\* What loadDefaultValues takes without asking: the snapshot of some version.
\* The chain that ran it goes on to the pull secrets if a change of version started it.
Apply(i, load, v) ==
  /\ values' = Defaults(v)
  /\ failed' = FALSE /\ loadingValues' = FALSE
  /\ IF load.by = "change" THEN Continue(i, [by |-> "change", awaits |-> "secrets", of |-> load.of]) ELSE End(i)

\* Mutant: the catch clause keeps what was loaded before.
InfoAnsweredKeeps(i, answer) ==
  LET load == loads[i]
      loaded == CASE answer = "values" -> load.of [] answer = "none" -> None [] OTHER -> snapshot
  IN
  /\ load.awaits = "info"
  /\ info' = IF answer = "error" THEN info ELSE load.of
  /\ snapshot' = loaded
  /\ error' = (error /\ load.by = "button")
  /\ IF loaded # None
     THEN Apply(i, load, loaded)
     ELSE /\ loadingValues' = (loadingValues \/ load.by = "change")
          /\ Continue(i, [by |-> load.by, awaits |-> "fetch", of |-> version])
          /\ UNCHANGED <<values, failed>>
  /\ UNCHANGED <<version, wizard, changes>>

\* ensureVersionInfoLoaded is answered.  The answer may have values, no values, or be an
\* error; it is stored whatever is selected by now.  A change of version calls
\* loadDefaultValues only now, the button did so when it was clicked.
InfoAnswered(i, answer) ==
  LET load == loads[i]
      loaded == IF answer = "values" THEN load.of ELSE None
  IN
  /\ load.awaits = "info"
  /\ info' = IF answer = "error" THEN None ELSE load.of
  /\ snapshot' = loaded
  /\ error' = (error /\ load.by = "button")
  /\ IF loaded # None
     THEN Apply(i, load, loaded)
     ELSE /\ loadingValues' = (loadingValues \/ load.by = "change")
          /\ Continue(i, [by |-> load.by, awaits |-> "fetch", of |-> version])
          /\ UNCHANGED <<values, failed>>
  /\ UNCHANGED <<version, wizard, changes>>

\* Mutant: an empty or failing answer is not shown.
FetchAnsweredQuietly(i, answer) ==
  LET load == loads[i] IN
  /\ load.awaits = "fetch"
  /\ IF answer = "values"
     THEN snapshot' = load.of /\ Apply(i, load, load.of) /\ UNCHANGED error
     ELSE /\ UNCHANGED error /\ failed' = FALSE /\ loadingValues' = FALSE
          /\ IF load.by = "change" THEN Continue(i, [by |-> "change", awaits |-> "secrets", of |-> load.of]) ELSE End(i)
          /\ UNCHANGED <<snapshot, values>>
  /\ UNCHANGED <<version, info, wizard, changes>>

\* Mutant: no finally clause.
FetchAnsweredNoFinally(i, answer) ==
  LET load == loads[i] IN
  /\ load.awaits = "fetch"
  /\ IF answer = "values"
     THEN snapshot' = load.of /\ Apply(i, load, load.of) /\ UNCHANGED error
     ELSE /\ error' = TRUE /\ failed' = TRUE /\ UNCHANGED loadingValues
          /\ IF load.by = "change" THEN Continue(i, [by |-> "change", awaits |-> "secrets", of |-> load.of]) ELSE End(i)
          /\ UNCHANGED <<snapshot, values>>
  /\ UNCHANGED <<version, info, wizard, changes>>

\* fetchChartDefaultValues is answered: with values, or with nothing or an error.
FetchAnswered(i, answer) ==
  LET load == loads[i] IN
  /\ load.awaits = "fetch"
  /\ IF answer = "values"
     THEN snapshot' = load.of /\ Apply(i, load, load.of) /\ UNCHANGED error
     ELSE /\ error' = TRUE /\ failed' = TRUE /\ loadingValues' = FALSE
          /\ IF load.by = "change" THEN Continue(i, [by |-> "change", awaits |-> "secrets", of |-> load.of]) ELSE End(i)
          /\ UNCHANGED <<snapshot, values>>
  /\ UNCHANGED <<version, info, wizard, changes>>

\* resolvePullSecretNames has its names, which go into the values of the moment, or fails.
SecretsAnswered(i, answer) ==
  /\ loads[i].awaits = "secrets"
  /\ values' = [values EXCEPT !.secrets = (@ \/ answer = "values")]
  /\ End(i)
  /\ UNCHANGED <<version, info, snapshot, error, failed, loadingValues, wizard, changes>>

Answered(i) ==
  \E answer \in {"values", "none", "error"} :
    InfoAnswered(i, answer) \/ FetchAnswered(i, answer) \/ SecretsAnswered(i, answer)

-----------------------------------------------------------------------------
\* The form is on the page until the modal covers it.
Editable == submitted # "shown"

\* The user selects another version: the watcher forgets what is loaded and onVersionChange
\* asks for it, unless a late answer left it there, in which case it asks for the values.
ChangeVersion(v) ==
  /\ step = 0 /\ Editable /\ v # version
  /\ Len(loads) < MaxLoads /\ changes < MaxChanges
  /\ version' = v
  /\ info' = None /\ snapshot' = None
  /\ loads' = Append(loads, [by |-> "change", awaits |-> IF info = v THEN "fetch" ELSE "info", of |-> v])
  /\ loadingValues' = (loadingValues \/ info = v)
  /\ error' = (error /\ info # v)
  /\ changes' = changes + 1
  /\ UNCHANGED <<values, failed, wizard>>

\* Load defaults: from the snapshot if the version's information is there.
LoadDefaults ==
  /\ step = 2 /\ Editable /\ ~loadingValues
  /\ Len(loads) < MaxLoads /\ changes < MaxChanges
  /\ error' = FALSE
  /\ changes' = changes + 1
  /\ IF info = version /\ snapshot # None
     THEN values' = Defaults(snapshot) /\ UNCHANGED <<loads, loadingValues>>
     ELSE /\ loadingValues' = TRUE
          /\ loads' = Append(loads, [by |-> "button", awaits |-> IF info = version THEN "fetch" ELSE "info",
                                     of |-> version])
          /\ UNCHANGED values
  /\ UNCHANGED <<version, info, snapshot, failed, wizard>>

EditValues ==
  /\ step \in {2, 3} /\ Editable
  /\ values' = [values EXCEPT !.edited = TRUE]
  /\ UNCHANGED <<version, info, snapshot, error, failed, loadingValues, loads, wizard, changes>>

-----------------------------------------------------------------------------
\* The steps' conditions (wizardSteps).
Ready(s) == CASE s \in {0, 1} -> TRUE
              [] s = 2 -> picked /\ ~loadingValues
              [] s = 3 -> picked

\* nextStep (one further) and goToStep.
GoTo(s) ==
  /\ Editable /\ s # step
  /\ s < step \/ Ready(s)
  /\ step' = s
  /\ UNCHANGED <<form, picked, submitted, installed, changes>>

PickClusters ==
  /\ step = 1 /\ Editable
  /\ picked' = ~picked
  /\ UNCHANGED <<form, step, submitted, installed, changes>>

Submit ==
  /\ step = 3 /\ Ready(3) /\ submitted = "no"
  /\ submitted' = "naming"
  /\ error' = FALSE
  /\ UNCHANGED <<version, info, snapshot, values, failed, loadingValues, loads, step, picked, installed, changes>>

\* getClusterDisplayName has answered for every cluster, or failed: the modal is shown.
NamesLoaded ==
  /\ submitted = "naming"
  /\ submitted' = "shown"
  /\ UNCHANGED <<form, step, picked, installed, changes>>

\* An attempt has prepared its cluster, and sends the form as it then is (installToCluster):
\* it copies the values and reads the version, which nothing changes any more, a few
\* requests later.
Install ==
  /\ submitted = "shown" /\ Len(installed) < Attempts
  /\ installed' = Append(installed, [version |-> version, values |-> values,
                                     settled |-> loads = <<>> /\ ~failed])
  /\ UNCHANGED <<form, step, picked, submitted, changes>>

-----------------------------------------------------------------------------
\* The UI is shown once the first load has ended, well or badly.
Init ==
  /\ version \in Versions
  /\ info \in {version, None}
  /\ snapshot \in {version, None}
  /\ values \in {v \in Values : v.of = snapshot /\ ~v.edited}
  /\ error = (snapshot = None) /\ failed = error
  /\ loadingValues = FALSE
  /\ loads = <<>>
  /\ step = 0 /\ picked = FALSE /\ submitted = "no" /\ installed = <<>>
  /\ changes = 0

User ==
  \/ \E v \in Versions : ChangeVersion(v)
  \/ LoadDefaults \/ EditValues \/ PickClusters \/ Submit
  \/ \E s \in 0..3 : GoTo(s)

Next == User \/ NamesLoaded \/ Install \/ \E i \in DOMAIN loads : Answered(i)

Spec == Init /\ [][Next]_vars

\* Answers arrive in the order of the requests.
OrderedNext == User \/ NamesLoaded \/ Install \/ (loads # <<>> /\ Answered(1))

OrderedSpec == Init /\ [][OrderedNext]_vars

\* Every request is answered, or times out.
FairOrderedSpec == OrderedSpec /\ WF_vars(loads # <<>> /\ Answered(1))

-----------------------------------------------------------------------------
(***************************************************************************)
(* Once every load has ended, and unless the last of them failed, the      *)
(* values in the form are those of the selected version.  Holds when       *)
(* answers come in order, however fast the user changes his mind           *)
(* (onVersionChange, loadDefaultValues); the code does nothing to make     *)
(* them.  That no error is shown is not enough: the button may clear the   *)
(* error of a failed load and take the information of the selected version *)
(* with values an earlier load left.                                       *)
(***************************************************************************)
SettledValues == loads = <<>> /\ ~failed => values.of = version

(***************************************************************************)
(* "Load default values if version changed in install mode"                *)
(* (AppWizard.vue, line 225): every cluster of a submission gets the same  *)
(* version; an attempt that reads the form when every load has ended, the  *)
(* last of them well, installs that version's own values; and from then on *)
(* every cluster gets the same values.  The user may still change the form *)
(* while submit asks for the clusters' names, and a load in flight may     *)
(* still change it between two clusters: these installs are not what he    *)
(* submitted, and only the latter are not the same on every cluster.       *)
(***************************************************************************)
InstalledMatches ==
  \A i, j \in DOMAIN installed :
    /\ installed[i].version = installed[j].version
    /\ installed[i].settled => installed[i].values.of = installed[i].version
    /\ installed[i].settled /\ i <= j => installed[j] = installed[i]

(***************************************************************************)
(* Loads end, and with the last of them the gate of the configuration step *)
(* opens: loadingValues is never left behind by a load that failed or was  *)
(* overtaken (the finally clauses of loadDefaultValues).                   *)
(***************************************************************************)
GateOpens == loadingValues ~> ~loadingValues
=============================================================================
