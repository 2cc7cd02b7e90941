------------------------ MODULE WizardValuesProofs ------------------------
(***************************************************************************)
(* Theorems about the values the wizard loads and installs, for any set of *)
(* versions and any numbers of loads, changes and attempts.                *)
(***************************************************************************)
EXTENDS WizardValues, SequenceTheorems, TLAPS

-----------------------------------------------------------------------------
(* Sequences of loads. *)

LEMMA RemoveAtProperties ==
  ASSUME NEW S, NEW s \in Seq(S), NEW i \in 1..Len(s)
  PROVE  /\ RemoveAt(s, i) \in Seq(S)
         /\ Len(RemoveAt(s, i)) = Len(s) - 1
         /\ \A j \in 1..(Len(s) - 1) : RemoveAt(s, i)[j] = IF j < i THEN s[j] ELSE s[j + 1]
  <1> DEFINE a == SubSeq(s, 1, i - 1)
             b == SubSeq(s, i + 1, Len(s))
  <1>1. Len(s) \in Nat /\ \A j \in 1..Len(s) : s[j] \in S
    BY LenProperties, ElementOfSeq
  <1>2. /\ a \in Seq(S) /\ Len(a) = i - 1
        /\ \A j \in 1..(i - 1) : a[j] = s[j]
    BY <1>1, SubSeqProperties
  <1>3. /\ b \in Seq(S) /\ Len(b) = Len(s) - i
        /\ \A j \in 1..(Len(s) - i) : b[j] = s[i + j]
    BY <1>1, SubSeqProperties
  <1>4. RemoveAt(s, i) = a \o b
    BY DEF RemoveAt
  <1> HIDE DEF a, b
  <1>5. /\ a \o b \in Seq(S) /\ Len(a \o b) = Len(a) + Len(b)
        /\ \A j \in 1..(Len(a) + Len(b)) : (a \o b)[j] = IF j <= Len(a) THEN a[j] ELSE b[j - Len(a)]
    BY <1>2, <1>3, ConcatProperties, Zenon
  <1>6. Len(a) + Len(b) = Len(s) - 1
    BY <1>1, <1>2, <1>3
  <1>7. ASSUME NEW j \in 1..(Len(s) - 1)
        PROVE  (a \o b)[j] = IF j < i THEN s[j] ELSE s[j + 1]
    <2> DEFINE c == a \o b
    <2> HIDE DEF c
    <2>1. c[j] = IF j <= Len(a) THEN a[j] ELSE b[j - Len(a)]
      BY <1>5, <1>6 DEF c
    <2>2. CASE j < i
      <3>1. j <= Len(a) /\ a[j] = s[j]
        BY <1>1, <1>2, <2>2
      <3>2. c[j] = s[j]
        BY <2>1, <3>1
      <3> QED BY <2>2, <3>2 DEF c
    <2>3. CASE ~(j < i)
      <3>1. ~(j <= Len(a)) /\ j - Len(a) \in 1..(Len(s) - i) /\ i + (j - Len(a)) = j + 1
        BY <1>1, <1>2, <2>3
      <3>2. b[j - Len(a)] = s[i + (j - Len(a))]
        BY <1>3, <3>1
      <3>3. c[j] = s[j + 1]
        BY <2>1, <3>1, <3>2
      <3> QED BY <2>3, <3>3 DEF c
    <2> QED BY <2>2, <2>3
  <1> QED BY <1>4, <1>5, <1>6, <1>7

\* A chain that goes on moves to the end, as it then is.
LEMMA ContinueProperties ==
  ASSUME TypeOK, NEW i \in DOMAIN loads, NEW load \in Loads, Continue(i, load)
  PROVE  /\ loads' \in Seq(Loads) /\ Len(loads') = Len(loads)
         /\ \A j \in 1..(Len(loads) - 1) : loads'[j] = IF j < i THEN loads[j] ELSE loads[j + 1]
         /\ loads'[Len(loads)] = load
  <1>1. loads \in Seq(Loads) /\ i \in 1..Len(loads) /\ Len(loads) \in Nat
    BY LenProperties DEF TypeOK
  <1>2. /\ RemoveAt(loads, i) \in Seq(Loads) /\ Len(RemoveAt(loads, i)) = Len(loads) - 1
        /\ \A j \in 1..(Len(loads) - 1) :
              RemoveAt(loads, i)[j] = IF j < i THEN loads[j] ELSE loads[j + 1]
    BY <1>1, RemoveAtProperties
  <1>3. loads' = Append(RemoveAt(loads, i), load)
    BY DEF Continue
  <1> QED BY <1>1, <1>2, <1>3, AppendProperties

LEMMA EndProperties ==
  ASSUME TypeOK, NEW i \in DOMAIN loads, End(i)
  PROVE  /\ loads' \in Seq(Loads) /\ Len(loads') = Len(loads) - 1
         /\ \A j \in 1..(Len(loads) - 1) : loads'[j] = IF j < i THEN loads[j] ELSE loads[j + 1]
  <1>1. loads \in Seq(Loads) /\ i \in 1..Len(loads)
    BY LenProperties DEF TypeOK
  <1> QED BY <1>1, RemoveAtProperties DEF End

LEMMA LoadParts ==
  ASSUME TypeOK, NEW i \in DOMAIN loads
  PROVE  loads[i] \in Loads /\ loads[i].by \in {"change", "button"} /\ loads[i].of \in Versions
  <1>1. loads[i] \in Loads
    BY ElementOfSeq, LenProperties DEF TypeOK
  <1> QED BY <1>1 DEF Loads

-----------------------------------------------------------------------------
(* Types. *)

LEMMA SettledForms ==
  ASSUME NEW v \in Versions \cup {None}
  PROVE  Defaults(v) \in Values /\ Defaults(v).of = v
  BY DEF Defaults, Values

LEMMA ChangedValues ==
  ASSUME values \in Values, NEW b \in BOOLEAN
  PROVE  /\ [values EXCEPT !.secrets = (@ \/ b)] \in Values
         /\ [values EXCEPT !.secrets = (@ \/ b)].of = values.of
         /\ [values EXCEPT !.edited = TRUE] \in Values
         /\ [values EXCEPT !.edited = TRUE].of = values.of
  <1>1. values = [of |-> values.of, secrets |-> values.secrets, edited |-> values.edited]
        /\ values.of \in Versions \cup {None} /\ values.secrets \in BOOLEAN /\ values.edited \in BOOLEAN
    BY DEF Values
  <1>2. [values EXCEPT !.secrets = (@ \/ b)] =
          [of |-> values.of, secrets |-> (values.secrets \/ b), edited |-> values.edited]
    BY <1>1
  <1>3. [values EXCEPT !.edited = TRUE] =
          [of |-> values.of, secrets |-> values.secrets, edited |-> TRUE]
    <2>1. \A e : [values EXCEPT !.edited = e] =
                   [of |-> values.of, secrets |-> values.secrets, edited |-> e]
      BY <1>1
    <2> QED BY <2>1
  <1> QED BY <1>1, <1>2, <1>3 DEF Values

\* What a step of a chain does to the list of them.
LEMMA ChainTypes ==
  ASSUME TypeOK, NEW i \in DOMAIN loads, NEW load \in Loads, Continue(i, load) \/ End(i)
  PROVE  loads' \in Seq(Loads) /\ Len(loads') <= MaxLoads
  <1>1. Len(loads) \in Nat /\ Len(loads) <= MaxLoads
    BY LenProperties DEF TypeOK
  <1>2. CASE Continue(i, load)
    BY <1>1, <1>2, ContinueProperties
  <1>3. CASE End(i)
    BY <1>1, <1>3, EndProperties, BoundsAssumption
  <1> QED BY <1>2, <1>3

LEMMA ApplyTypes ==
  ASSUME TypeOK, NEW i \in DOMAIN loads, NEW v \in Versions \cup {None}, Apply(i, loads[i], v)
  PROVE  /\ loads' \in Seq(Loads) /\ Len(loads') <= MaxLoads
         /\ values' \in Values /\ failed' \in BOOLEAN /\ loadingValues' \in BOOLEAN
  <1> DEFINE load == [by |-> "change", awaits |-> "secrets", of |-> loads[i].of]
  <1>1. load \in Loads
    BY LoadParts DEF Loads
  <1>2. Continue(i, load) \/ End(i)
    BY DEF Apply
  <1>3. loads' \in Seq(Loads) /\ Len(loads') <= MaxLoads
    BY <1>1, <1>2, ChainTypes
  <1> QED BY <1>3, SettledForms DEF Apply

LEMMA InfoTypes ==
  ASSUME TypeOK, NEW i \in DOMAIN loads, NEW answer, InfoAnswered(i, answer)
  PROVE  TypeOK'
  <1> DEFINE loaded == IF answer = "values" THEN loads[i].of ELSE None
             load == [by |-> loads[i].by, awaits |-> "fetch", of |-> version]
             loading == loadingValues \/ loads[i].by = "change"
  <1>1. loads[i].of \in Versions /\ loaded \in Versions \cup {None}
    BY LoadParts
  <1>2. info' \in Versions \cup {None} /\ snapshot' \in Versions \cup {None}
    BY <1>1 DEF InfoAnswered
  <1>3. loads' \in Seq(Loads) /\ Len(loads') <= MaxLoads
        /\ values' \in Values /\ failed' \in BOOLEAN /\ loadingValues' \in BOOLEAN
    <2>1. CASE loaded # None
      BY <1>1, <2>1, ApplyTypes DEF InfoAnswered
    <2>2. CASE loaded = None
      <3>1. load \in Loads
        BY LoadParts DEF Loads, TypeOK
      <3>2. Continue(i, load) /\ loadingValues' = loading /\ UNCHANGED <<values, failed>>
        BY <2>2 DEF InfoAnswered
      <3>3. loads' \in Seq(Loads) /\ Len(loads') <= MaxLoads
        BY <3>1, <3>2, ChainTypes
      <3>4. loading \in BOOLEAN
        BY Zenon
      <3> QED BY <3>2, <3>3, <3>4 DEF TypeOK
    <2> QED BY <2>1, <2>2
  <1>4. error' \in BOOLEAN /\ UNCHANGED <<version, wizard, changes>>
    <2>1. error' = (error /\ loads[i].by = "button") /\ UNCHANGED <<version, wizard, changes>>
      BY DEF InfoAnswered
    <2>2. (error /\ loads[i].by = "button") \in BOOLEAN
      BY Zenon
    <2> QED BY <2>1, <2>2
  <1> QED BY <1>2, <1>3, <1>4 DEF TypeOK, wizard

LEMMA FetchTypes ==
  ASSUME TypeOK, NEW i \in DOMAIN loads, NEW answer, FetchAnswered(i, answer)
  PROVE  TypeOK'
  <1> DEFINE load == [by |-> "change", awaits |-> "secrets", of |-> loads[i].of]
  <1>1. snapshot' \in Versions \cup {None} /\ error' \in BOOLEAN
    BY LoadParts DEF FetchAnswered, TypeOK
  <1>2. loads' \in Seq(Loads) /\ Len(loads') <= MaxLoads
        /\ values' \in Values /\ failed' \in BOOLEAN /\ loadingValues' \in BOOLEAN
    <2>1. CASE answer = "values"
      BY <2>1, LoadParts, ApplyTypes DEF FetchAnswered
    <2>2. CASE answer # "values"
      <3>1. load \in Loads
        BY LoadParts DEF Loads
      <3>2. (Continue(i, load) \/ End(i)) /\ failed' = TRUE /\ loadingValues' = FALSE /\ values' = values
        BY <2>2 DEF FetchAnswered
      <3>3. loads' \in Seq(Loads) /\ Len(loads') <= MaxLoads
        BY <3>1, <3>2, ChainTypes
      <3> QED BY <3>2, <3>3 DEF TypeOK
    <2> QED BY <2>1, <2>2
  <1>3. UNCHANGED <<version, info, wizard, changes>>
    BY DEF FetchAnswered
  <1> QED BY <1>1, <1>2, <1>3 DEF TypeOK, wizard

LEMMA SecretsTypes ==
  ASSUME TypeOK, NEW i \in DOMAIN loads, NEW answer, SecretsAnswered(i, answer)
  PROVE  TypeOK' /\ values'.of = values.of
  <1>1. values' \in Values /\ values'.of = values.of
    BY ChangedValues DEF SecretsAnswered, TypeOK
  <1>2. loads' \in Seq(Loads) /\ Len(loads') <= MaxLoads
    BY LoadParts, ChainTypes DEF SecretsAnswered
  <1>3. UNCHANGED <<version, info, snapshot, error, failed, loadingValues, wizard, changes>>
    BY DEF SecretsAnswered
  <1> QED BY <1>1, <1>2, <1>3 DEF TypeOK, wizard

LEMMA AnsweredTypes ==
  ASSUME TypeOK, NEW i \in DOMAIN loads, Answered(i)
  PROVE  TypeOK'
  BY InfoTypes, FetchTypes, SecretsTypes DEF Answered

LEMMA StartTypes ==
  ASSUME TypeOK, NEW load \in Loads, Len(loads) < MaxLoads
  PROVE  /\ Append(loads, load) \in Seq(Loads) /\ Len(Append(loads, load)) <= MaxLoads
         /\ Len(Append(loads, load)) = Len(loads) + 1
         /\ \A i \in 1..Len(loads) : Append(loads, load)[i] = loads[i]
         /\ Append(loads, load)[Len(loads) + 1] = load
  <1>1. loads \in Seq(Loads) /\ Len(loads) \in Nat
    BY LenProperties DEF TypeOK
  <1> QED BY <1>1, AppendProperties, BoundsAssumption

LEMMA ChangeTypes ==
  ASSUME TypeOK, NEW v \in Versions, ChangeVersion(v)
  PROVE  TypeOK'
  <1>1. [by |-> "change", awaits |-> IF info = v THEN "fetch" ELSE "info", of |-> v] \in Loads
    BY DEF Loads
  <1>2. loads' \in Seq(Loads) /\ Len(loads') <= MaxLoads
    BY <1>1, StartTypes DEF ChangeVersion
  <1>3. changes' \in 0..MaxChanges
    BY BoundsAssumption DEF ChangeVersion, TypeOK
  <1>4. loadingValues' \in BOOLEAN /\ error' \in BOOLEAN
    <2>1. loadingValues' = (loadingValues \/ info = v) /\ error' = (error /\ info # v)
      BY DEF ChangeVersion
    <2>2. \A a, b : (a \/ b) \in BOOLEAN /\ (a /\ b) \in BOOLEAN
      OBVIOUS
    <2> QED BY <2>1, <2>2, Zenon
  <1>5. version' = v /\ info' = None /\ snapshot' = None /\ UNCHANGED <<values, failed, wizard>>
    BY DEF ChangeVersion
  <1> QED BY <1>2, <1>3, <1>4, <1>5 DEF TypeOK, wizard

LEMMA DefaultsTypes ==
  ASSUME TypeOK, LoadDefaults
  PROVE  TypeOK'
  <1> DEFINE load == [by |-> "button", awaits |-> IF info = version THEN "fetch" ELSE "info",
                      of |-> version]
  <1>1. changes' \in 0..MaxChanges /\ error' \in BOOLEAN
    <2>1. changes' \in 0..MaxChanges
      BY BoundsAssumption DEF LoadDefaults, TypeOK
    <2>2. error' \in BOOLEAN
      BY Zenon DEF LoadDefaults
    <2> QED BY <2>1, <2>2
  <1>2. loads' \in Seq(Loads) /\ Len(loads') <= MaxLoads /\ values' \in Values /\ loadingValues' \in BOOLEAN
    <2>1. CASE info = version /\ snapshot # None
      BY <2>1, SettledForms DEF LoadDefaults, TypeOK
    <2>2. CASE ~(info = version /\ snapshot # None)
      <3>1. load \in Loads
        BY DEF Loads, TypeOK
      <3>2. loads' = Append(loads, load) /\ loadingValues' = TRUE /\ values' = values
            /\ Len(loads) < MaxLoads
        BY <2>2 DEF LoadDefaults
      <3> QED BY <3>1, <3>2, StartTypes DEF TypeOK
    <2> QED BY <2>1, <2>2
  <1>3. UNCHANGED <<version, info, snapshot, failed, wizard>>
    BY DEF LoadDefaults
  <1> QED BY <1>1, <1>2, <1>3 DEF TypeOK, wizard

LEMMA OtherTypes ==
  ASSUME TypeOK, EditValues \/ PickClusters \/ Submit \/ (\E s \in 0..3 : GoTo(s))
  PROVE  TypeOK'
  <1>1. CASE EditValues
    <2>1. values' \in Values
      BY <1>1, ChangedValues DEF EditValues, TypeOK
    <2> QED BY <1>1, <2>1 DEF EditValues, TypeOK, wizard
  <1>2. CASE PickClusters
    BY <1>2 DEF PickClusters, TypeOK, form
  <1>3. CASE Submit
    BY <1>3 DEF Submit, TypeOK
  <1>4. ASSUME NEW s \in 0..3, GoTo(s) PROVE TypeOK'
    BY <1>4 DEF GoTo, TypeOK, form
  <1> QED BY <1>1, <1>2, <1>3, <1>4

LEMMA InstallTypes ==
  ASSUME TypeOK, Install
  PROVE  /\ TypeOK' /\ Len(installed') = Len(installed) + 1
         /\ \A i \in 1..Len(installed) : installed'[i] = installed[i]
         /\ installed'[Len(installed) + 1] =
              [version |-> version, values |-> values, settled |-> loads = <<>> /\ ~failed]
  <1> DEFINE sent == [version |-> version, values |-> values, settled |-> loads = <<>> /\ ~failed]
  <1>1. sent \in Sent /\ installed \in Seq(Sent)
    <2>1. (loads = <<>> /\ ~failed) \in BOOLEAN
      BY Zenon
    <2>2. version \in Versions /\ values \in Values /\ installed \in Seq(Sent)
      BY DEF TypeOK
    <2>3. \A b \in BOOLEAN : [version |-> version, values |-> values, settled |-> b] \in Sent
      BY <2>2 DEF Sent
    <2> QED BY <2>1, <2>2, <2>3, Zenon
  <1>2. Len(installed) \in Nat
    BY <1>1, LenProperties
  <1> HIDE DEF sent
  <1>3. /\ Append(installed, sent) \in Seq(Sent)
        /\ Len(Append(installed, sent)) = Len(installed) + 1
        /\ \A i \in 1..Len(installed) : Append(installed, sent)[i] = installed[i]
        /\ Append(installed, sent)[Len(installed) + 1] = sent
    BY <1>1, <1>2, AppendProperties
  <1>4. installed' = Append(installed, sent) /\ Len(installed) < Attempts
        /\ UNCHANGED <<form, step, picked, submitted, changes>>
    BY Zenon DEF Install, sent
  <1>5. installed' \in Seq(Sent) /\ Len(installed') <= Attempts
    BY <1>2, <1>3, <1>4, BoundsAssumption
  <1>6. TypeOK'
    BY <1>4, <1>5 DEF TypeOK, form
  <1> QED BY <1>3, <1>4, <1>6 DEF sent

LEMMA TypeStep == TypeOK /\ [Next]_vars => TypeOK'
  <1> SUFFICES ASSUME TypeOK, [Next]_vars PROVE TypeOK'
    OBVIOUS
  <1>1. CASE User
    BY <1>1, ChangeTypes, DefaultsTypes, OtherTypes DEF User
  <1>2. CASE Install \/ NamesLoaded
    BY <1>2, InstallTypes DEF NamesLoaded, TypeOK, form
  <1>3. ASSUME NEW i \in DOMAIN loads, Answered(i) PROVE TypeOK'
    BY <1>3, AnsweredTypes
  <1>4. CASE UNCHANGED vars
    BY <1>4 DEF TypeOK, vars
  <1> QED BY <1>1, <1>2, <1>3, <1>4 DEF Next

LEMMA InitTypes == Init => TypeOK
  <1> SUFFICES ASSUME Init PROVE TypeOK
    OBVIOUS
  <1>1. loads \in Seq(Loads) /\ Len(loads) <= MaxLoads
    BY EmptySeq, BoundsAssumption DEF Init
  <1>2. installed \in Seq(Sent) /\ Len(installed) <= Attempts
    BY EmptySeq, BoundsAssumption DEF Init
  <1>3. error \in BOOLEAN /\ failed \in BOOLEAN /\ loadingValues \in BOOLEAN
    BY DEF Init
  <1>4. changes \in 0..MaxChanges
    BY BoundsAssumption DEF Init
  <1>5. /\ version \in Versions /\ info \in Versions \cup {None} /\ snapshot \in Versions \cup {None}
        /\ values \in Values
    <2>1. version \in Versions /\ info \in {version, None} /\ snapshot \in {version, None}
      BY DEF Init
    <2>2. values \in Values
      BY DEF Init
    <2> QED BY <2>1, <2>2
  <1>6. step \in 0..3 /\ picked \in BOOLEAN /\ submitted \in {"no", "naming", "shown"}
    <2>1. picked \in BOOLEAN
      BY Zenon DEF Init
    <2> QED BY <2>1 DEF Init
  <1> QED BY <1>1, <1>2, <1>3, <1>4, <1>5, <1>6 DEF TypeOK

(***************************************************************************)
(* Every variable keeps its type, in whatever order the answers come.      *)
(***************************************************************************)
THEOREM TypeCorrect == Spec => []TypeOK
  BY InitTypes, TypeStep, PTL DEF Spec

-----------------------------------------------------------------------------
(***************************************************************************)
(* The inductive invariant, when answers come in order.  SettledValues     *)
(* alone says nothing while loads are in flight; what makes it true is     *)
(* that the last of them which is to bring values asks for the selected    *)
(* version (Latest): it is answered after all that could bring others.     *)
(***************************************************************************)

\* A load that is to bring values.
Brings(load) == load.awaits # "secrets"

\* The last load to bring values asks for the selected version.
Latest ==
  \A i \in DOMAIN loads :
    Brings(loads[i]) /\ (\A j \in DOMAIN loads : Brings(loads[j]) => j <= i) => loads[i].of = version

\* When none is to come, and the last did not fail, its values are in the form, and are
\* what Load defaults would take.
Quiet == \A i \in DOMAIN loads : ~Brings(loads[i])
Loaded ==
  Quiet /\ ~failed =>
    /\ values.of = version
    /\ info = version /\ snapshot # None => snapshot = version

\* What was sent is of the selected version, and if it was read with every load ended well
\* the form still holds it, and so did every attempt from then on.
SentSettled(i) ==
  installed[i].settled => loads = <<>> /\ ~failed /\ installed[i].values = values

Submission ==
  /\ submitted # "shown" => installed = <<>>
  /\ \A i \in DOMAIN installed : installed[i].version = version /\ SentSettled(i)
  /\ \A i, j \in DOMAIN installed : installed[i].settled /\ i <= j => installed[j].settled

IInv == Latest /\ Loaded /\ Submission

\* While the form can be changed nothing has been sent.
LEMMA NothingSent ==
  ASSUME IInv, Editable, installed' = installed
  PROVE  Submission'
  <1>1. installed' = <<>>
    BY DEF IInv, Submission, Editable
  <1>2. DOMAIN installed' = {}
    BY <1>1
  <1> QED BY <1>1, <1>2 DEF Submission

\* A load that is to bring values of the selected version, and comes last.
LEMMA BringsLast ==
  ASSUME NEW n \in Nat \ {0}, loads' \in Seq(Loads), Len(loads') = n,
         Brings(loads'[n]), loads'[n].of = version'
  PROVE  Latest' /\ ~Quiet'
  <1>1. DOMAIN loads' = 1..n
    BY LenProperties
  <1>2. ~Quiet'
    BY <1>1 DEF Quiet, Brings
  <1>3. Latest'
    <2> SUFFICES ASSUME NEW i \in 1..n,
                        \A j \in 1..n : loads'[j].awaits # "secrets" => j <= i
                 PROVE  loads'[i].of = version'
      BY <1>1 DEF Latest, Brings
    <2>1. n <= i
      BY DEF Brings
    <2> QED BY <2>1
  <1> QED BY <1>2, <1>3

\* The first load leaves, or goes on for the secrets only.
LEMMA FirstLeaves ==
  ASSUME TypeOK, Latest, 1 \in DOMAIN loads, version' = version,
         NEW load \in Loads, ~Brings(load), Continue(1, load) \/ End(1)
  PROVE  /\ Latest'
         /\ Quiet' /\ Brings(loads[1]) => loads[1].of = version
         /\ Quiet' /\ ~Brings(loads[1]) => Quiet
  <1> DEFINE n == Len(loads)
  <1>1. n \in Nat \ {0} /\ DOMAIN loads = 1..n
    BY LenProperties DEF TypeOK
  <1>0. n = Len(loads)
    OBVIOUS
  <1> HIDE DEF n
  <1>2. /\ \A j \in 1..(n - 1) : j \in DOMAIN loads' /\ loads'[j] = loads[j + 1]
        /\ \A j \in DOMAIN loads' : j \in 1..n /\ (j \notin 1..(n - 1) => loads'[j] = load)
    <2>1. CASE Continue(1, load)
      <3>1. loads' \in Seq(Loads) /\ Len(loads') = n /\ loads'[n] = load
            /\ \A j \in 1..(n - 1) : loads'[j] = loads[j + 1]
        BY <2>1, <1>0, <1>1, ContinueProperties
      <3>2. DOMAIN loads' = 1..n
        BY <3>1, LenProperties
      <3> QED BY <1>1, <3>1, <3>2
    <2>2. CASE End(1)
      <3>1. loads' \in Seq(Loads) /\ Len(loads') = n - 1
            /\ \A j \in 1..(n - 1) : loads'[j] = loads[j + 1]
        BY <2>2, <1>0, <1>1, EndProperties
      <3>2. DOMAIN loads' = 1..(n - 1)
        BY <3>1, LenProperties
      <3> QED BY <1>1, <3>1, <3>2
    <2> QED BY <2>1, <2>2
  <1>3. Latest'
    <2> SUFFICES ASSUME NEW i \in DOMAIN loads', Brings(loads'[i]),
                        \A j \in DOMAIN loads' : Brings(loads'[j]) => j <= i
                 PROVE  loads'[i].of = version
      BY DEF Latest, Brings
    <2>1. i \in 1..(n - 1) /\ loads'[i] = loads[i + 1] /\ i + 1 \in 1..n
      BY <1>1, <1>2
    <2>2. ASSUME NEW j \in 1..n, Brings(loads[j]) PROVE j <= i + 1
      <3>1. CASE j = 1
        BY <3>1, <2>1
      <3>2. CASE j # 1
        <4>1. j - 1 \in 1..(n - 1) /\ loads'[j - 1] = loads[j]
          BY <1>1, <1>2, <3>2
        <4>2. j - 1 <= i
          BY <1>2, <2>2, <4>1
        <4> QED BY <4>2, <2>1
      <3> QED BY <3>1, <3>2
    <2> QED BY <1>1, <2>1, <2>2 DEF Latest
  <1>4. ASSUME Quiet', NEW j \in 1..n, j # 1 PROVE ~Brings(loads[j])
    <2>1. j - 1 \in 1..(n - 1) /\ loads'[j - 1] = loads[j] /\ j - 1 \in DOMAIN loads'
      BY <1>1, <1>2, <1>4
    <2> QED BY <1>4, <2>1 DEF Quiet, Brings
  <1>5. Quiet' /\ Brings(loads[1]) => loads[1].of = version
    <2> SUFFICES ASSUME Quiet', Brings(loads[1]) PROVE loads[1].of = version
      OBVIOUS
    <2>1. \A j \in 1..n : Brings(loads[j]) => j <= 1
      BY <1>4
    <2> QED BY <1>1, <2>1 DEF Latest
  <1>6. Quiet' /\ ~Brings(loads[1]) => Quiet
    BY <1>1, <1>4 DEF Quiet
  <1> QED BY <1>3, <1>5, <1>6

\* Values are put in the form and taken for the snapshot.
LEMMA Applied ==
  ASSUME TypeOK, Latest, 1 \in DOMAIN loads, Brings(loads[1]), version' = version,
         Apply(1, loads[1], loads[1].of), snapshot' = loads[1].of
  PROVE  Latest' /\ Loaded'
  <1> DEFINE load == [by |-> "change", awaits |-> "secrets", of |-> loads[1].of]
  <1>1. load \in Loads /\ loads[1].of \in Versions
    BY LoadParts DEF Loads
  <1>2. ~Brings(load) /\ (Continue(1, load) \/ End(1))
    BY DEF Brings, Apply
  <1>3. Latest' /\ (Quiet' => loads[1].of = version)
    BY <1>1, <1>2, FirstLeaves
  <1>4. values'.of = loads[1].of
    BY <1>1, SettledForms DEF Apply
  <1> QED BY <1>3, <1>4 DEF Loaded

LEMMA InfoKeeps ==
  ASSUME TypeOK, Latest, Loaded, 1 \in DOMAIN loads, NEW answer, InfoAnswered(1, answer)
  PROVE  Latest' /\ Loaded'
  <1> DEFINE load == [by |-> loads[1].by, awaits |-> "fetch", of |-> version]
  <1>1. Brings(loads[1]) /\ version' = version /\ loads[1].of \in Versions
    BY LoadParts DEF InfoAnswered, Brings
  <1>2. CASE answer = "values"
    <2>1. loads[1].of # None
      BY <1>1, NoneAssumption
    <2>2. Apply(1, loads[1], loads[1].of) /\ snapshot' = loads[1].of
      BY <1>2, <2>1 DEF InfoAnswered
    <2> QED BY <1>1, <2>2, Applied
  <1>3. CASE answer # "values"
    <2>1. Continue(1, load)
      BY <1>3 DEF InfoAnswered
    <2>2. load \in Loads /\ load.awaits = "fetch" /\ load.of = version
      BY LoadParts DEF Loads, TypeOK
    <2>3. Len(loads) \in Nat \ {0}
      BY LenProperties DEF TypeOK
    <2>4. loads' \in Seq(Loads) /\ Len(loads') = Len(loads) /\ loads'[Len(loads)] = load
      BY <2>1, <2>2, ContinueProperties
    <2>5. Latest' /\ ~Quiet'
      BY <1>1, <2>2, <2>3, <2>4, BringsLast DEF Brings
    <2> QED BY <2>5 DEF Loaded
  <1> QED BY <1>2, <1>3

LEMMA FetchKeeps ==
  ASSUME TypeOK, Latest, Loaded, 1 \in DOMAIN loads, NEW answer, FetchAnswered(1, answer)
  PROVE  Latest' /\ Loaded'
  <1> DEFINE load == [by |-> "change", awaits |-> "secrets", of |-> loads[1].of]
  <1>1. Brings(loads[1]) /\ version' = version
    BY DEF FetchAnswered, Brings
  <1>2. CASE answer = "values"
    BY <1>1, <1>2, Applied DEF FetchAnswered
  <1>3. CASE answer # "values"
    <2>1. load \in Loads /\ ~Brings(load)
      BY LoadParts DEF Loads, Brings
    <2>2. (Continue(1, load) \/ End(1)) /\ failed'
      BY <1>3 DEF FetchAnswered
    <2> QED BY <1>1, <2>1, <2>2, FirstLeaves DEF Loaded
  <1> QED BY <1>2, <1>3

LEMMA SecretsKeeps ==
  ASSUME TypeOK, Latest, Loaded, 1 \in DOMAIN loads, NEW answer, SecretsAnswered(1, answer)
  PROVE  Latest' /\ Loaded'
  <1>1. ~Brings(loads[1]) /\ loads[1] \in Loads /\ End(1)
        /\ UNCHANGED <<version, info, snapshot, failed>>
    BY LoadParts DEF SecretsAnswered, Brings
  <1>2. Latest' /\ (Quiet' => Quiet)
    BY <1>1, FirstLeaves
  <1>3. values'.of = values.of
    BY SecretsTypes
  <1> QED BY <1>1, <1>2, <1>3 DEF Loaded

\* While a load is in flight nothing was sent with every load ended.
LEMMA AnsweredKeeps ==
  ASSUME TypeOK, IInv, loads # <<>>, Answered(1)
  PROVE  IInv'
  <1>1. 1 \in DOMAIN loads
    BY EmptySeq, LenProperties DEF TypeOK
  <1>2. Latest' /\ Loaded'
    BY <1>1, InfoKeeps, FetchKeeps, SecretsKeeps DEF Answered, IInv
  <1>3. UNCHANGED <<version, submitted, installed>>
    BY DEF Answered, InfoAnswered, FetchAnswered, SecretsAnswered, wizard
  <1>4. Submission'
    BY <1>3 DEF Submission, SentSettled, IInv
  <1> QED BY <1>2, <1>4 DEF IInv

\* A request for the selected version joins the others.
LEMMA Requested ==
  ASSUME TypeOK, NEW load \in Loads, Len(loads) < MaxLoads, loads' = Append(loads, load),
         Brings(load), load.of = version'
  PROVE  Latest' /\ ~Quiet'
  <1> DEFINE n == Len(loads) + 1
  <1>1. n \in Nat \ {0}
    BY LenProperties DEF TypeOK
  <1>2. loads' \in Seq(Loads) /\ Len(loads') = n /\ loads'[n] = load
    BY StartTypes
  <1> QED BY <1>1, <1>2, BringsLast

LEMMA ChangeKeeps ==
  ASSUME TypeOK, IInv, NEW v \in Versions, ChangeVersion(v)
  PROVE  IInv'
  <1> DEFINE load == [by |-> "change", awaits |-> IF info = v THEN "fetch" ELSE "info", of |-> v]
  <1>1. load \in Loads /\ Brings(load) /\ load.of = v
    BY DEF Loads, Brings
  <1>2. loads' = Append(loads, load) /\ version' = v /\ Len(loads) < MaxLoads
    BY DEF ChangeVersion
  <1>3. Latest' /\ ~Quiet'
    BY <1>1, <1>2, Requested
  <1>4. Submission'
    BY NothingSent DEF ChangeVersion, wizard
  <1> QED BY <1>3, <1>4 DEF IInv, Loaded

LEMMA DefaultsKeep ==
  ASSUME TypeOK, IInv, LoadDefaults
  PROVE  IInv'
  <1> DEFINE load == [by |-> "button", awaits |-> IF info = version THEN "fetch" ELSE "info",
                      of |-> version]
  <1>1. Submission' /\ UNCHANGED <<version, info, snapshot, failed>>
    BY NothingSent DEF LoadDefaults, wizard
  <1>2. CASE info = version /\ snapshot # None
    <2>1. loads' = loads /\ values'.of = snapshot
      BY <1>2, SettledForms DEF LoadDefaults, TypeOK
    <2>2. Latest' /\ (Quiet' => Quiet)
      BY <1>1, <2>1 DEF IInv, Latest, Quiet
    <2>3. Loaded'
      BY <1>1, <1>2, <2>1, <2>2 DEF IInv, Loaded
    <2> QED BY <1>1, <2>2, <2>3 DEF IInv
  <1>3. CASE ~(info = version /\ snapshot # None)
    <2>1. load \in Loads /\ Brings(load) /\ load.of = version
      BY DEF Loads, Brings, TypeOK
    <2>2. loads' = Append(loads, load) /\ Len(loads) < MaxLoads
      BY <1>3 DEF LoadDefaults
    <2>3. Latest' /\ ~Quiet'
      BY <1>1, <2>1, <2>2, Requested
    <2> QED BY <1>1, <2>3 DEF IInv, Loaded
  <1> QED BY <1>2, <1>3

LEMMA UserKeeps ==
  ASSUME TypeOK, IInv, User
  PROVE  IInv'
  <1>1. ASSUME NEW v \in Versions, ChangeVersion(v) PROVE IInv'
    BY <1>1, ChangeKeeps
  <1>2. CASE LoadDefaults
    BY <1>2, DefaultsKeep
  <1>3. CASE EditValues
    <2>1. values'.of = values.of /\ UNCHANGED <<version, info, snapshot, failed, loads>>
      BY <1>3, ChangedValues DEF EditValues, TypeOK
    <2>2. Submission'
      BY <1>3, NothingSent DEF EditValues, wizard
    <2> QED BY <2>1, <2>2 DEF IInv, Latest, Loaded, Quiet
  <1>4. CASE PickClusters \/ Submit \/ \E s \in 0..3 : GoTo(s)
    <2>1. UNCHANGED <<version, info, snapshot, values, failed, loads, installed>> /\ Editable
      BY <1>4 DEF PickClusters, Submit, GoTo, form, Editable
    <2>2. Submission'
      BY <2>1, NothingSent
    <2> QED BY <2>1, <2>2 DEF IInv, Latest, Loaded, Quiet
  <1> QED BY <1>1, <1>2, <1>3, <1>4 DEF User

LEMMA NamesKeep ==
  ASSUME IInv, NamesLoaded
  PROVE  IInv'
  <1>1. UNCHANGED <<version, info, snapshot, values, failed, loads, installed>> /\ Editable
    BY DEF NamesLoaded, form, Editable
  <1>2. Submission'
    BY <1>1, NothingSent
  <1> QED BY <1>1, <1>2 DEF IInv, Latest, Loaded, Quiet

LEMMA InstallKeeps ==
  ASSUME TypeOK, IInv, Install
  PROVE  IInv'
  <1> DEFINE n == Len(installed) + 1
  <1>1. UNCHANGED <<version, info, snapshot, values, failed, loads, submitted>> /\ submitted = "shown"
    BY DEF Install, form
  <1>2. Latest' /\ Loaded'
    BY <1>1 DEF IInv, Latest, Loaded, Quiet
  <1>3. /\ Len(installed) \in Nat /\ Len(installed') = n
        /\ DOMAIN installed = 1..Len(installed) /\ DOMAIN installed' = 1..n
        /\ \A i \in 1..Len(installed) : installed'[i] = installed[i]
        /\ installed'[n].version = version /\ installed'[n].values = values
        /\ installed'[n].settled = (loads = <<>> /\ ~failed)
    <2>1. /\ Len(installed) \in Nat /\ DOMAIN installed = 1..Len(installed)
          /\ Len(installed') \in Nat /\ DOMAIN installed' = 1..Len(installed')
      BY InstallTypes, LenProperties DEF TypeOK
    <2>2. /\ Len(installed') = n /\ \A i \in 1..Len(installed) : installed'[i] = installed[i]
          /\ installed'[n] = [version |-> version, values |-> values, settled |-> loads = <<>> /\ ~failed]
      BY InstallTypes
    <2>3. \A b : LET sent == [version |-> version, values |-> values, settled |-> b]
                  IN  sent.version = version /\ sent.values = values /\ sent.settled = b
      OBVIOUS
    <2>4. installed'[n].version = version /\ installed'[n].values = values
          /\ installed'[n].settled = (loads = <<>> /\ ~failed)
      BY <2>2, <2>3, Zenon
    <2> QED BY <2>1, <2>2, <2>4
  <1> HIDE DEF n
  <1>4. n = Len(installed) + 1
    BY DEF n
  <1>5. \A i \in DOMAIN installed' : i = n \/ (i \in DOMAIN installed /\ installed'[i] = installed[i])
    BY <1>3, <1>4
  <1>6. \A i \in DOMAIN installed' : installed'[i].version = version' /\ SentSettled(i)'
    BY <1>1, <1>3, <1>5 DEF IInv, Submission, SentSettled
  <1>7. ASSUME NEW i \in DOMAIN installed', NEW j \in DOMAIN installed', installed'[i].settled, i <= j
        PROVE  installed'[j].settled
    <2>1. loads = <<>> /\ ~failed
      BY <1>1, <1>6, <1>7 DEF SentSettled
    <2>2. CASE j = n
      BY <1>3, <2>1, <2>2
    <2>3. CASE j # n
      <3>1. i # n /\ i \in DOMAIN installed /\ j \in DOMAIN installed
        BY <1>3, <1>4, <1>5, <1>7, <2>3
      <3> QED BY <1>5, <1>7, <2>3, <3>1 DEF IInv, Submission
    <2> QED BY <2>2, <2>3
  <1> QED BY <1>1, <1>2, <1>6, <1>7 DEF IInv, Submission

LEMMA Start == Init => IInv
  <1> SUFFICES ASSUME Init PROVE IInv
    OBVIOUS
  <1>1. loads = <<>> /\ installed = <<>> /\ submitted = "no"
    BY DEF Init
  <1>2. ~failed => snapshot # None
    BY Zenon DEF Init
  <1>3. snapshot \in {version, None} /\ values.of = snapshot
    BY DEF Init
  <1>4. DOMAIN loads = {}
    BY <1>1
  <1>5. Latest /\ Loaded
    BY <1>2, <1>3, <1>4 DEF Latest, Loaded
  <1>6. DOMAIN installed = {}
    BY <1>1
  <1> QED BY <1>1, <1>5, <1>6 DEF IInv, Submission

LEMMA Step == TypeOK /\ IInv /\ [OrderedNext]_vars => IInv'
  <1> SUFFICES ASSUME TypeOK, IInv, [OrderedNext]_vars PROVE IInv'
    OBVIOUS
  <1>1. CASE UNCHANGED vars
    BY <1>1 DEF vars, IInv, Latest, Loaded, Quiet, Submission, SentSettled
  <1> QED BY <1>1, UserKeeps, NamesKeep, InstallKeeps, AnsweredKeeps DEF OrderedNext

LEMMA OrderedIsNext == TypeOK /\ [OrderedNext]_vars => [Next]_vars
  <1> SUFFICES ASSUME TypeOK, loads # <<>> PROVE 1 \in DOMAIN loads
    BY DEF OrderedNext, Next
  <1> QED BY EmptySeq, LenProperties DEF TypeOK

LEMMA Invariance == OrderedSpec => [](TypeOK /\ IInv)
  BY InitTypes, Start, TypeStep, Step, OrderedIsNext, PTL DEF OrderedSpec

(***************************************************************************)
(* Answers arriving in order, the form ends with the values of the version *)
(* selected last (onVersionChange, loadDefaultValues).                     *)
(***************************************************************************)
THEOREM FormSettles == OrderedSpec => []SettledValues
  <1>1. IInv => SettledValues
    BY EmptySeq DEF IInv, Loaded, Quiet, SettledValues
  <1> QED BY <1>1, Invariance, PTL

(***************************************************************************)
(* Answers arriving in order, every cluster of a submission gets one       *)
(* version, and those that are reached when every load has ended well its  *)
(* own values, the same on each (submit, installToCluster): also when the  *)
(* form changes while the clusters' names are asked for.                   *)
(***************************************************************************)
THEOREM SubmissionMatches == OrderedSpec => []InstalledMatches
  <1>1. ASSUME TypeOK, IInv PROVE InstalledMatches
    <2> SUFFICES ASSUME NEW i \in DOMAIN installed, NEW j \in DOMAIN installed
                 PROVE  /\ installed[i].version = installed[j].version
                        /\ installed[i].settled => installed[i].values.of = installed[i].version
                        /\ installed[i].settled /\ i <= j => installed[j] = installed[i]
      BY DEF InstalledMatches
    <2>1. installed[i].version = version /\ installed[j].version = version
      BY <1>1 DEF IInv, Submission
    <2>2. installed[i].settled => installed[i].values.of = version
      <3>1. loads = <<>> => Quiet
        BY EmptySeq DEF Quiet
      <3> QED BY <1>1, <3>1 DEF IInv, Loaded, Submission, SentSettled
    <2>3. installed[i].settled /\ i <= j => installed[j] = installed[i]
      <3>1. installed[i] \in Sent /\ installed[j] \in Sent
        BY <1>1, ElementOfSeq, LenProperties DEF TypeOK
      <3>2. ASSUME installed[i].settled, i <= j PROVE installed[j].settled /\ installed[j].values = installed[i].values
        BY <1>1, <3>2 DEF IInv, Submission, SentSettled
      <3>3. \A a, b \in Sent : a.version = b.version /\ a.values = b.values /\ a.settled = b.settled => a = b
        BY DEF Sent
      <3>4. \A a \in Sent : a.settled \in BOOLEAN
        BY DEF Sent
      <3> QED BY <2>1, <3>1, <3>2, <3>3, <3>4
    <2> QED BY <2>1, <2>2, <2>3
  <1> QED BY <1>1, Invariance, PTL
=============================================================================
