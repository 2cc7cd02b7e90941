------------------------------ MODULE LawsProofs ------------------------------
(*****************************************************************************)
(* Theorems about the functions without state: that their laws hold for      *)
(* every input of the types of Laws.  One lemma or a few per law, by module, *)
(* and then what they say of the inputs, by kind.                            *)
(*****************************************************************************)
EXTENDS Services, Integers, Sequences, ListsProofs

-----------------------------------------------------------------------------
(* Numbers and finite sets. *)

LEMMA Greatest ==
  ASSUME NEW n \in Nat, NEW T \in SUBSET (0 .. n), T # {}
  PROVE  \E x \in T : \A y \in T : y <= x
  <1> DEFINE D == {n - t : t \in T}
  <1>1. PICK d \in D : \A e \in D : d <= e
    <2>1. \A t \in T : n - t \in Nat
      OBVIOUS
    <2>2. D \in SUBSET Nat /\ D # {}
      BY <2>1
    <2> QED BY <2>2, NatLeast
  <1>2. PICK x \in T : d = n - x
    OBVIOUS
  <1>3. ASSUME NEW y \in T PROVE y <= x
    <2>1. d <= n - y
      BY <1>1
    <2> QED BY <2>1, <1>2
  <1> QED BY <1>3

LEMMA MoreThanOne ==
  ASSUME NEW T, IsFiniteSet(T), NEW a \in T, NEW b \in T, a # b
  PROVE  Cardinality(T) > 1
  <1>1. IsFiniteSet({a}) /\ Cardinality({a}) = 1 /\ b \notin {a}
    BY FS_Singleton
  <1>2. Cardinality({a} \cup {b}) = 2
    BY <1>1, FS_AddElement
  <1>3. Cardinality({a} \cup {b}) <= Cardinality(T)
    <2>1. {a} \cup {b} \in SUBSET T
      OBVIOUS
    <2> QED BY <2>1, FS_Subset
  <1>4. Cardinality(T) \in Nat
    BY FS_CardinalityType
  <1> QED BY <1>2, <1>3, <1>4

LEMMA Apart ==
  ASSUME NEW T, NEW U, IsFiniteSet(T), IsFiniteSet(U), T \cap U = {}
  PROVE  /\ IsFiniteSet(T \cup U)
         /\ Cardinality(T \cup U) = Cardinality(T) + Cardinality(U)
         /\ Cardinality(T) \in Nat /\ Cardinality(U) \in Nat
  <1>1. Cardinality(T \cap U) = 0
    BY FS_EmptySet
  <1>2. /\ IsFiniteSet(T \cup U)
        /\ Cardinality(T \cup U) = Cardinality(T) + Cardinality(U) - Cardinality(T \cap U)
    BY FS_Union
  <1>3. Cardinality(T) \in Nat /\ Cardinality(U) \in Nat
    BY FS_CardinalityType
  <1> QED BY <1>1, <1>2, <1>3

LEMMA FiniteRange ==
  ASSUME NEW f, IsFiniteSet(DOMAIN f)
  PROVE  IsFiniteSet({f[k] : k \in DOMAIN f})
  <1> DEFINE T == {f[k] : k \in DOMAIN f}
             g == [k \in DOMAIN f |-> f[k]]
  <1>1. g \in Surjection(DOMAIN f, T)
    BY DEF Surjection
  <1> QED BY <1>1, FS_Surjection

-----------------------------------------------------------------------------
(* Statuses (AppStatus). *)

LEMMA Health ==
  ASSUME NEW ready \in Nat, NEW total \in Nat, NEW failing \in BOOLEAN, NEW critical \in BOOLEAN, ready <= total
  PROVE  L!S!HealthFits(ready, total, failing, critical)
  BY DEF L!S!HealthFits, L!S!calculateHealthStatus, L!S!Rank, L!S!needsAttention, L!S!HEALTH_STATUS_DISPLAY, L!S!Moving

Weight(list, n) == L!S!INSTALLATION_STATUS_DISPLAY(list[n]).priority

\* calculateAppStatus's sort leaves one of those with the highest priority first.
LEMMA FirstFound ==
  ASSUME NEW list \in Seq(L!S!Phases), list # <<>>
  PROVE  \E n \in DOMAIN list :
            /\ \A m \in DOMAIN list : Weight(list, m) <= Weight(list, n)
            /\ \A m \in 1 .. n - 1 : Weight(list, m) < Weight(list, n)
  <1>1. DOMAIN list = 1 .. Len(list) /\ Len(list) \in Nat \ {0}
    OBVIOUS
  <1>2. \A n \in DOMAIN list : Weight(list, n) \in 0 .. 5
    <2> SUFFICES ASSUME NEW n \in DOMAIN list PROVE Weight(list, n) \in 0 .. 5
      OBVIOUS
    <2>1. list[n] \in L!S!Phases
      OBVIOUS
    <2> QED BY <2>1 DEF Weight, L!S!INSTALLATION_STATUS_DISPLAY, L!S!Phases, L!S!Moving
  <1>3. PICK w \in {Weight(list, n) : n \in DOMAIN list} :
           \A v \in {Weight(list, n) : n \in DOMAIN list} : v <= w
    <2>1. {Weight(list, n) : n \in DOMAIN list} \in SUBSET (0 .. 5)
      BY <1>2
    <2>2. {Weight(list, n) : n \in DOMAIN list} # {}
      BY <1>1
    <2> QED BY <2>1, <2>2, Greatest
  <1>4. PICK n \in {m \in DOMAIN list : Weight(list, m) = w} :
           \A m \in {k \in DOMAIN list : Weight(list, k) = w} : n <= m
    <2> DEFINE T == {m \in DOMAIN list : Weight(list, m) = w}
    <2>1. T \in SUBSET Nat /\ T # {}
      BY <1>1, <1>3
    <2> QED BY <2>1, NatLeast
  <1>5. ASSUME NEW m \in 1 .. n - 1 PROVE Weight(list, m) < Weight(list, n)
    <2>1. m \in DOMAIN list /\ ~(n <= m)
      BY <1>1, <1>4
    <2>2. Weight(list, m) # w /\ Weight(list, m) <= w
      BY <1>3, <1>4, <2>1
    <2> QED BY <1>2, <1>4, <2>1, <2>2
  <1> QED BY <1>3, <1>4, <1>5

LEMMA NoStatuses ==
  ASSUME NEW list \in Seq(L!S!Phases)
  PROVE  list = <<>> <=> L!S!Statuses(list) = {}
  <1>1. DOMAIN list = 1 .. Len(list) /\ Len(list) \in Nat /\ (list = <<>> <=> Len(list) = 0)
    OBVIOUS
  <1>2. list # <<>> => 1 \in DOMAIN list
    BY <1>1
  <1>3. L!S!Statuses(list) = {} <=> DOMAIN list = {}
    BY DEF L!S!Statuses
  <1> QED BY <1>1, <1>2, <1>3

\* Which status it is, by what the list has.
LEMMA StatusChosen ==
  ASSUME NEW list \in Seq(L!S!Phases)
  PROVE  LET some == L!S!Statuses(list)
             one == L!S!calculateAppStatus(list)
         IN  /\ some \subseteq L!S!Phases
             /\ "failed" \in some => one = "failed"
             /\ "failed" \notin some /\ some \cap L!S!Moving # {} => one \in some \cap L!S!Moving
             /\ some \cap (L!S!Moving \cup {"failed"}) = {} =>
                   one = IF "deployed" \in some THEN "deployed" ELSE "available"
  <1> DEFINE some == L!S!Statuses(list)
             one == L!S!calculateAppStatus(list)
             first == CHOOSE n \in DOMAIN list :
                        /\ \A m \in DOMAIN list : Weight(list, m) <= Weight(list, n)
                        /\ \A m \in 1 .. n - 1 : Weight(list, m) < Weight(list, n)
  <1>1. some \subseteq L!S!Phases
    BY DEF L!S!Statuses
  <1>2. CASE list = <<>>
    BY <1>1, <1>2 DEF L!S!Statuses, L!S!calculateAppStatus
  <1>3. CASE list # <<>>
    <2>1. /\ first \in DOMAIN list
          /\ \A m \in DOMAIN list : Weight(list, m) <= Weight(list, first)
      BY <1>3, FirstFound
    <2>2. one = IF list[first] \in L!S!Moving \cup {"deployed", "failed"} THEN list[first] ELSE "available"
      BY <1>3 DEF L!S!calculateAppStatus, Weight
    <2> HIDE DEF first, one
    <2>3. list[first] \in some /\ \A s \in some : \E m \in DOMAIN list : s = list[m]
      BY <2>1 DEF L!S!Statuses
    <2>4. \A s \in some : L!S!INSTALLATION_STATUS_DISPLAY(s).priority
                             <= L!S!INSTALLATION_STATUS_DISPLAY(list[first]).priority
      BY <2>1, <2>3 DEF Weight
    <2>5. /\ \A s \in L!S!Moving : L!S!INSTALLATION_STATUS_DISPLAY(s).priority = 4
          /\ L!S!INSTALLATION_STATUS_DISPLAY("failed").priority = 5
          /\ L!S!INSTALLATION_STATUS_DISPLAY("deployed").priority = 3
          /\ \A s \in L!S!Phases \ (L!S!Moving \cup {"failed", "deployed"}) :
                L!S!INSTALLATION_STATUS_DISPLAY(s).priority \in 0 .. 2
      BY DEF L!S!INSTALLATION_STATUS_DISPLAY, L!S!Phases, L!S!Moving
    <2> HIDE DEF some
    <2>6. list[first] \in L!S!Phases
      BY <1>1, <2>3
    <2>7. "failed" \in some => list[first] = "failed"
      <3> SUFFICES ASSUME "failed" \in some, list[first] # "failed" PROVE FALSE
        OBVIOUS
      <3>1. L!S!INSTALLATION_STATUS_DISPLAY(list[first]).priority \in 0 .. 4
        BY <2>5, <2>6
      <3> QED BY <2>4, <2>5, <3>1
    <2>8. "failed" \notin some /\ some \cap L!S!Moving # {} => list[first] \in L!S!Moving
      <3> SUFFICES ASSUME "failed" \notin some, NEW s \in some \cap L!S!Moving,
                          list[first] \notin L!S!Moving
                   PROVE  FALSE
        OBVIOUS
      <3>1. L!S!INSTALLATION_STATUS_DISPLAY(list[first]).priority \in 0 .. 3
        BY <2>3, <2>5, <2>6
      <3> QED BY <2>4, <2>5, <3>1
    <2>9. "deployed" \in some /\ some \cap (L!S!Moving \cup {"failed"}) = {} => list[first] = "deployed"
      <3> SUFFICES ASSUME "deployed" \in some, some \cap (L!S!Moving \cup {"failed"}) = {},
                          list[first] # "deployed"
                   PROVE  FALSE
        OBVIOUS
      <3>1. L!S!INSTALLATION_STATUS_DISPLAY(list[first]).priority \in 0 .. 2
        BY <2>3, <2>5, <2>6
      <3> QED BY <2>4, <2>5, <3>1
    <2>10. "failed" \notin L!S!Moving
      BY DEF L!S!Moving
    <2> DEFINE chosen == list[first]
    <2> HIDE DEF chosen
    <2>11. /\ chosen \in L!S!Phases /\ chosen \in some
           /\ "failed" \in some => chosen = "failed"
           /\ "failed" \notin some /\ some \cap L!S!Moving # {} => chosen \in L!S!Moving
           /\ "deployed" \in some /\ some \cap (L!S!Moving \cup {"failed"}) = {} => chosen = "deployed"
           /\ one = IF chosen \in L!S!Moving \cup {"deployed", "failed"} THEN chosen ELSE "available"
      BY <2>2, <2>3, <2>6, <2>7, <2>8, <2>9 DEF chosen
    <2>12. /\ "failed" \in some => one = "failed"
           /\ "failed" \notin some /\ some \cap L!S!Moving # {} => one \in some \cap L!S!Moving
           /\ some \cap (L!S!Moving \cup {"failed"}) = {} =>
                 one = IF "deployed" \in some THEN "deployed" ELSE "available"
      BY <2>10, <2>11
    <2> QED BY <1>1, <2>12 DEF some, one
  <1> QED BY <1>2, <1>3

LEMMA Summaries ==
  ASSUME NEW list \in Seq(L!S!Phases)
  PROVE  L!S!SummariesAgree(list)
  <1> QED BY NoStatuses, StatusChosen
          DEF L!S!SummariesAgree, L!S!stateDisplay, L!S!Toned, L!S!Some, L!S!IsMoving,
              L!S!Moving, L!S!isInstalled

\* Cardinality of AppStatus is that of FiniteSets.
LEMMA StatusCardinality == \A T : L!S!Cardinality(T) = Cardinality(T)
  BY DEF L!S!Cardinality, Cardinality, L!S!IsFiniteSet, IsFiniteSet

LEMMA OrderMattering ==
  ASSUME NEW list \in Seq(L!S!Phases)
  PROVE  L!S!OrderMatters(list)
  <1> DEFINE back == [n \in DOMAIN list |-> list[Len(list) + 1 - n]]
             some == L!S!Statuses(list)
  <1>1. back \in Seq(L!S!Phases)
    <2>1. DOMAIN list = 1 .. Len(list) /\ Len(list) \in Nat
      OBVIOUS
    <2>2. \A n \in 1 .. Len(list) : Len(list) + 1 - n \in 1 .. Len(list)
      BY <2>1
    <2>3. back \in [1 .. Len(list) -> L!S!Phases]
      BY <2>1, <2>2
    <2> QED BY <2>1, <2>3
  <1>2. L!S!Statuses(back) = some
    <2>1. \A n \in DOMAIN list : /\ Len(list) + 1 - n \in DOMAIN list
                                 /\ list[n] = back[Len(list) + 1 - n]
                                 /\ back[n] = list[Len(list) + 1 - n]
      OBVIOUS
    <2>2. DOMAIN back = DOMAIN list
      OBVIOUS
    <2> QED BY <2>1, <2>2 DEF L!S!Statuses
  <1>3. ASSUME NEW a \in some \cap L!S!Moving, NEW b \in some \cap L!S!Moving, a # b
        PROVE  Cardinality(some \cap L!S!Moving) > 1
    <2>1. IsFiniteSet(L!S!Moving)
      <3>1. L!S!Moving = ({} \cup {"installing"}) \cup {"upgrading"} \cup {"uninstalling"}
        BY DEF L!S!Moving
      <3> QED BY <3>1, FS_EmptySet, FS_AddElement
    <2>2. IsFiniteSet(some \cap L!S!Moving)
      BY <2>1, FS_Subset
    <2> QED BY <1>3, <2>2, MoreThanOne
  <1> HIDE DEF back, some
  <1>4. L!S!calculateAppStatus(list) # L!S!calculateAppStatus(back) =>
           /\ "failed" \notin some
           /\ \E a, b \in some \cap L!S!Moving : a # b
    BY <1>1, <1>2, StatusChosen DEF some
  <1>5. L!S!calculateAppStatus(list) # L!S!calculateAppStatus(back) =>
           Cardinality(some \cap L!S!Moving) > 1 /\ "failed" \notin some
    BY <1>3, <1>4
  <1> QED BY <1>5, StatusCardinality DEF L!S!OrderMatters, L!S!Some, back, some

LEMMA Offers ==
  ASSUME NEW list \in Seq(L!S!Phases)
  PROVE  L!S!OffersFit(list)
  <1> QED BY NoStatuses, StatusChosen
          DEF L!S!OffersFit, L!S!getAvailableActionsForStatus, L!S!availableActions, L!S!Some,
              L!S!IsMoving, L!S!Moving, L!S!isInstalled, L!S!Phases

LEMMA Classes ==
  ASSUME NEW list \in Seq(L!S!Moving \cup {"available", "deployed", "failed", "unknown"})
  PROVE  L!S!ClassesAddUp(list)
  <1> DEFINE Of(those) == {n \in DOMAIN list : list[n] \in those}
             A == Of({"deployed"})
             B == Of(L!S!Moving)
             F == Of({"failed"})
             U == Of({"unknown", "available"})
  <1>1. DOMAIN list = 1 .. Len(list) /\ Len(list) \in Nat
    OBVIOUS
  <1>2. IsFiniteSet(DOMAIN list) /\ Cardinality(DOMAIN list) = Len(list)
    BY <1>1, FS_Interval
  <1>3. IsFiniteSet(A) /\ IsFiniteSet(B) /\ IsFiniteSet(F) /\ IsFiniteSet(U)
    <2>1. A \subseteq DOMAIN list /\ B \subseteq DOMAIN list /\ F \subseteq DOMAIN list /\ U \subseteq DOMAIN list
      OBVIOUS
    <2> QED BY <1>2, <2>1, FS_Subset
  <1>4. /\ A \cap B = {} /\ (A \cup B) \cap F = {} /\ ((A \cup B) \cup F) \cap U = {}
        /\ DOMAIN list = ((A \cup B) \cup F) \cup U
    <2>1. \A n \in DOMAIN list : list[n] \in L!S!Moving \cup {"available", "deployed", "failed", "unknown"}
      OBVIOUS
    <2> QED BY <2>1 DEF L!S!Moving
  <1> HIDE DEF A, B, F, U
  <1>5. IsFiniteSet(A \cup B) /\ Cardinality(A \cup B) = Cardinality(A) + Cardinality(B)
    BY <1>3, <1>4, Apart
  <1>6. /\ IsFiniteSet((A \cup B) \cup F)
        /\ Cardinality((A \cup B) \cup F) = Cardinality(A \cup B) + Cardinality(F)
    BY <1>3, <1>4, <1>5, Apart
  <1>7. Cardinality(((A \cup B) \cup F) \cup U) = Cardinality((A \cup B) \cup F) + Cardinality(U)
    BY <1>3, <1>4, <1>6, Apart
  <1>8. Len(list) = Cardinality(A) + Cardinality(B) + Cardinality(F) + Cardinality(U)
    BY <1>2, <1>3, <1>4, <1>5, <1>6, <1>7, FS_CardinalityType
  <1> QED BY <1>8, StatusCardinality DEF L!S!ClassesAddUp, L!S!getStatusSummary, A, B, F, U

LEMMA OneInstallation ==
  ASSUME NEW one \in [kind : {"one"}, phase : L!S!Phases, error : BOOLEAN, ready : Seq(BOOLEAN),
                       after : Seq(BOOLEAN)]
  PROVE  L!S!OneSpeaksAlike(one) /\ L!S!HealthTold([one EXCEPT !.error = FALSE], one.after)
  <1>1. one.phase \in L!S!Phases /\ one.error \in BOOLEAN
    OBVIOUS
  <1> DEFINE list == <<one.phase>>
  <1>2. list \in Seq(L!S!Phases) /\ L!S!Statuses(list) = {one.phase} /\ list # <<>>
    BY <1>1 DEF L!S!Statuses
  <1>3. L!S!calculateAppStatus(list) =
          IF one.phase \in L!S!Moving \cup {"failed", "deployed"} THEN one.phase ELSE "available"
    <2> HIDE DEF list
    <2> QED BY <1>1, <1>2, StatusChosen DEF L!S!Phases, L!S!Moving
  <1> HIDE DEF list
  <1>4. L!S!OneSpeaksAlike(one)
    BY <1>1, <1>2, <1>3
       DEF L!S!OneSpeaksAlike, L!S!getNotificationTypeForStatus, L!S!APP_STATUS_DISPLAY,
           L!S!installationColor, L!S!stateColor, L!S!isInstalled, L!S!Some, L!S!IsMoving,
           L!S!hasError, L!S!isTransitioning, L!S!isTransitionalStatus, L!S!isHealthy,
           L!S!INSTALLATION_STATUS_DISPLAY, L!S!Phases, L!S!Moving, list
  <1>5. L!S!HealthTold([one EXCEPT !.error = FALSE], one.after)
    BY DEF L!S!HealthTold, L!S!updateHealth, L!S!isHealthy
  <1> QED BY <1>4, <1>5

-----------------------------------------------------------------------------
(* Errors (Errors). *)

NumbersApart == None \notin Int /\ None \notin {"network", "temporary"}

LEMMA Absence ==
  ASSUME NumbersApart, NEW e, {e.code, e.status, e.response} \subseteq Int \cup {None}
  PROVE  L!E!AbsenceSeen(e)
  <1>1. L!E!TakenForAbsent(e) <=> L!E!isRancherError(e) /\ L!E!HttpStatus(e) = 404
    BY DEF NumbersApart, L!E!TakenForAbsent, L!E!normalizeError, L!E!Text
  <1>2. ASSUME L!E!isRancherError(e), L!E!Says(e, 404)
        PROVE  L!E!HttpStatus(e) = 404 <=> L!E!HttpStatus(e) # L!E!Text
    <2>1. {e.code, e.status, e.response} \subseteq {None, L!E!Text, 404}
      BY <1>2 DEF L!E!Says
    <2>2. ~(e.code = None /\ e.status = None /\ e.response = None)
      <3>1. 404 \in {e.code, e.status, e.response}
        BY <1>2 DEF L!E!Says
      <3> QED BY <3>1 DEF NumbersApart
    <2>3. 404 # L!E!Text
      BY DEF L!E!Text
    <2> QED BY <2>1, <2>2, <2>3 DEF L!E!HttpStatus
  <1>3. L!E!HttpStatus(e) \in {e.code, e.status, e.response}
    BY DEF L!E!HttpStatus
  <1> QED BY <1>1, <1>2, <1>3 DEF L!E!AbsenceSeen

LEMMA Retries ==
  ASSUME NumbersApart, NEW e, {e.code, e.status, e.response} \subseteq Int \cup {None}, e.response # L!E!Text
  PROVE  L!E!RetriesAgree(e)
  <1>1. L!E!handleSimpleError(e) = "own" <=> L!E!MessageOf(e) = "own"
    BY DEF L!E!handleSimpleError, L!E!MessageOf
  <1>2. ASSUME e.code = None, e.status = None, e.response \notin {None, L!E!Text}, e.hint = None
        PROVE  \/ L!E!normalizeError(e).retryable <=> L!E!isRetryableError(e)
               \/ e.response = 408 /\ L!E!normalizeError(e).retryable
               \/ L!E!isRetryableError(e) /\ L!E!handleApiError(e) = <<"server">>
    <2>1. /\ L!E!normalizeError(e).status = e.response /\ e.response \in Int
          /\ L!E!normalizeError(e).retryable <=> L!E!isRetryableStatus(e.response)
      BY <1>2 DEF L!E!normalizeError, L!E!isRancherError, L!E!HttpStatus
    <2>2. L!E!isRetryableError(e) <=> e.response >= 500 \/ e.response = 429
      BY <1>2, <2>1 DEF NumbersApart, L!E!isRetryableError
    <2>3. CASE e.response >= 500 /\ ~L!E!normalizeError(e).retryable
      <3>1. L!E!getUserFriendlyMessage(L!E!normalizeError(e)) = "server"
        BY <2>1, <2>3 DEF NumbersApart, L!E!getUserFriendlyMessage
      <3> QED BY <2>2, <2>3, <3>1 DEF L!E!handleApiError
    <2>4. CASE ~(e.response >= 500 /\ ~L!E!normalizeError(e).retryable)
      BY <2>1, <2>2, <2>4 DEF L!E!isRetryableStatus
    <2> QED BY <2>3, <2>4
  <1> QED BY <1>1, <1>2 DEF L!E!RetriesAgree

LEMMA Told ==
  ASSUME NEW n \in Nat, NEW results, DOMAIN results = 1 .. n + 1
  PROVE  L!E!ToldOnce(results, n)
  <1> DEFINE Ends(k) == \/ results[k] = None \/ k = n + 1
                        \/ ~L!E!normalizeError(results[k]).retryable
             count == CHOOSE k \in DOMAIN results : Ends(k) /\ \A m \in 1 .. k - 1 : ~Ends(m)
             run == L!E!withRetry(results, n)
  <1>1. /\ count \in 1 .. n + 1 /\ Ends(count)
        /\ \A m \in 1 .. count - 1 : ~Ends(m)
    <2> DEFINE T == {k \in 1 .. n + 1 : Ends(k)}
    <2>1. T \in SUBSET Nat /\ n + 1 \in T
      OBVIOUS
    <2>2. PICK k \in T : \A m \in T : k <= m
      BY <2>1, NatLeast
    <2>3. \A m \in 1 .. k - 1 : ~Ends(m)
      <3> SUFFICES ASSUME NEW m \in 1 .. k - 1 PROVE ~Ends(m)
        OBVIOUS
      <3>1. m \in 1 .. n + 1 /\ ~(k <= m)
        OBVIOUS
      <3> QED BY <2>2, <3>1
    <2> QED BY <2>2, <2>3
  <1>2. run = [calls |-> count, ok |-> results[count] = None,
               told |-> IF results[count] = None THEN <<>> ELSE L!E!handleApiError(results[count])]
    BY DEF L!E!withRetry
  <1> HIDE DEF count, run
  <1>3. \A e : L!E!handleApiError(e) = <<>> <=> L!E!normalizeError(e).retryable
    BY DEF L!E!handleApiError
  <1>4. \A e : Len(L!E!handleApiError(e)) <= 1
    BY DEF L!E!handleApiError
  <1>5. Len(run.told) <= 1 /\ (run.ok => run.told = <<>>)
    <2>1. CASE results[count] = None
      BY <1>2, <2>1
    <2>2. CASE results[count] # None
      BY <1>2, <1>4, <2>2
    <2> QED BY <2>1, <2>2
  <1>6. \A m \in 1 .. run.calls - 1 : L!E!handleApiError(results[m]) = <<>>
    BY <1>1, <1>2, <1>3
  <1>7. ~run.ok /\ run.told = <<>> <=>
           run.calls = n + 1 /\ \A m \in 1 .. run.calls :
              results[m] # None /\ L!E!normalizeError(results[m]).retryable
    <2>1. ~run.ok /\ run.told = <<>> <=>
             results[count] # None /\ L!E!normalizeError(results[count]).retryable
      BY <1>2, <1>3
    <2>2. \A m \in 1 .. count : m = count \/ m \in 1 .. count - 1
      BY <1>1
    <2> QED BY <1>1, <1>2, <2>1, <2>2
  <1> QED BY <1>5, <1>6, <1>7 DEF L!E!ToldOnce, run

-----------------------------------------------------------------------------
(* Forms and values (Validation). *)

LEMMA Names ==
  ASSUME NEW t, L!TextTyped(t)
  PROVE  L!D!NamesNested(t)
  <1>1. /\ L!D!Refused(L!D!validateReleaseName(t)) <=> t.blank # "no" \/ t.length > 53 \/ t.letters # "dns"
        /\ L!D!Refused(L!D!validateNamespace(t)) <=>
              t.blank # "no" \/ t.length > 63 \/ t.letters # "dns" \/ "reserved" \in t.reads
    BY DEF L!D!Refused, L!D!validateReleaseName, L!D!validateNamespace, L!D!Blank, L!D!Errors
  <1>2. /\ L!D!Refused(L!D!k8sNameRule(t)) <=>
              t.blank # "empty" /\ (t.length > 63 \/ t.padded \/ t.blank # "no" \/ t.letters # "dns")
        /\ L!D!Refused(L!D!k8sLabelRule(t)) <=>
              t.blank # "empty" /\ (t.length > 63 \/ t.padded \/ t.blank # "no" \/ t.letters \notin {"dns", "label"})
    BY DEF L!D!Refused, L!D!k8sNameRule, L!D!k8sLabelRule, L!D!patternRule, L!D!Empty, L!D!Errors
  <1> QED BY <1>1, <1>2 DEF L!D!NamesNested, L!D!Empty, L!TextTyped

LEMMA Formats ==
  ASSUME NEW t, L!TextTyped(t), NumbersApart
  PROVE  L!D!FormatsAgree(t)
  <1>1. L!D!validateEmail(t) = L!D!emailRule(t)
    BY DEF L!D!validateEmail, L!D!emailRule
  <1>2. /\ L!D!Refused(L!D!urlRule(t)) => L!D!Refused(L!D!validateUrl(t))
        /\ L!D!Refused(L!D!validateUrl(t)) /\ ~L!D!Refused(L!D!urlRule(t)) => "http" \notin t.reads
    BY DEF L!D!Refused, L!D!urlRule, L!D!validateUrl, L!D!Errors
  <1>3. L!D!validateJson(t) # L!D!jsonRule(t) => t.blank = "spaces"
    BY DEF L!TextTyped, L!D!validateJson, L!D!jsonRule, L!D!Errors, L!D!Blank, L!D!Empty
  <1>4. ~L!D!Refused(L!D!yamlRule(t)) /\ (L!D!validateYaml(t) # {} => "yaml" \notin t.reads)
    BY DEF L!D!Refused, L!D!yamlRule, L!D!validateYaml, L!D!Errors
  <1>5. \A min, max \in {None, 0, 60} :
           L!D!validateLength(t, min, max) # L!D!lengthRule(t, min, max) => L!D!Empty(t) /\ min = 60
    BY DEF L!TextTyped, NumbersApart, L!D!validateLength, L!D!lengthRule, L!D!Errors, L!D!Empty
  <1>6. ~L!D!Refused(L!D!validateHelmValues(t)) => ~L!D!Refused(L!D!validateYaml(t))
    BY DEF L!D!Refused, L!D!validateHelmValues, L!D!validateYaml, L!D!Errors
  <1> QED BY <1>1, <1>2, <1>3, <1>4, <1>5, <1>6 DEF L!D!FormatsAgree

LEMMA RequiredKinds == ASSUME NEW kind PROVE L!D!RequiredAgree(kind)
  BY DEF L!D!RequiredAgree, L!D!validateRequired, L!D!requiredRule, L!D!Errors

LEMMA Quantities ==
  ASSUME NEW q, q.amount \in Nat, q.digits \in {"n", "n.n", ".n", "bad"}
  PROVE  L!D!QuantitiesNested(q)
  <1> DEFINE Refuses(type) == "error" \in L!D!validateResourceQuantity(q, type)
             Processors == (q.unit = "m" /\ q.digits = "n") \/ (q.unit = "" /\ q.digits # "bad")
             Bytes == q.digits = "n" /\ q.unit \in L!D!Units \ {"m", "Pi", "P", "Ei", "E"}
  <1>0. /\ \A c : "error" \in L!D!Errors(c) <=> c
        /\ q.amount <= 0 <=> q.amount = 0
        /\ \A c : "error" \notin (IF c THEN {"warning"} ELSE {})
    BY DEF L!D!Errors
  <1>1. Refuses("cpu") <=> ~Processors \/ q.amount = 0
    <2> DEFINE Rest == IF L!D!ManyCores(q) THEN {"warning"} ELSE {}
    <2> HIDE DEF Rest
    <2>1. /\ ~Processors => L!D!validateResourceQuantity(q, "cpu") = {"error"}
          /\ Processors => L!D!validateResourceQuantity(q, "cpu") = L!D!Errors(q.amount <= 0) \cup Rest
      BY DEF L!D!validateResourceQuantity, Rest
    <2>2. "error" \notin Rest
      BY <1>0 DEF Rest
    <2> HIDE DEF Rest, Processors
    <2> QED BY <1>0, <2>1, <2>2
  <1>2. ASSUME NEW type \in {"memory", "storage"}
        PROVE  Refuses(type) <=> ~Bytes \/ q.amount = 0
    <2> DEFINE Rest == IF type = "memory" /\ L!D!Unusual(q) THEN {"warning"} ELSE {}
    <2> HIDE DEF Rest
    <2>1. /\ ~Bytes => L!D!validateResourceQuantity(q, type) = {"error"}
          /\ Bytes => L!D!validateResourceQuantity(q, type) = L!D!Errors(q.amount <= 0) \cup Rest
      <3>1. type # "cpu"
        OBVIOUS
      <3>2. ~Bytes <=> q.digits # "n" \/ q.unit \notin L!D!Units \ {"m", "Pi", "P", "Ei", "E"}
        OBVIOUS
      <3>3. Rest = IF type = "memory" /\ L!D!Unusual(q) THEN {"warning"} ELSE {}
        BY DEF Rest
      <3> HIDE DEF Bytes
      <3> QED BY <3>1, <3>2, <3>3 DEF L!D!validateResourceQuantity
    <2>2. "error" \notin Rest
      BY <1>0 DEF Rest
    <2> HIDE DEF Rest, Bytes
    <2> QED BY <1>0, <2>1, <2>2
  <1>3. "error" \in L!D!resourceQuantityRule(q) <=>
           q.padded \/ q.digits \notin {"n", "n.n"} \/ q.unit \notin L!D!Units
    BY DEF L!D!resourceQuantityRule, L!D!Errors
  <1> HIDE DEF Refuses
  <1>5. ASSUME NEW type \in {"cpu", "memory", "storage"}, ~Refuses(type),
               "error" \in L!D!resourceQuantityRule(q)
        PROVE  q.padded \/ q.digits = ".n"
    BY <1>1, <1>2, <1>3, <1>5 DEF L!D!Units
  <1>6. /\ ~Refuses("memory") <=> ~Refuses("storage")
        /\ q.amount = 0 => Refuses("cpu") /\ Refuses("memory")
        /\ ~Refuses("cpu") /\ ~Refuses("memory") => q.unit = "" /\ q.digits = "n"
    BY <1>1, <1>2
  <1> QED BY <1>5, <1>6 DEF L!D!QuantitiesNested, L!D!Refused, Refuses

LEMMA FieldsAgree ==
  ASSUME NEW t, NEW field, NEW whole
  PROVE  L!D!FormsAgree(field, t, whole)
  <1> DEFINE form == L!D!validateForm(field, t, whole)
             one == L!D!validateField(field, t)
  <1>1. form # {} /\ one = {} => (~field.required /\ L!D!Empty(t)) \/ whole \in {"refuses", "throws"}
    <2>1. whole \notin {"refuses", "throws"} => L!D!RuleOf(whole) = {} BY DEF L!D!RuleOf, L!D!Errors
    <2> QED BY <2>1 DEF L!D!validateForm, L!D!validateField
  <1>2. form = {} /\ one # {} => ~field.shown \/ L!D!TypeRule(field.type, t) # {}
    BY DEF L!D!validateForm, L!D!validateField
  <1>3. /\ \A c : L!D!Errors(c) = {} \/ L!D!Errors(c) = {"error"}
        /\ L!D!TypeRule(field.type, t) \in {{}, {"error"}, {"warning"}}
        /\ L!D!TypeRule(field.type, t) = {"warning"} => field.type = "yaml" /\ "tab" \in t.reads
    BY DEF L!D!Errors, L!D!TypeRule, L!D!emailRule, L!D!urlRule, L!D!jsonRule, L!D!yamlRule
  <1>4. one # {} /\ ~L!D!hasCriticalErrors(one) => field.type = "yaml" /\ "tab" \in t.reads
    BY <1>3 DEF L!D!validateField, L!D!hasCriticalErrors, L!D!requiredRule, L!D!RuleOf
  <1>5. L!D!k8sNameRule(t) # {} => L!D!Refused(L!D!k8sNameRule(t))
    BY DEF L!D!k8sNameRule, L!D!patternRule, L!D!Refused, L!D!Errors
  <1>6. L!D!getDefaultRulesForFieldType(field.type, t) # L!D!TypeRule(field.type, t) =>
           field.type \in {"cluster", "namespace"} /\ L!D!Refused(L!D!k8sNameRule(t))
    BY <1>5 DEF L!D!getDefaultRulesForFieldType, L!D!TypeRule
  <1> QED BY <1>1, <1>2, <1>4, <1>6 DEF L!D!FormsAgree

LEMMA Scheduling ==
  ASSUME NEW pairs, NEW tolerations
  PROVE  L!D!SchedulingFits(pairs, tolerations)
  <1>1. (\E t \in tolerations : t.key = None) => L!D!Refused(L!D!validateTolerations(tolerations))
    BY DEF L!D!Refused, L!D!validateTolerations, L!D!Errors
  <1> DEFINE Of(p) == L!D!Errors(p.key = "bad" \/ p.value = "bad") \cup (IF p.key = "master" THEN {"warning"} ELSE {})
  <1>2. \A s : s \in L!D!validateNodeSelector(pairs) <=> \E p \in pairs : s \in Of(p)
    BY DEF L!D!validateNodeSelector
  <1>3. \A p, s : s \in L!D!validateNodeSelector({p}) <=> s \in Of(p)
    BY DEF L!D!validateNodeSelector
  <1>4. \A p : "warning" \in Of(p) => p.key = "master"
    BY DEF L!D!Errors
  <1> HIDE DEF Of
  <1>5. L!D!Refused(L!D!validateNodeSelector(pairs)) <=>
           \E p \in pairs : L!D!Refused(L!D!validateNodeSelector({p}))
    BY <1>2, <1>3 DEF L!D!Refused
  <1>6. L!D!validateNodeSelector(pairs) = {"warning"} => \E p \in pairs : p.key = "master"
    BY <1>2, <1>4
  <1> QED BY <1>1, <1>5, <1>6 DEF L!D!SchedulingFits

LEMMA ValuesRefused ==
  ASSUME NEW values, NEW schema
  PROVE  /\ L!D!validateChartValues(values, schema) \in {{}, {"error"}}
         /\ L!D!validateChartValues(values, schema) = {} <=>
              \A k \in DOMAIN values \cap DOMAIN schema :
                  ~L!D!Wrong(values[k], schema[k], L!D!Inner(values[k], schema[k]))
  BY DEF L!D!validateChartValues, L!D!Errors

\* A text that reads as a number is only held to what is said of texts.
LEMMA NumberAsText ==
  ASSUME NEW v, NEW s, v = [type |-> "string", size |-> 1, reads |-> TRUE, inside |-> <<>>], s.type = "number",
         s.enum = None \/ (\A e \in s.enum : e[1] = "number")
  PROVE  /\ s.enum = None /\ s.pattern = None /\ ~L!D!OutOf(s.length, 1) => ~L!D!Wrong(v, s, L!D!Inner(v, s))
         /\ s.enum # None => L!D!Wrong(v, s, L!D!Inner(v, s))
  <1>1. v.type = "string" /\ v.size = 1 /\ v.reads /\ v.inside = <<>> /\ DOMAIN <<>> = {} OBVIOUS
  <1>2. L!D!Inner(v, s) = {} BY <1>1 DEF L!D!Inner
  <1> DEFINE below == L!D!Inner(v, s)
             Refusing == L!D!Besides(s.enum, v) \/ L!D!OutOf(s.length, 1) \/ L!D!Besides(s.pattern, v)
  <1> HIDE DEF below
  <1>3. L!D!Wrong(v, s, below) <=> Refusing
    <2>1. v.type # "null" /\ ~(v.type = "string" /\ v.size = 0) /\ v.type # "number" /\ v.type # "object" /\ below = {}
      BY <1>1, <1>2 DEF below
    <2> QED BY <1>1, <2>1 DEF L!D!Wrong
  <1>4. s.enum # None => L!D!Besides(s.enum, v)
    <2> SUFFICES ASSUME s.enum # None PROVE <<v.type, v.size>> \notin s.enum BY DEF L!D!Besides
    <2>1. <<v.type, v.size>>[1] # "number" BY <1>1
    <2> QED BY <2>1
  <1>5. s.enum = None => ~L!D!Besides(s.enum, v) BY DEF L!D!Besides
  <1>6. s.pattern = None => ~L!D!Besides(s.pattern, v) BY DEF L!D!Besides
  <1> QED BY <1>3, <1>4, <1>5, <1>6 DEF below

LEMMA MemberLeftOut ==
  ASSUME NEW v, NEW w, NEW s, NEW k, v.type = "object", w.type = "object", w.size = v.size,
         w.inside = [m \in DOMAIN v.inside \ {k} |-> v.inside[m]],
         ~L!D!Wrong(v, s, L!D!Inner(v, s)), L!D!Wrong(w, s, L!D!Inner(w, s))
  PROVE  k \in s.needed
  <1>1. DOMAIN w.inside = DOMAIN v.inside \ {k} /\ \A m \in DOMAIN w.inside : w.inside[m] = v.inside[m]
    OBVIOUS
  <1>2. \A m : L!D!SchemaOf(w, s, m) = L!D!SchemaOf(v, s, m) BY DEF L!D!SchemaOf
  <1>3. L!D!Inner(w, s) \subseteq L!D!Inner(v, s) BY <1>1, <1>2 DEF L!D!Inner
  <1> DEFINE over == L!D!Inner(v, s)
             under == L!D!Inner(w, s)
             Plainly == s.type \in {None, "object"}
  <1> HIDE DEF over, under
  <1>4. /\ ~L!D!Wrong(v, s, over) => Plainly /\ ~L!D!Besides(s.enum, v) /\ over = {} /\ s.needed \ DOMAIN v.inside = {}
        /\ L!D!Wrong(w, s, under) => ~Plainly \/ L!D!Besides(s.enum, w) \/ under # {} \/ s.needed \ DOMAIN w.inside # {}
    BY DEF L!D!Wrong
  <1>5. L!D!Besides(s.enum, w) <=> L!D!Besides(s.enum, v) BY DEF L!D!Besides
  <1>6. Plainly /\ over = {} /\ under \subseteq over /\ s.needed \ DOMAIN v.inside = {} /\ s.needed \ DOMAIN w.inside # {}
    BY <1>3, <1>4, <1>5 DEF over, under
  <1> QED BY <1>1, <1>6

LEMMA Values ==
  ASSUME NEW Type, NEW Size, NEW Reads, NEW Inside, NEW Members, NEW key, NEW schema,
         NEW values \in [Members -> [type : Type, size : Size, reads : Reads, inside : Inside]]
  PROVE  L!D!LeftOut(values, schema, key)
  <1> DEFINE without == [k \in DOMAIN values \ {key} |-> values[k]]
             Fine(vs) == \A k \in DOMAIN vs \cap DOMAIN schema :
                           ~L!D!Wrong(vs[k], schema[k], L!D!Inner(vs[k], schema[k]))
             written == [type |-> "string", size |-> 1, reads |-> TRUE, inside |-> <<>>]
             asText == [values EXCEPT ![key] = written]
             said == schema[key]
             Less(k) == [values EXCEPT ![key].inside = [m \in DOMAIN @ \ {k} |-> @[m]]]
  <1>1. /\ DOMAIN without = DOMAIN values \ {key}
        /\ \A k \in DOMAIN without : without[k] = values[k]
    OBVIOUS
  <1>2. Fine(values) => Fine(without)
    BY <1>1
  <1>3. ASSUME key \in DOMAIN values \cap DOMAIN schema, said.type = "number"
        PROVE  /\ said.enum = None /\ said.pattern = None /\ ~L!D!OutOf(said.length, 1) => (Fine(asText) <=> Fine(without))
               /\ said.enum # None /\ (\A e \in said.enum : e[1] = "number") => ~Fine(asText)
    <2> HIDE DEF written
    <2>1. /\ DOMAIN asText = DOMAIN values /\ asText[key] = written
          /\ \A k \in DOMAIN values \ {key} : asText[k] = values[k]
      BY <1>3
    <2> DEFINE Bad == L!D!Wrong(written, said, L!D!Inner(written, said))
    <2>2. /\ said.enum = None /\ said.pattern = None /\ ~L!D!OutOf(said.length, 1) => ~Bad
          /\ said.enum # None /\ (\A e \in said.enum : e[1] = "number") => Bad
      <3> HIDE DEF said
      <3>1. ASSUME said.enum = None \/ (\A e \in said.enum : e[1] = "number")
            PROVE  /\ said.enum = None /\ said.pattern = None /\ ~L!D!OutOf(said.length, 1) => ~Bad
                   /\ said.enum # None => Bad
        BY <1>3, <3>1, NumberAsText DEF written
      <3> HIDE DEF Bad
      <3> QED BY <3>1
    <2> HIDE DEF asText, without
    <2>3. Fine(asText) <=> Fine(without) /\ ~Bad BY <1>1, <1>3, <2>1
    <2> HIDE DEF Fine, Bad, said
    <2> QED BY <2>2, <2>3
  <1>4. ASSUME key \in DOMAIN values, values[key].type = "object", Fine(values),
               NEW k \in DOMAIN values[key].inside, ~Fine(Less(k))
        PROVE  key \in DOMAIN schema /\ k \in schema[key].needed
    <2> DEFINE less == Less(k)
    <2>1. /\ DOMAIN less = DOMAIN values /\ less[key].type = values[key].type /\ less[key].size = values[key].size
          /\ less[key].inside = [m \in DOMAIN values[key].inside \ {k} |-> values[key].inside[m]]
          /\ \A i \in DOMAIN values \ {key} : less[i] = values[i]
      BY <1>4
    <2> HIDE DEF less
    <2>2. PICK i \in DOMAIN less \cap DOMAIN schema :
             L!D!Wrong(less[i], schema[i], L!D!Inner(less[i], schema[i]))
      BY <1>4 DEF less
    <2>3. i = key
      BY <1>4, <2>1, <2>2
    <2>4. ~L!D!Wrong(values[key], schema[key], L!D!Inner(values[key], schema[key]))
      BY <1>4, <2>1, <2>2, <2>3
    <2> QED BY <1>4, <2>1, <2>2, <2>3, <2>4, MemberLeftOut
  <1> HIDE DEF Fine, without, asText, Less, said
  <1>5. \A vs : /\ L!D!validateChartValues(vs, schema) \in {{}, {"error"}}
                /\ L!D!validateChartValues(vs, schema) = {} <=> Fine(vs)
    BY ValuesRefused DEF Fine
  <1>6. ASSUME NEW k PROVE L!D!validateChartValues(Less(k), schema) # {} => ~Fine(Less(k))
    BY <1>5
  <1>7. /\ (Fine(asText) <=> Fine(without)) =>
              L!D!validateChartValues(asText, schema) = L!D!validateChartValues(without, schema)
        /\ ~Fine(asText) => L!D!Refused(L!D!validateChartValues(asText, schema))
    BY <1>5 DEF L!D!Refused
  <1>8. L!D!validateChartValues(values, schema) = {} => L!D!validateChartValues(without, schema) = {}
    BY <1>2, <1>5
  <1>9. ASSUME key \in DOMAIN values \cap DOMAIN schema, said.type = "number"
        PROVE  /\ said.enum = None /\ said.pattern = None /\ ~L!D!OutOf(said.length, 1) =>
                     L!D!validateChartValues(asText, schema) = L!D!validateChartValues(without, schema)
               /\ said.enum # None /\ (\A e \in said.enum : e[1] = "number") =>
                     L!D!Refused(L!D!validateChartValues(asText, schema))
    BY <1>3, <1>7, <1>9
  <1>10. ASSUME key \in DOMAIN values, values[key].type = "object", L!D!validateChartValues(values, schema) = {},
                NEW k \in DOMAIN values[key].inside, L!D!validateChartValues(Less(k), schema) # {}
         PROVE  key \in DOMAIN schema /\ k \in schema[key].needed
    BY <1>4, <1>5, <1>6, <1>10
  <1> QED BY <1>8, <1>9, <1>10 DEF L!D!LeftOut, without, asText, written, said, Less

-----------------------------------------------------------------------------
(* Clusters (Clusters). *)

LEMMA ClusterCardinality == \A T : L!C!Cardinality(T) = Cardinality(T)
  BY DEF L!C!Cardinality, Cardinality, L!C!IsFiniteSet, IsFiniteSet

LEMMA NeedsTyped ==
  ASSUME NEW slug
  PROVE  L!C!AppRequirements(slug).cpu \in Nat /\ L!C!AppRequirements(slug).memory \in Nat
  BY DEF L!C!AppRequirements, L!C!Known, L!C!APP_RESOURCE_PROFILES, L!C!getDefaultAppResourceRequirements

LEMMA Headroom ==
  ASSUME NEW needs, NEW has
  PROVE  /\ L!C!LowHeadroom(needs, has) \subseteq {"cpu", "memory"}
         /\ L!C!Cardinality(L!C!LowHeadroom(needs, has) \cup {"estimated"}) = 1
              <=> L!C!LowHeadroom(needs, has) = {}
  <1>1. L!C!LowHeadroom(needs, has) \subseteq {"cpu", "memory"}
    BY DEF L!C!LowHeadroom
  <1> DEFINE low == L!C!LowHeadroom(needs, has)
  <1>2. IsFiniteSet(low \cup {"estimated"})
    <2>1. IsFiniteSet({"cpu"})
      BY FS_Singleton
    <2>2. IsFiniteSet({"cpu"} \cup {"memory"})
      BY <2>1, FS_AddElement
    <2>3. IsFiniteSet(({"cpu"} \cup {"memory"}) \cup {"estimated"})
      BY <2>2, FS_AddElement
    <2>4. low \cup {"estimated"} \in SUBSET (({"cpu"} \cup {"memory"}) \cup {"estimated"})
      BY <1>1
    <2> QED BY <2>3, <2>4, FS_Subset
  <1>3. Cardinality(low \cup {"estimated"}) = 1 <=> \E x : low \cup {"estimated"} = {x}
    BY <1>2, FS_Singleton
  <1>4. (\E x : low \cup {"estimated"} = {x}) <=> low = {}
    BY <1>1
  <1> QED BY <1>1, <1>3, <1>4, ClusterCardinality

LEMMA Estimates ==
  ASSUME NEW needs, NEW has
  PROVE  L!C!EstimateSpeaksAlike(needs, has)
  <1> DEFINE low == L!C!LowHeadroom(needs, has)
  <1>1. /\ low \cup {"estimated"} # {}
        /\ L!C!Cardinality(low \cup {"estimated"}) = 1 <=> low = {}
    BY Headroom
  <1>2. low \cup {} = low
    OBVIOUS
  <1> HIDE DEF low
  <1> QED BY <1>1, <1>2 DEF L!C!EstimateSpeaksAlike, L!C!checkAppCompatibility, low

LEMMA Bars ==
  ASSUME NEW slug, NEW estimated \in BOOLEAN, NEW has,
         \A r \in {has.cpu, has.memory} : r.used \in Nat /\ r.total \in Nat
  PROVE  L!C!BarsFit(L!C!AppRequirements(slug), estimated, has)
  <1> DEFINE needs == L!C!AppRequirements(slug)
             low == L!C!LowHeadroom(needs, has)
  <1> SUFFICES ASSUME L!C!checkAppCompatibility(needs, estimated, has) = "compatible"
               PROVE  \A r \in {has.cpu, has.memory} : L!C!getResourceBarClass(r.used, r.total) # "critical"
    BY DEF L!C!BarsFit
  <1>1. low = {}
    <2>1. estimated => (L!C!Cardinality(low \cup {"estimated"}) = 1 <=> low = {})
      BY Headroom
    <2> HIDE DEF low, needs
    <2> QED BY <2>1 DEF L!C!checkAppCompatibility, low
  <1>2. needs.cpu \in Nat /\ needs.memory \in Nat
    BY NeedsTyped
  <1> HIDE DEF needs
  <1>3. ASSUME NEW r \in {has.cpu, has.memory}, NEW need \in Nat,
               ~(r.total > 0 /\ 5 * (r.total - r.used - need) < r.total)
        PROVE  L!C!getResourceBarClass(r.used, r.total) # "critical"
    <2>1. r.used \in Nat /\ r.total \in Nat
      OBVIOUS
    <2> QED BY <1>3, <2>1 DEF L!C!getResourceBarClass
  <1>4. 10 * needs.cpu \in Nat
    BY <1>2
  <1>5. /\ ~(has.cpu.total > 0 /\ 5 * (has.cpu.total - has.cpu.used - 10 * needs.cpu) < has.cpu.total)
        /\ ~(has.memory.total > 0 /\ 5 * (has.memory.total - has.memory.used - needs.memory) < has.memory.total)
    BY <1>1 DEF L!C!LowHeadroom
  <1> QED BY <1>2, <1>3, <1>4, <1>5

LEMMA SelectAll ==
  ASSUME NEW rows, NEW chosen
  PROVE  L!C!SelectAllSettles(rows, chosen)
  BY DEF L!C!SelectAllSettles, L!C!toggleSelectAllCompatible, L!C!allCompatibleSelected,
         L!C!someButNotAllSelected, L!C!compatibleClusters, L!C!hasIncompatibleSelections, L!C!toggleCluster

LEMMA Unfit ==
  ASSUME NEW rows, NEW chosen, NEW id
  PROVE  L!C!UnfitWarned(rows, chosen, id)
  <1>1. L!C!Cardinality({id}) = 1 /\ (CHOOSE c \in {id} : TRUE) = id
    BY FS_Singleton, ClusterCardinality
  <1>2. ASSUME id \in DOMAIN rows, rows[id] \in {"insufficient", "error"}
        PROVE  /\ L!C!SelectedInfo(rows, L!C!selectSingleCluster(chosen, id), FALSE).warned
               /\ L!C!SelectedInfo(rows, chosen \cup {id}, TRUE).warned
    BY <1>1, <1>2 DEF L!C!SelectedInfo, L!C!selectSingleCluster, L!C!hasIncompatibleSelections
  <1>3. L!C!SelectedInfo(rows, chosen, TRUE).warned => chosen \cap DOMAIN rows # {}
    BY DEF L!C!SelectedInfo, L!C!hasIncompatibleSelections
  <1> QED BY <1>2, <1>3 DEF L!C!UnfitWarned

LEMMA Ready ==
  ASSUME NEW c, NEW able, NEW health, c.ready \in BOOLEAN
  PROVE  L!C!ReadinessNested(c, able, health)
  <1> DEFINE needed == {"canInstallApps", "hasHelmSupport", "canManageNamespaces"}
  <1>1. L!C!validateClusterForAppInstall(c, L!C!getClusterCapabilities) = {} <=> L!C!isClusterReady(c)
    BY DEF L!C!validateClusterForAppInstall, L!C!getClusterCapabilities
  <1>2. ASSUME NEW failing, NEW components
        PROVE  L!C!checkClusterHealth(failing, components).issues # {} =>
                  L!C!clusterNeedsAttention(c, L!C!checkClusterHealth(failing, components).overall)
    BY DEF L!C!checkClusterHealth, L!C!clusterNeedsAttention
  <1>3. L!C!validateClusterForAppInstall(c, able) = {} => L!C!isClusterReady(c)
    BY DEF L!C!validateClusterForAppInstall
  <1>4. L!C!isClusterReady(c) => ~L!C!HasIssue(c)
    BY DEF L!C!isClusterReady, L!C!HasIssue
  <1>5. L!C!HasIssue(c) => L!C!clusterNeedsAttention(c, health)
    BY DEF L!C!HasIssue, L!C!clusterNeedsAttention
  <1> QED BY <1>1, <1>2, <1>3, <1>4, <1>5 DEF L!C!ReadinessNested

LEMMA Shown ==
  ASSUME NEW r, r.ready \in BOOLEAN, r.transitioning \in BOOLEAN
  PROVE  L!C!ErrorsShown(r)
  <1>1. L!C!hasError(r) = ~L!C!isReady(r)
    BY DEF L!C!hasError, L!C!isReady
  <1>2. L!C!stateColor(r) = "success" => L!C!isReady(r)
    BY DEF L!C!stateColor, L!C!isReady
  <1>3. L!C!hasError(r) /\ r.able = None => ~L!C!CapabilityOf(r)
    BY DEF L!C!hasError, L!C!isReady, L!C!CapabilityOf
  <1>4. ~L!C!CapabilityOf(r) => "browse-apps" \notin L!C!availableActions(r)
    BY DEF L!C!availableActions
  <1> QED BY <1>1, <1>2, <1>3, <1>4 DEF L!C!ErrorsShown

-----------------------------------------------------------------------------
(* Views of the stores (StoreViews). *)

LEMMA StoreCardinality == \A T : L!G!Cardinality(T) = Cardinality(T)
  BY DEF L!G!Cardinality, Cardinality, L!G!IsFiniteSet, IsFiniteSet

LEMMA Deployments ==
  ASSUME NEW s, NEW keys
  PROVE  \A a : a \in L!G!Deployed(L!G!Recorded(s, keys)) <=>
            \E k \in keys \cap DOMAIN s.recs : s.recs[k].app = a /\ s.recs[k].status = "deployed"
  BY DEF L!G!Deployed, L!G!Recorded

\* IsFiniteSet of Laws is that of FiniteSets.
LEMMA LawsFinite == \A T : L!IsFiniteSet(T) <=> IsFiniteSet(T)
  BY DEF L!IsFiniteSet, IsFiniteSet

LEMMA Counts ==
  ASSUME NEW s, L!StateTyped(s)
  PROVE  /\ IsFiniteSet(L!G!Deployed(L!G!All(s)))
         /\ IsFiniteSet({r.cluster : r \in L!G!All(s)})
  <1> DEFINE OwnerOf == [k \in DOMAIN s.recs |-> s.recs[k].app]
             PlaceOf == [k \in DOMAIN s.recs |-> s.recs[k].cluster]
  <1>1. IsFiniteSet(DOMAIN OwnerOf) /\ IsFiniteSet(DOMAIN PlaceOf)
    BY LawsFinite DEF L!StateTyped
  <1>2. L!G!Deployed(L!G!All(s)) \in SUBSET {OwnerOf[k] : k \in DOMAIN OwnerOf}
    BY Deployments DEF L!G!All
  <1>3. {r.cluster : r \in L!G!All(s)} \in SUBSET {PlaceOf[k] : k \in DOMAIN PlaceOf}
    BY DEF L!G!All, L!G!Recorded
  <1> HIDE DEF OwnerOf, PlaceOf
  <1>4. IsFiniteSet({OwnerOf[k] : k \in DOMAIN OwnerOf}) /\ IsFiniteSet({PlaceOf[k] : k \in DOMAIN PlaceOf})
    BY <1>1, FiniteRange
  <1> QED BY <1>2, <1>3, <1>4, FS_Subset

LEMMA AddUp ==
  ASSUME NEW s, L!StateTyped(s)
  PROVE  L!G!AppsAddUp(s)
  <1> SUFFICES ASSUME L!G!WellIndexed(s) PROVE L!G!AppsAddUp(s)
    BY DEF L!G!AppsAddUp
  <1> DEFINE deployed == L!G!Deployed(L!G!All(s))
             On(c) == L!G!Deployed(L!G!Recorded(s, L!G!Under(s.byCluster, c)))
             cat == DOMAIN s.apps
  <1>1. /\ \A a : a \in deployed <=> \E k \in DOMAIN s.recs : s.recs[k].app = a /\ s.recs[k].status = "deployed"
        /\ \A c, a : a \in On(c) <=> \E k \in L!G!Under(s.byCluster, c) \cap DOMAIN s.recs :
                                       s.recs[k].app = a /\ s.recs[k].status = "deployed"
    BY Deployments DEF L!G!All
  <1>2. \A k \in DOMAIN s.recs : /\ s.recs[k].cluster \in DOMAIN s.byCluster
                                 /\ k \in L!G!Under(s.byCluster, s.recs[k].cluster)
                                 /\ k \in L!G!Under(s.byApp, s.recs[k].app)
    BY DEF L!G!WellIndexed, L!G!Under
  <1>3. ASSUME NEW c
        PROVE  LET shown == L!G!appsForCluster(s, c, TRUE)
               IN  /\ shown.installed \cup shown.available = L!G!availableAppsForCluster(s, c, TRUE)
                   /\ shown.installed \cap shown.available = {}
                   /\ shown.installed = L!G!installedAppsForCluster(s, c)
    BY DEF L!G!appsForCluster, L!G!availableAppsForCluster, L!G!installedAppsForCluster, L!G!Known
  <1>4. L!G!installedApps(s) = deployed \cap cat /\ \A c : L!G!installedAppsForCluster(s, c) = On(c) \cap cat
    BY DEF L!G!installedApps, L!G!installedAppsForCluster, L!G!Known
  <1>5. deployed = UNION {On(c) : c \in DOMAIN s.byCluster}
    <2>1. ASSUME NEW a \in deployed PROVE \E c \in DOMAIN s.byCluster : a \in On(c)
      <3>1. PICK k \in DOMAIN s.recs : s.recs[k].app = a /\ s.recs[k].status = "deployed"
        BY <1>1
      <3>2. a \in On(s.recs[k].cluster) /\ s.recs[k].cluster \in DOMAIN s.byCluster
        BY <1>1, <1>2, <3>1
      <3> QED BY <3>2
    <2>2. ASSUME NEW c, NEW a \in On(c) PROVE a \in deployed
      BY <1>1
    <2> HIDE DEF deployed, On
    <2> QED BY <2>1, <2>2
  <1>6. L!G!installedApps(s) = UNION {L!G!installedAppsForCluster(s, c) : c \in DOMAIN s.byCluster}
    <2> HIDE DEF deployed, On, cat
    <2>1. UNION {L!G!installedAppsForCluster(s, c) : c \in DOMAIN s.byCluster} = UNION {On(c) \cap cat : c \in DOMAIN s.byCluster}
      BY <1>4
    <2> QED BY <1>4, <1>5, <2>1
  <1>7. L!G!installedApps(s) \subseteq L!G!InstalledAppIds(s) \cap L!G!appsWithInstallations(s)
    <2> SUFFICES ASSUME NEW a \in deployed, a \in cat
                 PROVE  a \in L!G!InstalledAppIds(s) /\ a \in L!G!appsWithInstallations(s)
      BY <1>4
    <2>1. PICK k \in DOMAIN s.recs : s.recs[k].app = a /\ s.recs[k].status = "deployed"
      BY <1>1
    <2>2. s.recs[k] \in L!G!All(s)
      BY DEF L!G!All, L!G!Recorded
    <2>3. a \in L!G!InstalledAppIds(s)
      BY <2>1, <2>2 DEF L!G!InstalledAppIds
    <2>4. a \in L!G!appsWithInstallations(s)
      BY <1>2, <2>1 DEF L!G!appsWithInstallations
    <2> QED BY <2>3, <2>4
  <1>8. L!G!totalAppsCount(s) - L!G!Cardinality(L!G!installedApps(s)) =
              L!G!availableAppsCount(s) + L!G!Cardinality(deployed \ cat)
    <2>1. IsFiniteSet(deployed) /\ IsFiniteSet(cat)
      BY Counts, LawsFinite DEF L!StateTyped
    <2> HIDE DEF deployed, cat
    <2>2. IsFiniteSet(deployed \cap cat) /\ IsFiniteSet(deployed \ cat)
      BY <2>1, FS_Subset
    <2>3. Cardinality((deployed \cap cat) \cup (deployed \ cat)) = Cardinality(deployed \cap cat) + Cardinality(deployed \ cat)
      BY <2>2, Apart
    <2>4. (deployed \cap cat) \cup (deployed \ cat) = deployed
      OBVIOUS
    <2>5. Cardinality(cat) \in Nat /\ Cardinality(deployed \cap cat) \in Nat /\ Cardinality(deployed \ cat) \in Nat
      BY <2>1, <2>2, FS_CardinalityType
    <2>6. /\ L!G!totalAppsCount(s) = Cardinality(cat)
          /\ L!G!availableAppsCount(s) = Cardinality(cat) - Cardinality(deployed)
          /\ L!G!Cardinality(L!G!installedApps(s)) = Cardinality(deployed \cap cat)
          /\ L!G!Cardinality(deployed \ cat) = Cardinality(deployed \ cat)
      BY <1>4, StoreCardinality
         DEF L!G!totalAppsCount, L!G!availableAppsCount, L!G!installedAppsCount, deployed, cat
    <2>7. Cardinality(deployed) = Cardinality(deployed \cap cat) + Cardinality(deployed \ cat)
      BY <2>3, <2>4
    <2> HIDE DEF deployed, cat
    <2> QED BY <2>5, <2>6, <2>7
  <1>9. L!G!clustersWithAppsCount(s) >= L!G!Cardinality({r.cluster : r \in L!G!All(s)})
    <2>1. {r.cluster : r \in L!G!All(s)} \in SUBSET (DOMAIN s.byCluster)
      BY <1>2 DEF L!G!All, L!G!Recorded
    <2>2. IsFiniteSet(DOMAIN s.byCluster)
      BY LawsFinite DEF L!StateTyped
    <2>3. Cardinality({r.cluster : r \in L!G!All(s)}) <= Cardinality(DOMAIN s.byCluster)
      BY <2>1, <2>2, FS_Subset
    <2>4. Cardinality({r.cluster : r \in L!G!All(s)}) \in Nat /\ Cardinality(DOMAIN s.byCluster) \in Nat
      BY <2>2, Counts, FS_CardinalityType
    <2> QED BY <2>3, <2>4, StoreCardinality DEF L!G!clustersWithAppsCount
  <1> HIDE DEF On, cat
  <1> QED BY <1>3, <1>6, <1>7, <1>8, <1>9 DEF L!G!AppsAddUp, cat

LEMMA Bulk ==
  ASSUME NEW s
  PROVE  L!G!BulkFits(s)
  BY DEF L!G!BulkFits, L!G!canPerformBulkOperation

\* A state of the store, and its records with one more.
State(kept, chosen, flags, ofApp, ofCluster) ==
    [recs |-> kept, selected |-> chosen, apps |-> flags, byApp |-> ofApp, byCluster |-> ofCluster]

Kept(kept, key, record) == [k \in DOMAIN kept \cup {key} |-> IF k = key THEN record ELSE kept[k]]

LEMMA Written ==
  ASSUME NEW kept, NEW chosen, NEW flags, NEW ofApp, NEW ofCluster, NEW key, NEW record
  PROVE  L!G!setInstallationInfo(State(kept, chosen, flags, ofApp, ofCluster), key, record) =
            State(Kept(kept, key, record), chosen, flags,
                  L!G!Extended(ofApp, record.app, key), L!G!Extended(ofCluster, record.cluster, key))
  <1> DEFINE s == State(kept, chosen, flags, ofApp, ofCluster)
             a == Kept(kept, key, record)
             b == L!G!Extended(ofApp, record.app, key)
             c == L!G!Extended(ofCluster, record.cluster, key)
  <1>1. L!G!setInstallationInfo(s, key, record) = [s EXCEPT !.recs = a, !.byApp = b, !.byCluster = c]
    <2>1. s.recs = kept /\ s.byApp = ofApp /\ s.byCluster = ofCluster
      BY DEF State
    <2> HIDE DEF s
    <2> QED BY <2>1 DEF L!G!setInstallationInfo, Kept
  <1> HIDE DEF a, b, c
  <1>2. [s EXCEPT !.recs = a] = State(a, chosen, flags, ofApp, ofCluster)
    BY DEF State
  <1>3. [State(a, chosen, flags, ofApp, ofCluster) EXCEPT !.byApp = b] = State(a, chosen, flags, b, ofCluster)
    BY DEF State
  <1>4. [State(a, chosen, flags, b, ofCluster) EXCEPT !.byCluster = c] = State(a, chosen, flags, b, c)
    BY DEF State
  <1>5. [s EXCEPT !.recs = a, !.byApp = b, !.byCluster = c] =
           [[[s EXCEPT !.recs = a] EXCEPT !.byApp = b] EXCEPT !.byCluster = c]
    <2> HIDE DEF s
    <2> QED OBVIOUS
  <1> HIDE DEF s
  <1>6. [[[s EXCEPT !.recs = a] EXCEPT !.byApp = b] EXCEPT !.byCluster = c] = State(a, chosen, flags, b, c)
    BY <1>2, <1>3, <1>4
  <1> QED BY <1>1, <1>5, <1>6 DEF a, b, c, s

LEMMA FlagsUpdated ==
  ASSUME NEW kept, NEW chosen, NEW ofApp, NEW ofCluster, NEW D, NEW own, NEW one \in D,
         NEW flags \in [D -> [installed : BOOLEAN, updates : BOOLEAN, running : BOOLEAN, failed : BOOLEAN]]
  PROVE  \E set :
            /\ L!G!UPDATE_APP_INSTALLATIONS(State(kept, chosen, flags, ofApp, ofCluster), one, own) =
                  State(kept, chosen, set, ofApp, ofCluster)
            /\ DOMAIN set = D
            /\ set[one].installed <=> own # {}
            /\ set[one].running <=> (\E r \in own : r.status = "deployed")
  <1> DEFINE s == State(kept, chosen, flags, ofApp, ofCluster)
             new == [installed |-> own # {}, updates |-> flags[one].updates,
                     running |-> \E r \in own : r.status = "deployed",
                     failed |-> \E r \in own : r.status = "failed"]
             set == [flags EXCEPT ![one] = new]
  <1>1. /\ new.installed = (own # {})
        /\ new.running = (\E r \in own : r.status = "deployed")
    OBVIOUS
  <1>2. s.apps = flags
    BY DEF State
  <1>3. L!G!UPDATE_APP_INSTALLATIONS(s, one, own) = [s EXCEPT !.apps = set]
    <2> HIDE DEF s
    <2> QED BY <1>2 DEF L!G!UPDATE_APP_INSTALLATIONS
  <1> HIDE DEF new
  <1>4. DOMAIN set = D /\ set[one] = new
    OBVIOUS
  <1> HIDE DEF set
  <1>5. [s EXCEPT !.apps = set] = State(kept, chosen, set, ofApp, ofCluster)
    BY DEF State
  <1> QED BY <1>1, <1>3, <1>4, <1>5

LEMMA UnderExtended ==
  ASSUME NEW list, NEW id, NEW key
  PROVE  \A i, k : k \in L!G!Under(L!G!Extended(list, id, key), i) <=>
            k \in L!G!Under(list, i) \/ (i = id /\ k = key)
  BY DEF L!G!Under, L!G!Extended

\* WellIndexed in terms of Under.
LEMMA IndexMeans ==
  ASSUME NEW s
  PROVE  L!G!WellIndexed(s) <=>
           /\ \A k \in DOMAIN s.recs : k \in L!G!Under(s.byApp, s.recs[k].app) /\ k \in L!G!Under(s.byCluster, s.recs[k].cluster)
           /\ \A c : \A k \in L!G!Under(s.byCluster, c) : k \in DOMAIN s.recs /\ s.recs[k].cluster = c
           /\ \A a : \A k \in L!G!Under(s.byApp, a) : k \in DOMAIN s.recs /\ s.recs[k].app = a
  BY DEF L!G!WellIndexed, L!G!Under

LEMMA Info ==
  ASSUME NEW s, L!StateTyped(s), NEW key, NEW record
  PROVE  L!G!InfoFound(s, key, record)
  <1> DEFINE t == L!G!setInstallationInfo(s, key, record)
             own == {r \in L!G!All(t) : r.app = record.app}
             flagged == L!G!UPDATE_APP_INSTALLATIONS(t, record.app, own)
             one == record.app
             flags == s.apps
  <1>1. /\ t.apps = flags
        /\ DOMAIN t.recs = DOMAIN s.recs \cup {key} /\ t.recs[key] = record
        /\ \A k \in DOMAIN s.recs \ {key} : t.recs[k] = s.recs[k]
        /\ t.byApp = L!G!Extended(s.byApp, one, key)
        /\ t.byCluster = L!G!Extended(s.byCluster, record.cluster, key)
        /\ t = State(t.recs, t.selected, t.apps, t.byApp, t.byCluster)
    <2>1. s = State(s.recs, s.selected, s.apps, s.byApp, s.byCluster)
      BY DEF L!StateTyped, State
    <2> DEFINE b == L!G!Extended(s.byApp, one, key)
               c == L!G!Extended(s.byCluster, record.cluster, key)
               r == Kept(s.recs, key, record)
    <2>2. t = State(r, s.selected, s.apps, b, c)
      <3> HIDE DEF r
      <3>1. L!G!setInstallationInfo(State(s.recs, s.selected, s.apps, s.byApp, s.byCluster), key, record) =
               State(r, s.selected, s.apps, b, c)
        BY Written DEF r
      <3> HIDE DEF b, c
      <3> QED BY <2>1, <3>1
    <2>3. /\ DOMAIN r = DOMAIN s.recs \cup {key} /\ r[key] = record
          /\ \A k \in DOMAIN s.recs \ {key} : r[k] = s.recs[k]
      BY DEF Kept
    <2> HIDE DEF b, c, r, t
    <2>4. t.recs = r /\ t.selected = s.selected /\ t.apps = s.apps /\ t.byApp = b /\ t.byCluster = c
      BY <2>2 DEF State
    <2> QED BY <2>2, <2>3, <2>4 DEF b, c
  <1> HIDE DEF t
  <1>2. /\ \A i, k : k \in L!G!Under(t.byApp, i) <=> k \in L!G!Under(s.byApp, i) \/ (i = one /\ k = key)
        /\ \A i, k : k \in L!G!Under(t.byCluster, i) <=>
                       k \in L!G!Under(s.byCluster, i) \/ (i = record.cluster /\ k = key)
    BY <1>1, UnderExtended
  <1>3. record \in L!G!installationInfo(t, one)
    BY <1>1, <1>2 DEF L!G!installationInfo, L!G!Recorded
  <1>4. ASSUME record.status = "deployed"
        PROVE  L!G!Known(t, {one}) \subseteq L!G!installedAppsForCluster(t, record.cluster)
    <2>1. one \in L!G!Deployed(L!G!Recorded(t, L!G!Under(t.byCluster, record.cluster)))
      BY <1>1, <1>2, <1>4, Deployments
    <2> QED BY <2>1 DEF L!G!Known, L!G!installedAppsForCluster
  <1>5. ASSUME L!G!WellIndexed(s)
        PROVE  ~L!G!WellIndexed(t) <=>
                  key \in DOMAIN s.recs /\ (s.recs[key].app # one \/ s.recs[key].cluster # record.cluster)
    <2>1. /\ \A k \in DOMAIN s.recs : k \in L!G!Under(s.byApp, s.recs[k].app) /\ k \in L!G!Under(s.byCluster, s.recs[k].cluster)
          /\ \A c : \A k \in L!G!Under(s.byCluster, c) : k \in DOMAIN s.recs /\ s.recs[k].cluster = c
          /\ \A a : \A k \in L!G!Under(s.byApp, a) : k \in DOMAIN s.recs /\ s.recs[k].app = a
      BY <1>5, IndexMeans
    <2>2. L!G!WellIndexed(t) <=>
           /\ \A k \in DOMAIN t.recs : k \in L!G!Under(t.byApp, t.recs[k].app) /\ k \in L!G!Under(t.byCluster, t.recs[k].cluster)
           /\ \A c : \A k \in L!G!Under(t.byCluster, c) : k \in DOMAIN t.recs /\ t.recs[k].cluster = c
           /\ \A a : \A k \in L!G!Under(t.byApp, a) : k \in DOMAIN t.recs /\ t.recs[k].app = a
      BY IndexMeans
    <2>3. CASE key \in DOMAIN s.recs /\ (s.recs[key].app # one \/ s.recs[key].cluster # record.cluster)
      <3>1. /\ key \in L!G!Under(t.byApp, s.recs[key].app) /\ key \in L!G!Under(t.byCluster, s.recs[key].cluster)
        BY <1>2, <2>1, <2>3
      <3> QED BY <1>1, <2>2, <2>3, <3>1
    <2>4. CASE ~(key \in DOMAIN s.recs /\ (s.recs[key].app # one \/ s.recs[key].cluster # record.cluster))
      <3>1. \A k \in DOMAIN t.recs : k \in L!G!Under(t.byApp, t.recs[k].app) /\ k \in L!G!Under(t.byCluster, t.recs[k].cluster)
        BY <1>1, <1>2, <2>1, <2>4
      <3>2. \A c : \A k \in L!G!Under(t.byCluster, c) : k \in DOMAIN t.recs /\ t.recs[k].cluster = c
        BY <1>1, <1>2, <2>1, <2>4
      <3>3. \A a : \A k \in L!G!Under(t.byApp, a) : k \in DOMAIN t.recs /\ t.recs[k].app = a
        BY <1>1, <1>2, <2>1, <2>4
      <3> QED BY <2>2, <2>4, <3>1, <3>2, <3>3
    <2> QED BY <2>3, <2>4
  <1>6. ASSUME one \in DOMAIN flags
        PROVE  /\ flagged.apps[one].running <=> one \in L!G!installedApps(t)
               /\ L!G!canPerformBulkOperation([flagged EXCEPT !.selected = {one}], "uninstall")
    <2>1. PICK set : /\ flagged = State(t.recs, t.selected, set, t.byApp, t.byCluster)
                     /\ DOMAIN set = DOMAIN flags
                     /\ set[one].installed <=> own # {}
                     /\ set[one].running <=> (\E r \in own : r.status = "deployed")
      <3>1. flags \in [DOMAIN flags -> [installed : BOOLEAN, updates : BOOLEAN, running : BOOLEAN, failed : BOOLEAN]]
        BY DEF L!StateTyped
      <3>2. t = State(t.recs, t.selected, flags, t.byApp, t.byCluster)
        BY <1>1
      <3> HIDE DEF own, flags, one
      <3>3. PICK set : /\ L!G!UPDATE_APP_INSTALLATIONS(State(t.recs, t.selected, flags, t.byApp, t.byCluster), one, own) =
                            State(t.recs, t.selected, set, t.byApp, t.byCluster)
                       /\ DOMAIN set = DOMAIN flags
                       /\ set[one].installed <=> own # {}
                       /\ set[one].running <=> (\E r \in own : r.status = "deployed")
        BY <1>6, <3>1, FlagsUpdated
      <3>4. flagged = L!G!UPDATE_APP_INSTALLATIONS(State(t.recs, t.selected, flags, t.byApp, t.byCluster), one, own)
        BY <3>2 DEF one
      <3> HIDE DEF flagged
      <3> QED BY <3>3, <3>4
    <2>4. record \in own
      BY <1>1 DEF L!G!All, L!G!Recorded
    <2>5. (\E r \in own : r.status = "deployed") <=> one \in L!G!Deployed(L!G!All(t))
      BY DEF L!G!Deployed
    <2> HIDE DEF own, flagged
    <2>6. flagged.apps = set
      BY <2>1 DEF State
    <2>7. flagged.apps[one].running <=> one \in L!G!installedApps(t)
      BY <1>1, <1>6, <2>1, <2>5, <2>6 DEF L!G!installedApps, L!G!Known
    <2> DEFINE chosen == [flagged EXCEPT !.selected = {one}]
    <2>8. chosen.selected = {one} /\ chosen.apps = set
      BY <2>1 DEF State
    <2> HIDE DEF chosen
    <2>9. L!G!canPerformBulkOperation(chosen, "uninstall")
      BY <1>6, <2>1, <2>4, <2>8 DEF L!G!canPerformBulkOperation, L!G!Known
    <2> QED BY <2>7, <2>9 DEF chosen
  <1> QED BY <1>3, <1>4, <1>5, <1>6 DEF L!G!InfoFound, t

LEMMA ElementOf == ASSUME NEW Members, NEW list \in Seq(Members), NEW i \in DOMAIN list PROVE list[i] \in Members
  OBVIOUS

LEMMA Repositories ==
  ASSUME NEW Name, NEW Place, NEW list \in Seq([name : Name, cluster : Place])
  PROVE  L!G!RepositoriesFound(list)
  <1> DEFINE s == L!G!setRepositories(list)
             Named(n) == {i \in DOMAIN list : list[i].name = n}
             Latest(n) == CHOOSE i \in Named(n) : \A j \in Named(n) : j <= i
  <1>1. DOMAIN list = 1 .. Len(list) /\ Len(list) \in Nat
    OBVIOUS
  <1>2. /\ DOMAIN s.byCluster = {list[i].cluster : i \in DOMAIN list} \ {None}
        /\ \A c \in DOMAIN s.byCluster : s.byCluster[c] = {list[i].name : i \in {j \in DOMAIN list : list[j].cluster = c}}
        /\ DOMAIN s.repositories = {list[i].name : i \in DOMAIN list}
        /\ \A n \in DOMAIN s.repositories : s.repositories[n] = list[Latest(n)]
    BY DEF L!G!setRepositories
  <1> SUFFICES ASSUME NEW c \in DOMAIN s.byCluster, NEW n \in s.byCluster[c]
               PROVE  /\ n \in DOMAIN s.repositories
                      /\ s.repositories[n].cluster = c \/
                           \E i, j \in DOMAIN list : i < j /\ list[i] = [name |-> n, cluster |-> c]
                                                     /\ list[j].name = n /\ list[j].cluster # c
    BY DEF L!G!RepositoriesFound
  <1> HIDE DEF s
  <1>3. PICK i \in DOMAIN list : list[i].name = n /\ list[i].cluster = c
    BY <1>2
  <1>4. Latest(n) \in Named(n) /\ \A j \in Named(n) : j <= Latest(n)
    <2>1. Named(n) \in SUBSET (0 .. Len(list)) /\ Named(n) # {}
      BY <1>1, <1>3
    <2>2. \E j \in Named(n) : \A k \in Named(n) : k <= j
      BY <1>1, <2>1, Greatest
    <2> QED BY <2>2
  <1>5. n \in DOMAIN s.repositories /\ s.repositories[n] = list[Latest(n)]
    <2> HIDE DEF Latest
    <2> QED BY <1>2, <1>3
  <1> DEFINE j == Latest(n)
  <1>6. j \in DOMAIN list /\ list[j].name = n /\ i <= j
    BY <1>3, <1>4
  <1> HIDE DEF j
  <1>7. ASSUME list[j].cluster # c
        PROVE  i < j /\ list[i] = [name |-> n, cluster |-> c]
    <2>1. list[i] \in [name : Name, cluster : Place]
      BY ElementOf
    <2>2. i # j /\ i \in Int /\ j \in Int
      BY <1>1, <1>3, <1>6, <1>7
    <2> QED BY <1>3, <1>6, <2>1, <2>2
  <1> QED BY <1>5, <1>6, <1>7 DEF j

-----------------------------------------------------------------------------
(* The laws, for an input of the types of Laws. *)

LEMMA InputStatuses ==
  ASSUME NEW i, L!StatusTyped(i)
  PROVE  /\ i.kind = "phases" =>
               L!S!SummariesAgree(i.list) /\ L!S!OrderMatters(i.list) /\ L!S!OffersFit(i.list)
         /\ i.kind = "apps" => L!S!ClassesAddUp(i.list)
         /\ i.kind = "health" /\ i.ready <= i.total =>
               L!S!HealthFits(i.ready, i.total, i.errors, i.critical)
         /\ i.kind = "one" =>
               L!S!OneSpeaksAlike(i) /\ L!S!HealthTold([i EXCEPT !.error = FALSE], i.after)
  <1>1. CASE i.kind = "phases"
    BY <1>1, Summaries, OrderMattering, Offers DEF L!StatusTyped
  <1>2. CASE i.kind = "apps"
    BY <1>2, Classes DEF L!StatusTyped
  <1>3. CASE i.kind = "health"
    BY <1>3, Health DEF L!StatusTyped
  <1>4. CASE i.kind = "one"
    BY <1>4, OneInstallation DEF L!StatusTyped
  <1> QED BY <1>1, <1>2, <1>3, <1>4

LEMMA InputErrors ==
  ASSUME NEW i, L!ErrorTyped(i), NumbersApart
  PROVE  /\ i.kind = "error" => L!E!AbsenceSeen(i.error) /\ L!E!RetriesAgree(i.error)
         /\ i.kind = "results" => L!E!ToldOnce(i.results, Len(i.results) - 1)
  <1>1. CASE i.kind = "error"
    BY <1>1, Absence, Retries DEF L!ErrorTyped
  <1>2. CASE i.kind = "results"
    <2>1. i.results # <<>> /\ Len(i.results) \in Nat /\ i.results = [n \in 1 .. Len(i.results) |-> i.results[n]]
      BY <1>2 DEF L!ErrorTyped, L!IsList
    <2>2. Len(i.results) # 0
      BY <2>1
    <2>3. Len(i.results) - 1 \in Nat /\ DOMAIN i.results = 1 .. (Len(i.results) - 1) + 1
      BY <2>1, <2>2
    <2> DEFINE retries == Len(i.results) - 1
    <2>4. retries \in Nat /\ DOMAIN i.results = 1 .. retries + 1
      BY <2>3
    <2> HIDE DEF retries
    <2>5. L!E!ToldOnce(i.results, retries)
      BY <2>4, Told
    <2> QED BY <1>2, <2>5 DEF retries
  <1> QED BY <1>1, <1>2

LEMMA InputClusters ==
  ASSUME NEW i, L!ClusterTyped(i)
  PROVE  /\ i.kind = "summary" =>
               /\ L!C!BarsFit(L!C!AppRequirements(i.slug), i.slug \notin L!C!Known, i.has)
               /\ L!C!EstimateSpeaksAlike(L!C!AppRequirements(i.slug), i.has)
         /\ i.kind = "rows" =>
               L!C!SelectAllSettles(i.rows, i.selected) /\ L!C!UnfitWarned(i.rows, i.selected, i.id)
         /\ i.kind = "cluster" => L!C!ReadinessNested(i.cluster, i.able, i.health)
         /\ i.kind = "resource" => L!C!ErrorsShown(i)
  <1>1. CASE i.kind = "summary"
    <2>1. (i.slug \notin L!C!Known) \in BOOLEAN
      OBVIOUS
    <2>2. \A r \in {i.has.cpu, i.has.memory} : r.used \in Nat /\ r.total \in Nat
      BY <1>1 DEF L!ClusterTyped
    <2>3. L!C!BarsFit(L!C!AppRequirements(i.slug), i.slug \notin L!C!Known, i.has)
      BY <2>1, <2>2, Bars
    <2> QED BY <1>1, <2>3, Estimates
  <1>2. CASE i.kind = "rows"
    BY <1>2, SelectAll, Unfit
  <1>3. CASE i.kind = "cluster"
    BY <1>3, Ready DEF L!ClusterTyped
  <1>4. CASE i.kind = "resource"
    BY <1>4, Shown DEF L!ClusterTyped
  <1> QED BY <1>1, <1>2, <1>3, <1>4

LEMMA ListIsSequence ==
  ASSUME NEW T, NEW n \in Nat, NEW f \in [1 .. n -> T]
  PROVE  f \in Seq(T)
  OBVIOUS

LEMMA InputStores ==
  ASSUME NEW i, L!StoreTyped(i)
  PROVE  /\ i.kind = "store" => L!G!AppsAddUp(i.state) /\ L!G!BulkFits(i.state)
         /\ i.kind = "info" => L!G!InfoFound(i.state, i.key, i.record)
         /\ i.kind = "repositories" => L!G!RepositoriesFound(i.list)
  <1>1. CASE i.kind = "store"
    BY <1>1, AddUp, Bulk DEF L!StoreTyped
  <1>2. CASE i.kind = "info"
    BY <1>2, Info DEF L!StoreTyped
  <1>3. CASE i.kind = "repositories"
    <2> DEFINE list == i.list
               Name == {list[n].name : n \in DOMAIN list}
               Place == {list[n].cluster : n \in DOMAIN list}
    <2>1. /\ Len(list) \in Nat /\ list = [n \in 1 .. Len(list) |-> list[n]]
          /\ \A n \in DOMAIN list : list[n] = [name |-> list[n].name, cluster |-> list[n].cluster]
      BY <1>3 DEF L!StoreTyped, L!IsList
    <2> HIDE DEF list
    <2>2. \A n \in DOMAIN list : list[n].name \in Name /\ list[n].cluster \in Place
      OBVIOUS
    <2> HIDE DEF Name, Place
    <2>3. \A n \in DOMAIN list : list[n] \in [name : Name, cluster : Place]
      BY <2>1, <2>2
    <2>4. DOMAIN list = 1 .. Len(list)
      BY <2>1
    <2>5. list \in [1 .. Len(list) -> [name : Name, cluster : Place]]
      BY <2>1, <2>3, <2>4
    <2>6. list \in Seq([name : Name, cluster : Place])
      BY <2>1, <2>5, ListIsSequence
    <2> QED BY <1>3, <2>6, Repositories DEF list
  <1> QED BY <1>1, <1>2, <1>3

LEMMA InputForms ==
  ASSUME NEW i, L!ValidationTyped(i), NumbersApart
  PROVE  /\ i.kind = "text" => L!D!NamesNested(i.text) /\ L!D!FormatsAgree(i.text)
         /\ i.kind = "value" => L!D!RequiredAgree(i.of)
         /\ i.kind = "quantity" => L!D!QuantitiesNested(i)
         /\ i.kind = "field" => L!D!FormsAgree(i.field, i.text, i.whole)
         /\ i.kind = "values" => L!D!LeftOut(i.values, i.schema, i.key)
         /\ i.kind = "pods" => L!D!SchedulingFits(i.pairs, {i.pod})
  <1>1. CASE i.kind = "text"
    BY <1>1, Names, Formats DEF L!ValidationTyped
  <1>2. CASE i.kind = "value"
    BY <1>2, RequiredKinds
  <1>3. CASE i.kind = "quantity"
    BY <1>3, Quantities DEF L!ValidationTyped
  <1>4. CASE i.kind = "field"
    BY <1>4, FieldsAgree
  <1>5. CASE i.kind = "values"
    <2> DEFINE values == i.values
               Type == {values[k].type : k \in DOMAIN values}
               Size == {values[k].size : k \in DOMAIN values}
               Reads == {values[k].reads : k \in DOMAIN values}
               Inside == {values[k].inside : k \in DOMAIN values}
    <2>1. /\ values = [k \in DOMAIN values |-> values[k]]
          /\ \A k \in DOMAIN values :
                values[k] = [type |-> values[k].type, size |-> values[k].size, reads |-> values[k].reads,
                             inside |-> values[k].inside]
      BY <1>5 DEF L!ValidationTyped, L!IsFunction
    <2> HIDE DEF values
    <2>2. \A k \in DOMAIN values :
            /\ values[k].type \in Type /\ values[k].size \in Size
            /\ values[k].reads \in Reads /\ values[k].inside \in Inside
      OBVIOUS
    <2> HIDE DEF Type, Size, Reads, Inside
    <2>3. \A k \in DOMAIN values : values[k] \in [type : Type, size : Size, reads : Reads, inside : Inside]
      BY <2>1, <2>2
    <2>4. values \in [DOMAIN values -> [type : Type, size : Size, reads : Reads, inside : Inside]]
      BY <2>1, <2>3
    <2>5. L!D!LeftOut(values, i.schema, i.key)
      BY <2>4, Values
    <2> QED BY <1>5, <2>5 DEF values
  <1>6. CASE i.kind = "pods"
    BY <1>6, Scheduling
  <1> QED BY <1>1, <1>2, <1>3, <1>4, <1>5, <1>6

-----------------------------------------------------------------------------
(* Lists of an instance *)

\* The lists of an instance are those of Lists.
LEMMA WizardCardinality == \A T : L!W!Cardinality(T) = Cardinality(T)
  BY DEF L!W!Cardinality, Cardinality

LEMMA SameOrdered ==
  ASSUME NEW U, NEW before
  PROVE  L!W!Ordered(U, before) = Ordered(U, before)
  <1> DEFINE one == [x \in U |-> L!W!Cardinality({y \in U : <<y, x>> \in before})]
             two == [x \in U |-> Cardinality({y \in U : <<y, x>> \in before})]
  <1>1. one = two BY WizardCardinality
  <1>2. L!W!Ordered(U, before) = [n \in 1 .. L!W!Cardinality(U) |-> CHOOSE x \in U : one[x] = n - 1]
    BY DEF L!W!Ordered
  <1>3. Ordered(U, before) = [n \in 1 .. Cardinality(U) |-> CHOOSE x \in U : two[x] = n - 1]
    BY DEF Ordered
  <1>4. L!W!Cardinality(U) = Cardinality(U) BY WizardCardinality
  <1> HIDE DEF one, two
  <1> QED BY <1>1, <1>2, <1>3, <1>4

LEMMA SameArranged ==
  ASSUME NEW list, NEW places, NEW before
  PROVE  L!W!Arranged(list, places, before) = Arranged(list, places, before)
  BY SameOrdered DEF L!W!Arranged, Arranged

LEMMA SameOnlyAt ==
  ASSUME NEW list, NEW places
  PROVE  L!W!OnlyAt(list, places) = OnlyAt(list, places)
  BY SameArranged DEF L!W!OnlyAt, OnlyAt

LEMMA WizardLeast ==
  ASSUME NEW T \in SUBSET Nat, T # {}
  PROVE  L!W!Least(T) \in T /\ \A m \in T : L!W!Least(T) <= m
  BY NatLeast DEF L!W!Least

-----------------------------------------------------------------------------
(* Orders of sequences of numbers *)

Part(s, n) == L!W!At(s, n)
Alike(one, two) == \A n \in Nat \ {0} : Part(one, n) = Part(two, n)
Above(one, two) ==
  \E n \in Nat \ {0} : Part(one, n) > Part(two, n) /\ \A m \in 1 .. n - 1 : Part(one, m) = Part(two, m)

LEMMA PartTyped ==
  ASSUME NEW s \in Seq(Nat)
  PROVE  \A n \in Nat : Part(s, n) \in Nat
  BY DEF Part, L!W!At

LEMMA OrderFits ==
  ASSUME NEW one \in Seq(Nat), NEW two \in Seq(Nat)
  PROVE  /\ L!W!Order(one, two) \in {0, 1, -1}
         /\ L!W!Order(one, two) = 0 <=> Alike(one, two)
         /\ L!W!Order(one, two) = 1 <=> Above(one, two)
         /\ L!W!Order(one, two) = -1 <=> Above(two, one)
  <1> DEFINE differ == {n \in 1 .. Len(one) + Len(two) : Part(one, n) # Part(two, n)}
             first == CHOOSE n \in differ : \A m \in differ : n <= m
  <1>0. Len(one) \in Nat /\ Len(two) \in Nat /\ \A n \in Nat : Part(one, n) \in Nat /\ Part(two, n) \in Nat
    <2>1. \A n \in Nat : Part(one, n) \in Nat BY PartTyped
    <2>2. \A n \in Nat : Part(two, n) \in Nat BY PartTyped
    <2>3. Len(one) \in Nat /\ Len(two) \in Nat OBVIOUS
    <2> QED BY <2>1, <2>2, <2>3
  <1>1. L!W!Order(one, two) = IF differ = {} THEN 0 ELSE IF Part(one, first) > Part(two, first) THEN 1 ELSE -1
    BY DEF L!W!Order, Part
  <1>2. \A n \in Nat \ {0} : Part(one, n) # Part(two, n) => n \in differ
    <2> SUFFICES ASSUME NEW n \in Nat \ {0}, Part(one, n) # Part(two, n) PROVE n \in 1 .. Len(one) + Len(two)
      OBVIOUS
    <2>1. n \in DOMAIN one \/ n \in DOMAIN two BY DEF Part, L!W!At
    <2>2. DOMAIN one = 1 .. Len(one) /\ DOMAIN two = 1 .. Len(two) /\ Len(one) \in Nat /\ Len(two) \in Nat OBVIOUS
    <2>3. n \in 1 .. Len(one) \/ n \in 1 .. Len(two) BY <2>1, <2>2
    <2> HIDE DEF differ, first
    <2> QED BY <2>2, <2>3
  <1>3. CASE differ = {}
    <2>1. Alike(one, two) BY <1>2, <1>3 DEF Alike
    <2>2. ~Above(one, two) /\ ~Above(two, one)
      <3> SUFFICES ASSUME NEW n \in Nat \ {0} PROVE ~(Part(one, n) > Part(two, n)) /\ ~(Part(two, n) > Part(one, n))
        BY DEF Above
      <3>1. Part(one, n) \in Nat /\ Part(one, n) = Part(two, n) BY <1>0, <2>1 DEF Alike
      <3> HIDE DEF differ, first
      <3> QED BY <3>1
    <2> HIDE DEF differ, first
    <2> QED BY <1>1, <1>3, <2>1, <2>2
  <1>4. CASE differ # {}
    <2>1. differ \in SUBSET Nat OBVIOUS
    <2>2. \E n \in differ : \A m \in differ : n <= m
      <3> HIDE DEF differ
      <3> QED BY <1>4, <2>1, NatLeast
    <2>3. first \in differ /\ \A m \in differ : first <= m
      <3> HIDE DEF differ
      <3> QED BY <2>2
    <2>4. first \in Nat \ {0} /\ Part(one, first) # Part(two, first) BY <2>3
    <2> HIDE DEF first
    <2>5. \A m \in 1 .. first - 1 : Part(one, m) = Part(two, m)
      <3> SUFFICES ASSUME NEW m \in 1 .. first - 1, Part(one, m) # Part(two, m) PROVE FALSE OBVIOUS
      <3>1. m \in Nat \ {0} /\ ~(first <= m) BY <2>4
      <3> HIDE DEF differ
      <3> QED BY <1>2, <2>3, <3>1
    <2> HIDE DEF differ
    <2>6. ~Alike(one, two) BY <2>4 DEF Alike
    <2>7. Part(one, first) \in Nat /\ Part(two, first) \in Nat BY <1>0, <2>4
    <2>8. CASE Part(one, first) > Part(two, first)
      <3>1. Above(one, two) BY <2>4, <2>5, <2>8 DEF Above
      <3>2. ~Above(two, one)
        <4> SUFFICES ASSUME NEW n \in Nat \ {0}, Part(two, n) > Part(one, n),
                            \A m \in 1 .. n - 1 : Part(two, m) = Part(one, m)
                     PROVE FALSE
          BY DEF Above
        <4>1. Part(one, n) \in Nat /\ Part(two, n) \in Nat BY <1>0
        <4>2. ~(n < first) BY <2>4, <2>5, <4>1
        <4>3. ~(first < n) BY <2>4
        <4> QED BY <2>4, <2>7, <2>8, <4>1, <4>2, <4>3
      <3> QED BY <1>1, <1>4, <2>6, <2>8, <3>1, <3>2
    <2>9. CASE Part(two, first) > Part(one, first)
      <3>1. Above(two, one) BY <2>4, <2>5, <2>9 DEF Above
      <3>2. ~Above(one, two)
        <4> SUFFICES ASSUME NEW n \in Nat \ {0}, Part(one, n) > Part(two, n),
                            \A m \in 1 .. n - 1 : Part(one, m) = Part(two, m)
                     PROVE FALSE
          BY DEF Above
        <4>1. Part(one, n) \in Nat /\ Part(two, n) \in Nat BY <1>0
        <4>2. ~(n < first) BY <2>4, <2>5, <4>1
        <4>3. ~(first < n) BY <2>4
        <4> QED BY <2>4, <2>7, <2>9, <4>1, <4>2, <4>3
      <3>3. ~(Part(one, first) > Part(two, first)) BY <2>7, <2>9
      <3> QED BY <1>1, <1>4, <2>6, <3>1, <3>2, <3>3
    <2> QED BY <2>4, <2>7, <2>8, <2>9
  <1> QED BY <1>3, <1>4

LEMMA AboveTransitive ==
  ASSUME NEW one \in Seq(Nat), NEW two \in Seq(Nat), NEW three \in Seq(Nat), Above(one, two), Above(two, three)
  PROVE  Above(one, three)
  <1>1. PICK n \in Nat \ {0} : Part(one, n) > Part(two, n) /\ \A m \in 1 .. n - 1 : Part(one, m) = Part(two, m)
    BY DEF Above
  <1>2. PICK k \in Nat \ {0} : Part(two, k) > Part(three, k) /\ \A m \in 1 .. k - 1 : Part(two, m) = Part(three, m)
    BY DEF Above
  <1>3. \A i \in Nat : Part(one, i) \in Nat /\ Part(two, i) \in Nat /\ Part(three, i) \in Nat BY PartTyped
  <1> DEFINE least == IF n < k THEN n ELSE k
  <1>4. least \in Nat \ {0} /\ least <= n /\ least <= k OBVIOUS
  <1>5. Part(one, least) > Part(three, least)
    <2>1. CASE n < k BY <1>1, <1>2, <1>3, <2>1
    <2>2. CASE n = k BY <1>1, <1>2, <1>3, <2>2
    <2>3. CASE k < n BY <1>1, <1>2, <1>3, <2>3
    <2> QED BY <2>1, <2>2, <2>3
  <1>6. \A m \in 1 .. least - 1 : Part(one, m) = Part(three, m) BY <1>1, <1>2, <1>4
  <1> HIDE DEF least
  <1> QED BY <1>4, <1>5, <1>6 DEF Above

LEMMA AboveAlike ==
  ASSUME NEW one \in Seq(Nat), NEW two \in Seq(Nat), NEW three \in Seq(Nat), Alike(two, three)
  PROVE  (Above(one, two) <=> Above(one, three)) /\ (Above(two, one) <=> Above(three, one))
  BY DEF Above, Alike

\* Exactly one of the three, and never both ways.
LEMMA OneOfThree ==
  ASSUME NEW one \in Seq(Nat), NEW two \in Seq(Nat)
  PROVE  /\ Alike(one, two) \/ Above(one, two) \/ Above(two, one)
         /\ ~(Alike(one, two) /\ Above(one, two)) /\ ~(Alike(one, two) /\ Above(two, one))
         /\ ~(Above(one, two) /\ Above(two, one))
  BY OrderFits

LEMMA Reversed ==
  ASSUME NEW one \in Seq(Nat), NEW two \in Seq(Nat)
  PROVE  L!W!Order(one, two) = -L!W!Order(two, one)
  <1>1. Alike(one, two) <=> Alike(two, one) BY DEF Alike
  <1> QED BY <1>1, OrderFits, OneOfThree

-----------------------------------------------------------------------------
(* The order of texts *)

Text(v) == IF v.up = None THEN <<>> ELSE <<1>> \o L!W!Digits(v.up[1])
\* Its place among all texts.
TextRank(v) ==
  IF v.up = None THEN 0
  ELSE LET digits == L!W!Digits(v.up[1])
       IN  IF Len(digits) = 1 THEN 1 + 11 * digits[1] ELSE 2 + 11 * digits[1] + digits[2]

LEMMA OneMore ==
  ASSUME NEW x \in Nat
  PROVE  <<1>> \o <<x>> = <<1, x>>
  <1>1. <<1>> \in Seq(Nat) /\ <<x>> \in Seq(Nat) /\ <<1, x>> \in Seq(Nat) OBVIOUS
  <1>2. Len(<<1>>) = 1 /\ Len(<<x>>) = 1 /\ Len(<<1, x>>) = 2 OBVIOUS
  <1>3. <<1>> \o <<x>> \in Seq(Nat) /\ Len(<<1>> \o <<x>>) = 2
        /\ \A i \in 1 .. 2 : (<<1>> \o <<x>>)[i] = IF i <= 1 THEN <<1>>[i] ELSE <<x>>[i - 1]
    BY <1>1, <1>2, ConcatProperties
  <1>4. \A i \in 1 .. 2 : (<<1>> \o <<x>>)[i] = <<1, x>>[i] BY <1>3
  <1> QED BY <1>1, <1>2, <1>3, <1>4, SeqEqual

LEMMA TwoMore ==
  ASSUME NEW x \in Nat, NEW y \in Nat
  PROVE  <<1>> \o <<x, y>> = <<1, x, y>>
  <1>1. <<1>> \in Seq(Nat) /\ <<x, y>> \in Seq(Nat) /\ <<1, x, y>> \in Seq(Nat) OBVIOUS
  <1>2. Len(<<1>>) = 1 /\ Len(<<x, y>>) = 2 /\ Len(<<1, x, y>>) = 3 OBVIOUS
  <1>3. <<1>> \o <<x, y>> \in Seq(Nat) /\ Len(<<1>> \o <<x, y>>) = 3
        /\ \A i \in 1 .. 3 : (<<1>> \o <<x, y>>)[i] = IF i <= 1 THEN <<1>>[i] ELSE <<x, y>>[i - 1]
    BY <1>1, <1>2, ConcatProperties
  <1>4. \A i \in 1 .. 3 : (<<1>> \o <<x, y>>)[i] = <<1, x, y>>[i] BY <1>3
  <1> QED BY <1>1, <1>2, <1>3, <1>4, SeqEqual

LEMMA Digit == ASSUME NEW u \in 10 .. 99 PROVE \E d \in 1 .. 9, r \in 0 .. 9 : d = u \div 10 /\ r = u % 10 /\ u = 10 * d + r
  <1> DEFINE d == u \div 10
             r == u % 10
  <1>1. d \in 1 .. 9 BY Z3
  <1>2. r \in 0 .. 9 OBVIOUS
  <1>3. u - r = 10 * d BY SMT
  <1>5. d = u \div 10 /\ r = u % 10 OBVIOUS
  <1> HIDE DEF d, r
  <1>4. u = 10 * d + r BY <1>1, <1>2, <1>3
  <1> QED BY <1>1, <1>2, <1>4, <1>5

NoText(v) == v.up = None /\ Text(v) = <<>> /\ TextRank(v) = 0
OneDigit(v, d) == v.up # None /\ v.up[1] = d /\ Text(v) = <<1, d>> /\ TextRank(v) = 1 + 11 * d
TwoDigits(v, d, r) == v.up # None /\ v.up[1] = 10 * d + r /\ Text(v) = <<1, d, r>> /\ TextRank(v) = 2 + 11 * d + r

LEMMA TextIs ==
  ASSUME NEW v \in L!Version
  PROVE  \/ NoText(v)
         \/ \E d \in 0 .. 9 : OneDigit(v, d)
         \/ \E d \in 1 .. 9, r \in 0 .. 9 : TwoDigits(v, d, r)
  <1>1. CASE v.up = None BY <1>1 DEF NoText, Text, TextRank
  <1>2. CASE v.up # None /\ v.up[1] < 10
    <2>1. v.up[1] \in 0 .. 9 BY <1>2 DEF L!Version, L!Numbers
    <2>2. L!W!Digits(v.up[1]) = <<v.up[1]>> BY <1>2 DEF L!W!Digits
    <2>3. <<1>> \o <<v.up[1]>> = <<1, v.up[1]>> BY <2>1, OneMore
    <2>4. OneDigit(v, v.up[1]) BY <1>2, <2>1, <2>2, <2>3 DEF OneDigit, Text, TextRank
    <2> QED BY <2>1, <2>4
  <1>3. CASE v.up # None /\ ~(v.up[1] < 10)
    <2>1. v.up[1] \in 10 .. 99 BY <1>3 DEF L!Version, L!Numbers
    <2>2. PICK d \in 1 .. 9, r \in 0 .. 9 : d = v.up[1] \div 10 /\ r = v.up[1] % 10 /\ v.up[1] = 10 * d + r
      BY <2>1, Digit
    <2>3. L!W!Digits(v.up[1]) = <<d, r>> BY <1>3, <2>2 DEF L!W!Digits
    <2>4. TextRank(v) = 2 + 11 * d + r
      <3>1. Len(<<d, r>>) = 2 /\ <<d, r>>[1] = d /\ <<d, r>>[2] = r OBVIOUS
      <3> QED BY <1>3, <2>3, <3>1 DEF TextRank
    <2>5. <<1>> \o <<d, r>> = <<1, d, r>> BY TwoMore
    <2>6. Text(v) = <<1, d, r>> BY <1>3, <2>3, <2>5 DEF Text
    <2>7. v.up[1] = 10 * d + r BY <2>2
    <2>8. TwoDigits(v, d, r) BY <1>3, <2>4, <2>6, <2>7 DEF TwoDigits
    <2> QED BY <2>8
  <1> QED BY <1>1, <1>2, <1>3

LEMMA FirstOfThree ==
  ASSUME NEW T \in SUBSET (1 .. 3), T # {}
  PROVE  (CHOOSE n \in T : \A m \in T : n <= m) = IF 1 \in T THEN 1 ELSE IF 2 \in T THEN 2 ELSE 3
  <1> DEFINE l == Least(T)
  <1>1. T \in SUBSET Nat OBVIOUS
  <1>2. l \in T /\ \A m \in T : l <= m BY <1>1, LeastFits
  <1>3. l = (CHOOSE n \in T : \A m \in T : n <= m) BY DEF Least
  <1> HIDE DEF l
  <1>4. l = IF 1 \in T THEN 1 ELSE IF 2 \in T THEN 2 ELSE 3 BY <1>2
  <1> QED BY <1>3, <1>4

LEMMA TextOrderFits ==
  ASSUME NEW a \in L!Version, NEW b \in L!Version
  PROVE  /\ TextRank(a) \in Nat
         /\ L!W!TextOrder(a, b) = IF TextRank(a) = TextRank(b) THEN 0 ELSE IF TextRank(a) > TextRank(b) THEN 1 ELSE -1
  <1> DEFINE one == Text(a)
             two == Text(b)
             differ == {n \in 1 .. 3 : (n \in DOMAIN one /\ n \in DOMAIN two) => one[n] # two[n]}
             first == IF 1 \in differ THEN 1 ELSE IF 2 \in differ THEN 2 ELSE 3
             value == IF first \notin DOMAIN two \/ (first \in DOMAIN one /\ one[first] > two[first]) THEN 1 ELSE -1
             Goal == L!W!TextOrder(a, b) = IF TextRank(a) = TextRank(b) THEN 0 ELSE IF TextRank(a) > TextRank(b) THEN 1 ELSE -1
  <1>1. L!W!TextOrder(a, b) =
          IF one = two THEN 0
          ELSE LET n == CHOOSE n \in differ : \A m \in differ : n <= m
               IN  IF n \notin DOMAIN two \/ (n \in DOMAIN one /\ one[n] > two[n]) THEN 1 ELSE -1
    BY DEF L!W!TextOrder, Text
  <1>2. differ # {} => L!W!TextOrder(a, b) = IF one = two THEN 0 ELSE value
    <2>1. differ \in SUBSET (1 .. 3) OBVIOUS
    <2> HIDE DEF one, two, differ
    <2> QED BY <1>1, <2>1, FirstOfThree
  <1>3. one = two => L!W!TextOrder(a, b) = 0 BY <1>1
  <1>9. NoText(a) \/ (\E d \in 0 .. 9 : OneDigit(a, d)) \/ (\E d \in 1 .. 9, r \in 0 .. 9 : TwoDigits(a, d, r)) BY TextIs
  <1>10. NoText(b) \/ (\E d \in 0 .. 9 : OneDigit(b, d)) \/ (\E d \in 1 .. 9, r \in 0 .. 9 : TwoDigits(b, d, r)) BY TextIs
  <1>4. ASSUME NoText(a) PROVE Goal
    <2>1. ASSUME NoText(b) PROVE Goal
      <3>1. one = two /\ TextRank(a) = TextRank(b) BY <1>4, <2>1 DEF NoText
      <3> HIDE DEF one, two, differ, first, value
      <3> QED BY <1>3, <3>1
    <2>2. ASSUME NEW d \in 0 .. 9, OneDigit(b, d) PROVE Goal
      <3>1. 1 \in differ /\ one # two /\ value = -1 BY <1>4, <2>2 DEF NoText, OneDigit
      <3>2. TextRank(a) = 0 /\ TextRank(b) = 1 + 11 * d BY <1>4, <2>2 DEF NoText, OneDigit
      <3> HIDE DEF one, two, differ, first, value
      <3> QED BY <1>2, <3>1, <3>2
    <2>3. ASSUME NEW d \in 1 .. 9, NEW r \in 0 .. 9, TwoDigits(b, d, r) PROVE Goal
      <3>1. 1 \in differ /\ one # two /\ value = -1 BY <1>4, <2>3 DEF NoText, TwoDigits
      <3>2. TextRank(a) = 0 /\ TextRank(b) = 2 + 11 * d + r BY <1>4, <2>3 DEF NoText, TwoDigits
      <3> HIDE DEF one, two, differ, first, value
      <3> QED BY <1>2, <3>1, <3>2
    <2> HIDE DEF Goal
    <2> QED BY <1>10, <2>1, <2>2, <2>3
  <1>5. ASSUME NEW d \in 0 .. 9, OneDigit(a, d) PROVE Goal
    <2>1. ASSUME NoText(b) PROVE Goal
      <3>1. 1 \in differ /\ one # two /\ value = 1 BY <1>5, <2>1 DEF NoText, OneDigit
      <3>2. TextRank(b) = 0 /\ TextRank(a) = 1 + 11 * d BY <1>5, <2>1 DEF NoText, OneDigit
      <3> HIDE DEF one, two, differ, first, value
      <3> QED BY <1>2, <3>1, <3>2
    <2>2. ASSUME NEW e \in 0 .. 9, OneDigit(b, e) PROVE Goal
      <3>1. 1 \notin differ /\ 3 \in differ /\ (2 \in differ <=> d # e) /\ (one = two <=> d = e)
        BY <1>5, <2>2 DEF OneDigit
      <3>2. d # e => value = IF d > e THEN 1 ELSE -1 BY <1>5, <2>2, <3>1 DEF OneDigit
      <3>3. TextRank(a) = 1 + 11 * d /\ TextRank(b) = 1 + 11 * e BY <1>5, <2>2 DEF OneDigit
      <3> HIDE DEF one, two, differ, first, value
      <3> QED BY <1>2, <1>3, <3>1, <3>2, <3>3
    <2>3. ASSUME NEW e \in 1 .. 9, NEW r \in 0 .. 9, TwoDigits(b, e, r) PROVE Goal
      <3>1. 1 \notin differ /\ 3 \in differ /\ (2 \in differ <=> d # e) /\ one # two
        BY <1>5, <2>3 DEF OneDigit, TwoDigits
      <3>2. value = IF d > e THEN 1 ELSE -1 BY <1>5, <2>3, <3>1 DEF OneDigit, TwoDigits
      <3>3. TextRank(a) = 1 + 11 * d /\ TextRank(b) = 2 + 11 * e + r BY <1>5, <2>3 DEF OneDigit, TwoDigits
      <3> HIDE DEF one, two, differ, first, value
      <3> QED BY <1>2, <3>1, <3>2, <3>3
    <2> HIDE DEF Goal
    <2> QED BY <1>10, <2>1, <2>2, <2>3
  <1>6. ASSUME NEW d \in 1 .. 9, NEW q \in 0 .. 9, TwoDigits(a, d, q) PROVE Goal
    <2>1. ASSUME NoText(b) PROVE Goal
      <3>1. 1 \in differ /\ one # two /\ value = 1 BY <1>6, <2>1 DEF NoText, TwoDigits
      <3>2. TextRank(b) = 0 /\ TextRank(a) = 2 + 11 * d + q BY <1>6, <2>1 DEF NoText, TwoDigits
      <3> HIDE DEF one, two, differ, first, value
      <3> QED BY <1>2, <3>1, <3>2
    <2>2. ASSUME NEW e \in 0 .. 9, OneDigit(b, e) PROVE Goal
      <3>1. 1 \notin differ /\ 3 \in differ /\ (2 \in differ <=> d # e) /\ one # two
        BY <1>6, <2>2 DEF OneDigit, TwoDigits
      <3>2. value = IF d >= e THEN 1 ELSE -1 BY <1>6, <2>2, <3>1 DEF OneDigit, TwoDigits
      <3>3. TextRank(a) = 2 + 11 * d + q /\ TextRank(b) = 1 + 11 * e BY <1>6, <2>2 DEF OneDigit, TwoDigits
      <3> HIDE DEF one, two, differ, first, value
      <3> QED BY <1>2, <3>1, <3>2, <3>3
    <2>3. ASSUME NEW e \in 1 .. 9, NEW r \in 0 .. 9, TwoDigits(b, e, r) PROVE Goal
      <3>1. 1 \notin differ /\ (2 \in differ <=> d # e) /\ (3 \in differ <=> q # r) /\ (one = two <=> d = e /\ q = r)
        BY <1>6, <2>3 DEF TwoDigits
      <3>2. one # two => differ # {} /\ value = IF d > e \/ (d = e /\ q > r) THEN 1 ELSE -1
        BY <1>6, <2>3, <3>1 DEF TwoDigits
      <3>3. TextRank(a) = 2 + 11 * d + q /\ TextRank(b) = 2 + 11 * e + r BY <1>6, <2>3 DEF TwoDigits
      <3> HIDE DEF one, two, differ, first, value
      <3> QED BY <1>2, <1>3, <3>1, <3>2, <3>3
    <2> HIDE DEF Goal
    <2> QED BY <1>10, <2>1, <2>2, <2>3
  <1>7. TextRank(a) \in Nat
    <2>1. ASSUME NoText(a) PROVE TextRank(a) \in Nat BY <2>1 DEF NoText
    <2>2. ASSUME NEW d \in 0 .. 9, OneDigit(a, d) PROVE TextRank(a) \in Nat BY <2>2 DEF OneDigit
    <2>3. ASSUME NEW d \in 1 .. 9, NEW r \in 0 .. 9, TwoDigits(a, d, r) PROVE TextRank(a) \in Nat BY <2>3 DEF TwoDigits
    <2> QED BY <1>9, <2>1, <2>2, <2>3
  <1>8. Goal
    <2> HIDE DEF Goal
    <2> QED BY <1>4, <1>5, <1>6, <1>9
  <1> QED BY <1>7, <1>8

\* Texts are alike when what they begin with is, and of two numbers the greater comes first only with fewer digits.
LEMMA TextRanks ==
  ASSUME NEW a \in L!Version, NEW b \in L!Version
  PROVE  /\ TextRank(a) = 0 <=> a.up = None
         /\ TextRank(a) = TextRank(b) /\ a.up # None => b.up # None /\ a.up[1] = b.up[1]
         /\ a.up # None /\ b.up # None /\ a.up[1] > b.up[1] /\ TextRank(a) <= TextRank(b) =>
               Len(L!W!Digits(a.up[1])) > Len(L!W!Digits(b.up[1]))
  <1> DEFINE Goal == /\ TextRank(a) = TextRank(b) /\ a.up # None => b.up # None /\ a.up[1] = b.up[1]
                     /\ a.up # None /\ b.up # None /\ a.up[1] > b.up[1] /\ TextRank(a) <= TextRank(b) =>
                           Len(L!W!Digits(a.up[1])) > Len(L!W!Digits(b.up[1]))
  <1>9. NoText(a) \/ (\E d \in 0 .. 9 : OneDigit(a, d)) \/ (\E d \in 1 .. 9, r \in 0 .. 9 : TwoDigits(a, d, r)) BY TextIs
  <1>10. NoText(b) \/ (\E d \in 0 .. 9 : OneDigit(b, d)) \/ (\E d \in 1 .. 9, r \in 0 .. 9 : TwoDigits(b, d, r)) BY TextIs
  <1>0. ASSUME NEW v \in L!Version PROVE TextRank(v) = 0 <=> v.up = None
    <2>1. ASSUME NoText(v) PROVE TextRank(v) = 0 <=> v.up = None BY <2>1 DEF NoText
    <2>2. ASSUME NEW d \in 0 .. 9, OneDigit(v, d) PROVE TextRank(v) = 0 <=> v.up = None BY <2>2 DEF OneDigit
    <2>3. ASSUME NEW d \in 1 .. 9, NEW r \in 0 .. 9, TwoDigits(v, d, r) PROVE TextRank(v) = 0 <=> v.up = None
      BY <2>3 DEF TwoDigits
    <2> QED BY <2>1, <2>2, <2>3, TextIs
  <1>1. ASSUME NoText(a) PROVE Goal
    <2>1. a.up = None BY <1>1 DEF NoText
    <2> QED BY <2>1
  <1>2. ASSUME NoText(b) PROVE Goal
    <2>1. b.up = None /\ TextRank(b) = 0 BY <1>2 DEF NoText
    <2>2. TextRank(a) = 0 <=> a.up = None BY <1>0
    <2> QED BY <2>1, <2>2
  <1>3. ASSUME NEW d \in 0 .. 9, OneDigit(a, d), NEW e \in 0 .. 9, OneDigit(b, e) PROVE Goal
    BY <1>3 DEF OneDigit
  <1>4. ASSUME NEW d \in 0 .. 9, OneDigit(a, d), NEW e \in 1 .. 9, NEW r \in 0 .. 9, TwoDigits(b, e, r) PROVE Goal
    BY <1>4 DEF OneDigit, TwoDigits
  <1>5. ASSUME NEW d \in 1 .. 9, NEW q \in 0 .. 9, TwoDigits(a, d, q), NEW e \in 0 .. 9, OneDigit(b, e) PROVE Goal
    <2>1. a.up[1] = 10 * d + q /\ b.up[1] = e /\ b.up # None BY <1>5 DEF OneDigit, TwoDigits
    <2>2. TextRank(a) = 2 + 11 * d + q /\ TextRank(b) = 1 + 11 * e BY <1>5 DEF OneDigit, TwoDigits
    <2>3. TextRank(a) # TextRank(b) BY <2>2
    <2>4. Len(L!W!Digits(a.up[1])) = 2 /\ Len(L!W!Digits(b.up[1])) = 1
      <3>1. ~(a.up[1] < 10) /\ b.up[1] < 10 BY <2>1
      <3> QED BY <3>1 DEF L!W!Digits
    <2>5. Len(L!W!Digits(a.up[1])) > Len(L!W!Digits(b.up[1])) BY <2>4
    <2> QED BY <2>3, <2>5
  <1>6. ASSUME NEW d \in 1 .. 9, NEW q \in 0 .. 9, TwoDigits(a, d, q), NEW e \in 1 .. 9, NEW r \in 0 .. 9, TwoDigits(b, e, r)
        PROVE Goal
    BY <1>6 DEF TwoDigits
  <1> HIDE DEF Goal
  <1>7. Goal
    <2>1. ASSUME NEW d \in 0 .. 9, OneDigit(a, d) PROVE Goal BY <1>2, <1>3, <1>4, <1>10, <2>1
    <2>2. ASSUME NEW d \in 1 .. 9, NEW q \in 0 .. 9, TwoDigits(a, d, q) PROVE Goal BY <1>2, <1>5, <1>6, <1>10, <2>2
    <2> QED BY <1>1, <1>9, <2>1, <2>2
  <1> QED BY <1>0, <1>7 DEF Goal

-----------------------------------------------------------------------------
(* The parts of a version *)

LEMMA Three ==
  ASSUME NEW f \in L!Numbers
  PROVE  f \in Seq(Nat) /\ Len(f) = 3 /\ DOMAIN f = 1 .. 3 /\ f[1] \in Nat /\ f[2] \in Nat /\ f[3] \in Nat
  <1>1. f \in [1 .. 3 -> Nat] BY DEF L!Numbers
  <1>2. f \in Seq(Nat)
    <2>1. [1 .. 3 -> Nat] \in {[1 .. n -> Nat] : n \in Nat} OBVIOUS
    <2> QED BY <1>1, <2>1, SeqDef
  <1>3. DOMAIN f = 1 .. 3 BY <1>1
  <1>4. Len(f) = 3 BY <1>2, <1>3
  <1> QED BY <1>1, <1>2, <1>3, <1>4

LEMMA VersionTyped ==
  ASSUME NEW v \in L!Version
  PROVE  /\ v.core \in L!Numbers /\ v.pre \in {None, "rc"} /\ (v.up # None => v.up \in L!Numbers)
         /\ v = [core |-> v.core, pre |-> v.pre, up |-> v.up]
  BY DEF L!Version

LEMMA Tail2Is ==
  ASSUME NEW up, up # None => up \in L!Numbers
  PROVE  /\ L!W!Tail2(up) \in Seq(Nat)
         /\ Len(L!W!Tail2(up)) = IF up = None THEN 0 ELSE 2
         /\ up # None => L!W!Tail2(up)[1] = up[2] /\ L!W!Tail2(up)[2] = up[3]
  <1>1. CASE up = None
    <2>1. L!W!Tail2(up) = <<>> BY <1>1 DEF L!W!Tail2
    <2> QED BY <1>1, <2>1
  <1>2. CASE up # None
    <2>1. up \in Seq(Nat) /\ Len(up) = 3 BY <1>2, Three
    <2>2. L!W!Tail2(up) = SubSeq(up, 2, 3) BY <1>2 DEF L!W!Tail2
    <2>3. SubSeq(up, 2, 3) \in Seq(Nat) /\ Len(SubSeq(up, 2, 3)) = 2
          /\ \A i \in 1 .. 2 : SubSeq(up, 2, 3)[i] = up[2 + i - 1]
      BY <2>1, SubSeqProperties, SMTT(60)
    <2> QED BY <1>2, <2>2, <2>3
  <1> QED BY <1>1, <1>2

\* What stands at each place of a sequence that begins with three numbers.
LEMMA PartsOf ==
  ASSUME NEW core \in L!Numbers, NEW rest \in Seq(Nat)
  PROVE  /\ core \o rest \in Seq(Nat)
         /\ \A n \in 1 .. 3 : Part(core \o rest, n) = core[n]
         /\ \A n \in 1 .. Len(rest) : Part(core \o rest, n + 3) = rest[n]
         /\ \A n \in Nat : n > Len(rest) => Part(core \o rest, n + 3) = 0
  <1>1. core \in Seq(Nat) /\ Len(core) = 3 BY Three
  <1>2. Len(rest) \in Nat OBVIOUS
  <1>3. core \o rest \in Seq(Nat) /\ Len(core \o rest) = 3 + Len(rest)
        /\ \A i \in 1 .. 3 + Len(rest) : (core \o rest)[i] = IF i <= 3 THEN core[i] ELSE rest[i - 3]
    <2>1. core \o rest \in Seq(Nat) /\ Len(core \o rest) = Len(core) + Len(rest)
          /\ \A i \in 1 .. Len(core) + Len(rest) : (core \o rest)[i] = IF i <= Len(core) THEN core[i] ELSE rest[i - Len(core)]
      BY <1>1, ConcatProperties
    <2> QED BY <1>1, <2>1
  <1> DEFINE s == core \o rest
  <1> HIDE DEF s
  <1>4. s \in Seq(Nat) /\ DOMAIN s = 1 .. 3 + Len(rest) BY <1>2, <1>3 DEF s
  <1>5. \A n \in 1 .. 3 : Part(s, n) = core[n] BY <1>2, <1>3, <1>4 DEF s, Part, L!W!At
  <1>6. \A n \in 1 .. Len(rest) : Part(s, n + 3) = rest[n]
    <2> SUFFICES ASSUME NEW n \in 1 .. Len(rest) PROVE Part(s, n + 3) = rest[n] OBVIOUS
    <2>1. n + 3 \in 1 .. 3 + Len(rest) /\ ~(n + 3 <= 3) /\ (n + 3) - 3 = n BY <1>2
    <2>2. s[n + 3] = rest[n] BY <1>3, <2>1 DEF s
    <2> QED BY <1>4, <2>1, <2>2 DEF Part, L!W!At
  <1>7. \A n \in Nat : n > Len(rest) => Part(s, n + 3) = 0
    <2> SUFFICES ASSUME NEW n \in Nat, n > Len(rest) PROVE Part(s, n + 3) = 0 OBVIOUS
    <2>1. n + 3 \notin DOMAIN s BY <1>2, <1>4
    <2> QED BY <2>1 DEF Part, L!W!At
  <1> QED BY <1>4, <1>5, <1>6, <1>7 DEF s

Parts(v) == L!W!parseIntParts(v)

LEMMA PartsAt ==
  ASSUME NEW v \in L!Version
  PROVE  /\ Parts(v) \in Seq(Nat)
         /\ \A n \in 1 .. 3 : Part(Parts(v), n) = v.core[n]
         /\ Part(Parts(v), 4) = IF v.up = None THEN 0 ELSE v.up[2]
         /\ Part(Parts(v), 5) = IF v.up = None THEN 0 ELSE v.up[3]
         /\ \A n \in Nat : n > 5 => Part(Parts(v), n) = 0
  <1> DEFINE rest == L!W!Tail2(v.up)
  <1>1. v.core \in L!Numbers /\ (v.up # None => v.up \in L!Numbers) BY VersionTyped
  <1>2. rest \in Seq(Nat) /\ Len(rest) = (IF v.up = None THEN 0 ELSE 2)
        /\ (v.up # None => rest[1] = v.up[2] /\ rest[2] = v.up[3])
    BY <1>1, Tail2Is
  <1>3. Parts(v) = v.core \o rest BY DEF Parts, L!W!parseIntParts
  <1> HIDE DEF rest
  <1>4. Parts(v) \in Seq(Nat) /\ (\A n \in 1 .. 3 : Part(Parts(v), n) = v.core[n])
        /\ (\A n \in 1 .. Len(rest) : Part(Parts(v), n + 3) = rest[n])
        /\ (\A n \in Nat : n > Len(rest) => Part(Parts(v), n + 3) = 0)
    <2>1. v.core \in L!Numbers /\ rest \in Seq(Nat) BY <1>1, <1>2
    <2>2. v.core \o rest \in Seq(Nat) /\ (\A n \in 1 .. 3 : Part(v.core \o rest, n) = v.core[n])
          /\ (\A n \in 1 .. Len(rest) : Part(v.core \o rest, n + 3) = rest[n])
          /\ (\A n \in Nat : n > Len(rest) => Part(v.core \o rest, n + 3) = 0)
      BY <2>1, PartsOf
    <2> QED BY <1>3, <2>2
  <1>5. Part(Parts(v), 1 + 3) = IF v.up = None THEN 0 ELSE v.up[2] BY <1>2, <1>4
  <1>6. Part(Parts(v), 2 + 3) = IF v.up = None THEN 0 ELSE v.up[3]
    <2>1. CASE v.up = None
      <3>1. 2 \in Nat /\ 2 > Len(rest) BY <1>2, <2>1
      <3> QED BY <1>4, <2>1, <3>1
    <2>2. CASE v.up # None
      <3>1. 2 \in 1 .. Len(rest) BY <1>2, <2>2
      <3> QED BY <1>2, <1>4, <2>2, <3>1
    <2> QED BY <2>1, <2>2
  <1>7. ASSUME NEW n \in Nat, n > 5 PROVE Part(Parts(v), n) = 0
    <2>1. n - 3 \in Nat /\ n - 3 > Len(rest) /\ (n - 3) + 3 = n BY <1>2, <1>7
    <2>2. Part(Parts(v), (n - 3) + 3) = 0 BY <1>4, <2>1
    <2> QED BY <2>1, <2>2
  <1> QED BY <1>4, <1>5, <1>6, <1>7

-----------------------------------------------------------------------------
(* semverDesc *)

\* a is shown before b.
Before(a, b) ==
  \/ Above(Parts(a), Parts(b))
  \/ Alike(Parts(a), Parts(b)) /\ TextRank(a) > TextRank(b)

LEMMA DescFits ==
  ASSUME NEW a \in L!Version, NEW b \in L!Version
  PROVE  /\ L!W!semverDesc(a, b) \in {0, 1, -1}
         /\ L!W!semverDesc(a, b) = -1 <=> Before(a, b)
         /\ L!W!semverDesc(a, b) = 1 <=> Before(b, a)
         /\ L!W!semverDesc(a, b) = 0 <=> Alike(Parts(a), Parts(b)) /\ TextRank(a) = TextRank(b)
  <1>1. Parts(a) \in Seq(Nat) /\ Parts(b) \in Seq(Nat) BY PartsAt
  <1>2. /\ L!W!Order(Parts(b), Parts(a)) \in {0, 1, -1}
        /\ L!W!Order(Parts(b), Parts(a)) = 0 <=> Alike(Parts(b), Parts(a))
        /\ L!W!Order(Parts(b), Parts(a)) = 1 <=> Above(Parts(b), Parts(a))
        /\ L!W!Order(Parts(b), Parts(a)) = -1 <=> Above(Parts(a), Parts(b))
    BY <1>1, OrderFits
  <1>3. Alike(Parts(b), Parts(a)) <=> Alike(Parts(a), Parts(b)) BY DEF Alike
  <1>4. TextRank(a) \in Nat /\ TextRank(b) \in Nat
        /\ L!W!TextOrder(b, a) = IF TextRank(b) = TextRank(a) THEN 0 ELSE IF TextRank(b) > TextRank(a) THEN 1 ELSE -1
    BY TextOrderFits
  <1>5. L!W!semverDesc(a, b) =
          IF L!W!Order(Parts(b), Parts(a)) # 0 THEN L!W!Order(Parts(b), Parts(a)) ELSE L!W!TextOrder(b, a)
    BY DEF L!W!semverDesc, Parts
  <1>6. ~(Above(Parts(a), Parts(b)) /\ Above(Parts(b), Parts(a))) BY <1>1, OneOfThree
  <1> QED BY <1>2, <1>3, <1>4, <1>5, <1>6 DEF Before

LEMMA BeforeTransitive ==
  ASSUME NEW a \in L!Version, NEW b \in L!Version, NEW c \in L!Version, Before(a, b), Before(b, c)
  PROVE  Before(a, c)
  <1>1. Parts(a) \in Seq(Nat) /\ Parts(b) \in Seq(Nat) /\ Parts(c) \in Seq(Nat) BY PartsAt
  <1>2. TextRank(a) \in Nat /\ TextRank(b) \in Nat /\ TextRank(c) \in Nat BY TextOrderFits
  <1>3. Above(Parts(a), Parts(b)) /\ Above(Parts(b), Parts(c)) => Above(Parts(a), Parts(c)) BY <1>1, AboveTransitive
  <1>4. Alike(Parts(b), Parts(c)) => (Above(Parts(a), Parts(b)) <=> Above(Parts(a), Parts(c))) BY <1>1, AboveAlike
  <1>5. Alike(Parts(a), Parts(b)) => (Above(Parts(b), Parts(c)) <=> Above(Parts(a), Parts(c))) BY DEF Alike, Above
  <1>6. Alike(Parts(a), Parts(b)) /\ Alike(Parts(b), Parts(c)) => Alike(Parts(a), Parts(c)) BY DEF Alike
  <1> QED BY <1>2, <1>3, <1>4, <1>5, <1>6 DEF Before

LEMMA NumbersEqual ==
  ASSUME NEW f \in L!Numbers, NEW g \in L!Numbers, f[1] = g[1], f[2] = g[2], f[3] = g[3]
  PROVE  f = g
  <1>1. \A n \in 1 .. 3 : f[n] = g[n] OBVIOUS
  <1> QED BY <1>1 DEF L!Numbers

\* Released versions with the same parts and texts are the same.
LEMMA SameVersion ==
  ASSUME NEW a \in L!Version, NEW b \in L!Version, a.pre = b.pre
  PROVE  Alike(Parts(a), Parts(b)) /\ TextRank(a) = TextRank(b) <=> a = b
  <1>1. ASSUME Alike(Parts(a), Parts(b)), TextRank(a) = TextRank(b) PROVE a = b
    <2>0. /\ a.core \in L!Numbers /\ (a.up # None => a.up \in L!Numbers) /\ a = [core |-> a.core, pre |-> a.pre, up |-> a.up]
          /\ b.core \in L!Numbers /\ (b.up # None => b.up \in L!Numbers) /\ b = [core |-> b.core, pre |-> b.pre, up |-> b.up]
      BY VersionTyped
    <2>1. \A n \in 1 .. 3 : Part(Parts(a), n) = a.core[n] /\ Part(Parts(b), n) = b.core[n] BY PartsAt
    <2>2. \A n \in 1 .. 3 : a.core[n] = b.core[n] BY <1>1, <2>1 DEF Alike
    <2>3. a.core = b.core
      <3>1. a.core[1] = b.core[1] /\ a.core[2] = b.core[2] /\ a.core[3] = b.core[3] BY <2>2
      <3> QED BY <2>0, <3>1, NumbersEqual
    <2>4. (a.up = None <=> b.up = None) /\ (a.up # None => a.up[1] = b.up[1])
      <3>1. (TextRank(a) = 0 <=> a.up = None) /\ (TextRank(b) = 0 <=> b.up = None) BY TextRanks
      <3>2. TextRank(a) = TextRank(b) /\ a.up # None => b.up # None /\ a.up[1] = b.up[1] BY TextRanks
      <3> QED BY <1>1, <3>1, <3>2
    <2>5. Part(Parts(a), 4) = Part(Parts(b), 4) /\ Part(Parts(a), 5) = Part(Parts(b), 5) BY <1>1 DEF Alike
    <2>6. a.up = b.up
      <3>1. CASE a.up = None BY <2>4, <3>1
      <3>2. CASE a.up # None
        <4>1. a.up[2] = Part(Parts(a), 4) /\ a.up[3] = Part(Parts(a), 5) BY <3>2, PartsAt
        <4>2. b.up[2] = Part(Parts(b), 4) /\ b.up[3] = Part(Parts(b), 5) BY <3>2, <2>4, PartsAt
        <4>3. a.up[2] = b.up[2] /\ a.up[3] = b.up[3] BY <2>5, <4>1, <4>2
        <4> QED BY <2>0, <2>4, <3>2, <4>3, NumbersEqual
      <3> QED BY <3>1, <3>2
    <2> QED BY <2>0, <2>3, <2>6
  <1>2. ASSUME a = b PROVE Alike(Parts(a), Parts(b)) /\ TextRank(a) = TextRank(b) BY <1>2 DEF Alike
  <1> QED BY <1>1, <1>2

Packaged(v) == IF v.up = None THEN <<0, 0, 0>> ELSE v.up

LEMMA PackagedTyped ==
  ASSUME NEW v \in L!Version
  PROVE  /\ Packaged(v) \in L!Numbers
         /\ Part(Parts(v), 4) = Packaged(v)[2] /\ Part(Parts(v), 5) = Packaged(v)[3]
         /\ v.core \o Packaged(v) \in Seq(Nat)
         /\ \A n \in 1 .. 3 : Part(v.core \o Packaged(v), n) = v.core[n] /\ Part(v.core \o Packaged(v), n + 3) = Packaged(v)[n]
         /\ \A n \in Nat : n > 6 => Part(v.core \o Packaged(v), n) = 0
  <1>1. Packaged(v) \in L!Numbers
    <2>1. <<0, 0, 0>> \in L!Numbers BY DEF L!Numbers
    <2> QED BY <2>1, VersionTyped DEF Packaged
  <1>2. Part(Parts(v), 4) = Packaged(v)[2] /\ Part(Parts(v), 5) = Packaged(v)[3]
    <2>1. <<0, 0, 0>>[2] = 0 /\ <<0, 0, 0>>[3] = 0 OBVIOUS
    <2> QED BY <2>1, PartsAt DEF Packaged
  <1> DEFINE s == v.core \o Packaged(v)
  <1>3. v.core \in L!Numbers BY VersionTyped
  <1>4. Packaged(v) \in Seq(Nat) /\ Len(Packaged(v)) = 3 BY <1>1, Three
  <1>5. s \in Seq(Nat) /\ (\A n \in 1 .. 3 : Part(s, n) = v.core[n])
        /\ (\A n \in 1 .. Len(Packaged(v)) : Part(s, n + 3) = Packaged(v)[n])
        /\ (\A n \in Nat : n > Len(Packaged(v)) => Part(s, n + 3) = 0)
    BY <1>3, <1>4, PartsOf
  <1> HIDE DEF s
  <1>6. ASSUME NEW n \in Nat, n > 6 PROVE Part(s, n) = 0
    <2>1. n - 3 \in Nat /\ n - 3 > 3 /\ (n - 3) + 3 = n BY <1>6
    <2>2. Part(s, (n - 3) + 3) = 0 BY <1>4, <1>5, <2>1
    <2> QED BY <2>1, <2>2
  <1> QED BY <1>1, <1>2, <1>4, <1>5, <1>6 DEF s

\* Where the newer of two is not shown before the other.
LEMMA NotBefore ==
  ASSUME NEW a \in L!Version, NEW b \in L!Version, L!W!Newer(a, b), ~Before(a, b)
  PROVE  /\ a.core = b.core /\ a.up # None /\ b.up # None /\ a.up[1] > b.up[1]
         /\ \/ L!W!Order(L!W!Tail2(b.up), L!W!Tail2(a.up)) = 1
            \/ L!W!Tail2(b.up) = L!W!Tail2(a.up) /\ TextRank(a) <= TextRank(b)
  <1> DEFINE p == Packaged(a)
             q == Packaged(b)
             one == a.core \o p
             two == b.core \o q
  <1>1. /\ p \in L!Numbers /\ q \in L!Numbers /\ one \in Seq(Nat) /\ two \in Seq(Nat)
        /\ \A n \in 1 .. 3 : Part(one, n) = a.core[n] /\ Part(one, n + 3) = p[n]
        /\ \A n \in 1 .. 3 : Part(two, n) = b.core[n] /\ Part(two, n + 3) = q[n]
        /\ \A n \in Nat : n > 6 => Part(one, n) = 0 /\ Part(two, n) = 0
    BY PackagedTyped
  <1>2. L!W!Order(one, two) = 1 BY DEF L!W!Newer, Packaged
  <1> HIDE DEF one, two
  <1>3. Above(one, two) BY <1>1, <1>2, OrderFits
  <1>4. PICK n \in Nat \ {0} : Part(one, n) > Part(two, n) /\ \A m \in 1 .. n - 1 : Part(one, m) = Part(two, m)
    BY <1>3 DEF Above
  <1>5. n <= 6
    <2> SUFFICES ASSUME n > 6 PROVE FALSE BY <1>4
    <2>1. Part(one, n) = 0 /\ Part(two, n) = 0 BY <1>1
    <2> QED BY <1>4, <2>1
  <1>6. a.core \in L!Numbers /\ b.core \in L!Numbers BY VersionTyped
  <1>7. /\ \A m \in 1 .. 3 : Part(Parts(a), m) = a.core[m] /\ Part(Parts(b), m) = b.core[m]
        /\ Part(Parts(a), 4) = p[2] /\ Part(Parts(a), 5) = p[3] /\ Part(Parts(b), 4) = q[2] /\ Part(Parts(b), 5) = q[3]
        /\ \A m \in Nat : m > 5 => Part(Parts(a), m) = 0 /\ Part(Parts(b), m) = 0
    <2>1. \A m \in 1 .. 3 : Part(Parts(a), m) = a.core[m] /\ Part(Parts(b), m) = b.core[m] BY PartsAt
    <2>2. \A m \in Nat : m > 5 => Part(Parts(a), m) = 0 /\ Part(Parts(b), m) = 0 BY PartsAt
    <2>3. Part(Parts(a), 4) = p[2] /\ Part(Parts(a), 5) = p[3] BY PackagedTyped
    <2>4. Part(Parts(b), 4) = q[2] /\ Part(Parts(b), 5) = q[3] BY PackagedTyped
    <2> QED BY <2>1, <2>2, <2>3, <2>4
  <1>8. ~Above(Parts(a), Parts(b)) /\ (Alike(Parts(a), Parts(b)) => ~(TextRank(a) > TextRank(b))) BY DEF Before
  <1> HIDE DEF p, q
  <1>9. n > 3
    <2> SUFFICES ASSUME n <= 3 PROVE FALSE BY <1>4
    <2>1. n \in 1 .. 3 /\ n \in Nat \ {0} BY <1>4
    <2>2. Part(Parts(a), n) > Part(Parts(b), n) BY <1>1, <1>4, <1>7, <2>1
    <2>3. \A m \in 1 .. n - 1 : Part(Parts(a), m) = Part(Parts(b), m) BY <1>1, <1>4, <1>7, <2>1
    <2> QED BY <1>8, <2>1, <2>2, <2>3 DEF Above
  <1>10. a.core = b.core
    <2>1. a.core[1] = b.core[1] /\ a.core[2] = b.core[2] /\ a.core[3] = b.core[3]
      <3>1. 1 \in 1 .. n - 1 /\ 2 \in 1 .. n - 1 /\ 3 \in 1 .. n - 1 BY <1>9
      <3> QED BY <1>1, <1>4, <3>1
    <2> QED BY <1>6, <2>1, NumbersEqual
  <1>11. /\ Part(one, 4) = p[1] /\ Part(one, 5) = p[2] /\ Part(one, 6) = p[3]
         /\ Part(two, 4) = q[1] /\ Part(two, 5) = q[2] /\ Part(two, 6) = q[3]
    <2>1. Part(one, 1 + 3) = p[1] /\ Part(one, 2 + 3) = p[2] /\ Part(one, 3 + 3) = p[3] BY <1>1
    <2>2. Part(two, 1 + 3) = q[1] /\ Part(two, 2 + 3) = q[2] /\ Part(two, 3 + 3) = q[3] BY <1>1
    <2> QED BY <2>1, <2>2
  <1>12. p[1] \in Nat /\ p[2] \in Nat /\ p[3] \in Nat /\ q[1] \in Nat /\ q[2] \in Nat /\ q[3] \in Nat BY <1>1, Three
  <1>13. \A m \in 1 .. 3 : Part(Parts(a), m) = Part(Parts(b), m) BY <1>7, <1>10
  <1>14. ~(p[2] > q[2])
    <2> SUFFICES ASSUME p[2] > q[2] PROVE FALSE OBVIOUS
    <2>1. \A m \in 1 .. 4 - 1 : Part(Parts(a), m) = Part(Parts(b), m) BY <1>13
    <2> QED BY <1>7, <1>8, <2>1, 4 \in Nat \ {0} DEF Above
  <1>15. ~(p[2] = q[2] /\ p[3] > q[3])
    <2> SUFFICES ASSUME p[2] = q[2], p[3] > q[3] PROVE FALSE OBVIOUS
    <2>1. \A m \in 1 .. 5 - 1 : Part(Parts(a), m) = Part(Parts(b), m)
      <3> SUFFICES ASSUME NEW m \in 1 .. 5 - 1 PROVE Part(Parts(a), m) = Part(Parts(b), m) OBVIOUS
      <3>1. m \in 1 .. 3 \/ m = 4 OBVIOUS
      <3> QED BY <1>7, <1>13, <3>1
    <2> QED BY <1>7, <1>8, <2>1, 5 \in Nat \ {0} DEF Above
  <1>16. n = 4 /\ p[1] > q[1]
    <2>1. n \in {4, 5, 6} BY <1>5, <1>9
    <2>2. n # 5 BY <1>4, <1>11, <1>14
    <2>3. CASE n = 6
      <3>1. 5 \in 1 .. n - 1 BY <2>3
      <3>2. p[2] = q[2] /\ p[3] > q[3] BY <1>4, <1>11, <2>3, <3>1
      <3> QED BY <1>15, <3>2
    <2> QED BY <1>4, <1>11, <2>1, <2>2, <2>3
  <1>17. p[2] = q[2] /\ p[3] = q[3] => Alike(Parts(a), Parts(b))
    <2> SUFFICES ASSUME p[2] = q[2], p[3] = q[3], NEW m \in Nat \ {0} PROVE Part(Parts(a), m) = Part(Parts(b), m)
      BY DEF Alike
    <2>1. m \in 1 .. 3 \/ m = 4 \/ m = 5 \/ m > 5 OBVIOUS
    <2> QED BY <1>7, <1>13, <2>1
  <1>18. a.up # None /\ p = a.up
    <2>1. a.up = None => p[1] = 0 BY DEF p, Packaged
    <2>2. a.up # None BY <1>12, <1>16, <2>1
    <2> QED BY <2>2 DEF p, Packaged
  <1>19. b.up # None /\ q = b.up
    <2> SUFFICES ASSUME b.up = None PROVE FALSE BY DEF q, Packaged
    <2>1. q[2] = 0 /\ q[3] = 0 BY DEF q, Packaged
    <2>2. p[2] = q[2] /\ p[3] = q[3] BY <1>12, <1>14, <1>15, <2>1
    <2>3. ~(TextRank(a) > TextRank(b)) BY <1>8, <1>17, <2>2
    <2>4. (TextRank(a) = 0 <=> a.up = None) /\ (TextRank(b) = 0 <=> b.up = None) BY TextRanks
    <2>5. TextRank(a) \in Nat /\ TextRank(b) \in Nat BY TextOrderFits
    <2> QED BY <1>18, <2>3, <2>4, <2>5
  <1>20. a.up[1] > b.up[1] BY <1>16, <1>18, <1>19
  <1> DEFINE s == L!W!Tail2(a.up)
             t == L!W!Tail2(b.up)
  <1>21. s \in Seq(Nat) /\ Len(s) = 2 /\ s[1] = p[2] /\ s[2] = p[3]
    <2>1. a.up # None => a.up \in L!Numbers BY <1>1, <1>18
    <2> QED BY <1>18, <2>1, Tail2Is
  <1>22. t \in Seq(Nat) /\ Len(t) = 2 /\ t[1] = q[2] /\ t[2] = q[3]
    <2>1. b.up # None => b.up \in L!Numbers BY <1>1, <1>19
    <2> QED BY <1>19, <2>1, Tail2Is
  <1> HIDE DEF s, t
  <1>23. \/ L!W!Order(t, s) = 1
         \/ t = s /\ TextRank(a) <= TextRank(b)
    <2>0. Part(s, 1) = p[2] /\ Part(s, 2) = p[3] /\ Part(t, 1) = q[2] /\ Part(t, 2) = q[3]
      <3>1. DOMAIN s = 1 .. 2 /\ DOMAIN t = 1 .. 2 BY <1>21, <1>22
      <3> QED BY <1>21, <1>22, <3>1 DEF Part, L!W!At
    <2>1. CASE q[2] > p[2]
      <3>1. Above(t, s) BY <2>0, <2>1, 1 \in Nat \ {0} DEF Above
      <3> QED BY <1>21, <1>22, <3>1, OrderFits
    <2>2. CASE q[2] = p[2] /\ q[3] > p[3]
      <3>0. \A m \in 1 .. 2 - 1 : Part(t, m) = Part(s, m) BY <2>0, <2>2
      <3>1. Above(t, s) BY <2>0, <2>2, <3>0, 2 \in Nat \ {0} DEF Above
      <3> QED BY <1>21, <1>22, <3>1, OrderFits
    <2>3. CASE q[2] = p[2] /\ q[3] = p[3]
      <3>1. \A i \in 1 .. Len(s) : t[i] = s[i] BY <1>21, <1>22, <2>3
      <3>2. t = s BY <1>21, <1>22, <3>1, SeqEqual
      <3>3. ~(TextRank(a) > TextRank(b)) BY <1>8, <1>17, <2>3
      <3>4. TextRank(a) \in Nat /\ TextRank(b) \in Nat BY TextOrderFits
      <3> QED BY <3>2, <3>3, <3>4
    <2> QED BY <1>12, <1>14, <1>15, <2>1, <2>2, <2>3
  <1> QED BY <1>10, <1>18, <1>19, <1>20, <1>23 DEF s, t

LEMMA ReleasesOrdered ==
  ASSUME NEW a \in L!Version, NEW b \in L!Version, Versions \subseteq L!Version, None # "rc"
  PROVE  L!W!ShownInOrder(a, b)
  <1> SUFFICES ASSUME a.pre = None, b.pre = None
               PROVE  /\ L!W!semverDesc(a, b) = -L!W!semverDesc(b, a)
                      /\ L!W!semverDesc(a, b) = 0 <=> a = b
                      /\ \A c \in Versions :
                            L!W!SEMVER_CORE(c) /\ L!W!semverDesc(a, b) < 0 /\ L!W!semverDesc(b, c) < 0
                               => L!W!semverDesc(a, c) < 0
                      /\ L!W!Newer(a, b) /\ L!W!semverDesc(a, b) >= 0 =>
                            /\ a.core = b.core /\ b.up # None
                            /\ LET up == IF a.up = None THEN <<0, 0, 0>> ELSE a.up
                               IN /\ up[1] > b.up[1]
                                  /\ \/ L!W!Order(L!W!Tail2(b.up), L!W!Tail2(up)) = 1
                                     \/ /\ L!W!Tail2(b.up) = L!W!Tail2(up)
                                        /\ Len(L!W!Digits(up[1])) > Len(L!W!Digits(b.up[1]))
    BY DEF L!W!ShownInOrder, L!W!SEMVER_CORE
  <1>1. ASSUME NEW x \in L!Version, NEW y \in L!Version
        PROVE  /\ L!W!semverDesc(x, y) \in {0, 1, -1}
               /\ L!W!semverDesc(x, y) = -1 <=> Before(x, y)
               /\ L!W!semverDesc(x, y) = 1 <=> Before(y, x)
               /\ L!W!semverDesc(x, y) = 0 <=> Alike(Parts(x), Parts(y)) /\ TextRank(x) = TextRank(y)
    BY DescFits
  <1>2. L!W!semverDesc(a, b) = -L!W!semverDesc(b, a) BY <1>1
  <1>3. L!W!semverDesc(a, b) = 0 <=> a = b BY <1>1, SameVersion
  <1>4. ASSUME NEW c \in Versions, L!W!semverDesc(a, b) < 0, L!W!semverDesc(b, c) < 0
        PROVE  L!W!semverDesc(a, c) < 0
    <2>1. c \in L!Version OBVIOUS
    <2>2. Before(a, b) BY <1>1, <1>4
    <2>3. Before(b, c) BY <1>1, <1>4, <2>1
    <2>4. Before(a, c) BY <2>1, <2>2, <2>3, BeforeTransitive
    <2>5. L!W!semverDesc(a, c) = -1 BY <1>1, <2>1, <2>4
    <2> QED BY <2>5
  <1>5. ASSUME L!W!Newer(a, b), L!W!semverDesc(a, b) >= 0
        PROVE  /\ a.core = b.core /\ b.up # None /\ a.up # None
               /\ a.up[1] > b.up[1]
               /\ \/ L!W!Order(L!W!Tail2(b.up), L!W!Tail2(a.up)) = 1
                  \/ /\ L!W!Tail2(b.up) = L!W!Tail2(a.up)
                     /\ Len(L!W!Digits(a.up[1])) > Len(L!W!Digits(b.up[1]))
    <2>1. ~Before(a, b)
      <3>1. L!W!semverDesc(a, b) # -1 BY <1>5
      <3> QED BY <1>1, <3>1
    <2>2. /\ a.core = b.core /\ a.up # None /\ b.up # None /\ a.up[1] > b.up[1]
          /\ \/ L!W!Order(L!W!Tail2(b.up), L!W!Tail2(a.up)) = 1
             \/ L!W!Tail2(b.up) = L!W!Tail2(a.up) /\ TextRank(a) <= TextRank(b)
      BY <1>5, <2>1, NotBefore
    <2>3. TextRank(a) <= TextRank(b) => Len(L!W!Digits(a.up[1])) > Len(L!W!Digits(b.up[1])) BY <2>2, TextRanks
    <2> QED BY <2>2, <2>3
  <1> QED BY <1>2, <1>3, <1>4, <1>5

LEMMA NumberPartsPlain ==
  ASSUME NEW v \in L!Version, v.up = None
  PROVE  /\ L!W!NumberParts(v) \in L!Numbers
         /\ v.pre = None => L!W!NumberParts(v) = v.core
         /\ v.pre # None => L!W!NumberParts(v) = [v.core EXCEPT ![3] = 0]
  <1>1. v.core \in L!Numbers BY VersionTyped
  <1>2. CASE v.pre = None BY <1>1, <1>2 DEF L!W!NumberParts
  <1>3. CASE v.pre # None
    <2>1. L!W!Tail2(v.up) = <<>> BY DEF L!W!Tail2
    <2> DEFINE t == <<v.core[1], v.core[2], 0>>
    <2>2. t \in L!Numbers
      <3>1. v.core[1] \in Nat /\ v.core[2] \in Nat BY <1>1, Three
      <3> QED BY <3>1 DEF L!Numbers
    <2>3. L!W!NumberParts(v) = t \o <<>> BY <1>3, <2>1 DEF L!W!NumberParts
    <2>4. t \o <<>> = t BY <2>2, Three, ConcatEmptySeq
    <2>5. [v.core EXCEPT ![3] = 0] \in L!Numbers BY <1>1 DEF L!Numbers
    <2>6. t[1] = v.core[1] /\ t[2] = v.core[2] /\ t[3] = 0 OBVIOUS
    <2>7. [v.core EXCEPT ![3] = 0][1] = v.core[1] /\ [v.core EXCEPT ![3] = 0][2] = v.core[2]
          /\ [v.core EXCEPT ![3] = 0][3] = 0
      BY <1>1 DEF L!Numbers
    <2> HIDE DEF t
    <2>8. t = [v.core EXCEPT ![3] = 0]
      <3> DEFINE u == [v.core EXCEPT ![3] = 0]
      <3>1. u \in L!Numbers /\ u[1] = t[1] /\ u[2] = t[2] /\ u[3] = t[3] BY <2>5, <2>6, <2>7
      <3> HIDE DEF u
      <3>2. t = u BY <2>2, <3>1, NumbersEqual
      <3> QED BY <3>2 DEF u
    <2> QED BY <1>3, <2>3, <2>4, <2>5, <2>8
  <1> QED BY <1>2, <1>3

LEMMA PlainAgree ==
  ASSUME NEW a \in L!Version, NEW b \in L!Version
  PROVE  L!W!OrdersAgree(a, b)
  <1>1. ASSUME a.pre = None, a.up = None, b.pre = None, b.up = None
        PROVE  L!W!compareVersions(a, b) = L!W!compareCores(a, b) /\ L!W!compareVersions(a, b) = -L!W!semverDesc(a, b)
    <2>1. a.core \in Seq(Nat) /\ b.core \in Seq(Nat) BY VersionTyped, Three
    <2>2. L!W!compareVersions(a, b) = L!W!Order(a.core, b.core)
      BY <1>1, NumberPartsPlain DEF L!W!compareVersions
    <2>3. L!W!compareCores(a, b) = L!W!Order(a.core, b.core) BY DEF L!W!compareCores
    <2>4. L!W!parseIntParts(a) = a.core /\ L!W!parseIntParts(b) = b.core
      <3>1. L!W!Tail2(None) = <<>> BY DEF L!W!Tail2
      <3>2. a.core \o <<>> = a.core /\ b.core \o <<>> = b.core BY <2>1, ConcatEmptySeq
      <3> QED BY <1>1, <3>1, <3>2 DEF L!W!parseIntParts
    <2>5. L!W!TextOrder(b, a) = 0
      <3>1. TextRank(a) = 0 /\ TextRank(b) = 0 BY <1>1 DEF TextRank
      <3> QED BY <3>1, TextOrderFits
    <2>6. L!W!semverDesc(a, b) = L!W!Order(b.core, a.core)
      BY <2>4, <2>5 DEF L!W!semverDesc
    <2>7. L!W!Order(a.core, b.core) = -L!W!Order(b.core, a.core) BY <2>1, Reversed
    <2> QED BY <2>2, <2>3, <2>6, <2>7
  <1>2. ASSUME b.pre = None, b.up = None, a.pre # None, a.up = None
        PROVE  L!W!compareVersions(a, b) = L!W!compareCores([a EXCEPT !.core[3] = 0], b)
    <2>1. L!W!NumberParts(a) = [a.core EXCEPT ![3] = 0] /\ L!W!NumberParts(b) = b.core BY <1>2, NumberPartsPlain
    <2>2. [a EXCEPT !.core[3] = 0].core = [a.core EXCEPT ![3] = 0] BY DEF L!Version
    <2> QED BY <2>1, <2>2 DEF L!W!compareVersions, L!W!compareCores
  <1> QED BY <1>1, <1>2 DEF L!W!OrdersAgree

LEMMA FeatureChecked ==
  ASSUME NEW feature, NEW cluster, NEW able, NEW preference, cluster # None
  PROVE  L!W!FeatureAllowed(feature, cluster, able, preference)
  <1>1. \A one, two : L!W!compareVersions(one, two) \in {0, 1, -1}
    BY DEF L!W!compareVersions, L!W!Order
  <1>2. L!W!featureEnabled(feature, cluster, able, preference) => L!W!checkVersionRequirements(cluster, feature.needs)
    BY DEF L!W!featureEnabled
  <1>3. ~L!W!checkVersionRequirements(cluster, feature.needs) <=>
           L!W!validateClusterForFeature(feature, cluster).reasons # {}
    <2>1. \A what \in {"rancher", "kubernetes", "helm"} :
             L!W!compareVersions(cluster[what], feature.needs[what]) < 0
               <=> ~(L!W!compareVersions(cluster[what], feature.needs[what]) >= 0)
      BY <1>1
    <2> QED BY <2>1 DEF L!W!validateClusterForFeature, L!W!checkVersionRequirements
  <1>4. L!W!validateClusterForFeature(feature, cluster).valid = L!W!checkVersionRequirements(cluster, feature.needs)
    BY DEF L!W!validateClusterForFeature
  <1>5. L!W!featureEnabled(feature, cluster, able, preference) => L!W!featureEnabled(feature, None, None, preference)
    BY DEF L!W!featureEnabled
  <1> QED BY <1>2, <1>3, <1>4, <1>5 DEF L!W!FeatureAllowed

PlainVersion(major, minor) == [core |-> <<major, minor, 0>>, pre |-> None, up |-> None]

LEMMA Enough ==
  ASSUME NEW major \in Nat, NEW minor \in Nat, NEW less \in Nat, less <= minor
  PROVE  L!W!compareVersions(PlainVersion(major, minor), PlainVersion(major, less)) >= 0
  <1> DEFINE one == <<major, minor, 0>>
             two == <<major, less, 0>>
  <1>1. L!W!compareVersions(PlainVersion(major, minor), PlainVersion(major, less)) = L!W!Order(one, two)
    BY DEF L!W!compareVersions, L!W!NumberParts, PlainVersion
  <1>2. one \in Seq(Nat) /\ two \in Seq(Nat) OBVIOUS
  <1>3. one[1] = two[1] /\ one[2] >= two[2] /\ one[3] = two[3] /\ DOMAIN one = 1 .. 3 /\ DOMAIN two = 1 .. 3
        /\ one[1] \in Nat /\ one[2] \in Nat /\ two[2] \in Nat /\ one[3] \in Nat
    OBVIOUS
  <1> HIDE DEF one, two
  <1>4. ~Above(two, one)
    <2> SUFFICES ASSUME NEW n \in Nat \ {0}, Part(two, n) > Part(one, n) PROVE FALSE BY DEF Above
    <2>2. CASE n = 1 BY <1>3, <2>2 DEF Part, L!W!At
    <2>3. CASE n = 2 BY <1>3, <2>3 DEF Part, L!W!At
    <2>4. CASE n = 3 BY <1>3, <2>4 DEF Part, L!W!At
    <2>5. CASE n > 3
      <3>1. n \notin 1 .. 3 BY <2>5
      <3> QED BY <1>3, <3>1 DEF Part, L!W!At
    <2> QED BY <2>2, <2>3, <2>4, <2>5
  <1>5. L!W!Order(one, two) \in {0, 1, -1} /\ L!W!Order(one, two) # -1 BY <1>2, <1>4, OrderFits
  <1> QED BY <1>1, <1>5

LEMMA ReleaseNeeds ==
  ASSUME NEW flag \in DOMAIN L!W!RELEASE_FEATURES
  PROVE  LET needs == L!W!RELEASE_FEATURES[flag].needs
         IN  /\ needs["rancher"] \in {None, PlainVersion(2, 6), PlainVersion(2, 7)}
             /\ needs["kubernetes"] \in {None, PlainVersion(1, 20), PlainVersion(1, 21), PlainVersion(1, 22)}
             /\ needs["helm"] \in {None, PlainVersion(3, 8)}
  <1>1. CASE flag = "BULK_OPERATIONS" BY <1>1 DEF L!W!RELEASE_FEATURES, PlainVersion
  <1>2. CASE flag = "ADVANCED_FILTERING" BY <1>2 DEF L!W!RELEASE_FEATURES, PlainVersion
  <1>3. CASE flag = "CUSTOM_REPOSITORIES" BY <1>3 DEF L!W!RELEASE_FEATURES, PlainVersion
  <1>4. CASE flag = "HEALTH_MONITORING" BY <1>4 DEF L!W!RELEASE_FEATURES, PlainVersion
  <1>5. CASE flag = "AUTO_UPDATES" BY <1>5 DEF L!W!RELEASE_FEATURES, PlainVersion
  <1>6. CASE flag = "ROLLBACK_SUPPORT" BY <1>6 DEF L!W!RELEASE_FEATURES, PlainVersion
  <1>7. CASE flag = "MULTI_CLUSTER" BY <1>7 DEF L!W!RELEASE_FEATURES, PlainVersion
  <1>8. CASE flag = "OFFLINE_MODE" BY <1>8 DEF L!W!RELEASE_FEATURES, PlainVersion
  <1>9. CASE flag = "BACKUP_RESTORE" BY <1>9 DEF L!W!RELEASE_FEATURES, PlainVersion
  <1>10. CASE flag = "SECURITY_SCANNING" BY <1>10 DEF L!W!RELEASE_FEATURES, PlainVersion
  <1> QED BY <1>1, <1>2, <1>3, <1>4, <1>5, <1>6, <1>7, <1>8, <1>9, <1>10 DEF L!W!RELEASE_FEATURES

LEMMA ClusterIs ==
  /\ L!W!getClusterVersion["rancher"] = PlainVersion(2, 7)
  /\ L!W!getClusterVersion["kubernetes"] = PlainVersion(1, 24)
  /\ L!W!getClusterVersion["helm"] = PlainVersion(3, 8)
  BY DEF L!W!getClusterVersion, PlainVersion

LEMMA ReleaseAllowed ==
  ASSUME NEW able, NEW preferences, able # None, None # L!W!getClusterVersion,
         DOMAIN preferences = DOMAIN L!W!RELEASE_FEATURES
  PROVE  L!W!ReleaseFeatures(able, preferences)
  <1>1. ASSUME NEW flag \in DOMAIN L!W!RELEASE_FEATURES
        PROVE  L!W!validateClusterForFeature(L!W!RELEASE_FEATURES[flag], L!W!getClusterVersion).valid
    <2> DEFINE needs == L!W!RELEASE_FEATURES[flag].needs
               has == L!W!getClusterVersion
    <2>1. /\ needs["rancher"] \in {None, PlainVersion(2, 6), PlainVersion(2, 7)}
          /\ needs["kubernetes"] \in {None, PlainVersion(1, 20), PlainVersion(1, 21), PlainVersion(1, 22)}
          /\ needs["helm"] \in {None, PlainVersion(3, 8)}
      BY ReleaseNeeds
    <2>2. has["rancher"] = PlainVersion(2, 7) /\ has["kubernetes"] = PlainVersion(1, 24) /\ has["helm"] = PlainVersion(3, 8)
      BY ClusterIs
    <2>3. L!W!compareVersions(PlainVersion(2, 7), PlainVersion(2, 6)) >= 0
          /\ L!W!compareVersions(PlainVersion(2, 7), PlainVersion(2, 7)) >= 0
      BY Enough
    <2>4. L!W!compareVersions(PlainVersion(1, 24), PlainVersion(1, 20)) >= 0
          /\ L!W!compareVersions(PlainVersion(1, 24), PlainVersion(1, 21)) >= 0
          /\ L!W!compareVersions(PlainVersion(1, 24), PlainVersion(1, 22)) >= 0
      BY Enough
    <2>5. L!W!compareVersions(PlainVersion(3, 8), PlainVersion(3, 8)) >= 0 BY Enough
    <2> HIDE DEF needs, has
    <2>6. L!W!checkVersionRequirements(has, needs)
      BY <2>1, <2>2, <2>3, <2>4, <2>5 DEF L!W!checkVersionRequirements
    <2> QED BY <2>6 DEF L!W!validateClusterForFeature, needs, has
  <1>2. ASSUME NEW flag \in L!W!getAllEnabledFeatures(able, preferences)
        PROVE  L!W!RELEASE_FEATURES[flag].needs.capabilities \subseteq able
    BY DEF L!W!getAllEnabledFeatures, L!W!featureEnabled, L!W!checkCapabilityRequirements
  <1>3. {flag \in L!W!getAllEnabledFeatures(able, preferences) : preferences[flag] = None}
           \subseteq L!W!getAllEnabledFeatures(able, [flag \in DOMAIN preferences |-> None])
    <2> SUFFICES ASSUME NEW flag \in L!W!getAllEnabledFeatures(able, preferences), preferences[flag] = None
                 PROVE  flag \in L!W!getAllEnabledFeatures(able, [f \in DOMAIN preferences |-> None])
      OBVIOUS
    <2>1. flag \in DOMAIN L!W!RELEASE_FEATURES
          /\ L!W!featureEnabled(L!W!RELEASE_FEATURES[flag], L!W!getClusterVersion, able, preferences[flag])
      BY DEF L!W!getAllEnabledFeatures
    <2>2. [f \in DOMAIN preferences |-> None][flag] = None BY <2>1
    <2> QED BY <2>1, <2>2 DEF L!W!getAllEnabledFeatures
  <1> QED BY <1>1, <1>2, <1>3 DEF L!W!ReleaseFeatures

-----------------------------------------------------------------------------
(* The choice of a version *)

LEMMA ComparePlain ==
  ASSUME NEW a \in L!Plain, NEW b \in L!Plain
  PROVE  /\ a.core \in Seq(Nat)
         /\ L!W!compareVersions(a, b) = L!W!Order(a.core, b.core)
         /\ L!W!compareVersions(a, b) \in {0, 1, -1}
         /\ L!W!compareVersions(a, b) = 1 <=> Above(a.core, b.core)
         /\ L!W!compareVersions(a, b) = -1 <=> Above(b.core, a.core)
         /\ L!W!compareVersions(a, b) > 0 <=> Above(a.core, b.core)
         /\ L!W!compareVersions(a, b) >= 0 <=> ~Above(b.core, a.core)
         /\ L!W!Order(a.core, b.core) >= 0 <=> ~Above(b.core, a.core)
  <1>0. a \in L!Version /\ b \in L!Version /\ a.pre = None /\ a.up = None /\ b.pre = None /\ b.up = None
    BY DEF L!Plain
  <1>1. a.core \in Seq(Nat) /\ b.core \in Seq(Nat) BY <1>0, VersionTyped, Three
  <1>2. L!W!compareVersions(a, b) = L!W!Order(a.core, b.core)
    BY <1>0, NumberPartsPlain DEF L!W!compareVersions
  <1>3. /\ L!W!Order(a.core, b.core) \in {0, 1, -1}
        /\ L!W!Order(a.core, b.core) = 1 <=> Above(a.core, b.core)
        /\ L!W!Order(a.core, b.core) = -1 <=> Above(b.core, a.core)
    BY <1>1, OrderFits
  <1> QED BY <1>1, <1>2, <1>3

LEMMA NotAboveTransitive ==
  ASSUME NEW one \in Seq(Nat), NEW two \in Seq(Nat), NEW three \in Seq(Nat), ~Above(one, two), ~Above(two, three)
  PROVE  ~Above(one, three)
  <1> SUFFICES ASSUME Above(one, three) PROVE FALSE OBVIOUS
  <1>1. Alike(two, three) \/ Above(three, two) BY OneOfThree
  <1>2. CASE Alike(two, three) BY <1>2, AboveAlike
  <1>3. CASE Above(three, two) BY <1>3, AboveTransitive
  <1> QED BY <1>1, <1>2, <1>3

\* The order of the places of a list of plain versions.
Newest(list) ==
  {p \in (DOMAIN list) \X (DOMAIN list) :
      \/ L!W!compareVersions(list[p[1]], list[p[2]]) > 0
      \/ ~(L!W!compareVersions(list[p[2]], list[p[1]]) > 0) /\ p[1] < p[2]}

LEMMA PairIn == ASSUME NEW U, NEW x \in U, NEW y \in U PROVE <<x, y>> \in U \X U OBVIOUS

LEMMA NewestFirst ==
  ASSUME NEW n \in Nat, NEW list \in [1 .. n -> L!Plain]
  PROVE  IsOrder(1 .. n, Newest(list))
  <1>1. ASSUME NEW x \in 1 .. n, NEW y \in 1 .. n
        PROVE  <<x, y>> \in Newest(list) <=>
                  Above(list[x].core, list[y].core) \/ (~Above(list[y].core, list[x].core) /\ x < y)
    <2>1. list[x] \in L!Plain /\ list[y] \in L!Plain OBVIOUS
    <2>2. /\ L!W!compareVersions(list[x], list[y]) > 0 <=> Above(list[x].core, list[y].core)
          /\ L!W!compareVersions(list[y], list[x]) > 0 <=> Above(list[y].core, list[x].core)
      BY <2>1, ComparePlain
    <2>3. DOMAIN list = 1 .. n OBVIOUS
    <2>4. <<x, y>> \in (DOMAIN list) \X (DOMAIN list) /\ <<x, y>>[1] = x /\ <<x, y>>[2] = y
      <3>1. x \in DOMAIN list /\ y \in DOMAIN list BY <2>3
      <3>2. <<x, y>> \in (DOMAIN list) \X (DOMAIN list) BY <3>1, PairIn
      <3>3. <<x, y>>[1] = x /\ <<x, y>>[2] = y OBVIOUS
      <3> QED BY <3>2, <3>3
    <2>5. <<x, y>> \in Newest(list) <=>
            \/ L!W!compareVersions(list[<<x, y>>[1]], list[<<x, y>>[2]]) > 0
            \/ ~(L!W!compareVersions(list[<<x, y>>[2]], list[<<x, y>>[1]]) > 0) /\ <<x, y>>[1] < <<x, y>>[2]
      BY <2>4 DEF Newest
    <2> QED BY <2>2, <2>4, <2>5
  <1>2. ASSUME NEW x \in 1 .. n PROVE list[x].core \in Seq(Nat)
    <2>1. list[x] \in L!Plain OBVIOUS
    <2> QED BY <2>1, ComparePlain
  <1>3. ASSUME NEW x \in 1 .. n PROVE <<x, x>> \notin Newest(list)
    <2>1. ~Above(list[x].core, list[x].core) BY <1>2, OneOfThree
    <2> QED BY <1>1, <2>1
  <1>4. ASSUME NEW x \in 1 .. n, NEW y \in 1 .. n, x # y PROVE <<x, y>> \in Newest(list) \/ <<y, x>> \in Newest(list)
    BY <1>1, <1>4
  <1>5. ASSUME NEW x \in 1 .. n, NEW y \in 1 .. n, NEW z \in 1 .. n, <<x, y>> \in Newest(list), <<y, z>> \in Newest(list)
        PROVE  <<x, z>> \in Newest(list)
    <2> DEFINE a == list[x].core
               b == list[y].core
               c == list[z].core
    <2>1. a \in Seq(Nat) /\ b \in Seq(Nat) /\ c \in Seq(Nat) BY <1>2
    <2>2. Above(a, b) \/ (~Above(b, a) /\ x < y) BY <1>1, <1>5
    <2>3. Above(b, c) \/ (~Above(c, b) /\ y < z) BY <1>1, <1>5
    <2>4. <<x, z>> \in Newest(list) <=> Above(a, c) \/ (~Above(c, a) /\ x < z) BY <1>1
    <2> HIDE DEF a, b, c
    <2>5. CASE Above(a, b)
      <3>1. ~Above(c, b) BY <2>1, <2>3, OneOfThree
      <3>2. ~Above(b, c) /\ ~Above(c, b) => Alike(b, c) BY <2>1, OneOfThree
      <3>3. Above(b, c) => Above(a, c) BY <2>1, <2>5, AboveTransitive
      <3>4. Alike(b, c) => Above(a, c) BY <2>1, <2>5, AboveAlike
      <3> QED BY <2>4, <3>1, <3>2, <3>3, <3>4
    <2>6. CASE ~Above(a, b) /\ ~Above(b, a) /\ x < y
      <3>1. Alike(a, b) BY <2>1, <2>6, OneOfThree
      <3>2. (Above(b, c) <=> Above(a, c)) /\ (Above(c, b) <=> Above(c, a)) BY <3>1 DEF Alike, Above
      <3>3. CASE Above(b, c) BY <2>4, <3>2, <3>3
      <3>4. CASE ~Above(c, b) /\ y < z BY <2>4, <2>6, <3>2, <3>4
      <3> QED BY <2>3, <3>3, <3>4
    <2> QED BY <2>2, <2>5, <2>6
  <1> QED BY <1>3, <1>4, <1>5 DEF IsOrder

\* What getChartVersions makes of versions that package nothing.
LEMMA ChartVersions ==
  ASSUME NEW all, NEW n \in Nat, all \in [1 .. n -> L!Version], \A k \in 1 .. n : all[k].up = None
  PROVE  LET list == L!W!getChartVersions(all, FALSE)
         IN  \E size \in Nat :
                /\ list \in [1 .. size -> L!Plain]
                /\ \A j, k \in 1 .. size : j < k => ~Above(list[k].core, list[j].core)
  <1> DEFINE stable == {k \in DOMAIN all : FALSE \/ ~L!W!isPrereleaseVersion(all[k])}
             some == L!W!OnlyAt(all, stable)
             list == L!W!getChartVersions(all, FALSE)
             size == Cardinality(stable)
  <1>1. stable \in SUBSET (1 .. n) OBVIOUS
  <1>2. some = OnlyAt(all, stable) BY SameOnlyAt
  <1>3. list = L!W!Arranged(some, DOMAIN some, Newest(some))
    <2>1. some = L!W!Filtered(all, LAMBDA v : FALSE \/ ~L!W!isPrereleaseVersion(v)) BY DEF L!W!Filtered
    <2>2. list = L!W!Sorted(some, LAMBDA a, b : L!W!compareVersions(a, b) > 0)
      BY <2>1 DEF L!W!getChartVersions
    <2> HIDE DEF some
    <2>3. L!W!Sorted(some, LAMBDA a, b : L!W!compareVersions(a, b) > 0)
            = L!W!Arranged(some, DOMAIN some, Newest(some))
      <3>1. L!W!Sorted(some, LAMBDA a, b : L!W!compareVersions(a, b) > 0)
              = L!W!Arranged(some, DOMAIN some,
                   {p \in (DOMAIN some) \X (DOMAIN some) :
                      \/ L!W!compareVersions(some[p[1]], some[p[2]]) > 0
                      \/ ~(L!W!compareVersions(some[p[2]], some[p[1]]) > 0) /\ p[1] < p[2]})
        BY DEF L!W!Sorted
      <3>2. Newest(some) = {p \in (DOMAIN some) \X (DOMAIN some) :
                      \/ L!W!compareVersions(some[p[1]], some[p[2]]) > 0
                      \/ ~(L!W!compareVersions(some[p[2]], some[p[1]]) > 0) /\ p[1] < p[2]}
        BY DEF Newest
      <3> QED BY <3>1, <3>2
    <2> QED BY <2>2, <2>3
  <1>4. \A k \in stable : all[k] \in L!Plain
    <2> SUFFICES ASSUME NEW k \in stable PROVE all[k] \in L!Plain OBVIOUS
    <2>1. all[k] \in L!Version /\ all[k].up = None /\ all[k].pre # "rc" BY DEF L!W!isPrereleaseVersion
    <2>2. all[k].pre = None BY <2>1, VersionTyped
    <2> QED BY <2>1, <2>2 DEF L!Plain
  <1> HIDE DEF stable, some, list
  <1>5. PICK spot : Keeps(spot, stable) /\ some = [k \in 1 .. size |-> all[spot[k]]]
    <2>1. \E f : Keeps(f, stable) /\ OnlyAt(all, stable) = [k \in 1 .. Cardinality(stable) |-> all[f[k]]]
      BY <1>1, OnlyAtFits
    <2> QED BY <1>2, <2>1
  <1>6. size \in Nat /\ some \in [1 .. size -> L!Plain]
    <2>1. size \in Nat /\ spot \in [1 .. size -> stable] BY <1>5 DEF Keeps
    <2>2. \A k \in 1 .. size : all[spot[k]] \in L!Plain BY <1>4, <2>1
    <2> QED BY <1>5, <2>1, <2>2
  <1>7. IsOrder(1 .. size, Newest(some)) BY <1>6, NewestFirst
  <1>8. IsFiniteSet(1 .. size) /\ Cardinality(1 .. size) = size BY <1>6, PlacesFinite
  <1> DEFINE places == 1 .. size
             before == Newest(some)
             to == Ordered(places, before)
  <1>9. /\ Arranges(to, places, before)
        /\ Arranged(some, places, before) = [k \in 1 .. Cardinality(places) |-> some[to[k]]]
    <2>1. IsFiniteSet(places) /\ IsOrder(places, before) BY <1>7, <1>8
    <2> HIDE DEF places, before
    <2> QED BY <2>1, ArrangedFits
  <1> HIDE DEF to
  <1>10. list = [k \in 1 .. size |-> some[to[k]]]
    <2>1. DOMAIN some = 1 .. size BY <1>6
    <2>2. list = Arranged(some, places, before) BY <1>3, <2>1, SameArranged
    <2> QED BY <1>8, <1>9, <2>2
  <1>11. to \in [1 .. size -> 1 .. size] /\ \A j, k \in 1 .. size : j < k <=> <<to[j], to[k]>> \in Newest(some)
    BY <1>8, <1>9 DEF Arranges
  <1> HIDE DEF size
  <1>12. list \in [1 .. size -> L!Plain] BY <1>6, <1>10, <1>11
  <1>13. ASSUME NEW j \in 1 .. size, NEW k \in 1 .. size, j < k PROVE ~Above(list[k].core, list[j].core)
    <2>1. list[j] = some[to[j]] /\ list[k] = some[to[k]] BY <1>10
    <2>2. <<to[j], to[k]>> \in Newest(some) BY <1>11, <1>13
    <2>3. list[j] \in L!Plain /\ list[k] \in L!Plain BY <1>12
    <2>4. \/ L!W!compareVersions(list[j], list[k]) > 0
          \/ ~(L!W!compareVersions(list[k], list[j]) > 0)
      BY <2>1, <2>2 DEF Newest
    <2>5. list[j].core \in Seq(Nat) /\ list[k].core \in Seq(Nat)
          /\ (L!W!compareVersions(list[j], list[k]) > 0 <=> Above(list[j].core, list[k].core))
          /\ (L!W!compareVersions(list[k], list[j]) > 0 <=> Above(list[k].core, list[j].core))
      BY <2>3, ComparePlain
    <2> QED BY <2>4, <2>5, OneOfThree
  <1> QED BY <1>6, <1>12, <1>13 DEF list

LEMMA Resolved ==
  ASSUME NEW all, NEW n \in Nat, all \in [1 .. n -> L!Version], NEW op, NEW base \in L!Plain, None # "rc"
  PROVE  L!W!ConstraintMet(all, op, base)
  <1> DEFINE list == L!W!getChartVersions(all, FALSE)
  <1> SUFFICES ASSUME \A k \in DOMAIN all : all[k].up = None,
                      NEW w \in DOMAIN list, L!W!Meets(list[w], op, base)
               PROVE  /\ L!W!Meets(L!W!resolveVersionConstraint(list, op, base), op, base)
                      /\ ~L!W!isPrereleaseVersion(L!W!resolveVersionConstraint(list, op, base))
                      /\ L!W!findRecommendedVersion(list) = list[1]
    BY DEF L!W!ConstraintMet
  <1> HIDE DEF list
  <1>1. PICK size \in Nat : /\ list \in [1 .. size -> L!Plain]
                            /\ \A j, k \in 1 .. size : j < k => ~Above(list[k].core, list[j].core)
    BY ChartVersions DEF list
  <1>2. DOMAIN list = 1 .. size /\ w \in 1 .. size /\ 1 \in 1 .. size BY <1>1
  <1>3. ASSUME NEW k \in 1 .. size
        PROVE  list[k] \in L!Plain /\ ~L!W!isPrereleaseVersion(list[k]) /\ list[k].core \in Seq(Nat)
    <2>1. list[k] \in L!Plain BY <1>1
    <2> QED BY <2>1, ComparePlain DEF L!Plain, L!W!isPrereleaseVersion
  <1>4. base.core \in Seq(Nat) BY ComparePlain
  <1>5. ASSUME NEW k \in 1 .. size, k <= w PROVE L!W!Order(list[k].core, base.core) >= 0
    <2>1. ~Above(list[w].core, list[k].core)
      <3>1. CASE k = w BY <1>3, <3>1, OneOfThree
      <3>2. CASE k < w BY <1>1, <1>2, <3>2
      <3> QED BY <1>2, <1>5, <3>1, <3>2
    <2>2. L!W!Order(list[w].core, base.core) >= 0 BY DEF L!W!Meets
    <2>3. ~Above(base.core, list[w].core) BY <1>2, <1>3, <2>2, ComparePlain
    <2>4. ~Above(base.core, list[k].core) BY <1>2, <1>3, <1>4, <2>1, <2>3, NotAboveTransitive
    <2> QED BY <1>3, <2>4, ComparePlain
  <1>6. op \in {">=", "^", "~"} => L!W!Satisfies(list[w], op, base)
    <2>1. L!W!Order(list[w].core, base.core) >= 0 /\ (op = "^" => list[w].core[1] = base.core[1])
          /\ (op = "~" => list[w].core[1] = base.core[1] /\ list[w].core[2] = base.core[2])
      BY DEF L!W!Meets
    <2>2. L!W!compareVersions(list[w], base) = L!W!Order(list[w].core, base.core) BY <1>2, <1>3, ComparePlain
    <2> QED BY <2>1, <2>2 DEF L!W!Satisfies
  <1> DEFINE found == {k \in DOMAIN list : L!W!Satisfies(list[k], op, base)}
             chosen == L!W!resolveVersionConstraint(list, op, base)
  <1>7. chosen = list[IF found = {} THEN 1 ELSE L!W!Least(found)]
    <2>1. found # {} => L!W!Least(found) # 0
      <3>1. found \in SUBSET Nat BY <1>2
      <3>2. found # {} => L!W!Least(found) \in found BY <3>1, WizardLeast
      <3> QED BY <1>2, <3>2
    <2> QED BY <2>1 DEF L!W!resolveVersionConstraint, L!W!FirstOf
  <1>8. found \in SUBSET (1 .. size) /\ found \in SUBSET Nat BY <1>2
  <1>9. found # {} => L!W!Least(found) \in found /\ \A m \in found : L!W!Least(found) <= m BY <1>8, WizardLeast
  <1>10. \A k \in found : L!W!Satisfies(list[k], op, base) OBVIOUS
  <1>11. op \in {">=", "^", "~"} => w \in found BY <1>2, <1>6
  <1>12. op \notin {">=", "^", "~"} => \A k \in found : list[k] = base BY <1>10 DEF L!W!Satisfies
  <1> HIDE DEF found, chosen
  <1>13. ASSUME found = {} PROVE L!W!Meets(chosen, op, base)
    <2>1. chosen = list[1] /\ op \notin {">=", "^", "~"} BY <1>7, <1>11, <1>13
    <2>2. L!W!Order(list[1].core, base.core) >= 0 BY <1>2, <1>5
    <2> QED BY <2>1, <2>2 DEF L!W!Meets
  <1>14. ASSUME found # {}, op \in {">=", "^", "~"} PROVE L!W!Meets(chosen, op, base)
    <2> DEFINE k == L!W!Least(found)
    <2>1. k \in 1 .. size /\ k <= w /\ L!W!Satisfies(list[k], op, base) BY <1>8, <1>9, <1>10, <1>11, <1>14
    <2>2. chosen = list[k] BY <1>7, <1>14
    <2> HIDE DEF k
    <2>3. L!W!Order(list[k].core, base.core) >= 0 BY <1>5, <2>1
    <2> QED BY <1>14, <2>1, <2>2, <2>3 DEF L!W!Meets, L!W!Satisfies
  <1>15. ASSUME found # {}, op \notin {">=", "^", "~"} PROVE L!W!Meets(chosen, op, base)
    <2>1. chosen = base BY <1>7, <1>9, <1>12, <1>15
    <2>2. ~Above(base.core, base.core) BY <1>4, OneOfThree
    <2>3. L!W!Order(base.core, base.core) >= 0 BY <2>2, ComparePlain
    <2> QED BY <1>15, <2>1, <2>3 DEF L!W!Meets
  <1>16. L!W!Meets(chosen, op, base) BY <1>13, <1>14, <1>15
  <1>17. ~L!W!isPrereleaseVersion(chosen)
    <2>1. \E k \in 1 .. size : chosen = list[k] BY <1>2, <1>7, <1>8, <1>9
    <2> QED BY <1>3, <2>1
  <1>18. L!W!findRecommendedVersion(list) = list[1]
    <2> DEFINE stable == {k \in DOMAIN list : ~L!W!isPrereleaseVersion(list[k])}
    <2>1. stable = 1 .. size BY <1>2, <1>3
    <2>2. L!W!Least(1 .. size) = 1
      <3>1. 1 .. size \in SUBSET Nat /\ 1 .. size # {} BY <1>2
      <3>2. L!W!Least(1 .. size) \in 1 .. size /\ L!W!Least(1 .. size) <= 1 BY <1>2, <3>1, WizardLeast
      <3> QED BY <3>2
    <2>3. L!W!FirstOf(list, LAMBDA v : ~L!W!isPrereleaseVersion(v)) = IF stable = {} THEN 0 ELSE L!W!Least(stable)
      BY DEF L!W!FirstOf
    <2>4. 1 .. size # {} BY <1>2
    <2> HIDE DEF stable
    <2>5. L!W!findRecommendedVersion(list) = list[IF L!W!FirstOf(list, LAMBDA v : ~L!W!isPrereleaseVersion(v)) # 0 THEN L!W!FirstOf(list, LAMBDA v : ~L!W!isPrereleaseVersion(v)) ELSE 1]
      BY DEF L!W!findRecommendedVersion
    <2> QED BY <2>1, <2>2, <2>3, <2>4, <2>5
  <1> QED BY <1>16, <1>17, <1>18 DEF chosen

-----------------------------------------------------------------------------
(* The operator's index *)

LEMMA GreaterTransitive ==
  ASSUME NEW a, NEW b, NEW c, L!EntryTyped(a), L!EntryTyped(b), L!EntryTyped(c), L!X!GreaterThan(a, b), L!X!GreaterThan(b, c)
  PROVE  L!X!GreaterThan(a, c)
  <1> DEFINE above(x, y) == \E n \in 1 .. 3 : x.core[n] > y.core[n] /\ \A m \in 1 .. n - 1 : x.core[m] = y.core[m]
  <1>1. /\ above(a, b) \/ (a.core = b.core /\ ~a.pre /\ b.pre)
        /\ above(b, c) \/ (b.core = c.core /\ ~b.pre /\ c.pre)
    BY DEF L!X!GreaterThan
  <1>2. \A n \in 1 .. 3 : a.core[n] \in Nat /\ b.core[n] \in Nat /\ c.core[n] \in Nat
    BY DEF L!EntryTyped, L!Numbers
  <1>3. ASSUME above(a, b), above(b, c) PROVE above(a, c)
    <2>1. PICK n \in 1 .. 3 : a.core[n] > b.core[n] /\ \A m \in 1 .. n - 1 : a.core[m] = b.core[m]
      BY <1>3
    <2>2. PICK k \in 1 .. 3 : b.core[k] > c.core[k] /\ \A m \in 1 .. k - 1 : b.core[m] = c.core[m]
      BY <1>3
    <2>3. CASE n <= k
      <3>1. a.core[n] > c.core[n] BY <1>2, <2>1, <2>2, <2>3
      <3>2. \A m \in 1 .. n - 1 : a.core[m] = c.core[m] BY <1>2, <2>1, <2>2, <2>3
      <3> QED BY <3>1, <3>2
    <2>4. CASE k < n
      <3>1. a.core[k] > c.core[k] BY <1>2, <2>1, <2>2, <2>4
      <3>2. \A m \in 1 .. k - 1 : a.core[m] = c.core[m] BY <1>2, <2>1, <2>2, <2>4
      <3> QED BY <3>1, <3>2
    <2> QED BY <2>3, <2>4
  <1>4. ASSUME above(a, b), b.core = c.core PROVE above(a, c)
    BY <1>4
  <1>5. ASSUME a.core = b.core, above(b, c) PROVE above(a, c)
    BY <1>5
  <1>6. above(a, c) => L!X!GreaterThan(a, c) BY DEF L!X!GreaterThan
  <1> HIDE DEF above
  <1>7. CASE above(a, b) /\ above(b, c) BY <1>3, <1>6, <1>7
  <1>8. CASE above(a, b) /\ b.core = c.core BY <1>4, <1>6, <1>8
  <1>9. CASE a.core = b.core /\ above(b, c) BY <1>5, <1>6, <1>9
  <1> QED BY <1>1, <1>7, <1>8, <1>9

LEMMA NotGreaterThanItself ==
  ASSUME NEW a, L!EntryTyped(a)
  PROVE  ~L!X!GreaterThan(a, a)
  <1>1. \A n \in 1 .. 3 : a.core[n] \in Nat BY DEF L!EntryTyped, L!Numbers
  <1> QED BY <1>1 DEF L!X!GreaterThan

\* One turn of FindLatestVersion.
Later(latest, v) == IF v.valid /\ (latest = None \/ L!X!GreaterThan(v, latest)) THEN v ELSE latest

\* The latest of the first k.
LatestOf(latest, entries, k) ==
  LET valid == {entries[i] : i \in {j \in 1 .. k : entries[j].valid}}
  IN  IF valid = {} THEN latest = None ELSE latest \in valid /\ \A v \in valid : ~L!X!GreaterThan(v, latest)

LEMMA LatestStep ==
  ASSUME NEW n \in Nat, NEW entries, \A k \in 1 .. n : L!EntryTyped(entries[k]),
         NEW k \in 0 .. n - 1, NEW latest, LatestOf(latest, entries, k)
  PROVE  LatestOf(Later(latest, entries[k + 1]), entries, k + 1)
  <1> DEFINE valid == {entries[i] : i \in {j \in 1 .. k : entries[j].valid}}
             all == {entries[i] : i \in {j \in 1 .. k + 1 : entries[j].valid}}
             v == entries[k + 1]
  <1>1. k + 1 \in 1 .. n /\ L!EntryTyped(v) OBVIOUS
  <1>2. all = valid \cup (IF v.valid THEN {v} ELSE {})
    <2>1. \A j : j \in 1 .. k + 1 <=> j \in 1 .. k \/ j = k + 1 OBVIOUS
    <2> QED BY <2>1
  <1>3. \A u \in valid : L!EntryTyped(u) OBVIOUS
  <1>4. IF valid = {} THEN latest = None ELSE latest \in valid /\ \A u \in valid : ~L!X!GreaterThan(u, latest)
    BY DEF LatestOf
  <1>5. (IF all = {} THEN Later(latest, v) = None
         ELSE Later(latest, v) \in all /\ \A u \in all : ~L!X!GreaterThan(u, Later(latest, v)))
        => LatestOf(Later(latest, entries[k + 1]), entries, k + 1)
    BY DEF LatestOf
  <1> HIDE DEF valid, all, v
  <1>6. ASSUME NEW u \in valid, v.valid, latest = None \/ L!X!GreaterThan(v, latest) PROVE ~L!X!GreaterThan(u, v)
    <2>1. latest \in valid /\ ~L!X!GreaterThan(u, latest) /\ L!EntryTyped(latest) /\ L!EntryTyped(u) BY <1>3, <1>4
    <2>2. latest # None BY <2>1 DEF L!EntryTyped
    <2>3. L!X!GreaterThan(v, latest) BY <1>6, <2>2
    <2> QED BY <1>1, <2>1, <2>3, GreaterTransitive
  <1>7. CASE v.valid /\ (latest = None \/ L!X!GreaterThan(v, latest))
    <2>1. Later(latest, v) = v /\ all = valid \cup {v} BY <1>2, <1>7 DEF Later
    <2>2. ~L!X!GreaterThan(v, v) BY <1>1, NotGreaterThanItself
    <2> QED BY <1>5, <1>6, <1>7, <2>1, <2>2
  <1>8. CASE ~v.valid
    <2>1. Later(latest, v) = latest /\ all = valid BY <1>2, <1>8 DEF Later
    <2> QED BY <1>4, <1>5, <2>1
  <1>9. CASE v.valid /\ latest # None /\ ~L!X!GreaterThan(v, latest)
    <2>1. Later(latest, v) = latest /\ all = valid \cup {v} BY <1>2, <1>9 DEF Later
    <2>2. valid # {} BY <1>4, <1>9
    <2> QED BY <1>4, <1>5, <1>9, <2>1, <2>2
  <1> QED BY <1>7, <1>8, <1>9

LEMMA LatestFound ==
  ASSUME NEW n \in Nat, NEW entries, entries = [k \in 1 .. n |-> entries[k]], \A k \in 1 .. n : L!EntryTyped(entries[k])
  PROVE  LatestOf(L!X!FindLatestVersion(entries), entries, n)
  <1> DEFINE A == {None} \cup {entries[k] : k \in 1 .. n}
             turn == [k \in Nat |-> [a \in A |-> IF k \in 1 .. n THEN Later(a, entries[k]) ELSE a]]
             Is(iter) == iter = [s \in SUBSET (DOMAIN entries) |->
                            IF s = {} THEN None
                            ELSE LET x == L!X!Max(s)
                                 IN  IF entries[x].valid /\ (iter[s \ {x}] = None \/ L!X!GreaterThan(entries[x], iter[s \ {x}]))
                                     THEN entries[x] ELSE iter[s \ {x}]]
             fold == CHOOSE iter : Is(iter)
  <1>1. L!X!FindLatestVersion(entries) = fold[DOMAIN entries]
    BY DEF L!X!FindLatestVersion, L!X!FoldLeft, L!X!MapThenFoldSet
  <1>2. turn \in [Nat -> [A -> A]]
    BY DEF Later
  <1>3. DOMAIN entries = 1 .. n /\ None \in A OBVIOUS
  <1>4. \A k \in 1 .. n, a \in A : turn[k][a] = Later(a, entries[k])
    OBVIOUS
  <1>5. \A s \in SUBSET (1 .. n) : s # {} => L!X!Max(s) \in s /\ (\A y \in s : y <= L!X!Max(s))
    <2> SUFFICES ASSUME NEW s \in SUBSET (1 .. n), s # {}
                 PROVE  L!X!Max(s) \in s /\ \A y \in s : y <= L!X!Max(s)
      OBVIOUS
    <2>1. \E x \in s : \A y \in s : y <= x BY GreatestFits
    <2>2. \E x \in s : \A y \in s : x >= y BY <2>1
    <2>3. L!X!Max(s) \in s /\ \A y \in s : L!X!Max(s) >= y BY <2>2 DEF L!X!Max
    <2> QED BY <2>3
  <1> HIDE DEF A, turn
  <1>6. \E iter : Is(iter)
    <2>1. PICK iter \in [SUBSET (1 .. n) -> A] : Iterates(iter, n, A, None, turn)
      BY <1>2, <1>3, FoldExists
    <2>2. ASSUME NEW s \in SUBSET (1 .. n), s # {}
          PROVE  iter[s] = Later(iter[s \ {L!X!Max(s)}], entries[L!X!Max(s)])
      <3>1. L!X!Max(s) \in s /\ (\A y \in s : y <= L!X!Max(s)) /\ L!X!Max(s) \in 1 .. n BY <1>5, <2>2
      <3>2. s \ {L!X!Max(s)} \in SUBSET (1 .. n) OBVIOUS
      <3>3. iter[s \ {L!X!Max(s)}] \in A BY <3>2
      <3>4. iter[s] = turn[L!X!Max(s)][iter[s \ {L!X!Max(s)}]] BY <2>1, <3>1, <3>3 DEF Iterates
      <3> QED BY <1>4, <3>1, <3>3, <3>4
    <2>3. iter[{}] = None BY <2>1 DEF Iterates
    <2>4. Is(iter)
      BY <1>3, <2>2, <2>3 DEF Later
    <2> QED BY <2>4
  <1>7. Is(fold) BY <1>6
  <1>8. Iterates(fold, n, A, None, turn)
    <2>1. fold[{}] = None BY <1>7
    <2>2. ASSUME NEW s \in SUBSET (1 .. n), NEW x \in 1 .. n, x \in s, \A y \in s : y <= x, fold[s \ {x}] \in A
          PROVE  fold[s] = turn[x][fold[s \ {x}]]
      <3>1. L!X!Max(s) = x BY <1>5, <2>2
      <3>2. fold[s] = Later(fold[s \ {x}], entries[x]) BY <1>3, <1>7, <2>2, <3>1 DEF Later
      <3> QED BY <1>4, <2>2, <3>2
    <2> HIDE DEF fold
    <2> QED BY <2>1, <2>2 DEF Iterates
  <1> HIDE DEF fold
  <1>9. PICK F : FoldsTo(F, n, A, None, turn) /\ fold[1 .. n] = F[n]
    BY <1>2, <1>3, <1>8, FoldValue
  <1> DEFINE T == {k \in 0 .. n : LatestOf(F[k], entries, k)}
  <1>10. 0 \in T BY <1>9 DEF FoldsTo, LatestOf
  <1>11. ASSUME NEW k \in 0 .. n - 1, k \in T PROVE k + 1 \in T
    <2>1. F[k] \in A /\ F[k + 1] = turn[k + 1][F[k]] BY <1>9 DEF FoldsTo
    <2>2. F[k + 1] = Later(F[k], entries[k + 1]) BY <1>4, <2>1
    <2>3. LatestOf(F[k], entries, k) BY <1>11
    <2>4. LatestOf(Later(F[k], entries[k + 1]), entries, k + 1) BY <2>3, LatestStep
    <2> QED BY <2>2, <2>4
  <1>12. 0 .. n \subseteq T
    <2> HIDE DEF T
    <2> QED BY <1>10, <1>11, UpTo
  <1> QED BY <1>1, <1>3, <1>9, <1>12

LEMMA LatestGreatest ==
  ASSUME NEW n \in Nat, NEW entries, entries = [k \in 1 .. n |-> entries[k]], \A k \in 1 .. n : L!EntryTyped(entries[k])
  PROVE  /\ L!X!LatestIsGreatest(entries)
         /\ L!X!FindLatestVersion(entries) # None => \E k \in 1 .. n : L!X!FindLatestVersion(entries) = entries[k]
  <1> DEFINE valid == {entries[i] : i \in {j \in 1 .. n : entries[j].valid}}
  <1>1. valid = {v \in L!X!ToSet(entries) : v.valid}
    <2>1. L!X!ToSet(entries) = {entries[k] : k \in 1 .. n} BY DEF L!X!ToSet
    <2> QED BY <2>1
  <1>2. LatestOf(L!X!FindLatestVersion(entries), entries, n) BY LatestFound
  <1> QED BY <1>1, <1>2 DEF LatestOf, L!X!LatestIsGreatest

LEMMA Converted ==
  ASSUME NEW spec, L!X!ConvertTo(spec) # None
  PROVE  L!X!ConversionKeeps(spec)
  <1> DEFINE stored == L!X!ConvertTo(spec)
  <1>1. /\ stored = [helm |-> stored.helm, git |-> stored.git]
        /\ stored.git # None => stored.helm = None
    BY DEF L!X!ConvertTo
  <1> HIDE DEF stored
  <1>2. L!X!ConvertTo(L!X!ConvertFrom(stored)) = stored
    <2>1. CASE stored.helm = None /\ stored.git = None
      BY <1>1, <2>1 DEF L!X!ConvertTo, L!X!ConvertFrom
    <2>2. CASE stored.git # None
      BY <1>1, <2>2 DEF L!X!ConvertTo, L!X!ConvertFrom, stored
    <2>3. CASE stored.helm # None /\ stored.git = None
      BY <1>1, <2>3 DEF L!X!ConvertTo, L!X!ConvertFrom, stored
    <2> QED BY <2>1, <2>2, <2>3
  <1> QED BY <1>2 DEF L!X!ConversionKeeps, stored

LEMMA Merged ==
  ASSUME NEW annotations, NEW user
  PROVE  L!X!MetadataFits(annotations, user)
  BY DEF L!X!MetadataFits, L!X!mergeMetadata, L!X!SupportedKeys

\* An list as it may be cached or answered.
Index(list) ==
  list # None =>
     \E n \in Nat : list = [k \in 1 .. n |-> list[k]] /\ \A k \in 1 .. n : L!EntryTyped(list[k])

Place(urls, of) == LET I == {i \in 1 .. Len(urls) : of[urls[i]] # None}
                   IN  IF I # {} THEN L!X!Min(I) ELSE 0

LEMMA FirstIn ==
  ASSUME NEW one, NEW two, NEW of, NEW urls, urls = <<one, two>>
  PROVE  Place(urls, of) = IF of[one] # None THEN 1 ELSE IF of[two] # None THEN 2 ELSE 0
  <1> DEFINE I == {i \in 1 .. Len(urls) : of[urls[i]] # None}
  <1>1. Len(urls) = 2 /\ urls[1] = one /\ urls[2] = two OBVIOUS
  <1>2. I = (IF of[one] # None THEN {1} ELSE {}) \cup (IF of[two] # None THEN {2} ELSE {})
    BY <1>1
  <1> HIDE DEF I
  <1>4. L!X!Min({1}) = 1 /\ L!X!Min({2}) = 2 /\ L!X!Min({1, 2}) = 1 BY DEF L!X!Min
  <1> QED BY <1>2, <1>4 DEF I, Place

LEMMA FirstOnly ==
  ASSUME NEW one, NEW of, NEW urls, urls = <<one>>
  PROVE  Place(urls, of) = IF of[one] # None THEN 1 ELSE 0
  <1> DEFINE I == {i \in 1 .. Len(urls) : of[urls[i]] # None}
  <1>1. Len(urls) = 1 /\ urls[1] = one OBVIOUS
  <1>2. I = IF of[one] # None THEN {1} ELSE {} BY <1>1
  <1> HIDE DEF I
  <1>4. L!X!Min({1}) = 1 BY DEF L!X!Min
  <1> QED BY <1>2, <1>4 DEF I, Place

LEMMA AnnotationsFound ==
  ASSUME NEW list, list # None, Index(list), L!X!FindLatestVersion(list) # None
  PROVE  L!X!FindAnnotations(list, L!X!FindLatestVersion(list)) # None
  <1> DEFINE latest == L!X!FindLatestVersion(list)
             Has(v) == v.core = latest.core /\ v.pre = latest.pre /\ v.valid = latest.valid
             I == {i \in 1 .. Len(list) : Has(list[i])}
             place == L!X!SelectInSeq(list, LAMBDA v : v.core = latest.core /\ v.pre = latest.pre /\ v.valid = latest.valid)
  <1>1. PICK n \in Nat : list = [k \in 1 .. n |-> list[k]] /\ \A k \in 1 .. n : L!EntryTyped(list[k]) BY DEF Index
  <1>2. PICK k \in 1 .. n : latest = list[k] BY <1>1, LatestGreatest
  <1>3. Len(list) = n BY <1>1
  <1>4. place = IF I # {} THEN L!X!Min(I) ELSE 0 BY DEF L!X!SelectInSeq
  <1>5. I \in SUBSET Nat /\ I \subseteq 1 .. n /\ k \in I BY <1>2, <1>3
  <1>6. L!X!FindAnnotations(list, latest) = IF place = 0 THEN None ELSE list[place].annotations
    BY DEF L!X!FindAnnotations
  <1> HIDE DEF I, place, latest
  <1>7. L!X!Min(I) \in I
    <2>1. I # {} BY <1>5
    <2>2. \E x \in I : \A y \in I : x <= y BY <1>5, <2>1, NatLeast
    <2> QED BY <2>2 DEF L!X!Min
  <1>8. place \in 1 .. n BY <1>4, <1>5, <1>7
  <1>9. list[place].annotations # None BY <1>1, <1>8 DEF L!EntryTyped
  <1> QED BY <1>6, <1>8, <1>9 DEF latest

LEMMA Resolving ==
  ASSUME NEW kind, NEW kept, NEW before, NEW later, NEW expires \in BOOLEAN,
         kept = [u \in DOMAIN kept |-> kept[u]], {"index", "assets"} \subseteq DOMAIN kept,
         \A u \in {"index", "assets"} : Index(kept[u]) /\ Index(before[u])
  PROVE  L!X!ResolvedFound(kind, kept, before, later, expires)
  <1> DEFINE urls == L!X!indexURLsForSource(kind)
             first == L!X!getOrFetchIndex(kept, urls, before)
             latest == IF first.index = None THEN None ELSE L!X!FindLatestVersion(first.index)
             again == L!X!getOrFetchIndex(first.cache, urls, later)
             second == L!X!getOrFetchIndex(IF expires THEN [u \in DOMAIN kept |-> None] ELSE first.cache, urls, later)
  <1>1. Index(first.index) /\ (first.index # None => again.index = first.index)
    <2> DEFINE place(of) == Place(urls, of)
    <2>1. \A of, source : L!X!getOrFetchIndex(of, urls, source) =
            CASE place(of) # 0 -> [index |-> of[urls[place(of)]], cache |-> of]
              [] place(of) = 0 /\ place(source) # 0 ->
                   [index |-> source[urls[place(source)]],
                    cache |-> [of EXCEPT ![urls[place(source)]] = source[urls[place(source)]]]]
              [] OTHER -> [index |-> None, cache |-> of]
      BY DEF L!X!getOrFetchIndex, L!X!SelectInSeq, Place
    <2>2. CASE kind = "helm"
      <3>1. urls = <<"index">> BY <2>2 DEF L!X!indexURLsForSource
      <3>2. \A of : place(of) = IF of["index"] # None THEN 1 ELSE 0
        <4> SUFFICES ASSUME NEW of PROVE place(of) = IF of["index"] # None THEN 1 ELSE 0 OBVIOUS
        <4> HIDE DEF urls
        <4> QED BY <3>1, FirstOnly
      <3>3. urls[1] = "index" BY <3>1
      <3> HIDE DEF urls, place
      <3>4. CASE kept["index"] # None
        <4>1. first = [index |-> kept["index"], cache |-> kept] BY <2>1, <3>2, <3>3, <3>4
        <4> HIDE DEF first
        <4>2. again = [index |-> kept["index"], cache |-> kept] BY <2>1, <3>2, <3>3, <3>4, <4>1
        <4> QED BY <4>1, <4>2
      <3>5. CASE kept["index"] = None /\ before["index"] # None
        <4>1. first = [index |-> before["index"], cache |-> [kept EXCEPT !["index"] = before["index"]]]
          BY <2>1, <3>2, <3>3, <3>5
        <4> HIDE DEF first
        <4>2. first.cache["index"] = before["index"] BY <4>1
        <4>3. again.index = before["index"] BY <2>1, <3>2, <3>3, <3>5, <4>2
        <4> QED BY <4>1, <4>3
      <3>6. CASE kept["index"] = None /\ before["index"] = None
        <4>1. first.index = None BY <2>1, <3>2, <3>3, <3>6
        <4> QED BY <4>1 DEF Index
      <3> QED BY <3>4, <3>5, <3>6
    <2>3. CASE kind # "helm"
      <3>1. urls = <<"index", "assets">> BY <2>3 DEF L!X!indexURLsForSource
      <3>2. \A of : place(of) = IF of["index"] # None THEN 1 ELSE IF of["assets"] # None THEN 2 ELSE 0
        <4> SUFFICES ASSUME NEW of
                     PROVE  place(of) = IF of["index"] # None THEN 1 ELSE IF of["assets"] # None THEN 2 ELSE 0
          OBVIOUS
        <4> HIDE DEF urls
        <4> QED BY <3>1, FirstIn
      <3>3. urls[1] = "index" /\ urls[2] = "assets" BY <3>1
      <3> HIDE DEF urls, place
      <3>4. CASE kept["index"] # None \/ kept["assets"] # None
        <4>1. place(kept) # 0 /\ urls[place(kept)] \in {"index", "assets"} BY <3>2, <3>3, <3>4
        <4>2. first = [index |-> kept[urls[place(kept)]], cache |-> kept] BY <2>1, <4>1
        <4> HIDE DEF first
        <4>3. again.index = kept[urls[place(kept)]] BY <2>1, <4>1, <4>2
        <4> QED BY <4>1, <4>2, <4>3
      <3>5. CASE kept["index"] = None /\ kept["assets"] = None /\ place(before) # 0
        <4> DEFINE u == urls[place(before)]
        <4>1. place(kept) = 0 BY <3>2, <3>5
        <4>2. first = [index |-> before[u], cache |-> [kept EXCEPT ![u] = before[u]]] BY <2>1, <3>5, <4>1
        <4>3. u \in {"index", "assets"} /\ before[u] # None BY <3>2, <3>3, <3>5
        <4> HIDE DEF first, u
        <4>4. first.cache["index"] = (IF u = "index" THEN before[u] ELSE None)
              /\ first.cache["assets"] = (IF u = "assets" THEN before[u] ELSE None)
          BY <3>5, <4>2, <4>3
        <4>5. place(first.cache) # 0 /\ urls[place(first.cache)] = u BY <3>2, <3>3, <4>3, <4>4
        <4>6. again.index = before[u] BY <2>1, <4>3, <4>4, <4>5
        <4> QED BY <4>2, <4>3, <4>6
      <3>6. CASE kept["index"] = None /\ kept["assets"] = None /\ place(before) = 0
        <4>1. place(kept) = 0 BY <3>2, <3>6
        <4>2. first.index = None BY <2>1, <3>6, <4>1
        <4> QED BY <4>2 DEF Index
      <3> QED BY <3>4, <3>5, <3>6
    <2> QED BY <2>2, <2>3
  <1>2. ~expires => second = again OBVIOUS
  <1> HIDE DEF first, second, again, urls
  <1>3. latest # None => \/ second.index # None /\ L!X!FindAnnotations(second.index, latest) # None
                         \/ expires /\ second.index # first.index
    <2> SUFFICES ASSUME latest # None, ~expires \/ second.index = first.index
                 PROVE  second.index # None /\ L!X!FindAnnotations(second.index, latest) # None
      OBVIOUS
    <2>1. first.index # None /\ latest = L!X!FindLatestVersion(first.index) OBVIOUS
    <2>2. second.index = first.index BY <1>1, <1>2, <2>1
    <2> QED BY <1>1, <2>1, <2>2, AnnotationsFound
  <1> QED BY <1>3 DEF L!X!ResolvedFound, first, second, urls

-----------------------------------------------------------------------------
(* The webhook, request by request *)

Nobody(names) == [name \in names |-> None]
Late(requests, n) == \A k \in 1 .. n : requests[k].lag \in Nat
\* Where the webhook's list stands when the k-th request comes.
Seen(k, requests) == IF k - 1 < requests[k].lag THEN 0 ELSE k - 1 - requests[k].lag
Answers(after, requests, names, n) ==
  after = [k \in 0 .. n |-> IF k = 0 THEN Nobody(names)
                            ELSE L!X!Stored(after[k - 1], after[Seen(k, requests)], requests[k])]

LEMMA SeenBefore ==
  ASSUME NEW n \in Nat, NEW requests, Late(requests, n), NEW k \in 1 .. n
  PROVE  Seen(k, requests) \in 0 .. k - 1 /\ k - 1 - Seen(k, requests) <= requests[k].lag
  <1>1. requests[k].lag \in Nat /\ k - 1 \in Nat BY DEF Late
  <1> DEFINE lag == requests[k].lag
  <1>2. Seen(k, requests) = IF k - 1 < lag THEN 0 ELSE k - 1 - lag BY DEF Seen
  <1> HIDE DEF lag
  <1>3. lag \in Nat BY <1>1 DEF lag
  <1>4. Seen(k, requests) \in 0 .. k - 1 /\ k - 1 - Seen(k, requests) <= lag BY <1>1, <1>2, <1>3
  <1> QED BY <1>4 DEF lag

\* What a request changes.
Changes(stored, list, request, names) ==
  \A x \in names : L!X!Stored(stored, list, request)[x] # stored[x] =>
     /\ x = request.name /\ L!X!Stored(stored, list, request)[x] = request.extension
     /\ request.extension = None \/ \A other \in DOMAIN list \ {x} : list[other] # request.extension

LEMMA StoredTyped ==
  ASSUME NEW names, NEW E, None \in E, NEW stored \in [names -> E], NEW list, NEW request,
         request.name \in names, request.extension \in E
  PROVE  L!X!Stored(stored, list, request) \in [names -> E] /\ Changes(stored, list, request, names)
  BY DEF L!X!Stored, L!X!Admitted, L!X!validateExtensionNameUniqueness, Changes

\* What was stored after each request, as far as the i-th; turn by turn it is written down
\* one further.
Turned(h, i, requests) ==
  [h EXCEPT ![i + 1] = L!X!Stored(h[i], h[Seen(i + 1, requests)], requests[i + 1])]

LEMMA AnswersExist ==
  ASSUME NEW names, NEW n \in Nat, NEW requests, Late(requests, n), \A k \in 1 .. n : requests[k].name \in names
  PROVE  \E after : Answers(after, requests, names, n)
  <1> DEFINE E == {None} \cup {requests[k].extension : k \in 1 .. n}
             T == [names -> E]
             A == [0 .. n -> T]
             turn == [i \in Nat |-> [h \in A |-> IF i \in 0 .. n - 1 THEN Turned(h, i, requests) ELSE h]]
             base == [k \in 0 .. n |-> Nobody(names)]
  <1>1. base \in A BY DEF Nobody
  <1>2. ASSUME NEW h \in A, NEW i \in 0 .. n - 1
        PROVE  /\ Turned(h, i, requests) \in A
               /\ \A k \in 0 .. n \ {i + 1} : Turned(h, i, requests)[k] = h[k]
               /\ Turned(h, i, requests)[i + 1] = L!X!Stored(h[i], h[Seen(i + 1, requests)], requests[i + 1])
    <2>1. i + 1 \in 1 .. n /\ i + 1 \in 0 .. n /\ i \in 0 .. n OBVIOUS
    <2>2. h[i] \in T /\ None \in E /\ requests[i + 1].extension \in E /\ requests[i + 1].name \in names BY <2>1
    <2> DEFINE list == h[Seen(i + 1, requests)]
               new == L!X!Stored(h[i], list, requests[i + 1])
    <2> HIDE DEF list, E
    <2>3. new \in T BY <2>2, StoredTyped
    <2>4. Turned(h, i, requests) = [h EXCEPT ![i + 1] = new] BY DEF Turned, list
    <2> HIDE DEF new, T
    <2>5. Turned(h, i, requests) \in A /\ Turned(h, i, requests)[i + 1] = new
          /\ \A k \in 0 .. n \ {i + 1} : Turned(h, i, requests)[k] = h[k]
      BY <2>1, <2>3, <2>4
    <2> QED BY <2>5 DEF new, list
  <1>3. turn \in [Nat -> [A -> A]]
    <2> HIDE DEF A
    <2> QED BY <1>2
  <1>4. PICK f : Follows(f, A, base, turn)
    <2> HIDE DEF A, base, turn
    <2> QED BY <1>1, <1>3, Recursion
  <1>5. f \in [Nat -> A] /\ f[0] = base /\ \A k \in Nat : f[k + 1] = turn[k][f[k]] BY <1>4 DEF Follows
  <1> HIDE DEF A
  <1>6. ASSUME NEW i \in 0 .. n - 1
        PROVE  /\ f[i] \in A /\ f[i + 1] \in A
               /\ \A k \in 0 .. n \ {i + 1} : f[i + 1][k] = f[i][k]
               /\ f[i + 1][i + 1] = L!X!Stored(f[i][i], f[i][Seen(i + 1, requests)], requests[i + 1])
    <2>1. i \in Nat /\ f[i] \in A BY <1>5
    <2>2. f[i + 1] = Turned(f[i], i, requests) BY <1>5, <2>1
    <2> QED BY <1>2, <2>1, <2>2
  <1> HIDE DEF turn, E, T, base
  <1> DEFINE after == [k \in 0 .. n |-> f[k][k]]
             U == {j \in 0 .. n : \A k \in 0 .. j : f[j][k] = f[k][k]}
  <1>7. 0 \in U OBVIOUS
  <1>8. ASSUME NEW j \in 0 .. n - 1, j \in U PROVE j + 1 \in U
    <2> SUFFICES ASSUME NEW k \in 0 .. j + 1 PROVE f[j + 1][k] = f[k][k] OBVIOUS
    <2>1. CASE k = j + 1 BY <2>1
    <2>2. CASE k # j + 1
      <3>1. k \in 0 .. j /\ k \in 0 .. n \ {j + 1} BY <2>2
      <3>2. f[j + 1][k] = f[j][k] BY <1>6, <3>1
      <3>3. f[j][k] = f[k][k] BY <1>8, <3>1
      <3> QED BY <3>2, <3>3
    <2> QED BY <2>1, <2>2
  <1>9. 0 .. n \subseteq U
    <2> HIDE DEF U
    <2> QED BY <1>7, <1>8, UpTo
  <1>10. ASSUME NEW k \in 1 .. n PROVE after[k] = L!X!Stored(after[k - 1], after[Seen(k, requests)], requests[k])
    <2> DEFINE i == k - 1
               s == Seen(k, requests)
    <2>1. i \in 0 .. n - 1 /\ i \in 0 .. n /\ k \in 0 .. n /\ i + 1 = k OBVIOUS
    <2>2. s \in 0 .. i /\ s \in 0 .. n BY <2>1, SeenBefore
    <2> HIDE DEF i, s
    <2>3. f[k][k] = L!X!Stored(f[i][i], f[i][s], requests[k])
      <3>1. f[i + 1][i + 1] = L!X!Stored(f[i][i], f[i][Seen(i + 1, requests)], requests[i + 1]) BY <1>6, <2>1
      <3> QED BY <2>1, <3>1 DEF s
    <2>4. f[i][s] = f[s][s] BY <1>9, <2>1, <2>2
    <2>5. after[k] = f[k][k] /\ after[i] = f[i][i] /\ after[s] = f[s][s] BY <2>1, <2>2
    <2> HIDE DEF after
    <2>6. after[k] = L!X!Stored(after[i], after[s], requests[k]) BY <2>3, <2>4, <2>5
    <2> QED BY <2>6 DEF i, s
  <1>11. after[0] = Nobody(names)
    <2>1. after[0] = f[0][0] /\ 0 \in 0 .. n OBVIOUS
    <2> QED BY <1>5, <2>1 DEF base
  <1>12. after = [k \in 0 .. n |-> after[k]] OBVIOUS
  <1> HIDE DEF after
  <1>13. Answers(after, requests, names, n)
    <2>1. ASSUME NEW k \in 0 .. n
          PROVE  after[k] = IF k = 0 THEN Nobody(names)
                            ELSE L!X!Stored(after[k - 1], after[Seen(k, requests)], requests[k])
      BY <1>10, <1>11
    <2> QED BY <1>12, <2>1 DEF Answers
  <1> QED BY <1>13

\* Two requests for a name, of which the later one's list was too old.
Overlooked(requests, e, k) ==
  \E i, j \in 1 .. k : /\ i < j /\ j - i <= requests[j].lag
                       /\ requests[i].extension = e /\ requests[j].extension = e
\* A name that two resources have came with two such requests.
Doubled(after, requests, names, k) ==
  \A one, two \in names :
     one # two /\ after[k][one] # None /\ after[k][one] = after[k][two] => Overlooked(requests, after[k][one], k)

LEMMA Answered ==
  ASSUME NEW names, NEW n \in Nat, NEW requests, Late(requests, n), \A k \in 1 .. n : requests[k].name \in names,
         NEW after, Answers(after, requests, names, n)
  PROVE  Doubled(after, requests, names, n)
  <1> DEFINE E == {None} \cup {requests[k].extension : k \in 1 .. n}
             T == {k \in 0 .. n : after[k] \in [names -> E] /\ Doubled(after, requests, names, k)}
  <1>1. after[0] = Nobody(names)
        /\ \A k \in 1 .. n : after[k] = L!X!Stored(after[k - 1], after[Seen(k, requests)], requests[k])
    BY DEF Answers
  <1>2. None \in E /\ \A k \in 1 .. n : requests[k].extension \in E OBVIOUS
  <1> HIDE DEF E
  <1>3. 0 \in {k \in 0 .. n : after[k] \in [names -> E]} BY <1>1, <1>2 DEF Nobody
  <1>4. ASSUME NEW k \in 0 .. n - 1, after[k] \in [names -> E]
        PROVE  /\ after[k + 1] \in [names -> E]
               /\ \A x \in names : after[k + 1][x] # after[k][x] =>
                     /\ x = requests[k + 1].name /\ after[k + 1][x] = requests[k + 1].extension
                     /\ requests[k + 1].extension = None
                        \/ \A other \in DOMAIN after[Seen(k + 1, requests)] \ {x} :
                              after[Seen(k + 1, requests)][other] # requests[k + 1].extension
    <2>1. k + 1 \in 1 .. n /\ (k + 1) - 1 = k OBVIOUS
    <2>2. after[k + 1] = L!X!Stored(after[k], after[Seen(k + 1, requests)], requests[k + 1]) BY <1>1, <2>1
    <2>3. requests[k + 1].name \in names /\ requests[k + 1].extension \in E BY <1>2, <2>1
    <2> DEFINE list == after[Seen(k + 1, requests)]
               request == requests[k + 1]
               stored == after[k]
    <2>4. None \in E /\ stored \in [names -> E] /\ request.name \in names /\ request.extension \in E BY <1>2, <1>4, <2>3
    <2>5. after[k + 1] = L!X!Stored(stored, list, request) BY <2>2
    <2> HIDE DEF list, request, stored
    <2>6. L!X!Stored(stored, list, request) \in [names -> E] /\ Changes(stored, list, request, names)
      BY <2>4, StoredTyped
    <2> QED BY <2>5, <2>6 DEF list, request, stored, Changes
  <1>5. \A k \in 0 .. n : after[k] \in [names -> E]
    <2> DEFINE U == {k \in 0 .. n : after[k] \in [names -> E]}
    <2>1. ASSUME NEW k \in 0 .. n - 1, k \in U PROVE k + 1 \in U BY <1>4, <2>1
    <2>2. 0 .. n \subseteq U
      <3> HIDE DEF U
      <3> QED BY <1>3, <2>1, UpTo DEF U
    <2> QED BY <2>2
  <1>6. 0 \in T
    <2>1. after[0] \in [names -> E] BY <1>3
    <2>2. Doubled(after, requests, names, 0) BY <1>1 DEF Doubled, Nobody
    <2> QED BY <2>1, <2>2
  <1>7. ASSUME NEW k \in 0 .. n - 1, k \in T PROVE k + 1 \in T
    <2>1. k + 1 \in 0 .. n /\ k \in 0 .. n /\ after[k + 1] \in [names -> E] /\ after[k] \in [names -> E] BY <1>5
    <2> SUFFICES ASSUME NEW one \in names, NEW two \in names, one # two,
                        after[k + 1][one] # None, after[k + 1][one] = after[k + 1][two]
                 PROVE  Overlooked(requests, after[k + 1][one], k + 1)
      BY <2>1 DEF Doubled
    <2> DEFINE e == after[k + 1][one]
    \* One of the two has it since this request, the other had it before.
    <2>2. ASSUME NEW x \in names, NEW y \in names, x # y, after[k + 1][x] = e, after[k + 1][y] = e, after[k + 1][x] # after[k][x]
          PROVE  Overlooked(requests, e, k + 1)
      <3> DEFINE s == Seen(k + 1, requests)
      <3>0. k + 1 \in 1 .. n /\ (k + 1) - 1 = k /\ k \in Nat OBVIOUS
      <3>1. x = requests[k + 1].name /\ requests[k + 1].extension = e BY <1>4, <2>1, <2>2
      <3>2. after[k][y] = e
        <4>1. after[k + 1][y] # after[k][y] => y = requests[k + 1].name BY <1>4, <2>1
        <4> QED BY <2>2, <3>1, <4>1
      <3>3. s \in 0 .. k /\ k - s <= requests[k + 1].lag BY <3>0, SeenBefore
      <3>4. DOMAIN after[s] = names
        <4> HIDE DEF s
        <4> QED BY <1>5, <2>1, <3>3
      <3>5. after[s][y] # e
        <4>1. e # None BY <2>2
        <4>2. \A other \in DOMAIN after[s] \ {x} : after[s][other] # e
          <5> HIDE DEF e
          <5> QED BY <1>4, <2>1, <2>2, <3>1, <4>1
        <4> QED BY <2>2, <3>4, <4>2
      <3> HIDE DEF s, e
      \* Since then a request gave it to y.
      <3> DEFINE J == {j \in s .. k : after[j][y] = e}
      <3>6. J \in SUBSET Nat /\ k \in J BY <3>2, <3>3
      <3>7. PICK j \in J : \A m \in J : j <= m
        <4> HIDE DEF J
        <4> QED BY <3>6, NatLeast
      <3>8. j \in s .. k /\ j # s /\ after[j][y] = e BY <3>5, <3>7
      <3>9. j - 1 \in s .. k /\ j - 1 \in 0 .. n - 1 /\ (j - 1) + 1 = j /\ j - 1 \in 0 .. n BY <3>3, <3>8
      <3>10. after[j - 1][y] # e BY <3>7, <3>9
      <3>11. requests[j].extension = e
        <4>1. after[j - 1] \in [names -> E] BY <1>5, <3>9
        <4>2. after[(j - 1) + 1][y] # after[j - 1][y] => after[(j - 1) + 1][y] = requests[(j - 1) + 1].extension
          BY <1>4, <3>9, <4>1
        <4> QED BY <3>8, <3>9, <3>10, <4>2
      <3>12. requests[k + 1].lag \in Nat BY <3>0 DEF Late
      <3>13. j \in 1 .. k + 1 /\ k + 1 \in 1 .. k + 1 /\ j < k + 1 /\ (k + 1) - j <= requests[k + 1].lag
        BY <3>3, <3>8, <3>9, <3>12
      <3> QED BY <3>1, <3>11, <3>13 DEF Overlooked
    <2>3. CASE after[k + 1][one] # after[k][one] BY <2>2, <2>3
    <2>4. CASE after[k + 1][two] # after[k][two] BY <2>2, <2>4
    <2>5. CASE after[k + 1][one] = after[k][one] /\ after[k + 1][two] = after[k][two]
      <3>1. Doubled(after, requests, names, k) BY <1>7
      <3>2. Overlooked(requests, after[k][one], k) BY <2>5, <3>1 DEF Doubled
      <3>3. 1 .. k \subseteq 1 .. k + 1 OBVIOUS
      <3> QED BY <2>5, <3>2, <3>3 DEF Overlooked
    <2> QED BY <2>3, <2>4, <2>5
  <1>8. 0 .. n \subseteq T
    <2> HIDE DEF T
    <2> QED BY <1>6, <1>7, UpTo
  <1> QED BY <1>8

LEMMA NamesApart ==
  ASSUME NEW names, NEW requests, Len(requests) \in Nat, Late(requests, Len(requests)),
         requests = [k \in 1 .. Len(requests) |-> requests[k]],
         \A k \in 1 .. Len(requests) : requests[k].name \in names
  PROVE  L!X!NamesUnique(requests, names)
  <1> DEFINE n == Len(requests)
             Is(after) == after = [k \in 0 .. Len(requests) |->
                             IF k = 0 THEN [name \in names |-> None]
                             ELSE L!X!Stored(after[k - 1], after[IF k - 1 < requests[k].lag THEN 0
                                                                ELSE k - 1 - requests[k].lag], requests[k])]
             after == CHOOSE f : Is(f)
  <1>1. L!X!After(requests, names) = after[n] BY DEF L!X!After
  <1>2. \A f : Is(f) <=> Answers(f, requests, names, n) BY DEF Answers, Nobody, Seen
  <1> HIDE DEF Is
  <1>3. \E f : Is(f) BY <1>2, AnswersExist
  <1>4. Is(after) BY <1>3
  <1> HIDE DEF after
  <1>5. Doubled(after, requests, names, n) BY <1>2, <1>4, Answered
  <1>6. DOMAIN requests = 1 .. n OBVIOUS
  <1> SUFFICES ASSUME NEW one \in names, NEW two \in names, one # two, after[n][one] # None, after[n][one] = after[n][two]
               PROVE  \E i, j \in DOMAIN requests :
                          /\ i < j /\ j - i <= requests[j].lag
                          /\ requests[i].extension = after[n][one] /\ requests[j].extension = after[n][one]
    BY <1>1 DEF L!X!NamesUnique
  <1>7. Overlooked(requests, after[n][one], n) BY <1>5 DEF Doubled
  <1> QED BY <1>6, <1>7 DEF Overlooked

-----------------------------------------------------------------------------
(* A cluster's connection, mutation by mutation *)

CForms == [cluster : {None} \cup L!ClusterForms, connection : {None} \cup L!ConnectionForms]

FormsApart == None \notin L!ClusterForms /\ None \notin L!ConnectionForms

Renews(m) == m \in {"set ready", "connected"}

Mutates(c, m, d) ==
  /\ d \in CForms
  /\ d.connection # None <=> c.connection # None \/ m = "start"
  /\ L!G!Connected(d) => Renews(m) \/ (L!G!Connected(c) /\ m # "checked")
  /\ L!G!isClusterHealthy(d) => Renews(m) \/ (L!G!isClusterHealthy(c) /\ (m = "failed" => c.connection = None))
  /\ m = "start" => d.connection.retryCount = 0
  /\ m # "start" /\ c.connection # None =>
        d.connection.retryCount = c.connection.retryCount + IF m = "failed" THEN 1 ELSE 0

LEMMA Mutating ==
  ASSUME NEW c \in CForms, NEW m \in L!Mutations, FormsApart
  PROVE  Mutates(c, m, L!G!Mutated(c, m))
  <1>1. /\ c = [cluster |-> c.cluster, connection |-> c.connection]
        /\ c.cluster \in {None} \cup L!ClusterForms /\ c.connection \in {None} \cup L!ConnectionForms
    BY DEF CForms
  <1>2. ASSUME NEW one \in {None} \cup L!ClusterForms, NEW two \in {None} \cup L!ConnectionForms
        PROVE  [cluster |-> one, connection |-> two] \in CForms
    BY DEF CForms
  <1>0. c.connection # None => c.connection.retryCount \in Nat BY <1>1 DEF L!ConnectionForms
  <1>11. ASSUME NEW one \in {None} \cup L!ClusterForms, m \notin {"start", "failed"},
                Renews(m) \/ ~L!G!Connected([cluster |-> one, connection |-> c.connection])
         PROVE  Mutates(c, m, [cluster |-> one, connection |-> c.connection])
    <2> DEFINE d == [cluster |-> one, connection |-> c.connection]
    <2>1. d \in CForms /\ d.connection = c.connection BY <1>1, <1>2
    <2>2. L!G!isClusterHealthy(d) => L!G!Connected(d) BY DEF L!G!isClusterHealthy
    <2>3. Renews(m) \/ ~L!G!Connected(d) BY <1>11
    <2> HIDE DEF d
    <2>4. Mutates(c, m, d) BY <1>0, <1>11, <2>1, <2>2, <2>3 DEF Mutates
    <2> QED BY <2>4 DEF d
  <1>3. CASE m = "set ready"
    <2>1. L!G!Mutated(c, m) = [cluster |-> L!G!Stored(TRUE), connection |-> c.connection]
      BY <1>1, <1>3 DEF L!G!Mutated
    <2>2. L!G!Stored(TRUE) \in L!ClusterForms BY DEF L!G!Stored, L!ClusterForms
    <2>3. Renews(m) BY <1>3 DEF Renews
    <2> QED BY <1>3, <1>11, <2>1, <2>2, <2>3
  <1>4. CASE m = "set"
    <2>1. L!G!Mutated(c, m) = [cluster |-> L!G!Stored(FALSE), connection |-> c.connection]
      BY <1>1, <1>4 DEF L!G!Mutated
    <2>2. L!G!Stored(FALSE) \in L!ClusterForms /\ L!G!Stored(FALSE).ready = FALSE BY DEF L!G!Stored, L!ClusterForms
    <2>3. ~L!G!Connected([cluster |-> L!G!Stored(FALSE), connection |-> c.connection]) BY <2>2 DEF L!G!Connected
    <2> QED BY <1>4, <1>11, <2>1, <2>2, <2>3
  <1>5. CASE m = "clear"
    <2>1. L!G!Mutated(c, m) = [cluster |-> None, connection |-> c.connection]
      BY <1>1, <1>5 DEF L!G!Mutated
    <2>2. ~L!G!Connected([cluster |-> None, connection |-> c.connection]) BY DEF L!G!Connected
    <2> QED BY <1>5, <1>11, <2>1, <2>2
  <1>6. CASE m = "start"
    <2>1. L!G!Mutated(c, m) = [cluster |-> c.cluster, connection |-> L!G!START_CLUSTER_CONNECTION]
      BY <1>1, <1>6 DEF L!G!Mutated
    <2>2. L!G!START_CLUSTER_CONNECTION \in L!ConnectionForms /\ L!G!START_CLUSTER_CONNECTION.retryCount = 0
      BY DEF L!G!START_CLUSTER_CONNECTION, L!ConnectionForms
    <2>3. L!G!START_CLUSTER_CONNECTION # None BY <2>2 DEF FormsApart
    <2> QED BY <1>1, <1>2, <1>6, <2>1, <2>2, <2>3 DEF Mutates, L!G!Connected, L!G!isClusterHealthy
  <1>7. ASSUME NEW success \in BOOLEAN, m = IF success THEN "connected" ELSE "failed"
        PROVE  L!G!Mutated(c, m) = L!G!COMPLETE_CLUSTER_CONNECTION(c, success)
    BY <1>7 DEF L!G!Mutated
  <1>8. CASE m \in {"connected", "failed"} /\ c.connection = None
    <2>1. L!G!Mutated(c, m) = c BY <1>7, <1>8 DEF L!G!COMPLETE_CLUSTER_CONNECTION
    <2> QED BY <1>8, <2>1 DEF Renews, Mutates
  <1>9. CASE m \in {"connected", "failed"} /\ c.connection # None
    <2> DEFINE success == m = "connected"
               one == IF c.cluster = None THEN None
                      ELSE [c.cluster EXCEPT !.connectionStatus = IF success THEN "connected" ELSE "error",
                                             !.healthError = ~success]
               two == [connecting |-> FALSE, error |-> ~success,
                       retryCount |-> c.connection.retryCount + IF success THEN 0 ELSE 1]
    <2>1. L!G!Mutated(c, m) = [cluster |-> one, connection |-> two]
      BY <1>7, <1>9 DEF L!G!COMPLETE_CLUSTER_CONNECTION
    <2>2. c.connection \in L!ConnectionForms /\ c.connection.retryCount \in Nat BY <1>1, <1>9 DEF L!ConnectionForms
    <2>3. two \in L!ConnectionForms /\ two.retryCount = c.connection.retryCount + IF m = "failed" THEN 1 ELSE 0
      BY <1>9, <2>2 DEF L!ConnectionForms
    <2>4. one \in {None} \cup L!ClusterForms /\ (m = "failed" /\ one # None => one.healthError = TRUE /\ one.connectionStatus = "error")
      BY <1>1, <1>9 DEF L!ClusterForms
    <2> HIDE DEF one, two
    <2>5. two # None BY <2>3 DEF FormsApart
    <2>6. [cluster |-> one, connection |-> two] \in CForms BY <1>2, <2>3, <2>4
    <2>7. m = "failed" => ~L!G!Connected([cluster |-> one, connection |-> two])
                          /\ ~L!G!isClusterHealthy([cluster |-> one, connection |-> two])
      BY <2>4 DEF L!G!Connected, L!G!isClusterHealthy
    <2> DEFINE d == [cluster |-> one, connection |-> two]
    <2>8. d.connection = two OBVIOUS
    <2>9. d \in CForms /\ (m = "failed" => ~L!G!Connected(d) /\ ~L!G!isClusterHealthy(d)) BY <2>6, <2>7
    <2> HIDE DEF d
    <2>10. Renews(m) \/ m = "failed" BY <1>9 DEF Renews
    <2>11. Mutates(c, m, d) BY <1>9, <2>3, <2>5, <2>8, <2>9, <2>10 DEF Mutates
    <2> QED BY <2>1, <2>11 DEF d
  <1>10. CASE m = "checked"
    <2>1. L!G!Mutated(c, m) = IF c.cluster = None THEN c ELSE [c EXCEPT !.cluster.connectionStatus = "disconnected"]
      BY <1>10 DEF L!G!Mutated, L!G!UPDATE_CLUSTER_STATUS
    <2>2. CASE c.cluster = None
      <3>1. L!G!Mutated(c, m) = c /\ ~L!G!Connected(c) /\ ~L!G!isClusterHealthy(c)
        BY <2>1, <2>2 DEF L!G!Connected, L!G!isClusterHealthy
      <3> QED BY <1>0, <1>10, <3>1 DEF Mutates
    <2>3. CASE c.cluster # None
      <3> DEFINE one == [c.cluster EXCEPT !.connectionStatus = "disconnected"]
      <3>1. c.cluster \in L!ClusterForms BY <1>1, <2>3
      <3>2. L!G!Mutated(c, m) = [cluster |-> one, connection |-> c.connection] BY <1>1, <2>1, <2>3
      <3>3. one \in L!ClusterForms /\ one.connectionStatus = "disconnected" BY <3>1 DEF L!ClusterForms
      <3> HIDE DEF one
      <3>4. ~L!G!Connected([cluster |-> one, connection |-> c.connection]) BY <3>3 DEF L!G!Connected
      <3> QED BY <1>10, <1>11, <3>2, <3>3, <3>4
    <2> QED BY <2>2, <2>3
  <1> QED BY <1>3, <1>4, <1>5, <1>6, <1>8, <1>9, <1>10 DEF L!Mutations

\* What is told of a cluster after the first k mutations.
Renewed(ms, i, k) == \E j \in i + 1 .. k : Renews(ms[j])
ToldSo(ms, k, c) ==
  /\ c \in CForms
  /\ c.connection # None <=> \E j \in 1 .. k : ms[j] = "start"
  /\ \A i \in 1 .. k : ms[i] = "checked" /\ L!G!Connected(c) => Renewed(ms, i, k)
  /\ \A i \in 1 .. k : ms[i] = "failed" /\ (\E j \in 1 .. i - 1 : ms[j] = "start") /\ L!G!isClusterHealthy(c) => Renewed(ms, i, k)
  /\ \A start \in 1 .. k : ms[start] = "start" /\ (\A j \in start + 1 .. k : ms[j] # "start") =>
        c.connection.retryCount = Cardinality({i \in 1 .. k : ms[i] = "failed" /\ i > start})

LEMMA ToldOn ==
  ASSUME NEW ms, NEW k \in Nat, \A i \in 1 .. k + 1 : ms[i] \in L!Mutations, NEW c, ToldSo(ms, k, c), FormsApart
  PROVE  ToldSo(ms, k + 1, L!G!Mutated(c, ms[k + 1]))
  <1> DEFINE m == ms[k + 1]
             d == L!G!Mutated(c, m)
  <1>0. m \in L!Mutations /\ c \in CForms
    BY DEF ToldSo
  <1>1. /\ d \in CForms
        /\ d.connection # None <=> c.connection # None \/ m = "start"
        /\ L!G!Connected(d) => Renews(m) \/ (L!G!Connected(c) /\ m # "checked")
        /\ L!G!isClusterHealthy(d) => Renews(m) \/ (L!G!isClusterHealthy(c) /\ (m = "failed" => c.connection = None))
        /\ m = "start" => d.connection.retryCount = 0
        /\ m # "start" /\ c.connection # None =>
                   d.connection.retryCount = c.connection.retryCount + IF m = "failed" THEN 1 ELSE 0
    <2> HIDE DEF m
    <2> QED BY <1>0, Mutating DEF Mutates
  <1>2. \A i : i \in 1 .. k + 1 <=> i \in 1 .. k \/ i = k + 1 OBVIOUS
  <1> HIDE DEF d
  <1>3. d.connection # None <=> \E j \in 1 .. k + 1 : ms[j] = "start"
    BY <1>1, <1>2 DEF ToldSo
  <1>4. ASSUME NEW i \in 1 .. k, Renewed(ms, i, k) \/ Renews(m) PROVE Renewed(ms, i, k + 1)
    <2>1. \A j \in i + 1 .. k : j \in i + 1 .. k + 1 OBVIOUS
    <2>2. k + 1 \in i + 1 .. k + 1 OBVIOUS
    <2> QED BY <1>4, <2>1, <2>2 DEF Renewed
  <1>5. ASSUME NEW i \in 1 .. k + 1, ms[i] = "checked", L!G!Connected(d) PROVE Renewed(ms, i, k + 1)
    <2>1. CASE i = k + 1
      <3>1. ~Renews(m) BY <1>5, <2>1 DEF Renews
      <3> QED BY <1>1, <1>5, <2>1, <3>1
    <2>2. CASE i \in 1 .. k
      <3>1. Renewed(ms, i, k) \/ Renews(m) BY <1>1, <1>5, <2>2 DEF ToldSo
      <3> QED BY <1>4, <2>2, <3>1
    <2> QED BY <1>2, <2>1, <2>2
  <1>6. ASSUME NEW i \in 1 .. k + 1, ms[i] = "failed", \E j \in 1 .. i - 1 : ms[j] = "start", L!G!isClusterHealthy(d)
        PROVE  Renewed(ms, i, k + 1)
    <2>1. CASE i = k + 1
      <3>1. ~Renews(m) BY <1>6, <2>1 DEF Renews
      <3>2. c.connection # None
        <4>1. i - 1 = k BY <2>1
        <4> QED BY <1>6, <4>1 DEF ToldSo
      <3> QED BY <1>1, <1>6, <2>1, <3>1, <3>2
    <2>2. CASE i \in 1 .. k
      <3>1. Renewed(ms, i, k) \/ Renews(m) BY <1>1, <1>6, <2>2 DEF ToldSo
      <3> QED BY <1>4, <2>2, <3>1
    <2> QED BY <1>2, <2>1, <2>2
  <1>7. ASSUME NEW start \in 1 .. k + 1, ms[start] = "start", \A j \in start + 1 .. k + 1 : ms[j] # "start"
        PROVE  d.connection.retryCount = Cardinality({i \in 1 .. k + 1 : ms[i] = "failed" /\ i > start})
    <2> DEFINE counted == {i \in 1 .. k + 1 : ms[i] = "failed" /\ i > start}
               before == {i \in 1 .. k : ms[i] = "failed" /\ i > start}
    <2>1. CASE start = k + 1
      <3>1. counted = {} BY <2>1
      <3>2. Cardinality(counted) = 0 BY <3>1, FS_EmptySet
      <3> QED BY <1>1, <1>7, <2>1, <3>2
    <2>2. CASE start \in 1 .. k
      <3>1. m # "start" /\ \A j \in start + 1 .. k : ms[j] # "start"
        <4>1. k + 1 \in start + 1 .. k + 1 /\ \A j \in start + 1 .. k : j \in start + 1 .. k + 1 BY <2>2
        <4> QED BY <1>7, <4>1
      <3>2. c.connection # None /\ c.connection.retryCount = Cardinality(before) BY <1>7, <2>2, <3>1 DEF ToldSo
      <3>3. IsFiniteSet(before) /\ Cardinality(before) \in Nat
        <4>1. before \in SUBSET (1 .. k) OBVIOUS
        <4> QED BY <4>1, PlacesFinite
      <3>4. counted = IF m = "failed" THEN before \cup {k + 1} ELSE before BY <1>2, <2>2
      <3>5. k + 1 \notin before OBVIOUS
      <3> HIDE DEF counted, before, m
      <3>6. Cardinality(before \cup {k + 1}) = Cardinality(before) + 1 BY <3>3, <3>5, FS_AddElement
      <3>7. Cardinality(counted) = Cardinality(before) + IF m = "failed" THEN 1 ELSE 0 BY <3>3, <3>4, <3>6
      <3>8. d.connection.retryCount = c.connection.retryCount + IF m = "failed" THEN 1 ELSE 0
        BY <1>1, <3>1, <3>2
      <3>9. d.connection.retryCount = Cardinality(counted) BY <3>2, <3>7, <3>8
      <3> QED BY <3>9 DEF counted
    <2> QED BY <1>2, <2>1, <2>2
  <1> QED BY <1>1, <1>3, <1>5, <1>6, <1>7 DEF ToldSo, d

LEMMA MutationsTold ==
  ASSUME NEW n \in Nat, NEW ms, ms = [k \in 1 .. n |-> ms[k]], \A k \in 1 .. n : ms[k] \in L!Mutations, FormsApart
  PROVE  ToldSo(ms, n, L!G!After(ms))
  <1> DEFINE A == CForms
             base == [cluster |-> None, connection |-> None]
             turn == [k \in Nat |-> [a \in A |-> IF k \in 1 .. n THEN L!G!Mutated(a, ms[k]) ELSE a]]
             Is(iter) == iter = [s \in SUBSET (DOMAIN ms) |->
                            IF s = {} THEN base
                            ELSE LET x == L!G!Max(s) IN L!G!Mutated(iter[s \ {x}], ms[x])]
             fold == CHOOSE iter : Is(iter)
  <1>1. L!G!After(ms) = fold[DOMAIN ms]
    BY DEF L!G!After, L!G!FoldLeft, L!G!MapThenFoldSet
  <1>2. turn \in [Nat -> [A -> A]]
    <2> SUFFICES ASSUME NEW k \in 1 .. n, NEW a \in A PROVE L!G!Mutated(a, ms[k]) \in A
      OBVIOUS
    <2>1. ms[k] \in L!Mutations OBVIOUS
    <2> QED BY <2>1, Mutating DEF Mutates
  <1>3. DOMAIN ms = 1 .. n /\ base \in A BY DEF CForms
  <1>4. \A k \in 1 .. n, a \in A : turn[k][a] = L!G!Mutated(a, ms[k])
    OBVIOUS
  <1>5. \A s \in SUBSET (1 .. n) : s # {} => L!G!Max(s) \in s /\ (\A y \in s : y <= L!G!Max(s))
    <2> SUFFICES ASSUME NEW s \in SUBSET (1 .. n), s # {}
                 PROVE  L!G!Max(s) \in s /\ \A y \in s : y <= L!G!Max(s)
      OBVIOUS
    <2>1. \E x \in s : \A y \in s : y <= x BY GreatestFits
    <2>2. \E x \in s : \A y \in s : x >= y BY <2>1
    <2>3. L!G!Max(s) \in s /\ \A y \in s : L!G!Max(s) >= y BY <2>2 DEF L!G!Max
    <2> QED BY <2>3
  <1> HIDE DEF A, turn, base
  <1>6. \E iter : Is(iter)
    <2>1. PICK iter \in [SUBSET (1 .. n) -> A] : Iterates(iter, n, A, base, turn)
      BY <1>2, <1>3, FoldExists
    <2>2. ASSUME NEW s \in SUBSET (1 .. n), s # {}
          PROVE  iter[s] = L!G!Mutated(iter[s \ {L!G!Max(s)}], ms[L!G!Max(s)])
      <3>1. L!G!Max(s) \in s /\ (\A y \in s : y <= L!G!Max(s)) /\ L!G!Max(s) \in 1 .. n BY <1>5, <2>2
      <3>2. s \ {L!G!Max(s)} \in SUBSET (1 .. n) OBVIOUS
      <3>3. iter[s \ {L!G!Max(s)}] \in A BY <3>2
      <3>4. iter[s] = turn[L!G!Max(s)][iter[s \ {L!G!Max(s)}]] BY <2>1, <3>1, <3>3 DEF Iterates
      <3> QED BY <1>4, <3>1, <3>3, <3>4
    <2>3. iter[{}] = base BY <2>1 DEF Iterates
    <2>4. Is(iter) BY <1>3, <2>2, <2>3
    <2> QED BY <2>4
  <1>7. Is(fold) BY <1>6
  <1>8. Iterates(fold, n, A, base, turn)
    <2>1. fold[{}] = base BY <1>7
    <2>2. ASSUME NEW s \in SUBSET (1 .. n), NEW x \in 1 .. n, x \in s, \A y \in s : y <= x, fold[s \ {x}] \in A
          PROVE  fold[s] = turn[x][fold[s \ {x}]]
      <3>1. L!G!Max(s) = x BY <1>5, <2>2
      <3>2. fold[s] = L!G!Mutated(fold[s \ {x}], ms[x]) BY <1>3, <1>7, <2>2, <3>1
      <3> QED BY <1>4, <2>2, <3>2
    <2> HIDE DEF fold
    <2> QED BY <2>1, <2>2 DEF Iterates
  <1> HIDE DEF fold
  <1>9. PICK F : FoldsTo(F, n, A, base, turn) /\ fold[1 .. n] = F[n]
    BY <1>2, <1>3, <1>8, FoldValue
  <1> DEFINE T == {k \in 0 .. n : ToldSo(ms, k, F[k])}
  <1>10. 0 \in T
    <2>1. F[0] = [cluster |-> None, connection |-> None] BY <1>9 DEF FoldsTo, base
    <2> QED BY <2>1 DEF ToldSo, CForms
  <1>11. ASSUME NEW k \in 0 .. n - 1, k \in T PROVE k + 1 \in T
    <2>1. F[k] \in A /\ F[k + 1] = turn[k + 1][F[k]] BY <1>9 DEF FoldsTo
    <2>2. F[k + 1] = L!G!Mutated(F[k], ms[k + 1]) BY <1>4, <2>1
    <2>3. ToldSo(ms, k, F[k]) /\ k \in Nat /\ \A i \in 1 .. k + 1 : ms[i] \in L!Mutations BY <1>11
    <2>4. ToldSo(ms, k + 1, L!G!Mutated(F[k], ms[k + 1])) BY <2>3, ToldOn
    <2> QED BY <2>2, <2>4
  <1>12. 0 .. n \subseteq T
    <2> HIDE DEF T
    <2> QED BY <1>10, <1>11, UpTo
  <1> QED BY <1>1, <1>3, <1>9, <1>12

LEMMA ConnectionsTold ==
  ASSUME NEW n \in Nat, NEW ms, ms = [k \in 1 .. n |-> ms[k]], \A k \in 1 .. n : ms[k] \in L!Mutations, FormsApart,
         NEW able
  PROVE  L!G!ConnectionTold(ms, able)
  <1> DEFINE c == L!G!After(ms)
             since(m) == {i \in DOMAIN ms : ms[i] = m}
             Again(i) == \E j \in DOMAIN ms : j > i /\ ms[j] \in {"set ready", "connected"}
             begun == CHOOSE i \in since("start") : \A j \in since("start") : j <= i
  <1>1. ToldSo(ms, n, c) BY MutationsTold
  <1>2. DOMAIN ms = 1 .. n OBVIOUS
  <1> HIDE DEF c
  <1>3. ASSUME NEW i \in 1 .. n, Renewed(ms, i, n) PROVE Again(i)
    <2>1. PICK j \in i + 1 .. n : Renews(ms[j]) BY <1>3 DEF Renewed
    <2>2. j \in 1 .. n /\ j > i BY <2>1
    <2> QED BY <1>2, <2>1, <2>2 DEF Renews
  <1>4. L!G!canInstallApps(c, able) => /\ L!G!IsAvailable(c, able)
                                       /\ L!G!clusterConnectionStatus(c) \in {"connected", "connecting"}
    BY DEF L!G!canInstallApps, L!G!Connected, L!G!IsAvailable, L!G!clusterConnectionStatus
  <1>5. L!G!isClusterHealthy(c) => L!G!Connected(c) BY DEF L!G!isClusterHealthy
  <1>6. \A i \in since("checked") : L!G!canInstallApps(c, able) => Again(i)
    <2> HIDE DEF Again
    <2> QED BY <1>1, <1>2, <1>3 DEF ToldSo, L!G!canInstallApps
  <1>7. \A i \in since("failed") : (\E j \in since("start") : j < i) /\ L!G!isClusterHealthy(c) => Again(i)
    <2> SUFFICES ASSUME NEW i \in since("failed"), NEW j \in since("start"), j < i, L!G!isClusterHealthy(c) PROVE Again(i)
      OBVIOUS
    <2>1. i \in 1 .. n /\ ms[i] = "failed" /\ j \in 1 .. i - 1 /\ ms[j] = "start" BY <1>2
    <2> HIDE DEF Again
    <2> QED BY <1>1, <1>3, <2>1 DEF ToldSo
  <1>8. c.connection # None => c.connection.retryCount = L!G!Cardinality({i \in since("failed") : i > begun})
    <2> SUFFICES ASSUME c.connection # None
                 PROVE  c.connection.retryCount = L!G!Cardinality({i \in since("failed") : i > begun})
      OBVIOUS
    <2>1. PICK j \in 1 .. n : ms[j] = "start" BY <1>1 DEF ToldSo
    <2>2. since("start") \in SUBSET (1 .. n) /\ since("start") # {} BY <1>2, <2>1
    <2>3. begun \in since("start") /\ \A i \in since("start") : i <= begun
      <3>1. \E x \in since("start") : \A y \in since("start") : y <= x
        <4> HIDE DEF since
        <4> QED BY <2>2, GreatestFits
      <3> HIDE DEF since
      <3> QED BY <3>1
    <2> HIDE DEF begun
    <2>4. begun \in 1 .. n /\ ms[begun] = "start" /\ \A i \in begun + 1 .. n : ms[i] # "start"
      <3>1. begun \in 1 .. n /\ ms[begun] = "start" BY <1>2, <2>3
      <3>2. ASSUME NEW i \in begun + 1 .. n, ms[i] = "start" PROVE FALSE
        <4>1. i \in 1 .. n /\ i > begun BY <3>1
        <4>2. i \in since("start") BY <1>2, <3>2, <4>1
        <4> QED BY <2>3, <3>1, <4>1, <4>2
      <3> QED BY <3>1, <3>2
    <2>5. c.connection.retryCount = Cardinality({i \in 1 .. n : ms[i] = "failed" /\ i > begun}) BY <1>1, <2>4 DEF ToldSo
    <2>6. {i \in 1 .. n : ms[i] = "failed" /\ i > begun} = {i \in since("failed") : i > begun} BY <1>2
    <2>7. \A U : L!G!Cardinality(U) = Cardinality(U) BY DEF L!G!Cardinality, Cardinality
    <2> QED BY <2>5, <2>6, <2>7
  <1> QED BY <1>4, <1>5, <1>6, <1>7, <1>8 DEF L!G!ConnectionTold, c

-----------------------------------------------------------------------------
(* Short lists, filtered *)

LEMMA OnlyAtFew ==
  ASSUME NEW n \in Nat, NEW list, NEW places \in SUBSET (1 .. n)
  PROVE  /\ places = {} => OnlyAt(list, places) = <<>>
         /\ \A p \in 1 .. n : places = {p} => OnlyAt(list, places) = <<list[p]>>
         /\ \A p, q \in 1 .. n : p < q /\ places = {p, q} => OnlyAt(list, places) = <<list[p], list[q]>>
  <1>1. PICK put : Keeps(put, places) /\ OnlyAt(list, places) = [k \in 1 .. Cardinality(places) |-> list[put[k]]]
    BY OnlyAtFits
  <1>2. ASSUME places = {} PROVE OnlyAt(list, places) = <<>>
    <2>1. Cardinality(places) = 0 BY <1>2, FS_EmptySet
    <2> QED BY <1>1, <2>1
  <1>3. ASSUME NEW p \in 1 .. n, places = {p} PROVE OnlyAt(list, places) = <<list[p]>>
    <2>1. Cardinality(places) = 1 BY <1>3, FS_Singleton
    <2>2. put[1] = p
      <3>1. put \in [1 .. Cardinality(places) -> places] BY <1>1 DEF Keeps
      <3>2. put \in [1 .. 1 -> {p}] BY <1>3, <2>1, <3>1
      <3> QED BY <3>2
    <2>3. OnlyAt(list, places) = [k \in 1 .. 1 |-> list[put[k]]] BY <1>1, <2>1
    <2>4. \A k \in 1 .. 1 : k = 1 OBVIOUS
    <2>5. [k \in 1 .. 1 |-> list[put[k]]] = [k \in 1 .. 1 |-> list[p]] BY <2>2, <2>4
    <2> QED BY <2>3, <2>5
  <1>4. ASSUME NEW p \in 1 .. n, NEW q \in 1 .. n, p < q, places = {p, q}
        PROVE  OnlyAt(list, places) = <<list[p], list[q]>>
    <2>1. Cardinality(places) = 2
      <3>1. IsFiniteSet({p}) /\ Cardinality({p}) = 1 BY FS_Singleton
      <3>2. q \notin {p} BY <1>4
      <3>3. Cardinality({p} \cup {q}) = 2 BY <3>1, <3>2, FS_AddElement
      <3> QED BY <1>4, <3>3
    <2>2. put[1] \in {p, q} /\ put[2] \in {p, q} /\ put[1] < put[2]
      <3>1. 1 \in 1 .. 2 /\ 2 \in 1 .. 2 /\ 1 < 2 OBVIOUS
      <3>2. put \in [1 .. 2 -> {p, q}] /\ \A m, k \in 1 .. 2 : m < k <=> put[m] < put[k]
        BY <1>1, <1>4, <2>1 DEF Keeps
      <3> QED BY <3>1, <3>2
    <2>3. put[1] = p /\ put[2] = q BY <1>4, <2>2
    <2>4. OnlyAt(list, places) = [k \in 1 .. 2 |-> list[put[k]]] BY <1>1, <2>1
    <2>5. \A k \in 1 .. 2 : k = 1 \/ k = 2 OBVIOUS
    <2>6. [k \in 1 .. 2 |-> list[put[k]]] = [k \in 1 .. 2 |-> IF k = 1 THEN list[p] ELSE list[q]] BY <2>3, <2>5
    <2> QED BY <2>4, <2>6
  <1> QED BY <1>2, <1>3, <1>4

\* What is left of two, and of one.
Left(a, b, inA, inB) ==
  IF inA THEN IF inB THEN <<a, b>> ELSE <<a>> ELSE IF inB THEN <<b>> ELSE <<>>

LEMMA OnlyAtTwo ==
  ASSUME NEW a, NEW b, NEW places, places \subseteq {1, 2}
  PROVE  OnlyAt(<<a, b>>, places) = Left(a, b, 1 \in places, 2 \in places)
  <1> DEFINE list == <<a, b>>
  <1>1. list[1] = a /\ list[2] = b OBVIOUS
  <1>2. places \in SUBSET (1 .. 2) /\ 1 \in 1 .. 2 /\ 2 \in 1 .. 2 /\ 2 \in Nat OBVIOUS
  <1> HIDE DEF list
  <1>3. CASE places = {}
    <2>1. OnlyAt(list, places) = <<>> BY <1>2, <1>3, OnlyAtFew
    <2> QED BY <1>3, <2>1 DEF Left, list
  <1>4. CASE places = {1}
    <2>1. OnlyAt(list, places) = <<list[1]>> BY <1>2, <1>4, OnlyAtFew
    <2> QED BY <1>1, <1>4, <2>1 DEF Left, list
  <1>5. CASE places = {2}
    <2>1. OnlyAt(list, places) = <<list[2]>> BY <1>2, <1>5, OnlyAtFew
    <2> QED BY <1>1, <1>5, <2>1 DEF Left, list
  <1>6. CASE places = {1, 2}
    <2>1. 1 < 2 OBVIOUS
    <2>2. OnlyAt(list, places) = <<list[1], list[2]>> BY <1>2, <1>6, <2>1, OnlyAtFew
    <2> QED BY <1>1, <1>6, <2>2 DEF Left, list
  <1> QED BY <1>3, <1>4, <1>5, <1>6

LEMMA OnlyAtOne ==
  ASSUME NEW a, NEW places, places \subseteq {1}
  PROVE  OnlyAt(<<a>>, places) = IF 1 \in places THEN <<a>> ELSE <<>>
  <1> DEFINE list == <<a>>
  <1>1. list[1] = a OBVIOUS
  <1>2. places \in SUBSET (1 .. 1) /\ 1 \in 1 .. 1 /\ 1 \in Nat OBVIOUS
  <1> HIDE DEF list
  <1>3. CASE places = {}
    <2>1. OnlyAt(list, places) = <<>> BY <1>2, <1>3, OnlyAtFew
    <2> QED BY <1>3, <2>1 DEF list
  <1>4. CASE places = {1}
    <2>1. OnlyAt(list, places) = <<list[1]>> BY <1>2, <1>4, OnlyAtFew
    <2> QED BY <1>1, <1>4, <2>1 DEF list
  <1> QED BY <1>3, <1>4

LEMMA OnlyAtNone ==
  OnlyAt(<<>>, {}) = <<>>
  <1>1. {} \in SUBSET (1 .. 0) /\ 0 \in Nat OBVIOUS
  <1> QED BY <1>1, OnlyAtFew

-----------------------------------------------------------------------------
(* Clusters, filtered and sorted *)

LEMMA ClustersOnlyAt == \A list, places : L!C!OnlyAt(list, places) = OnlyAt(list, places)
  <1>1. \A T : L!C!Cardinality(T) = Cardinality(T) BY DEF L!C!Cardinality, Cardinality
  <1>2. ASSUME NEW U, NEW before PROVE L!C!Ordered(U, before) = Ordered(U, before)
    <2> DEFINE one == [x \in U |-> L!C!Cardinality({y \in U : <<y, x>> \in before})]
               two == [x \in U |-> Cardinality({y \in U : <<y, x>> \in before})]
    <2>1. one = two BY <1>1
    <2>2. L!C!Ordered(U, before) = [n \in 1 .. L!C!Cardinality(U) |-> CHOOSE x \in U : one[x] = n - 1]
      BY DEF L!C!Ordered
    <2>3. Ordered(U, before) = [n \in 1 .. Cardinality(U) |-> CHOOSE x \in U : two[x] = n - 1]
      BY DEF Ordered
    <2>4. L!C!Cardinality(U) = Cardinality(U) BY <1>1
    <2> HIDE DEF one, two
    <2> QED BY <2>1, <2>2, <2>3, <2>4
  <1> QED BY <1>2 DEF L!C!OnlyAt, L!C!Arranged, OnlyAt, Arranged

Passes(c, f) ==
  /\ f.ready # None => c.ready = f.ready
  /\ f.connections # None => c.connection \in f.connections
  /\ f.providers # {} => c.provider \in f.providers
  /\ f.text # None => f.text \in c.text

LEMMA FilterOfTwo ==
  ASSUME NEW a, NEW b, NEW f
  PROVE  /\ L!C!filterClusters(<<a, b>>, f) = Left(a, b, Passes(a, f), Passes(b, f))
         /\ L!C!filterClusters(<<a>>, f) = IF Passes(a, f) THEN <<a>> ELSE <<>>
         /\ L!C!filterClusters(<<>>, f) = <<>>
  <1>1. \A list : L!C!filterClusters(list, f) = OnlyAt(list, {n \in DOMAIN list : Passes(list[n], f)})
    BY ClustersOnlyAt DEF L!C!filterClusters, L!C!Filtered, Passes
  <1>2. L!C!filterClusters(<<a, b>>, f) = Left(a, b, Passes(a, f), Passes(b, f))
    <2> DEFINE list == <<a, b>>
               places == {n \in DOMAIN list : Passes(list[n], f)}
    <2>1. DOMAIN list = {1, 2} /\ list[1] = a /\ list[2] = b OBVIOUS
    <2>2. places \subseteq {1, 2} /\ (1 \in places <=> Passes(a, f)) /\ (2 \in places <=> Passes(b, f))
      <3> HIDE DEF list
      <3> QED BY <2>1
    <2> HIDE DEF places
    <2>3. OnlyAt(<<a, b>>, places) = Left(a, b, 1 \in places, 2 \in places) BY <2>2, OnlyAtTwo
    <2>4. L!C!filterClusters(list, f) = OnlyAt(list, places) BY <1>1 DEF places
    <2> QED BY <2>2, <2>3, <2>4 DEF Left
  <1>3. L!C!filterClusters(<<a>>, f) = IF Passes(a, f) THEN <<a>> ELSE <<>>
    <2> DEFINE list == <<a>>
               places == {n \in DOMAIN list : Passes(list[n], f)}
    <2>1. DOMAIN list = {1} /\ list[1] = a OBVIOUS
    <2>2. places \subseteq {1} /\ (1 \in places <=> Passes(a, f))
      <3> HIDE DEF list
      <3> QED BY <2>1
    <2> HIDE DEF places
    <2>3. OnlyAt(<<a>>, places) = IF 1 \in places THEN <<a>> ELSE <<>> BY <2>2, OnlyAtOne
    <2>4. L!C!filterClusters(list, f) = OnlyAt(list, places) BY <1>1 DEF places
    <2> QED BY <2>2, <2>3, <2>4
  <1>4. L!C!filterClusters(<<>>, f) = <<>>
    <2> DEFINE places == {n \in DOMAIN <<>> : Passes(<<>>[n], f)}
    <2>1. DOMAIN <<>> = {} OBVIOUS
    <2>2. places = {} BY <2>1
    <2>3. L!C!filterClusters(<<>>, f) = OnlyAt(<<>>, places) BY <1>1
    <2> QED BY <2>2, <2>3, OnlyAtNone
  <1> QED BY <1>2, <1>3, <1>4

\* Those that are ready, that are not, and that have an issue.
Readies(list) == OnlyAt(list, {n \in DOMAIN list : list[n].ready})
Waiting(list) == OnlyAt(list, {n \in DOMAIN list : ~list[n].ready})
Issues(list) == OnlyAt(list, {n \in DOMAIN list : L!C!HasIssue(list[n])})

LEMMA ReadyOfTwo ==
  ASSUME NEW a, NEW b, a.ready \in BOOLEAN, b.ready \in BOOLEAN, NEW list, list = <<a, b>>
  PROVE  /\ Readies(list) = Left(a, b, a.ready, b.ready)
         /\ Waiting(list) = Left(a, b, ~a.ready, ~b.ready)
         /\ Issues(list) = Left(a, b, L!C!HasIssue(a), L!C!HasIssue(b))
  <1> DEFINE yes == {n \in DOMAIN list : list[n].ready}
             no == {n \in DOMAIN list : ~list[n].ready}
             issues == {n \in DOMAIN list : L!C!HasIssue(list[n])}
  <1>1. DOMAIN list = {1, 2} /\ list[1] = a /\ list[2] = b OBVIOUS
  <1>2. /\ yes \subseteq {1, 2} /\ (1 \in yes <=> a.ready) /\ (2 \in yes <=> b.ready)
        /\ no \subseteq {1, 2} /\ (1 \in no <=> ~a.ready) /\ (2 \in no <=> ~b.ready)
        /\ issues \subseteq {1, 2} /\ (1 \in issues <=> L!C!HasIssue(a)) /\ (2 \in issues <=> L!C!HasIssue(b))
    BY <1>1
  <1> HIDE DEF yes, no, issues
  <1>4. /\ OnlyAt(<<a, b>>, yes) = Left(a, b, 1 \in yes, 2 \in yes)
        /\ OnlyAt(<<a, b>>, no) = Left(a, b, 1 \in no, 2 \in no)
        /\ OnlyAt(<<a, b>>, issues) = Left(a, b, 1 \in issues, 2 \in issues)
    BY <1>2, OnlyAtTwo
  <1>5. /\ OnlyAt(<<a, b>>, yes) = Left(a, b, a.ready, b.ready)
        /\ OnlyAt(<<a, b>>, no) = Left(a, b, ~a.ready, ~b.ready)
        /\ OnlyAt(<<a, b>>, issues) = Left(a, b, L!C!HasIssue(a), L!C!HasIssue(b))
    BY <1>2, <1>4 DEF Left
  <1> QED BY <1>5 DEF yes, no, issues, Readies, Waiting, Issues

LEMMA TwoTogether ==
  ASSUME NEW a, NEW b
  PROVE  /\ <<>> \o <<a, b>> = <<a, b>> /\ <<a, b>> \o <<>> = <<a, b>>
         /\ <<a>> \o <<b>> = <<a, b>> /\ <<b>> \o <<a>> = <<b, a>>
  <1> DEFINE U == {a, b}
  <1>1. /\ <<>> \in Seq(U) /\ <<a>> \in Seq(U) /\ <<b>> \in Seq(U) /\ <<a, b>> \in Seq(U) /\ <<b, a>> \in Seq(U)
        /\ Len(<<a>>) = 1 /\ Len(<<b>>) = 1 /\ Len(<<a, b>>) = 2 /\ Len(<<b, a>>) = 2
    OBVIOUS
  <1>2. <<>> \o <<a, b>> = <<a, b>> /\ <<a, b>> \o <<>> = <<a, b>> BY <1>1, ConcatEmptySeq
  <1>3. ASSUME NEW x \in U, NEW y \in U PROVE <<x>> \o <<y>> = <<x, y>>
    <2>1. <<x>> \in Seq(U) /\ <<y>> \in Seq(U) /\ Len(<<x>>) = 1 /\ Len(<<y>>) = 1 OBVIOUS
    <2>2. <<x>> \o <<y>> = [k \in 1 .. 2 |-> IF k <= 1 THEN <<x>>[k] ELSE <<y>>[k - 1]]
      BY <2>1 DEF \o
    <2>3. \A k \in 1 .. 2 : k = 1 \/ k = 2 OBVIOUS
    <2>4. <<x, y>> = [k \in 1 .. 2 |-> IF k = 1 THEN x ELSE y] OBVIOUS
    <2>5. \A k \in 1 .. 2 : (IF k <= 1 THEN <<x>>[k] ELSE <<y>>[k - 1]) = IF k = 1 THEN x ELSE y BY <2>3
    <2> QED BY <2>2, <2>4, <2>5
  <1> QED BY <1>2, <1>3

LEMMA TwoKept ==
  ASSUME NEW a, NEW b, a.ready \in BOOLEAN, b.ready \in BOOLEAN, NEW f, NEW g
  PROVE  L!C!ListsKept(<<a, b>>, f, g)
  <1> DEFINE list == <<a, b>>
             both(x, y) == L!C!filterClusters(L!C!filterClusters(list, x), y)
             twice(x, y) == Left(a, b, Passes(a, x) /\ Passes(a, y), Passes(b, x) /\ Passes(b, y))
  <1>1. ASSUME NEW x, NEW y PROVE both(x, y) = twice(x, y)
    <2> DEFINE once == L!C!filterClusters(list, x)
    <2>1. once = Left(a, b, Passes(a, x), Passes(b, x)) BY FilterOfTwo
    <2>2. /\ L!C!filterClusters(<<a, b>>, y) = Left(a, b, Passes(a, y), Passes(b, y))
          /\ L!C!filterClusters(<<a>>, y) = IF Passes(a, y) THEN <<a>> ELSE <<>>
          /\ L!C!filterClusters(<<b>>, y) = IF Passes(b, y) THEN <<b>> ELSE <<>>
          /\ L!C!filterClusters(<<>>, y) = <<>>
      BY FilterOfTwo
    <2> HIDE DEF once
    <2>3. CASE Passes(a, x) /\ Passes(b, x)
      <3>1. once = <<a, b>> BY <2>1, <2>3 DEF Left
      <3> QED BY <2>2, <2>3, <3>1 DEF Left, once
    <2>4. CASE Passes(a, x) /\ ~Passes(b, x)
      <3>1. once = <<a>> BY <2>1, <2>4 DEF Left
      <3> QED BY <2>2, <2>4, <3>1 DEF Left, once
    <2>5. CASE ~Passes(a, x) /\ Passes(b, x)
      <3>1. once = <<b>> BY <2>1, <2>5 DEF Left
      <3> QED BY <2>2, <2>5, <3>1 DEF Left, once
    <2>6. CASE ~Passes(a, x) /\ ~Passes(b, x)
      <3>1. once = <<>> BY <2>1, <2>6 DEF Left
      <3> QED BY <2>2, <2>6, <3>1 DEF Left, once
    <2> QED BY <2>3, <2>4, <2>5, <2>6
  <1>2. both(f, g) = both(g, f)
    <2> HIDE DEF both
    <2>1. twice(f, g) = twice(g, f) BY DEF Left
    <2> QED BY <1>1, <2>1
  <1>3. ASSUME NEW down \in BOOLEAN
        PROVE  LET sorted == L!C!sortClusters(list, down)
               IN  Len(sorted) = Len(list) /\ L!C!ToSet(sorted) = L!C!ToSet(list)
    <2> DEFINE sorted == L!C!sortClusters(list, down)
               yes == Left(a, b, a.ready, b.ready)
               no == Left(a, b, ~a.ready, ~b.ready)
    <2>1. sorted = IF down THEN no \o yes ELSE yes \o no
      <3>1. sorted = IF down THEN Waiting(list) \o Readies(list) ELSE Readies(list) \o Waiting(list)
        BY ClustersOnlyAt DEF L!C!sortClusters, L!C!Filtered, Readies, Waiting
      <3>2. Readies(list) = yes /\ Waiting(list) = no
        <4>1. list = <<a, b>> OBVIOUS
        <4> HIDE DEF list
        <4> QED BY <4>1, ReadyOfTwo
      <3> HIDE DEF yes, no, sorted
      <3> QED BY <3>1, <3>2
    <2>2. sorted \in {<<a, b>>, <<b, a>>}
      <3>1. <<>> \o <<a, b>> = <<a, b>> /\ <<a, b>> \o <<>> = <<a, b>>
            /\ <<a>> \o <<b>> = <<a, b>> /\ <<b>> \o <<a>> = <<b, a>>
        BY TwoTogether
      <3> QED BY <2>1, <3>1 DEF Left
    <2>3. \A x, y : Len(<<x, y>>) = 2 /\ L!C!ToSet(<<x, y>>) = {x, y} BY DEF L!C!ToSet
    <2> HIDE DEF sorted
    <2> QED BY <2>2, <2>3 DEF sorted
  <1>4. LET s == L!C!getClusterStatusSummary(list) IN s.total <= s.ready + s.hasIssues
    <2> DEFINE s == L!C!getClusterStatusSummary(list)
    <2>1. s.total = Len(list) /\ s.ready = Len(Readies(list)) /\ s.hasIssues = Len(Issues(list))
      BY ClustersOnlyAt DEF L!C!getClusterStatusSummary, L!C!Filtered, Readies, Issues
    <2>2. /\ s.ready = Len(Left(a, b, a.ready, b.ready))
          /\ s.hasIssues = Len(Left(a, b, L!C!HasIssue(a), L!C!HasIssue(b)))
      <3>1. list = <<a, b>> OBVIOUS
      <3> HIDE DEF list, s
      <3> QED BY <2>1, <3>1, ReadyOfTwo
    <2>3. Len(list) = 2 OBVIOUS
    <2>4. ASSUME NEW p \in BOOLEAN, NEW q \in BOOLEAN
          PROVE  Len(Left(a, b, p, q)) = (IF p THEN 1 ELSE 0) + (IF q THEN 1 ELSE 0)
      <3>1. Len(<<a, b>>) = 2 /\ Len(<<a>>) = 1 /\ Len(<<b>>) = 1 /\ Len(<<>>) = 0 OBVIOUS
      <3> QED BY <3>1 DEF Left
    <2>8. /\ s.ready = (IF a.ready THEN 1 ELSE 0) + (IF b.ready THEN 1 ELSE 0)
          /\ s.hasIssues = (IF L!C!HasIssue(a) THEN 1 ELSE 0) + (IF L!C!HasIssue(b) THEN 1 ELSE 0)
      <3>1. L!C!HasIssue(a) \in BOOLEAN /\ L!C!HasIssue(b) \in BOOLEAN BY DEF L!C!HasIssue
      <3> HIDE DEF s
      <3> QED BY <2>2, <2>4, <3>1
    <2>6. (~a.ready => L!C!HasIssue(a)) /\ (~b.ready => L!C!HasIssue(b)) BY DEF L!C!HasIssue
    <2> HIDE DEF s, list
    <2>7. s.total = 2 BY <2>1, <2>3
    <2>9. s.total <= s.ready + s.hasIssues BY <2>6, <2>7, <2>8
    <2> QED BY <2>9 DEF s
  <1> QED BY <1>2, <1>3, <1>4 DEF L!C!ListsKept

-----------------------------------------------------------------------------
(* What nodes have together *)

\* sums[k] is the sum of the first k amounts.
Sums(sums, amounts, n) ==
  sums[0] = 0 /\ \A k \in 0 .. n - 1 : sums[k + 1] = sums[k] + amounts[k + 1]

LEMMA OverSums ==
  ASSUME NEW n \in Nat, NEW amounts \in [1 .. n -> Int]
  PROVE  \E sums \in [0 .. n -> Int] : Sums(sums, amounts, n) /\ L!C!Over(amounts) = sums[n]
  <1> DEFINE turn == [k \in Nat |-> [a \in Int |-> IF k \in 1 .. n THEN a + amounts[k] ELSE a]]
             Is(iter) == iter = [s \in SUBSET (DOMAIN amounts) |->
                            IF s = {} THEN 0
                            ELSE LET x == L!C!Max(s) IN iter[s \ {x}] + amounts[x]]
             fold == CHOOSE iter : Is(iter)
  <1>1. L!C!Over(amounts) = fold[DOMAIN amounts]
    BY DEF L!C!Over, L!C!FoldLeft, L!C!MapThenFoldSet
  <1>2. turn \in [Nat -> [Int -> Int]]
    OBVIOUS
  <1>3. DOMAIN amounts = 1 .. n /\ 0 \in Int OBVIOUS
  <1>4. \A k \in 1 .. n, a \in Int : turn[k][a] = a + amounts[k]
    OBVIOUS
  <1>5. \A s \in SUBSET (1 .. n) : s # {} => L!C!Max(s) \in s /\ (\A y \in s : y <= L!C!Max(s))
    <2> SUFFICES ASSUME NEW s \in SUBSET (1 .. n), s # {}
                 PROVE  L!C!Max(s) \in s /\ \A y \in s : y <= L!C!Max(s)
      OBVIOUS
    <2>1. \E x \in s : \A y \in s : y <= x BY GreatestFits
    <2>2. \E x \in s : \A y \in s : x >= y BY <2>1
    <2>3. L!C!Max(s) \in s /\ \A y \in s : L!C!Max(s) >= y BY <2>2 DEF L!C!Max
    <2> QED BY <2>3
  <1> HIDE DEF turn
  <1>6. \E iter : Is(iter)
    <2>1. PICK iter \in [SUBSET (1 .. n) -> Int] : Iterates(iter, n, Int, 0, turn)
      BY <1>2, <1>3, FoldExists
    <2>2. ASSUME NEW s \in SUBSET (1 .. n), s # {}
          PROVE  iter[s] = iter[s \ {L!C!Max(s)}] + amounts[L!C!Max(s)]
      <3>1. L!C!Max(s) \in s /\ (\A y \in s : y <= L!C!Max(s)) /\ L!C!Max(s) \in 1 .. n BY <1>5, <2>2
      <3>2. s \ {L!C!Max(s)} \in SUBSET (1 .. n) OBVIOUS
      <3>3. iter[s \ {L!C!Max(s)}] \in Int BY <3>2
      <3>4. iter[s] = turn[L!C!Max(s)][iter[s \ {L!C!Max(s)}]] BY <2>1, <3>1, <3>3 DEF Iterates
      <3> QED BY <1>4, <3>1, <3>3, <3>4
    <2>3. iter[{}] = 0 BY <2>1 DEF Iterates
    <2>4. Is(iter)
      BY <1>3, <2>2, <2>3
    <2> QED BY <2>4
  <1>7. Is(fold) BY <1>6
  <1>8. Iterates(fold, n, Int, 0, turn)
    <2>1. fold[{}] = 0 BY <1>7
    <2>2. ASSUME NEW s \in SUBSET (1 .. n), NEW x \in 1 .. n, x \in s, \A y \in s : y <= x, fold[s \ {x}] \in Int
          PROVE  fold[s] = turn[x][fold[s \ {x}]]
      <3>1. L!C!Max(s) \in s /\ x <= L!C!Max(s) /\ L!C!Max(s) <= x
        <4>1. s # {} /\ x \in s /\ \A y \in s : y <= x BY <2>2
        <4> QED BY <1>5, <4>1
      <3>3. L!C!Max(s) = x
        <4>1. L!C!Max(s) \in 1 .. n BY <3>1
        <4>2. \A y \in 1 .. n : x <= y /\ y <= x => y = x OBVIOUS
        <4> QED BY <3>1, <4>1, <4>2
      <3>2. fold[s] = fold[s \ {x}] + amounts[x] BY <1>3, <1>7, <2>2, <3>3
      <3> QED BY <1>4, <2>2, <3>2
    <2> HIDE DEF fold
    <2> QED BY <2>1, <2>2 DEF Iterates
  <1> HIDE DEF fold
  <1>9. PICK F : FoldsTo(F, n, Int, 0, turn) /\ fold[1 .. n] = F[n]
    <2> DEFINE A == Int
    <2>1. turn \in [Nat -> [A -> A]] /\ 0 \in A /\ Iterates(fold, n, A, 0, turn) BY <1>2, <1>3, <1>8
    <2> HIDE DEF A
    <2>2. \E F : FoldsTo(F, n, A, 0, turn) /\ fold[1 .. n] = F[n] BY <2>1, FoldValue
    <2> QED BY <2>2 DEF A
  <1>10. F \in [0 .. n -> Int] /\ F[0] = 0 BY <1>9 DEF FoldsTo
  <1>11. ASSUME NEW k \in 0 .. n - 1 PROVE F[k + 1] = F[k] + amounts[k + 1]
    <2>1. k \in 0 .. n /\ k + 1 \in 1 .. n OBVIOUS
    <2>2. F[k] \in Int BY <1>10, <2>1
    <2>3. F[k + 1] = turn[k + 1][F[k]] BY <1>9 DEF FoldsTo
    <2> QED BY <1>4, <2>1, <2>2, <2>3
  <1>12. Sums(F, amounts, n) BY <1>10, <1>11 DEF Sums
  <1> QED BY <1>1, <1>3, <1>9, <1>10, <1>12

\* What is free is what there is without what is used.
LEMMA OverDifference ==
  ASSUME NEW n \in Nat, NEW all \in [1 .. n -> Int], NEW used \in [1 .. n -> Int], NEW free \in [1 .. n -> Int],
         \A k \in 1 .. n : free[k] = all[k] - used[k]
  PROVE  /\ L!C!Over(free) = L!C!Over(all) - L!C!Over(used)
         /\ {L!C!Over(free), L!C!Over(all), L!C!Over(used)} \subseteq Int
  <1>1. PICK a \in [0 .. n -> Int] : Sums(a, all, n) /\ L!C!Over(all) = a[n] BY OverSums
  <1>2. PICK u \in [0 .. n -> Int] : Sums(u, used, n) /\ L!C!Over(used) = u[n] BY OverSums
  <1>3. PICK f \in [0 .. n -> Int] : Sums(f, free, n) /\ L!C!Over(free) = f[n] BY OverSums
  <1> DEFINE T == {k \in 0 .. n : f[k] = a[k] - u[k]}
  <1>4. 0 \in T BY <1>1, <1>2, <1>3 DEF Sums
  <1>5. ASSUME NEW k \in 0 .. n - 1, k \in T PROVE k + 1 \in T
    <2>1. k \in 0 .. n /\ k + 1 \in 0 .. n /\ k + 1 \in 1 .. n OBVIOUS
    <2>2. /\ a[k] \in Int /\ u[k] \in Int /\ f[k] = a[k] - u[k]
          /\ all[k + 1] \in Int /\ used[k + 1] \in Int /\ free[k + 1] = all[k + 1] - used[k + 1]
      BY <1>5, <2>1
    <2>3. a[k + 1] = a[k] + all[k + 1] /\ u[k + 1] = u[k] + used[k + 1] /\ f[k + 1] = f[k] + free[k + 1]
      BY <1>1, <1>2, <1>3 DEF Sums
    <2>4. f[k + 1] = a[k + 1] - u[k + 1] BY <2>2, <2>3
    <2> QED BY <2>1, <2>4
  <1>6. 0 .. n \subseteq T
    <2> HIDE DEF T
    <2> QED BY <1>4, <1>5, UpTo
  <1>7. n \in 0 .. n OBVIOUS
  <1>8. f[n] = a[n] - u[n] BY <1>6, <1>7
  <1>9. f[n] \in Int /\ a[n] \in Int /\ u[n] \in Int BY <1>7
  <1> QED BY <1>1, <1>2, <1>3, <1>8, <1>9

\* Rounding loses less than a unit.
LEMMA CpuRounded ==
  ASSUME NEW all \in Int, NEW used \in Int, NEW need \in Int,
         L!C!Rounded(all, 100) - L!C!Rounded(used, 100) >= 10 * need
  PROVE  all - used + 100 >= 1000 * need
  <1>1. L!C!Rounded(all, 100) = (all + 50) \div 100 /\ L!C!Rounded(used, 100) = (used + 50) \div 100
    BY DEF L!C!Rounded
  <1> QED BY <1>1

LEMMA MemoryRounded ==
  ASSUME NEW all \in Int, NEW used \in Int, NEW need \in Int,
         L!C!Rounded(all, 1024) - L!C!Rounded(used, 1024) >= need
  PROVE  all - used + 1024 >= 1024 * need
  <1>1. L!C!Rounded(all, 1024) = (all + 512) \div 1024 /\ L!C!Rounded(used, 1024) = (used + 512) \div 1024
    BY DEF L!C!Rounded
  <1> QED BY <1>1

\* Quantities are read as numbers.
LEMMA QuantitiesRead ==
  ASSUME NEW q \in [amount : Nat, unit : STRING]
  PROVE  L!C!CpuTotal(q) \in Nat /\ L!C!CpuUsed(q) \in Nat /\ L!C!parseK8sMemory(q) \in Nat
  <1>1. q.amount \in Nat OBVIOUS
  <1>2. q.amount \div 1024 \in Nat BY <1>1
  <1>3. L!C!parseK8sMemory(q) \in Nat
    <2>1. DOMAIN L!C!MiPer = {"Gi", "Mi", "G", "M"} /\ \A u \in DOMAIN L!C!MiPer : L!C!MiPer[u] \in {1024, 1}
      BY DEF L!C!MiPer
    <2> QED BY <1>1, <1>2, <2>1 DEF L!C!parseK8sMemory
  <1> QED BY <1>1, <1>3 DEF L!C!CpuTotal, L!C!CpuUsed

NodesTyped(nodes, n) == nodes = [k \in 1 .. n |-> nodes[k]] /\ \A k \in 1 .. n : L!NodeTyped(nodes[k])

\* What a summary adds up, node by node.
CpuThere(nodes) == [k \in DOMAIN nodes |-> L!C!CpuTotal(L!C!ResourceData(nodes[k]).cpu)]
CpuTaken(nodes) == [k \in DOMAIN nodes |-> IF nodes[k].usage = None THEN 0 ELSE L!C!CpuUsed(nodes[k].usage.cpu)]
MemoryThere(nodes) == [k \in DOMAIN nodes |-> L!C!parseK8sMemory(L!C!ResourceData(nodes[k]).memory)]
MemoryTaken(nodes) ==
  [k \in DOMAIN nodes |-> IF nodes[k].usage = None THEN 0 ELSE L!C!parseK8sMemory(nodes[k].usage.memory)]

LEMMA NodesRead ==
  ASSUME NEW n \in Nat, NEW nodes, NodesTyped(nodes, n)
  PROVE  /\ CpuThere(nodes) \in [1 .. n -> Int] /\ CpuTaken(nodes) \in [1 .. n -> Int]
         /\ MemoryThere(nodes) \in [1 .. n -> Int] /\ MemoryTaken(nodes) \in [1 .. n -> Int]
  <1>1. DOMAIN nodes = 1 .. n BY DEF NodesTyped
  <1>2. ASSUME NEW k \in 1 .. n
        PROVE  /\ L!C!CpuTotal(L!C!ResourceData(nodes[k]).cpu) \in Int
               /\ L!C!parseK8sMemory(L!C!ResourceData(nodes[k]).memory) \in Int
               /\ nodes[k].usage # None => /\ L!C!CpuUsed(nodes[k].usage.cpu) \in Int
                                           /\ L!C!parseK8sMemory(nodes[k].usage.memory) \in Int
    <2>1. /\ L!C!ResourceData(nodes[k]) \in L!Quantities
          /\ nodes[k].usage # None => nodes[k].usage \in L!Quantities
      BY DEF NodesTyped, L!NodeTyped, L!C!ResourceData
    <2>2. ASSUME NEW q \in L!Quantities
          PROVE  L!C!CpuTotal(q.cpu) \in Int /\ L!C!CpuUsed(q.cpu) \in Int /\ L!C!parseK8sMemory(q.memory) \in Int
      <3>1. q.cpu \in [amount : Nat, unit : STRING] /\ q.memory \in [amount : Nat, unit : STRING]
        BY DEF L!Quantities
      <3> QED BY <3>1, QuantitiesRead
    <2> QED BY <2>1, <2>2
  <1> QED BY <1>1, <1>2 DEF CpuThere, CpuTaken, MemoryThere, MemoryTaken

\* What the law says is free of a node.
Milli(q) == q.amount * (IF q.unit = "" THEN 1000 ELSE 1)
Mi(q) == IF q.unit = "Ti" THEN q.amount * 1048576 ELSE L!C!parseK8sMemory(q)
CpuFree(x) == Milli(L!C!ResourceData(x).cpu) - (IF x.usage = None THEN 0 ELSE Milli(x.usage.cpu))
MemoryFree(x) == Mi(L!C!ResourceData(x).memory) - (IF x.usage = None THEN 0 ELSE Mi(x.usage.memory))

\* The same as the code reads, when the units are those it knows.
LEMMA QuantitiesMeant ==
  ASSUME NEW q
  PROVE  /\ q.unit = "" => Milli(q) = L!C!CpuTotal(q)
         /\ q.unit = "n" /\ q.amount \in Nat => Milli(q) = L!C!CpuUsed(q)
         /\ q.unit \in {"Ki", "Mi", "Gi"} => Mi(q) = L!C!parseK8sMemory(q)
  <1>1. ASSUME q.unit = "" PROVE Milli(q) = L!C!CpuTotal(q)
    <2>1. Milli(q) = q.amount * 1000 BY <1>1 DEF Milli
    <2> QED BY <2>1 DEF L!C!CpuTotal
  <1>2. ASSUME q.unit = "n", q.amount \in Nat PROVE Milli(q) = L!C!CpuUsed(q)
    <2>1. q.unit # "" BY <1>2
    <2>2. Milli(q) = q.amount * 1 BY <2>1 DEF Milli
    <2>3. q.amount * 1 = q.amount BY <1>2
    <2> QED BY <1>2, <2>2, <2>3 DEF L!C!CpuUsed
  <1>3. ASSUME q.unit \in {"Ki", "Mi", "Gi"} PROVE Mi(q) = L!C!parseK8sMemory(q)
    <2>1. q.unit # "Ti" BY <1>3
    <2> QED BY <2>1, SMT DEF Mi
  <1> QED BY <1>1, <1>2, <1>3

LEMMA FreeIs ==
  ASSUME NEW n \in Nat, NEW nodes, NodesTyped(nodes, n), \A k \in 1 .. n : L!C!Exact(nodes[k])
  PROVE  /\ L!C!Free(nodes).cpu = L!C!Over(CpuThere(nodes)) - L!C!Over(CpuTaken(nodes))
         /\ L!C!Free(nodes).memory = L!C!Over(MemoryThere(nodes)) - L!C!Over(MemoryTaken(nodes))
         /\ {L!C!Over(CpuThere(nodes)), L!C!Over(CpuTaken(nodes))} \subseteq Int
         /\ {L!C!Over(MemoryThere(nodes)), L!C!Over(MemoryTaken(nodes))} \subseteq Int
  <1> DEFINE cpus == [k \in DOMAIN nodes |-> CpuFree(nodes[k])]
             memories == [k \in DOMAIN nodes |-> MemoryFree(nodes[k])]
  <1>1. L!C!Free(nodes).cpu = L!C!Over(cpus) /\ L!C!Free(nodes).memory = L!C!Over(memories)
    BY SMT DEF L!C!Free, CpuFree, MemoryFree, Milli, Mi
  <1>2. DOMAIN nodes = 1 .. n BY DEF NodesTyped
  <1>3. ASSUME NEW k \in 1 .. n
        PROVE  /\ CpuFree(nodes[k]) = CpuThere(nodes)[k] - CpuTaken(nodes)[k]
               /\ MemoryFree(nodes[k]) = MemoryThere(nodes)[k] - MemoryTaken(nodes)[k]
    <2> DEFINE data == L!C!ResourceData(nodes[k])
               usage == nodes[k].usage
    <2>1. data \in L!Quantities /\ (usage # None => usage \in L!Quantities)
      BY DEF NodesTyped, L!NodeTyped, L!C!ResourceData
    <2>2. /\ data.cpu.unit = "" /\ data.memory.unit \in {"Ki", "Mi", "Gi"}
          /\ usage # None => usage.cpu.unit = "n" /\ usage.memory.unit \in {"Ki", "Mi", "Gi"}
      BY DEF L!C!Exact
    <2>3. /\ CpuThere(nodes)[k] = L!C!CpuTotal(data.cpu) /\ MemoryThere(nodes)[k] = L!C!parseK8sMemory(data.memory)
          /\ CpuTaken(nodes)[k] = IF usage = None THEN 0 ELSE L!C!CpuUsed(usage.cpu)
          /\ MemoryTaken(nodes)[k] = IF usage = None THEN 0 ELSE L!C!parseK8sMemory(usage.memory)
      BY <1>2 DEF CpuThere, CpuTaken, MemoryThere, MemoryTaken
    <2> HIDE DEF data, usage
    <2>4. Milli(data.cpu) = L!C!CpuTotal(data.cpu) /\ Mi(data.memory) = L!C!parseK8sMemory(data.memory)
      BY <2>2, QuantitiesMeant
    <2>5. usage # None => Milli(usage.cpu) = L!C!CpuUsed(usage.cpu) /\ Mi(usage.memory) = L!C!parseK8sMemory(usage.memory)
      <3>1. ASSUME usage # None PROVE usage.cpu.amount \in Nat BY <2>1, <3>1 DEF L!Quantities
      <3> QED BY <2>2, <3>1, QuantitiesMeant
    <2>6. /\ CpuFree(nodes[k]) = Milli(data.cpu) - (IF usage = None THEN 0 ELSE Milli(usage.cpu))
          /\ MemoryFree(nodes[k]) = Mi(data.memory) - (IF usage = None THEN 0 ELSE Mi(usage.memory))
      BY DEF data, usage, CpuFree, MemoryFree
    <2> QED BY <2>3, <2>4, <2>5, <2>6
  <1>4. /\ CpuThere(nodes) \in [1 .. n -> Int] /\ CpuTaken(nodes) \in [1 .. n -> Int]
        /\ MemoryThere(nodes) \in [1 .. n -> Int] /\ MemoryTaken(nodes) \in [1 .. n -> Int]
    BY NodesRead
  <1>5. \A k \in 1 .. n : /\ CpuThere(nodes)[k] \in Int /\ CpuTaken(nodes)[k] \in Int
                          /\ MemoryThere(nodes)[k] \in Int /\ MemoryTaken(nodes)[k] \in Int
    BY <1>4
  <1>6. /\ cpus \in [1 .. n -> Int] /\ \A k \in 1 .. n : cpus[k] = CpuThere(nodes)[k] - CpuTaken(nodes)[k]
        /\ memories \in [1 .. n -> Int] /\ \A k \in 1 .. n : memories[k] = MemoryThere(nodes)[k] - MemoryTaken(nodes)[k]
    <2>1. \A k \in 1 .. n : cpus[k] = CpuFree(nodes[k]) /\ memories[k] = MemoryFree(nodes[k]) BY <1>2
    <2>2. cpus = [k \in 1 .. n |-> cpus[k]] /\ memories = [k \in 1 .. n |-> memories[k]] BY <1>2
    <2> HIDE DEF cpus, memories
    <2>3. ASSUME NEW k \in 1 .. n
          PROVE  /\ cpus[k] = CpuThere(nodes)[k] - CpuTaken(nodes)[k] /\ cpus[k] \in Int
                 /\ memories[k] = MemoryThere(nodes)[k] - MemoryTaken(nodes)[k] /\ memories[k] \in Int
      BY <1>3, <1>5, <2>1
    <2> QED BY <2>2, <2>3
  <1> DEFINE cpuThere == CpuThere(nodes)
             cpuTaken == CpuTaken(nodes)
             memoryThere == MemoryThere(nodes)
             memoryTaken == MemoryTaken(nodes)
  <1>a. /\ cpuThere \in [1 .. n -> Int] /\ cpuTaken \in [1 .. n -> Int] /\ cpus \in [1 .. n -> Int]
        /\ \A k \in 1 .. n : cpus[k] = cpuThere[k] - cpuTaken[k]
    BY <1>4, <1>6
  <1>b. /\ memoryThere \in [1 .. n -> Int] /\ memoryTaken \in [1 .. n -> Int] /\ memories \in [1 .. n -> Int]
        /\ \A k \in 1 .. n : memories[k] = memoryThere[k] - memoryTaken[k]
    BY <1>4, <1>6
  <1> HIDE DEF cpus, memories, cpuThere, cpuTaken, memoryThere, memoryTaken
  <1>7. /\ L!C!Over(cpus) = L!C!Over(cpuThere) - L!C!Over(cpuTaken)
        /\ {L!C!Over(cpus), L!C!Over(cpuThere), L!C!Over(cpuTaken)} \subseteq Int
    BY <1>a, OverDifference
  <1>8. /\ L!C!Over(memories) = L!C!Over(memoryThere) - L!C!Over(memoryTaken)
        /\ {L!C!Over(memories), L!C!Over(memoryThere), L!C!Over(memoryTaken)} \subseteq Int
    BY <1>b, OverDifference
  <1> QED BY <1>1, <1>7, <1>8 DEF cpuThere, cpuTaken, memoryThere, memoryTaken

LEMMA NodesFit ==
  ASSUME NEW n \in Nat, NEW nodes, NodesTyped(nodes, n), NEW classes, NEW slug
  PROVE  L!C!CompatibleFits(nodes, classes, slug)
  <1> DEFINE needs == L!C!AppRequirements(slug)
             has == L!C!getClusterResourceMetrics(nodes, classes)
             status == L!C!checkAppCompatibility(needs, slug \notin L!C!Known, has)
  <1> SUFFICES ASSUME status \in {"compatible", "limited"}, \A k \in DOMAIN nodes : L!C!Exact(nodes[k])
               PROVE  /\ L!C!Free(nodes).cpu + 100 >= 1000 * needs.cpu
                      /\ L!C!Free(nodes).memory + 1024 >= 1024 * needs.memory
                      /\ needs.storage > 0 => classes
    BY DEF L!C!CompatibleFits
  <1>1. DOMAIN nodes = 1 .. n BY DEF NodesTyped
  <1>2. needs.cpu \in Nat /\ needs.memory \in Nat
    <2>1. \A x \in DOMAIN L!C!APP_RESOURCE_PROFILES : /\ L!C!APP_RESOURCE_PROFILES[x].cpu \in Nat
                                                     /\ L!C!APP_RESOURCE_PROFILES[x].memory \in Nat
      BY DEF L!C!APP_RESOURCE_PROFILES
    <2> QED BY <2>1 DEF L!C!AppRequirements, L!C!Known, L!C!getDefaultAppResourceRequirements
  <1>3. has.status # "error" /\ L!C!Unmet(needs, has) = {}
    <2> HIDE DEF needs, has
    <2> QED BY DEF L!C!checkAppCompatibility
  <1>4. nodes # <<>>
    BY <1>3 DEF L!C!getClusterResourceMetrics, L!C!ErrorSummary
  <1> DEFINE cpu == L!C!Over(CpuThere(nodes))
             usedCpu == L!C!Over(CpuTaken(nodes))
             memory == L!C!Over(MemoryThere(nodes))
             usedMemory == L!C!Over(MemoryTaken(nodes))
  <1>5. /\ has.cpu.total = L!C!Rounded(cpu, 100) /\ has.cpu.used = L!C!Rounded(usedCpu, 100)
        /\ has.memory.total = L!C!Rounded(memory, 1024) /\ has.memory.used = L!C!Rounded(usedMemory, 1024)
        /\ has.classes = classes
    BY <1>4 DEF L!C!getClusterResourceMetrics, CpuThere, CpuTaken, MemoryThere, MemoryTaken
  <1>6. /\ L!C!Free(nodes).cpu = cpu - usedCpu /\ L!C!Free(nodes).memory = memory - usedMemory
        /\ {cpu, usedCpu} \subseteq Int /\ {memory, usedMemory} \subseteq Int
    BY <1>1, FreeIs
  <1> HIDE DEF needs, has, cpu, usedCpu, memory, usedMemory
  <1>7. /\ ~(has.cpu.total - has.cpu.used < 10 * needs.cpu)
        /\ ~(has.memory.total - has.memory.used < needs.memory)
        /\ ~(needs.storage > 0 /\ ~has.classes)
    BY <1>3 DEF L!C!Unmet
  <1>8. \A x \in Int : L!C!Rounded(x, 100) \in Int /\ L!C!Rounded(x, 1024) \in Int
    BY DEF L!C!Rounded
  <1>9. /\ L!C!Rounded(cpu, 100) - L!C!Rounded(usedCpu, 100) >= 10 * needs.cpu
        /\ L!C!Rounded(memory, 1024) - L!C!Rounded(usedMemory, 1024) >= needs.memory
    BY <1>2, <1>5, <1>6, <1>7, <1>8
  <1> DEFINE needCpu == needs.cpu
             needMemory == needs.memory
  <1>a. cpu \in Int /\ usedCpu \in Int /\ needCpu \in Int /\ memory \in Int /\ usedMemory \in Int /\ needMemory \in Int
    BY <1>2, <1>6
  <1>b. /\ L!C!Rounded(cpu, 100) - L!C!Rounded(usedCpu, 100) >= 10 * needCpu
        /\ L!C!Rounded(memory, 1024) - L!C!Rounded(usedMemory, 1024) >= needMemory
    BY <1>9
  <1> HIDE DEF needCpu, needMemory
  <1>10. cpu - usedCpu + 100 >= 1000 * needCpu
    BY <1>a, <1>b, CpuRounded
  <1>11. memory - usedMemory + 1024 >= 1024 * needMemory
    <2>1. L!C!Rounded(memory, 1024) - L!C!Rounded(usedMemory, 1024) >= needMemory BY <1>b
    <2> QED BY <1>a, <2>1, MemoryRounded
  <1> QED BY <1>5, <1>6, <1>7, <1>10, <1>11 DEF needCpu, needMemory

-----------------------------------------------------------------------------
(* Namespaces on offer *)

LEMMA NamespacesOffered ==
  ASSUME NEW failed, NEW clusters, NEW system, NEW own, NEW install, NEW chosen
  PROVE  L!W!NamespacesFit([failed |-> failed], clusters, system, own, install, chosen)
  <1> DEFINE form == [failed |-> failed]
             shown == L!W!Mounted(form, clusters, system, own, install, chosen)
             names == UNION (clusters \ {None})
             all == (names \ system) \cup {own}
  <1>1. CASE failed \/ clusters = None
    <2>1. shown.options = {} /\ (failed => shown.banner)
      BY <1>1 DEF L!W!Mounted, L!W!fetchAllNamespaces
    <2> HIDE DEF shown
    <2> QED BY <1>1, <2>1 DEF L!W!NamespacesFit, shown
  <1>2. CASE ~failed /\ clusters # None
    <2>1. shown.options = all /\ shown.namespace = IF install THEN own ELSE chosen
      BY <1>2 DEF L!W!Mounted, L!W!fetchAllNamespaces
    <2> HIDE DEF names, shown
    <2>2. own \in all /\ all # {} OBVIOUS
    <2>4. \A x \in all : x \in system => x = own OBVIOUS
    <2>5. all \cap system \subseteq {own} BY <2>4
    <2>3. ASSUME shown.namespace \notin all
          PROVE  ~install /\ (chosen \in system \/ \A some \in clusters \ {None} : chosen \notin some)
      <3>1. ~install /\ shown.namespace = chosen BY <2>1, <2>2, <2>3
      <3>2. chosen \in system \/ chosen \notin names BY <2>3, <3>1
      <3> QED BY <3>1, <3>2 DEF names
    <2> HIDE DEF all
    <2> QED BY <2>1, <2>2, <2>3, <2>5 DEF L!W!NamespacesFit, shown
  <1> QED BY <1>1, <1>2

-----------------------------------------------------------------------------
(* The installed release *)

\* None is as high as the one at this place.
Highest(list, n) == \A m \in DOMAIN list : list[m].revision <= list[n].revision

LEMMA ReleaseFound ==
  ASSUME NEW k \in Nat, NEW list, list = [n \in 1 .. k |-> list[n]],
         L!W!findHelmReleaseObjects(list) # None
  PROVE  \E n \in 1 .. k : /\ L!W!findHelmReleaseObjects(list) = list[n]
                           /\ list[n].release # None /\ Highest(list, n)
  <1> DEFINE found == {n \in DOMAIN list : Highest(list, n)}
             n == IF found = {} THEN 0 ELSE L!W!Least(found)
  <1>1. L!W!findHelmReleaseObjects(list) = IF n = 0 \/ list[n].release = None THEN None ELSE list[n]
    BY DEF L!W!findHelmReleaseObjects, L!W!FirstOf, Highest
  <1>2. DOMAIN list = 1 .. k OBVIOUS
  <1>3. n # 0 /\ list[n].release # None /\ L!W!findHelmReleaseObjects(list) = list[n] BY <1>1
  <1>4. found # {} BY <1>3
  <1>5. found \in SUBSET Nat BY <1>2
  <1>6. L!W!Least(found) \in found BY <1>4, <1>5, WizardLeast
  <1>7. n \in found BY <1>4, <1>6
  <1> QED BY <1>2, <1>3, <1>7

\* What the merge keeps of the defaults.
KeptOf(target, source) ==
  {p \in DOMAIN target \ DOMAIN source : \A q \in DOMAIN source : ~L!W!Crosses(p, q)}

LEMMA Merging ==
  ASSUME NEW target, NEW source, L!ValuesTyped(target), L!ValuesTyped(source)
  PROVE  LET shown == L!W!deepMerge(target, source)
         IN  /\ \A p \in DOMAIN source : shown[p] = source[p]
             /\ \A p, q \in DOMAIN shown : ~L!W!Crosses(p, q)
             /\ L!W!deepMerge(shown, source) = shown
             /\ \A p \in DOMAIN target : p \notin DOMAIN shown => \E q \in DOMAIN source : L!W!Crosses(p, q)
  <1> DEFINE shown == L!W!deepMerge(target, source)
             kept == KeptOf(target, source)
             domain == kept \cup DOMAIN source
  <1>1. shown = [p \in domain |-> IF p \in DOMAIN source THEN source[p] ELSE target[p]]
    BY DEF L!W!deepMerge, KeptOf
  <1>2. DOMAIN shown = domain /\ \A p \in domain : shown[p] = IF p \in DOMAIN source THEN source[p] ELSE target[p]
    BY <1>1
  <1>3. \A p, q : L!W!Crosses(p, q) => L!W!Crosses(q, p)
    BY DEF L!W!Crosses
  <1>4. /\ \A p \in kept : p \in DOMAIN target /\ p \notin DOMAIN source
        /\ \A p \in kept, q \in DOMAIN source : ~L!W!Crosses(p, q)
        /\ \A p \in DOMAIN target : p \notin kept /\ p \notin DOMAIN source => \E q \in DOMAIN source : L!W!Crosses(p, q)
    BY DEF KeptOf
  <1>5. /\ \A p, q \in DOMAIN target : ~L!W!Crosses(p, q)
        /\ \A p, q \in DOMAIN source : ~L!W!Crosses(p, q)
    BY DEF L!ValuesTyped
  <1>6. \A p, q \in domain : ~L!W!Crosses(p, q)
    BY <1>3, <1>4, <1>5
  <1>7. L!W!deepMerge(shown, source) = [p \in KeptOf(shown, source) \cup DOMAIN source |->
                                          IF p \in DOMAIN source THEN source[p] ELSE shown[p]]
    BY DEF L!W!deepMerge, KeptOf
  <1> HIDE DEF shown
  <1>8. KeptOf(shown, source) = kept
    <2>1. KeptOf(shown, source) = {p \in domain \ DOMAIN source : \A q \in DOMAIN source : ~L!W!Crosses(p, q)}
      BY <1>2 DEF KeptOf
    <2> QED BY <1>4, <2>1
  <1> HIDE DEF kept
  <1>9. L!W!deepMerge(shown, source) = shown
    <2>1. L!W!deepMerge(shown, source) = [p \in domain |-> IF p \in DOMAIN source THEN source[p] ELSE shown[p]]
      BY <1>7, <1>8
    <2>2. shown = [p \in domain |-> shown[p]] BY <1>1, <1>2
    <2>3. \A p \in domain : (IF p \in DOMAIN source THEN source[p] ELSE shown[p]) = shown[p] BY <1>2
    <2> HIDE DEF domain
    <2> QED BY <2>1, <2>2, <2>3
  <1> QED BY <1>2, <1>4, <1>6, <1>9 DEF shown

LEMMA DetailsShown ==
  ASSUME NEW k \in Nat, NEW list, list = [n \in 1 .. k |-> list[n]], L!SecretsTyped(list)
  PROVE  L!W!DetailsFit(list)
  <1> DEFINE secret == L!W!findHelmReleaseObjects(list)
             user == secret.release.user
             shown == L!W!getInstalledHelmDetails(list, None).values
  <1> SUFFICES ASSUME secret # None
               PROVE  /\ secret.kin => \A n \in DOMAIN list : ~list[n].kin => list[n].revision <= secret.revision
                      /\ \A p \in DOMAIN user : shown[p] = user[p]
                      /\ \A p, q \in DOMAIN shown : ~L!W!Crosses(p, q)
                      /\ L!W!deepMerge(shown, user) = shown
                      /\ \A p \in DOMAIN secret.release.defaults :
                            p \notin DOMAIN shown => \E q \in DOMAIN user : L!W!Crosses(p, q)
    BY DEF L!W!DetailsFit
  <1>1. PICK n \in 1 .. k : secret = list[n] /\ list[n].release # None /\ Highest(list, n)
    BY ReleaseFound
  <1>2. L!ValuesTyped(secret.release.defaults) /\ L!ValuesTyped(secret.release.user)
    BY <1>1 DEF L!SecretsTyped
  <1>3. shown = L!W!deepMerge(secret.release.defaults, secret.release.user)
    BY DEF L!W!getInstalledHelmDetails
  <1>4. \A m \in DOMAIN list : list[m].revision <= secret.revision
    BY <1>1 DEF Highest
  <1> HIDE DEF secret, shown
  <1>5. /\ \A p \in DOMAIN user : shown[p] = user[p]
        /\ \A p, q \in DOMAIN shown : ~L!W!Crosses(p, q)
        /\ L!W!deepMerge(shown, user) = shown
        /\ \A p \in DOMAIN secret.release.defaults :
              p \notin DOMAIN shown => \E q \in DOMAIN user : L!W!Crosses(p, q)
    BY <1>2, <1>3, Merging
  <1> QED BY <1>4, <1>5

-----------------------------------------------------------------------------
(* The sources of a chart's files *)

OneOf(a, b, c, otherwise) ==
  IF a # None THEN a ELSE IF b # None THEN b ELSE IF c # None THEN c ELSE otherwise

LEMMA FirstAnswer ==
  ASSUME NEW a, NEW b, NEW c, NEW otherwise
  PROVE  L!W!FirstFound(<<a, b, c>>, otherwise) = OneOf(a, b, c, otherwise)
  <1> DEFINE list == <<a, b, c>>
             found == {n \in DOMAIN list : list[n] # None}
             n == IF found = {} THEN 0 ELSE L!W!Least(found)
             answer == L!W!FirstFound(list, otherwise)
  <1>1. answer = IF n = 0 THEN otherwise ELSE list[n]
    BY DEF L!W!FirstFound, L!W!FirstOf
  <1>2. list[1] = a /\ list[2] = b /\ list[3] = c /\ DOMAIN list = {1, 2, 3} OBVIOUS
  <1>3. found \in SUBSET Nat /\ found \subseteq {1, 2, 3} BY <1>2
  <1>4. (1 \in found <=> a # None) /\ (2 \in found <=> b # None) /\ (3 \in found <=> c # None) BY <1>2
  <1>5. found # {} => L!W!Least(found) \in found /\ \A m \in found : L!W!Least(found) <= m BY <1>3, WizardLeast
  <1>6. answer = OneOf(a, b, c, otherwise)
    <2> HIDE DEF list, found, answer, n
    <2>1. CASE a # None
      <3>1. n = 1
        <4>1. 1 \in found BY <1>4, <2>1
        <4>2. L!W!Least(found) \in {1, 2, 3} /\ L!W!Least(found) <= 1 BY <1>3, <1>5, <4>1
        <4> QED BY <4>1, <4>2 DEF n
      <3> QED BY <1>1, <1>2, <2>1, <3>1 DEF OneOf
    <2>2. CASE a = None /\ b # None
      <3>1. n = 2
        <4>1. 2 \in found /\ 1 \notin found BY <1>4, <2>2
        <4>2. L!W!Least(found) \in {2, 3} /\ L!W!Least(found) <= 2 BY <1>3, <1>5, <4>1
        <4> QED BY <4>1, <4>2 DEF n
      <3> QED BY <1>1, <1>2, <2>2, <3>1 DEF OneOf
    <2>3. CASE a = None /\ b = None /\ c # None
      <3>1. n = 3 BY <1>3, <1>4, <1>5, <2>3 DEF n
      <3> QED BY <1>1, <1>2, <2>3, <3>1 DEF OneOf
    <2>4. CASE a = None /\ b = None /\ c = None
      <3>1. n = 0 BY <1>3, <1>4, <2>4 DEF n
      <3> QED BY <1>1, <2>4, <3>1 DEF OneOf
    <2> QED BY <2>1, <2>2, <2>3, <2>4
  <1> QED BY <1>6

LEMMA FilesListed ==
  ASSUME NEW list \in Seq(L!Listings), None \notin {"chart", "subchart"}
  PROVE  /\ L!W!FirstFile(list) \in {None, "chart", "subchart"}
         /\ L!W!FirstFile(list) # None => list # <<>> /\ L!W!FirstFile(list) = list[1].of
         /\ L!W!FirstFile(list) # None => L!W!SomeFile(list) # None
  <1>1. \A n \in DOMAIN list : list[n].of \in {"chart", "subchart"}
    <2>1. \A n \in DOMAIN list : list[n] \in L!Listings OBVIOUS
    <2> QED BY <2>1 DEF L!Listings
  <1>2. list # <<>> => 1 \in DOMAIN list OBVIOUS
  <1>3. /\ L!W!FirstFile(list) \in {None, "chart", "subchart"}
        /\ L!W!FirstFile(list) # None => list # <<>> /\ list[1].text /\ L!W!FirstFile(list) = list[1].of
    BY <1>1, <1>2 DEF L!W!FirstFile
  <1>4. ASSUME L!W!FirstFile(list) # None PROVE L!W!SomeFile(list) # None
    <2> DEFINE found == {n \in DOMAIN list : list[n].text}
               n == IF found = {} THEN 0 ELSE L!W!Least(found)
    <2>1. L!W!SomeFile(list) = IF n = 0 THEN None ELSE list[n].of
      BY DEF L!W!SomeFile, L!W!FirstOf
    <2>2. 1 \in found BY <1>2, <1>3, <1>4
    <2>3. found \in SUBSET Nat OBVIOUS
    <2>4. n \in found BY <2>2, <2>3, WizardLeast
    <2>5. n # 0 /\ n \in DOMAIN list BY <2>4
    <2> HIDE DEF n
    <2> QED BY <1>1, <2>1, <2>5
  <1> QED BY <1>3, <1>4

LEMMA SourcesFound ==
  ASSUME NEW files \in Seq(L!Listings), NEW archive \in Seq(L!Listings), NEW file, None \notin {"chart", "subchart"}
  PROVE  L!W!SourcesFit(files, file, archive)
  <1> DEFINE a == L!W!FirstFile(files)
             b == IF file THEN "chart" ELSE None
             c == L!W!FirstFile(archive)
             s == L!W!SomeFile(files)
             values == L!W!getDefaultValues(files, file, archive)
             yaml == L!W!fetchChartYaml(files, file, archive)
  <1>1. values = OneOf(a, b, c, "template")
    <2>1. values = L!W!FirstFound(<<a, b, c>>, "template") BY DEF L!W!getDefaultValues
    <2> HIDE DEF a, b, c, values
    <2> QED BY <2>1, FirstAnswer
  <1>2. yaml = OneOf(s, b, c, None)
    <2>1. yaml = L!W!FirstFound(<<s, b, c>>, None) BY DEF L!W!fetchChartYaml
    <2> HIDE DEF s, b, c, yaml
    <2> QED BY <2>1, FirstAnswer
  <1>3. /\ a \in {None, "chart", "subchart"} /\ (a # None => files # <<>> /\ a = files[1].of /\ s # None)
        /\ c \in {None, "chart", "subchart"} /\ (c # None => archive # <<>> /\ c = archive[1].of)
    BY FilesListed
  <1>4. b # None <=> file OBVIOUS
  <1>5. b \in {None, "chart"} OBVIOUS
  <1> HIDE DEF a, b, c, s, values, yaml
  <1>6. values # "template" => yaml # None
    BY <1>1, <1>2, <1>3 DEF OneOf
  <1>7. values = "template" => ~file /\ a = None /\ c = None
    BY <1>1, <1>3, <1>4, <1>5 DEF OneOf
  <1>8. (files # <<>> => files[1].of = "chart") /\ (archive # <<>> => archive[1].of = "chart") =>
            values \in {"chart", "template"}
    BY <1>1, <1>3, <1>5 DEF OneOf
  <1> QED BY <1>6, <1>7, <1>8 DEF L!W!SourcesFit, a, c, values, yaml

-----------------------------------------------------------------------------
(* The category of a chart *)

\* The first of the categories that words has, or 10.
CategoryAt(words) == IF {n \in 1 .. 9 : L!W!Categories[n] \in words} = {} THEN 10
                ELSE L!W!Least({n \in 1 .. 9 : L!W!Categories[n] \in words})

LEMMA CategoriesApart ==
  /\ DOMAIN L!W!Categories = 1 .. 9
  /\ \A m, n \in 1 .. 9 : L!W!Categories[m] = L!W!Categories[n] => m = n
  /\ \A n \in 1 .. 9 : L!W!Categories[n] # "other"
  BY DEF L!W!Categories

LEMMA CategoryPlace ==
  ASSUME NEW words, NEW n, n = L!W!FirstOf(L!W!Categories, LAMBDA c : c = L!W!categorizeChart(words))
  PROVE  (IF n = 0 THEN 10 ELSE n) = CategoryAt(words)
  <1> DEFINE has == {m \in 1 .. 9 : L!W!Categories[m] \in words}
             first == IF has = {} THEN 0 ELSE L!W!Least(has)
             category == L!W!categorizeChart(words)
             same == {m \in 1 .. 9 : L!W!Categories[m] = category}
  <1>1. category = IF first = 0 THEN "other" ELSE L!W!Categories[first]
    BY CategoriesApart DEF L!W!categorizeChart, L!W!FirstOf
  <1>2. n = IF same = {} THEN 0 ELSE L!W!Least(same)
    BY CategoriesApart DEF L!W!FirstOf
  <1>3. CASE has = {}
    <2>1. category = "other" BY <1>1, <1>3
    <2>2. same = {} BY <2>1, CategoriesApart
    <2> QED BY <1>2, <1>3, <2>2 DEF CategoryAt
  <1>4. CASE has # {}
    <2>1. has \in SUBSET Nat OBVIOUS
    <2>2. first \in has /\ first = L!W!Least(has) BY <1>4, <2>1, WizardLeast
    <2> HIDE DEF first
    <2>3. first \in 1 .. 9 BY <2>2
    <2>4. category = L!W!Categories[first] BY <1>1, <2>3
    <2> HIDE DEF category
    <2>5. same = {first} BY <2>3, <2>4, CategoriesApart
    <2>6. L!W!Least({first}) \in {first} BY <2>3, WizardLeast
    <2>7. n = first BY <1>2, <2>5, <2>6
    <2> QED BY <1>4, <2>2, <2>3, <2>7 DEF CategoryAt
  <1> QED BY <1>3, <1>4

LEMMA CategoriesFirst ==
  ASSUME NEW words, NEW word
  PROVE  L!W!CategoryFirst(words, word)
  <1> DEFINE has == {n \in 1 .. 9 : L!W!Categories[n] \in words}
             more == {n \in 1 .. 9 : L!W!Categories[n] \in words \cup {word}}
  <1>1. has \subseteq more /\ has \in SUBSET Nat /\ more \in SUBSET Nat /\ more \subseteq 1 .. 9 OBVIOUS
  <1>2. CategoryAt(words) = (IF has = {} THEN 10 ELSE L!W!Least(has))
        /\ CategoryAt(words \cup {word}) = IF more = {} THEN 10 ELSE L!W!Least(more)
    BY DEF CategoryAt
  <1> HIDE DEF has, more
  <1>3. has # {} => L!W!Least(has) \in has
    BY <1>1, WizardLeast
  <1>4. more # {} => L!W!Least(more) \in more /\ \A m \in more : L!W!Least(more) <= m
    BY <1>1, WizardLeast
  <1>5. CategoryAt(words \cup {word}) <= CategoryAt(words)
    <2>1. ASSUME has # {} PROVE more # {} /\ L!W!Least(more) <= L!W!Least(has) BY <1>1, <1>3, <1>4, <2>1
    <2>2. ASSUME more # {} PROVE L!W!Least(more) \in 1 .. 9 BY <1>1, <1>4, <2>2
    <2>3. \A x \in 1 .. 9 : x <= 10 OBVIOUS
    <2> QED BY <1>2, <2>1, <2>2, <2>3
  <1> DEFINE spot(some) == L!W!FirstOf(L!W!Categories, LAMBDA c : c = L!W!categorizeChart(some))
  <1>6. \A some : (IF spot(some) = 0 THEN 10 ELSE spot(some)) = CategoryAt(some)
    <2> TAKE some
    <2> QED BY CategoryPlace
  <1> QED BY <1>5, <1>6 DEF L!W!CategoryFirst

-----------------------------------------------------------------------------
(* The versions of a chart in a repository *)

LEMMA EntryFits ==
  ASSUME NEW repo, L!RepoTyped(repo), NEW chart
  PROVE  LET e == L!W!Entry(repo, chart)
         IN  /\ e # None => /\ L!W!HasIndex(repo) /\ e.name[1] = chart[1] /\ L!VersionsTyped(e.versions)
                            /\ None \notin [chartName : {e.name}, version : {e.versions[k] : k \in DOMAIN e.versions}]
             /\ \A other : other[1] = chart[1] => L!W!Entry(repo, other) = e
  <1> DEFINE entries == repo.entries
             found(some) == {m \in DOMAIN entries : entries[m].name[1] = some[1]}
             place(some) == IF found(some) = {} THEN 0 ELSE L!W!Least(found(some))
             e == L!W!Entry(repo, chart)
  <1>1. \A some : L!W!Entry(repo, some) = IF ~L!W!HasIndex(repo) \/ place(some) = 0 THEN None ELSE entries[place(some)]
    BY DEF L!W!Entry, L!W!FirstOf, L!W!sameName
  <1>2. Len(entries) \in Nat /\ DOMAIN entries = 1 .. Len(entries)
    BY DEF L!RepoTyped, L!IsList
  <1>3. \A m \in DOMAIN entries :
           /\ L!VersionsTyped(entries[m].versions)
           /\ None \notin [chartName : {entries[m].name},
                           version : {entries[m].versions[k] : k \in DOMAIN entries[m].versions}]
    BY DEF L!RepoTyped
  <1> HIDE DEF entries
  <1>4. ASSUME e # None
        PROVE  L!W!HasIndex(repo) /\ \E m \in DOMAIN entries : e = entries[m] /\ entries[m].name[1] = chart[1]
    <2>1. e = IF ~L!W!HasIndex(repo) \/ place(chart) = 0 THEN None ELSE entries[place(chart)] BY <1>1
    <2>2. L!W!HasIndex(repo) /\ place(chart) # 0 /\ e = entries[place(chart)] BY <1>4, <2>1
    <2>3. found(chart) # {} /\ place(chart) = L!W!Least(found(chart)) BY <2>2
    <2>4. found(chart) \in SUBSET Nat BY <1>2
    <2>5. place(chart) \in found(chart)
      <3> HIDE DEF found
      <3> QED BY <2>3, <2>4, WizardLeast
    <2> QED BY <2>2, <2>5
  <1>5. ASSUME NEW other, other[1] = chart[1] PROVE L!W!Entry(repo, other) = e
    <2>1. found(other) = found(chart) BY <1>5
    <2> QED BY <1>1, <2>1
  <1> HIDE DEF e
  <1>6. e # None => /\ L!W!HasIndex(repo) /\ e.name[1] = chart[1] /\ L!VersionsTyped(e.versions)
                    /\ None \notin [chartName : {e.name}, version : {e.versions[k] : k \in DOMAIN e.versions}]
    BY <1>3, <1>4
  <1> QED BY <1>5, <1>6 DEF e

\* The elements of a set of versions, each once, the newest first.
Listed(list, set) ==
  /\ \E n \in Nat : DOMAIN list = 1 .. n /\ list \in [1 .. n -> set] /\ (n = 0 <=> set = {})
                    /\ (set # {} => 1 \in 1 .. n)
  /\ \A x \in set : \E m \in DOMAIN list : list[m] = x
  /\ \A m, k \in DOMAIN list : m < k <=> L!W!semverDesc(list[m], list[k]) < 0
  /\ \A m, k \in DOMAIN list : list[m] = list[k] => m = k

Released(versions) == {v \in L!W!ToSet(versions) : v.pre = None}

LEMMA ReleasesListed ==
  ASSUME NEW released, IsFiniteSet(released), released \subseteq {v \in L!Version : v.pre = None}
  PROVE  Listed(L!W!Ordered(released, {p \in released \X released : L!W!semverDesc(p[1], p[2]) < 0}), released)
  <1> DEFINE before == {p \in released \X released : L!W!semverDesc(p[1], p[2]) < 0}
             list == L!W!Ordered(released, before)
             n == Cardinality(released)
  <1>1. \A a, b \in released : <<a, b>> \in before <=> L!W!semverDesc(a, b) < 0
    OBVIOUS
  <1>2. \A a, b \in released : L!W!semverDesc(a, b) < 0 <=> Before(a, b)
    <2> TAKE a, b \in released
    <2>1. a \in L!Version /\ b \in L!Version OBVIOUS
    <2>2. L!W!semverDesc(a, b) \in {0, 1, -1} /\ (L!W!semverDesc(a, b) = -1 <=> Before(a, b))
      BY <2>1, DescFits
    <2> QED BY <2>2
  <1>3. IsOrder(released, before)
    <2>1. \A a, b \in released : <<a, b>> \in before <=> Before(a, b) BY <1>1, <1>2
    <2> HIDE DEF before
    <2>2. ASSUME NEW a \in released PROVE <<a, a>> \notin before
      <3>1. a \in L!Version OBVIOUS
      <3>2. /\ L!W!semverDesc(a, a) = -1 <=> Before(a, a)
            /\ L!W!semverDesc(a, a) = 1 <=> Before(a, a)
        BY <3>1, DescFits
      <3> QED BY <2>1, <3>2
    <2>3. ASSUME NEW a \in released, NEW b \in released, a # b PROVE <<a, b>> \in before \/ <<b, a>> \in before
      <3>1. a \in L!Version /\ b \in L!Version /\ a.pre = b.pre OBVIOUS
      <3>2. /\ L!W!semverDesc(a, b) \in {0, 1, -1}
            /\ L!W!semverDesc(a, b) = -1 <=> Before(a, b)
            /\ L!W!semverDesc(a, b) = 1 <=> Before(b, a)
            /\ L!W!semverDesc(a, b) = 0 <=> Alike(Parts(a), Parts(b)) /\ TextRank(a) = TextRank(b)
        BY <3>1, DescFits
      <3>3. Alike(Parts(a), Parts(b)) /\ TextRank(a) = TextRank(b) <=> a = b BY <3>1, SameVersion
      <3> QED BY <2>1, <2>3, <3>2, <3>3
    <2>4. ASSUME NEW a \in released, NEW b \in released, NEW c \in released, <<a, b>> \in before, <<b, c>> \in before
          PROVE  <<a, c>> \in before
      <3>1. a \in L!Version /\ b \in L!Version /\ c \in L!Version OBVIOUS
      <3>2. Before(a, b) /\ Before(b, c) BY <2>1, <2>4
      <3>3. Before(a, c) BY <3>1, <3>2, BeforeTransitive
      <3> QED BY <2>1, <3>3
    <2> QED BY <2>2, <2>3, <2>4 DEF IsOrder
  <1>4. list = Ordered(released, before) BY SameOrdered
  <1> HIDE DEF before, list
  <1>5. /\ n \in Nat /\ list \in [1 .. n -> released]
        /\ \A x \in released : \E m \in 1 .. n : list[m] = x
        /\ \A m, k \in 1 .. n : m < k <=> <<list[m], list[k]>> \in before
        /\ \A m, k \in 1 .. n : list[m] = list[k] => m = k
    BY <1>3, <1>4, OrderedFits
  <1>6. DOMAIN list = 1 .. n BY <1>5
  <1>7. \A m \in 1 .. n : list[m] \in released BY <1>5
  <1>8. n = 0 <=> released = {} BY FS_EmptySet
  <1>9. released # {} => 1 \in 1 .. n BY <1>5, <1>8
  <1> HIDE DEF n
  <1>10. \A m, k \in 1 .. n : m < k <=> L!W!semverDesc(list[m], list[k]) < 0 BY <1>1, <1>5, <1>7
  <1>11. Listed(list, released) BY <1>5, <1>6, <1>8, <1>9, <1>10 DEF Listed
  <1> QED BY <1>11 DEF list, before

LEMMA ChartListed ==
  ASSUME NEW repo, L!RepoTyped(repo), NEW chart
  PROVE  LET e == L!W!Entry(repo, chart)
             list == L!W!listChartVersions(repo, chart)
         IN  /\ e = None => list = <<>>
             /\ e # None => /\ Listed(list, Released(e.versions))
                            /\ Released(e.versions) \subseteq {v \in L!Version : v.pre = None}
                            /\ \A k \in DOMAIN e.versions : e.versions[k] \in L!Version
                            /\ list = <<>> <=> Released(e.versions) = {}
  <1> DEFINE e == L!W!Entry(repo, chart)
             list == L!W!listChartVersions(repo, chart)
             released == Released(e.versions)
  <1>1. CASE e = None
    BY <1>1 DEF L!W!listChartVersions
  <1>2. CASE e # None
    <2>1. L!VersionsTyped(e.versions) BY <1>2, EntryFits
    <2>2. list = L!W!Ordered(released, {p \in released \X released : L!W!semverDesc(p[1], p[2]) < 0})
      BY <1>2 DEF L!W!listChartVersions, Released, L!W!SEMVER_CORE
    <2> DEFINE versions == e.versions
               n == Len(versions)
    <2>3. n \in Nat /\ versions = [k \in 1 .. n |-> versions[k]] /\ \A k \in DOMAIN versions : versions[k] \in L!Version
      BY <2>1 DEF L!VersionsTyped, L!IsList
    <2>4. released = {v \in {versions[k] : k \in DOMAIN versions} : v.pre = None} BY DEF Released, L!W!ToSet
    <2> HIDE DEF versions, n, released, list
    <2>5. DOMAIN versions = 1 .. n BY <2>3
    <2>6. IsFiniteSet(released)
      <3>1. IsFiniteSet(1 .. n) BY <2>3, PlacesFinite
      <3>2. IsFiniteSet({versions[k] : k \in 1 .. n})
        <4> DEFINE all == {versions[k] : k \in 1 .. n}
                   f == [k \in 1 .. n |-> versions[k]]
        <4>1. f \in Surjection(1 .. n, all) BY DEF Surjection
        <4> HIDE DEF all, f
        <4>2. IsFiniteSet(all) BY <3>1, <4>1, FS_Surjection
        <4> QED BY <4>2 DEF all
      <3>3. released \subseteq {versions[k] : k \in 1 .. n} BY <2>4, <2>5
      <3> QED BY <3>2, <3>3, FS_Subset
    <2>7. released \subseteq {v \in L!Version : v.pre = None} BY <2>3, <2>4
    <2>8. Listed(list, released) BY <2>2, <2>6, <2>7, ReleasesListed
    <2>9. list = <<>> <=> released = {}
      <3>1. PICK m \in Nat : list \in [1 .. m -> released] /\ (m = 0 <=> released = {}) BY <2>8 DEF Listed
      <3>2. ASSUME list = <<>> PROVE m = 0
        <4>1. 1 .. m = {} BY <3>1, <3>2
        <4> QED BY <4>1
      <3>3. ASSUME m = 0 PROVE list = <<>> BY <3>1, <3>3
      <3> QED BY <3>1, <3>2, <3>3
    <2> QED BY <1>2, <2>3, <2>7, <2>8, <2>9 DEF released, versions, list
  <1> QED BY <1>1, <1>2

LEMMA FoundInRepo ==
  ASSUME NEW repo, L!RepoTyped(repo), NEW chart
  PROVE  LET e == L!W!Entry(repo, chart)
             list == L!W!listChartVersions(repo, chart)
             found == L!W!findChartInRepo(repo, chart)
         IN  /\ found = None <=> list = <<>>
             /\ found # None => /\ found = [chartName |-> e.name, version |-> list[1]]
                                /\ e # None /\ 1 \in DOMAIN list /\ list[1] \in L!Version
  <1> DEFINE e == L!W!Entry(repo, chart)
             list == L!W!listChartVersions(repo, chart)
             found == L!W!findChartInRepo(repo, chart)
  <1>1. found = IF list = <<>> THEN None ELSE [chartName |-> e.name, version |-> list[1]]
    BY DEF L!W!findChartInRepo
  <1>2. ASSUME list # <<>>
        PROVE  e # None /\ 1 \in DOMAIN list /\ list[1] \in Released(e.versions) /\ list[1] \in L!Version
               /\ [chartName |-> e.name, version |-> list[1]] # None
    <2>1. e # None BY <1>2, ChartListed
    <2>2. Listed(list, Released(e.versions)) /\ Released(e.versions) \subseteq {v \in L!Version : v.pre = None}
          /\ Released(e.versions) # {}
      BY <1>2, <2>1, ChartListed
    <2>3. None \notin [chartName : {e.name}, version : {e.versions[k] : k \in DOMAIN e.versions}]
      BY <2>1, EntryFits
    <2> HIDE DEF list, e
    <2>4. 1 \in DOMAIN list /\ list[1] \in Released(e.versions) BY <2>2 DEF Listed
    <2>5. list[1] \in {e.versions[k] : k \in DOMAIN e.versions} BY <2>4 DEF Released, L!W!ToSet
    <2>6. [chartName |-> e.name, version |-> list[1]] # None BY <2>3, <2>5
    <2> QED BY <2>1, <2>2, <2>4, <2>6
  <1> HIDE DEF e, list, found
  <1>3. /\ found = None <=> list = <<>>
        /\ found # None => /\ found = [chartName |-> e.name, version |-> list[1]]
                           /\ e # None /\ 1 \in DOMAIN list /\ list[1] \in L!Version
    BY <1>1, <1>2
  <1> QED BY <1>3 DEF e, list, found

LEMMA ProposedNewest ==
  ASSUME NEW repo, L!RepoTyped(repo), NEW chart
  PROVE  L!W!ProposedIsNewest(repo, chart)
  <1> DEFINE e == L!W!Entry(repo, chart)
             list == L!W!listChartVersions(repo, chart)
             found == L!W!findChartInRepo(repo, chart)
  <1> SUFFICES ASSUME found # None
               PROVE  /\ found.version \in L!W!ToSet(list) /\ L!W!sameName(found.chartName, chart)
                      /\ \A n \in DOMAIN list : L!W!semverDesc(found.version, list[n]) <= 0
                      /\ L!W!IsInjective(list)
    BY DEF L!W!ProposedIsNewest
  <1>1. found = [chartName |-> e.name, version |-> list[1]] /\ e # None /\ 1 \in DOMAIN list
    BY FoundInRepo
  <1>2. Listed(list, Released(e.versions)) /\ Released(e.versions) \subseteq {v \in L!Version : v.pre = None}
    BY <1>1, ChartListed
  <1>3. e.name[1] = chart[1]
    BY <1>1, EntryFits
  <1> HIDE DEF e, list, found
  <1>4. L!W!sameName(found.chartName, chart)
    BY <1>1, <1>3 DEF L!W!sameName
  <1>5. found.version = list[1] /\ found.version \in L!W!ToSet(list)
    BY <1>1 DEF L!W!ToSet
  <1>6. ASSUME NEW n \in DOMAIN list PROVE L!W!semverDesc(list[1], list[n]) <= 0
    <2>1. DOMAIN list \subseteq Nat \ {0} /\ \A m \in DOMAIN list : list[m] \in L!Version
      BY <1>2 DEF Listed
    <2>2. CASE n = 1
      <3>1. list[1] \in L!Version BY <1>1, <2>1
      <3>2. /\ L!W!semverDesc(list[1], list[1]) \in {0, 1, -1}
            /\ L!W!semverDesc(list[1], list[1]) = -1 <=> Before(list[1], list[1])
            /\ L!W!semverDesc(list[1], list[1]) = 1 <=> Before(list[1], list[1])
        BY <3>1, DescFits
      <3>3. L!W!semverDesc(list[1], list[1]) = 0 BY <3>2
      <3> QED BY <2>2, <3>3
    <2>3. CASE n # 1
      <3>1. 1 < n BY <2>1, <2>3
      <3>2. L!W!semverDesc(list[1], list[n]) < 0 BY <1>1, <1>2, <3>1 DEF Listed
      <3>3. L!W!semverDesc(list[1], list[n]) \in {0, 1, -1} BY <1>1, <2>1, DescFits
      <3> QED BY <3>2, <3>3
    <2> QED BY <2>2, <2>3
  <1>7. L!W!IsInjective(list)
    BY <1>2 DEF L!W!IsInjective, Listed
  <1> QED BY <1>4, <1>5, <1>6, <1>7

-----------------------------------------------------------------------------
(* The repository inferred for a chart *)

Holding(list, chart) == {n \in DOMAIN list : L!W!Entry(list[n], chart) # None}
Perfect(list, chart, prefer) ==
  {n \in Holding(list, chart) : prefer \in L!W!ToSet(L!W!Entry(list[n], chart).versions)}
Chosen(list, chart, prefer) ==
  L!W!Least(IF Perfect(list, chart, prefer) # {} THEN Perfect(list, chart, prefer) ELSE Holding(list, chart))

ReposListed(list, k) == list = [n \in 1 .. k |-> list[n]] /\ L!ReposTyped(list)

LEMMA Inferred ==
  ASSUME NEW k \in Nat, NEW list, DOMAIN list = 1 .. k, NEW chart, NEW prefer
  PROVE  LET one == L!W!inferClusterRepoForChart(list, chart, prefer)
             spot == Chosen(list, chart, prefer)
         IN  /\ Holding(list, chart) = {} => one = None
             /\ Holding(list, chart) # {} => one = list[spot].id /\ spot \in Holding(list, chart) /\ spot \in 1 .. k
             /\ Perfect(list, chart, prefer) # {} => spot \in Perfect(list, chart, prefer)
             /\ Perfect(list, chart, prefer) = {} => \A n \in Holding(list, chart) : spot <= n
  <1> DEFINE one == L!W!inferClusterRepoForChart(list, chart, prefer)
             holding == Holding(list, chart)
             perfect == Perfect(list, chart, prefer)
             spot == Chosen(list, chart, prefer)
             some == IF perfect # {} THEN perfect ELSE holding
  <1>1. one = IF holding = {} THEN None ELSE list[spot].id
    BY DEF L!W!inferClusterRepoForChart, Holding, Perfect, Chosen
  <1>2. holding \in SUBSET (1 .. k) /\ perfect \in SUBSET holding
    BY DEF Holding, Perfect
  <1>3. spot = L!W!Least(some)
    BY DEF Chosen
  <1> HIDE DEF one, holding, perfect, spot
  <1>4. some \in SUBSET Nat /\ (holding # {} => some # {}) /\ (perfect # {} => some # {})
    BY <1>2
  <1>5. some # {} => spot \in some /\ \A m \in some : spot <= m
    BY <1>3, <1>4, WizardLeast
  <1>6. /\ holding # {} => spot \in holding
        /\ perfect # {} => spot \in perfect
        /\ perfect = {} => \A n \in holding : spot <= n
    BY <1>2, <1>4, <1>5
  <1>7. /\ holding = {} => one = None
        /\ holding # {} => one = list[spot].id /\ spot \in holding /\ spot \in 1 .. k
        /\ perfect # {} => spot \in perfect
        /\ perfect = {} => \A n \in holding : spot <= n
    BY <1>1, <1>2, <1>6
  <1> QED BY <1>7 DEF one, holding, perfect, spot

LEMMA InferredFits ==
  ASSUME NEW k \in Nat, NEW list, ReposListed(list, k), NEW chart, NEW prefer, None # "rc"
  PROVE  L!W!InferredHolds(list, chart, prefer)
  <1> DEFINE one == L!W!inferClusterRepoForChart(list, chart, prefer)
             has == {list[n].id : n \in Holding(list, chart)}
             best == {list[n].id : n \in Perfect(list, chart, prefer)}
             same == {n \in DOMAIN list : list[n].id = one}
             place == IF same = {} THEN 0 ELSE L!W!Least(same)
             spot == Chosen(list, chart, prefer)
  <1>1. DOMAIN list = 1 .. k BY DEF ReposListed
  <1>2. /\ \A n \in 1 .. k : L!RepoTyped(list[n]) /\ list[n].id # None
        /\ \A m, n \in 1 .. k : list[m].id = list[n].id => m = n
    BY <1>1 DEF ReposListed, L!ReposTyped, L!RepoTyped
  <1>3. /\ Holding(list, chart) = {} => one = None
        /\ Holding(list, chart) # {} => one = list[spot].id /\ spot \in Holding(list, chart) /\ spot \in 1 .. k
        /\ Perfect(list, chart, prefer) # {} => spot \in Perfect(list, chart, prefer)
        /\ Perfect(list, chart, prefer) = {} => \A n \in Holding(list, chart) : spot <= n
    BY <1>1, Inferred
  <1>4. Holding(list, chart) \subseteq 1 .. k /\ Perfect(list, chart, prefer) \subseteq Holding(list, chart)
    BY <1>1 DEF Holding, Perfect
  <1>5. one # None => L!W!FirstOf(list, LAMBDA r : r.id = one) = place
    BY DEF L!W!FirstOf
  <1>6. /\ L!W!IdsOf(list, LAMBDA r : L!W!Entry(r, chart) # None) = has
        /\ L!W!IdsOf(list, LAMBDA r : L!W!Entry(r, chart) # None /\ prefer \in L!W!ToSet(L!W!Entry(r, chart).versions)) = best
    <2>1. L!W!IdsOf(list, LAMBDA r : L!W!Entry(r, chart) # None) = has
      BY DEF L!W!IdsOf, Holding
    <2>2. Perfect(list, chart, prefer) =
            {m \in DOMAIN list : L!W!Entry(list[m], chart) # None /\ prefer \in L!W!ToSet(L!W!Entry(list[m], chart).versions)}
      BY DEF Perfect, Holding
    <2>3. L!W!IdsOf(list, LAMBDA r : L!W!Entry(r, chart) # None /\ prefer \in L!W!ToSet(L!W!Entry(r, chart).versions)) = best
      BY <2>2 DEF L!W!IdsOf
    <2> QED BY <2>1, <2>3
  <1> HIDE DEF one, spot
  <1>7. one = None <=> has = {}
    BY <1>2, <1>3, <1>4
  <1>8. ASSUME one # None PROVE spot \in Holding(list, chart) /\ one = list[spot].id /\ one \in has /\ place = spot
    <2>1. spot \in Holding(list, chart) /\ one = list[spot].id /\ spot \in 1 .. k BY <1>3, <1>8
    <2>2. one \in has BY <2>1
    <2>3. same = {spot} BY <1>1, <1>2, <2>1
    <2>4. L!W!Least({spot}) \in {spot} BY <2>1, WizardLeast
    <2> QED BY <2>1, <2>2, <2>3, <2>4
  <1>9. best # {} => one \in best
    <2> SUFFICES ASSUME best # {} PROVE one \in best OBVIOUS
    <2>1. Perfect(list, chart, prefer) # {} OBVIOUS
    <2>2. spot \in Perfect(list, chart, prefer) /\ one = list[spot].id BY <1>3, <1>4, <2>1
    <2> QED BY <2>2
  <1>10. ASSUME best = {}, one # None, NEW n \in DOMAIN list, list[n].id \in has PROVE place <= n
    <2>1. Perfect(list, chart, prefer) = {} BY <1>10
    <2>2. PICK m \in Holding(list, chart) : list[n].id = list[m].id BY <1>10
    <2>3. n = m BY <1>1, <1>2, <1>4, <2>2
    <2> HIDE DEF place
    <2> QED BY <1>3, <1>8, <1>10, <2>1, <2>2, <2>3
  <1>11. ASSUME one # None, L!W!findChartInRepo(list[place], chart) = None,
                NEW n \in DOMAIN L!W!Entry(list[place], chart).versions
         PROVE  L!W!isPrereleaseVersion(L!W!Entry(list[place], chart).versions[n])
    <2> DEFINE repo == list[place]
               e == L!W!Entry(repo, chart)
    <2> HIDE DEF place
    <2>1. L!RepoTyped(repo) /\ e # None BY <1>2, <1>4, <1>8, <1>11 DEF Holding
    <2>2. L!W!listChartVersions(repo, chart) = <<>> BY <1>11, <2>1, FoundInRepo
    <2>3. Released(e.versions) = {} /\ \A m \in DOMAIN e.versions : e.versions[m] \in L!Version
      BY <2>1, <2>2, ChartListed
    <2>4. e.versions[n] \in L!Version /\ e.versions[n] \in L!W!ToSet(e.versions)
      BY <1>11, <2>3 DEF L!W!ToSet
    <2>5. e.versions[n].pre # None BY <2>3, <2>4 DEF Released
    <2>6. e.versions[n].pre \in {None, "rc"} BY <2>4 DEF L!Version
    <2> QED BY <2>5, <2>6 DEF L!W!isPrereleaseVersion
  <1> HIDE DEF has, best, place
  <1> DEFINE first == L!W!FirstOf(list, LAMBDA r : r.id = one)
  <1>12. one # None => first = place BY <1>5
  <1> HIDE DEF first
  <1>13. /\ one = None <=> has = {}
         /\ one # None => one \in has
         /\ best # {} => one \in best
         /\ best = {} /\ one # None => \A n \in DOMAIN list : list[n].id \in has => first <= n
         /\ one # None /\ L!W!findChartInRepo(list[first], chart) = None =>
               \A n \in DOMAIN L!W!Entry(list[first], chart).versions :
                   L!W!isPrereleaseVersion(L!W!Entry(list[first], chart).versions[n])
    BY <1>7, <1>8, <1>9, <1>10, <1>11, <1>12
  <1> QED BY <1>6, <1>13 DEF L!W!InferredHolds, one, first

-----------------------------------------------------------------------------
(* The two services *)

\* What is read by chart-service has an index only if it is not missed.
LEMMA IndexServed ==
  ASSUME NEW repo, L!RepoTyped(repo), NEW chart
  PROVE  /\ L!W!ServiceIndex(repo).id = repo.id
         /\ L!W!Missed(repo) => /\ L!W!Entry(L!W!ServiceIndex(repo), chart) = None
                               /\ L!W!ServiceFindChartInRepo(repo, chart) = None
                               /\ L!W!ServiceListChartVersions(repo, chart) = <<>>
         /\ ~L!W!Missed(repo) => L!W!ServiceIndex(repo) = repo
  <1>1. ASSUME L!W!Missed(repo)
        PROVE  L!W!ServiceIndex(repo).id = repo.id /\ L!W!Entry(L!W!ServiceIndex(repo), chart) = None
    <2>1. L!W!ServiceIndex(repo) = [repo EXCEPT !.answer = "none"] BY <1>1 DEF L!W!ServiceIndex
    <2>2. repo = [id |-> repo.id, answer |-> repo.answer, entries |-> repo.entries] BY DEF L!RepoTyped
    <2>3. L!W!ServiceIndex(repo).id = repo.id /\ L!W!ServiceIndex(repo).answer = "none" BY <2>1, <2>2
    <2>4. \A r : r.answer = "none" => ~L!W!HasIndex(r) BY DEF L!W!HasIndex
    <2>5. \A r : ~L!W!HasIndex(r) => L!W!Entry(r, chart) = None BY DEF L!W!Entry
    <2> QED BY <2>3, <2>4, <2>5
  <1>2. ASSUME ~L!W!Missed(repo) PROVE L!W!ServiceIndex(repo) = repo
    BY <1>2 DEF L!W!ServiceIndex
  <1>3. ASSUME L!W!Missed(repo)
        PROVE  L!W!ServiceFindChartInRepo(repo, chart) = None /\ L!W!ServiceListChartVersions(repo, chart) = <<>>
    <2>1. L!W!listChartVersions(L!W!ServiceIndex(repo), chart) = <<>>
      BY <1>1, <1>3 DEF L!W!listChartVersions
    <2> QED BY <2>1 DEF L!W!ServiceFindChartInRepo, L!W!findChartInRepo, L!W!ServiceListChartVersions
  <1> QED BY <1>1, <1>2, <1>3

\* Of a smaller set of numbers that has the least of the larger one, that is the least.
LEMMA LeastKept ==
  ASSUME NEW more \in SUBSET Nat, NEW fewer \in SUBSET more, L!W!Least(more) \in fewer
  PROVE  L!W!Least(fewer) = L!W!Least(more)
  <1> DEFINE s == L!W!Least(more)
             t == L!W!Least(fewer)
  <1>1. more # {} /\ fewer # {} /\ fewer \in SUBSET Nat OBVIOUS
  <1>2. s \in more /\ \A m \in more : s <= m BY <1>1, WizardLeast
  <1>3. t \in fewer /\ \A m \in fewer : t <= m BY <1>1, WizardLeast
  <1> HIDE DEF s, t
  <1>4. s \in fewer BY DEF s
  <1>5. s \in Nat /\ t \in Nat /\ s <= t /\ t <= s BY <1>1, <1>2, <1>3, <1>4
  <1>6. s = t BY <1>5
  <1> QED BY <1>6 DEF s, t

\* The repository inferred stays the one inferred when others are lost.
LEMMA ChosenKept ==
  ASSUME NEW k \in Nat, NEW list, DOMAIN list = 1 .. k, NEW served, DOMAIN served = 1 .. k, NEW chart, NEW prefer,
         Holding(list, chart) # {},
         \A n \in 1 .. k : L!W!Entry(served[n], chart) \in {None, L!W!Entry(list[n], chart)},
         LET spot == Chosen(list, chart, prefer) IN L!W!Entry(served[spot], chart) = L!W!Entry(list[spot], chart)
  PROVE  Chosen(served, chart, prefer) = Chosen(list, chart, prefer) /\ Holding(served, chart) # {}
  <1> DEFINE spot == Chosen(list, chart, prefer)
             holding == Holding(list, chart)
             perfect == Perfect(list, chart, prefer)
             left == Holding(served, chart)
             best == Perfect(served, chart, prefer)
  <1>1. spot \in holding /\ spot \in 1 .. k /\ (perfect # {} => spot \in perfect)
    BY Inferred
  <1>2. spot = L!W!Least(IF perfect # {} THEN perfect ELSE holding)
        /\ Chosen(served, chart, prefer) = L!W!Least(IF best # {} THEN best ELSE left)
    BY DEF Chosen
  <1>3. L!W!Entry(served[spot], chart) = L!W!Entry(list[spot], chart) OBVIOUS
  <1> HIDE DEF spot
  <1>4. left \subseteq holding /\ holding \subseteq 1 .. k
    BY DEF Holding
  <1>5. spot \in left
    <2>1. L!W!Entry(list[spot], chart) # None BY <1>1 DEF Holding
    <2> QED BY <1>1, <1>3, <2>1 DEF Holding
  <1>6. best \subseteq perfect /\ (spot \in perfect => spot \in best)
    <2>1. ASSUME NEW n \in left PROVE L!W!Entry(served[n], chart) = L!W!Entry(list[n], chart)
      BY <1>4, <2>1 DEF Holding
    <2> HIDE DEF left, holding
    <2>2. ASSUME NEW n \in best PROVE n \in perfect
      <3>1. n \in left /\ prefer \in L!W!ToSet(L!W!Entry(served[n], chart).versions) BY DEF Perfect, left
      <3> QED BY <1>4, <2>1, <3>1 DEF Perfect, holding
    <2>3. ASSUME spot \in perfect PROVE spot \in best
      <3>1. prefer \in L!W!ToSet(L!W!Entry(list[spot], chart).versions) BY <2>3 DEF Perfect
      <3> QED BY <1>3, <1>5, <3>1 DEF Perfect, left
    <2> HIDE DEF best, perfect
    <2> QED BY <2>2, <2>3
  <1> HIDE DEF holding, perfect, left, best
  <1>7. CASE perfect # {}
    <2>1. spot = L!W!Least(perfect) /\ spot \in best BY <1>1, <1>2, <1>6, <1>7
    <2>2. perfect \subseteq Nat
      <3>1. perfect \subseteq holding BY DEF perfect, holding, Perfect
      <3> QED BY <1>4, <3>1
    <2>3. L!W!Least(best) = L!W!Least(perfect) BY <1>6, <2>1, <2>2, LeastKept
    <2>4. best # {} BY <2>1
    <2>5. Chosen(served, chart, prefer) = spot BY <1>2, <2>1, <2>3, <2>4
    <2> QED BY <1>5, <2>5 DEF left, spot
  <1>8. CASE perfect = {}
    <2>1. spot = L!W!Least(holding) /\ best = {} BY <1>2, <1>6, <1>8
    <2>2. holding \subseteq Nat BY <1>4
    <2>3. L!W!Least(left) = L!W!Least(holding) BY <1>4, <1>5, <2>1, <2>2, LeastKept
    <2>4. Chosen(served, chart, prefer) = spot BY <1>2, <2>1, <2>3
    <2> QED BY <1>5, <2>4 DEF left, spot
  <1> QED BY <1>7, <1>8

LEMMA ServicesFit ==
  ASSUME NEW k \in Nat, NEW list, ReposListed(list, k), NEW chart, NEW prefer
  PROVE  L!W!ServicesAgree(list, chart, prefer)
  <1> DEFINE Agrees(repo) ==
               /\ L!W!ServiceFindChartInRepo(repo, chart) =
                     IF L!W!Missed(repo) THEN None ELSE L!W!findChartInRepo(repo, chart)
               /\ L!W!ToSet(L!W!ServiceListChartVersions(repo, chart))
                     \subseteq L!W!ToSet(L!W!listChartVersions(repo, chart))
  <1>1. DOMAIN list = 1 .. k /\ list = [n \in 1 .. k |-> list[n]] /\ \A n \in 1 .. k : L!RepoTyped(list[n])
    BY DEF ReposListed, L!ReposTyped
  <1>2. ASSUME NEW n \in DOMAIN list PROVE Agrees(list[n])
    <2> DEFINE repo == list[n]
    <2>1. L!RepoTyped(repo) BY <1>1
    <2> HIDE DEF repo
    <2>2. CASE L!W!Missed(repo)
      <3>1. L!W!ServiceFindChartInRepo(repo, chart) = None /\ L!W!ServiceListChartVersions(repo, chart) = <<>>
        BY <2>1, <2>2, IndexServed
      <3>2. L!W!ToSet(<<>>) = {} BY DEF L!W!ToSet
      <3> QED BY <2>2, <3>1, <3>2 DEF repo
    <2>3. CASE ~L!W!Missed(repo)
      <3>1. L!W!ServiceIndex(repo) = repo BY <2>1, <2>3, IndexServed
      <3> QED BY <2>3, <3>1 DEF L!W!ServiceFindChartInRepo, L!W!ServiceListChartVersions, repo
    <2> QED BY <2>2, <2>3
  <1> HIDE DEF Agrees
  <1> DEFINE other == L!W!inferClusterRepoForChart(list, chart, prefer)
             missed == {list[n].id : n \in {m \in DOMAIN list : L!W!Missed(list[m])}}
             has == {list[n].id : n \in {m \in DOMAIN list :
                                            ~L!W!Missed(list[m]) /\ L!W!Entry(list[m], chart) # None}}
  <1>3. ASSUME NEW listed \in BOOLEAN
        PROVE  LET one == L!W!ServiceInferClusterRepoForChart(list, listed, chart, prefer)
               IN  /\ listed /\ other \notin missed => one = other
                   /\ one # None => listed /\ one \in has
    <2> DEFINE all == L!W!ServiceListClusterRepos(list, listed)
               served == [n \in DOMAIN all |-> L!W!ServiceIndex(all[n])]
               one == L!W!ServiceInferClusterRepoForChart(list, listed, chart, prefer)
    <2>1. one = L!W!inferClusterRepoForChart(served, chart, prefer)
      BY DEF L!W!ServiceInferClusterRepoForChart
    <2>2. all = IF listed THEN list ELSE <<>> BY DEF L!W!ServiceListClusterRepos
    <2>3. CASE ~listed
      <3>1. DOMAIN served = 1 .. 0 BY <2>2, <2>3
      <3>2. Holding(served, chart) = {} BY <3>1 DEF Holding
      <3> HIDE DEF served, one, other, missed, has
      <3>3. one = None BY <2>1, <3>1, <3>2, Inferred
      <3> QED BY <2>3, <3>3 DEF one
    <2>4. CASE listed
      <3>1. served = [n \in 1 .. k |-> L!W!ServiceIndex(list[n])] BY <1>1, <2>2, <2>4
      <3> HIDE DEF served, all, one, other
      <3>2. DOMAIN served = 1 .. k /\ \A n \in 1 .. k : served[n] = L!W!ServiceIndex(list[n]) BY <3>1
      <3>3. \A n \in 1 .. k :
               /\ served[n].id = list[n].id
               /\ L!W!Missed(list[n]) => L!W!Entry(served[n], chart) = None
               /\ ~L!W!Missed(list[n]) => L!W!Entry(served[n], chart) = L!W!Entry(list[n], chart)
        <4> TAKE n \in 1 .. k
        <4>1. L!RepoTyped(list[n]) /\ served[n] = L!W!ServiceIndex(list[n]) BY <1>1, <3>2
        <4> QED BY <4>1, IndexServed
      <3> DEFINE spot == Chosen(served, chart, prefer)
                 place == Chosen(list, chart, prefer)
      <3>4. /\ Holding(served, chart) = {} => one = None
            /\ Holding(served, chart) # {} => /\ one = served[spot].id
                                              /\ spot \in Holding(served, chart) /\ spot \in 1 .. k
        BY <2>1, <3>2, Inferred
      <3>5. /\ Holding(list, chart) = {} => other = None
            /\ Holding(list, chart) # {} => other = list[place].id /\ place \in 1 .. k
        BY <1>1, Inferred DEF other
      <3> HIDE DEF spot, place
      <3>6. ASSUME one # None PROVE one \in has
        <4>1. spot \in 1 .. k /\ one = list[spot].id /\ L!W!Entry(served[spot], chart) # None
          BY <3>3, <3>4, <3>6 DEF Holding
        <4>2. ~L!W!Missed(list[spot]) /\ L!W!Entry(list[spot], chart) # None BY <3>3, <4>1
        <4> QED BY <1>1, <4>1, <4>2
      <3>7. ASSUME other \notin missed PROVE one = other
        <4>1. CASE Holding(list, chart) = {}
          <5>1. Holding(served, chart) = {}
            <6>1. \A n \in 1 .. k : L!W!Entry(list[n], chart) = None BY <1>1, <4>1 DEF Holding
            <6>2. \A n \in 1 .. k : L!W!Entry(served[n], chart) = None BY <3>3, <6>1
            <6> QED BY <3>2, <6>2 DEF Holding
          <5> QED BY <3>4, <3>5, <4>1, <5>1
        <4>2. CASE Holding(list, chart) # {}
          <5>1. place \in 1 .. k /\ other = list[place].id BY <3>5, <4>2
          <5>2. ~L!W!Missed(list[place]) BY <1>1, <3>7, <5>1
          <5>3. \A n \in 1 .. k : L!W!Entry(served[n], chart) \in {None, L!W!Entry(list[n], chart)} BY <3>3
          <5>4. L!W!Entry(served[place], chart) = L!W!Entry(list[place], chart) BY <3>3, <5>1, <5>2
          <5>5. spot = place /\ Holding(served, chart) # {}
            BY <1>1, <3>2, <4>2, <5>3, <5>4, ChosenKept DEF spot, place
          <5> QED BY <3>3, <3>4, <5>1, <5>5
        <4> QED BY <4>1, <4>2
      <3> QED BY <2>4, <3>6, <3>7 DEF one
    <2> QED BY <2>3, <2>4
  <1> HIDE DEF other
  <1> QED BY <1>2, <1>3 DEF L!W!ServicesAgree, L!W!IdsOf, Agrees, other

-----------------------------------------------------------------------------
(* The wizard, as it opens *)

\* The repositories of a wizard are their places.
Placed(list, k) == ReposListed(list, k) /\ \A n \in 1 .. k : list[n].id = n

\* What is inferred without a version is the first repository that has the chart.
LEMMA FirstHolding ==
  ASSUME NEW k \in Nat, NEW list, Placed(list, k), NEW chart, None \notin L!Version, None \notin Int
  PROVE  LET one == L!W!inferClusterRepoForChart(list, chart, None)
         IN  /\ Holding(list, chart) = {} => one = None
             /\ Holding(list, chart) # {} => one \in Holding(list, chart) /\ \A n \in Holding(list, chart) : one <= n
             /\ one \in {None} \cup 1 .. k
  <1> DEFINE one == L!W!inferClusterRepoForChart(list, chart, None)
             spot == Chosen(list, chart, None)
  <1>1. /\ DOMAIN list = 1 .. k
        /\ \A n \in 1 .. k : L!RepoTyped(list[n]) /\ list[n].id = n
    BY DEF Placed, ReposListed, L!ReposTyped
  <1>2. Holding(list, chart) \subseteq 1 .. k BY <1>1 DEF Holding
  <1>3. Perfect(list, chart, None) = {}
    <2> SUFFICES ASSUME NEW n \in Holding(list, chart), None \in L!W!ToSet(L!W!Entry(list[n], chart).versions)
                 PROVE  FALSE
      BY DEF Perfect
    <2> DEFINE e == L!W!Entry(list[n], chart)
    <2>1. L!RepoTyped(list[n]) /\ e # None BY <1>1, <1>2 DEF Holding
    <2>2. \A m \in DOMAIN e.versions : e.versions[m] \in L!Version BY <2>1, ChartListed
    <2>3. PICK m \in DOMAIN e.versions : e.versions[m] = None BY DEF L!W!ToSet
    <2> HIDE DEF e
    <2> QED BY <2>2, <2>3
  <1>4. /\ Holding(list, chart) = {} => one = None
        /\ Holding(list, chart) # {} => one = list[spot].id /\ spot \in Holding(list, chart) /\ spot \in 1 .. k
        /\ Perfect(list, chart, None) = {} => \A n \in Holding(list, chart) : spot <= n
    BY <1>1, Inferred
  <1> HIDE DEF one, spot
  <1>5. /\ Holding(list, chart) = {} => one = None
        /\ Holding(list, chart) # {} => one \in Holding(list, chart) /\ \A n \in Holding(list, chart) : one <= n
        /\ one \in {None} \cup 1 .. k
    BY <1>1, <1>3, <1>4
  <1> QED BY <1>5 DEF one

IsForm(f) == f = [failed |-> f.failed, repo |-> f.repo, chart |-> f.chart, version |-> f.version]

\* A form as it opens: what it shows is what its repository lists.
Opened(f, list, slug) ==
  /\ IsForm(f)
  /\ f.failed \in BOOLEAN /\ f.repo \in {None} \cup DOMAIN list
  /\ f.failed => f.repo # None /\ L!W!Throws(list[f.repo]) /\ f.version = None
  /\ ~f.failed /\ f.repo # None => ~L!W!Throws(list[f.repo])
  /\ f.version = None =>
        f.chart = slug /\ (f.repo # None /\ ~f.failed => L!W!listChartVersions(list[f.repo], slug) = <<>>)
  /\ f.version # None =>
        /\ f.repo # None
        /\ L!W!listChartVersions(list[f.repo], f.chart) # <<>>
        /\ f.version = L!W!listChartVersions(list[f.repo], f.chart)[1]

Moved(f, r) == [f EXCEPT !.repo = r]
Offering(f, v) == [f EXCEPT !.version = v]
Failing(f, r) == [f EXCEPT !.failed = TRUE, !.repo = r]
Naming(f, chart, v) == [f EXCEPT !.chart = chart, !.version = v]

LEMMA WasMoved ==
  ASSUME NEW f, IsForm(f), NEW r
  PROVE  LET g == Moved(f, r)
         IN  IsForm(g) /\ g.failed = f.failed /\ g.repo = r /\ g.chart = f.chart /\ g.version = f.version
  <1>1. f = [failed |-> f.failed, repo |-> f.repo, chart |-> f.chart, version |-> f.version] BY DEF IsForm
  <1>2. \A g : g = [x \in {"failed", "repo", "chart", "version"} |-> g[x]] => IsForm(g)
    BY DEF IsForm
  <1> QED BY <1>1, <1>2 DEF Moved

LEMMA HasFailed ==
  ASSUME NEW f, IsForm(f), NEW r
  PROVE  LET g == Failing(f, r)
         IN  IsForm(g) /\ g.failed /\ g.failed \in BOOLEAN /\ g.repo = r /\ g.chart = f.chart /\ g.version = f.version
  <1>1. f = [failed |-> f.failed, repo |-> f.repo, chart |-> f.chart, version |-> f.version] BY DEF IsForm
  <1>2. \A g : g = [x \in {"failed", "repo", "chart", "version"} |-> g[x]] => IsForm(g)
    BY DEF IsForm
  <1> QED BY <1>1, <1>2 DEF Failing

LEMMA IsOffered ==
  ASSUME NEW f, IsForm(f), NEW v
  PROVE  LET g == Offering(f, v)
         IN  IsForm(g) /\ g.failed = f.failed /\ g.repo = f.repo /\ g.chart = f.chart /\ g.version = v
  <1>1. f = [failed |-> f.failed, repo |-> f.repo, chart |-> f.chart, version |-> f.version] BY DEF IsForm
  <1>2. \A g : g = [x \in {"failed", "repo", "chart", "version"} |-> g[x]] => IsForm(g)
    BY DEF IsForm
  <1> QED BY <1>1, <1>2 DEF Offering

LEMMA WasNamed ==
  ASSUME NEW f, IsForm(f), NEW c, NEW v
  PROVE  LET g == Naming(f, c, v)
         IN  IsForm(g) /\ g.failed = f.failed /\ g.repo = f.repo /\ g.chart = c /\ g.version = v
  <1>1. f = [failed |-> f.failed, repo |-> f.repo, chart |-> f.chart, version |-> f.version] BY DEF IsForm
  <1>2. \A g : g = [x \in {"failed", "repo", "chart", "version"} |-> g[x]] => IsForm(g)
    BY DEF IsForm
  <1> QED BY <1>1, <1>2 DEF Naming

LEMMA Thrown ==
  ASSUME NEW repo, L!W!Throws(repo), NEW chart
  PROVE  L!W!Entry(repo, chart) = None /\ L!W!listChartVersions(repo, chart) = <<>>
  <1>1. L!W!Entry(repo, chart) = None
    <2>1. ~L!W!HasIndex(repo) BY DEF L!W!Throws, L!W!HasIndex
    <2> QED BY <2>1 DEF L!W!Entry
  <1> QED BY <1>1 DEF L!W!listChartVersions

LEMMA Asked ==
  ASSUME NEW k \in Nat, NEW list, Placed(list, k), NEW slug,
         NEW f, IsForm(f), ~f.failed, f.failed \in BOOLEAN, f.chart = slug, f.version = None,
         NEW r \in 1 .. k, None \notin L!Version, None \notin Int
  PROVE  Opened(L!W!Ask(f, list, r, slug), list, slug) /\ L!W!Ask(f, list, r, slug).repo = r
  <1> DEFINE repo == list[r]
             found == L!W!findChartInRepo(repo, slug)
             g == L!W!Ask(f, list, r, slug)
             e == L!W!Entry(repo, slug)
  <1>1. /\ DOMAIN list = 1 .. k
        /\ \A n \in 1 .. k : L!RepoTyped(list[n]) /\ list[n].id = n
    BY DEF Placed, ReposListed, L!ReposTyped
  <1>3. r # None /\ r \in DOMAIN list BY <1>1
  <1>4. CASE L!W!Throws(repo)
    <2>1. g = Failing(f, r) BY <1>4 DEF L!W!Ask, Failing
    <2> HIDE DEF g
    <2>2. IsForm(g) /\ g.failed /\ g.failed \in BOOLEAN /\ g.repo = r /\ g.chart = slug /\ g.version = None
      BY <2>1, HasFailed
    <2>3. Opened(g, list, slug) BY <1>3, <1>4, <2>2 DEF Opened
    <2> QED BY <2>2, <2>3 DEF g
  <1>5. CASE ~L!W!Throws(repo)
    <2> DEFINE h == Moved(f, r)
    <2>1. g = IF found = None THEN h ELSE Naming(h, found.chartName, found.version)
      BY <1>5 DEF L!W!Ask, L!W!Filled, Moved, Naming
    <2>2. IsForm(h) /\ ~h.failed /\ h.failed \in BOOLEAN /\ h.repo = r /\ h.chart = slug /\ h.version = None BY WasMoved
    <2> HIDE DEF h
    <2>3. CASE found = None
      <3>1. g = h BY <2>1, <2>3
      <3>2. L!W!listChartVersions(repo, slug) = <<>> BY <1>1, <2>3, FoundInRepo
      <3> HIDE DEF g
      <3>3. Opened(g, list, slug) BY <1>3, <1>5, <2>2, <3>1, <3>2 DEF Opened
      <3> QED BY <2>2, <3>1, <3>3 DEF g
    <2>4. CASE found # None
      <3> DEFINE versions == L!W!listChartVersions(repo, slug)
      <3>1. /\ found = [chartName |-> e.name, version |-> versions[1]] /\ versions # <<>>
            /\ e # None /\ versions[1] \in L!Version
        BY <1>1, <2>4, FoundInRepo
      <3>2. e.name[1] = slug[1] BY <1>1, <3>1, EntryFits
      <3>3. \A other : other[1] = slug[1] => L!W!Entry(repo, other) = e BY <1>1, EntryFits
      <3>4. L!W!Entry(repo, e.name) = e BY <3>2, <3>3
      <3>5. L!W!listChartVersions(repo, e.name) = versions BY <3>4 DEF L!W!listChartVersions
      <3>6. g = Naming(h, e.name, versions[1]) BY <2>1, <2>4, <3>1
      <3> HIDE DEF g, versions, e, found
      <3>7. IsForm(g) /\ ~g.failed /\ g.failed \in BOOLEAN /\ g.repo = r /\ g.chart = e.name /\ g.version = versions[1]
        BY <2>2, <3>6, WasNamed
      <3>8. versions[1] # None BY <3>1
      <3>9. Opened(g, list, slug) BY <1>3, <1>5, <3>1, <3>5, <3>7, <3>8 DEF Opened
      <3> QED BY <3>7, <3>9 DEF g
    <2> QED BY <2>3, <2>4
  <1> QED BY <1>4, <1>5

\* What was found is not looked for again.
LEMMA Refreshed ==
  ASSUME NEW k \in Nat, NEW list, Placed(list, k), NEW slug, NEW f, Opened(f, list, slug)
  PROVE  L!W!refreshVersions(f, list) = f
  <1>1. CASE f.failed \/ f.repo = None
    BY <1>1 DEF L!W!refreshVersions
  <1>2. CASE ~f.failed /\ f.repo # None
    <2>1. ~L!W!Throws(list[f.repo]) BY <1>2 DEF Opened
    <2>2. L!W!refreshVersions(f, list) = L!W!Offered(f, L!W!listChartVersions(list[f.repo], f.chart))
      BY <1>2, <2>1 DEF L!W!refreshVersions
    <2>3. f.version = None => L!W!listChartVersions(list[f.repo], f.chart) = <<>> BY <1>2 DEF Opened
    <2> QED BY <2>2, <2>3 DEF L!W!Offered
  <1> QED BY <1>1, <1>2

LEMMA InstallsOpen ==
  ASSUME NEW k \in Nat, NEW list, Placed(list, k), NEW slug, NEW query, NEW static,
         {query, static} \subseteq {None} \cup DOMAIN list, None \notin L!Version, None \notin Int
  PROVE  L!W!InstallOpens(list, query, static, slug)
  <1> DEFINE blank == [failed |-> FALSE, repo |-> query, chart |-> slug, version |-> None]
             first == IF query = None THEN blank ELSE L!W!Ask(blank, list, query, slug)
             r == L!W!findRepoForApp(list, static, slug)
             second == L!W!AskAgain(first, list, r, slug)
             form == L!W!refreshVersions(L!W!initializeInstallMode(list, query, static, slug), list)
             one == L!W!inferClusterRepoForChart(list, slug, None)
  <1>1. /\ DOMAIN list = 1 .. k
        /\ \A n \in 1 .. k : L!RepoTyped(list[n]) /\ list[n].id = n
    BY DEF Placed, ReposListed, L!ReposTyped
  <1>2. form = L!W!refreshVersions(second, list)
    BY DEF L!W!initializeInstallMode
  <1>3. query \in {None} \cup 1 .. k /\ static \in {None} \cup 1 .. k /\ \A n \in 1 .. k : n # None
    BY <1>1
  <1>4. r = (IF static # None THEN static ELSE one) /\ r \in {None} \cup 1 .. k
    BY <1>3, FirstHolding DEF L!W!findRepoForApp
  <1>5. Opened(first, list, slug) /\ first.repo = query
    <2>1. CASE query = None
      <3>1. first = blank /\ first.repo = query BY <2>1
      <3>2. Opened(blank, list, slug) BY <2>1 DEF Opened, IsForm
      <3> HIDE DEF blank, first
      <3> QED BY <3>1, <3>2
    <2>2. CASE query # None
      <3>0. query \in 1 .. k BY <1>3, <2>2
      <3>1. IsForm(blank) /\ ~blank.failed /\ blank.failed \in BOOLEAN /\ blank.chart = slug /\ blank.version = None BY DEF IsForm
      <3>2. first = L!W!Ask(blank, list, query, slug) BY <2>2
      <3> HIDE DEF blank, first
      <3> QED BY <3>0, <3>1, <3>2, Asked
    <2> QED BY <2>1, <2>2
  <1>6. second = IF first.failed \/ first.version # None \/ r = None THEN first ELSE L!W!Ask(first, list, r, slug)
    BY DEF L!W!AskAgain
  <1> HIDE DEF first, r, second, form
  <1>7. Opened(second, list, slug) /\ (second.version = None /\ ~second.failed /\ r # None => second.repo = r)
    <2>1. CASE first.failed \/ first.version # None
      <3>1. second = first BY <1>6, <2>1
      <3>2. first.failed \/ first.version # None BY <2>1
      <3> QED BY <1>5, <3>1, <3>2
    <2>2. CASE r = None
      BY <1>5, <1>6, <2>2
    <2>3. CASE ~first.failed /\ first.version = None /\ r # None
      <3>1. second = L!W!Ask(first, list, r, slug) BY <1>6, <2>3
      <3>2. r \in 1 .. k BY <1>4, <2>3
      <3>3. IsForm(first) /\ ~first.failed /\ first.failed \in BOOLEAN /\ first.chart = slug /\ first.version = None
        BY <1>5, <2>3 DEF Opened
      <3> QED BY <3>1, <3>2, <3>3, Asked
    <2> QED BY <2>1, <2>2, <2>3
  <1>8. form = second
    BY <1>2, <1>7, Refreshed
  <1>9. Opened(form, list, slug) /\ (form.version = None /\ ~form.failed /\ r # None => form.repo = r)
    BY <1>7, <1>8
  <1> DEFINE listed == IF form.repo = None THEN <<>> ELSE L!W!listChartVersions(list[form.repo], form.chart)
  <1>10. /\ form.version # None => listed[1] = form.version
         /\ form.version = None => listed = <<>>
    <2>1. form.failed => listed = <<>>
      <3>1. ASSUME form.failed PROVE L!W!Throws(list[form.repo]) BY <1>9, <3>1 DEF Opened
      <3> QED BY <3>1, Thrown
    <2> QED BY <1>9, <2>1 DEF Opened
  <1>11. form.failed <=> form.repo # None /\ L!W!Throws(list[form.repo])
    BY <1>9 DEF Opened
  <1>12. ASSUME form.version = None, ~form.failed, NEW n \in DOMAIN list, L!W!findChartInRepo(list[n], slug) # None,
                static = None
         PROVE  \E m \in 1 .. n - 1 : L!W!Entry(list[m], slug) # None
    <2>1. n \in 1 .. k /\ n \in Holding(list, slug)
      <3>1. L!RepoTyped(list[n]) BY <1>1, <1>12
      <3>2. L!W!Entry(list[n], slug) # None BY <1>12, <3>1, FoundInRepo
      <3> QED BY <1>1, <1>12, <3>2 DEF Holding
    <2>2. r = one BY <1>4, <1>12
    <2>3. one \in Holding(list, slug) /\ one <= n
      BY <2>1, FirstHolding
    <2>4. Holding(list, slug) \subseteq 1 .. k /\ \A m \in Holding(list, slug) : L!W!Entry(list[m], slug) # None
      BY <1>1 DEF Holding
    <2> HIDE DEF one
    <2>5. r \in 1 .. k /\ r # None /\ form.repo = r BY <1>3, <1>9, <1>12, <2>2, <2>3, <2>4
    <2>6. L!W!listChartVersions(list[r], slug) = <<>> BY <1>9, <1>12, <2>5 DEF Opened
    <2>7. L!W!findChartInRepo(list[r], slug) = None BY <1>1, <2>5, <2>6, FoundInRepo
    <2>8. r # n BY <1>12, <2>7
    <2>9. r \in 1 .. n - 1 BY <2>1, <2>2, <2>3, <2>5, <2>8
    <2> QED BY <2>2, <2>3, <2>4, <2>9
  <1> HIDE DEF listed
  <1>13. /\ form.version # None => listed[1] = form.version
         /\ form.version = None => listed = <<>>
         /\ form.failed <=> form.repo # None /\ L!W!Throws(list[form.repo])
         /\ form.version = None /\ ~form.failed =>
               \A n \in DOMAIN list : L!W!findChartInRepo(list[n], slug) # None =>
                   static # None \/ (\E m \in 1 .. n - 1 : L!W!Entry(list[m], slug) # None)
    BY <1>10, <1>11, <1>12
  <1> QED BY <1>13 DEF L!W!InstallOpens, form, listed

LEMMA ManagesOpen ==
  ASSUME NEW k \in Nat, NEW list, Placed(list, k), NEW releases, NEW name,
         releases # None => L!SecretsTyped(releases), None \notin L!Version, None \notin Int
  PROVE  L!W!ManageOpens(list, releases, name)
  <1> DEFINE first == L!W!initializeManageMode(list, releases, name)
             form == L!W!refreshVersions(first, list)
             secret == IF releases = None THEN None ELSE L!W!findHelmReleaseObjects(releases)
             listed == IF form.repo = None THEN {} ELSE L!W!ToSet(L!W!listChartVersions(list[form.repo], form.chart))
             Lists(r) == form.version \in L!W!ToSet(L!W!listChartVersions(r, form.chart))
  <1>1. /\ DOMAIN list = 1 .. k
        /\ \A n \in 1 .. k : L!RepoTyped(list[n]) /\ list[n].id = n
    BY DEF Placed, ReposListed, L!ReposTyped
  <1>2. \A n \in 1 .. k : n # None
    OBVIOUS
  <1>3. CASE releases = None
    <2>1. first = [failed |-> TRUE, repo |-> None, chart |-> name, version |-> None]
      BY <1>3 DEF L!W!initializeManageMode
    <2>2. form = first BY <2>1 DEF L!W!refreshVersions
    <2>3. secret = None BY <1>3
    <2> HIDE DEF secret, form, first
    <2> QED BY <1>3, <2>1, <2>2, <2>3 DEF L!W!ManageOpens, secret, form, first
  <1>4. CASE releases # None
    <2> DEFINE chart == IF secret = None THEN name ELSE secret.release.name
               version == IF secret = None THEN None ELSE secret.release.version
               repo == L!W!inferClusterRepoForChart(list, chart, None)
               versions == IF repo = None THEN <<>> ELSE L!W!listChartVersions(list[repo], chart)
               known == IF version = None /\ versions # <<>> THEN versions[1] ELSE version
    <2>1. first = [failed |-> FALSE, repo |-> repo, chart |-> chart, version |-> version]
      <3> DEFINE details == L!W!getInstalledHelmDetails(releases, name)
      <3>1. details.chartName = chart /\ details.chartVersion = version
        <4>1. secret = L!W!findHelmReleaseObjects(releases) BY <1>4
        <4> HIDE DEF secret
        <4> QED BY <4>1 DEF L!W!getInstalledHelmDetails
      <3> HIDE DEF details, chart, version
      <3> QED BY <1>4, <3>1 DEF L!W!initializeManageMode, details
    <2>2. secret # None => version \in L!Version
      <3> SUFFICES ASSUME secret # None PROVE secret.release.version \in L!Version OBVIOUS
      <3>1. Len(releases) \in Nat /\ releases = [n \in 1 .. Len(releases) |-> releases[n]]
            /\ L!W!findHelmReleaseObjects(releases) # None
        BY <1>4 DEF L!SecretsTyped, L!IsList
      <3>2. PICK n \in 1 .. Len(releases) : secret = releases[n] /\ releases[n].release # None
        BY <1>4, <3>1, ReleaseFound
      <3>3. n \in DOMAIN releases BY <3>1, <3>2
      <3> QED BY <1>4, <3>2, <3>3 DEF L!SecretsTyped
    <2>3. /\ Holding(list, chart) = {} => repo = None
          /\ Holding(list, chart) # {} => repo \in Holding(list, chart) /\ \A n \in Holding(list, chart) : repo <= n
          /\ repo \in {None} \cup 1 .. k
      BY FirstHolding
    <2>4. Holding(list, chart) = {n \in 1 .. k : L!W!Entry(list[n], chart) # None}
      BY <1>1 DEF Holding
    <2> HIDE DEF chart, repo, secret
    <2>5. repo # None => repo \in 1 .. k /\ ~L!W!Throws(list[repo]) /\ L!W!Entry(list[repo], chart) # None
      <3> SUFFICES ASSUME repo # None
                   PROVE  repo \in 1 .. k /\ ~L!W!Throws(list[repo]) /\ L!W!Entry(list[repo], chart) # None
        OBVIOUS
      <3>1. repo \in 1 .. k /\ L!W!Entry(list[repo], chart) # None BY <2>3, <2>4
      <3> QED BY <3>1, Thrown
    <2>6. form.failed = FALSE /\ form.repo = repo /\ form.chart = chart /\ form.version = known
      <3> HIDE DEF first, version
      <3>1. CASE repo = None
        <4>1. known = version BY <3>1
        <4>2. form = first BY <2>1, <3>1 DEF L!W!refreshVersions
        <4> HIDE DEF form
        <4> QED BY <2>1, <4>1, <4>2
      <3>2. CASE repo # None
        <4>1. versions = L!W!listChartVersions(list[repo], chart) BY <3>2
        <4>2. ~first.failed /\ first.repo # None /\ ~L!W!Throws(list[first.repo]) BY <2>1, <2>5, <3>2
        <4>3. form = L!W!Offered(first, versions) BY <2>1, <4>1, <4>2 DEF L!W!refreshVersions
        <4> HIDE DEF form, versions
        <4>4. form = IF version = None /\ versions # <<>> THEN Offering(first, versions[1]) ELSE first
          BY <2>1, <4>3 DEF L!W!Offered, Offering
        <4>5. IsForm(first) BY <2>1 DEF IsForm
        <4> DEFINE g == Offering(first, versions[1])
        <4>6. g.failed = first.failed /\ g.repo = first.repo /\ g.chart = first.chart /\ g.version = versions[1]
          BY <4>5, IsOffered
        <4> HIDE DEF g
        <4>7. /\ first.failed = FALSE /\ first.repo = repo /\ first.chart = chart /\ first.version = version
          BY <2>1
        <4>8. CASE version = None /\ versions # <<>>
          <5>1. form = g
            <6>1. form = Offering(first, versions[1]) BY <4>4, <4>8
            <6> QED BY <6>1 DEF g
          <5>2. known = versions[1] BY <4>8
          <5> HIDE DEF known
          <5> QED BY <4>6, <4>7, <5>1, <5>2
        <4>9. CASE ~(version = None /\ versions # <<>>)
          BY <4>4, <4>7, <4>9
        <4> QED BY <4>8, <4>9
      <3> QED BY <3>1, <3>2
    <2>7. secret # None => known = version /\ version # None
      BY <2>2
    <2>8. \A n \in 1 .. k : L!W!listChartVersions(list[n], chart) # <<>> => n \in Holding(list, chart)
      <3> TAKE n \in 1 .. k
      <3>1. L!RepoTyped(list[n]) BY <1>1
      <3> QED BY <2>4, <3>1, ChartListed
    <2> DEFINE all == IF repo = None THEN {} ELSE L!W!ToSet(L!W!listChartVersions(list[repo], chart))
               In(r) == known \in L!W!ToSet(L!W!listChartVersions(r, chart))
    <2>9. ASSUME secret = None, known # None PROVE known \in all
      <3>1. version = None BY <2>9
      <3>2. repo # None /\ versions # <<>> /\ known = versions[1] /\ versions = L!W!listChartVersions(list[repo], chart)
        BY <2>9, <3>1
      <3>3. L!RepoTyped(list[repo]) /\ L!W!Entry(list[repo], chart) # None BY <1>1, <2>5, <3>2
      <3>4. L!W!findChartInRepo(list[repo], chart) # None BY <3>2, <3>3, FoundInRepo
      <3>5. 1 \in DOMAIN L!W!listChartVersions(list[repo], chart) BY <3>3, <3>4, FoundInRepo
      <3> HIDE DEF versions, known
      <3>6. known \in L!W!ToSet(L!W!listChartVersions(list[repo], chart)) BY <3>2, <3>5 DEF L!W!ToSet
      <3> QED BY <3>2, <3>6
    <2>10. ASSUME known # None, known \notin all, NEW n \in DOMAIN list, In(list[n])
           PROVE  \E m \in 1 .. n - 1 : L!W!Entry(list[m], chart) # None /\ ~In(list[m])
      <3> HIDE DEF known
      <3>1. n \in 1 .. k BY <1>1
      <3>2. L!W!listChartVersions(list[n], chart) # <<>>
        <4>1. L!W!ToSet(<<>>) = {} BY DEF L!W!ToSet
        <4> QED BY <2>10, <4>1
      <3>3. n \in Holding(list, chart) BY <2>8, <3>1, <3>2
      <3>4. repo \in Holding(list, chart) /\ repo <= n BY <2>3, <3>3
      <3>5. repo \in 1 .. k /\ L!W!Entry(list[repo], chart) # None /\ repo # None BY <1>2, <2>4, <3>4
      <3>6. ~In(list[repo]) BY <2>10, <3>5
      <3>7. repo # n BY <2>10, <3>6
      <3>8. repo \in 1 .. n - 1 BY <3>1, <3>4, <3>5, <3>7
      <3> QED BY <3>5, <3>6, <3>8
    <2> HIDE DEF known, version, form
    <2>11. /\ ~form.failed /\ form.chart = chart /\ form.version = known /\ form.repo = repo
           /\ listed = all /\ \A r : Lists(r) <=> In(r)
      BY <2>6
    <2>12. secret = None => chart = name
      BY DEF chart
    <2>13. secret # None => chart = secret.release.name /\ version = secret.release.version
      BY DEF chart, version
    <2> HIDE DEF all, listed
    <2>14. /\ secret # None => form.version = secret.release.version /\ form.chart = secret.release.name
           /\ secret = None => form.chart = name /\ (form.version # None => form.version \in listed)
      BY <2>7, <2>9, <2>11, <2>12, <2>13
    <2>15. form.version # None /\ form.version \notin listed =>
              \A n \in DOMAIN list : Lists(list[n]) =>
                 \E m \in 1 .. n - 1 : L!W!Entry(list[m], form.chart) # None /\ ~Lists(list[m])
      BY <2>10, <2>11
    <2> QED BY <1>4, <2>11, <2>14, <2>15 DEF L!W!ManageOpens, listed, form, first, secret
  <1> QED BY <1>3, <1>4

-----------------------------------------------------------------------------
(* What is found in two clusters *)

Finds == {None} \cup L!Found
Ids(found) == IF found = None THEN <<>> ELSE found.clusters
SeenIn(found) == L!W!ToSet(Ids(found))

\* What a hit in a cluster makes of what was found.
Added(found, c, place) ==
  IF found = None THEN [at |-> <<c.id, place>>, clusters |-> <<c.id>>]
  ELSE IF L!W!Contains(found.clusters, c.id) THEN found
  ELSE [found EXCEPT !.clusters = Append(@, c.id)]

LEMMA AddedFits ==
  ASSUME None \notin L!Found, NEW found \in Finds, NEW c, c.id \in {1, 2}, NEW place \in {"app", "helm"} \cup Nat
  PROVE  /\ Added(found, c, place) \in L!Found
         /\ c.id \in SeenIn(found) => Added(found, c, place) = found
         /\ c.id \notin SeenIn(found) => Ids(Added(found, c, place)) = Append(Ids(found), c.id)
         /\ c.id \in SeenIn(Added(found, c, place))
  <1> DEFINE r == Added(found, c, place)
  <1>0. c.id = 1 \/ c.id = 2 OBVIOUS
  <1>1. CASE found = None
    <2>1. r = [at |-> <<c.id, place>>, clusters |-> <<c.id>>] BY <1>1 DEF Added
    <2>2. r \in L!Found BY <2>1 DEF L!Found
    <2>3. Ids(found) = <<>> /\ SeenIn(found) = {} BY <1>1 DEF Ids, SeenIn, L!W!ToSet
    <2>4. r.clusters = <<c.id>> BY <2>1
    <2> HIDE DEF r
    <2>5. r # None BY <2>2
    <2>6. Ids(r) = <<c.id>> BY <2>4, <2>5 DEF Ids
    <2>7. <<c.id>> = Append(<<>>, c.id) OBVIOUS
    <2>8. c.id \in SeenIn(r) BY <2>6 DEF SeenIn, L!W!ToSet
    <2> QED BY <2>2, <2>3, <2>6, <2>7, <2>8 DEF r
  <1>2. CASE found # None
    <2> DEFINE s == found.clusters
    <2>1. found \in L!Found BY <1>2 DEF Finds
    <2>2. /\ found = [at |-> found.at, clusters |-> found.clusters]
          /\ s \in Seq({1, 2}) /\ found.at \in {1, 2} \X ({"app", "helm"} \cup Nat)
      BY <2>1 DEF L!Found
    <2>3. Ids(found) = s /\ SeenIn(found) = {s[i] : i \in DOMAIN s} BY <1>2 DEF Ids, SeenIn, L!W!ToSet
    <2>4. DOMAIN s = 1 .. Len(s) BY <2>2
    <2>5. L!W!Contains(s, c.id) <=> c.id \in SeenIn(found) BY <2>3, <2>4 DEF L!W!Contains
    <2>6. CASE c.id \in SeenIn(found)
      <3>1. r = found BY <1>2, <2>5, <2>6 DEF Added
      <3> QED BY <2>1, <2>6, <3>1
    <2>7. CASE c.id \notin SeenIn(found)
      <3>1. r = [found EXCEPT !.clusters = Append(s, c.id)] BY <1>2, <2>5, <2>7 DEF Added
      <3>2. r = [at |-> found.at, clusters |-> Append(s, c.id)] BY <2>2, <3>1
      <3> HIDE DEF r, s
      <3>3. Append(s, c.id) \in Seq({1, 2}) BY <2>2
      <3>4. r \in L!Found BY <2>2, <3>2, <3>3 DEF L!Found
      <3>5. r # None BY <3>4
      <3>6. Ids(r) = Append(s, c.id) BY <3>2, <3>5 DEF Ids
      <3>7. Append(s, c.id)[Len(s) + 1] = c.id /\ Len(s) + 1 \in DOMAIN Append(s, c.id) BY <2>2
      <3>8. c.id \in SeenIn(r) BY <3>6, <3>7 DEF SeenIn, L!W!ToSet
      <3> QED BY <2>3, <2>7, <3>4, <3>6, <3>8 DEF r
    <2> QED BY <2>6, <2>7
  <1> QED BY <1>1, <1>2

Holds(c) == c.app \/ \E n \in DOMAIN c.namespaces : c.namespaces[n]
Unseen(c) == ~c.app /\ IF c.wide THEN ~L!W!OnPage(c) ELSE c.listed => c.namespaces[1] = FALSE
Lost(c) == IF c.wide THEN Unseen(c) ELSE ~c.listed
Looked(c) == c.id \in {1, 2} /\ c.app \in BOOLEAN /\ c.wide \in BOOLEAN /\ c.listed \in BOOLEAN
             /\ c.namespaces \in Seq(BOOLEAN) /\ c.namespaces # <<>>

\* A search goes on from what was found: it adds the cluster, or nothing.
Adds(found, c, r) == Holds(c) /\ Ids(r) = Append(Ids(found), c.id)
Skips(found, c, r) ==
  r = found /\ (Holds(c) => Unseen(c)) /\ (Holds(c) /\ found = None => Lost(c))

LEMMA SearchFits ==
  ASSUME None \notin L!Found, NEW found \in Finds, NEW c, Looked(c)
  PROVE  /\ L!W!SearchCluster(found, c) \in Finds
         /\ c.id \notin SeenIn(found) =>
               \/ Adds(found, c, L!W!SearchCluster(found, c))
               \/ Skips(found, c, L!W!SearchCluster(found, c))
  <1> DEFINE r == L!W!SearchCluster(found, c)
             ns == c.namespaces
             hits == {n \in DOMAIN ns : ns[n]}
             n == IF hits = {} THEN 0 ELSE L!W!Least(hits)
             afterApp == IF c.app THEN Added(found, c, "app") ELSE found
  <1>1. n = L!W!FirstOf(ns, LAMBDA hit : hit) BY DEF L!W!FirstOf
  <1>2. r = IF c.wide THEN IF L!W!OnPage(c) THEN Added(afterApp, c, "helm") ELSE afterApp
            ELSE IF ~c.listed \/ ns = <<>> THEN afterApp
            ELSE IF afterApp # None THEN IF ns[1] THEN Added(afterApp, c, 1) ELSE afterApp
            ELSE IF n # 0 THEN Added(afterApp, c, n) ELSE afterApp
    <2> HIDE DEF n
    <2> QED BY <1>1 DEF L!W!SearchCluster, L!W!FallbackSearch, L!W!Noted, Added
  <1>3. DOMAIN ns = 1 .. Len(ns) /\ 1 \in DOMAIN ns /\ \A k \in DOMAIN ns : ns[k] \in BOOLEAN
    BY DEF Looked
  <1>4. n \in Nat /\ (n # 0 <=> \E k \in DOMAIN ns : ns[k])
    <2>1. CASE hits = {}
      BY <2>1
    <2>2. CASE hits # {}
      <3>1. hits \in SUBSET (1 .. Len(ns)) /\ hits \subseteq Nat BY <1>3
      <3>2. \E k \in hits : \A m \in hits : k <= m
        <4> HIDE DEF hits
        <4> QED BY <2>2, <3>1, NatLeast
      <3>3. L!W!Least(hits) \in hits BY <3>2 DEF L!W!Least
      <3> QED BY <1>3, <2>2, <3>3
    <2> QED BY <2>1, <2>2
  <1>5. c.id \in {1, 2} /\ c.app \in BOOLEAN /\ c.wide \in BOOLEAN /\ c.listed \in BOOLEAN /\ ns # <<>>
    BY DEF Looked
  <1>6. ASSUME NEW place \in {"app", "helm"} \cup Nat, NEW x \in Finds
        PROVE  /\ Added(x, c, place) \in L!Found
               /\ c.id \in SeenIn(x) => Added(x, c, place) = x
               /\ c.id \notin SeenIn(x) => Ids(Added(x, c, place)) = Append(Ids(x), c.id)
               /\ c.id \in SeenIn(Added(x, c, place))
    BY <1>5, AddedFits
  <1>7. {Added(x, c, place) : x \in Finds, place \in {"app", "helm"} \cup Nat} \subseteq Finds
    BY <1>6 DEF Finds
  <1> HIDE DEF n, ns
  <1>8. afterApp \in Finds BY <1>6 DEF Finds
  <1>9. r \in Finds
    <2> HIDE DEF afterApp, r
    <2>1. "helm" \in {"app", "helm"} \cup Nat /\ 1 \in {"app", "helm"} \cup Nat /\ n \in {"app", "helm"} \cup Nat
      BY <1>4
    <2> QED BY <1>2, <1>6, <1>8, <2>1 DEF Finds
  <1>10. ASSUME c.id \notin SeenIn(found), c.app PROVE Adds(found, c, r)
    <2>1. afterApp = Added(found, c, "app") BY <1>10
    <2>2. afterApp \in Finds /\ c.id \in SeenIn(afterApp) /\ Ids(afterApp) = Append(Ids(found), c.id) BY <1>6, <1>10, <2>1 DEF Finds
    <2> HIDE DEF afterApp
    <2>3. Added(afterApp, c, "helm") = afterApp /\ Added(afterApp, c, 1) = afterApp /\ Added(afterApp, c, n) = afterApp
      BY <1>4, <1>6, <2>2
    <2> HIDE DEF r
    <2>4. r = afterApp BY <1>2, <2>3
    <2> QED BY <1>10, <2>2, <2>4 DEF Adds, Holds
  <1>11. ASSUME c.id \notin SeenIn(found), ~c.app PROVE Adds(found, c, r) \/ Skips(found, c, r)
    <2>1. afterApp = found BY <1>11
    <2>2. Holds(c) <=> \E k \in DOMAIN ns : ns[k] BY <1>11 DEF Holds, ns
    <2>3. \A place \in {"app", "helm"} \cup Nat : Ids(Added(found, c, place)) = Append(Ids(found), c.id)
      BY <1>6, <1>11
    <2>4. "helm" \in {"app", "helm"} \cup Nat /\ 1 \in {"app", "helm"} \cup Nat /\ n \in {"app", "helm"} \cup Nat
      BY <1>4
    <2> HIDE DEF afterApp, r
    <2>5. CASE r = found /\ ~Holds(c)
      BY <2>5 DEF Skips
    <2>6. CASE c.wide /\ L!W!OnPage(c)
      <3>1. r = Added(found, c, "helm") BY <1>2, <2>1, <2>6
      <3>2. Holds(c) BY <2>6 DEF L!W!OnPage, Holds
      <3> QED BY <2>3, <2>4, <3>1, <3>2 DEF Adds
    <2>7. CASE c.wide /\ ~L!W!OnPage(c)
      <3>1. r = found BY <1>2, <2>1, <2>7
      <3> QED BY <1>11, <2>7, <3>1 DEF Skips, Unseen, Lost
    <2>8. CASE ~c.wide /\ ~c.listed
      <3>1. r = found BY <1>2, <2>1, <2>8
      <3> QED BY <1>11, <2>8, <3>1 DEF Skips, Unseen, Lost
    <2>9. CASE ~c.wide /\ c.listed /\ found # None
      <3>1. r = IF ns[1] THEN Added(found, c, 1) ELSE found BY <1>2, <1>5, <2>1, <2>9
      <3>2. CASE ns[1]
        <4>1. r = Added(found, c, 1) BY <3>1, <3>2
        <4>2. Holds(c) BY <1>3, <2>2, <3>2
        <4> QED BY <2>3, <2>4, <4>1, <4>2 DEF Adds
      <3>3. CASE ~ns[1]
        <4>1. r = found BY <3>1, <3>3
        <4>2. c.namespaces[1] = FALSE BY <1>3, <3>3 DEF ns
        <4> QED BY <1>11, <2>9, <4>1, <4>2 DEF Skips, Unseen, Lost
      <3> QED BY <3>2, <3>3
    <2>10. CASE ~c.wide /\ c.listed /\ found = None
      <3>1. r = IF n # 0 THEN Added(found, c, n) ELSE found BY <1>2, <1>5, <2>1, <2>10
      <3>2. CASE Holds(c)
        <4>1. r = Added(found, c, n) BY <1>4, <2>2, <3>1, <3>2
        <4> QED BY <2>3, <2>4, <3>2, <4>1 DEF Adds
      <3>3. CASE ~Holds(c)
        <4>1. r = found BY <1>4, <2>2, <3>1, <3>3
        <4> QED BY <3>3, <4>1 DEF Skips
      <3> QED BY <3>2, <3>3
    <2> QED BY <1>5, <2>6, <2>7, <2>8, <2>9, <2>10
  <1> QED BY <1>9, <1>10, <1>11

\* Clusters searched one after the other.
InTurn(list) == L!W!FoldLeft(L!W!SearchCluster, None, list)

LEMMA InTurnTwo ==
  ASSUME None \notin L!Found, NEW a, NEW b, Looked(a), Looked(b), NEW list, list = <<a, b>>
  PROVE  InTurn(list) = L!W!SearchCluster(L!W!SearchCluster(None, a), b)
  <1> DEFINE A == Finds
             turn == [k \in Nat |-> [x \in A |-> IF k \in 1 .. 2 THEN L!W!SearchCluster(x, list[k]) ELSE x]]
             Is(iter) == iter = [s \in SUBSET (DOMAIN list) |->
                            IF s = {} THEN None
                            ELSE LET x == L!W!Max(s) IN L!W!SearchCluster(iter[s \ {x}], list[x])]
             fold == CHOOSE iter : Is(iter)
  <1>1. InTurn(list) = fold[DOMAIN list]
    BY DEF InTurn, L!W!FoldLeft, L!W!MapThenFoldSet
  <1>2. /\ DOMAIN list = 1 .. 2 /\ list[1] = a /\ list[2] = b /\ None \in A
        /\ \A k \in 1 .. 2 : Looked(list[k])
    <2>1. DOMAIN list = 1 .. 2 /\ list[1] = a /\ list[2] = b OBVIOUS
    <2>2. \A k \in 1 .. 2 : k = 1 \/ k = 2 OBVIOUS
    <2> QED BY <2>1, <2>2 DEF Finds
  <1>3. turn \in [Nat -> [A -> A]]
    <2> SUFFICES ASSUME NEW k \in 1 .. 2, NEW x \in A PROVE L!W!SearchCluster(x, list[k]) \in A
      OBVIOUS
    <2>1. Looked(list[k]) BY <1>2
    <2> QED BY <2>1, SearchFits
  <1>4. \A k \in 1 .. 2, x \in A : turn[k][x] = L!W!SearchCluster(x, list[k])
    OBVIOUS
  <1>5. \A s \in SUBSET (1 .. 2) : s # {} => L!W!Max(s) \in s /\ (\A y \in s : y <= L!W!Max(s))
    <2> SUFFICES ASSUME NEW s \in SUBSET (1 .. 2), s # {}
                 PROVE  L!W!Max(s) \in s /\ \A y \in s : y <= L!W!Max(s)
      OBVIOUS
    <2>1. \E x \in s : \A y \in s : y <= x
      <3>1. 2 \in Nat OBVIOUS
      <3> QED BY <3>1, GreatestFits
    <2>2. \E x \in s : \A y \in s : x >= y BY <2>1
    <2>3. L!W!Max(s) \in s /\ \A y \in s : L!W!Max(s) >= y BY <2>2 DEF L!W!Max
    <2> QED BY <2>3
  <1> HIDE DEF A, turn
  <1>6. \E iter : Is(iter)
    <2>0. 2 \in Nat OBVIOUS
    <2>1. PICK iter \in [SUBSET (1 .. 2) -> A] : Iterates(iter, 2, A, None, turn)
      BY <1>2, <1>3, <2>0, FoldExists
    <2>2. ASSUME NEW s \in SUBSET (1 .. 2), s # {}
          PROVE  iter[s] = L!W!SearchCluster(iter[s \ {L!W!Max(s)}], list[L!W!Max(s)])
      <3>1. L!W!Max(s) \in s /\ (\A y \in s : y <= L!W!Max(s)) /\ L!W!Max(s) \in 1 .. 2 BY <1>5, <2>2
      <3>2. s \ {L!W!Max(s)} \in SUBSET (1 .. 2) OBVIOUS
      <3>3. iter[s \ {L!W!Max(s)}] \in A BY <3>2
      <3>4. iter[s] = turn[L!W!Max(s)][iter[s \ {L!W!Max(s)}]] BY <2>1, <3>1, <3>3 DEF Iterates
      <3> QED BY <1>4, <3>1, <3>3, <3>4
    <2>3. iter[{}] = None BY <2>1 DEF Iterates
    <2>4. Is(iter) BY <1>2, <2>2, <2>3
    <2> QED BY <2>4
  <1>7. Is(fold) BY <1>6
  <1>8. Iterates(fold, 2, A, None, turn)
    <2>1. fold[{}] = None BY <1>7
    <2>2. ASSUME NEW s \in SUBSET (1 .. 2), NEW x \in 1 .. 2, x \in s, \A y \in s : y <= x, fold[s \ {x}] \in A
          PROVE  fold[s] = turn[x][fold[s \ {x}]]
      <3>1. L!W!Max(s) \in s /\ x <= L!W!Max(s) /\ L!W!Max(s) <= x
        <4>1. s # {} /\ x \in s /\ \A y \in s : y <= x BY <2>2
        <4> QED BY <1>5, <4>1
      <3>3. L!W!Max(s) = x
        <4>1. L!W!Max(s) \in 1 .. 2 BY <3>1
        <4>2. \A y \in 1 .. 2 : x <= y /\ y <= x => y = x OBVIOUS
        <4> QED BY <3>1, <4>1, <4>2
      <3>2. fold[s] = L!W!SearchCluster(fold[s \ {x}], list[x]) BY <1>2, <1>7, <2>2, <3>3
      <3> QED BY <1>4, <2>2, <3>2
    <2> HIDE DEF fold
    <2> QED BY <2>1, <2>2 DEF Iterates
  <1> HIDE DEF fold
  <1>9. PICK F : FoldsTo(F, 2, A, None, turn) /\ fold[1 .. 2] = F[2]
    <2> DEFINE n == 2
    <2>1. n \in Nat /\ Iterates(fold, n, A, None, turn) BY <1>8
    <2> HIDE DEF n
    <2>2. \E F : FoldsTo(F, n, A, None, turn) /\ fold[1 .. n] = F[n] BY <1>2, <1>3, <2>1, FoldValue
    <2> QED BY <2>2 DEF n
  <1>10. F[0] = None /\ \A k \in 0 .. 1 : F[k] \in A /\ F[k + 1] = L!W!SearchCluster(F[k], list[k + 1])
    <2>1. F \in [0 .. 2 -> A] /\ F[0] = None /\ \A k \in 0 .. 2 - 1 : F[k + 1] = turn[k + 1][F[k]]
      BY <1>9 DEF FoldsTo
    <2>2. \A k \in 0 .. 1 : k \in 0 .. 2 - 1 /\ k \in 0 .. 2 /\ k + 1 \in 1 .. 2 OBVIOUS
    <2> QED BY <1>4, <2>1, <2>2
  <1>11. 0 \in 0 .. 1 /\ 1 \in 0 .. 1 /\ 0 + 1 = 1 /\ 1 + 1 = 2 OBVIOUS
  <1>12. F[1] = L!W!SearchCluster(F[0], list[1]) /\ F[2] = L!W!SearchCluster(F[1], list[2]) BY <1>10, <1>11
  <1> QED BY <1>1, <1>2, <1>9, <1>10, <1>12

\* The preferred one first.
LEMMA PreferredFirst ==
  ASSUME NEW a, NEW b, a.id = 1, b.id = 2, NEW prefer
  PROVE  L!W!discoverExistingInstall(<<a, b>>, prefer) = InTurn(IF prefer = 2 THEN <<b, a>> ELSE <<a, b>>)
  <1> DEFINE list == <<a, b>>
             those == {n \in DOMAIN list : list[n].id = prefer}
             besides == {n \in DOMAIN list : list[n].id # prefer}
  <1>1. L!W!discoverExistingInstall(list, prefer) = InTurn(OnlyAt(list, those) \o OnlyAt(list, besides))
    <2>1. L!W!OnlyAt(list, those) = OnlyAt(list, those) /\ L!W!OnlyAt(list, besides) = OnlyAt(list, besides)
      <3> HIDE DEF list, those, besides
      <3> QED BY SameOnlyAt
    <2>2. L!W!discoverExistingInstall(list, prefer) = InTurn(L!W!OnlyAt(list, those) \o L!W!OnlyAt(list, besides))
      <3> HIDE DEF list
      <3> QED BY DEF L!W!discoverExistingInstall, L!W!Filtered, InTurn
    <2> HIDE DEF list, those, besides
    <2> QED BY <2>1, <2>2
  <1>2. DOMAIN list = {1, 2} /\ list[1].id = 1 /\ list[2].id = 2 OBVIOUS
  <1>3. those \subseteq {1, 2} /\ besides \subseteq {1, 2} /\ (1 \in those <=> prefer = 1) /\ (2 \in those <=> prefer = 2)
        /\ (1 \in besides <=> prefer # 1) /\ (2 \in besides <=> prefer # 2)
    <2> HIDE DEF list
    <2> QED BY <1>2
  <1> HIDE DEF those, besides
  <1>4. /\ OnlyAt(<<a, b>>, those) = Left(a, b, 1 \in those, 2 \in those)
        /\ OnlyAt(<<a, b>>, besides) = Left(a, b, 1 \in besides, 2 \in besides)
    BY <1>3, OnlyAtTwo
  <1>5. OnlyAt(list, those) \o OnlyAt(list, besides) = IF prefer = 2 THEN <<b, a>> ELSE <<a, b>>
    <2>1. <<>> \o <<a, b>> = <<a, b>> /\ <<a>> \o <<b>> = <<a, b>> /\ <<b>> \o <<a>> = <<b, a>>
      BY TwoTogether
    <2>2. CASE prefer = 1
      <3>1. OnlyAt(list, those) = <<a>> /\ OnlyAt(list, besides) = <<b>> BY <1>3, <1>4, <2>2 DEF Left
      <3>2. <<a>> \o <<b>> = <<a, b>> BY <2>1
      <3>3. prefer # 2 BY <2>2
      <3> HIDE DEF list
      <3>4. OnlyAt(list, those) \o OnlyAt(list, besides) = <<a, b>> BY <3>1, <3>2
      <3> QED BY <3>3, <3>4
    <2>3. CASE prefer = 2
      <3>1. OnlyAt(list, those) = <<b>> /\ OnlyAt(list, besides) = <<a>> BY <1>3, <1>4, <2>3 DEF Left
      <3>2. <<b>> \o <<a>> = <<b, a>> BY <2>1
      <3>3. prefer = 2 BY <2>3
      <3> HIDE DEF list
      <3>4. OnlyAt(list, those) \o OnlyAt(list, besides) = <<b, a>> BY <3>1, <3>2
      <3> QED BY <3>3, <3>4
    <2>4. CASE prefer # 1 /\ prefer # 2
      <3>1. OnlyAt(list, those) = <<>> /\ OnlyAt(list, besides) = <<a, b>> BY <1>3, <1>4, <2>4 DEF Left
      <3>2. <<>> \o <<a, b>> = <<a, b>> BY <2>1
      <3>3. prefer # 2 BY <2>4
      <3> HIDE DEF list
      <3>4. OnlyAt(list, those) \o OnlyAt(list, besides) = <<a, b>> BY <3>1, <3>2
      <3> QED BY <3>3, <3>4
    <2> QED BY <2>2, <2>3, <2>4
  <1> QED BY <1>1, <1>5

\* What two searches find, whichever came first.
LEMMA FoundInTwo ==
  ASSUME None \notin L!Found, NEW a, NEW b, Looked(a), Looked(b), a.id # b.id, NEW found,
         found = L!W!SearchCluster(L!W!SearchCluster(None, a), b)
  PROVE  /\ found \in Finds
         /\ SeenIn(found) \subseteq {c.id : c \in {x \in {a, b} : Holds(x)}}
         /\ \A c \in {a, b} : Holds(c) /\ ~Unseen(c) => c.id \in SeenIn(found)
         /\ found = None => \A c \in {a, b} : Holds(c) => Lost(c)
         /\ a.id \in SeenIn(found) => Ids(found)[1] = a.id
  <1> DEFINE once == L!W!SearchCluster(None, a)
  <1>1. None \in Finds /\ Ids(None) = <<>> /\ SeenIn(None) = {} BY DEF Finds, Ids, SeenIn, L!W!ToSet
  <1>2. once \in Finds /\ (Adds(None, a, once) \/ Skips(None, a, once))
    BY <1>1, SearchFits
  <1>3. /\ Adds(None, a, once) => Holds(a) /\ Ids(once) = <<a.id>>
        /\ Skips(None, a, once) =>
              once = None /\ (Holds(a) => Unseen(a)) /\ (Holds(a) => Lost(a))
    BY <1>1 DEF Adds, Skips
  <1> HIDE DEF once
  <1>4. ASSUME Adds(None, a, once) PROVE SeenIn(once) = {a.id}
    BY <1>3, <1>4 DEF SeenIn, L!W!ToSet
  <1>5. b.id \notin SeenIn(once)
    BY <1>1, <1>2, <1>3, <1>4
  <1>6. found \in Finds /\ (Adds(once, b, found) \/ Skips(once, b, found))
    BY <1>2, <1>5, SearchFits DEF once
  <1>7. /\ Append(<<>>, a.id) = <<a.id>> /\ Append(<<>>, b.id) = <<b.id>>
        /\ Append(<<a.id>>, b.id) = <<a.id, b.id>>
    <2>1. a.id \in {1, 2} /\ b.id \in {1, 2} BY DEF Looked
    <2>2. ASSUME NEW x \in {1, 2}, NEW y \in {1, 2} PROVE Append(<<>>, y) = <<y>> /\ Append(<<x>>, y) = <<x, y>>
      <3>1. <<>> \in Seq(Int) /\ <<x>> \in Seq(Int) /\ Len(<<>>) = 0 /\ Len(<<x>>) = 1 OBVIOUS
      <3>2. Append(<<>>, y) = <<y>> BY <3>1
      <3>3. Append(<<x>>, y) = <<x>> \o <<y>>
        <4> DEFINE list == <<x>>
        <4>1. list \in Seq(Int) /\ y \in Int BY <3>1
        <4> HIDE DEF list
        <4>2. Append(list, y) = list \o <<y>> BY <4>1, AppendIsConcat
        <4> QED BY <4>2 DEF list
      <3>4. <<x>> \o <<y>> = <<x, y>> BY TwoTogether
      <3> QED BY <3>2, <3>3, <3>4
    <2> QED BY <2>1, <2>2
  <1>8. \A x : Ids(x) # <<>> => x # None BY DEF Ids
  <1>9. \A x, y : L!W!ToSet(<<x>>) = {x} /\ L!W!ToSet(<<x, y>>) = {x, y} BY DEF L!W!ToSet
  <1>10. CASE Adds(None, a, once) /\ Adds(once, b, found)
    <2>1. Holds(a) /\ Holds(b) /\ Ids(found) = <<a.id, b.id>> BY <1>3, <1>7, <1>10 DEF Adds
    <2>2. SeenIn(found) = {a.id, b.id} BY <1>9, <2>1 DEF SeenIn
    <2>3. found # None /\ Ids(found)[1] = a.id
      <3>1. <<a.id, b.id>> # <<>> /\ <<a.id, b.id>>[1] = a.id OBVIOUS
      <3> QED BY <1>8, <2>1, <3>1
    <2> QED BY <1>6, <2>1, <2>2, <2>3
  <1>11. CASE Adds(None, a, once) /\ Skips(once, b, found)
    <2>1. Holds(a) /\ Ids(found) = <<a.id>> /\ (Holds(b) => Unseen(b)) BY <1>3, <1>11 DEF Skips
    <2>2. SeenIn(found) = {a.id} BY <1>9, <2>1 DEF SeenIn
    <2>3. found # None /\ Ids(found)[1] = a.id
      <3>1. <<a.id>> # <<>> /\ <<a.id>>[1] = a.id OBVIOUS
      <3> QED BY <1>8, <2>1, <3>1
    <2> QED BY <1>6, <2>1, <2>2, <2>3
  <1>12. CASE Skips(None, a, once) /\ Adds(once, b, found)
    <2>1. Holds(b) /\ Ids(found) = <<b.id>> /\ (Holds(a) => Unseen(a)) BY <1>1, <1>3, <1>7, <1>12 DEF Adds
    <2>2. SeenIn(found) = {b.id} BY <1>9, <2>1 DEF SeenIn
    <2>3. found # None
      <3>1. <<b.id>> # <<>> OBVIOUS
      <3> QED BY <1>8, <2>1, <3>1
    <2> QED BY <1>6, <2>1, <2>2, <2>3
  <1>13. CASE Skips(None, a, once) /\ Skips(once, b, found)
    <2>1. once = None /\ found = None /\ (Holds(a) => Unseen(a)) /\ (Holds(b) => Unseen(b))
          /\ (Holds(a) => Lost(a)) /\ (Holds(b) => Lost(b))
      BY <1>3, <1>13 DEF Skips
    <2> QED BY <1>1, <1>6, <2>1
  <1> QED BY <1>2, <1>6, <1>10, <1>11, <1>12, <1>13

LEMMA InstallsFound ==
  ASSUME None \notin L!Found, NEW a, NEW b, Looked(a), Looked(b), a.id = 1, b.id = 2, NEW prefer
  PROVE  L!W!FoundIsThere(<<a, b>>, prefer)
  <1> DEFINE list == <<a, b>>
             found == L!W!discoverExistingInstall(list, prefer)
             seenIds == IF found = None THEN {} ELSE L!W!ToSet(found.clusters)
             some == {list[n].id : n \in {m \in DOMAIN list : Holds(list[m])}}
             shown == {list[n].id : n \in {m \in DOMAIN list : Holds(list[m]) /\ ~Unseen(list[m])}}
  <1>1. DOMAIN list = {1, 2} /\ list[1] = a /\ list[2] = b OBVIOUS
  <1>2. /\ found \in Finds
        /\ SeenIn(found) \subseteq {c.id : c \in {x \in {a, b} : Holds(x)}}
        /\ \A c \in {a, b} : Holds(c) /\ ~Unseen(c) => c.id \in SeenIn(found)
        /\ found = None => \A c \in {a, b} : Holds(c) => Lost(c)
        /\ prefer \in SeenIn(found) => Ids(found)[1] = prefer
    <2>1. CASE prefer = 2
      <3>1. found = InTurn(<<b, a>>) BY <2>1, PreferredFirst
      <3>2. found = L!W!SearchCluster(L!W!SearchCluster(None, b), a)
        <4> HIDE DEF found
        <4> QED BY <3>1, InTurnTwo
      <3> HIDE DEF found
      <3> QED BY <2>1, <3>2, FoundInTwo
    <2>2. CASE prefer # 2
      <3>1. found = InTurn(<<a, b>>) BY <2>2, PreferredFirst
      <3>2. found = L!W!SearchCluster(L!W!SearchCluster(None, a), b)
        <4> HIDE DEF found
        <4> QED BY <3>1, InTurnTwo
      <3> HIDE DEF found
      <3>3. /\ found \in Finds
            /\ SeenIn(found) \subseteq {c.id : c \in {x \in {a, b} : Holds(x)}}
            /\ \A c \in {a, b} : Holds(c) /\ ~Unseen(c) => c.id \in SeenIn(found)
            /\ found = None => \A c \in {a, b} : Holds(c) => Lost(c)
            /\ a.id \in SeenIn(found) => Ids(found)[1] = a.id
        BY <3>2, FoundInTwo
      <3>4. prefer \in SeenIn(found) => prefer = a.id BY <2>2, <3>3
      <3> QED BY <3>3, <3>4
    <2> QED BY <2>1, <2>2
  <1>3. seenIds = SeenIn(found)
    <2>1. L!W!ToSet(<<>>) = {} BY DEF L!W!ToSet
    <2> HIDE DEF found
    <2> QED BY <2>1 DEF SeenIn, Ids
  <1>4. found # None => Ids(found) = found.clusters BY DEF Ids
  <1> HIDE DEF found, list
  <1>5. seenIds \subseteq some /\ shown \subseteq seenIds
    <2> HIDE DEF seenIds
    <2> QED BY <1>1, <1>2, <1>3
  <1>6. found = None => \A n \in DOMAIN list : Holds(list[n]) => Lost(list[n])
    BY <1>1, <1>2
  <1>7. prefer \in seenIds => found.clusters[1] = prefer
    BY <1>2, <1>3, <1>4
  <1> HIDE DEF seenIds, some, shown
  <1>8. /\ seenIds \subseteq some /\ shown \subseteq seenIds
        /\ found = None => \A n \in DOMAIN list : Holds(list[n]) => Lost(list[n])
        /\ prefer \in seenIds => found.clusters[1] = prefer
    BY <1>5, <1>6, <1>7
  <1> QED BY <1>8 DEF L!W!FoundIsThere, L!W!IdsOf, seenIds, some, shown, found, list, Holds, Unseen, Lost

-----------------------------------------------------------------------------
(* An archive, walked *)

\* The blocks that a file's data takes.
Blocks(size) == ((size + 512 - 1) \div 512) * 512

LEMMA PaddedIs ==
  ASSUME NEW size \in Nat
  PROVE  L!W!Padded(size) = Blocks(size) /\ Blocks(size) \in Nat
  <1> DEFINE q == (size + 512 - 1) \div 512
             Right(n) == 512 * n >= size /\ 512 * (n - 1) < size
             n0 == CHOOSE n \in 0 .. size : Right(n)
  <1>1. q \in Int /\ 512 * q <= size + 511 /\ size + 511 < 512 * q + 512 OBVIOUS
  <1> HIDE DEF q
  <1>2. q \in 0 .. size /\ Right(q) BY <1>1
  <1>3. n0 \in 0 .. size /\ Right(n0)
    <2> HIDE DEF Right
    <2> QED BY <1>2
  <1>4. n0 = q BY <1>2, <1>3
  <1>5. L!W!Padded(size) = 512 * n0 BY DEF L!W!Padded, L!W!BlockSize
  <1> HIDE DEF n0
  <1> QED BY <1>2, <1>4, <1>5 DEF Blocks, q

\* H[n] is where the n-th of k files begins.
Heads(H, files, k) ==
  /\ H[1] = 0
  /\ \A n \in 1 .. k : files[n] \in L!Archived /\ H[n] \in Nat /\ H[n + 1] = H[n] + 512 + Blocks(files[n].size)

LEMMA HeadsRise ==
  ASSUME NEW k \in Nat, NEW H, NEW files, Heads(H, files, k)
  PROVE  /\ \A n \in 1 .. k + 1 : H[n] \in Nat
         /\ \A m, n \in 1 .. k + 1 : m < n => H[m] + 512 <= H[n]
  <1>1. ASSUME NEW n \in 1 .. k PROVE H[n] \in Nat /\ H[n + 1] \in Nat /\ H[n] + 512 <= H[n + 1]
    <2>1. files[n].size \in Nat BY DEF Heads, L!Archived
    <2>2. Blocks(files[n].size) \in Nat BY <2>1, PaddedIs
    <2> QED BY <2>2 DEF Heads
  <1>2. ASSUME NEW n \in 1 .. k + 1 PROVE H[n] \in Nat
    <2>1. CASE n = 1 BY <2>1 DEF Heads
    <2>2. CASE n # 1
      <3>1. n - 1 \in 1 .. k /\ (n - 1) + 1 = n BY <2>2
      <3> QED BY <1>1, <3>1
    <2> QED BY <2>1, <2>2
  <1>3. ASSUME NEW m \in 1 .. k + 1 PROVE \A n \in 1 .. k + 1 : m < n => H[m] + 512 <= H[n]
    <2> DEFINE T == {i \in 0 .. k : i + 1 > m => H[m] + 512 <= H[i + 1]}
    <2>1. 0 \in T OBVIOUS
    <2>2. ASSUME NEW i \in 0 .. k - 1, i \in T PROVE i + 1 \in T
      <3>1. i + 1 \in 1 .. k /\ i + 1 \in 0 .. k OBVIOUS
      <3>2. H[i + 1] \in Nat /\ H[(i + 1) + 1] \in Nat /\ H[i + 1] + 512 <= H[(i + 1) + 1] BY <1>1, <3>1
      <3>3. H[m] \in Nat BY <1>2
      <3>4. CASE (i + 1) + 1 > m /\ i + 1 > m
        BY <2>2, <3>1, <3>2, <3>3, <3>4
      <3>5. CASE i + 1 = m
        BY <3>1, <3>2, <3>3, <3>5
      <3>6. CASE (i + 1) + 1 <= m
        BY <3>1, <3>6
      <3> QED BY <3>4, <3>5, <3>6
    <2>3. 0 .. k \subseteq T
      <3> HIDE DEF T
      <3> QED BY <2>1, <2>2, UpTo
    <2> TAKE n \in 1 .. k + 1
    <2>4. n - 1 \in 0 .. k /\ (n - 1) + 1 = n OBVIOUS
    <2>5. n - 1 \in T BY <2>3, <2>4
    <2> QED BY <2>4, <2>5
  <1> QED BY <1>2, <1>3

\* Block by block as files, and what is read between them.
Misread == [sought |-> TRUE, size |-> 0]
Shows(headerAt, H, files, k, length) ==
  \A o \in 0 .. length :
     /\ \A n \in 1 .. k : o = H[n] => headerAt[o] = files[n]
     /\ (\A n \in 1 .. k : o # H[n]) => headerAt[o] = IF o < H[k + 1] THEN Misread ELSE None

\* A walk of the archive, as the code says it.
Walks(w, headerAt, length) ==
  w = [offset \in Nat |->
         LET file == headerAt[offset]
         IN  IF offset + 512 > length \/ file = None THEN None
             ELSE IF file.sought THEN IF offset + 512 + file.size <= length THEN offset ELSE None
             ELSE w[offset + 512 + Blocks(file.size)]]

\* What is found from the n-th file on.
Answer(H, files, k, length, n) ==
  LET sought == {m \in n .. k : files[m].sought}
      m == L!W!Least(sought)
  IN  IF sought = {} THEN None ELSE IF H[m] + 512 + files[m].size <= length THEN H[m] ELSE None

LEMMA AnswerIs ==
  ASSUME NEW k \in Nat, NEW H, NEW files, Heads(H, files, k), NEW length \in Nat, NEW n \in 1 .. k + 1
  PROVE  /\ n = k + 1 => Answer(H, files, k, length, n) = None
         /\ n <= k /\ files[n].sought =>
               Answer(H, files, k, length, n) = IF H[n] + 512 + files[n].size <= length THEN H[n] ELSE None
         /\ n <= k /\ ~files[n].sought => Answer(H, files, k, length, n) = Answer(H, files, k, length, n + 1)
         /\ H[n] + 512 > length => Answer(H, files, k, length, n) = None
  <1> DEFINE sought == {m \in n .. k : files[m].sought}
             least == L!W!Least(sought)
             answer == Answer(H, files, k, length, n)
  <1>1. answer = IF sought = {} THEN None
                 ELSE IF H[least] + 512 + files[least].size <= length THEN H[least] ELSE None
    BY DEF Answer
  <1>2. sought \subseteq Nat /\ sought \subseteq n .. k OBVIOUS
  <1>3. ASSUME sought # {} PROVE least \in sought /\ \A m \in sought : least <= m
    <2>1. \E x \in sought : \A m \in sought : x <= m
      <3> HIDE DEF sought
      <3> QED BY <1>2, <1>3, NatLeast
    <2> HIDE DEF sought
    <2> QED BY <2>1 DEF L!W!Least
  <1>4. ASSUME n = k + 1 PROVE answer = None
    <2>1. sought = {} BY <1>4
    <2> QED BY <1>1, <2>1
  <1>5. ASSUME n <= k, files[n].sought
        PROVE  answer = IF H[n] + 512 + files[n].size <= length THEN H[n] ELSE None
    <2>1. n \in sought BY <1>5
    <2>2. least \in n .. k /\ least <= n BY <1>3, <2>1
    <2>3. least = n
      <3> HIDE DEF least, sought
      <3> QED BY <2>2
    <2> HIDE DEF least
    <2> QED BY <1>1, <2>1, <2>3
  <1>6. ASSUME n <= k, ~files[n].sought PROVE answer = Answer(H, files, k, length, n + 1)
    <2>1. sought = {m \in n + 1 .. k : files[m].sought} BY <1>6
    <2> HIDE DEF sought
    <2> QED BY <1>1, <2>1 DEF Answer
  <1>7. ASSUME H[n] + 512 > length PROVE answer = None
    <2>1. CASE sought = {} BY <1>1, <2>1
    <2>2. CASE sought # {}
      <3>1. least \in n .. k BY <1>2, <1>3, <2>2
      <3> HIDE DEF least
      <3>2. least \in 1 .. k + 1 /\ least \in 1 .. k /\ (n = least \/ n < least) BY <3>1
      <3>3. H[n] \in Nat /\ H[least] \in Nat /\ H[n] <= H[least] BY <3>2, HeadsRise
      <3>4. files[least].size \in Nat BY <3>2 DEF Heads, L!Archived
      <3>5. ~(H[least] + 512 + files[least].size <= length) BY <1>7, <3>3, <3>4
      <3> HIDE DEF sought
      <3> QED BY <1>1, <2>2, <3>5
    <2> QED BY <2>1, <2>2
  <1> QED BY <1>4, <1>5, <1>6, <1>7

\* A walk that ends where it should.
Walked(H, files, k, length) ==
  [o \in Nat |->
     IF o + 512 > length THEN None
     ELSE IF \E n \in 1 .. k : H[n] = o THEN Answer(H, files, k, length, CHOOSE n \in 1 .. k : H[n] = o)
     ELSE IF o < H[k + 1] THEN o
     ELSE None]

LEMMA WalkExists ==
  ASSUME NEW k \in Nat, NEW H, NEW files, Heads(H, files, k), NEW length \in Nat, NEW headerAt,
         Shows(headerAt, H, files, k, length), None \notin L!Archived
  PROVE  \E w : Walks(w, headerAt, length)
  <1> DEFINE w == Walked(H, files, k, length)
             answer(n) == Answer(H, files, k, length, n)
             body(offset) ==
               LET file == headerAt[offset]
               IN  IF offset + 512 > length \/ file = None THEN None
                   ELSE IF file.sought THEN IF offset + 512 + file.size <= length THEN offset ELSE None
                   ELSE w[offset + 512 + Blocks(file.size)]
  <1>0. /\ \A n \in 1 .. k + 1 : H[n] \in Nat
        /\ \A m, n \in 1 .. k + 1 : m < n => H[m] + 512 <= H[n]
    BY HeadsRise
  <1>1. \A m, n \in 1 .. k + 1 : H[m] = H[n] => m = n
    <2> SUFFICES ASSUME NEW m \in 1 .. k + 1, NEW n \in 1 .. k + 1, H[m] = H[n] PROVE m = n OBVIOUS
    <2>1. H[m] \in Nat /\ H[n] \in Nat BY <1>0
    <2>2. ~(m < n) /\ ~(n < m) BY <1>0, <2>1
    <2> QED BY <2>2
  <1>2. \A o \in Nat :
          /\ o + 512 > length => w[o] = None
          /\ ~(o + 512 > length) /\ (\A n \in 1 .. k : H[n] # o) => w[o] = IF o < H[k + 1] THEN o ELSE None
          /\ ~(o + 512 > length) /\ (\E n \in 1 .. k : H[n] = o) =>
                w[o] = Answer(H, files, k, length, CHOOSE n \in 1 .. k : H[n] = o)
    BY DEF Walked
  <1> HIDE DEF w
  <1>3. ASSUME NEW n \in 1 .. k + 1 PROVE w[H[n]] = answer(n)
    <2>1. H[n] \in Nat BY <1>0
    <2>2. CASE H[n] + 512 > length
      <3>1. answer(n) = None BY <2>2, AnswerIs
      <3> QED BY <1>2, <2>1, <2>2, <3>1
    <2>3. CASE ~(H[n] + 512 > length) /\ n \in 1 .. k
      <3> DEFINE m == CHOOSE i \in 1 .. k : H[i] = H[n]
      <3>1. m \in 1 .. k /\ H[m] = H[n] BY <2>3
      <3> HIDE DEF m
      <3>2. m = n
        <4>1. m \in 1 .. k + 1 BY <3>1
        <4> QED BY <1>1, <3>1, <4>1
      <3>3. w[H[n]] = Answer(H, files, k, length, m) BY <1>2, <2>1, <2>3 DEF m
      <3> QED BY <3>2, <3>3
    <2>4. CASE ~(H[n] + 512 > length) /\ n = k + 1
      <3>1. \A m \in 1 .. k : H[m] # H[n] BY <1>1, <2>4
      <3>2. ~(H[n] < H[k + 1]) BY <2>1, <2>4
      <3>3. w[H[n]] = None BY <1>2, <2>1, <2>4, <3>1, <3>2
      <3>4. answer(n) = None BY <2>4, AnswerIs
      <3> QED BY <3>3, <3>4
    <2> QED BY <2>2, <2>3, <2>4
  <1> HIDE DEF answer
  <1>4. ASSUME NEW o \in Nat PROVE w[o] = body(o)
    <2>1. CASE o + 512 > length
      BY <1>2, <2>1
    <2>2. ASSUME ~(o + 512 > length), NEW n \in 1 .. k, H[n] = o PROVE w[o] = body(o)
      <3>1. o \in 0 .. length BY <2>2
      <3>2. headerAt[o] = files[n] BY <2>2, <3>1 DEF Shows
      <3>3. files[n] \in L!Archived /\ files[n] # None /\ H[n + 1] = H[n] + 512 + Blocks(files[n].size)
        BY DEF Heads
      <3>4. files[n].sought \in BOOLEAN BY <3>3 DEF L!Archived
      <3>5. n \in 1 .. k + 1 /\ n + 1 \in 1 .. k + 1 /\ n <= k OBVIOUS
      <3>6. w[o] = answer(n) BY <1>3, <2>2, <3>5
      <3>7. CASE files[n].sought
        <4>1. answer(n) = IF H[n] + 512 + files[n].size <= length THEN H[n] ELSE None
          BY <3>5, <3>7, AnswerIs DEF answer
        <4>2. body(o) = IF o + 512 + files[n].size <= length THEN o ELSE None BY <2>2, <3>2, <3>3, <3>7
        <4> QED BY <2>2, <3>6, <4>1, <4>2
      <3>8. CASE ~files[n].sought
        <4>1. answer(n) = answer(n + 1) BY <3>5, <3>8, AnswerIs DEF answer
        <4>2. body(o) = w[H[n + 1]] BY <2>2, <3>2, <3>3, <3>8
        <4>3. w[H[n + 1]] = answer(n + 1) BY <1>3, <3>5
        <4> QED BY <3>6, <4>1, <4>2, <4>3
      <3> QED BY <3>7, <3>8
    <2>3. CASE ~(o + 512 > length) /\ \A n \in 1 .. k : H[n] # o
      <3>1. o \in 0 .. length BY <2>3
      <3>2. headerAt[o] = IF o < H[k + 1] THEN Misread ELSE None BY <2>3, <3>1 DEF Shows
      <3>3. w[o] = IF o < H[k + 1] THEN o ELSE None BY <1>2, <2>3
      <3>4. CASE o < H[k + 1]
        <4>1. headerAt[o].sought /\ headerAt[o].size = 0 BY <3>2, <3>4 DEF Misread
        <4>2. headerAt[o] # None
          <5>1. Misread \in L!Archived BY DEF Misread, L!Archived
          <5> QED BY <3>2, <3>4, <5>1
        <4>3. o + 512 + 0 <= length BY <2>3
        <4>4. body(o) = o BY <2>3, <4>1, <4>2, <4>3
        <4> QED BY <3>3, <3>4, <4>4
      <3>5. CASE ~(o < H[k + 1])
        <4>1. headerAt[o] = None BY <3>2, <3>5
        <4>2. body(o) = None BY <4>1
        <4> QED BY <3>3, <3>5, <4>2
      <3> QED BY <3>4, <3>5
    <2> QED BY <2>1, <2>2, <2>3
  <1>5. w = [o \in Nat |-> w[o]]
    BY DEF w, Walked
  <1>6. w = [o \in Nat |-> body(o)]
    <2> HIDE DEF body
    <2> QED BY <1>4, <1>5
  <1>7. Walks(w, headerAt, length) BY <1>6 DEF Walks
  <1> QED BY <1>7

LEMMA WalkEnds ==
  ASSUME NEW k \in Nat, NEW H, NEW files, Heads(H, files, k), NEW length \in Nat, NEW headerAt,
         Shows(headerAt, H, files, k, length), None \notin L!Archived, NEW w, Walks(w, headerAt, length)
  PROVE  w[0] = Answer(H, files, k, length, 1)
  <1> DEFINE answer(n) == Answer(H, files, k, length, n)
             T == {i \in 0 .. k : w[H[k + 1 - i]] = answer(k + 1 - i)}
  <1>0. /\ \A n \in 1 .. k + 1 : H[n] \in Nat
        /\ \A m, n \in 1 .. k + 1 : m < n => H[m] + 512 <= H[n]
    BY HeadsRise
  <1>1. \A o \in Nat :
          w[o] = LET file == headerAt[o]
                 IN  IF o + 512 > length \/ file = None THEN None
                     ELSE IF file.sought THEN IF o + 512 + file.size <= length THEN o ELSE None
                     ELSE w[o + 512 + Blocks(file.size)]
    BY DEF Walks
  <1>2. w[H[k + 1]] = answer(k + 1)
    <2> DEFINE o == H[k + 1]
    <2>0. k + 1 \in 1 .. k + 1 OBVIOUS
    <2>1. o \in Nat BY <1>0, <2>0
    <2>2. answer(k + 1) = None BY <2>0, AnswerIs
    <2>3. \A n \in 1 .. k : o # H[n]
      <3> SUFFICES ASSUME NEW n \in 1 .. k PROVE o # H[n] OBVIOUS
      <3>1. n \in 1 .. k + 1 /\ n < k + 1 OBVIOUS
      <3>2. H[n] \in Nat /\ H[n] + 512 <= o BY <1>0, <2>0, <3>1
      <3> QED BY <2>1, <3>2
    <2>4. CASE o + 512 > length
      <3>1. w[o] = None BY <1>1, <2>1, <2>4
      <3> QED BY <2>2, <3>1
    <2>5. CASE ~(o + 512 > length)
      <3> HIDE DEF o
      <3>1. o \in 0 .. length BY <2>1, <2>5
      <3>2. headerAt[o] = None
        <4>1. headerAt[o] = IF o < H[k + 1] THEN Misread ELSE None BY <2>3, <3>1 DEF Shows
        <4>2. ~(o < H[k + 1]) BY <2>1 DEF o
        <4> QED BY <4>1, <4>2
      <3>3. w[o] = None BY <1>1, <2>1, <3>2
      <3> QED BY <2>2, <3>3 DEF o
    <2> QED BY <2>4, <2>5
  <1>3. ASSUME NEW n \in 1 .. k, w[H[n + 1]] = answer(n + 1) PROVE w[H[n]] = answer(n)
    <2> DEFINE o == H[n]
    <2>0. n \in 1 .. k + 1 /\ n <= k OBVIOUS
    <2>1. o \in Nat BY <1>0, <2>0
    <2>2. files[n] \in L!Archived /\ files[n] # None /\ H[n + 1] = H[n] + 512 + Blocks(files[n].size) BY DEF Heads
    <2>3. files[n].sought \in BOOLEAN BY <2>2 DEF L!Archived
    <2>4. CASE o + 512 > length
      <3>1. answer(n) = None BY <2>0, <2>4, AnswerIs
      <3>2. w[o] = None BY <1>1, <2>1, <2>4
      <3> QED BY <3>1, <3>2
    <2>5. CASE ~(o + 512 > length)
      <3>1. o \in 0 .. length BY <2>1, <2>5
      <3>2. headerAt[o] = files[n] BY <3>1 DEF Shows
      <3>3. CASE files[n].sought
        <4>1. answer(n) = IF H[n] + 512 + files[n].size <= length THEN H[n] ELSE None BY <2>0, <3>3, AnswerIs
        <4>2. w[o] = IF o + 512 + files[n].size <= length THEN o ELSE None BY <1>1, <2>1, <2>2, <2>5, <3>2, <3>3
        <4> QED BY <4>1, <4>2
      <3>4. CASE ~files[n].sought
        <4>1. answer(n) = answer(n + 1) BY <2>0, <3>4, AnswerIs
        <4>2. w[o] = w[o + 512 + Blocks(files[n].size)]
          <5> HIDE DEF o
          <5> QED BY <1>1, <2>1, <2>2, <2>5, <3>2, <3>4
        <4>3. w[o] = w[H[n + 1]] BY <2>2, <4>2
        <4> HIDE DEF answer
        <4> QED BY <1>3, <4>1, <4>3
      <3> QED BY <2>3, <3>3, <3>4
    <2> QED BY <2>4, <2>5
  <1> HIDE DEF answer
  <1>4. 0 \in T
    <2>1. k + 1 - 0 = k + 1 OBVIOUS
    <2> QED BY <1>2, <2>1
  <1>5. ASSUME NEW i \in 0 .. k - 1, i \in T PROVE i + 1 \in T
    <2> DEFINE n == k - i
    <2>1. n \in 1 .. k /\ n + 1 = k + 1 - i /\ n = k + 1 - (i + 1) /\ i + 1 \in 0 .. k OBVIOUS
    <2>2. w[H[n + 1]] = answer(n + 1) BY <1>5, <2>1
    <2> HIDE DEF n
    <2>3. w[H[n]] = answer(n) BY <1>3, <2>1, <2>2
    <2> QED BY <2>1, <2>3
  <1>6. 0 .. k \subseteq T
    <2> HIDE DEF T
    <2> QED BY <1>4, <1>5, UpTo
  <1>7. k \in 0 .. k /\ k + 1 - k = 1 OBVIOUS
  <1>8. w[H[1]] = answer(1) BY <1>6, <1>7
  <1>9. H[1] = 0 BY DEF Heads
  <1> QED BY <1>8, <1>9 DEF answer

LEMMA Extracted ==
  ASSUME NEW k \in Nat, NEW H, NEW files, Heads(H, files, k), NEW length \in Nat, NEW headerAt,
         Shows(headerAt, H, files, k, length), None \notin L!Archived
  PROVE  L!W!extractFileFromTarGz(headerAt, length) = Answer(H, files, k, length, 1)
  <1> DEFINE Is(w) == w = [offset \in Nat |->
                LET file == headerAt[offset]
                IN  IF offset + 512 > length \/ file = None THEN None
                    ELSE IF file.sought THEN IF offset + 512 + file.size <= length THEN offset ELSE None
                    ELSE w[offset + 512 + ((file.size + 512 - 1) \div 512) * 512]]
             walk == CHOOSE w : Is(w)
  <1>1. L!W!extractFileFromTarGz(headerAt, length) = walk[0]
    BY DEF L!W!extractFileFromTarGz, L!W!BlockSize
  <1>2. \A w : Is(w) <=> Walks(w, headerAt, length) BY DEF Walks, Blocks
  <1> HIDE DEF Is
  <1>3. \E w : Is(w) BY <1>2, WalkExists
  <1>4. Is(walk) BY <1>3
  <1> HIDE DEF walk
  <1>5. Walks(walk, headerAt, length) BY <1>2, <1>4
  <1>6. walk[0] = Answer(H, files, k, length, 1) BY <1>5, WalkEnds
  <1> QED BY <1>1, <1>6

\* Where an archive of these files ends.
Packed(list) == L!W!FoldLeft(LAMBDA sum, f : sum + L!W!BlockSize + L!W!Padded(f.size), 0, list)
Packs(sums, list, n) ==
  sums[0] = 0 /\ \A k \in 0 .. n - 1 : sums[k + 1] = sums[k] + 512 + Blocks(list[k + 1].size)

LEMMA PackedSums ==
  ASSUME NEW n \in Nat, NEW list \in [1 .. n -> L!Archived]
  PROVE  \E sums \in [0 .. n -> Int] : Packs(sums, list, n) /\ Packed(list) = sums[n]
  <1> DEFINE amount(k) == Blocks(list[k].size)
             turn == [k \in Nat |-> [a \in Int |-> IF k \in 1 .. n THEN a + 512 + amount(k) ELSE a]]
             Is(iter) == iter = [s \in SUBSET (DOMAIN list) |->
                            IF s = {} THEN 0
                            ELSE LET x == L!W!Max(s) IN iter[s \ {x}] + L!W!BlockSize + L!W!Padded(list[x].size)]
             fold == CHOOSE iter : Is(iter)
  <1>1. Packed(list) = fold[DOMAIN list]
    BY DEF Packed, L!W!FoldLeft, L!W!MapThenFoldSet
  <1>0. \A k \in 1 .. n : amount(k) \in Nat /\ L!W!Padded(list[k].size) = amount(k)
    <2> SUFFICES ASSUME NEW k \in 1 .. n PROVE amount(k) \in Nat /\ L!W!Padded(list[k].size) = amount(k) OBVIOUS
    <2>1. list[k].size \in Nat BY DEF L!Archived
    <2> QED BY <2>1, PaddedIs
  <1> HIDE DEF amount
  <1>2. turn \in [Nat -> [Int -> Int]]
    BY <1>0
  <1>3. DOMAIN list = 1 .. n /\ 0 \in Int OBVIOUS
  <1>4. \A k \in 1 .. n, a \in Int : turn[k][a] = a + 512 + amount(k)
    OBVIOUS
  <1>5. \A s \in SUBSET (1 .. n) : s # {} => L!W!Max(s) \in s /\ (\A y \in s : y <= L!W!Max(s))
    <2> SUFFICES ASSUME NEW s \in SUBSET (1 .. n), s # {}
                 PROVE  L!W!Max(s) \in s /\ \A y \in s : y <= L!W!Max(s)
      OBVIOUS
    <2>1. \E x \in s : \A y \in s : y <= x BY GreatestFits
    <2>2. \E x \in s : \A y \in s : x >= y BY <2>1
    <2>3. L!W!Max(s) \in s /\ \A y \in s : L!W!Max(s) >= y BY <2>2 DEF L!W!Max
    <2> QED BY <2>3
  <1> HIDE DEF turn
  <1>6. \E iter : Is(iter)
    <2>1. PICK iter \in [SUBSET (1 .. n) -> Int] : Iterates(iter, n, Int, 0, turn)
      BY <1>2, <1>3, FoldExists
    <2>2. ASSUME NEW s \in SUBSET (1 .. n), s # {}
          PROVE  iter[s] = iter[s \ {L!W!Max(s)}] + L!W!BlockSize + L!W!Padded(list[L!W!Max(s)].size)
      <3>1. L!W!Max(s) \in s /\ (\A y \in s : y <= L!W!Max(s)) /\ L!W!Max(s) \in 1 .. n BY <1>5, <2>2
      <3>2. s \ {L!W!Max(s)} \in SUBSET (1 .. n) OBVIOUS
      <3>3. iter[s \ {L!W!Max(s)}] \in Int BY <3>2
      <3>4. iter[s] = turn[L!W!Max(s)][iter[s \ {L!W!Max(s)}]] BY <2>1, <3>1, <3>3 DEF Iterates
      <3>5. L!W!Padded(list[L!W!Max(s)].size) = amount(L!W!Max(s)) BY <1>0, <3>1
      <3>6. L!W!BlockSize = 512 BY DEF L!W!BlockSize
      <3> QED BY <1>4, <3>1, <3>3, <3>4, <3>5, <3>6
    <2>3. iter[{}] = 0 BY <2>1 DEF Iterates
    <2>4. Is(iter)
      BY <1>3, <2>2, <2>3
    <2> QED BY <2>4
  <1>7. Is(fold) BY <1>6
  <1>8. Iterates(fold, n, Int, 0, turn)
    <2>1. fold[{}] = 0 BY <1>7
    <2>2. ASSUME NEW s \in SUBSET (1 .. n), NEW x \in 1 .. n, x \in s, \A y \in s : y <= x, fold[s \ {x}] \in Int
          PROVE  fold[s] = turn[x][fold[s \ {x}]]
      <3>1. L!W!Max(s) \in s /\ x <= L!W!Max(s) /\ L!W!Max(s) <= x
        <4>1. s # {} /\ x \in s /\ \A y \in s : y <= x BY <2>2
        <4> QED BY <1>5, <4>1
      <3>3. L!W!Max(s) = x
        <4>1. L!W!Max(s) \in 1 .. n BY <3>1
        <4>2. \A y \in 1 .. n : x <= y /\ y <= x => y = x OBVIOUS
        <4> QED BY <3>1, <4>1, <4>2
      <3>2. fold[s] = fold[s \ {x}] + L!W!BlockSize + L!W!Padded(list[x].size) BY <1>3, <1>7, <2>2, <3>3
      <3>4. fold[s] = fold[s \ {x}] + 512 + amount(x) BY <1>0, <3>2 DEF L!W!BlockSize
      <3> QED BY <1>4, <2>2, <3>4
    <2> HIDE DEF fold
    <2> QED BY <2>1, <2>2 DEF Iterates
  <1> HIDE DEF fold
  <1>9. PICK F : FoldsTo(F, n, Int, 0, turn) /\ fold[1 .. n] = F[n]
    <2>1. ASSUME NEW iter, Iterates(iter, n, Int, 0, turn)
          PROVE  \E F : FoldsTo(F, n, Int, 0, turn) /\ iter[1 .. n] = F[n]
      <3> DEFINE A == Int
      <3>1. turn \in [Nat -> [A -> A]] /\ 0 \in A /\ Iterates(iter, n, A, 0, turn) BY <1>2, <1>3, <2>1
      <3> HIDE DEF A
      <3>2. \E F : FoldsTo(F, n, A, 0, turn) /\ iter[1 .. n] = F[n] BY <3>1, FoldValue
      <3> QED BY <3>2 DEF A
    <2> QED BY <1>8, <2>1
  <1>10. F \in [0 .. n -> Int] /\ F[0] = 0 BY <1>9 DEF FoldsTo
  <1>11. ASSUME NEW k \in 0 .. n - 1 PROVE F[k + 1] = F[k] + 512 + amount(k + 1)
    <2>1. k \in 0 .. n /\ k + 1 \in 1 .. n OBVIOUS
    <2>2. F[k] \in Int BY <1>10, <2>1
    <2>3. F[k + 1] = turn[k + 1][F[k]] BY <1>9 DEF FoldsTo
    <2> QED BY <1>4, <2>1, <2>2, <2>3
  <1>12. Packs(F, list, n) BY <1>10, <1>11 DEF Packs, amount
  <1> QED BY <1>1, <1>3, <1>9, <1>10, <1>12

\* The headers of an archive are where its files begin.
LEMMA HeadersAre ==
  ASSUME NEW files \in Seq(L!Archived)
  PROVE  \E H : /\ Heads(H, files, Len(files))
                /\ \A n \in 1 .. Len(files) + 1 : L!W!HeaderOf(files, n) = H[n]
  <1> DEFINE k == Len(files)
             prefix(n) == SubSeq(files, 1, n - 1)
  <1>1. k \in Nat /\ files \in [1 .. k -> L!Archived] OBVIOUS
  <1>2. PICK sums \in [0 .. k -> Int] : Packs(sums, files, k)
    <2> HIDE DEF k
    <2> QED BY <1>1, PackedSums
  <1>3. ASSUME NEW n \in 1 .. k + 1 PROVE Packed(prefix(n)) = sums[n - 1]
    <2> DEFINE list == prefix(n)
               m == n - 1
    <2>1. m \in Nat /\ m <= k OBVIOUS
    <2>2. list \in [1 .. m -> L!Archived] /\ \A i \in 1 .. m : list[i] = files[i]
      <3>1. \A i \in 1 .. m : files[i] \in L!Archived BY <1>1, <2>1
      <3>2. /\ list \in Seq(L!Archived) /\ Len(list) = IF 1 <= m THEN m - 1 + 1 ELSE 0
            /\ \A i \in 1 .. m - 1 + 1 : list[i] = files[1 + i - 1]
        <4>1. 1 \in Int /\ m \in Int OBVIOUS
        <4> HIDE DEF m
        <4>2. list = SubSeq(files, 1, m) BY DEF m
        <4> HIDE DEF list
        <4> QED BY <3>1, <4>1, <4>2, SubSeqProperties
      <3> HIDE DEF list, m
      <3>3. Len(list) = m BY <2>1, <3>2
      <3>4. \A i \in 1 .. m : i \in 1 .. m - 1 + 1 /\ 1 + i - 1 = i BY <2>1
      <3> QED BY <3>2, <3>3, <3>4
    <2> HIDE DEF list, m
    <2>3. PICK part1 \in [0 .. m -> Int] : Packs(part1, list, m) /\ Packed(list) = part1[m]
      BY <2>1, <2>2, PackedSums
    <2> DEFINE T == {i \in 0 .. m : part1[i] = sums[i]}
    <2>4. 0 \in T BY <1>2, <2>1, <2>3 DEF Packs
    <2>5. ASSUME NEW i \in 0 .. m - 1, i \in T PROVE i + 1 \in T
      <3>1. i \in 0 .. k - 1 /\ i + 1 \in 1 .. m /\ i + 1 \in 0 .. m BY <2>1
      <3>2. part1[i + 1] = part1[i] + 512 + Blocks(list[i + 1].size) BY <2>3 DEF Packs
      <3>3. sums[i + 1] = sums[i] + 512 + Blocks(files[i + 1].size) BY <1>2, <3>1 DEF Packs
      <3>4. list[i + 1] = files[i + 1] BY <2>2, <3>1
      <3> QED BY <2>5, <3>1, <3>2, <3>3, <3>4
    <2>6. 0 .. m \subseteq T
      <3> HIDE DEF T
      <3> QED BY <2>1, <2>4, <2>5, UpTo
    <2>7. m \in 0 .. m BY <2>1
    <2> QED BY <2>3, <2>6, <2>7 DEF m, list
  <1>4. \A n \in 1 .. k + 1 : L!W!HeaderOf(files, n) = Packed(prefix(n))
    BY DEF L!W!HeaderOf, Packed
  <1> DEFINE H == [n \in 1 .. k + 1 |-> sums[n - 1]]
  <1> HIDE DEF k, prefix
  <1>5. \A n \in 1 .. k + 1 : L!W!HeaderOf(files, n) = H[n] BY <1>3, <1>4
  <1> DEFINE N == {i \in 0 .. k : sums[i] \in Nat}
  <1>6. ASSUME NEW i \in 0 .. k - 1 PROVE Blocks(files[i + 1].size) \in Nat
    <2>1. i + 1 \in 1 .. k BY <1>1
    <2>2. files[i + 1] \in L!Archived BY <1>1, <2>1
    <2>3. files[i + 1].size \in Nat BY <2>2 DEF L!Archived
    <2> QED BY <2>3, PaddedIs
  <1>7. 0 .. k \subseteq N
    <2>1. 0 \in N BY <1>1, <1>2 DEF Packs
    <2>2. ASSUME NEW i \in 0 .. k - 1, i \in N PROVE i + 1 \in N
      <3>1. sums[i + 1] = sums[i] + 512 + Blocks(files[i + 1].size) BY <1>2 DEF Packs
      <3>2. i + 1 \in 0 .. k BY <1>1
      <3> QED BY <1>6, <2>2, <3>1, <3>2
    <2> HIDE DEF N
    <2> QED BY <1>1, <2>1, <2>2, UpTo
  <1>8. Heads(H, files, k)
    <2>1. H[1] = 0
      <3>1. 1 \in 1 .. k + 1 /\ 1 - 1 = 0 BY <1>1
      <3> QED BY <1>2, <3>1 DEF Packs
    <2>2. ASSUME NEW n \in 1 .. k
          PROVE  files[n] \in L!Archived /\ H[n] \in Nat /\ H[n + 1] = H[n] + 512 + Blocks(files[n].size)
      <3>1. n \in 1 .. k + 1 /\ n + 1 \in 1 .. k + 1 /\ n - 1 \in 0 .. k - 1 /\ (n - 1) + 1 = n /\ (n + 1) - 1 = n
            /\ n - 1 \in 0 .. k
        BY <1>1
      <3>2. sums[(n - 1) + 1] = sums[n - 1] + 512 + Blocks(files[(n - 1) + 1].size) BY <1>2, <3>1 DEF Packs
      <3>3. H[n] = sums[n - 1] /\ H[n + 1] = sums[n] BY <3>1
      <3>4. files[n] \in L!Archived BY <1>1
      <3>5. H[n] \in Nat BY <1>7, <3>1, <3>3
      <3> HIDE DEF H
      <3> QED BY <3>1, <3>2, <3>3, <3>4, <3>5
    <2> HIDE DEF H
    <2> QED BY <2>1, <2>2 DEF Heads
  <1> HIDE DEF H
  <1>9. \E G : Heads(G, files, k) /\ \A n \in 1 .. k + 1 : L!W!HeaderOf(files, n) = G[n]
    BY <1>5, <1>8
  <1> QED BY <1>9 DEF k

LEMMA ArchivesRead ==
  ASSUME NEW files \in Seq(L!Archived), NEW length \in Nat, None \notin L!Archived
  PROVE  L!W!ArchiveRead(files, length)
  <1> DEFINE k == Len(files)
             headers == {L!W!HeaderOf(files, n) : n \in DOMAIN files}
             headerAt == [offset \in 0 .. length |->
               IF offset \in headers THEN files[CHOOSE n \in DOMAIN files : L!W!HeaderOf(files, n) = offset]
               ELSE IF offset < L!W!ArchiveEnd(files) THEN Misread ELSE None]
             sought == {n \in DOMAIN files : files[n].sought}
             first == IF sought = {} THEN 0 ELSE L!W!Least(sought)
  <1>1. k \in Nat /\ DOMAIN files = 1 .. k /\ files \in [1 .. k -> L!Archived] OBVIOUS
  <1>2. PICK H : Heads(H, files, k) /\ \A n \in 1 .. k + 1 : L!W!HeaderOf(files, n) = H[n]
    BY HeadersAre
  <1> HIDE DEF k
  <1>3. /\ \A n \in 1 .. k + 1 : H[n] \in Nat
        /\ \A m, n \in 1 .. k + 1 : m < n => H[m] + 512 <= H[n]
    BY <1>1, <1>2, HeadsRise
  <1>4. \A n \in 1 .. k : n \in 1 .. k + 1 BY <1>1
  <1>5. L!W!ArchiveEnd(files) = H[k + 1]
    <2>1. k + 1 \in 1 .. k + 1 BY <1>1
    <2> QED BY <1>2, <2>1 DEF L!W!ArchiveEnd, k
  <1>6. \A m, n \in 1 .. k : H[m] = H[n] => m = n
    <2> SUFFICES ASSUME NEW m \in 1 .. k, NEW n \in 1 .. k, H[m] = H[n] PROVE m = n OBVIOUS
    <2>1. H[m] \in Nat /\ H[n] \in Nat BY <1>3, <1>4
    <2>2. ~(m < n) /\ ~(n < m) BY <1>3, <1>4, <2>1
    <2> QED BY <1>1, <2>2
  <1>7. Shows(headerAt, H, files, k, length)
    <2>1. ASSUME NEW o \in 0 .. length, NEW n \in 1 .. k, o = H[n] PROVE headerAt[o] = files[n]
      <3> DEFINE m == CHOOSE i \in DOMAIN files : L!W!HeaderOf(files, i) = o
      <3>1. L!W!HeaderOf(files, n) = o BY <1>2, <1>4, <2>1
      <3>2. o \in headers BY <1>1, <3>1
      <3>3. m \in 1 .. k /\ L!W!HeaderOf(files, m) = o BY <1>1, <3>1
      <3>4. headerAt[o] = files[m] BY <3>2
      <3> HIDE DEF m, headerAt
      <3>5. H[m] = H[n] BY <1>2, <1>4, <2>1, <3>3
      <3>6. m = n BY <1>6, <3>3, <3>5
      <3> QED BY <3>4, <3>6
    <2>2. ASSUME NEW o \in 0 .. length, \A n \in 1 .. k : o # H[n]
          PROVE  headerAt[o] = IF o < H[k + 1] THEN Misread ELSE None
      <3>1. o \notin headers BY <1>1, <1>2, <1>4, <2>2
      <3> HIDE DEF headers
      <3> QED BY <1>5, <3>1
    <2> HIDE DEF headerAt
    <2> QED BY <2>1, <2>2 DEF Shows
  <1> HIDE DEF headerAt, headers
  <1>8. L!W!extractFileFromTarGz(headerAt, length) = Answer(H, files, k, length, 1)
    BY <1>1, <1>2, <1>7, Extracted
  <1>9. sought = {m \in 1 .. k : files[m].sought} BY <1>1
  <1>10. Answer(H, files, k, length, 1) =
           IF sought = {} THEN None
           ELSE IF H[L!W!Least(sought)] + 512 + files[L!W!Least(sought)].size <= length THEN H[L!W!Least(sought)] ELSE None
    BY <1>9 DEF Answer
  <1>11. sought # {} => L!W!Least(sought) \in 1 .. k /\ L!W!Least(sought) # 0
    <2>1. sought \subseteq Nat BY <1>1
    <2>2. sought # {} => \E x \in sought : \A m \in sought : x <= m
      <3> HIDE DEF sought
      <3> QED BY <2>1, NatLeast
    <2>3. sought # {} => L!W!Least(sought) \in sought
      <3> HIDE DEF sought
      <3> QED BY <2>2 DEF L!W!Least
    <2> QED BY <1>1, <2>3
  <1> HIDE DEF sought
  <1>12. L!W!extractFileFromTarGz(headerAt, length) =
           IF first # 0 /\ L!W!HeaderOf(files, first) + L!W!BlockSize + files[first].size <= length
           THEN L!W!HeaderOf(files, first) ELSE None
    <2>1. CASE sought = {}
      BY <1>8, <1>10, <2>1
    <2>2. CASE sought # {}
      <3>1. first = L!W!Least(sought) BY <2>2
      <3> HIDE DEF first
      <3>2. L!W!HeaderOf(files, first) = H[first] /\ first # 0 BY <1>2, <1>4, <1>11, <2>2, <3>1
      <3>3. L!W!BlockSize = 512 BY DEF L!W!BlockSize
      <3> QED BY <1>8, <1>10, <2>2, <3>1, <3>2, <3>3
    <2> QED BY <2>1, <2>2
  <1>13. L!W!FirstOf(files, LAMBDA f : f.sought) = first BY DEF L!W!FirstOf, first, sought
  <1> HIDE DEF first
  <1> QED BY <1>12, <1>13 DEF L!W!ArchiveRead, headerAt, headers, Misread

LEMMA InputLookups ==
  ASSUME NEW i, L!LookupTyped(i), L!NoneApart
  PROVE  /\ i.kind = "repos" =>
               /\ L!W!InferredHolds(i.repos, L!Chart, i.prefer) /\ L!W!ServicesAgree(i.repos, L!Chart, i.prefer)
               /\ \A n \in DOMAIN i.repos : L!W!ProposedIsNewest(i.repos[n], L!Chart)
         /\ i.kind = "installs" =>
               LET cluster(n, c) == [id |-> n, app |-> c.app, wide |-> c.wide, page |-> c.page, listed |-> c.listed,
                                     namespaces |-> c.namespaces]
               IN  L!W!FoundIsThere(<<cluster(1, i.one), cluster(2, i.two)>>, i.prefer)
         /\ i.kind = "secrets" => L!W!DetailsFit(i.list)
         /\ i.kind = "files" => L!W!SourcesFit(i.files, i.file, i.archive)
         /\ i.kind = "words" => \A word \in {"ai_ml", "database", "storage", "tools"} : L!W!CategoryFirst(i.words, word)
         /\ i.kind = "install" /\ {i.query, i.static} \subseteq {None} \cup DOMAIN i.repos =>
               L!W!InstallOpens(i.repos, i.query, i.static, L!Chart)
         /\ i.kind = "manage" => L!W!ManageOpens(i.repos, i.secrets, L!Chart)
         /\ i.kind = "archive" => L!W!ArchiveRead(i.files, i.length)
         /\ i.kind = "namespaces" /\ (i.install => i.chosen = "own") =>
               L!W!NamespacesFit([failed |-> i.failed], i.clusters, i.system, "own", i.install, i.chosen)
  <1>1. ASSUME i.kind \in {"repos", "install", "manage"}
        PROVE  Len(i.repos) \in Nat /\ ReposListed(i.repos, Len(i.repos))
    <2> DEFINE repos0 == i.repos
    <2>1. L!ReposTyped(repos0)
      BY <1>1 DEF L!LookupTyped
    <2> HIDE DEF repos0
    <2>2. Len(repos0) \in Nat /\ ReposListed(repos0, Len(repos0))
      BY <2>1 DEF ReposListed, L!ReposTyped, L!IsList
    <2> QED BY <2>2 DEF repos0
  <1>2. ASSUME i.kind \in {"install", "manage"}
        PROVE  Len(i.repos) \in Nat /\ Placed(i.repos, Len(i.repos))
    <2> DEFINE repos0 == i.repos
               k == Len(repos0)
    <2>1. k \in Nat /\ ReposListed(repos0, k)
      BY <1>1, <1>2
    <2>2. \A n \in DOMAIN repos0 : repos0[n].id = n
      BY <1>2 DEF L!LookupTyped
    <2> HIDE DEF repos0, k
    <2>3. DOMAIN repos0 = 1 .. k
      BY <2>1 DEF ReposListed
    <2>4. Placed(repos0, k)
      BY <2>1, <2>2, <2>3 DEF Placed
    <2> QED BY <2>1, <2>4 DEF repos0, k
  <1>3. None \notin Int /\ None # "rc" /\ None \notin L!Version /\ None \notin L!Found /\ None \notin L!Archived
        /\ None \notin {"chart", "subchart"}
    BY DEF L!NoneApart
  <1>4. ASSUME i.kind = "repos"
        PROVE  /\ L!W!InferredHolds(i.repos, L!Chart, i.prefer) /\ L!W!ServicesAgree(i.repos, L!Chart, i.prefer)
               /\ \A n \in DOMAIN i.repos : L!W!ProposedIsNewest(i.repos[n], L!Chart)
    <2> DEFINE repos0 == i.repos
               k == Len(repos0)
    <2>1. k \in Nat /\ ReposListed(repos0, k)
      BY <1>1, <1>4
    <2> HIDE DEF repos0, k
    <2>2. L!W!InferredHolds(repos0, L!Chart, i.prefer)
      BY <1>3, <2>1, InferredFits
    <2>3. L!W!ServicesAgree(repos0, L!Chart, i.prefer)
      BY <2>1, ServicesFit
    <2>4. \A n \in DOMAIN repos0 : L!W!ProposedIsNewest(repos0[n], L!Chart)
      <3> TAKE n \in DOMAIN repos0
      <3>1. L!RepoTyped(repos0[n])
        BY <2>1 DEF ReposListed, L!ReposTyped
      <3> QED BY <3>1, ProposedNewest
    <2> QED BY <2>2, <2>3, <2>4 DEF repos0
  <1>5. ASSUME i.kind = "installs"
        PROVE  LET cluster(n, c) == [id |-> n, app |-> c.app, wide |-> c.wide, page |-> c.page, listed |-> c.listed,
                                      namespaces |-> c.namespaces]
               IN  L!W!FoundIsThere(<<cluster(1, i.one), cluster(2, i.two)>>, i.prefer)
    <2> DEFINE cluster(n, c) == [id |-> n, app |-> c.app, wide |-> c.wide, page |-> c.page, listed |-> c.listed,
                                 namespaces |-> c.namespaces]
               a == cluster(1, i.one)
               b == cluster(2, i.two)
    <2>1. \A c \in {i.one, i.two} : c \in L!Searched /\ c.namespaces # <<>>
      BY <1>5 DEF L!LookupTyped
    <2>2. ASSUME NEW c \in L!Searched, c.namespaces # <<>>, NEW n \in {1, 2}
          PROVE  Looked(cluster(n, c)) /\ cluster(n, c).id = n
      <3>1. c.app \in BOOLEAN /\ c.wide \in BOOLEAN /\ c.listed \in BOOLEAN /\ c.namespaces \in Seq(BOOLEAN)
        BY DEF L!Searched
      <3> QED BY <2>2, <3>1 DEF Looked
    <2> HIDE DEF cluster
    <2>3. Looked(a) /\ a.id = 1 /\ Looked(b) /\ b.id = 2
      BY <2>1, <2>2
    <2> HIDE DEF a, b
    <2>4. L!W!FoundIsThere(<<a, b>>, i.prefer)
      BY <1>3, <2>3, InstallsFound
    <2> QED BY <2>4 DEF a, b, cluster
  <1>6. ASSUME i.kind = "secrets" PROVE L!W!DetailsFit(i.list)
    <2> DEFINE list == i.list
    <2>1. L!SecretsTyped(list)
      BY <1>6 DEF L!LookupTyped
    <2> HIDE DEF list
    <2>2. Len(list) \in Nat /\ list = [n \in 1 .. Len(list) |-> list[n]]
      BY <2>1 DEF L!SecretsTyped, L!IsList
    <2>3. L!W!DetailsFit(list)
      BY <2>1, <2>2, DetailsShown
    <2> QED BY <2>3 DEF list
  <1>7. ASSUME i.kind = "files" PROVE L!W!SourcesFit(i.files, i.file, i.archive)
    <2>1. i.files \in Seq(L!Listings) /\ i.archive \in Seq(L!Listings)
      BY <1>7 DEF L!LookupTyped
    <2> QED BY <1>3, <2>1, SourcesFound
  <1>8. \A word \in {"ai_ml", "database", "storage", "tools"} : L!W!CategoryFirst(i.words, word)
    BY CategoriesFirst
  <1>9. ASSUME i.kind = "install", {i.query, i.static} \subseteq {None} \cup DOMAIN i.repos
        PROVE  L!W!InstallOpens(i.repos, i.query, i.static, L!Chart)
    <2> DEFINE repos0 == i.repos
               k == Len(repos0)
    <2>1. k \in Nat /\ Placed(repos0, k)
      BY <1>2, <1>9
    <2>2. {i.query, i.static} \subseteq {None} \cup DOMAIN repos0
      BY <1>9
    <2> HIDE DEF repos0, k
    <2>3. L!W!InstallOpens(repos0, i.query, i.static, L!Chart)
      BY <1>3, <2>1, <2>2, InstallsOpen
    <2> QED BY <2>3 DEF repos0
  <1>10. ASSUME i.kind = "manage" PROVE L!W!ManageOpens(i.repos, i.secrets, L!Chart)
    <2> DEFINE repos0 == i.repos
               k == Len(repos0)
    <2>1. k \in Nat /\ Placed(repos0, k)
      BY <1>2, <1>10
    <2>2. i.secrets # None => L!SecretsTyped(i.secrets)
      BY <1>10 DEF L!LookupTyped
    <2> HIDE DEF repos0, k
    <2>3. L!W!ManageOpens(repos0, i.secrets, L!Chart)
      BY <1>3, <2>1, <2>2, ManagesOpen
    <2> QED BY <2>3 DEF repos0
  <1>11. ASSUME i.kind = "archive" PROVE L!W!ArchiveRead(i.files, i.length)
    <2>1. i.files \in Seq(L!Archived) /\ i.length \in Nat
      BY <1>11 DEF L!LookupTyped
    <2> QED BY <1>3, <2>1, ArchivesRead
  <1>12. L!W!NamespacesFit([failed |-> i.failed], i.clusters, i.system, "own", i.install, i.chosen)
    BY NamespacesOffered
  <1> QED BY <1>4, <1>5, <1>6, <1>7, <1>8, <1>9, <1>10, <1>11, <1>12

-----------------------------------------------------------------------------
(* What the laws of versions and of the API say of an input, by kind. *)

LEMMA InputVersions ==
  ASSUME NEW i, L!VersionTyped(i), L!NoneApart, Versions \subseteq L!Version
  PROVE  /\ i.kind = "pair" => L!W!ShownInOrder(i.a, i.b) /\ L!W!OrdersAgree(i.a, i.b)
         /\ i.kind = "list" => L!W!ConstraintMet(i.list, i.op, i.base)
         /\ i.kind = "feature" => L!W!FeatureAllowed(i, i.cluster, i.able, i.preference)
         /\ i.kind = "release" =>
               L!W!ReleaseFeatures(i.able, [flag \in DOMAIN L!W!RELEASE_FEATURES |->
                                              IF flag = i.flag THEN i.prefer ELSE None])
  <1>1. CASE i.kind = "pair"
    <2>1. None # "rc" /\ i.a \in L!Version /\ i.b \in L!Version
      BY <1>1 DEF L!VersionTyped, L!NoneApart
    <2> QED BY <1>1, <2>1, ReleasesOrdered, PlainAgree
  <1>2. CASE i.kind = "list"
    <2>1. /\ Len(i.list) \in Nat /\ i.base \in L!Plain
          /\ i.list = [n \in 1 .. Len(i.list) |-> i.list[n]]
          /\ \A n \in DOMAIN i.list : i.list[n] \in L!Version
      BY <1>2 DEF L!VersionTyped, L!VersionsTyped, L!IsList
    <2>2. i.list \in [1 .. Len(i.list) -> L!Version]
      BY <2>1
    <2>3. None # "rc"
      BY DEF L!NoneApart
    <2>4. L!W!ConstraintMet(i.list, i.op, i.base)
      BY <2>1, <2>2, <2>3, Resolved
    <2> QED BY <1>2, <2>4
  <1>3. CASE i.kind = "feature"
    BY <1>3, FeatureChecked DEF L!VersionTyped
  <1>4. CASE i.kind = "release"
    <2> DEFINE preferences == [flag \in DOMAIN L!W!RELEASE_FEATURES |-> IF flag = i.flag THEN i.prefer ELSE None]
    <2>1. DOMAIN preferences = DOMAIN L!W!RELEASE_FEATURES
      OBVIOUS
    <2> HIDE DEF preferences
    <2>2. i.able # None /\ None # L!W!getClusterVersion
      BY <1>4 DEF L!VersionTyped, L!NoneApart
    <2>3. L!W!ReleaseFeatures(i.able, preferences)
      BY <2>1, <2>2, ReleaseAllowed
    <2> QED BY <1>4, <2>3 DEF preferences
  <1> QED BY <1>1, <1>2, <1>3, <1>4

LEMMA InputApi ==
  ASSUME NEW i, L!ApiTyped(i)
  PROVE  /\ i.kind = "conversion" => L!X!ConversionKeeps(i.spec)
         /\ i.kind = "admission" => L!X!NamesUnique(i.requests, {"m", "n"})
         /\ i.kind = "index" => L!X!LatestIsGreatest(i.entries)
         /\ i.kind = "resolve" => L!X!ResolvedFound(i.of, i.cache, i.before, i.later, i.expires)
         /\ i.kind = "metadata" => L!X!MetadataFits(i.annotations, i.user)
  <1>1. CASE i.kind = "conversion"
    BY <1>1, Converted DEF L!ApiTyped
  <1>2. CASE i.kind = "admission"
    <2> DEFINE requests == i.requests
    <2>1. /\ Len(requests) \in Nat /\ requests = [k \in 1 .. Len(requests) |-> requests[k]]
          /\ \A k \in DOMAIN requests : requests[k].name \in {"m", "n"} /\ requests[k].lag \in Nat
      BY <1>2 DEF L!ApiTyped, L!IsList
    <2> HIDE DEF requests
    <2>2. DOMAIN requests = 1 .. Len(requests)
      BY <2>1
    <2>3. L!X!NamesUnique(requests, {"m", "n"})
      BY <2>1, <2>2, NamesApart DEF Late
    <2> QED BY <1>2, <2>3 DEF requests
  <1>3. CASE i.kind = "index"
    <2> DEFINE entries == i.entries
    <2>1. /\ Len(entries) \in Nat /\ entries = [k \in 1 .. Len(entries) |-> entries[k]]
          /\ \A k \in DOMAIN entries : L!EntryTyped(entries[k])
      BY <1>3 DEF L!ApiTyped, L!IndexTyped, L!IsList
    <2> HIDE DEF entries
    <2>2. DOMAIN entries = 1 .. Len(entries)
      BY <2>1
    <2>3. L!X!LatestIsGreatest(entries)
      BY <2>1, <2>2, LatestGreatest
    <2> QED BY <1>3, <2>3 DEF entries
  <1>4. CASE i.kind = "resolve"
    <2>1. ASSUME NEW list, L!IndexTyped(list)
          PROVE  Index(list)
      <3>1. Len(list) \in Nat /\ list = [k \in 1 .. Len(list) |-> list[k]]
        BY <2>1 DEF L!IndexTyped, L!IsList
      <3>2. DOMAIN list = 1 .. Len(list)
        BY <3>1
      <3>3. \A k \in DOMAIN list : L!EntryTyped(list[k])
        BY <2>1 DEF L!IndexTyped
      <3> QED BY <3>1, <3>2, <3>3 DEF Index
    <2>2. Index(None)
      BY DEF Index
    <2> DEFINE kept == i.cache
    <2>3. /\ kept = [u \in DOMAIN kept |-> kept[u]] /\ {"index", "assets"} \subseteq DOMAIN kept
          /\ i.expires \in BOOLEAN
          /\ \A u \in {"index", "assets"} : \A list \in {kept[u], i.before[u]} \ {None} : L!IndexTyped(list)
      BY <1>4 DEF L!ApiTyped, L!IsFunction
    <2> HIDE DEF kept
    <2>4. \A u \in {"index", "assets"} : Index(kept[u]) /\ Index(i.before[u])
      BY <2>1, <2>2, <2>3
    <2>5. L!X!ResolvedFound(i.of, kept, i.before, i.later, i.expires)
      BY <2>3, <2>4, Resolving
    <2> QED BY <1>4, <2>5 DEF kept
  <1>5. CASE i.kind = "metadata"
    BY <1>5, Merged
  <1> QED BY <1>1, <1>2, <1>3, <1>4, <1>5

LEMMA InputLists ==
  ASSUME NEW i, L!ClusterTyped(i), L!StoreTyped(i), L!NoneApart
  PROVE  /\ i.kind = "nodes" => L!C!CompatibleFits(i.nodes, i.classes, i.slug)
         /\ i.kind = "clusters" =>
               \A g \in {[i.f EXCEPT !.ready = FALSE], [i.f EXCEPT !.providers = {"k3s"}]} :
                   L!C!ListsKept(<<i.one, i.two>>, i.f, g)
         /\ i.kind = "connections" => L!G!ConnectionTold(i.mutations, i.able)
  <1>1. CASE i.kind = "nodes"
    <2> DEFINE nodes == i.nodes
    <2>1. /\ Len(nodes) \in Nat /\ nodes = [k \in 1 .. Len(nodes) |-> nodes[k]]
          /\ \A k \in DOMAIN nodes : L!NodeTyped(nodes[k])
      BY <1>1 DEF L!ClusterTyped, L!IsList
    <2> HIDE DEF nodes
    <2>2. DOMAIN nodes = 1 .. Len(nodes)
      BY <2>1
    <2>3. NodesTyped(nodes, Len(nodes))
      BY <2>1, <2>2 DEF NodesTyped
    <2>4. L!C!CompatibleFits(nodes, i.classes, i.slug)
      BY <2>1, <2>3, NodesFit
    <2> QED BY <1>1, <2>4 DEF nodes
  <1>2. CASE i.kind = "clusters"
    <2> DEFINE a == i.one
               b == i.two
    <2>1. a.ready \in BOOLEAN /\ b.ready \in BOOLEAN
      BY <1>2 DEF L!ClusterTyped
    <2> HIDE DEF a, b
    <2>2. \A g : L!C!ListsKept(<<a, b>>, i.f, g)
      BY <2>1, TwoKept
    <2> QED BY <1>2, <2>2 DEF a, b
  <1>3. CASE i.kind = "connections"
    <2> DEFINE ms == i.mutations
    <2>1. /\ Len(ms) \in Nat /\ ms = [k \in 1 .. Len(ms) |-> ms[k]]
          /\ \A k \in DOMAIN ms : ms[k] \in L!Mutations
      BY <1>3 DEF L!StoreTyped, L!IsList
    <2> HIDE DEF ms
    <2>2. DOMAIN ms = 1 .. Len(ms)
      BY <2>1
    <2>3. FormsApart
      BY DEF FormsApart, L!NoneApart
    <2>4. L!G!ConnectionTold(ms, i.able)
      BY <2>1, <2>2, <2>3, ConnectionsTold
    <2> QED BY <1>3, <2>4 DEF ms
  <1> QED BY <1>1, <1>2, <1>3

-----------------------------------------------------------------------------
(* The inductive invariant: the input stays one of Inputs. *)

LawsInv == part = "laws" => input \in Inputs

LEMMA LawsInvariance == Spec => []LawsInv
  <1>1. Init => LawsInv
    BY DEF Init, StoresInit, PromisesInit, L!Init, LawsInv
  <1>2. LawsInv /\ [Next]_vars => LawsInv'
    BY DEF LawsInv, vars, Next, StoresNext, PromisesNext, LifecycleNext, Records, Catalog, PullSecret,
           Pools, Retry, Calls, NotStores, NotPromises
  <1> QED BY <1>1, <1>2, PTL DEF Spec

LEMMA InputTyped ==
  ASSUME LawsInv, part = "laws"
  PROVE  L!Typed(input) /\ NumbersApart /\ L!NoneApart /\ Versions \subseteq L!Version
  BY ServicesAssumption DEF LawsInv, L!LawsAssumption, L!NoneApart, NumbersApart

(***************************************************************************)
(* For installations in any phases and in any order: the status of an app  *)
(* is the same in every summary, depends on the order only between         *)
(* movements, and offers actions that fit; for any error, what is told of  *)
(* it agrees with whether it is tried again (calculateAppStatus,           *)
(* getStatusSummary, normalizeError, withRetry).                           *)
(***************************************************************************)
THEOREM StatusesAgree == Spec => []StatusLaws
  <1>1. LawsInv => StatusLaws
    <2> SUFFICES ASSUME LawsInv, part = "laws" PROVE L!StatusLaws /\ L!ErrorLaws
      BY DEF StatusLaws
    <2>1. L!StatusTyped(input) /\ L!ErrorTyped(input) /\ NumbersApart
      BY InputTyped DEF L!Typed
    <2>2. L!StatusLaws
      BY <2>1, InputStatuses DEF L!StatusLaws
    <2>3. L!ErrorLaws
      BY <2>1, InputErrors DEF L!ErrorLaws
    <2> QED BY <2>2, <2>3
  <1> QED BY <1>1, LawsInvariance, PTL

(***************************************************************************)
(* For any summary of a cluster, selection and readiness: a compatible     *)
(* cluster shows no critical bar, an estimate gets the status of what is   *)
(* known, select-all settles, whatever does not fit is warned of, and what *)
(* is ready for apps is ready (cluster-resources.ts,                       *)
(* ClusterResourceTable.vue, cluster-operations.ts).                       *)
(***************************************************************************)
THEOREM ClustersAgree == Spec => []ClusterLaws
  <1>1. LawsInv => ClusterLaws
    <2> SUFFICES ASSUME LawsInv, part = "laws" PROVE L!ClusterLaws
      BY DEF ClusterLaws
    <2>1. L!ClusterTyped(input)
      BY InputTyped DEF L!Typed
    <2> QED BY <2>1, InputClusters DEF L!ClusterLaws
  <1> QED BY <1>1, LawsInvariance, PTL

(***************************************************************************)
(* For any names, quantities, forms and chart values: the validators of    *)
(* the two layers nest or agree, but where the laws say that they differ   *)
(* (validation.ts, and the rules of forms).                                *)
(***************************************************************************)
THEOREM ValidatorsAgree == Spec => []ValidationLaws
  <1>1. LawsInv => ValidationLaws
    <2> SUFFICES ASSUME LawsInv, part = "laws" PROVE L!ValidationLaws
      BY DEF ValidationLaws
    <2>1. L!ValidationTyped(input) /\ NumbersApart
      BY InputTyped DEF L!Typed
    <2> QED BY <2>1, InputForms DEF L!ValidationLaws
  <1> QED BY <1>1, LawsInvariance, PTL

(***************************************************************************)
(* For any state of the store: where its indexes are true, the getters add *)
(* up and count the same apps; a record that is written is found, and      *)
(* spoils the indexes just when its key had another app or cluster; a      *)
(* repository is found under its cluster (suseai-common.ts, apps.ts).      *)
(***************************************************************************)
THEOREM ViewsAddUp == Spec => []StoreLaws
  <1>1. LawsInv => StoreLaws
    <2> SUFFICES ASSUME LawsInv, part = "laws" PROVE L!StoreLaws
      BY DEF StoreLaws
    <2>1. L!StoreTyped(input)
      BY InputTyped DEF L!Typed
    <2> QED BY <2>1, InputStores DEF L!StoreLaws
  <1> QED BY <1>1, LawsInvariance, PTL

(***************************************************************************)
(* For any versions, of any numbers: those shown are in a strict order,    *)
(* the newest first but where the laws say it is not; the four orders      *)
(* agree on plain versions; what a constraint resolves to meets it         *)
(* whenever a version of the list does, whatever the list; and a feature   *)
(* is enabled only where the cluster's versions allow it (semverDesc,      *)
(* compareVersions, chart-resolver.ts, feature-flags.ts).                  *)
(***************************************************************************)
THEOREM VersionsOrdered == Spec => []VersionLaws
  <1>1. LawsInv => VersionLaws
    <2> SUFFICES ASSUME LawsInv, part = "laws" PROVE L!VersionLaws
      BY DEF VersionLaws
    <2>1. L!VersionTyped(input) /\ L!NoneApart /\ Versions \subseteq L!Version
      BY InputTyped DEF L!Typed
    <2> QED BY <2>1, InputVersions DEF L!VersionLaws
  <1> QED BY <1>1, LawsInvariance, PTL

(***************************************************************************)
(* For any lists of repositories, secrets, files, nodes and mutations, and *)
(* any input of the API: the repository inferred holds the chart, and a    *)
(* form that opens shows a version of it; an install is found in a cluster *)
(* that has it; an archive is read file by file; the nodes of a cluster,   *)
(* its filters and its connection add up; and the operator's index,        *)
(* conversion, admission and extension answer as promised                  *)
(* (rancher-apps.ts, app-collection.ts, cluster-resources.ts, and the      *)
(* packages of the operator).                                              *)
(***************************************************************************)
THEOREM LookupsAgree == Spec => []LookupLaws
  <1>1. LawsInv => LookupLaws
    <2> SUFFICES ASSUME LawsInv, part = "laws" PROVE L!LookupLaws /\ L!ApiLaws /\ L!ListLaws
      BY DEF LookupLaws
    <2>1. /\ L!LookupTyped(input) /\ L!ApiTyped(input) /\ L!ClusterTyped(input) /\ L!StoreTyped(input)
          /\ L!NoneApart
      BY InputTyped DEF L!Typed
    <2>2. L!LookupLaws
      BY <2>1, InputLookups DEF L!LookupLaws
    <2>3. L!ApiLaws
      BY <2>1, InputApi DEF L!ApiLaws
    <2>4. L!ListLaws
      BY <2>1, InputLists DEF L!ListLaws
    <2> QED BY <2>2, <2>3, <2>4
  <1> QED BY <1>1, LawsInvariance, PTL

===============================================================================
