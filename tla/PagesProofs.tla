----------------------------- MODULE PagesProofs -----------------------------
(***************************************************************************)
(* Theorems about the two pages.                                           *)
(***************************************************************************)
EXTENDS Pages, TLAPS

-----------------------------------------------------------------------------
(* The instances page, for any instances, clusters and keys and any number of *)
(* loads and deletions at once.                                               *)

(***************************************************************************)
(* The inductive invariant.  Indicators counts refreshes and collects the  *)
(* keys of deletions; a step that ends one must know that it was the only  *)
(* one (OneRefresh) and that no other deletion has its key (OwnKeys).      *)
(***************************************************************************)

Refreshing(s) == loads[s] # None /\ loads[s].kind = "refresh"

OneRefresh ==
  /\ ~loading => \A s \in I!Slots : ~Refreshing(s)
  /\ loading => \E t \in I!Slots : Refreshing(t) /\ \A s \in I!Slots : Refreshing(s) => s = t
  /\ \A s \in I!Slots : loads[s] # None /\ loads[s].step = "info" => Refreshing(s)

Deletes(i) == deletes[i] # "idle"

OwnKeys ==
  \A i, j \in Instances : Deletes(i) /\ Deletes(j) /\ KeyOf[i] = KeyOf[j] => i = j

InstancesInv == I!TypeOK /\ OneRefresh /\ I!DeletingMarks /\ OwnKeys

-----------------------------------------------------------------------------
(* What the rows and loads are made of. *)

\* Every state but "absent" has a status.
LEMMA StatusOfState ==
  ASSUME NEW state \in I!RancherStates \ {"absent"}
  PROVE  I!InstanceStatus(state) \in I!Statuses
  BY DEF I!InstanceStatus, I!Statuses, I!RancherStates

LEMMA FoundInType ==
  ASSUME I!TypeOK, NEW c \in Clusters
  PROVE  I!FoundIn(c) \subseteq I!Row
  <1>1. \A i \in Instances : apps[i] # "absent" => I!InstanceStatus(apps[i]) \in I!Statuses
    BY StatusOfState DEF I!TypeOK
  <1> QED BY <1>1 DEF I!FoundIn, I!Row

LEMMA NewLoadType ==
  ASSUME NoneIsNone, I!TypeOK, NEW kind \in {"refresh", "silent"}
  PROVE  /\ I!NewLoad(kind) \in I!Load /\ I!NewLoad(kind) # None
         /\ I!NewLoad(kind).kind = kind /\ I!NewLoad(kind).step # "info"
  <1>1. I!NewLoad(kind) \in I!Load
    BY DEF I!NewLoad, I!Load, I!TypeOK
  <1>2. I!NewLoad(kind).kind = kind /\ I!NewLoad(kind).step # "info"
    BY DEF I!NewLoad
  <1> QED BY <1>1, <1>2 DEF NoneIsNone

\* A load that goes on keeps its kind and stays a load.
LEMMA AnsweredForm ==
  ASSUME NEW load \in I!Load, NEW todo \in SUBSET Clusters
  PROVE  /\ [load EXCEPT !.step = "query", !.todo = todo] \in I!Load
         /\ [load EXCEPT !.step = "query", !.todo = todo].kind = load.kind
         /\ [load EXCEPT !.step = "query", !.todo = todo].step = "query"
  BY DEF I!Load

LEMMA QueriedForm ==
  ASSUME NEW load \in I!Load, NEW todo \in SUBSET Clusters, NEW found \in SUBSET I!Row
  PROVE  /\ [load EXCEPT !.todo = todo, !.found = found] \in I!Load
         /\ [load EXCEPT !.todo = todo, !.found = found].kind = load.kind
         /\ [load EXCEPT !.todo = todo, !.found = found].step = load.step
  BY DEF I!Load

LEMMA InfoForm ==
  ASSUME NEW load \in I!Load
  PROVE  [load EXCEPT !.step = "info"] \in I!Load /\ [load EXCEPT !.step = "info"].kind = load.kind
  BY DEF I!Load

-----------------------------------------------------------------------------
(* The parts of the invariant, by what a step does to them. *)

\* The load in one slot changes and stays what it was, or a silent one ends.
LEMMA LoadGoesOn ==
  ASSUME NoneIsNone, I!TypeOK, OneRefresh, NEW s \in I!Slots, loads[s] # None, UNCHANGED loading,
         NEW load, loads' = [loads EXCEPT ![s] = load],
         \/ /\ load \in I!Load /\ load.kind = loads[s].kind
            /\ load.step = "info" => load.kind = "refresh"
         \/ load = None /\ loads[s].kind = "silent"
  PROVE  loads' \in [I!Slots -> I!Load \cup {None}] /\ OneRefresh'
  <1>1. loads' \in [I!Slots -> I!Load \cup {None}] /\ loads'[s] = load
        /\ \A t \in I!Slots \ {s} : loads'[t] = loads[t]
    BY DEF I!TypeOK
  <1>2. load \in I!Load => load # None
    BY DEF NoneIsNone
  <1>3. \A t \in I!Slots : Refreshing(t)' <=> Refreshing(t)
    BY <1>1, <1>2 DEF Refreshing
  <1>4. \A t \in I!Slots : loads'[t] # None /\ loads'[t].step = "info" => Refreshing(t)'
    BY <1>1, <1>3 DEF OneRefresh, Refreshing
  <1> QED BY <1>1, <1>3, <1>4 DEF OneRefresh

\* A load begins in a free slot: a refresh while none runs, or a silent one.
LEMMA LoadBegins ==
  ASSUME NoneIsNone, I!TypeOK, OneRefresh, ~loading, NEW s \in I!Slots, NEW kind \in {"refresh", "silent"},
         I!StartLoad(s, kind), loading' = (kind = "refresh")
  PROVE  loads' \in [I!Slots -> I!Load \cup {None}] /\ OneRefresh'
  <1>1. /\ I!NewLoad(kind) \in I!Load /\ I!NewLoad(kind) # None
        /\ I!NewLoad(kind).kind = kind /\ I!NewLoad(kind).step # "info"
    BY NewLoadType
  <1>2. loads' \in [I!Slots -> I!Load \cup {None}] /\ loads'[s] = I!NewLoad(kind)
        /\ \A t \in I!Slots \ {s} : loads'[t] = loads[t]
    BY <1>1 DEF I!TypeOK, I!StartLoad
  <1>3. \A t \in I!Slots : Refreshing(t)' <=> t = s /\ kind = "refresh"
    BY <1>1, <1>2 DEF Refreshing, OneRefresh
  <1>4. \A t \in I!Slots : loads'[t] # None /\ loads'[t].step = "info" => Refreshing(t)'
    BY <1>1, <1>2, <1>3 DEF OneRefresh, Refreshing
  <1> QED BY <1>2, <1>3, <1>4 DEF OneRefresh

\* The deletion of one instance goes on, or ends and takes its key with it.
LEMMA DeletionGoesOn ==
  ASSUME I!PlacesAssumption, I!TypeOK, I!DeletingMarks, OwnKeys, NEW i \in Instances, Deletes(i),
         NEW step \in {"idle", "waiting"}, deletes' = [deletes EXCEPT ![i] = step],
         deleting' = IF step = "idle" THEN deleting \ {KeyOf[i]} ELSE deleting
  PROVE  /\ deletes' \in [Instances -> {"idle", "posting", "waiting"}]
         /\ deleting' \subseteq {KeyOf[j] : j \in Instances}
         /\ I!DeletingMarks' /\ OwnKeys'
  <1>1. deletes' \in [Instances -> {"idle", "posting", "waiting"}]
        /\ deleting' \subseteq {KeyOf[j] : j \in Instances}
    BY DEF I!TypeOK
  <1>2. \A j \in Instances : Deletes(j)' <=> Deletes(j) /\ (j = i => step # "idle")
    BY DEF Deletes, I!TypeOK
  <1>3. OwnKeys'
    BY <1>2 DEF OwnKeys
  <1>4. deleting = {KeyOf[j] : j \in {k \in Instances : Deletes(k)}}
    BY DEF I!DeletingMarks, Deletes
  <1>5. deleting' = {KeyOf[j] : j \in {k \in Instances : Deletes(k)'}}
    <2>1. CASE step = "waiting"
      BY <1>2, <1>4, <2>1
    <2>2. CASE step = "idle"
      BY <1>2, <1>4, <2>2 DEF OwnKeys
    <2> QED BY <2>1, <2>2
  <1>6. I!DeletingMarks'
    BY <1>5 DEF I!DeletingMarks, Deletes
  <1> QED BY <1>1, <1>3, <1>6

LEMMA DeletionBegins ==
  ASSUME I!PlacesAssumption, I!TypeOK, I!DeletingMarks, OwnKeys, NEW i \in Instances,
         KeyOf[i] \notin deleting, deletes' = [deletes EXCEPT ![i] = "posting"],
         deleting' = deleting \cup {KeyOf[i]}
  PROVE  /\ deletes' \in [Instances -> {"idle", "posting", "waiting"}]
         /\ deleting' \subseteq {KeyOf[j] : j \in Instances}
         /\ I!DeletingMarks' /\ OwnKeys'
  <1>1. deletes' \in [Instances -> {"idle", "posting", "waiting"}]
        /\ deleting' \subseteq {KeyOf[j] : j \in Instances}
    BY DEF I!TypeOK
  <1>2. \A j \in Instances : Deletes(j)' <=> Deletes(j) \/ j = i
    BY DEF Deletes, I!TypeOK
  <1>3. deleting = {KeyOf[j] : j \in {k \in Instances : Deletes(k)}}
    BY DEF I!DeletingMarks, Deletes
  <1>4. \A j \in Instances : Deletes(j) => KeyOf[j] # KeyOf[i]
    BY <1>3
  <1>5. OwnKeys'
    BY <1>2, <1>4 DEF OwnKeys
  <1>6. deleting' = {KeyOf[j] : j \in {k \in Instances : Deletes(k)'}}
    BY <1>2, <1>3
  <1>7. I!DeletingMarks'
    BY <1>6 DEF I!DeletingMarks, Deletes
  <1> QED BY <1>1, <1>5, <1>7

-----------------------------------------------------------------------------
(* The steps. *)

\* What a step that leaves deletions alone still has to show, and one that leaves loads.
Rest ==
  /\ apps \in [Instances -> I!RancherStates]
  /\ registered \subseteq Clusters
  /\ loading \in BOOLEAN
  /\ error \in {"none", "refresh", "silent", "delete"}
  /\ rows \subseteq I!Row
  /\ cache = None \/ cache \subseteq Clusters
  /\ changes \in 0 .. MaxChanges /\ faults \in 0 .. MaxFaults

LEMMA LoadsChange ==
  ASSUME InstancesInv, UNCHANGED <<deletes, deleting>>, Rest', loads' \in [I!Slots -> I!Load \cup {None}],
         OneRefresh'
  PROVE  InstancesInv'
  <1>1. I!TypeOK'
    BY DEF InstancesInv, I!TypeOK, Rest
  <1>2. I!DeletingMarks' /\ OwnKeys'
    BY DEF InstancesInv, I!DeletingMarks, OwnKeys, Deletes
  <1> QED BY <1>1, <1>2 DEF InstancesInv

LEMMA DeletesChange ==
  ASSUME InstancesInv, UNCHANGED <<loads, loading>>, Rest', I!DeletingMarks', OwnKeys',
         deletes' \in [Instances -> {"idle", "posting", "waiting"}],
         deleting' \subseteq {KeyOf[j] : j \in Instances}
  PROVE  InstancesInv'
  <1>1. I!TypeOK'
    BY DEF InstancesInv, I!TypeOK, Rest
  <1>2. OneRefresh'
    BY DEF InstancesInv, OneRefresh, Refreshing
  <1> QED BY <1>1, <1>2 DEF InstancesInv

LEMMA BeginsKeep ==
  ASSUME NoneIsNone, InstancesInv, NEW s \in I!Slots, I!Refresh(s) \/ I!SilentRefresh(s)
  PROVE  InstancesInv'
  <1>1. CASE I!Refresh(s)
    <2>1. ~loading /\ I!StartLoad(s, "refresh") /\ loading' = TRUE
      BY <1>1 DEF I!Refresh, I!RefreshEnabled
    <2>2. loads' \in [I!Slots -> I!Load \cup {None}] /\ OneRefresh'
      BY <2>1, LoadBegins DEF InstancesInv
    <2>3. Rest'
      <3>1. loading' \in BOOLEAN
        BY <2>1
      <3> QED BY <1>1, <3>1 DEF I!Refresh, InstancesInv, I!TypeOK, Rest, I!world
    <2> QED BY <1>1, <2>2, <2>3, LoadsChange DEF I!Refresh
  <1>2. CASE I!SilentRefresh(s)
    <2>1. ~loading /\ I!StartLoad(s, "silent") /\ loading' = FALSE
      <3>1. ~loading /\ loading \in BOOLEAN /\ loading' = loading
        BY <1>2 DEF I!SilentRefresh, InstancesInv, I!TypeOK
      <3>2. loading' = FALSE
        BY <3>1
      <3> QED BY <1>2, <3>1, <3>2 DEF I!SilentRefresh
    <2>2. loads' \in [I!Slots -> I!Load \cup {None}] /\ OneRefresh'
      BY <2>1, LoadBegins DEF InstancesInv
    <2>3. Rest'
      BY <1>2 DEF I!SilentRefresh, InstancesInv, I!TypeOK, Rest, I!world
    <2> QED BY <1>2, <2>2, <2>3, LoadsChange DEF I!SilentRefresh
  <1> QED BY <1>1, <1>2

\* A load that ends is silent, or goes on to loadAppInfo.
LEMMA EndedForms ==
  ASSUME NoneIsNone, NEW s \in I!Slots, NEW load \in I!Load, load.kind = loads[s].kind
  PROVE  \/ /\ I!Ended(load) \in I!Load /\ I!Ended(load).kind = loads[s].kind
            /\ I!Ended(load).kind = "refresh"
         \/ I!Ended(load) = None /\ loads[s].kind = "silent"
  <1>1. CASE load.kind = "silent"
    BY <1>1 DEF I!Ended
  <1>2. CASE load.kind # "silent"
    <2>1. load.kind = "refresh"
      BY <1>2 DEF I!Load
    <2> QED BY <1>2, <2>1, InfoForm DEF I!Ended
  <1> QED BY <1>1, <1>2

\* One cluster's part of a query, answered or not.
LEMMA QueryKeeps ==
  ASSUME NoneIsNone, InstancesInv, NEW s \in I!Slots, loads[s] # None, NEW found \in [Clusters -> SUBSET I!Row],
         I!QueryDone(s, found), UNCHANGED loading
  PROVE  rows' \subseteq I!Row /\ loads' \in [I!Slots -> I!Load \cup {None}] /\ OneRefresh'
  <1>1. loads[s] \in I!Load /\ rows \subseteq I!Row
    BY DEF InstancesInv, I!TypeOK
  <1>2. PICK c \in loads[s].todo :
          LET load == [loads[s] EXCEPT !.todo = @ \ {c}, !.found = @ \cup found[c]]
          IN IF load.todo = {}
             THEN rows' = load.found /\ loads' = [loads EXCEPT ![s] = I!Ended(load)]
             ELSE loads' = [loads EXCEPT ![s] = load] /\ UNCHANGED rows
    BY DEF I!QueryDone
  <1> DEFINE todo == loads[s].todo \ {c}
             all  == loads[s].found \cup found[c]
             load == [loads[s] EXCEPT !.todo = todo, !.found = all]
  <1>3. todo \in SUBSET Clusters /\ all \in SUBSET I!Row
    BY <1>1 DEF I!Load
  <1>4. load \in I!Load /\ load.kind = loads[s].kind /\ load.step = loads[s].step
    <2>1. \A old \in I!Load, t \in SUBSET Clusters, f \in SUBSET I!Row :
            [old EXCEPT !.todo = t, !.found = f] \in I!Load
            /\ [old EXCEPT !.todo = t, !.found = f].kind = old.kind
            /\ [old EXCEPT !.todo = t, !.found = f].step = old.step
      BY QueriedForm
    <2> HIDE DEF todo, all
    <2> QED BY <1>1, <1>3, <2>1, Zenon
  <1>5. load.found = all
    BY <1>1 DEF I!Load
  <1>6. \/ rows' = load.found /\ loads' = [loads EXCEPT ![s] = I!Ended(load)]
        \/ rows' = rows /\ loads' = [loads EXCEPT ![s] = load]
    BY <1>2
  <1>7. \/ /\ I!Ended(load) \in I!Load /\ I!Ended(load).kind = loads[s].kind
           /\ I!Ended(load).kind = "refresh"
        \/ I!Ended(load) = None /\ loads[s].kind = "silent"
    BY <1>4, EndedForms
  <1> HIDE DEF load
  <1>8. rows' \subseteq I!Row
    BY <1>1, <1>3, <1>5, <1>6
  <1>9. CASE loads' = [loads EXCEPT ![s] = I!Ended(load)]
    BY <1>7, <1>8, <1>9, LoadGoesOn DEF InstancesInv
  <1>10. CASE loads' = [loads EXCEPT ![s] = load]
    <2>1. load.step = "info" => load.kind = "refresh"
      BY <1>4 DEF InstancesInv, OneRefresh, Refreshing
    <2> QED BY <1>4, <1>8, <1>10, <2>1, LoadGoesOn DEF InstancesInv
  <1> QED BY <1>6, <1>9, <1>10

LEMMA LoadsKeep ==
  ASSUME NoneIsNone, I!BoundAssumption, InstancesInv, NEW s \in I!Slots, I!LoadStep(s)
  PROVE  InstancesInv'
  <1>1. I!TypeOK /\ OneRefresh /\ loads \in [I!Slots -> I!Load \cup {None}] /\ registered \subseteq Clusters
    BY DEF InstancesInv, I!TypeOK
  <1>2. CASE I!ClustersAnswered(s)
    <2> DEFINE load == [loads[s] EXCEPT !.step = "query", !.todo = registered]
    <2>1. loads[s] \in I!Load /\ loads[s] # None
      BY <1>1, <1>2 DEF I!ClustersAnswered
    <2>2. load \in I!Load /\ load.kind = loads[s].kind /\ load.step = "query"
      <3>1. \A old \in I!Load, t \in SUBSET Clusters :
              /\ [old EXCEPT !.step = "query", !.todo = t] \in I!Load
              /\ [old EXCEPT !.step = "query", !.todo = t].kind = old.kind
              /\ [old EXCEPT !.step = "query", !.todo = t].step = "query"
        BY AnsweredForm
      <3> QED BY <1>1, <2>1, <3>1, Zenon
    <2>3. loads' = [loads EXCEPT ![s] = load] /\ UNCHANGED loading
      <3>1. loads' = [loads EXCEPT ![s].step = "query", ![s].todo = registered]
        BY <1>2 DEF I!ClustersAnswered
      <3>2. loads' = [loads EXCEPT ![s] = load]
        BY <1>1, <3>1, Zenon
      <3> QED BY <1>2, <3>2 DEF I!ClustersAnswered
    <2> HIDE DEF load
    <2>4. loads' \in [I!Slots -> I!Load \cup {None}] /\ OneRefresh'
      BY <1>1, <2>1, <2>2, <2>3, LoadGoesOn
    <2>5. Rest'
      BY <1>1, <1>2 DEF I!ClustersAnswered, I!TypeOK, Rest, I!world
    <2> QED BY <1>2, <2>4, <2>5, LoadsChange DEF I!ClustersAnswered
  <1>3. CASE I!ClustersFailed(s)
    <2>1. loads[s] \in I!Load /\ loads[s] # None /\ UNCHANGED loading
      BY <1>1, <1>3 DEF I!ClustersFailed
    <2>2. loads' \in [I!Slots -> I!Load \cup {None}] /\ OneRefresh'
      BY <1>1, <1>3, <2>1, EndedForms, LoadGoesOn DEF I!ClustersFailed
    <2>3. Rest'
      BY <1>1, <1>3, <2>1 DEF I!ClustersFailed, I!TypeOK, Rest, I!world, I!Load, I!BoundAssumption
    <2> QED BY <1>3, <2>2, <2>3, LoadsChange DEF I!ClustersFailed
  <1>4. CASE I!QueryAnswered(s)
    <2>1. [c \in Clusters |-> I!FoundIn(c)] \in [Clusters -> SUBSET I!Row]
      BY <1>1, FoundInType
    <2>2. rows' \subseteq I!Row /\ loads' \in [I!Slots -> I!Load \cup {None}] /\ OneRefresh'
      BY <1>4, <2>1, QueryKeeps DEF I!QueryAnswered
    <2>3. Rest'
      BY <1>1, <1>4, <2>2 DEF I!QueryAnswered, I!TypeOK, Rest, I!world
    <2> QED BY <1>4, <2>2, <2>3, LoadsChange DEF I!QueryAnswered
  <1>5. CASE I!QueryFailed(s)
    <2>1. [c \in Clusters |-> {}] \in [Clusters -> SUBSET I!Row]
      OBVIOUS
    <2>2. rows' \subseteq I!Row /\ loads' \in [I!Slots -> I!Load \cup {None}] /\ OneRefresh'
      BY <1>5, <2>1, QueryKeeps DEF I!QueryFailed
    <2>3. Rest'
      BY <1>1, <1>5, <2>2 DEF I!QueryFailed, I!TypeOK, Rest, I!world, I!BoundAssumption
    <2> QED BY <1>5, <2>2, <2>3, LoadsChange DEF I!QueryFailed
  <1>6. CASE I!NothingToQuery(s)
    <2>1. loads[s] \in I!Load /\ loads[s] # None /\ UNCHANGED loading
      BY <1>1, <1>6 DEF I!NothingToQuery
    <2>2. loads' \in [I!Slots -> I!Load \cup {None}] /\ OneRefresh'
      BY <1>1, <1>6, <2>1, EndedForms, LoadGoesOn DEF I!NothingToQuery
    <2>3. Rest'
      BY <1>1, <1>6 DEF I!NothingToQuery, I!TypeOK, Rest, I!world
    <2> QED BY <1>6, <2>2, <2>3, LoadsChange DEF I!NothingToQuery
  <1>7. CASE I!InfoAnswered(s)
    <2>1. loading' = FALSE /\ loads' = [loads EXCEPT ![s] = None] /\ loads[s] # None
          /\ loads[s].step = "info"
      BY <1>7 DEF I!InfoAnswered
    <2>2. loads' \in [I!Slots -> I!Load \cup {None}] /\ ~Refreshing(s)'
          /\ \A t \in I!Slots \ {s} : Refreshing(t)' => Refreshing(t)
      BY <1>1, <2>1 DEF Refreshing
    <2>3. \A t \in I!Slots : Refreshing(t) => t = s
      BY <1>1, <2>1 DEF OneRefresh, I!TypeOK
    <2>4. OneRefresh'
      <3>1. \A t \in I!Slots : loads'[t] # None /\ loads'[t].step = "info" => Refreshing(t)'
        BY <1>1, <2>1 DEF OneRefresh, Refreshing
      <3> QED BY <2>1, <2>2, <2>3, <3>1 DEF OneRefresh
    <2>5. Rest'
      <3>1. loading' \in BOOLEAN
        BY <2>1
      <3> QED BY <1>1, <1>7, <3>1 DEF I!InfoAnswered, I!TypeOK, Rest, I!world
    <2> QED BY <1>7, <2>2, <2>4, <2>5, LoadsChange DEF I!InfoAnswered
  <1> QED BY <1>2, <1>3, <1>4, <1>5, <1>6, <1>7 DEF I!LoadStep

LEMMA DeletesKeep ==
  ASSUME NoneIsNone, I!PlacesAssumption, I!BoundAssumption, InstancesInv, NEW i \in Instances,
         I!Delete(i) \/ I!DeleteStep(i)
  PROVE  InstancesInv'
  <1>1. I!TypeOK /\ I!DeletingMarks /\ OwnKeys
    BY DEF InstancesInv
  <1>2. CASE I!Delete(i)
    <2>1. KeyOf[i] \notin deleting
      BY <1>2 DEF I!Delete, I!DeleteEnabled
    <2>2. /\ deletes' \in [Instances -> {"idle", "posting", "waiting"}]
          /\ deleting' \subseteq {KeyOf[j] : j \in Instances}
          /\ I!DeletingMarks' /\ OwnKeys'
      BY <1>1, <1>2, <2>1, DeletionBegins DEF I!Delete
    <2>3. Rest'
      BY <1>1, <1>2 DEF I!Delete, I!TypeOK, Rest, I!world, I!BoundAssumption
    <2> QED BY <1>2, <2>2, <2>3, DeletesChange DEF I!Delete
  <1>3. CASE I!UninstallPosted(i)
    <2>1. deleting' = (IF "waiting" = "idle" THEN deleting \ {KeyOf[i]} ELSE deleting)
          /\ Deletes(i)
      BY <1>3 DEF I!UninstallPosted, Deletes
    <2>2. deletes' = [deletes EXCEPT ![i] = "waiting"] /\ "waiting" \in {"idle", "waiting"}
      BY <1>3 DEF I!UninstallPosted
    <2>3. /\ deletes' \in [Instances -> {"idle", "posting", "waiting"}]
          /\ deleting' \subseteq {KeyOf[j] : j \in Instances}
          /\ I!DeletingMarks' /\ OwnKeys'
      BY <1>1, <2>1, <2>2, DeletionGoesOn
    <2>4. Rest'
      BY <1>1, <1>3 DEF I!UninstallPosted, I!TypeOK, Rest, I!RancherStates
    <2> QED BY <1>3, <2>3, <2>4, DeletesChange DEF I!UninstallPosted
  <1>4. ASSUME Deletes(i), deletes' = [deletes EXCEPT ![i] = "idle"], deleting' = deleting \ {KeyOf[i]}
        PROVE  /\ deletes' \in [Instances -> {"idle", "posting", "waiting"}]
               /\ deleting' \subseteq {KeyOf[j] : j \in Instances}
               /\ I!DeletingMarks' /\ OwnKeys'
    <2>1. deleting' = (IF "idle" = "idle" THEN deleting \ {KeyOf[i]} ELSE deleting)
          /\ "idle" \in {"idle", "waiting"}
      BY <1>4
    <2> QED BY <1>1, <1>4, <2>1, DeletionGoesOn
  <1>5. CASE I!UninstallFailed(i)
    <2>1. Rest'
      BY <1>1, <1>5 DEF I!UninstallFailed, I!TypeOK, Rest, I!world, I!BoundAssumption
    <2> QED BY <1>4, <1>5, <2>1, DeletesChange DEF I!UninstallFailed, Deletes
  <1>6. CASE I!Deleted(i)
    <2>1. rows' \subseteq rows
      BY <1>6 DEF I!Deleted, I!RemoveRow
    <2>2. Rest'
      BY <1>1, <1>6, <2>1 DEF I!Deleted, I!TypeOK, Rest, I!world
    <2> QED BY <1>4, <1>6, <2>2, DeletesChange DEF I!Deleted, Deletes
  <1> QED BY <1>2, <1>3, <1>5, <1>6 DEF I!DeleteStep

\* The cache, the clusters and what others do there.
LEMMA WorldKeeps ==
  ASSUME NoneIsNone, I!BoundAssumption, InstancesInv,
         \/ I!CacheExpires
         \/ \E i \in Instances : I!UserInstalls(i) \/ I!HelmEnds(i)
         \/ \E c \in Clusters : I!ClusterRegistered(c)
  PROVE  InstancesInv'
  <1>1. I!TypeOK /\ OneRefresh
    BY DEF InstancesInv
  <1>2. CASE I!CacheExpires
    <2>1. Rest'
      BY <1>1, <1>2 DEF I!CacheExpires, I!TypeOK, Rest, I!world
    <2> QED BY <1>1, <1>2, <2>1, LoadsChange DEF I!CacheExpires, OneRefresh, Refreshing, I!TypeOK
  <1>3. ASSUME NEW i \in Instances, NEW state \in I!RancherStates, I!SetApp(i, state),
               changes' \in 0 .. MaxChanges
        PROVE  InstancesInv'
    <2>1. Rest'
      BY <1>1, <1>3 DEF I!SetApp, I!TypeOK, Rest, I!page
    <2> QED BY <1>1, <1>3, <2>1, LoadsChange DEF I!SetApp, I!page, OneRefresh, Refreshing, I!TypeOK
  <1>4. ASSUME NEW i \in Instances, I!UserInstalls(i) PROVE InstancesInv'
    <2>1. changes' \in 0 .. MaxChanges
      BY <1>1, <1>4 DEF I!UserInstalls, I!TypeOK, I!BoundAssumption
    <2>2. \E state \in I!RancherStates : I!SetApp(i, state)
      BY <1>4 DEF I!UserInstalls, I!RancherStates
    <2> QED BY <1>3, <2>1, <2>2
  <1>5. ASSUME NEW i \in Instances, I!HelmEnds(i) PROVE InstancesInv'
    <2>1. changes' \in 0 .. MaxChanges
      BY <1>1, <1>5 DEF I!HelmEnds, I!TypeOK
    <2>2. \E state \in I!RancherStates : I!SetApp(i, state)
      BY <1>5 DEF I!HelmEnds, I!RancherStates
    <2> QED BY <1>3, <2>1, <2>2
  <1>6. ASSUME NEW c \in Clusters, I!ClusterRegistered(c) PROVE InstancesInv'
    <2>1. Rest'
      BY <1>1, <1>6 DEF I!ClusterRegistered, I!TypeOK, Rest, I!page, I!BoundAssumption
    <2> QED BY <1>1, <1>6, <2>1, LoadsChange
               DEF I!ClusterRegistered, I!page, OneRefresh, Refreshing, I!TypeOK
  <1> QED BY <1>2, <1>4, <1>5, <1>6

LEMMA InstancesInitially ==
  ASSUME NoneIsNone, MaxLoads \in Nat \ {0}, I!BoundAssumption, I!Init
  PROVE  InstancesInv
  <1> DEFINE first == [kind |-> "refresh", step |-> "clusters", todo |-> {}, found |-> {}]
  <1>1. first \in I!Load /\ first # None /\ first.kind = "refresh" /\ first.step = "clusters"
    BY DEF I!Load, NoneIsNone
  <1>2. I!NewLoad("refresh") = first
    BY DEF I!Init, I!NewLoad
  <1> HIDE DEF first
  <1>3. 1 \in I!Slots /\ loads = [s \in I!Slots |-> IF s = 1 THEN first ELSE None]
    BY <1>2 DEF I!Init, I!Slots
  <1>4. loads \in [I!Slots -> I!Load \cup {None}] /\ \A s \in I!Slots : Refreshing(s) <=> s = 1
    BY <1>1, <1>3 DEF Refreshing
  <1>5. OneRefresh
    <2>1. \A s \in I!Slots : loads[s] # None /\ loads[s].step = "info" => Refreshing(s)
      BY <1>1, <1>3
    <2>2. loading = TRUE
      BY DEF I!Init
    <2> QED BY <1>3, <1>4, <2>1, <2>2 DEF OneRefresh
  <1>6. deletes = [i \in Instances |-> "idle"] /\ deleting = {}
    BY DEF I!Init
  <1>7. I!DeletingMarks /\ OwnKeys
    BY <1>6 DEF I!DeletingMarks, OwnKeys, Deletes
  <1>8. loading \in BOOLEAN
    BY DEF I!Init
  <1>9. apps \in [Instances -> I!RancherStates] /\ registered \subseteq Clusters
    BY DEF I!Init, I!RancherStates
  <1>10. I!TypeOK
    BY <1>4, <1>6, <1>8, <1>9 DEF I!Init, I!TypeOK, I!BoundAssumption
  <1> QED BY <1>5, <1>7, <1>10 DEF InstancesInv

LEMMA InstancesSteps ==
  ASSUME NoneIsNone, I!PlacesAssumption, I!BoundAssumption, InstancesInv, I!Next
  PROVE  InstancesInv'
  BY BeginsKeep, LoadsKeep, DeletesKeep, WorldKeeps DEF I!Next

\* The refreshes in flight from OneRefresh.
LEMMA RefreshesCounted ==
  ASSUME OneRefresh, loading \in BOOLEAN
  PROVE  I!LoadingIsRefresh
  BY DEF OneRefresh, Refreshing, I!LoadingIsRefresh

-----------------------------------------------------------------------------
(***************************************************************************)
(* The catalogue page.  Marks are cleared by a selection and collected by  *)
(* tasks that outlive it, so what the page shows at rest depends on what   *)
(* each task in flight is still to bring: the table of a selection that is *)
(* being fetched is not filled yet (TableFilled), and an app that is       *)
(* installed is marked, or a task is to look it up, or is to fetch the     *)
(* list it will look up (MarksComplete).                                   *)
(***************************************************************************)

Fetches(target) ==
  \E s \in A!Slots : tasks[s] # None /\ tasks[s].step = "fetch" /\ tasks[s].target = target
Fetching == \E s \in A!Slots : tasks[s] # None /\ tasks[s].step = "fetch"
LookedUp(g) ==
  \E s \in A!Slots : tasks[s] # None /\ tasks[s].step = "discover" /\ g \in tasks[s].todo
Covered(g) == A!Installed(g) => g \in marks \/ LookedUp(g)
Quiet == faults = 0 /\ ~moved

\* What each task carries: where an app is being looked up, it is one of those to do, and
\* a cluster is still to answer.
Fits(task) ==
  /\ task.kind = "refresh" => task.target = "default"
  /\ task.step # "discover" => task.now = None /\ ~task.found
  /\ task.now # None => task.now \in task.todo /\ task.left # {}
  /\ task.target = "all" /\ task.lists => task.asked = {} /\ task.got = {}

\* What a task has found is there.
Finds(task) == task.found => A!Installed(task.now)

\* What a task has not found yet is in a cluster that has not answered yet, and the
\* repositories that are ready are those whose indexes came or are to come.
Whole(task) ==
  /\ task.now # None /\ A!Installed(task.now) =>
        task.found \/ \E c \in task.left : A!FoundIn(task.now, c)
  /\ task.target = "all" /\ task.step = "fetch" /\ ~task.lists => task.asked \cup task.got = ready

TasksFit == \A s \in A!Slots : tasks[s] # None => Fits(tasks[s])
TasksFind == ~moved => \A s \in A!Slots : tasks[s] # None => Finds(tasks[s])
TasksWhole == Quiet => \A s \in A!Slots : tasks[s] # None => Whole(tasks[s])

TableFits ==
  \A r \in Repos : repoApps[r] \in {None, {}, CatalogOf[r]} /\ (faults = 0 => repoApps[r] # {})

TableFilled ==
  Quiet =>
    /\ selected \in ready => repoApps[selected] = CatalogOf[selected] \/ Fetches(selected)
    /\ selected = "all" => (\A r \in ready : repoApps[r] = CatalogOf[r]) \/ Fetches("all")

MarksTrue == ~moved => \A g \in marks : A!Installed(g)

MarksComplete ==
  Quiet =>
    /\ (\A item \in items : Covered(item.slug)) \/ Fetching
    /\ selected \in Repos => (\A g \in CatalogOf[selected] : Covered(g)) \/ Fetches(selected)
    /\ selected = "all" =>
          (\A r \in Repos : repoApps[r] # None => \A g \in repoApps[r] : Covered(g)) \/ Fetches("all")

-----------------------------------------------------------------------------
(* Lists and tasks. *)

LEMMA ListForms ==
  ASSUME NEW src \in Repos \cup {"suse"}, NEW slugs \in SUBSET Slugs
  PROVE  A!From(src, slugs) \in SUBSET A!Item /\ A!SlugsOf(A!From(src, slugs)) = slugs
  <1>1. A!From(src, slugs) \in SUBSET A!Item
    BY DEF A!From, A!Item
  <1>2. ASSUME NEW g \in slugs PROVE \E x \in A!From(src, slugs) : x.slug = g
    <2>1. [slug |-> g, from |-> src] \in A!From(src, slugs)
      BY DEF A!From
    <2> QED BY <2>1
  <1>3. \A x \in A!From(src, slugs) : x.slug \in slugs
    BY DEF A!From
  <1>4. A!SlugsOf(A!From(src, slugs)) = slugs
    BY <1>2, <1>3, Zenon DEF A!SlugsOf
  <1> QED BY <1>1, <1>4

LEMMA SlugsForm ==
  ASSUME NEW list \in SUBSET A!Item
  PROVE  A!SlugsOf(list) \in SUBSET Slugs
  <1>1. \A x \in list : x.slug \in Slugs
    BY DEF A!Item
  <1> QED BY <1>1 DEF A!SlugsOf

LEMMA DiscoveringForm ==
  ASSUME NEW task \in A!Task, NEW list \in SUBSET A!Item
  PROVE  /\ A!Discovering(task, list) \in A!Task
         /\ A!Discovering(task, list).step = "discover"
         /\ A!Discovering(task, list).todo = A!SlugsOf(list)
         /\ A!Discovering(task, list).kind = task.kind
         /\ A!Discovering(task, list).target = task.target
         /\ Fits(task) /\ task.step # "discover" =>
              LET next == A!Discovering(task, list)
              IN  Fits(next) /\ Finds(next) /\ Whole(next)
  <1>1. A!SlugsOf(list) \in SUBSET Slugs
    BY SlugsForm
  <1>2. \A todo \in SUBSET Slugs :
          [task EXCEPT !.step = "discover", !.todo = todo] \in A!Task
    BY DEF A!Task
  <1>3. /\ A!Discovering(task, list) \in A!Task
        /\ A!Discovering(task, list).step = "discover"
        /\ A!Discovering(task, list).todo = A!SlugsOf(list)
        /\ A!Discovering(task, list).kind = task.kind
        /\ A!Discovering(task, list).target = task.target
        /\ A!Discovering(task, list).now = task.now
        /\ A!Discovering(task, list).found = task.found
        /\ A!Discovering(task, list).lists = task.lists
        /\ A!Discovering(task, list).got = task.got /\ A!Discovering(task, list).asked = task.asked
    BY <1>1, <1>2 DEF A!Discovering, A!Task
  <1> DEFINE next == A!Discovering(task, list)
  <1> HIDE DEF next
  <1>4. ASSUME Fits(task), task.step # "discover"
        PROVE  Fits(next) /\ Finds(next) /\ Whole(next)
    BY <1>3, <1>4 DEF Fits, Finds, Whole, next
  <1> QED BY <1>3, <1>4 DEF next

LEMMA FetchingForm ==
  ASSUME NEW kind \in {"refresh", "watch"}, NEW target \in Repos \cup {"default", "all"}
  PROVE  /\ A!Fetching(kind, target) \in A!Task
         /\ A!Fetching(kind, target).step = "fetch"
         /\ A!Fetching(kind, target).kind = kind
         /\ A!Fetching(kind, target).target = target
         /\ (kind = "refresh" => target = "default") =>
              LET task == A!Fetching(kind, target)
              IN  Fits(task) /\ Finds(task) /\ Whole(task)
  <1> DEFINE task == A!Fetching(kind, target)
  <1>1. /\ task \in A!Task
        /\ task.step = "fetch" /\ task.kind = kind /\ task.target = target
        /\ task.now = None /\ task.found = FALSE /\ task.got = {} /\ task.asked = {}
    BY DEF A!Fetching, A!Task
  <1>2. target = "all" => task.lists
    BY DEF A!Fetching
  <1> HIDE DEF task
  <1>3. (kind = "refresh" => target = "default") => Fits(task) /\ Finds(task) /\ Whole(task)
    BY <1>1, <1>2 DEF Fits, Finds, Whole
  <1> QED BY <1>1, <1>3 DEF task

\* What one slot's change does to the others, and to what is fetched and looked up.
LEMMA SlotChanges ==
  ASSUME A!TypeOK, NEW s \in A!Slots, NEW task \in A!Task \cup {None},
         tasks' = [tasks EXCEPT ![s] = task]
  PROVE  /\ tasks' \in [A!Slots -> A!Task \cup {None}]
         /\ tasks'[s] = task /\ \A u \in A!Slots \ {s} : tasks'[u] = tasks[u]
  BY DEF A!TypeOK

LEMMA FetchesStay ==
  ASSUME A!TypeOK, NEW s \in A!Slots, NEW task \in A!Task \cup {None},
         tasks' = [tasks EXCEPT ![s] = task], NEW target,
         tasks[s] # None /\ tasks[s].step = "fetch" /\ tasks[s].target = target =>
           task # None /\ task.step = "fetch" /\ task.target = target
  PROVE  Fetches(target) => Fetches(target)'
  BY SlotChanges DEF Fetches

LEMMA FetchBegins ==
  ASSUME A!TypeOK, NEW s \in A!Slots, NEW task \in A!Task, task # None,
         tasks' = [tasks EXCEPT ![s] = task], task.step = "fetch"
  PROVE  Fetches(task.target)' /\ Fetching'
  BY SlotChanges DEF Fetches, Fetching

LEMMA CoveredStays ==
  ASSUME A!TypeOK, NEW s \in A!Slots, NEW task \in A!Task \cup {None},
         tasks' = [tasks EXCEPT ![s] = task], UNCHANGED deployed, marks \subseteq marks',
         NEW g,
         tasks[s] # None /\ tasks[s].step = "discover" /\ g \in tasks[s].todo /\ A!Installed(g) =>
           g \in marks' \/ (task # None /\ task.step = "discover" /\ g \in task.todo)
  PROVE  Covered(g) => Covered(g)'
  <1>1. A!Installed(g)' => A!Installed(g)
    BY DEF A!Installed, A!FoundIn
  <1> QED BY <1>1, SlotChanges DEF Covered, LookedUp

\* The other tasks go on as they were, if what they look up stays where it is.
LEMMA TasksStay ==
  ASSUME A!TypeOK, TasksFind, TasksWhole, NEW s \in A!Slots, NEW task \in A!Task \cup {None},
         tasks' = [tasks EXCEPT ![s] = task], UNCHANGED <<ready, deployed, moved>>,
         faults' = 0 => faults = 0,
         ~moved /\ task # None => Finds(task), Quiet' /\ task # None => Whole(task)
  PROVE  TasksFind' /\ TasksWhole'
  <1>1. \A u \in A!Slots \ {s} : tasks'[u] = tasks[u]
    BY SlotChanges
  <1>2. tasks'[s] = task
    BY SlotChanges
  <1>3. Quiet' => Quiet
    BY DEF Quiet
  <1>4. TasksFind'
    <2> SUFFICES ASSUME ~moved, NEW u \in A!Slots, tasks'[u] # None
                 PROVE  Finds(tasks[u])'
      BY DEF TasksFind
    <2>1. Finds(tasks'[u])
      BY <1>1, <1>2 DEF TasksFind
    <2> QED BY <2>1 DEF Finds, A!Installed, A!FoundIn
  <1>5. TasksWhole'
    <2> SUFFICES ASSUME Quiet', NEW u \in A!Slots, tasks'[u] # None
                 PROVE  Whole(tasks[u])'
      BY DEF TasksWhole
    <2>1. Whole(tasks'[u])
      BY <1>1, <1>2, <1>3 DEF TasksWhole
    <2> QED BY <2>1 DEF Whole, A!Installed, A!FoundIn
  <1> QED BY <1>4, <1>5

LEMMA LookedUpBy ==
  ASSUME A!TypeOK, NEW s \in A!Slots, NEW task \in A!Task, task # None,
         tasks' = [tasks EXCEPT ![s] = task], task.step = "discover", NEW g \in task.todo
  PROVE  Covered(g)'
  BY SlotChanges DEF Covered, LookedUp

-----------------------------------------------------------------------------
(* The types of the catalogue page. *)

LEMMA SuseForm ==
  ASSUME A!CatalogAssumption
  PROVE  A!SuseItems \in SUBSET A!Item
  <1>1. SuseSlugs \in SUBSET Slugs /\ "suse" \in Repos \cup {"suse"}
    BY DEF A!CatalogAssumption
  <1> QED BY <1>1, ListForms DEF A!SuseItems

\* A task in one slot is replaced, or ends.
LEMMA TaskTypes ==
  ASSUME A!TypeOK, TasksFit, NEW s \in A!Slots, NEW task \in A!Task \cup {None},
         tasks' = [tasks EXCEPT ![s] = task],
         task # None => Fits(task)
  PROVE  tasks' \in [A!Slots -> A!Task \cup {None}] /\ TasksFit'
  BY SlotChanges DEF TasksFit

LEMMA RefreshTypes ==
  ASSUME NoneIsNone, A!CatalogAssumption, A!BoundsAssumption, A!TypeOK, TasksFit,
         NEW s \in A!Slots, A!Refresh(s)
  PROVE  A!TypeOK' /\ TasksFit'
  <1>1. A!Fetching("refresh", "default") \in A!Task
        /\ Fits(A!Fetching("refresh", "default"))
    BY FetchingForm
  <1>2. tasks' \in [A!Slots -> A!Task \cup {None}] /\ TasksFit'
    BY <1>1, TaskTypes DEF A!Refresh, A!Start
  <1>3. A!TypeOK'
    BY <1>2, SuseForm DEF A!Refresh, A!TypeOK, A!BoundsAssumption
  <1> QED BY <1>2, <1>3

LEMMA SelectTypes ==
  ASSUME NoneIsNone, A!CatalogAssumption, A!BoundsAssumption, A!TypeOK, TasksFit,
         NEW s \in A!Slots, NEW target \in Repos \cup {"default", "all"}, A!Select(s, target)
  PROVE  A!TypeOK' /\ TasksFit'
  <1> DEFINE fetching == A!Fetching("watch", target)
  <1>1. fetching \in A!Task /\ fetching.step = "fetch" /\ Fits(fetching)
    BY FetchingForm
  <1>2. ASSUME NEW list \in SUBSET A!Item
        PROVE  A!Discovering(fetching, list) \in A!Task /\ Fits(A!Discovering(fetching, list))
    <2> HIDE DEF fetching
    <2> QED BY <1>1, <1>2, DiscoveringForm
  <1>3. target \in Repos /\ A!Loaded(target) => A!RepoItems(target) \in SUBSET A!Item
    BY ListForms DEF A!RepoItems, A!Loaded, A!TypeOK
  <1>4. items' \in SUBSET A!Item /\ repoLoading' \in BOOLEAN
    BY <1>3, SuseForm DEF A!Select, A!TypeOK
  <1>5. \/ tasks' = [tasks EXCEPT ![s] = A!Discovering(fetching, A!SuseItems)]
        \/ /\ target \in Repos /\ A!Loaded(target)
           /\ tasks' = [tasks EXCEPT ![s] = A!Discovering(fetching, A!RepoItems(target))]
        \/ tasks' = [tasks EXCEPT ![s] = fetching]
    BY DEF A!Select, A!Start
  <1> HIDE DEF fetching
  <1>6. tasks' \in [A!Slots -> A!Task \cup {None}] /\ TasksFit'
    <2>1. ASSUME NEW task \in A!Task, Fits(task), tasks' = [tasks EXCEPT ![s] = task]
          PROVE  tasks' \in [A!Slots -> A!Task \cup {None}] /\ TasksFit'
      BY <2>1, TaskTypes
    <2>2. A!SuseItems \in SUBSET A!Item
      BY SuseForm
    <2> QED BY <1>1, <1>2, <1>3, <1>5, <2>1, <2>2
  <1>7. marks' \subseteq Slugs /\ changes' \in 0 .. MaxChanges
    BY DEF A!Select, A!TypeOK, A!BoundsAssumption, A!ClearedMarks
  <1>8. moved' \in BOOLEAN
    BY Zenon DEF A!Select
  <1>9. loading' \in BOOLEAN /\ selected' \in Repos \cup {"default", "all"}
    BY DEF A!Select, A!TypeOK
  <1>10. UNCHANGED <<ready, options, repoApps, deployed, faults>>
    BY DEF A!Select
  <1>11. A!TypeOK'
    BY <1>4, <1>6, <1>7, <1>9, <1>10, <1>8 DEF A!TypeOK
  <1> QED BY <1>6, <1>11

\* A task of all repositories goes on fetching.
LEMMA ListedForm ==
  ASSUME NEW task \in A!Task, Fits(task), task.target = "all", task.lists, NEW listed \in SUBSET Repos
  PROVE  LET next == [task EXCEPT !.lists = FALSE, !.asked = listed]
         IN  /\ next \in A!Task /\ next.step = task.step /\ next.target = "all" /\ Fits(next)
             /\ next.todo = task.todo /\ (Finds(task) => Finds(next))
             /\ Whole(task) /\ listed = ready => Whole(next)
  <1> DEFINE next == [task EXCEPT !.lists = FALSE, !.asked = listed]
  <1>1. /\ next \in A!Task /\ next.step = task.step /\ next.target = "all" /\ next.kind = task.kind
        /\ next.todo = task.todo /\ next.now = task.now /\ next.left = task.left
        /\ next.found = task.found /\ next.got = task.got /\ next.asked = listed /\ ~next.lists
    BY DEF A!Task
  <1>2. task.got = {}
    BY DEF Fits
  <1> HIDE DEF next
  <1> QED BY <1>1, <1>2 DEF Fits, Finds, Whole, next

LEMMA IndexSteps ==
  ASSUME NEW s \in A!Slots, A!IndexAnswered(s), A!TypeOK, tasks[s] \in A!Task
  PROVE  \E r \in tasks[s].asked, got \in SUBSET Repos :
           /\ got \in {tasks[s].got, tasks[s].got \cup {r}}
           /\ \/ r \in got /\ UNCHANGED faults
              \/ faults < MaxFaults /\ faults' = faults + 1
           /\ tasks' = [tasks EXCEPT ![s].asked = @ \ {r}, ![s].got = got]
  <1>1. PICK r \in tasks[s].asked :
          \/ /\ tasks' = [tasks EXCEPT ![s].asked = @ \ {r}, ![s].got = @ \cup {r}]
             /\ UNCHANGED faults
          \/ /\ tasks' = [tasks EXCEPT ![s].asked = @ \ {r}]
             /\ faults < MaxFaults /\ faults' = faults + 1
    BY DEF A!IndexAnswered
  <1>2. [tasks EXCEPT ![s].asked = @ \ {r}] = [tasks EXCEPT ![s].asked = @ \ {r}, ![s].got = tasks[s].got]
    BY DEF A!TypeOK, A!Task
  <1>3. tasks[s].got \in SUBSET Repos /\ tasks[s].got \cup {r} \in SUBSET Repos
    BY DEF A!Task
  <1> QED BY <1>1, <1>2, <1>3

Indexed(task, r, got) == [task EXCEPT !.asked = task.asked \ {r}, !.got = got]

LEMMA IndexForm ==
  ASSUME NEW task \in A!Task, Fits(task), task.target = "all", NEW r \in task.asked,
         NEW got \in {task.got, task.got \cup {r}}
  PROVE  LET next == Indexed(task, r, got)
         IN  /\ next \in A!Task /\ next.step = task.step /\ next.target = "all" /\ Fits(next)
             /\ next.todo = task.todo /\ (Finds(task) => Finds(next))
             /\ Whole(task) /\ r \in got => Whole(next)
  <1> DEFINE next == Indexed(task, r, got)
  <1>1. r \in Repos /\ got \in SUBSET Repos
    BY DEF A!Task
  <1>2. /\ next \in A!Task /\ next.step = task.step /\ next.target = "all" /\ next.kind = task.kind
        /\ next.todo = task.todo /\ next.now = task.now /\ next.left = task.left
        /\ next.found = task.found /\ next.got = got /\ next.asked = task.asked \ {r}
        /\ next.lists = task.lists
    BY <1>1 DEF A!Task, Indexed
  <1> HIDE DEF next
  <1> QED BY <1>1, <1>2 DEF Fits, Finds, Whole, next

\* The clusters that have not answered for the app that is looked up, and whether one
\* of those that have, or the next, has it.
Left(s) == IF tasks[s].now = None THEN Clusters ELSE tasks[s].left
Found(s, hit) == (tasks[s].now # None /\ tasks[s].found) \/ hit

\* A cluster answers for an app: more clusters are to answer, or it was the last.
GoesOn(s, g, c, hit) ==
  /\ Left(s) \ {c} # {}
  /\ tasks' = [tasks EXCEPT ![s] = [tasks[s] EXCEPT !.now = g, !.left = Left(s) \ {c}, !.found = Found(s, hit)]]
  /\ UNCHANGED marks
IsLast(s, g, c, hit) ==
  /\ Left(s) \ {c} = {}
  /\ tasks' = [tasks EXCEPT ![s] = [tasks[s] EXCEPT !.todo = @ \ {g}, !.now = None, !.left = {}, !.found = FALSE]]
  /\ marks' = IF Found(s, hit) THEN marks \cup {g} ELSE marks
Hears(g, c, hit) ==
  \/ hit = A!FoundIn(g, c) /\ UNCHANGED faults
  \/ ~hit /\ faults < MaxFaults /\ faults' = faults + 1
Answers(s, g, c, hit) ==
  /\ tasks[s].now # None => g = tasks[s].now
  /\ Hears(g, c, hit)
  /\ GoesOn(s, g, c, hit) \/ IsLast(s, g, c, hit)

LEMMA DiscoverSteps ==
  ASSUME NoneIsNone, A!CatalogAssumption, A!TypeOK, TasksFit, NEW s \in A!Slots, A!Discover(s)
  PROVE  \E g \in tasks[s].todo, c \in Left(s), hit \in BOOLEAN : Answers(s, g, c, hit)
  <1>1. Left(s) # {}
    BY DEF Left, TasksFit, Fits, A!Discover, A!CatalogAssumption
  <1> DEFINE c == A!NextOf(Left(s))
  <1>2. c \in Left(s)
    BY <1>1, Zenon DEF A!NextOf
  <1>3. tasks[s].now # None => tasks[s].now \in tasks[s].todo
    BY DEF TasksFit, Fits, A!Discover
  <1> HIDE DEF c
  <1>4. PICK g \in (IF tasks[s].now = None THEN tasks[s].todo ELSE {tasks[s].now}), hit \in BOOLEAN :
           /\ \/ hit = A!FoundIn(g, c) /\ UNCHANGED faults
              \/ ~hit /\ faults < MaxFaults /\ faults' = faults + 1
           /\ IF Left(s) \ {c} # {}
              THEN /\ tasks' = [tasks EXCEPT ![s] = [tasks[s] EXCEPT !.now = g, !.left = Left(s) \ {c},
                                                                     !.found = Found(s, hit)]]
                   /\ UNCHANGED marks
              ELSE /\ tasks' = [tasks EXCEPT ![s] = [tasks[s] EXCEPT !.todo = @ \ {g}, !.now = None,
                                                                     !.left = {}, !.found = FALSE]]
                   /\ marks' = IF Found(s, hit) THEN marks \cup {g} ELSE marks
    BY Zenon DEF A!Discover, Left, Found, c
  <1>5. g \in tasks[s].todo /\ (tasks[s].now # None => g = tasks[s].now)
    BY <1>3, <1>4
  <1>6. Answers(s, g, c, hit)
    BY <1>4, <1>5, Zenon DEF Answers, Hears, GoesOn, IsLast
  <1> QED BY <1>2, <1>4, <1>5, <1>6, Zenon

\* The task when more clusters are to answer, and when none is.
GoneOn(task, g, left, found) == [task EXCEPT !.now = g, !.left = left, !.found = found]

LEMMA GoesOnForm ==
  ASSUME NoneIsNone, NEW task \in A!Task, task.step = "discover", Fits(task), NEW g \in task.todo,
         NEW left \in SUBSET Clusters, left # {}, NEW found \in BOOLEAN
  PROVE  LET next == GoneOn(task, g, left, found)
         IN  /\ next \in A!Task /\ next.step = "discover" /\ next.todo = task.todo /\ Fits(next)
             /\ next.now = g /\ next.left = left /\ next.found = found /\ next.target = task.target
  <1> DEFINE next == GoneOn(task, g, left, found)
  <1>1. /\ next \in A!Task /\ next.step = "discover" /\ next.todo = task.todo
        /\ next.kind = task.kind /\ next.target = task.target /\ next.lists = task.lists
        /\ next.got = task.got /\ next.asked = task.asked /\ next.now = g /\ next.left = left /\ next.found = found
    BY DEF A!Task, GoneOn
  <1> HIDE DEF next
  <1>2. Fits(next)
    BY <1>1 DEF Fits
  <1> QED BY <1>1, <1>2 DEF next

LEMMA LooksUpNextForm ==
  ASSUME NEW task \in A!Task, task.step = "discover", Fits(task), NEW g
  PROVE  LET next == [task EXCEPT !.todo = @ \ {g}, !.now = None, !.left = {}, !.found = FALSE]
         IN  /\ next \in A!Task /\ next.step = "discover" /\ next.todo = task.todo \ {g} /\ Fits(next)
             /\ Finds(next) /\ Whole(next)
  <1> DEFINE next == [task EXCEPT !.todo = @ \ {g}, !.now = None, !.left = {}, !.found = FALSE]
  <1>1. /\ next \in A!Task /\ next.step = "discover" /\ next.todo = task.todo \ {g}
        /\ next.kind = task.kind /\ next.target = task.target /\ next.lists = task.lists
        /\ next.got = task.got /\ next.asked = task.asked /\ next.now = None /\ next.left = {} /\ next.found = FALSE
    BY DEF A!Task
  <1> HIDE DEF next
  <1>2. Fits(next) /\ Finds(next) /\ Whole(next)
    BY <1>1 DEF Fits, Finds, Whole
  <1> QED BY <1>1, <1>2 DEF next

LEMMA TaskStepTypes ==
  ASSUME NoneIsNone, A!CatalogAssumption, A!BoundsAssumption, A!TypeOK, TasksFit,
         NEW s \in A!Slots, A!TaskStep(s)
  PROVE  A!TypeOK' /\ TasksFit'
  <1>1. tasks[s] \in A!Task /\ tasks[s] # None /\ items \in SUBSET A!Item
    BY DEF A!TypeOK, A!TaskStep, A!StoreAnswered, A!StoreFailed, A!RepositoriesAnswered,
           A!RepoAnswered, A!AllListed, A!IndexAnswered, A!AllAnswered, A!Discover, A!TaskEnds
  <1>2. Fits(tasks[s])
    BY <1>1 DEF TasksFit
  <1>3. ASSUME NEW list \in SUBSET A!Item, tasks[s].step = "fetch",
               tasks' = [tasks EXCEPT ![s] = A!Discovering(@, list)]
        PROVE  tasks' \in [A!Slots -> A!Task \cup {None}] /\ TasksFit'
    BY <1>1, <1>2, <1>3, DiscoveringForm, TaskTypes
  <1>4. ASSUME tasks' = [tasks EXCEPT ![s] = None]
        PROVE  tasks' \in [A!Slots -> A!Task \cup {None}] /\ TasksFit'
    BY <1>4, TaskTypes
  <1>5. CASE A!StoreAnswered(s)
    <2>1. tasks' \in [A!Slots -> A!Task \cup {None}] /\ TasksFit'
      BY <1>1, <1>3, <1>5 DEF A!StoreAnswered
    <2> QED BY <1>5, <2>1 DEF A!StoreAnswered, A!TypeOK
  <1>6. CASE A!StoreFailed(s)
    <2> DEFINE over == [tasks[s] EXCEPT !.step = "over"]
    <2>1. /\ over \in A!Task /\ over.step = "over" /\ over.kind = tasks[s].kind
          /\ over.target = tasks[s].target /\ over.lists = tasks[s].lists /\ over.got = tasks[s].got
          /\ over.asked = tasks[s].asked
          /\ over.now = tasks[s].now /\ over.found = tasks[s].found
      BY <1>1 DEF A!Task
    <2>2. tasks' = [tasks EXCEPT ![s] = IF tasks[s].lists THEN over ELSE None]
      BY <1>6 DEF A!StoreFailed
    <2> HIDE DEF over
    <2>3. Fits(over)
      BY <1>2, <1>6, <2>1 DEF Fits, A!StoreFailed
    <2>4. tasks' \in [A!Slots -> A!Task \cup {None}] /\ TasksFit'
      BY <1>4, <2>1, <2>2, <2>3, TaskTypes
    <2>5. loading' \in BOOLEAN
      BY <1>6 DEF A!StoreFailed
    <2> QED BY <1>6, <2>4, <2>5 DEF A!StoreFailed, A!TypeOK, A!BoundsAssumption
  <1>7. CASE A!RepositoriesAnswered(s)
    <2> DEFINE next == [tasks[s] EXCEPT !.lists = FALSE]
    <2>1. /\ next \in A!Task /\ next.step = tasks[s].step /\ next.kind = tasks[s].kind
          /\ next.target = tasks[s].target /\ next.lists = FALSE /\ next.todo = tasks[s].todo
          /\ next.now = tasks[s].now /\ next.found = tasks[s].found /\ next.left = tasks[s].left
      BY <1>1 DEF A!Task
    <2>2. tasks' = [tasks EXCEPT ![s] = IF tasks[s].step = "over" THEN None ELSE next]
      BY <1>7 DEF A!RepositoriesAnswered
    <2> HIDE DEF next
    <2>3. Fits(next)
      BY <1>2, <2>1 DEF Fits
    <2>4. tasks' \in [A!Slots -> A!Task \cup {None}] /\ TasksFit'
      BY <1>4, <2>1, <2>2, <2>3, TaskTypes
    <2> QED BY <1>7, <2>4 DEF A!RepositoriesAnswered, A!TypeOK, A!BoundsAssumption
  <1>8. CASE A!RepoAnswered(s)
    <2>1. PICK found \in {CatalogOf[tasks[s].target], {}} :
            /\ \/ UNCHANGED faults
               \/ faults < MaxFaults /\ faults' = faults + 1
            /\ repoApps' = A!Stored(tasks[s].target, found)
            /\ items' = A!From(tasks[s].target, found)
            /\ tasks' = [tasks EXCEPT ![s] = A!Discovering(@, A!From(tasks[s].target, found))]
      BY <1>8 DEF A!RepoAnswered
    <2>2. tasks[s].target \in Repos /\ found \in SUBSET Slugs /\ tasks[s].step = "fetch"
      BY <1>8 DEF A!RepoAnswered, A!CatalogAssumption
    <2>3. A!From(tasks[s].target, found) \in SUBSET A!Item
      BY <2>2, ListForms
    <2>4. tasks' \in [A!Slots -> A!Task \cup {None}] /\ TasksFit'
      BY <1>3, <2>1, <2>2, <2>3
    <2>5. repoApps' \in [Repos -> (SUBSET Slugs) \cup {None}]
      BY <2>1, <2>2 DEF A!TypeOK, A!Stored
    <2>6. faults' \in 0 .. MaxFaults
      BY <2>1 DEF A!TypeOK, A!BoundsAssumption
    <2> QED BY <1>8, <2>1, <2>3, <2>4, <2>5, <2>6 DEF A!RepoAnswered, A!TypeOK
  <1>9. CASE A!AllListed(s)
    <2>1. PICK listed \in {ready, {}} :
            /\ \/ UNCHANGED faults
               \/ faults < MaxFaults /\ faults' = faults + 1
            /\ tasks' = [tasks EXCEPT ![s].lists = FALSE, ![s].asked = listed]
      BY <1>9 DEF A!AllListed
    <2> DEFINE next == [tasks[s] EXCEPT !.lists = FALSE, !.asked = listed]
    <2>2. tasks' = [tasks EXCEPT ![s] = next]
      BY <2>1, <1>1 DEF A!Task, A!TypeOK
    <2>3. listed \in SUBSET Repos /\ tasks[s].target = "all" /\ tasks[s].lists
      BY <1>9 DEF A!AllListed, A!TypeOK
    <2>4. next \in A!Task /\ Fits(next)
      BY <1>1, <1>2, <2>3, ListedForm
    <2> HIDE DEF next
    <2>5. tasks' \in [A!Slots -> A!Task \cup {None}] /\ TasksFit'
      BY <2>2, <2>4, TaskTypes
    <2>6. faults' \in 0 .. MaxFaults
      BY <2>1 DEF A!TypeOK, A!BoundsAssumption
    <2> QED BY <1>9, <2>5, <2>6 DEF A!AllListed, A!TypeOK
  <1>10. CASE A!IndexAnswered(s)
    <2>1. PICK r \in tasks[s].asked, got \in SUBSET Repos :
            /\ got \in {tasks[s].got, tasks[s].got \cup {r}}
            /\ \/ UNCHANGED faults
               \/ faults < MaxFaults /\ faults' = faults + 1
            /\ tasks' = [tasks EXCEPT ![s].asked = @ \ {r}, ![s].got = got]
      BY <1>10, <1>1, IndexSteps
    <2> DEFINE next == Indexed(tasks[s], r, got)
    <2>2. tasks' = [tasks EXCEPT ![s] = next]
      BY <2>1, <1>1 DEF A!Task, A!TypeOK, Indexed
    <2>4. next \in A!Task /\ Fits(next)
      BY <1>1, <1>2, <2>1, <1>10, IndexForm DEF A!IndexAnswered
    <2> HIDE DEF next
    <2>5. tasks' \in [A!Slots -> A!Task \cup {None}] /\ TasksFit'
      BY <2>2, <2>4, TaskTypes
    <2>6. faults' \in 0 .. MaxFaults
      BY <2>1 DEF A!TypeOK, A!BoundsAssumption
    <2> QED BY <1>10, <2>5, <2>6 DEF A!IndexAnswered, A!TypeOK
  <1>11. CASE A!AllAnswered(s)
    <2> DEFINE ok == tasks[s].got
    <2>1. PICK m \in A!Merges(UNION {A!From(r, CatalogOf[r]) : r \in ok}) :
            items' = m /\ tasks' = [tasks EXCEPT ![s] = A!Discovering(@, m)]
      BY <1>11 DEF A!AllAnswered
    <2>2. repoApps' = [r \in Repos |-> IF r \in ok THEN CatalogOf[r] ELSE None] /\ tasks[s].step = "fetch"
      BY <1>11 DEF A!AllAnswered
    <2>3. ok \subseteq Repos /\ \A r \in Repos : CatalogOf[r] \in SUBSET Slugs
      BY <1>1 DEF A!Task, A!CatalogAssumption
    <2> HIDE DEF ok
    <2>4. UNION {A!From(r, CatalogOf[r]) : r \in ok} \in SUBSET A!Item
      <3>1. \A r \in ok : A!From(r, CatalogOf[r]) \in SUBSET A!Item
        BY <2>3, ListForms
      <3> QED BY <3>1
    <2>5. m \in SUBSET A!Item
      BY <2>1, <2>4 DEF A!Merges
    <2>6. tasks' \in [A!Slots -> A!Task \cup {None}] /\ TasksFit'
      BY <1>3, <2>1, <2>2, <2>5
    <2>7. repoApps' \in [Repos -> (SUBSET Slugs) \cup {None}]
      BY <2>2, <2>3
    <2> QED BY <1>11, <2>1, <2>5, <2>6, <2>7 DEF A!AllAnswered, A!TypeOK
  <1>12. CASE A!Discover(s)
    <2>1. PICK g \in tasks[s].todo, c \in Left(s), hit \in BOOLEAN : Answers(s, g, c, hit)
      BY <1>12, DiscoverSteps
    <2>2. tasks[s].step = "discover" /\ g \in Slugs /\ Left(s) \in SUBSET Clusters
      BY <1>1, <1>12, <2>1 DEF A!Discover, A!Task, Left
    <2>3. Found(s, hit) \in BOOLEAN
      BY DEF Found
    <2>4. marks' \subseteq Slugs /\ faults' \in 0 .. MaxFaults
      <3>1. marks' \in {marks, marks \cup {g}}
        BY <2>1 DEF Answers, GoesOn, IsLast
      <3>2. UNCHANGED faults \/ (faults < MaxFaults /\ faults' = faults + 1)
        BY <2>1, Zenon DEF Answers, Hears
      <3> QED BY <2>2, <3>1, <3>2 DEF A!TypeOK, A!BoundsAssumption
    <2>5. tasks' \in [A!Slots -> A!Task \cup {None}] /\ TasksFit'
      <3>1. CASE GoesOn(s, g, c, hit)
        <4> DEFINE next == GoneOn(tasks[s], g, Left(s) \ {c}, Found(s, hit))
        <4>1. Left(s) \ {c} \in SUBSET Clusters /\ Left(s) \ {c} # {} /\ tasks' = [tasks EXCEPT ![s] = next]
          BY <2>2, <3>1 DEF GoesOn, GoneOn
        <4>2. next \in A!Task /\ Fits(next)
          BY <1>1, <1>2, <2>1, <2>2, <2>3, <4>1, GoesOnForm
        <4> HIDE DEF next
        <4> QED BY <4>1, <4>2, TaskTypes
      <3>2. CASE IsLast(s, g, c, hit)
        <4> DEFINE next == [tasks[s] EXCEPT !.todo = @ \ {g}, !.now = None, !.left = {}, !.found = FALSE]
        <4>1. tasks' = [tasks EXCEPT ![s] = next]
          BY <3>2 DEF IsLast
        <4>2. next \in A!Task /\ Fits(next)
          BY <1>1, <1>2, <2>2, LooksUpNextForm
        <4> HIDE DEF next
        <4> QED BY <4>1, <4>2, TaskTypes
      <3> QED BY <2>1, <3>1, <3>2, Zenon DEF Answers
    <2> QED BY <1>12, <2>4, <2>5 DEF A!Discover, A!TypeOK
  <1>13. CASE A!TaskEnds(s)
    <2>1. tasks' \in [A!Slots -> A!Task \cup {None}] /\ TasksFit'
      BY <1>4, <1>13 DEF A!TaskEnds
    <2>2. loading' \in BOOLEAN /\ repoLoading' \in BOOLEAN
      BY <1>13 DEF A!TaskEnds, A!TypeOK
    <2> QED BY <1>13, <2>1, <2>2 DEF A!TaskEnds, A!TypeOK
  <1> QED BY <1>5, <1>6, <1>7, <1>8, <1>9, <1>10, <1>11, <1>12, <1>13 DEF A!TaskStep

LEMMA WorldTypes ==
  ASSUME A!BoundsAssumption, A!TypeOK, TasksFit,
         (\E c \in Clusters, name \in A!Names : A!Deployment(c, name)) \/ (\E r \in Repos : A!RepoChanges(r))
  PROVE  A!TypeOK' /\ TasksFit'
  <1>1. TasksFit'
    BY DEF A!Deployment, A!RepoChanges, A!page, TasksFit
  <1>2. changes' \in 0 .. MaxChanges
    BY DEF A!Deployment, A!RepoChanges, A!TypeOK, A!BoundsAssumption
  <1>3. moved' \in BOOLEAN
    BY Zenon DEF A!Deployment, A!RepoChanges
  <1>4. deployed' \in [Clusters -> SUBSET A!Names] /\ ready' \subseteq Repos
    BY DEF A!Deployment, A!RepoChanges, A!Toggled, A!TypeOK
  <1>5. A!TypeOK'
    BY <1>2, <1>4, <1>3 DEF A!Deployment, A!RepoChanges, A!page, A!TypeOK
  <1> QED BY <1>1, <1>5

-----------------------------------------------------------------------------
(* What the catalogue page shows. *)

Shows == TableFits /\ TableFilled /\ MarksTrue /\ MarksComplete /\ TasksFind /\ TasksWhole

\* A step that leaves the selection and the table alone, takes no mark away and adds
\* true ones; while nothing has failed or moved it keeps what is fetched and looked up.
LEMMA StepInPlace ==
  ASSUME A!TypeOK, Shows, UNCHANGED <<ready, selected, repoApps, deployed, moved>>,
         marks \subseteq marks', \A g \in marks' \ marks : ~moved => A!Installed(g), faults' = 0 => faults = 0,
         TasksFind', TasksWhole',
         Quiet' => /\ \A target \in Repos \cup {"all"} : Fetches(target) => Fetches(target)'
                   /\ \A g \in Slugs : Covered(g) => Covered(g)'
                   /\ (\A item \in items' : Covered(item.slug)') \/ Fetching'
  PROVE  Shows'
  <1>1. TableFits' /\ MarksTrue'
    <2>1. TableFits'
      BY DEF Shows, TableFits
    <2>2. \A g : A!Installed(g) => A!Installed(g)'
      BY DEF A!Installed, A!FoundIn
    <2>3. ~moved => \A g \in marks' : A!Installed(g)
      BY DEF Shows, MarksTrue
    <2> QED BY <2>1, <2>2, <2>3 DEF MarksTrue
  <1>2. Quiet' => Quiet
    BY DEF Quiet
  <1>3. TableFilled'
    BY <1>2 DEF Shows, TableFilled, A!TypeOK
  <1>4. ASSUME Quiet', selected \in Repos
        PROVE  (\A g \in CatalogOf[selected] : Covered(g)') \/ Fetches(selected)'
    BY <1>2, <1>4, PagesAssumption DEF Shows, MarksComplete, A!CatalogAssumption
  <1>5. ASSUME Quiet', selected = "all"
        PROVE  (\A r \in Repos : repoApps[r] # None => \A g \in repoApps[r] : Covered(g)') \/ Fetches("all")'
    BY <1>2, <1>5 DEF Shows, MarksComplete, A!TypeOK
  <1>6. MarksComplete'
    BY <1>4, <1>5 DEF MarksComplete
  <1> QED BY <1>1, <1>3, <1>6 DEF Shows

\* After a failure, or a change in the clusters or repositories, nothing is promised of
\* what the page shows but that the table holds whole catalogues or failures.
LEMMA StepSpoils ==
  ASSUME A!TypeOK, Shows, faults' # 0 \/ moved' = TRUE, TableFits', MarksTrue', TasksFind'
  PROVE  Shows'
  BY Zenon DEF Shows, TableFilled, MarksComplete, TasksWhole, Quiet

LEMMA FaultIsOne ==
  ASSUME A!TypeOK
  PROVE  faults + 1 # 0
  BY DEF A!TypeOK

LEMMA RefreshShows ==
  ASSUME NoneIsNone, A!TypeOK, Shows, NEW s \in A!Slots, A!Refresh(s)
  PROVE  Shows'
  <1> DEFINE task == A!Fetching("refresh", "default")
  <1>1. task \in A!Task /\ task # None /\ task.step = "fetch" /\ Finds(task) /\ Whole(task)
    BY FetchingForm DEF NoneIsNone
  <1>2. tasks[s] = None /\ tasks' = [tasks EXCEPT ![s] = task]
    BY DEF A!Refresh, A!Start
  <1> HIDE DEF task
  <1>3. UNCHANGED <<ready, selected, repoApps, deployed, moved, marks, faults>>
    BY DEF A!Refresh
  <1>4. \A target \in Repos \cup {"all"} : Fetches(target) => Fetches(target)'
    BY <1>1, <1>2, FetchesStay
  <1>5. \A g \in Slugs : Covered(g) => Covered(g)'
    BY <1>1, <1>2, <1>3, CoveredStays
  <1>6. Fetching'
    BY <1>1, <1>2, FetchBegins
  <1>7. TasksFind' /\ TasksWhole'
    BY <1>1, <1>2, <1>3, TasksStay DEF Shows
  <1> QED BY <1>3, <1>4, <1>5, <1>6, <1>7, StepInPlace

LEMMA StoreAnsweredShows ==
  ASSUME NoneIsNone, A!CatalogAssumption, A!TypeOK, TasksFit, Shows, NEW s \in A!Slots,
         A!StoreAnswered(s)
  PROVE  Shows'
  <1> DEFINE task == A!Discovering(tasks[s], items)
  <1>1. tasks[s] \in A!Task /\ tasks[s] # None /\ tasks[s].step = "fetch" /\ tasks[s].target = "default"
        /\ Fits(tasks[s]) /\ items \in SUBSET A!Item
    BY DEF A!StoreAnswered, A!TypeOK, TasksFit, Fits
  <1>2. /\ task \in A!Task /\ task # None /\ task.step = "discover" /\ task.todo = A!SlugsOf(items)
        /\ Finds(task) /\ Whole(task)
    BY <1>1, DiscoveringForm DEF NoneIsNone
  <1>3. tasks' = [tasks EXCEPT ![s] = task]
    BY DEF A!StoreAnswered
  <1> HIDE DEF task
  <1>4. UNCHANGED <<ready, selected, repoApps, items, deployed, moved, marks, faults>>
    BY DEF A!StoreAnswered
  <1>5. \A target \in Repos \cup {"all"} : Fetches(target) => Fetches(target)'
    <2>1. "default" \notin Repos \cup {"all"}
      BY DEF A!CatalogAssumption
    <2> QED BY <1>1, <1>2, <1>3, <2>1, FetchesStay
  <1>6. \A g \in Slugs : Covered(g) => Covered(g)'
    BY <1>1, <1>2, <1>3, <1>4, CoveredStays
  <1>7. \A item \in items' : Covered(item.slug)'
    <2>1. \A item \in items : item.slug \in task.todo
      BY <1>2 DEF A!SlugsOf
    <2>2. \A g \in task.todo : Covered(g)'
      BY <1>2, <1>3, LookedUpBy
    <2> QED BY <1>4, <2>1, <2>2
  <1>8. TasksFind' /\ TasksWhole'
    BY <1>2, <1>3, <1>4, TasksStay DEF Shows
  <1> QED BY <1>4, <1>5, <1>6, <1>7, <1>8, StepInPlace

LEMMA MarksStay ==
  ASSUME Shows, UNCHANGED <<marks, deployed, moved>>
  PROVE  MarksTrue'
  <1>1. \A g : A!Installed(g) => A!Installed(g)'
    BY DEF A!Installed, A!FoundIn
  <1> QED BY <1>1 DEF Shows, MarksTrue

LEMMA StoreFailedShows ==
  ASSUME A!TypeOK, TasksFit, Shows, NEW s \in A!Slots, A!StoreFailed(s)
  PROVE  Shows'
  <1>1. faults' # 0
    BY FaultIsOne DEF A!StoreFailed
  <1>2. TableFits' /\ MarksTrue'
    BY <1>1, MarksStay DEF A!StoreFailed, Shows, TableFits
  <1>3. TasksFind'
    <2>1. tasks[s] \in A!Task /\ tasks[s] # None /\ tasks[s].step = "fetch"
      BY DEF A!StoreFailed, A!TypeOK
    <2> DEFINE over == [tasks[s] EXCEPT !.step = "over"]
    <2>2. over \in A!Task /\ over.found = tasks[s].found
      BY <2>1 DEF A!Task
    <2>3. tasks' = [tasks EXCEPT ![s] = IF tasks[s].lists THEN over ELSE None]
      BY DEF A!StoreFailed
    <2> HIDE DEF over
    <2>4. Finds(over)
      BY <2>1, <2>2 DEF Finds, TasksFit, Fits
    <2>5. UNCHANGED <<ready, deployed, moved>> /\ ~Quiet'
      BY <1>1 DEF A!StoreFailed, Quiet
    <2> QED BY <1>1, <2>2, <2>3, <2>4, <2>5, TasksStay DEF Shows
  <1> QED BY <1>1, <1>2, <1>3, StepSpoils

LEMMA RepositoriesAnsweredShows ==
  ASSUME NoneIsNone, A!TypeOK, TasksFit, Shows, NEW s \in A!Slots, A!RepositoriesAnswered(s)
  PROVE  Shows'
  <1>1. tasks[s] \in A!Task /\ tasks[s] # None
    BY DEF A!RepositoriesAnswered, A!TypeOK
  <1> DEFINE task == IF tasks[s].step = "over" THEN None ELSE [tasks[s] EXCEPT !.lists = FALSE]
  <1>2. /\ task \in A!Task \cup {None}
        /\ tasks[s].step # "over" => /\ task # None /\ task.step = tasks[s].step
                                     /\ task.target = tasks[s].target /\ task.todo = tasks[s].todo
        /\ task # None => /\ Finds(tasks[s]) => Finds(task)
                          /\ Whole(tasks[s]) => Whole(task)
    <2> DEFINE next == [tasks[s] EXCEPT !.lists = FALSE]
    <2>1. /\ next \in A!Task /\ next.step = tasks[s].step
          /\ next.target = tasks[s].target /\ next.todo = tasks[s].todo
          /\ next.now = tasks[s].now /\ next.left = tasks[s].left /\ next.found = tasks[s].found
      BY <1>1 DEF A!Task
    <2>2. tasks[s].target = "default"
      BY <1>1 DEF A!RepositoriesAnswered, TasksFit, Fits
    <2> HIDE DEF next
    <2>3. (Finds(tasks[s]) => Finds(next)) /\ (Whole(tasks[s]) => Whole(next))
      BY <2>1, <2>2 DEF Finds, Whole
    <2> QED BY <2>1, <2>3 DEF NoneIsNone, next
  <1>3. tasks' = [tasks EXCEPT ![s] = task]
    BY DEF A!RepositoriesAnswered
  <1> HIDE DEF task
  <1>4. UNCHANGED <<ready, selected, repoApps, items, deployed, moved, marks>>
    BY DEF A!RepositoriesAnswered
  <1>5. faults' = 0 => faults = 0
    BY FaultIsOne DEF A!RepositoriesAnswered
  <1>6. \A target \in Repos \cup {"all"} : Fetches(target) => Fetches(target)'
    BY <1>2, <1>3, FetchesStay
  <1>7. \A g \in Slugs : Covered(g) => Covered(g)'
    BY <1>2, <1>3, <1>4, CoveredStays
  <1>8. Fetching => Fetching'
    BY <1>2, <1>3, SlotChanges DEF Fetching
  <1>9. Quiet' => (\A item \in items' : Covered(item.slug)') \/ Fetching'
    <2>1. Quiet' => (\A item \in items : Covered(item.slug)) \/ Fetching
      BY <1>4, <1>5 DEF Quiet, Shows, MarksComplete
    <2>2. \A item \in items : item.slug \in Slugs
      BY DEF A!TypeOK, A!Item
    <2> QED BY <1>4, <1>7, <1>8, <2>1, <2>2
  <1>10. TasksFind' /\ TasksWhole'
    <2>1. (~moved => Finds(tasks[s])) /\ (Quiet => Whole(tasks[s]))
      BY <1>1 DEF Shows, TasksFind, TasksWhole
    <2>2. Quiet' => Quiet
      BY <1>4, <1>5 DEF Quiet
    <2> QED BY <1>2, <1>3, <1>4, <1>5, <2>1, <2>2, TasksStay DEF Shows
  <1> QED BY <1>4, <1>5, <1>6, <1>7, <1>9, <1>10, StepInPlace

LEMMA DiscoverShows ==
  ASSUME NoneIsNone, A!CatalogAssumption, A!TypeOK, TasksFit, Shows, NEW s \in A!Slots, A!Discover(s)
  PROVE  Shows'
  <1>1. tasks[s] \in A!Task /\ tasks[s] # None /\ tasks[s].step = "discover" /\ Fits(tasks[s])
    BY DEF A!Discover, A!TypeOK, TasksFit
  <1>2. PICK g \in tasks[s].todo, c \in Left(s), hit \in BOOLEAN : Answers(s, g, c, hit)
    BY DiscoverSteps
  <1>3. UNCHANGED <<ready, selected, repoApps, items, deployed, moved>>
    BY DEF A!Discover
  <1>4. g \in Slugs /\ Left(s) \in SUBSET Clusters
    BY <1>1, <1>2 DEF A!Task, Left
  <1>5. hit => A!Installed(g)
    <2>1. c \in Clusters
      BY <1>2, <1>4
    <2>2. hit => A!FoundIn(g, c)
      BY <1>2, Zenon DEF Answers, Hears
    <2> QED BY <2>1, <2>2 DEF A!Installed
  <1>6. ~moved /\ Found(s, hit) => A!Installed(g)
    BY <1>1, <1>2, <1>5 DEF Found, Shows, TasksFind, Finds, Answers
  <1>7. faults' = 0 => faults = 0 /\ (A!FoundIn(g, c) => hit)
    <2>1. faults' = faults + 1 => faults' # 0
      BY FaultIsOne
    <2>2. faults' = 0 => faults = 0
      BY <1>2, <2>1, Zenon DEF Answers, Hears
    <2>3. faults' = 0 => (A!FoundIn(g, c) => hit)
      BY <1>2, <2>1, Zenon DEF Answers, Hears
    <2> QED BY <2>2, <2>3, Zenon
  <1>8. Quiet' => Quiet
    BY <1>3, <1>7 DEF Quiet
  <1>9. Quiet' /\ A!Installed(g) => Found(s, hit) \/ \E d \in Left(s) \ {c} : A!FoundIn(g, d)
    <2> SUFFICES ASSUME Quiet', A!Installed(g), ~Found(s, hit)
                 PROVE  \E d \in Left(s) \ {c} : A!FoundIn(g, d)
      OBVIOUS
    <2>1. \E d \in Left(s) : A!FoundIn(g, d)
      <3>1. CASE tasks[s].now = None
        BY <3>1 DEF Left, A!Installed
      <3>2. CASE tasks[s].now # None
        <4>1. Whole(tasks[s]) /\ g = tasks[s].now /\ ~tasks[s].found
          BY <1>1, <1>2, <1>8, <3>2 DEF Shows, TasksWhole, Found, Answers
        <4> QED BY <3>2, <4>1 DEF Left, Whole
      <3> QED BY <3>1, <3>2
    <2>2. ~A!FoundIn(g, c)
      BY <1>7 DEF Quiet, Found
    <2> QED BY <2>1, <2>2
  <1>10. \E task \in A!Task :
           /\ task # None /\ task.step = "discover" /\ tasks' = [tasks EXCEPT ![s] = task]
           /\ ~moved => Finds(task)
           /\ Quiet' => Whole(task)
           /\ \/ task.todo = tasks[s].todo /\ UNCHANGED marks
              \/ /\ task.todo = tasks[s].todo \ {g} /\ Left(s) \ {c} = {}
                 /\ marks' = IF Found(s, hit) THEN marks \cup {g} ELSE marks
    <2>1. CASE GoesOn(s, g, c, hit)
      <3> DEFINE next == GoneOn(tasks[s], g, Left(s) \ {c}, Found(s, hit))
      <3>1. /\ Left(s) \ {c} \in SUBSET Clusters /\ Left(s) \ {c} # {} /\ Found(s, hit) \in BOOLEAN
            /\ tasks' = [tasks EXCEPT ![s] = next] /\ UNCHANGED marks
        BY <1>4, <2>1 DEF Found, GoesOn, GoneOn
      <3>2. /\ next \in A!Task /\ next.step = "discover" /\ next.todo = tasks[s].todo
            /\ next.now = g /\ next.left = Left(s) \ {c} /\ next.found = Found(s, hit)
        BY <1>1, <1>2, <3>1, GoesOnForm
      <3> HIDE DEF next
      <3>3. ~moved => Finds(next)
        BY <1>6, <3>2 DEF Finds
      <3>4. Quiet' => Whole(next)
        BY <1>9, <3>2 DEF Whole
      <3> QED BY <1>2, <3>1, <3>2, <3>3, <3>4 DEF NoneIsNone
    <2>2. CASE IsLast(s, g, c, hit)
      <3> DEFINE next == [tasks[s] EXCEPT !.todo = @ \ {g}, !.now = None, !.left = {}, !.found = FALSE]
      <3>1. next \in A!Task /\ next.step = "discover" /\ next.todo = tasks[s].todo \ {g}
            /\ Finds(next) /\ Whole(next)
        BY <1>1, LooksUpNextForm
      <3>2. tasks' = [tasks EXCEPT ![s] = next]
        BY <2>2 DEF IsLast
      <3> HIDE DEF next
      <3> QED BY <2>2, <3>1, <3>2 DEF IsLast, NoneIsNone
    <2> QED BY <1>2, <2>1, <2>2, Zenon DEF Answers
  <1>11. PICK task \in A!Task :
           /\ task # None /\ task.step = "discover" /\ tasks' = [tasks EXCEPT ![s] = task]
           /\ ~moved => Finds(task)
           /\ Quiet' => Whole(task)
           /\ \/ task.todo = tasks[s].todo /\ UNCHANGED marks
              \/ /\ task.todo = tasks[s].todo \ {g} /\ Left(s) \ {c} = {}
                 /\ marks' = IF Found(s, hit) THEN marks \cup {g} ELSE marks
    BY <1>10
  <1>12. marks \subseteq marks' /\ \A h \in marks' \ marks : ~moved => A!Installed(h)
    BY <1>6, <1>11
  <1>13. \A target \in Repos \cup {"all"} : Fetches(target) => Fetches(target)'
    BY <1>1, <1>11, FetchesStay
  <1>14. Quiet' => \A h \in Slugs : Covered(h) => Covered(h)'
    <2>1. Quiet' /\ A!Installed(g) /\ g \notin task.todo => g \in marks'
      BY <1>9, <1>11
    <2>2. Quiet' => \A h \in tasks[s].todo : A!Installed(h) => h \in marks' \/ h \in task.todo
      BY <1>11, <2>1
    <2> QED BY <1>1, <1>3, <1>11, <1>12, <2>2, CoveredStays
  <1>15. Fetching => Fetching'
    BY <1>1, <1>11, SlotChanges DEF Fetching
  <1>16. Quiet' => (\A item \in items' : Covered(item.slug)') \/ Fetching'
    <2>1. Quiet' => (\A item \in items : Covered(item.slug)) \/ Fetching
      BY <1>8 DEF Shows, MarksComplete
    <2>2. \A item \in items : item.slug \in Slugs
      BY DEF A!TypeOK, A!Item
    <2> QED BY <1>3, <1>14, <1>15, <2>1, <2>2
  <1>17. TasksFind' /\ TasksWhole'
    BY <1>3, <1>7, <1>11, TasksStay DEF Shows
  <1> QED BY <1>3, <1>7, <1>12, <1>13, <1>14, <1>16, <1>17, StepInPlace

LEMMA TaskEndsShows ==
  ASSUME A!TypeOK, Shows, NEW s \in A!Slots, A!TaskEnds(s)
  PROVE  Shows'
  <1>1. tasks[s].step = "discover" /\ tasks[s].todo = {} /\ tasks' = [tasks EXCEPT ![s] = None]
    BY DEF A!TaskEnds
  <1>2. UNCHANGED <<ready, selected, repoApps, items, deployed, moved, marks, faults>>
    BY DEF A!TaskEnds
  <1>3. \A target \in Repos \cup {"all"} : Fetches(target) => Fetches(target)'
    BY <1>1, FetchesStay
  <1>4. \A g \in Slugs : Covered(g) => Covered(g)'
    BY <1>1, <1>2, CoveredStays
  <1>5. Fetching => Fetching'
    BY <1>1, SlotChanges DEF Fetching
  <1>6. Quiet' => (\A item \in items' : Covered(item.slug)') \/ Fetching'
    <2>1. Quiet' => (\A item \in items : Covered(item.slug)) \/ Fetching
      BY <1>2 DEF Quiet, Shows, MarksComplete
    <2>2. \A item \in items : item.slug \in Slugs
      BY DEF A!TypeOK, A!Item
    <2> QED BY <1>2, <1>4, <1>5, <2>1, <2>2
  <1>7. TasksFind' /\ TasksWhole'
    BY <1>1, <1>2, TasksStay DEF Shows
  <1> QED BY <1>2, <1>3, <1>4, <1>6, <1>7, StepInPlace

LEMMA RepoAnsweredShows ==
  ASSUME NoneIsNone, A!CatalogAssumption, A!TypeOK, TasksFit, Shows, NEW s \in A!Slots, A!RepoAnswered(s)
  PROVE  Shows'
  <1>1. /\ tasks[s] \in A!Task /\ tasks[s] # None /\ tasks[s].step = "fetch" /\ tasks[s].target \in Repos
        /\ Fits(tasks[s])
    BY DEF A!RepoAnswered, A!TypeOK, TasksFit
  <1> DEFINE repo == tasks[s].target
  <1>2. PICK found \in {CatalogOf[repo], {}} :
          /\ \/ found # {} /\ UNCHANGED faults
             \/ found = {} /\ faults < MaxFaults /\ faults' = faults + 1
          /\ repoApps' = A!Stored(repo, found)
          /\ items' = A!From(repo, found)
          /\ tasks' = [tasks EXCEPT ![s] = A!Discovering(@, A!From(repo, found))]
    BY DEF A!RepoAnswered
  <1>3. CatalogOf[repo] \in SUBSET Slugs /\ CatalogOf[repo] # {} /\ found \in SUBSET Slugs
    BY <1>1 DEF A!CatalogAssumption
  <1>4. A!From(repo, found) \in SUBSET A!Item /\ A!SlugsOf(A!From(repo, found)) = found
    BY <1>1, <1>3, ListForms
  <1> DEFINE task == A!Discovering(tasks[s], A!From(repo, found))
  <1>5. /\ task \in A!Task /\ task # None /\ task.step = "discover" /\ task.todo = found
        /\ Finds(task) /\ Whole(task)
    BY <1>1, <1>4, DiscoveringForm DEF NoneIsNone
  <1>6. tasks' = [tasks EXCEPT ![s] = task]
    BY <1>2
  <1>7. UNCHANGED <<ready, selected, deployed, moved, marks>>
    BY DEF A!RepoAnswered
  <1>8. repoApps'[repo] = found /\ \A r \in Repos \ {repo} : repoApps'[r] = repoApps[r]
    BY <1>1, <1>2 DEF A!Stored, A!TypeOK
  <1>9. faults' = 0 => faults = 0 /\ found = CatalogOf[repo]
    BY <1>2, FaultIsOne
  <1>10. TableFits' /\ MarksTrue'
    <2>1. TableFits'
      BY <1>1, <1>2, <1>3, <1>7, <1>8, <1>9 DEF Shows, TableFits
    <2> QED BY <1>7, <2>1, MarksStay
  <1> HIDE DEF task, repo
  <1>13. TasksFind' /\ TasksWhole'
    BY <1>5, <1>6, <1>7, <1>9, TasksStay DEF Shows
  <1>11. CASE faults' # 0
    BY <1>10, <1>11, <1>13, StepSpoils
  <1>12. CASE faults' = 0
    <2>1. faults = 0 /\ found = CatalogOf[repo] /\ (Quiet' => Quiet)
      BY <1>7, <1>9, <1>12 DEF Quiet
    <2>2. \A g \in found : Covered(g)'
      BY <1>5, <1>6, LookedUpBy
    <2>3. \A g \in Slugs : Covered(g) => Covered(g)'
      BY <1>1, <1>5, <1>6, <1>7, CoveredStays
    <2>4. \A target \in Repos \cup {"all"} : target # repo /\ Fetches(target) => Fetches(target)'
      BY <1>1, <1>5, <1>6, FetchesStay DEF repo
    <2>5. repo \in Repos /\ repo # "all"
      BY <1>1 DEF A!CatalogAssumption, repo
    <2>6. TableFilled'
      <3>1. ASSUME Quiet', selected \in ready
            PROVE  repoApps'[selected] = CatalogOf[selected] \/ Fetches(selected)'
        <4>1. selected \in Repos
          BY <3>1 DEF A!TypeOK
        <4>2. repoApps[selected] = CatalogOf[selected] \/ Fetches(selected)
          BY <2>1, <3>1 DEF Shows, TableFilled
        <4> QED BY <1>7, <1>8, <2>1, <2>4, <4>1, <4>2
      <3>2. ASSUME Quiet', selected = "all"
            PROVE  (\A r \in ready : repoApps'[r] = CatalogOf[r]) \/ Fetches("all")'
        BY <1>8, <2>1, <2>4, <2>5, <3>2 DEF Shows, TableFilled, A!TypeOK
      <3> QED BY <1>7, <3>1, <3>2 DEF TableFilled
    <2>7. MarksComplete'
      <3>1. \A item \in items' : Covered(item.slug)'
        <4>1. \A item \in items' : item.slug \in found
          BY <1>2, <1>4 DEF A!SlugsOf, repo
        <4> QED BY <2>2, <4>1
      <3>2. ASSUME Quiet', selected \in Repos
            PROVE  (\A g \in CatalogOf[selected] : Covered(g)') \/ Fetches(selected)'
        <4>1. CASE selected = repo
          BY <2>1, <2>2, <4>1
        <4>2. CASE selected # repo
          <5>1. CatalogOf[selected] \in SUBSET Slugs
            BY <3>2 DEF A!CatalogAssumption
          <5>2. (\A g \in CatalogOf[selected] : Covered(g)) \/ Fetches(selected)
            BY <2>1, <3>2 DEF Shows, MarksComplete
          <5> QED BY <1>7, <2>3, <2>4, <3>2, <4>2, <5>1, <5>2
        <4> QED BY <4>1, <4>2
      <3>3. ASSUME Quiet', selected = "all", ~Fetches("all")', NEW r \in Repos, repoApps'[r] # None
            PROVE  \A g \in repoApps'[r] : Covered(g)'
        <4>1. CASE r = repo
          BY <1>8, <2>2, <4>1
        <4>2. CASE r # repo
          <5>1. repoApps'[r] = repoApps[r] /\ repoApps[r] \in SUBSET Slugs
            BY <1>8, <3>3, <4>2 DEF A!TypeOK
          <5>2. \A g \in repoApps[r] : Covered(g)
            BY <2>1, <2>4, <2>5, <3>3, <5>1 DEF Shows, MarksComplete
          <5> QED BY <2>3, <5>1, <5>2
        <4> QED BY <4>1, <4>2
      <3> QED BY <1>7, <3>1, <3>2, <3>3 DEF MarksComplete
    <2> QED BY <1>10, <1>13, <2>6, <2>7 DEF Shows
  <1> QED BY <1>11, <1>12

\* A task of all repositories goes on, and may have failed.
LEMMA ListingShows ==
  ASSUME NoneIsNone, A!TypeOK, Shows, NEW s \in A!Slots, tasks[s] # None, tasks[s] \in A!Task,
         NEW task \in A!Task, task # None, task.step = tasks[s].step, task.target = tasks[s].target,
         task.todo = tasks[s].todo, tasks' = [tasks EXCEPT ![s] = task],
         Finds(tasks[s]) => Finds(task), faults' = 0 => (Whole(tasks[s]) => Whole(task)),
         faults' = 0 => faults = 0,
         UNCHANGED <<ready, selected, repoApps, items, deployed, moved, marks>>
  PROVE  Shows'
  <1>1. \A target \in Repos \cup {"all"} : Fetches(target) => Fetches(target)'
    BY FetchesStay
  <1>2. \A g \in Slugs : Covered(g) => Covered(g)'
    BY CoveredStays
  <1>3. Fetching => Fetching'
    BY SlotChanges DEF Fetching
  <1>4. Quiet' => Quiet /\ faults' = 0
    BY DEF Quiet
  <1>5. Quiet' => (\A item \in items' : Covered(item.slug)') \/ Fetching'
    <2>1. Quiet' => (\A item \in items : Covered(item.slug)) \/ Fetching
      BY <1>4 DEF Shows, MarksComplete
    <2>2. \A item \in items : item.slug \in Slugs
      BY DEF A!TypeOK, A!Item
    <2> QED BY <1>2, <1>3, <2>1, <2>2
  <1>6. TasksFind' /\ TasksWhole'
    <2>1. (~moved => Finds(tasks[s])) /\ (Quiet => Whole(tasks[s]))
      BY DEF Shows, TasksFind, TasksWhole
    <2> QED BY <1>4, <2>1, TasksStay DEF Shows
  <1> QED BY <1>1, <1>2, <1>5, <1>6, StepInPlace

LEMMA AllListedShows ==
  ASSUME NoneIsNone, A!TypeOK, TasksFit, Shows, NEW s \in A!Slots, A!AllListed(s)
  PROVE  Shows'
  <1>1. tasks[s] \in A!Task /\ tasks[s] # None /\ Fits(tasks[s]) /\ tasks[s].target = "all" /\ tasks[s].lists
    BY DEF A!AllListed, A!TypeOK, TasksFit
  <1>2. PICK listed \in {ready, {}} :
          /\ \/ listed = ready /\ UNCHANGED faults
             \/ listed = {} /\ faults < MaxFaults /\ faults' = faults + 1
          /\ tasks' = [tasks EXCEPT ![s].lists = FALSE, ![s].asked = listed]
    BY DEF A!AllListed
  <1> DEFINE next == [tasks[s] EXCEPT !.lists = FALSE, !.asked = listed]
  <1>3. listed \in SUBSET Repos
    BY DEF A!TypeOK
  <1>4. tasks' = [tasks EXCEPT ![s] = next]
    BY <1>1, <1>2 DEF A!Task, A!TypeOK
  <1>5. /\ next \in A!Task /\ next.step = tasks[s].step /\ next.target = "all"
        /\ next.todo = tasks[s].todo /\ (Finds(tasks[s]) => Finds(next))
        /\ Whole(tasks[s]) /\ listed = ready => Whole(next)
    BY <1>1, <1>3, ListedForm
  <1> HIDE DEF next
  <1>6. faults' = 0 => faults = 0 /\ listed = ready
    BY <1>2, FaultIsOne
  <1>7. UNCHANGED <<ready, selected, repoApps, items, deployed, moved, marks>>
    BY DEF A!AllListed
  <1> QED BY <1>1, <1>4, <1>5, <1>6, <1>7, ListingShows DEF NoneIsNone

LEMMA IndexAnsweredShows ==
  ASSUME NoneIsNone, A!TypeOK, TasksFit, Shows, NEW s \in A!Slots, A!IndexAnswered(s)
  PROVE  Shows'
  <1>1. tasks[s] \in A!Task /\ tasks[s] # None /\ Fits(tasks[s]) /\ tasks[s].target = "all"
    BY DEF A!IndexAnswered, A!TypeOK, TasksFit
  <1>2. PICK r \in tasks[s].asked, got \in SUBSET Repos :
          /\ got \in {tasks[s].got, tasks[s].got \cup {r}}
          /\ \/ r \in got /\ UNCHANGED faults
             \/ faults < MaxFaults /\ faults' = faults + 1
          /\ tasks' = [tasks EXCEPT ![s].asked = @ \ {r}, ![s].got = got]
    BY <1>1, IndexSteps
  <1> DEFINE next == Indexed(tasks[s], r, got)
  <1>3. tasks' = [tasks EXCEPT ![s] = next]
    BY <1>1, <1>2 DEF A!Task, A!TypeOK, Indexed
  <1>4. /\ next \in A!Task /\ next.step = tasks[s].step /\ next.target = "all"
        /\ next.todo = tasks[s].todo /\ (Finds(tasks[s]) => Finds(next))
        /\ Whole(tasks[s]) /\ r \in got => Whole(next)
    BY <1>1, <1>2, IndexForm
  <1> HIDE DEF next
  <1>5. faults' = 0 => faults = 0 /\ r \in got
    BY <1>2, FaultIsOne
  <1>6. UNCHANGED <<ready, selected, repoApps, items, deployed, moved, marks>>
    BY DEF A!IndexAnswered
  <1> QED BY <1>1, <1>3, <1>4, <1>5, <1>6, ListingShows DEF NoneIsNone

LEMMA AllAnsweredShows ==
  ASSUME NoneIsNone, A!CatalogAssumption, A!TypeOK, TasksFit, Shows, NEW s \in A!Slots, A!AllAnswered(s)
  PROVE  Shows'
  <1>1. /\ tasks[s] \in A!Task /\ tasks[s] # None /\ tasks[s].step = "fetch" /\ tasks[s].target = "all"
        /\ Fits(tasks[s]) /\ ~tasks[s].lists /\ tasks[s].asked = {}
    BY DEF A!AllAnswered, A!TypeOK, TasksFit
  <1> DEFINE ok == tasks[s].got
  <1>2. /\ repoApps' = [r \in Repos |-> IF r \in ok THEN CatalogOf[r] ELSE None]
        /\ UNCHANGED faults
    BY DEF A!AllAnswered
  <1> DEFINE found == UNION {A!From(r, CatalogOf[r]) : r \in ok}
  <1>3. PICK m \in A!Merges(found) :
          items' = m /\ tasks' = [tasks EXCEPT ![s] = A!Discovering(@, m)]
    BY DEF A!AllAnswered
  <1>4. ok \subseteq Repos /\ \A r \in Repos : CatalogOf[r] \in SUBSET Slugs /\ CatalogOf[r] # {}
    BY <1>1 DEF A!Task, A!CatalogAssumption
  <1>15. Quiet => ok = ready
    BY <1>1 DEF Shows, TasksWhole, Whole
  <1> HIDE DEF ok
  <1>5. \A r \in ok : /\ A!From(r, CatalogOf[r]) \in SUBSET A!Item
                     /\ A!SlugsOf(A!From(r, CatalogOf[r])) = CatalogOf[r]
    BY <1>4, ListForms
  <1>6. \A r \in ok : CatalogOf[r] \subseteq A!SlugsOf(found)
    BY <1>5 DEF A!SlugsOf
  <1>7. m \in SUBSET A!Item /\ A!SlugsOf(m) = A!SlugsOf(found)
    BY <1>3, <1>5 DEF A!Merges
  <1> DEFINE task == A!Discovering(tasks[s], m)
  <1>8. /\ task \in A!Task /\ task # None /\ task.step = "discover" /\ task.todo = A!SlugsOf(m)
        /\ Finds(task) /\ Whole(task)
    BY <1>1, <1>7, DiscoveringForm DEF NoneIsNone
  <1>9. tasks' = [tasks EXCEPT ![s] = task]
    BY <1>3
  <1>10. UNCHANGED <<ready, selected, deployed, moved, marks>>
    BY DEF A!AllAnswered
  <1>11. TableFits' /\ MarksTrue'
    <2>1. TableFits'
      BY <1>2, <1>4, <1>10 DEF Shows, TableFits, NoneIsNone
    <2> QED BY <1>10, <2>1, MarksStay
  <1> HIDE DEF task, found
  <1>12. TasksFind' /\ TasksWhole'
    BY <1>2, <1>8, <1>9, <1>10, TasksStay DEF Shows
  <1>13. CASE faults' # 0 \/ moved' = TRUE
    BY <1>11, <1>12, <1>13, StepSpoils
  <1>14. CASE ~(faults' # 0 \/ moved' = TRUE)
    <2>1. Quiet /\ ok = ready
      <3>1. moved \in BOOLEAN
        BY DEF A!TypeOK
      <3>2. ~moved
        BY <1>10, <1>14, <3>1, Zenon
      <3> QED BY <1>2, <1>14, <1>15, <3>2 DEF Quiet
    <2>2. \A g \in A!SlugsOf(m) : Covered(g)'
      BY <1>8, <1>9, LookedUpBy
    <2>3. TableFilled'
      BY <1>2, <1>4, <1>10, <2>1 DEF TableFilled
    <2>4. \A item \in items' : Covered(item.slug)'
      <3>1. \A item \in items' : item.slug \in A!SlugsOf(m)
        BY <1>3 DEF A!SlugsOf
      <3> QED BY <2>2, <3>1
    <2>5. ASSUME Quiet', selected \in Repos
          PROVE  (\A g \in CatalogOf[selected] : Covered(g)') \/ Fetches(selected)'
      <3>1. selected # "all"
        BY <2>5 DEF A!CatalogAssumption
      <3>2. Fetches(selected) => Fetches(selected)'
        <4>1. \A target \in Repos : target # "all" /\ Fetches(target) => Fetches(target)'
          BY <1>1, <1>8, <1>9, FetchesStay
        <4> QED BY <1>10, <2>5, <3>1, <4>1
      <3>3. \A g \in Slugs : Covered(g) => Covered(g)'
        BY <1>1, <1>8, <1>9, <1>10, CoveredStays
      <3>4. (\A g \in CatalogOf[selected] : Covered(g)) \/ Fetches(selected)
        BY <2>1, <2>5 DEF Shows, MarksComplete
      <3> QED BY <1>4, <2>5, <3>2, <3>3, <3>4
    <2>6. ASSUME NEW r \in Repos, repoApps'[r] # None
          PROVE  \A g \in repoApps'[r] : Covered(g)'
      <3>1. r \in ok /\ repoApps'[r] = CatalogOf[r]
        BY <1>2, <2>6
      <3> QED BY <1>6, <1>7, <2>2, <3>1
    <2>7. MarksComplete'
      BY <1>10, <2>4, <2>5, <2>6 DEF MarksComplete
    <2> QED BY <1>11, <1>12, <2>3, <2>7 DEF Shows
  <1> QED BY <1>13, <1>14

\* A selection forgets that something moved only when no other task is in flight.
LEMMA SelectionBegins ==
  ASSUME A!TypeOK, Shows, NEW s \in A!Slots, NEW task \in A!Task, task # None,
         tasks' = [tasks EXCEPT ![s] = task], Finds(task), Whole(task),
         moved' = (moved /\ ~A!Settled), UNCHANGED <<ready, deployed, faults>>
  PROVE  TasksFind' /\ TasksWhole'
  <1>1. tasks'[s] = task /\ \A u \in A!Slots \ {s} : tasks'[u] = tasks[u]
    BY SlotChanges
  <1>2. ~moved' => ~moved \/ A!Settled
    BY Zenon
  <1>3. Quiet' => Quiet \/ A!Settled
    BY <1>2 DEF Quiet
  <1>4. TasksFind'
    <2> SUFFICES ASSUME ~moved', NEW u \in A!Slots, tasks'[u] # None
                 PROVE  Finds(tasks[u])'
      BY DEF TasksFind
    <2>1. Finds(tasks'[u])
      BY <1>1, <1>2 DEF Shows, TasksFind, A!Settled
    <2> QED BY <2>1 DEF Finds, A!Installed, A!FoundIn
  <1>5. TasksWhole'
    <2> SUFFICES ASSUME Quiet', NEW u \in A!Slots, tasks'[u] # None
                 PROVE  Whole(tasks[u])'
      BY DEF TasksWhole
    <2>1. Whole(tasks'[u])
      BY <1>1, <1>3 DEF Shows, TasksWhole, A!Settled
    <2> QED BY <2>1 DEF Whole, A!Installed, A!FoundIn
  <1> QED BY <1>4, <1>5

LEMMA SelectShows ==
  ASSUME NoneIsNone, A!CatalogAssumption, A!TypeOK, Shows, NEW s \in A!Slots,
         NEW target \in Repos \cup {"default", "all"}, A!Select(s, target)
  PROVE  Shows'
  <1> DEFINE fetching == A!Fetching("watch", target)
  <1>1. /\ fetching \in A!Task /\ fetching # None /\ fetching.step = "fetch" /\ fetching.target = target
        /\ Fits(fetching) /\ Finds(fetching) /\ Whole(fetching)
    BY FetchingForm DEF NoneIsNone
  <1>2. ASSUME NEW list \in SUBSET A!Item
        PROVE  /\ A!Discovering(fetching, list) \in A!Task /\ A!Discovering(fetching, list) # None
               /\ A!Discovering(fetching, list).step = "discover"
               /\ A!Discovering(fetching, list).todo = A!SlugsOf(list)
               /\ Finds(A!Discovering(fetching, list)) /\ Whole(A!Discovering(fetching, list))
    <2> HIDE DEF fetching
    <2> QED BY <1>1, <1>2, DiscoveringForm DEF NoneIsNone
  <1>3. selected' = target /\ marks' = {} /\ UNCHANGED <<ready, repoApps, deployed, faults>>
    BY DEF A!Select, A!ClearedMarks
  <1>4. TableFits' /\ MarksTrue'
    BY <1>3 DEF Shows, TableFits, MarksTrue
  <1>5. {"default", "all"} \cap Repos = {}
    BY DEF A!CatalogAssumption
  <1>6. \/ /\ target = "default" /\ items' = A!SuseItems
           /\ tasks' = [tasks EXCEPT ![s] = A!Discovering(fetching, A!SuseItems)]
        \/ /\ target \in Repos /\ A!Loaded(target) /\ items' = A!RepoItems(target)
           /\ tasks' = [tasks EXCEPT ![s] = A!Discovering(fetching, A!RepoItems(target))]
        \/ /\ target = "all" \/ (target \in Repos /\ ~A!Loaded(target))
           /\ tasks' = [tasks EXCEPT ![s] = fetching]
    BY DEF A!Select, A!Start
  <1> HIDE DEF fetching
  <1>12. TasksFind' /\ TasksWhole'
    <2>1. ASSUME NEW task \in A!Task, task # None, Finds(task), Whole(task),
                 tasks' = [tasks EXCEPT ![s] = task]
          PROVE  TasksFind' /\ TasksWhole'
      BY <1>3, <2>1, SelectionBegins DEF A!Select
    <2>2. target \in Repos /\ A!Loaded(target) => A!RepoItems(target) \in SUBSET A!Item
      BY ListForms DEF A!RepoItems, A!Loaded, A!TypeOK
    <2> QED BY <1>1, <1>2, <1>6, <2>1, <2>2, SuseForm
  <1>7. ASSUME NEW list \in SUBSET A!Item, items' = list,
               tasks' = [tasks EXCEPT ![s] = A!Discovering(fetching, list)]
        PROVE  \A g \in A!SlugsOf(list) : Covered(g)'
    BY <1>2, <1>7, LookedUpBy
  <1>8. ASSUME NEW list \in SUBSET A!Item, items' = list,
               tasks' = [tasks EXCEPT ![s] = A!Discovering(fetching, list)]
        PROVE  \A item \in items' : Covered(item.slug)'
    <2>1. \A item \in list : item.slug \in A!SlugsOf(list)
      BY DEF A!SlugsOf
    <2> QED BY <1>7, <1>8, <2>1
  <1>9. CASE target = "default" /\ items' = A!SuseItems
             /\ tasks' = [tasks EXCEPT ![s] = A!Discovering(fetching, A!SuseItems)]
    <2>1. \A item \in items' : Covered(item.slug)'
      BY <1>8, <1>9, SuseForm
    <2>2. selected' \notin Repos /\ selected' # "all" /\ selected' \notin ready'
      BY <1>3, <1>5, <1>9 DEF A!TypeOK
    <2> QED BY <1>4, <1>12, <2>1, <2>2 DEF Shows, TableFilled, MarksComplete
  <1>10. CASE target \in Repos /\ A!Loaded(target) /\ items' = A!RepoItems(target)
              /\ tasks' = [tasks EXCEPT ![s] = A!Discovering(fetching, A!RepoItems(target))]
    <2>1. repoApps[target] \in SUBSET Slugs /\ A!RepoItems(target) = A!From(target, repoApps[target])
      BY <1>10 DEF A!Loaded, A!RepoItems, A!TypeOK
    <2>2. A!RepoItems(target) \in SUBSET A!Item /\ A!SlugsOf(A!RepoItems(target)) = repoApps[target]
      BY <1>10, <2>1, ListForms
    <2>3. Quiet' => repoApps[target] = CatalogOf[target]
      BY <1>3, <1>10 DEF Quiet, Shows, TableFits, A!Loaded
    <2>4. \A g \in repoApps[target] : Covered(g)'
      BY <1>7, <1>10, <2>2
    <2>5. \A item \in items' : Covered(item.slug)'
      BY <1>8, <1>10, <2>2
    <2>6. selected' # "all"
      BY <1>3, <1>5, <1>10
    <2>7. TableFilled'
      BY <1>3, <2>3, <2>6 DEF TableFilled
    <2>8. MarksComplete'
      BY <1>3, <2>3, <2>4, <2>5, <2>6 DEF MarksComplete
    <2> QED BY <1>4, <1>12, <2>7, <2>8 DEF Shows
  <1>11. CASE tasks' = [tasks EXCEPT ![s] = fetching] /\ target \in Repos \cup {"all"}
    <2>1. Fetches(target)' /\ Fetching'
      BY <1>1, <1>11, FetchBegins
    <2>2. Fetches(selected)'
      BY <1>3, <2>1
    <2>3. selected' = "all" => Fetches("all")'
      BY <1>3, <2>1
    <2> QED BY <1>3, <1>4, <1>12, <2>1, <2>2, <2>3 DEF Shows, TableFilled, MarksComplete
  <1> QED BY <1>6, <1>9, <1>10, <1>11

LEMMA WorldShows ==
  ASSUME A!TypeOK, Shows,
         (\E c \in Clusters, name \in A!Names : A!Deployment(c, name)) \/ (\E r \in Repos : A!RepoChanges(r))
  PROVE  Shows'
  <1>1. moved' = TRUE
    BY Zenon DEF A!Deployment, A!RepoChanges
  <1>2. UNCHANGED <<repoApps, faults>>
    BY DEF A!Deployment, A!RepoChanges, A!page
  <1>3. TableFits' /\ MarksTrue' /\ TasksFind'
    BY <1>1, <1>2 DEF Shows, TableFits, MarksTrue, TasksFind
  <1> QED BY <1>1, <1>3, StepSpoils

-----------------------------------------------------------------------------

AppsInv == A!TypeOK /\ TasksFit /\ Shows

LEMMA AppsInitially ==
  ASSUME NoneIsNone, A!CatalogAssumption, A!BoundsAssumption, A!Init
  PROVE  AppsInv
  <1> DEFINE first == A!Fetching("refresh", "default")
  <1>1. /\ first \in A!Task /\ first # None /\ first.target = "default"
        /\ Fits(first) /\ Finds(first) /\ Whole(first)
    BY FetchingForm DEF NoneIsNone
  <1>2. tasks = [s \in A!Slots |-> IF s = 1 THEN first ELSE None]
    BY DEF A!Init
  <1> HIDE DEF first
  <1>3. tasks \in [A!Slots -> A!Task \cup {None}] /\ TasksFit
    BY <1>1, <1>2 DEF TasksFit
  <1>4. loading \in BOOLEAN /\ repoLoading \in BOOLEAN /\ moved \in BOOLEAN
    BY Zenon DEF A!Init
  <1>5. A!TypeOK
    BY <1>3, <1>4, SuseForm DEF A!Init, A!TypeOK, A!BoundsAssumption, A!CatalogAssumption, A!Names
  <1>12. TasksFind /\ TasksWhole
    BY <1>1, <1>2 DEF TasksFind, TasksWhole
  <1>6. TableFits /\ MarksTrue
    BY DEF A!Init, TableFits, MarksTrue, NoneIsNone
  <1>7. selected \notin ready /\ selected \notin Repos /\ selected # "all"
    BY DEF A!Init, A!CatalogAssumption
  <1>8. TableFilled
    BY <1>7 DEF TableFilled
  <1>9. 1 \in A!Slots /\ tasks[1] = first /\ first.step = "fetch"
    BY <1>2, FetchingForm, PagesAssumption DEF A!Slots, A!BoundsAssumption, first
  <1>10. Fetching
    BY <1>1, <1>9 DEF Fetching
  <1>11. MarksComplete
    BY <1>7, <1>10 DEF MarksComplete
  <1> QED BY <1>3, <1>5, <1>6, <1>8, <1>11, <1>12 DEF AppsInv, Shows

LEMMA AppsSteps ==
  ASSUME NoneIsNone, A!CatalogAssumption, A!BoundsAssumption, AppsInv, A!Next
  PROVE  AppsInv'
  <1>1. A!TypeOK /\ TasksFit /\ Shows
    BY DEF AppsInv
  <1>2. CASE \E s \in A!Slots : A!Refresh(s)
    BY <1>1, <1>2, RefreshTypes, RefreshShows DEF AppsInv
  <1>3. CASE \E s \in A!Slots : A!TaskStep(s)
    <2>1. PICK s \in A!Slots : A!TaskStep(s)
      BY <1>3
    <2>2. A!TypeOK' /\ TasksFit'
      BY <1>1, <2>1, TaskStepTypes
    <2>3. Shows'
      BY <1>1, <2>1, StoreAnsweredShows, StoreFailedShows, RepositoriesAnsweredShows,
         RepoAnsweredShows, AllListedShows, IndexAnsweredShows, AllAnsweredShows, DiscoverShows,
         TaskEndsShows DEF A!TaskStep
    <2> QED BY <2>2, <2>3 DEF AppsInv
  <1>4. CASE \E s \in A!Slots : \E target \in Repos \cup {"default", "all"} : A!Select(s, target)
    BY <1>1, <1>4, SelectTypes, SelectShows DEF AppsInv
  <1>5. CASE (\E c \in Clusters, name \in A!Names : A!Deployment(c, name)) \/ (\E r \in Repos : A!RepoChanges(r))
    BY <1>1, <1>5, WorldTypes, WorldShows DEF AppsInv
  <1> QED BY <1>2, <1>3, <1>4, <1>5 DEF A!Next

\* At rest nothing is fetched or looked up any more.
LEMMA NothingUnderWay ==
  ASSUME A!Settled
  PROVE  ~Fetching /\ (\A target : ~Fetches(target)) /\ (\A g : Covered(g) => (A!Installed(g) => g \in marks))
  BY DEF A!Settled, Fetching, Fetches, Covered, LookedUp

LEMMA ShownIs ==
  A!Shown = A!Selection /\ A!filteredApps(TRUE) = {x \in A!Selection : x.slug \in marks}
  BY DEF A!Shown, A!filteredApps

LEMMA SelectionOfRepo ==
  ASSUME A!CatalogAssumption, A!TypeOK, selected \in Repos
  PROVE  A!Selection = A!RepoItems(selected)
  <1>1. selected # "default" /\ selected # "all"
    BY DEF A!CatalogAssumption
  <1> QED BY <1>1 DEF A!Selection

LEMMA RepoShowsItsOwn ==
  ASSUME A!CatalogAssumption, AppsInv
  PROVE  A!CatalogOfRepo
  <1> SUFFICES ASSUME selected \in Repos
               PROVE  /\ A!Shown \subseteq A!From(selected, CatalogOf[selected])
                      /\ \A item \in A!Shown : A!TileRepo(item) = selected
    BY DEF A!CatalogOfRepo
  <1>1. A!Shown = A!RepoItems(selected)
    BY ShownIs, SelectionOfRepo DEF AppsInv
  <1>2. repoApps[selected] \in {None, {}, CatalogOf[selected]}
    BY DEF AppsInv, Shows, TableFits
  <1>3. A!RepoItems(selected) \subseteq A!From(selected, CatalogOf[selected])
    BY <1>2 DEF A!RepoItems, A!Loaded, A!From
  <1>4. \A item \in A!From(selected, CatalogOf[selected]) : item.from # "suse"
    BY DEF A!From, A!CatalogAssumption
  <1>5. \A item \in A!Shown : A!TileRepo(item) = selected
    BY <1>1, <1>3, <1>4 DEF A!TileRepo
  <1> QED BY <1>1, <1>3, <1>5

LEMMA CatalogAtRest ==
  ASSUME NoneIsNone, A!CatalogAssumption, AppsInv
  PROVE  A!SettledCatalog
  <1> SUFFICES ASSUME A!Settled, Quiet
               PROVE  /\ selected \in ready => A!Shown = A!From(selected, CatalogOf[selected])
                      /\ selected = "all" => UNION {CatalogOf[r] : r \in ready} \subseteq A!SlugsOf(A!Shown)
    BY DEF A!SettledCatalog, Quiet
  <1>1. A!TypeOK /\ ready \subseteq Repos
    BY DEF AppsInv, A!TypeOK
  <1>2. ASSUME selected \in ready
        PROVE  A!Shown = A!From(selected, CatalogOf[selected])
    <2>1. repoApps[selected] = CatalogOf[selected] /\ CatalogOf[selected] \in SUBSET Slugs
      BY <1>1, <1>2, NothingUnderWay DEF AppsInv, Shows, TableFilled, A!CatalogAssumption
    <2>2. A!RepoItems(selected) = A!From(selected, CatalogOf[selected])
      BY <2>1 DEF A!RepoItems, A!Loaded, NoneIsNone
    <2> QED BY <1>1, <1>2, <2>2, ShownIs, SelectionOfRepo
  <1>3. ASSUME selected = "all", NEW r \in ready, NEW g \in CatalogOf[r]
        PROVE  g \in A!SlugsOf(A!Shown)
    <2>1. r \in Repos /\ repoApps[r] = CatalogOf[r] /\ CatalogOf[r] \in SUBSET Slugs
      BY <1>1, <1>3, NothingUnderWay DEF AppsInv, Shows, TableFilled, A!CatalogAssumption
    <2>2. A!RepoItems(r) = A!From(r, CatalogOf[r])
      BY <2>1 DEF A!RepoItems, A!Loaded, NoneIsNone
    <2> DEFINE x == [slug |-> g, from |-> r]
    <2>3. x \in A!RepoItems(r) /\ x.slug = g
      BY <1>3, <2>2 DEF A!From
    <2>4. A!Selection =
            items \cup {y \in UNION {A!RepoItems(q) : q \in Repos} : y.slug \notin A!SlugsOf(items)}
      BY <1>3 DEF A!Selection
    <2>5. \E y \in A!Selection : y.slug = g
      <3> HIDE DEF x
      <3>1. CASE g \in A!SlugsOf(items)
        BY <2>4, <3>1 DEF A!SlugsOf
      <3>2. CASE g \notin A!SlugsOf(items)
        BY <2>1, <2>3, <2>4, <3>2
      <3> QED BY <3>1, <3>2
    <2> QED BY <2>5, ShownIs DEF A!SlugsOf
  <1> QED BY <1>2, <1>3

LEMMA MarksAtRest ==
  ASSUME NoneIsNone, A!CatalogAssumption, AppsInv
  PROVE  A!SettledMarks
  <1> SUFFICES ASSUME A!Settled, Quiet
               PROVE  A!filteredApps(TRUE) = {x \in A!Shown : A!Installed(x.slug)}
    BY DEF A!SettledMarks, Quiet
  <1>1. (\A g \in marks : A!Installed(g)) /\ A!TypeOK
    BY DEF AppsInv, Shows, MarksTrue, Quiet
  <1>2. \A item \in items : A!Installed(item.slug) => item.slug \in marks
    BY NothingUnderWay DEF AppsInv, Shows, MarksComplete
  <1>3. ASSUME NEW x \in A!Selection, A!Installed(x.slug)
        PROVE  x.slug \in marks
    <2>1. CASE selected = "default"
      BY <1>2, <1>3, <2>1 DEF A!Selection
    <2>2. CASE selected \in Repos
      <3>1. x \in A!From(selected, CatalogOf[selected])
        BY <1>3, <2>2, ShownIs, RepoShowsItsOwn DEF A!CatalogOfRepo
      <3>2. x.slug \in CatalogOf[selected]
        BY <3>1 DEF A!From
      <3> QED BY <1>3, <2>2, <3>2, NothingUnderWay DEF AppsInv, Shows, MarksComplete
    <2>3. CASE selected = "all"
      <3>1. CASE x \in items
        BY <1>2, <1>3, <3>1
      <3>2. ASSUME NEW r \in Repos, x \in A!RepoItems(r)
            PROVE  x.slug \in marks
        <4>1. repoApps[r] # None /\ x.slug \in repoApps[r]
          BY <3>2 DEF A!RepoItems, A!Loaded, A!From
        <4> QED BY <1>3, <2>3, <4>1, NothingUnderWay DEF AppsInv, Shows, MarksComplete
      <3> QED BY <1>3, <2>3, <3>1, <3>2 DEF A!Selection
    <2> QED BY <1>1, <2>1, <2>2, <2>3 DEF A!TypeOK
  <1> QED BY <1>1, <1>3, ShownIs

-----------------------------------------------------------------------------
(***************************************************************************)
(* The theorems.  One page is open and stays open; its invariant holds.    *)
(***************************************************************************)

IInv ==
  /\ open \in {"instances", "apps"}
  /\ open = "instances" => InstancesInv
  /\ open = "apps" => AppsInv

LEMMA Assumptions ==
  /\ NoneIsNone /\ I!PlacesAssumption /\ I!BoundAssumption /\ MaxLoads \in Nat \ {0}
  /\ A!CatalogAssumption /\ A!BoundsAssumption
  BY PagesAssumption DEF I!BoundAssumption

LEMMA Initially == Init => IInv
  BY Assumptions, InstancesInitially, AppsInitially DEF Init, IInv

LEMMA Steps == IInv /\ [Next]_vars => IInv'
  <1> SUFFICES ASSUME IInv, [Next]_vars PROVE IInv'
    OBVIOUS
  <1>1. CASE open = "instances" /\ I!Next /\ UNCHANGED <<open, appsOnly>>
    BY <1>1, Assumptions, InstancesSteps DEF IInv
  <1>2. CASE open = "apps" /\ A!Next /\ UNCHANGED <<open, instancesOnly>>
    BY <1>2, Assumptions, AppsSteps DEF IInv
  <1>3. CASE UNCHANGED vars
    <2>1. InstancesInv => InstancesInv'
      BY <1>3 DEF vars, instancesOnly, InstancesInv, I!TypeOK, OneRefresh, Refreshing,
                  I!DeletingMarks, OwnKeys, Deletes
    <2>2. AppsInv => AppsInv'
      <3>1. A!TypeOK /\ TasksFit => A!TypeOK' /\ TasksFit'
        BY <1>3 DEF vars, appsOnly, A!TypeOK, TasksFit
      <3>2. Shows => Shows'
        BY <1>3 DEF vars, appsOnly, Shows, TableFits, TableFilled, MarksTrue, MarksComplete,
                    Quiet, Fetches, Fetching, Covered, LookedUp, TasksFind, TasksWhole, Finds, Whole,
                    A!Installed, A!FoundIn
      <3> QED BY <3>1, <3>2 DEF AppsInv
    <2> QED BY <1>3, <2>1, <2>2 DEF vars, IInv
  <1> QED BY <1>1, <1>2, <1>3 DEF Next

LEMMA Invariance == Spec => []IInv
  BY Initially, Steps, PTL DEF Spec

\* Every variable of the page that is open keeps its type (pages/AppInstances.vue,
\* pages/Apps.vue).
THEOREM TypeCorrect == Spec => []TypeOK
  <1>1. IInv => TypeOK
    BY DEF IInv, InstancesInv, AppsInv, TypeOK
  <1> QED BY <1>1, Invariance, PTL

\* The spinner shows exactly while the one manual refresh is in flight, and a Delete
\* button is disabled exactly while a deletion of its key runs (AppInstances.vue:645, 450).
THEOREM IndicatorsAreTrue == Spec => []Indicators
  <1>1. InstancesInv => I!Indicators
    BY RefreshesCounted DEF InstancesInv, I!TypeOK, I!Indicators
  <1>2. IInv => Indicators
    BY <1>1 DEF IInv, Indicators
  <1> QED BY <1>2, Invariance, PTL

\* A repository shows its own apps and passes itself on; at rest it shows all of them and
\* the marks say what is installed, whichever tasks overlap (Apps.vue:573, 522, 348).
THEOREM CatalogIsTrue == Spec => []CatalogShown
  <1>1. AppsInv => A!CatalogOfRepo /\ A!SettledCatalog /\ A!SettledMarks
    BY Assumptions, RepoShowsItsOwn, CatalogAtRest, MarksAtRest
  <1>2. IInv => CatalogShown
    BY <1>1 DEF IInv, CatalogShown
  <1> QED BY <1>2, Invariance, PTL
=============================================================================
