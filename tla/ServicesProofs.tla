---------------------------- MODULE ServicesProofs ----------------------------
(*****************************************************************************)
(* Theorems about the parts of Services that have a state: the records of    *)
(* installations, the catalogue, the pull secrets of installs, the promise   *)
(* utilities (retries with a timeout, wrapped calls, and pools with a limit), *)
(* the class AppLifecycleService, and the types of all that the pages lean on. *)
(*****************************************************************************)
EXTENDS Services, Sequences, FiniteSetTheorems, FunctionTheorems, TLAPS

-----------------------------------------------------------------------------
(* The store of installations, for any apps, clusters and keys and any number of *)
(* calls, of failures and of timers at once.                                     *)

(***************************************************************************)
(* The inductive invariant.  OperationShown needs that a key that is not   *)
(* mixed has one call and then no timer (Solo): every other call or timer  *)
(* of the key would have met it when it began.                             *)
(***************************************************************************)

Typed(c) == c.key \in Keys /\ c.app \in Apps /\ c.type \in S!Types

RecordsShape ==
  /\ recs \in [Keys -> S!Record \cup {None}]
  /\ byApp \in [Apps -> SUBSET Keys]
  /\ byCluster \in [Clusters -> SUBSET Keys]
  /\ ops \in [Keys -> S!Operation \cup {None}]
  /\ selected \subseteq Apps
  /\ \A c \in calls : Typed(c)
  /\ \A t \in removals : t.key \in Keys

Solo ==
  /\ \A c, d \in calls : c.key = d.key /\ c.key \notin mixed => c = d
  /\ \A c \in calls, t \in removals : c.key = t.key => c.key \in mixed

RecordsInv == RecordsShape /\ S!IndexesComplete /\ Solo /\ S!OperationShown

-----------------------------------------------------------------------------
(* Operations. *)

LEMMA OperationForms ==
  ASSUME NEW o \in S!Operation
  PROVE  /\ [o EXCEPT !.full = TRUE] \in S!Operation
         /\ [o EXCEPT !.full = FALSE] \in S!Operation /\ ~[o EXCEPT !.full = FALSE].full
         /\ [o EXCEPT !.error = TRUE] \in S!Operation /\ [o EXCEPT !.error = TRUE].full = o.full
  <1>1. o = [full |-> o.full, error |-> o.error] /\ o.full \in BOOLEAN /\ o.error \in BOOLEAN
    BY DEF S!Operation
  <1>2. \A x : /\ [o EXCEPT !.full = x] = [full |-> x, error |-> o.error]
               /\ [o EXCEPT !.error = x] = [full |-> o.full, error |-> x]
    BY <1>1
  <1>3. \A x \in BOOLEAN : /\ [full |-> x, error |-> o.error] \in S!Operation
                           /\ [full |-> o.full, error |-> x] \in S!Operation
    BY <1>1 DEF S!Operation
  <1>4. [o EXCEPT !.full = TRUE] \in S!Operation
    BY <1>2, <1>3
  <1>5. [o EXCEPT !.full = FALSE] \in S!Operation
    BY <1>2, <1>3
  <1>6. ~[o EXCEPT !.full = FALSE].full
    BY <1>2
  <1>7. [o EXCEPT !.error = TRUE] \in S!Operation
    BY <1>2, <1>3
  <1>8. [o EXCEPT !.error = TRUE].full = o.full
    BY <1>2
  <1> QED BY <1>4, <1>5, <1>6, <1>7, <1>8

\* An operation that is shown as running.
Shown(o) == o # None /\ ~o.full

\* What a call does to the operation under its key, it does to no other.
LEMMA UpdateKeeps ==
  ASSUME RecordsShape, NEW k \in Keys, S!UPDATE_OPERATION(k) \/ S!FAIL_OPERATION(k), NoneIsNone
  PROVE  /\ ops' \in [Keys -> S!Operation \cup {None}]
         /\ \A j \in Keys : Shown(ops[j]) => Shown(ops'[j])
  <1>1. ops \in [Keys -> S!Operation \cup {None}]
    BY DEF RecordsShape
  <1>2. CASE ops' = ops
    BY <1>1, <1>2 DEF Shown
  <1>3. CASE ops[k] # None /\ \E o \in S!Operation : ops' = [ops EXCEPT ![k] = o] /\ (~ops[k].full => ~o.full)
    <2>1. PICK o \in S!Operation : ops' = [ops EXCEPT ![k] = o] /\ (~ops[k].full => ~o.full)
      BY <1>3
    <2>2. ops'[k] = o /\ o # None /\ \A j \in Keys \ {k} : ops'[j] = ops[j]
      BY <1>1, <2>1 DEF NoneIsNone
    <2> QED BY <1>1, <2>1, <2>2 DEF Shown
  <1>4. ops[k] # None => ops[k] \in S!Operation
    BY <1>1
  <1>5. CASE S!UPDATE_OPERATION(k) /\ ops[k] # None
    <2>1. ops' = [ops EXCEPT ![k] = [ops[k] EXCEPT !.full = FALSE]]
      BY <1>5, <1>1 DEF S!UPDATE_OPERATION
    <2> QED BY <1>3, <1>4, <1>5, <2>1, OperationForms
  <1>6. CASE S!FAIL_OPERATION(k) /\ ops[k] # None
    <2>1. ops' = [ops EXCEPT ![k] = [ops[k] EXCEPT !.error = TRUE]]
      BY <1>6, <1>1 DEF S!FAIL_OPERATION
    <2> QED BY <1>3, <1>4, <1>6, <2>1, OperationForms
  <1> QED BY <1>2, <1>5, <1>6 DEF S!UPDATE_OPERATION, S!FAIL_OPERATION

LEMMA CompleteKeeps ==
  ASSUME RecordsShape, NEW c, c.key \in Keys, S!COMPLETE_OPERATION(c)
  PROVE  /\ ops' \in [Keys -> S!Operation \cup {None}]
         /\ \A j \in Keys \ {c.key} : ops'[j] = ops[j]
         /\ \A t \in removals' : t \in removals \/ t.key = c.key
  <1>1. ops \in [Keys -> S!Operation \cup {None}]
    BY DEF RecordsShape
  <1>2. CASE ops[c.key] = None
    BY <1>1, <1>2 DEF S!COMPLETE_OPERATION
  <1>3. CASE ops[c.key] # None
    <2>1. ops' = [ops EXCEPT ![c.key] = [ops[c.key] EXCEPT !.full = TRUE]]
          /\ removals' = removals \cup {[key |-> c.key, id |-> c.id]}
      BY <1>1, <1>3 DEF S!COMPLETE_OPERATION
    <2>2. [ops[c.key] EXCEPT !.full = TRUE] \in S!Operation
      BY <1>1, <1>3, OperationForms
    <2> QED BY <1>1, <2>1, <2>2
  <1> QED BY <1>2, <1>3

-----------------------------------------------------------------------------
(* Records and their indexes. *)

Filed ==
  /\ recs \in [Keys -> S!Record \cup {None}]
  /\ byApp \in [Apps -> SUBSET Keys]
  /\ byCluster \in [Clusters -> SUBSET Keys]
  /\ S!IndexesComplete

\* IndexesComplete, key by key.
LEMMA FiledKeys ==
  ASSUME recs \in [Keys -> S!Record \cup {None}], byApp \in [Apps -> SUBSET Keys],
         byCluster \in [Clusters -> SUBSET Keys]
  PROVE  S!IndexesComplete <=>
           /\ \A k \in Keys : recs[k] # None => k \in byApp[recs[k].app]
           /\ \A c \in Clusters, k \in Keys : k \in byCluster[c] <=> recs[k] # None /\ ClusterOf[k] = c
  <1>1. byCluster = [c \in Clusters |-> {k \in S!Records(Keys) : ClusterOf[k] = c}] <=>
          \A c \in Clusters : byCluster[c] = {k \in S!Records(Keys) : ClusterOf[k] = c}
    OBVIOUS
  <1>2. \A c \in Clusters : byCluster[c] = {k \in S!Records(Keys) : ClusterOf[k] = c} <=>
          \A k \in Keys : k \in byCluster[c] <=> recs[k] # None /\ ClusterOf[k] = c
    BY DEF S!Records
  <1> QED BY <1>1, <1>2 DEF S!IndexesComplete, S!Records

LEMMA SetKeeps ==
  ASSUME NoneIsNone, S!PlacesAssumption, Filed, NEW k \in Keys, NEW own \in Apps, S!SET_INSTALLATION(k, own)
  PROVE  Filed'
  <1> DEFINE record == [app |-> own, status |-> "installing"]
  <1>1. record \in S!Record /\ record # None /\ record.app = own /\ ClusterOf[k] \in Clusters
    BY DEF S!Record, NoneIsNone, S!PlacesAssumption
  <1>2. recs' = [recs EXCEPT ![k] = record]
    BY DEF S!SET_INSTALLATION
  <1> HIDE DEF record
  <1>3. /\ recs' \in [Keys -> S!Record \cup {None}] /\ recs'[k] = record
        /\ \A j \in Keys \ {k} : recs'[j] = recs[j]
    BY <1>1, <1>2 DEF Filed
  <1>4. /\ byApp' \in [Apps -> SUBSET Keys]
        /\ byApp'[own] = byApp[own] \cup {k} /\ \A a \in Apps \ {own} : byApp'[a] = byApp[a]
    BY DEF S!SET_INSTALLATION, Filed
  <1>5. /\ byCluster' \in [Clusters -> SUBSET Keys]
        /\ byCluster'[ClusterOf[k]] = byCluster[ClusterOf[k]] \cup {k}
        /\ \A c \in Clusters \ {ClusterOf[k]} : byCluster'[c] = byCluster[c]
    BY <1>1 DEF S!SET_INSTALLATION, Filed
  <1>6. /\ \A j \in Keys : recs[j] # None => recs[j].app \in Apps /\ j \in byApp[recs[j].app]
        /\ \A c \in Clusters, j \in Keys : j \in byCluster[c] <=> recs[j] # None /\ ClusterOf[j] = c
    BY FiledKeys DEF Filed, S!Record
  <1>7. \A j \in Keys : recs'[j] # None => j \in byApp'[recs'[j].app]
    BY <1>1, <1>3, <1>4, <1>6
  <1>8. \A c \in Clusters, j \in Keys : j \in byCluster'[c] <=> recs'[j] # None /\ ClusterOf[j] = c
    BY <1>1, <1>3, <1>5, <1>6
  <1> QED BY <1>3, <1>4, <1>5, <1>7, <1>8 DEF Filed, S!IndexesComplete, S!Records

LEMMA RemoveKeeps ==
  ASSUME S!PlacesAssumption, Filed, NEW k \in Keys, S!REMOVE_INSTALLATION(k)
  PROVE  Filed'
  <1>1. CASE recs[k] = None
    BY <1>1 DEF S!REMOVE_INSTALLATION, S!records, Filed, S!IndexesComplete, S!Records
  <1>2. CASE recs[k] # None
    <2> DEFINE own == recs[k].app
    <2>1. own \in Apps /\ ClusterOf[k] \in Clusters
      BY <1>2 DEF Filed, S!Record, S!PlacesAssumption
    <2>2. /\ recs' \in [Keys -> S!Record \cup {None}] /\ recs'[k] = None
          /\ \A j \in Keys \ {k} : recs'[j] = recs[j]
      BY <1>2 DEF S!REMOVE_INSTALLATION, Filed
    <2>3. byApp' = [byApp EXCEPT ![own] = @ \ {k}]
          /\ byCluster' = [byCluster EXCEPT ![ClusterOf[k]] = @ \ {k}]
      BY <1>2 DEF S!REMOVE_INSTALLATION
    <2> HIDE DEF own
    <2>4. /\ byApp' \in [Apps -> SUBSET Keys]
          /\ \A a \in Apps, j \in Keys \ {k} : j \in byApp[a] => j \in byApp'[a]
      BY <2>1, <2>3 DEF Filed
    <2>5. /\ byCluster' \in [Clusters -> SUBSET Keys]
          /\ byCluster'[ClusterOf[k]] = byCluster[ClusterOf[k]] \ {k}
          /\ \A c \in Clusters \ {ClusterOf[k]} : byCluster'[c] = byCluster[c]
      BY <2>1, <2>3 DEF Filed
    <2>6. /\ \A j \in Keys : recs[j] # None => recs[j].app \in Apps /\ j \in byApp[recs[j].app]
          /\ \A c \in Clusters, j \in Keys : j \in byCluster[c] <=> recs[j] # None /\ ClusterOf[j] = c
      BY FiledKeys DEF Filed, S!Record
    <2>7. \A j \in Keys : recs'[j] # None => j \in byApp'[recs'[j].app]
      BY <2>2, <2>4, <2>6
    <2>8. \A c \in Clusters, j \in Keys : j \in byCluster'[c] <=> recs'[j] # None /\ ClusterOf[j] = c
      BY <2>1, <2>2, <2>5, <2>6
    <2> QED BY <2>2, <2>4, <2>5, <2>7, <2>8 DEF Filed, S!IndexesComplete, S!Records
  <1> QED BY <1>1, <1>2

LEMMA StatusKeeps ==
  ASSUME NoneIsNone, Filed, NEW k \in Keys, S!UPDATE_INSTALLATION_STATUS(k, "upgrading")
  PROVE  Filed'
  <1>1. CASE recs[k] = None
    BY <1>1 DEF S!UPDATE_INSTALLATION_STATUS, Filed, S!IndexesComplete, S!Records
  <1>2. CASE recs[k] # None
    <2> DEFINE record == [recs[k] EXCEPT !.status = "upgrading"]
    <2>1. recs[k] \in S!Record
      BY <1>2 DEF Filed
    <2>2. record = [app |-> recs[k].app, status |-> "upgrading"]
      BY <2>1 DEF S!Record
    <2>3. recs' = [recs EXCEPT ![k] = record]
      BY <1>2 DEF S!UPDATE_INSTALLATION_STATUS, Filed
    <2>4. record \in S!Record /\ record.app = recs[k].app /\ record # None
      BY <2>1, <2>2 DEF S!Record, NoneIsNone
    <2> HIDE DEF record
    <2>5. /\ recs' \in [Keys -> S!Record \cup {None}] /\ recs'[k] = record
          /\ \A j \in Keys \ {k} : recs'[j] = recs[j]
      BY <2>3, <2>4 DEF Filed
    <2>6. byApp' = byApp /\ byCluster' = byCluster
      BY DEF S!UPDATE_INSTALLATION_STATUS
    <2>7. \A j \in Keys : (recs'[j] # None <=> recs[j] # None)
                          /\ (recs[j] # None => recs'[j].app = recs[j].app)
      BY <1>2, <2>4, <2>5
    <2>8. /\ \A j \in Keys : recs[j] # None => j \in byApp[recs[j].app]
          /\ \A c \in Clusters, j \in Keys : j \in byCluster[c] <=> recs[j] # None /\ ClusterOf[j] = c
      BY FiledKeys DEF Filed
    <2>9. /\ \A j \in Keys : recs'[j] # None => j \in byApp'[recs'[j].app]
          /\ \A c \in Clusters, j \in Keys : j \in byCluster'[c] <=> recs'[j] # None /\ ClusterOf[j] = c
      BY <2>6, <2>7, <2>8
    <2> QED BY <2>5, <2>6, <2>9 DEF Filed, S!IndexesComplete, S!Records
  <1> QED BY <1>1, <1>2

LEMMA ListKeeps ==
  ASSUME S!SET_INSTALLATIONS
  PROVE  Filed'
  <1>1. /\ recs' = [k \in Keys |-> None] /\ byApp' = [a \in Apps |-> {}]
        /\ byCluster' = [c \in Clusters |-> {}]
    BY DEF S!SET_INSTALLATIONS
  <1>2. S!Records(Keys)' = {}
    BY <1>1 DEF S!Records
  <1> QED BY <1>1, <1>2 DEF Filed, S!IndexesComplete

-----------------------------------------------------------------------------
(* The steps. *)

\* The four conjuncts after a step, from what it does to the parts.
LEMMA RecordsTogether ==
  ASSUME Filed', ops' \in [Keys -> S!Operation \cup {None}], selected' \subseteq Apps,
         \A c \in calls' : Typed(c), \A t \in removals' : t.key \in Keys, Solo', S!OperationShown'
  PROVE  RecordsInv'
  BY DEF RecordsInv, RecordsShape, Filed

LEMMA RecordsApart == RecordsInv => Filed /\ RecordsShape /\ Solo /\ S!OperationShown
  BY DEF RecordsInv, RecordsShape, Filed

LEMMA BeginKeeps ==
  ASSUME NoneIsNone, RecordsInv, NEW requests,
         \A r \in requests : r.key \in Keys /\ r.app \in Apps /\ r.type \in S!Types, S!Begin(requests)
  PROVE  RecordsInv'
  <1>1. PICK rank :
          /\ calls' = calls \cup {[id |-> began + rank[r], type |-> r.type, app |-> r.app,
                                   key |-> r.key, step |-> "import"] : r \in requests}
          /\ ops' = [k \in Keys |-> IF \E r \in requests : r.key = k THEN S!START_OPERATION ELSE ops[k]]
          /\ mixed' = mixed \cup {k \in Keys : \/ \E q, r \in requests : q # r /\ q.key = k /\ r.key = k
                                               \/ S!Busy(k) /\ \E r \in requests : r.key = k}
          /\ UNCHANGED <<S!records, selected, removals>>
    BY DEF S!Begin
  <1> DEFINE call(r) == [id |-> began + rank[r], type |-> r.type, app |-> r.app,
                         key |-> r.key, step |-> "import"]
  <1>2. \A c \in calls' : c \in calls \/ \E r \in requests : c = call(r)
    BY <1>1
  <1>3. \A r \in requests : call(r).key = r.key /\ Typed(call(r))
    BY DEF Typed
  <1> HIDE DEF call
  <1>4. \A c \in calls' : Typed(c)
    BY <1>2, <1>3 DEF RecordsInv, RecordsShape
  <1>5. S!START_OPERATION \in S!Operation /\ S!START_OPERATION # None /\ ~S!START_OPERATION.full
    <2>1. \A x, y \in BOOLEAN : [full |-> x, error |-> y] \in S!Operation
      BY DEF S!Operation
    <2>2. S!START_OPERATION \in S!Operation
      BY <2>1 DEF S!START_OPERATION
    <2>3. ~S!START_OPERATION.full
      BY DEF S!START_OPERATION
    <2> QED BY <2>2, <2>3 DEF NoneIsNone
  <1>6. ops' \in [Keys -> S!Operation \cup {None}]
    BY <1>1, <1>5 DEF RecordsInv, RecordsShape
  <1>7. \A k \in Keys : k \notin mixed' =>
          /\ k \notin mixed
          /\ \A q, r \in requests : q.key = k /\ r.key = k => q = r
          /\ \A r \in requests : r.key = k => ~S!Busy(k)
    BY <1>1
  <1>8. Solo'
    <2>1. ASSUME NEW c \in calls', NEW d \in calls', c.key = d.key, c.key \notin mixed'
          PROVE  c = d
      <3>1. c.key \in Keys
        BY <1>4, <2>1 DEF Typed
      <3>2. CASE c \in calls /\ d \in calls
        BY <1>7, <2>1, <3>1, <3>2 DEF RecordsInv, Solo
      <3>3. CASE c \in calls /\ \E r \in requests : d = call(r)
        BY <1>3, <1>7, <2>1, <3>1, <3>3 DEF S!Busy
      <3>4. CASE d \in calls /\ \E r \in requests : c = call(r)
        BY <1>3, <1>7, <2>1, <3>1, <3>4 DEF S!Busy
      <3>5. CASE (\E r \in requests : c = call(r)) /\ (\E r \in requests : d = call(r))
        BY <1>3, <1>7, <2>1, <3>1, <3>5
      <3> QED BY <1>2, <2>1, <3>2, <3>3, <3>4, <3>5
    <2>2. ASSUME NEW c \in calls', NEW t \in removals', c.key = t.key, c.key \notin mixed'
          PROVE  FALSE
      <3>1. c.key \in Keys /\ t \in removals
        BY <1>1, <1>4, <2>2 DEF Typed
      <3>2. CASE c \in calls
        BY <1>7, <2>2, <3>1, <3>2 DEF RecordsInv, Solo
      <3>3. CASE \E r \in requests : c = call(r)
        BY <1>3, <1>7, <2>2, <3>1, <3>3 DEF S!Busy
      <3> QED BY <1>2, <2>2, <3>2, <3>3
    <2> QED BY <2>1, <2>2 DEF Solo
  <1>9. S!OperationShown'
    <2> SUFFICES ASSUME NEW c \in calls', c.key \notin mixed' PROVE Shown(ops'[c.key])
      BY DEF S!OperationShown, Shown
    <2>1. c.key \in Keys
      BY <1>4 DEF Typed
    <2>2. CASE \E r \in requests : r.key = c.key
      BY <1>1, <1>5, <2>1, <2>2 DEF Shown
    <2>3. CASE ~\E r \in requests : r.key = c.key
      <3>1. c \in calls /\ ops'[c.key] = ops[c.key] /\ c.key \notin mixed
        BY <1>1, <1>2, <1>3, <1>7, <2>1, <2>3
      <3> QED BY <3>1 DEF RecordsInv, S!OperationShown, Shown
    <2> QED BY <2>2, <2>3
  <1>10. Filed'
    BY <1>1 DEF S!records, RecordsInv, RecordsShape, Filed, S!IndexesComplete, S!Records
  <1> QED BY <1>1, <1>4, <1>6, <1>8, <1>9, <1>10, RecordsTogether DEF RecordsInv, RecordsShape

LEMMA BeginsKeep ==
  ASSUME NoneIsNone, RecordsInv,
         \/ \E k \in Keys : \/ \E a \in Apps : \/ S!installApp(a, k) \/ S!upgradeApp(a, k)
                                               \/ S!uninstallApp(a, k) \/ S!rollbackApp(a, k)
                            \/ S!performBulkInstall(k) \/ S!performBulkUpgrade(k)
         \/ S!performBulkUninstall
  PROVE  RecordsInv'
  <1>1. ASSUME NEW k \in Keys, NEW a \in Apps, NEW type \in S!Types,
               S!Begin({[type |-> type, app |-> a, key |-> k]})
        PROVE  RecordsInv'
    BY <1>1, BeginKeeps
  <1>2. ASSUME NEW k \in Keys, NEW type \in S!Types,
               S!Begin({[type |-> type, app |-> a, key |-> k] : a \in selected})
        PROVE  RecordsInv'
    BY <1>2, BeginKeeps DEF RecordsInv, RecordsShape
  <1>3. CASE S!performBulkUninstall
    <2>1. PICK begun : /\ begun \subseteq {[type |-> "uninstall", app |-> p[1], key |-> p[2]] :
                                             p \in {q \in selected \X Keys : q[2] \in byApp[q[1]]}}
                       /\ S!Begin(begun)
      BY <1>3 DEF S!performBulkUninstall
    <2>2. \A r \in begun : r.key \in Keys /\ r.app \in Apps /\ r.type \in S!Types
      BY <2>1 DEF RecordsInv, RecordsShape, S!Types
    <2> QED BY <2>1, <2>2, BeginKeeps
  <1>4. {"install", "upgrade", "uninstall", "rollback"} = S!Types
    BY DEF S!Types
  <1> QED BY <1>1, <1>2, <1>3, <1>4 DEF S!installApp, S!upgradeApp, S!uninstallApp, S!rollbackApp,
                                        S!performBulkInstall, S!performBulkUpgrade

\* A call leaves, or goes on as itself; operations and timers of other keys stay.
LEMMA CallKeeps ==
  ASSUME RecordsInv, NEW c \in calls, NEW d, d.key = c.key, Typed(d),
         calls' = calls \ {c} \/ calls' = (calls \ {c}) \cup {d},
         ops' \in [Keys -> S!Operation \cup {None}], Filed', UNCHANGED <<selected, mixed>>,
         \/ UNCHANGED removals /\ \A j \in Keys : Shown(ops[j]) => Shown(ops'[j])
         \/ /\ calls' = calls \ {c} /\ \A j \in Keys \ {c.key} : ops'[j] = ops[j]
            /\ \A t \in removals' : t \in removals \/ t.key = c.key
  PROVE  RecordsInv'
  <1>1. Typed(c) /\ c.key \in Keys
    BY DEF RecordsInv, RecordsShape, Typed
  <1>2. /\ \A e \in calls' : Typed(e)
        /\ \A t \in removals' : t.key \in Keys
    BY <1>1 DEF RecordsInv, RecordsShape
  <1>3. \A e \in calls' : \/ e \in calls /\ e # c
                          \/ e = d /\ UNCHANGED removals /\ \A j \in Keys : Shown(ops[j]) => Shown(ops'[j])
    BY <1>1
  <1>4. Solo'
    <2>1. ASSUME NEW e \in calls', NEW f \in calls', e.key = f.key, e.key \notin mixed
          PROVE  e = f
      <3>1. CASE e \in calls /\ f \in calls
        BY <2>1, <3>1 DEF RecordsInv, Solo
      <3>2. CASE e = d /\ f \in calls /\ f # c
        BY <2>1, <3>2 DEF RecordsInv, Solo
      <3>3. CASE f = d /\ e \in calls /\ e # c
        BY <2>1, <3>3 DEF RecordsInv, Solo
      <3> QED BY <1>3, <2>1, <3>1, <3>2, <3>3
    <2>2. ASSUME NEW e \in calls', NEW t \in removals', e.key = t.key, e.key \notin mixed
          PROVE  FALSE
      <3>1. CASE t \in removals
        BY <1>3, <2>2, <3>1 DEF RecordsInv, Solo
      <3>2. CASE t.key = c.key /\ e \in calls /\ e # c
        BY <2>2, <3>2 DEF RecordsInv, Solo
      <3> QED BY <1>3, <2>2, <3>1, <3>2
    <2> QED BY <2>1, <2>2 DEF Solo
  <1>5. S!OperationShown'
    <2> SUFFICES ASSUME NEW e \in calls', e.key \notin mixed PROVE Shown(ops'[e.key])
      BY DEF S!OperationShown, Shown
    <2>1. e.key \in Keys
      BY <1>2 DEF Typed
    <2>2. CASE e = d /\ \A j \in Keys : Shown(ops[j]) => Shown(ops'[j])
      BY <1>1, <2>2 DEF RecordsInv, S!OperationShown, Shown
    <2>3. CASE e \in calls /\ e # c
      <3>1. Shown(ops[e.key])
        BY <2>3 DEF RecordsInv, S!OperationShown, Shown
      <3>2. e.key # c.key
        BY <2>3 DEF RecordsInv, Solo
      <3> QED BY <2>1, <3>1, <3>2
    <2> QED BY <1>3, <2>2, <2>3
  <1>6. selected' \subseteq Apps
    BY DEF RecordsInv, RecordsShape
  <1> QED BY <1>2, <1>4, <1>5, <1>6, RecordsTogether

LEMMA CallsKeep ==
  ASSUME NoneIsNone, S!PlacesAssumption, RecordsInv, NEW c \in calls, S!CallStep(c)
  PROVE  RecordsInv'
  <1>1. RecordsShape /\ Filed /\ Typed(c) /\ c.key \in Keys /\ c.app \in Apps
    BY RecordsApart DEF RecordsInv, RecordsShape, Typed
  <1>2. CASE S!Imported(c)
    <2> DEFINE d == [c EXCEPT !.step = "request"]
    <2>1. d.key = c.key /\ d.app = c.app /\ d.type = c.type
      OBVIOUS
    <2>2. /\ S!UPDATE_OPERATION(c.key) \/ S!FAIL_OPERATION(c.key)
          /\ calls' = calls \ {c} \/ calls' = (calls \ {c}) \cup {d}
          /\ UNCHANGED <<S!records, selected, mixed, removals>>
      BY <1>2 DEF S!Imported
    <2>3. Filed'
      BY <1>1, <2>2 DEF S!records, Filed, S!IndexesComplete, S!Records
    <2>4. Typed(d)
      BY <1>1, <2>1 DEF Typed
    <2> HIDE DEF d
    <2> QED BY <1>1, <2>1, <2>2, <2>3, <2>4, UpdateKeeps, CallKeeps
  <1>3. CASE S!Fails(c)
    <2>1. S!FAIL_OPERATION(c.key) /\ calls' = calls \ {c} /\ UNCHANGED <<S!records, selected, mixed, removals>>
      BY <1>3 DEF S!Fails
    <2>2. Filed'
      BY <1>1, <2>1 DEF S!records, Filed, S!IndexesComplete, S!Records
    <2> QED BY <1>1, <2>1, <2>2, UpdateKeeps, CallKeeps
  <1>4. CASE S!Succeeds(c)
    <2>1. S!COMPLETE_OPERATION(c) /\ calls' = calls \ {c} /\ UNCHANGED <<selected, mixed>>
      BY <1>4 DEF S!Succeeds
    <2>2. Filed'
      BY <1>1, <1>4, SetKeeps, StatusKeeps, RemoveKeeps DEF S!Succeeds
    <2> QED BY <1>1, <2>1, <2>2, CompleteKeeps, CallKeeps
  <1> QED BY <1>2, <1>3, <1>4 DEF S!CallStep

LEMMA RecordsOthersKeep ==
  ASSUME NoneIsNone, RecordsInv,
         \/ \E k \in Keys : S!cancelOperation(k)
         \/ S!SelectApps \/ (\E t \in removals : S!RemovalFires(t)) \/ S!RefreshFires
         \/ S!discoverInstallations \/ S!CLEAR_COMPLETED_OPERATIONS \/ UNCHANGED S!vars
  PROVE  RecordsInv'
  <1>1. RecordsShape /\ Filed /\ Solo /\ S!OperationShown
    BY RecordsApart
  <1>2. UNCHANGED S!records => Filed'
    BY <1>1 DEF S!records, Filed, S!IndexesComplete, S!Records
  <1>3. ASSUME NEW k \in Keys, S!cancelOperation(k) PROVE RecordsInv'
    <2>1. S!FAIL_OPERATION(k) /\ mixed' = mixed \cup {k} /\ UNCHANGED <<S!records, selected, calls, removals>>
      BY <1>3 DEF S!cancelOperation
    <2>2. /\ ops' \in [Keys -> S!Operation \cup {None}]
          /\ \A j \in Keys : Shown(ops[j]) => Shown(ops'[j])
      BY <1>1, <2>1, UpdateKeeps
    <2>3. Solo' /\ S!OperationShown'
      BY <1>1, <2>1, <2>2 DEF Solo, S!OperationShown, Shown, RecordsShape, Typed
    <2> QED BY <1>1, <1>2, <2>1, <2>2, <2>3, RecordsTogether DEF RecordsShape
  <1>4. CASE S!SelectApps
    <2>1. UNCHANGED <<S!records, ops, calls, removals, mixed>> /\ selected' \subseteq Apps
      BY <1>1, <1>4 DEF S!SelectApps, RecordsShape
    <2> QED BY <1>1, <1>2, <2>1, RecordsTogether DEF RecordsShape, Solo, S!OperationShown
  <1>5. ASSUME NEW t \in removals, S!RemovalFires(t) PROVE RecordsInv'
    <2>1. /\ removals' = removals \ {t} /\ ops' = [ops EXCEPT ![t.key] = None]
          /\ UNCHANGED <<S!records, selected, calls, mixed>>
      BY <1>5 DEF S!RemovalFires
    <2>2. ops' \in [Keys -> S!Operation \cup {None}] /\ \A j \in Keys \ {t.key} : ops'[j] = ops[j]
      BY <1>1, <2>1 DEF RecordsShape
    <2>3. \A c \in calls : c.key \notin mixed => c.key # t.key /\ c.key \in Keys
      BY <1>1 DEF Solo, RecordsShape, Typed
    <2>4. Solo' /\ S!OperationShown'
      BY <1>1, <2>1, <2>2, <2>3 DEF Solo, S!OperationShown
    <2> QED BY <1>1, <1>2, <2>1, <2>2, <2>4, RecordsTogether DEF RecordsShape
  <1>6. CASE S!RefreshFires \/ S!discoverInstallations
    <2>1. S!SET_INSTALLATIONS /\ UNCHANGED <<ops, selected, calls, removals, mixed>>
      BY <1>6 DEF S!RefreshFires, S!discoverInstallations
    <2>2. Filed'
      BY <2>1, ListKeeps
    <2> QED BY <1>1, <2>1, <2>2, RecordsTogether DEF RecordsShape, Solo, S!OperationShown
  <1>7. CASE S!CLEAR_COMPLETED_OPERATIONS
    <2>1. /\ ops' = [k \in Keys |-> IF ops[k] # None /\ ops[k].full /\ ~ops[k].error THEN None ELSE ops[k]]
          /\ UNCHANGED <<S!records, selected, calls, removals, mixed>>
      BY <1>7 DEF S!CLEAR_COMPLETED_OPERATIONS
    <2>2. ops' \in [Keys -> S!Operation \cup {None}] /\ \A j \in Keys : Shown(ops[j]) => Shown(ops'[j])
      BY <1>1, <2>1 DEF RecordsShape, Shown
    <2>3. Solo' /\ S!OperationShown'
      BY <1>1, <2>1, <2>2 DEF Solo, S!OperationShown, Shown, RecordsShape, Typed
    <2> QED BY <1>1, <1>2, <2>1, <2>2, <2>3, RecordsTogether DEF RecordsShape
  <1>8. CASE UNCHANGED S!vars
    BY <1>1, <1>2, <1>8, RecordsTogether DEF S!vars, RecordsShape, Solo, S!OperationShown
  <1> QED BY <1>3, <1>4, <1>5, <1>6, <1>7, <1>8

LEMMA RecordsStep ==
  ASSUME NoneIsNone, S!PlacesAssumption
  PROVE  RecordsInv /\ (S!Next \/ UNCHANGED S!vars) => RecordsInv'
  BY BeginsKeep, CallsKeep, RecordsOthersKeep DEF S!Next

LEMMA RecordsStart ==
  ASSUME NoneIsNone
  PROVE  S!Init => RecordsInv
  <1> SUFFICES ASSUME S!Init PROVE RecordsInv
    OBVIOUS
  <1>1. /\ recs = [k \in Keys |-> None] /\ ops = [k \in Keys |-> None]
        /\ byApp = [a \in Apps |-> {}] /\ byCluster = [c \in Clusters |-> {}]
        /\ calls = {} /\ removals = {} /\ selected = {}
    BY DEF S!Init
  <1>2. S!Records(Keys) = {}
    BY <1>1 DEF S!Records
  <1> QED BY <1>1, <1>2 DEF RecordsInv, RecordsShape, Solo, S!OperationShown, S!IndexesComplete

LEMMA GettersFollow == RecordsInv => S!GettersAgree
  <1> SUFFICES ASSUME RecordsInv, S!OneApp, NEW a \in Apps
               PROVE  S!IsAppInstalled(a) <=> a \in S!InstalledAppIds
    BY DEF S!GettersAgree
  <1>1. \A k \in Keys : recs[k] # None => recs[k].app \in Apps /\ k \in byApp[recs[k].app]
    BY DEF RecordsInv, RecordsShape, S!IndexesComplete, S!Records, S!Record
  <1>2. byApp[a] \subseteq Keys
    BY DEF RecordsInv, RecordsShape
  <1>3. S!IsAppInstalled(a) <=> \E k \in byApp[a] : recs[k] # None
    BY DEF S!IsAppInstalled, S!Records
  <1>4. a \in S!InstalledAppIds <=> \E k \in Keys : recs[k] # None /\ recs[k].app = a
    BY DEF S!InstalledAppIds, S!Records
  <1> QED BY <1>1, <1>2, <1>3, <1>4 DEF S!OneApp

-----------------------------------------------------------------------------
(* What the types of the store of installations add: calls are finitely many at once, *)
(* so that each of those that begin together gets a number of its own.                *)

LEMMA SameCardinality == \A X : S!Cardinality(X) = Cardinality(X)
  BY DEF S!Cardinality, Cardinality, S!IsFiniteSet, IsFiniteSet

\* The requests of one type, for any app and key.
RequestsOf(type) == {[type |-> type, app |-> p[1], key |-> p[2]] : p \in Apps \X Keys}

LEMMA OneOfThem ==
  ASSUME NEW type, NEW a \in Apps, NEW k \in Keys
  PROVE  [type |-> type, app |-> a, key |-> k] \in RequestsOf(type)
  <1> DEFINE p == <<a, k>>
  <1>1. p \in Apps \X Keys /\ p[1] = a /\ p[2] = k
    OBVIOUS
  <1> HIDE DEF p
  <1> QED BY <1>1 DEF RequestsOf

LEMMA RequestsAreFinite ==
  ASSUME IsFiniteSet(Apps), IsFiniteSet(Keys), NEW type
  PROVE  \A T : T \subseteq RequestsOf(type) => IsFiniteSet(T)
  <1> DEFINE f == [p \in Apps \X Keys |-> [type |-> type, app |-> p[1], key |-> p[2]]]
  <1>1. IsFiniteSet(Apps \X Keys)
    BY FS_Product
  <1>2. f \in Surjection(Apps \X Keys, RequestsOf(type))
    BY DEF Surjection, RequestsOf
  <1> HIDE DEF f
  <1>3. IsFiniteSet(RequestsOf(type))
    BY <1>1, <1>2, FS_Surjection
  <1> QED BY <1>3, FS_Subset

LEMMA RanksAreNumbers ==
  ASSUME NEW T, IsFiniteSet(T)
  PROVE  /\ S!Cardinality(T) \in Nat
         /\ (CHOOSE f \in [T -> 1 .. S!Cardinality(T)] : \A q, r \in T : f[q] = f[r] => q = r)
              \in [T -> 1 .. S!Cardinality(T)]
  <1> DEFINE n == Cardinality(T)
  <1>1. S!Cardinality(T) = n
    BY SameCardinality
  <1>2. n \in Nat /\ ExistsBijection(1 .. n, T)
    BY FS_CardinalityType
  <1>3. ExistsBijection(T, 1 .. n)
    BY <1>2, Fun_ExistsBijSymmetric
  <1> HIDE DEF n
  <1>4. PICK f \in [T -> 1 .. n] : \A q, r \in T : f[q] = f[r] => q = r
    BY <1>3 DEF ExistsBijection, Bijection, Injection, Surjection, IsInjective
  <1> QED BY <1>1, <1>2, <1>4

RecordsCounts ==
  /\ calls \subseteq S!Call /\ \A t \in removals : t.id \in Nat
  /\ refreshes \in Nat /\ began \in 0 .. MaxCalls /\ faults \in 0 .. MaxFaults /\ mixed \subseteq Keys

LEMMA RequestsCounted ==
  ASSUME S!BoundsAssumption, RecordsCounts, NEW T, IsFiniteSet(T), S!Begin(T),
         \A r \in T : r.key \in Keys /\ r.app \in Apps /\ r.type \in S!Types
  PROVE  RecordsCounts'
  <1> DEFINE n == S!Cardinality(T)
             rank == CHOOSE f \in [T -> 1 .. n] : \A q, r \in T : f[q] = f[r] => q = r
             call(r) == [id |-> began + rank[r], type |-> r.type, app |-> r.app,
                         key |-> r.key, step |-> "import"]
  <1>1. n \in Nat /\ rank \in [T -> 1 .. n]
    BY RanksAreNumbers
  <1>2. /\ began + n <= MaxCalls /\ began' = began + n
        /\ calls' = calls \cup {call(r) : r \in T}
        /\ mixed' \subseteq mixed \cup Keys
        /\ UNCHANGED <<removals, refreshes, faults>>
    BY DEF S!Begin
  <1> HIDE DEF n, rank
  <1>3. \A r \in T : call(r) \in S!Call
    BY <1>1 DEF S!Call, RecordsCounts
  <1> HIDE DEF call
  <1>4. began' \in 0 .. MaxCalls
    BY <1>1, <1>2 DEF RecordsCounts, S!BoundsAssumption
  <1> QED BY <1>2, <1>3, <1>4 DEF RecordsCounts

LEMMA RecordsCounted ==
  ASSUME IsFiniteSet(Apps), IsFiniteSet(Keys), S!BoundsAssumption,
         RecordsInv, RecordsCounts, S!Next \/ UNCHANGED S!vars
  PROVE  RecordsCounts'
  <1>1. selected \subseteq Apps /\ \A c \in calls : c.key \in Keys /\ c \in S!Call
    BY DEF RecordsInv, RecordsShape, Typed, RecordsCounts
  <1>2. ASSUME NEW type \in S!Types, NEW T \in SUBSET RequestsOf(type), S!Begin(T)
        PROVE  RecordsCounts'
    <2>1. \A r \in T : r.key \in Keys /\ r.app \in Apps /\ r.type \in S!Types
      BY <1>2 DEF RequestsOf
    <2> QED BY <1>2, <2>1, RequestsAreFinite, RequestsCounted
  <1>3. {"install", "upgrade", "uninstall", "rollback"} = S!Types
    BY DEF S!Types
  <1>4. ASSUME NEW k \in Keys, NEW a \in Apps,
               S!installApp(a, k) \/ S!upgradeApp(a, k) \/ S!uninstallApp(a, k) \/ S!rollbackApp(a, k)
        PROVE  RecordsCounts'
    <2>1. \A type : {[type |-> type, app |-> a, key |-> k]} \subseteq RequestsOf(type)
      BY OneOfThem
    <2> QED BY <1>2, <1>3, <1>4, <2>1 DEF S!installApp, S!upgradeApp, S!uninstallApp, S!rollbackApp
  <1>5. ASSUME NEW k \in Keys, S!performBulkInstall(k) \/ S!performBulkUpgrade(k) PROVE RecordsCounts'
    <2>1. \A type : {[type |-> type, app |-> a, key |-> k] : a \in selected} \subseteq RequestsOf(type)
      BY <1>1, OneOfThem
    <2> QED BY <1>2, <1>3, <1>5, <2>1 DEF S!performBulkInstall, S!performBulkUpgrade
  <1>6. CASE S!performBulkUninstall
    <2>1. PICK begun : /\ begun \subseteq {[type |-> "uninstall", app |-> p[1], key |-> p[2]] :
                                             p \in {q \in selected \X Keys : q[2] \in byApp[q[1]]}}
                       /\ S!Begin(begun)
      BY <1>6 DEF S!performBulkUninstall
    <2>2. begun \subseteq RequestsOf("uninstall")
      BY <1>1, <2>1 DEF RequestsOf
    <2> QED BY <1>2, <1>3, <2>1, <2>2
  <1>7. ASSUME NEW c \in calls, S!Imported(c) PROVE RecordsCounts'
    <2> DEFINE d == [c EXCEPT !.step = "request"]
    <2>1. c = [id |-> c.id, type |-> c.type, app |-> c.app, key |-> c.key, step |-> c.step]
          /\ c.id \in Nat /\ c.type \in S!Types /\ c.app \in Apps /\ c.key \in Keys
      BY <1>1 DEF S!Call
    <2>2. d = [id |-> c.id, type |-> c.type, app |-> c.app, key |-> c.key, step |-> "request"]
      BY <2>1
    <2>3. [id |-> c.id, type |-> c.type, app |-> c.app, key |-> c.key, step |-> "request"] \in S!Call
      BY <2>1 DEF S!Call
    <2>4. /\ calls' = calls \ {c} \/ calls' = (calls \ {c}) \cup {d}
          /\ UNCHANGED <<removals, refreshes, began, faults, mixed>>
      BY <1>7 DEF S!Imported
    <2> QED BY <2>2, <2>3, <2>4 DEF RecordsCounts
  <1>8. ASSUME NEW c \in calls, S!Succeeds(c) PROVE RecordsCounts'
    <2>1. c.id \in Nat
      BY <1>1 DEF S!Call
    <2>2. /\ calls' = calls \ {c} /\ UNCHANGED <<began, faults, mixed>>
          /\ refreshes' = refreshes \/ refreshes' = refreshes + 1
          /\ removals' = removals \/ removals' = removals \cup {[key |-> c.key, id |-> c.id]}
      BY <1>8 DEF S!Succeeds, S!COMPLETE_OPERATION
    <2> QED BY <2>1, <2>2 DEF RecordsCounts
  <1>9. ASSUME NEW c \in calls, S!Fails(c) PROVE RecordsCounts'
    BY <1>9 DEF S!Fails, RecordsCounts, S!BoundsAssumption
  <1>10. ASSUME NEW k \in Keys, S!cancelOperation(k) PROVE RecordsCounts'
    BY <1>10 DEF S!cancelOperation, RecordsCounts
  <1>11. ASSUME NEW t \in removals, S!RemovalFires(t) PROVE RecordsCounts'
    BY <1>11 DEF S!RemovalFires, RecordsCounts
  <1>12. CASE S!RefreshFires
    BY <1>12 DEF S!RefreshFires, RecordsCounts
  <1>13. CASE S!SelectApps \/ S!discoverInstallations \/ S!CLEAR_COMPLETED_OPERATIONS \/ UNCHANGED S!vars
    BY <1>13 DEF S!SelectApps, S!discoverInstallations, S!CLEAR_COMPLETED_OPERATIONS, S!vars, RecordsCounts
  <1> QED BY <1>4, <1>5, <1>6, <1>7, <1>8, <1>9, <1>10, <1>11, <1>12, <1>13 DEF S!Next, S!CallStep

LEMMA RecordsTyped == RecordsInv /\ RecordsCounts => S!TypeOK
  BY DEF RecordsInv, RecordsShape, RecordsCounts, S!TypeOK

-----------------------------------------------------------------------------
(* The pull secrets, for any installs, repositories and service accounts, whatever *)
(* requests fail and however often they are tried.                                 *)

(***************************************************************************)
(* The inductive invariant.  Its core is optimistic locking (Current): of  *)
(* an account, one resourceVersion is one content, so what an install read *)
(* and may write back is what is there.                                    *)
(***************************************************************************)

SecretsShape ==
  /\ secretOf \in [Installs -> Secrets]
  /\ secrets \in [Secrets -> Nat \cup {None}]
  /\ accounts \in [Accounts -> P!Account \cup {None}]
  /\ pc \in [Installs -> P!Labels]
  /\ todo \in [Installs -> SUBSET Accounts]
  /\ named \in [Installs -> BOOLEAN]
  /\ DOMAIN seen = Installs

\* What an install has read of an account is of a version not later than the account's.
Current(i) ==
  pc[i] \in {"pre", "final"} /\ seen[i] # None =>
    /\ seen[i].name \in todo[i] /\ accounts[seen[i].name] # None
    /\ seen[i].was \in P!Account /\ seen[i].was.rv <= accounts[seen[i].name].rv
    /\ seen[i].was.rv = accounts[seen[i].name].rv => seen[i].was = accounts[seen[i].name]

\* An install with a name has the secret, and one without it was refused.
Named(i) ==
  /\ named[i] \/ pc[i] = "putSecret" => secrets[secretOf[i]] # None
  /\ pc[i] \in {"pre", "install", "list", "final", "done"} /\ ~named[i] => i \in met

Asked(i) == {Default, AccountOf[i]}

\* In its last visits an install attaches to every account it must, or will yet.
Attaching(i) ==
  i \notin met =>
    /\ pc[i] \in {"list", "final", "done"} => accounts[AccountOf[i]] # None
    /\ pc[i] = "final" => \A a \in Asked(i) : a \in todo[i] \/ secretOf[i] \in accounts[a].pulls
    /\ pc[i] = "done" => \A a \in Asked(i) : secretOf[i] \in accounts[a].pulls

\* Nothing is carried over from the first visits to the last.
Cleared(i) == pc[i] \in {"install", "list"} => seen[i] = None

Local(i) == Cleared(i) /\ Current(i) /\ Named(i) /\ Attaching(i)

SecretsInv == SecretsShape /\ accounts[Default] # None /\ \A i \in Installs : Local(i)

\* An account that is there stays, and so do its secrets; a version tells its content.
Grows(old, new) ==
  old # None => /\ new # None /\ old.pulls \subseteq new.pulls
                /\ old.rv <= new.rv /\ (old.rv = new.rv => old = new)

AccountsGrow == \A a \in Accounts : Grows(accounts[a], accounts'[a])

-----------------------------------------------------------------------------
LEMMA AccountParts ==
  ASSUME NEW x \in P!Account
  PROVE  x.rv \in Nat /\ x.pulls \subseteq Secrets
  BY DEF P!Account

LEMMA WrittenGrows ==
  ASSUME NEW x \in P!Account, NEW s \in Secrets
  PROVE  /\ P!Written(x, s) \in P!Account /\ s \in P!Written(x, s).pulls
         /\ x.rv <= P!Written(x, s).rv /\ x.pulls \subseteq P!Written(x, s).pulls
         /\ P!Written(x, s).rv = x.rv => P!Written(x, s) = x
  <1>1. x.rv \in Nat /\ x.pulls \subseteq Secrets
    BY AccountParts
  <1>2. CASE s \in x.pulls
    BY <1>1, <1>2 DEF P!Written
  <1>3. CASE s \notin x.pulls
    <2> DEFINE y == [rv |-> x.rv + 1, pulls |-> x.pulls \cup {s}]
    <2>1. P!Written(x, s) = y
      BY <1>3 DEF P!Written
    <2>2. y \in P!Account /\ y.rv = x.rv + 1 /\ y.pulls = x.pulls \cup {s}
      BY <1>1 DEF P!Account
    <2> QED BY <1>1, <2>1, <2>2
  <1> QED BY <1>2, <1>3

\* The accounts are written by PutAccount and by Install only.
LEMMA PutGrows ==
  ASSUME NoneIsNone, SecretsInv, NEW i \in Installs, P!PutAccount(i)
  PROVE  /\ accounts' \in [Accounts -> P!Account \cup {None}] /\ AccountsGrow
         /\ seen[i].name \in Accounts
         /\ pc[i] = "pre" \/ i \in met' \/ secretOf[i] \in accounts'[seen[i].name].pulls
  <1> DEFINE a == seen[i].name
             w == P!Written(seen[i].was, secretOf[i])
  <1>1. /\ a \in Accounts /\ accounts[a] # None /\ seen[i].was \in P!Account
        /\ seen[i].was.rv = accounts[a].rv => seen[i].was = accounts[a]
    BY DEF P!PutAccount, SecretsInv, Local, Current, SecretsShape
  <1>2. secretOf[i] \in Secrets /\ accounts \in [Accounts -> P!Account \cup {None}]
    BY DEF SecretsInv, SecretsShape
  <1>3. CASE P!MayWrite(i) /\ accounts' = [accounts EXCEPT ![a] = w]
    <2>1. seen[i].was = accounts[a]
      BY <1>1, <1>3 DEF P!MayWrite
    <2>2. /\ w \in P!Account /\ secretOf[i] \in w.pulls
          /\ seen[i].was.rv <= w.rv /\ seen[i].was.pulls \subseteq w.pulls
          /\ w.rv = seen[i].was.rv => w = seen[i].was
      BY <1>1, <1>2, WrittenGrows
    <2> HIDE DEF a, w
    <2>3. accounts'[a] = w /\ \A b \in Accounts \ {a} : accounts'[b] = accounts[b]
      BY <1>1, <1>2, <1>3
    <2>4. accounts' \in [Accounts -> P!Account \cup {None}]
      BY <1>2, <1>3, <2>2
    <2>5. Grows(accounts[a], accounts'[a])
      BY <2>1, <2>2, <2>3 DEF Grows, NoneIsNone
    <2>6. ASSUME NEW b \in Accounts \ {a} PROVE Grows(accounts[b], accounts'[b])
      <3>1. accounts'[b] = accounts[b]
        BY <2>3
      <3>2. accounts[b] # None => accounts[b].rv \in Nat
        BY <1>2, AccountParts
      <3> QED BY <3>1, <3>2 DEF Grows
    <2> QED BY <1>1, <2>2, <2>3, <2>4, <2>5, <2>6 DEF AccountsGrow, a
  <1>4. CASE UNCHANGED accounts /\ P!Refused(i)
    <2>1. \A b \in Accounts : accounts[b] # None => accounts[b].rv \in Nat
      BY <1>2, AccountParts
    <2>2. AccountsGrow
      BY <1>4, <2>1 DEF AccountsGrow, Grows
    <2> QED BY <1>1, <1>2, <1>4, <2>2 DEF P!Refused, P!PutAccount
  <1> QED BY <1>3, <1>4 DEF P!PutAccount

LEMMA InstallGrows ==
  ASSUME NoneIsNone, P!PlacesAssumption, SecretsInv, NEW i \in Installs, P!Install(i)
  PROVE  /\ accounts' \in [Accounts -> P!Account \cup {None}] /\ AccountsGrow
         /\ pc'[i] # "failed" => accounts'[AccountOf[i]] # None
  <1> DEFINE a == AccountOf[i]
             new == [rv |-> 1, pulls |-> {}]
  <1>1. a \in Accounts /\ accounts \in [Accounts -> P!Account \cup {None}]
        /\ \A b \in Accounts : accounts[b] # None => accounts[b].rv \in Nat
    BY AccountParts DEF P!PlacesAssumption, SecretsInv, SecretsShape
  <1>2. new \in P!Account /\ new # None
    BY DEF P!Account, NoneIsNone
  <1>3. i \in DOMAIN pc
    BY DEF SecretsInv, SecretsShape
  <1>4. CASE accounts[a] # None \/ UNCHANGED accounts
    <2>1. UNCHANGED accounts
      BY <1>4 DEF P!Install
    <2>2. AccountsGrow
      BY <1>1, <2>1 DEF AccountsGrow, Grows
    <2>3. pc'[i] # "failed" => accounts[a] # None
      BY <1>2, <1>1, <1>3, <2>1 DEF P!Install, P!Goto
    <2> QED BY <1>1, <2>1, <2>2, <2>3
  <1>5. CASE accounts[a] = None /\ accounts' # accounts
    <2>1. accounts' = [accounts EXCEPT ![a] = new]
      BY <1>5 DEF P!Install
    <2> HIDE DEF a, new
    <2>2. accounts'[a] = new /\ \A b \in Accounts \ {a} : accounts'[b] = accounts[b]
      BY <1>1, <2>1
    <2>3. accounts' \in [Accounts -> P!Account \cup {None}]
      BY <1>1, <1>2, <2>1
    <2>4. AccountsGrow
      BY <1>1, <1>5, <2>2 DEF AccountsGrow, Grows
    <2> QED BY <1>2, <2>2, <2>3, <2>4 DEF a
  <1> QED BY <1>4, <1>5

\* What a step of one install may do to what others see.
Effect(i) ==
  /\ SecretsShape' /\ AccountsGrow /\ secretOf' = secretOf
  /\ \A s \in Secrets : secrets[s] # None => secrets'[s] # None
  /\ met \subseteq met'
  /\ \A j \in Installs \ {i} : pc'[j] = pc[j] /\ todo'[j] = todo[j] /\ seen'[j] = seen[j]
                               /\ named'[j] = named[j] /\ (j \in met' => j \in met)

LEMMA Unchanged ==
  ASSUME SecretsShape, UNCHANGED accounts
  PROVE  accounts' \in [Accounts -> P!Account \cup {None}] /\ AccountsGrow
  <1>1. accounts \in [Accounts -> P!Account \cup {None}]
        /\ \A b \in Accounts : accounts[b] # None => accounts[b].rv \in Nat
    BY AccountParts DEF SecretsShape
  <1> QED BY <1>1 DEF AccountsGrow, Grows

\* Such an effect leaves true what holds of the others.
LEMMA OtherInstallsKeep ==
  ASSUME P!PlacesAssumption, SecretsInv, NEW i \in Installs, Effect(i), NEW j \in Installs \ {i}
  PROVE  Local(j)'
  <1>1. /\ Local(j) /\ secretOf[j] \in Secrets /\ Asked(j) \subseteq Accounts /\ AccountOf[j] \in Accounts
        /\ pc'[j] = pc[j] /\ todo'[j] = todo[j] /\ seen'[j] = seen[j] /\ named'[j] = named[j]
        /\ (j \in met' <=> j \in met) /\ secretOf'[j] = secretOf[j]
    BY DEF SecretsInv, SecretsShape, P!PlacesAssumption, Asked, Effect
  <1>2. \A a \in Accounts : Grows(accounts[a], accounts'[a])
    BY DEF Effect, AccountsGrow
  <1>3. \A a \in Accounts : /\ accounts[a] # None => accounts[a].rv \in Nat
                            /\ accounts'[a] # None => accounts'[a].rv \in Nat
    BY AccountParts DEF Effect, SecretsInv, SecretsShape
  <1>4. Current(j)'
    <2> SUFFICES ASSUME pc[j] \in {"pre", "final"}, seen[j] # None
                 PROVE  /\ seen[j].name \in todo[j] /\ accounts'[seen[j].name] # None
                        /\ seen[j].was \in P!Account /\ seen[j].was.rv <= accounts'[seen[j].name].rv
                        /\ seen[j].was.rv = accounts'[seen[j].name].rv
                             => seen[j].was = accounts'[seen[j].name]
      BY <1>1 DEF Current
    <2> DEFINE a == seen[j].name
    <2>1. /\ a \in todo[j] /\ a \in Accounts /\ accounts[a] # None
          /\ seen[j].was \in P!Account /\ seen[j].was.rv <= accounts[a].rv
          /\ seen[j].was.rv = accounts[a].rv => seen[j].was = accounts[a]
      BY <1>1 DEF Local, Current, SecretsInv, SecretsShape
    <2>2. seen[j].was.rv \in Nat
      BY <2>1, AccountParts
    <2> QED BY <1>2, <1>3, <2>1, <2>2 DEF Grows
  <1>5. Named(j)'
    BY <1>1 DEF Local, Named, Effect
  <1>6. accounts[Default] # None
    BY DEF SecretsInv
  <1>7. Attaching(j)'
    <2> SUFFICES ASSUME j \notin met PROVE Attaching(j)'
      BY <1>1 DEF Attaching
    <2>1. pc[j] \in {"list", "final", "done"} =>
            accounts[AccountOf[j]] # None /\ accounts'[AccountOf[j]] # None
      BY <1>1, <1>2 DEF Local, Attaching, Grows
    <2>2. ASSUME pc[j] \in {"final", "done"}, NEW a \in Asked(j), secretOf[j] \in accounts[a].pulls
          PROVE  secretOf[j] \in accounts'[a].pulls
      BY <1>1, <1>2, <1>6, <2>1, <2>2 DEF Asked, Grows
    <2> QED BY <1>1, <2>1, <2>2 DEF Local, Attaching, Asked
  <1> QED BY <1>1, <1>4, <1>5, <1>7 DEF Local, Cleared

-----------------------------------------------------------------------------
(* The steps. *)

\* What is known of an install before a step of its own.
LEMMA InstallKnown ==
  ASSUME P!PlacesAssumption, SecretsInv, NEW i \in Installs
  PROVE  /\ SecretsShape /\ Local(i) /\ accounts[Default] # None
         /\ secretOf[i] \in Secrets /\ Asked(i) \subseteq Accounts
         /\ Asked(i) = {Default, AccountOf[i]}
  BY DEF SecretsInv, SecretsShape, P!PlacesAssumption, Asked

LEMMA SecretEndsEffect ==
  ASSUME P!PlacesAssumption, SecretsInv, NEW i \in Installs, NEW name \in BOOLEAN, P!SecretEnds(i, name),
         secretOf' = secretOf, UNCHANGED accounts,
         secrets' \in [Secrets -> Nat \cup {None}],
         \A s \in Secrets : secrets[s] # None => secrets'[s] # None,
         name => secrets'[secretOf[i]] # None
  PROVE  Effect(i) /\ Local(i)'
  <1>1. /\ pc' = [pc EXCEPT ![i] = IF name THEN "pre" ELSE "install"]
        /\ todo' = [todo EXCEPT ![i] = IF name THEN {Default, AccountOf[i]} ELSE {}]
        /\ named' = [named EXCEPT ![i] = name] /\ seen' = [seen EXCEPT ![i] = None]
        /\ met' = IF name THEN met ELSE met \cup {i}
    BY DEF P!SecretEnds, P!Goto
  <1>2. SecretsShape /\ Asked(i) \subseteq Accounts /\ Asked(i) = {Default, AccountOf[i]}
    BY InstallKnown
  <1>3. SecretsShape'
    <2>1. pc' \in [Installs -> P!Labels]
      BY <1>1, <1>2 DEF SecretsShape, P!Labels
    <2>2. todo' \in [Installs -> SUBSET Accounts]
      BY <1>1, <1>2 DEF SecretsShape
    <2>3. named' \in [Installs -> BOOLEAN] /\ DOMAIN seen' = Installs
      BY <1>1, <1>2 DEF SecretsShape
    <2> QED BY <1>2, <2>1, <2>2, <2>3 DEF SecretsShape
  <1>4. AccountsGrow
    BY <1>2, Unchanged
  <1>5. Effect(i)
    BY <1>1, <1>2, <1>3, <1>4 DEF Effect, SecretsShape
  <1>6. /\ seen'[i] = None /\ pc'[i] = (IF name THEN "pre" ELSE "install")
        /\ named'[i] = name /\ (~name => i \in met')
    BY <1>1, <1>2 DEF SecretsShape
  <1>7. Local(i)'
    BY <1>6 DEF Local, Cleared, Current, Named, Attaching
  <1> QED BY <1>5, <1>7

LEMMA GetSecretStep ==
  ASSUME P!PlacesAssumption, SecretsInv, NEW i \in Installs, P!GetSecret(i), secretOf' = secretOf
  PROVE  Effect(i) /\ Local(i)'
  <1>1. CASE P!SecretEnds(i, FALSE)
    <2>1. UNCHANGED P!cluster
      BY DEF P!GetSecret
    <2> QED BY <1>1, <2>1, InstallKnown, SecretEndsEffect DEF P!cluster, SecretsShape
  <1>2. CASE /\ DOMAIN seen' = DOMAIN seen /\ (\A j \in Installs \ {i} : seen'[j] = seen[j])
             /\ P!Goto(i, IF secrets[secretOf[i]] = None THEN "postSecret" ELSE "putSecret")
             /\ UNCHANGED <<todo, named, met>>
    <2>1. UNCHANGED <<secrets, accounts>> /\ SecretsShape
      BY InstallKnown DEF P!GetSecret, P!cluster
    <2>2. /\ pc' \in [Installs -> P!Labels]
          /\ pc'[i] = (IF secrets[secretOf[i]] = None THEN "postSecret" ELSE "putSecret")
          /\ \A j \in Installs \ {i} : pc'[j] = pc[j]
      BY <1>2, <2>1 DEF P!Goto, SecretsShape, P!Labels
    <2>3. SecretsShape' /\ AccountsGrow
      BY <1>2, <2>1, <2>2, Unchanged DEF SecretsShape
    <2>4. Effect(i)
      BY <1>2, <2>1, <2>2, <2>3 DEF Effect
    <2>5. Local(i)'
      BY <1>2, <2>1, <2>2, InstallKnown DEF Local, Cleared, Current, Named, Attaching
    <2> QED BY <2>4, <2>5
  <1>3. seen' = [seen EXCEPT ![i] = seen'[i]] \/ P!SecretEnds(i, FALSE)
    BY InstallKnown DEF P!GetSecret, SecretsShape
  <1> QED BY <1>1, <1>2, <1>3, InstallKnown DEF P!GetSecret, SecretsShape

LEMMA PutSecretStep ==
  ASSUME NoneIsNone, P!PlacesAssumption, SecretsInv, NEW i \in Installs, P!PutSecret(i), secretOf' = secretOf
  PROVE  Effect(i) /\ Local(i)'
  <1> DEFINE s == secretOf[i]
  <1>1. s \in Secrets /\ secrets \in [Secrets -> Nat \cup {None}] /\ secrets[s] # None
        /\ UNCHANGED accounts
    BY InstallKnown DEF SecretsShape, Local, Named, P!PutSecret
  <1>2. CASE P!SecretEnds(i, FALSE) /\ UNCHANGED secrets
    BY <1>1, <1>2, SecretEndsEffect
  <1>3. CASE /\ secrets' = IF secrets[s] = seen[i].was.rv THEN [secrets EXCEPT ![s] = @ + 1] ELSE secrets
             /\ P!SecretEnds(i, TRUE)
    <2>1. secrets[s] + 1 \in Nat /\ secrets[s] + 1 # None
      BY <1>1 DEF NoneIsNone
    <2>2. /\ secrets' \in [Secrets -> Nat \cup {None}]
          /\ \A t \in Secrets : secrets[t] # None => secrets'[t] # None
      BY <1>1, <1>3, <2>1
    <2> QED BY <1>1, <1>3, <2>2, SecretEndsEffect
  <1> QED BY <1>2, <1>3 DEF P!PutSecret

LEMMA PostSecretStep ==
  ASSUME NoneIsNone, P!PlacesAssumption, SecretsInv, NEW i \in Installs, P!PostSecret(i), secretOf' = secretOf
  PROVE  Effect(i) /\ Local(i)'
  <1> DEFINE s == secretOf[i]
  <1>1. s \in Secrets /\ secrets \in [Secrets -> Nat \cup {None}] /\ UNCHANGED accounts
    BY InstallKnown DEF SecretsShape, P!PostSecret
  <1>2. CASE P!SecretEnds(i, FALSE) /\ UNCHANGED secrets
    BY <1>1, <1>2, SecretEndsEffect
  <1>3. CASE secrets' = [secrets EXCEPT ![s] = 1] /\ P!SecretEnds(i, TRUE)
    <2>1. /\ secrets' \in [Secrets -> Nat \cup {None}]
          /\ \A t \in Secrets : secrets[t] # None => secrets'[t] # None
          /\ secrets'[s] # None
      BY <1>1, <1>3 DEF NoneIsNone
    <2> QED BY <1>1, <1>3, <2>1, SecretEndsEffect
  <1> QED BY <1>2, <1>3 DEF P!PostSecret

\* An account has been visited, with or without success.
LEMMA VisitedEffect ==
  ASSUME NoneIsNone, P!PlacesAssumption, SecretsInv, NEW i \in Installs, NEW a,
         P!Visited(i, a), pc[i] \in {"pre", "final"}, UNCHANGED <<pc, named, secrets, secretOf>>,
         accounts' \in [Accounts -> P!Account \cup {None}], AccountsGrow,
         met' = met \/ P!Refused(i),
         pc[i] = "final" /\ a \in Asked(i) => i \in met' \/ secretOf[i] \in accounts'[a].pulls
  PROVE  Effect(i) /\ Local(i)'
  <1>1. SecretsShape /\ Local(i) /\ accounts[Default] # None
        /\ Asked(i) \subseteq Accounts /\ Asked(i) = {Default, AccountOf[i]}
    BY InstallKnown
  <1>2. /\ todo' = [todo EXCEPT ![i] = @ \ {a}] /\ seen' = [seen EXCEPT ![i] = None]
        /\ met' \in {met, met \cup {i}}
    BY DEF P!Visited, P!Refused
  <1>3. /\ todo'[i] = todo[i] \ {a} /\ seen'[i] = None /\ todo' \in [Installs -> SUBSET Accounts]
        /\ DOMAIN seen' = Installs
        /\ \A j \in Installs \ {i} : todo'[j] = todo[j] /\ seen'[j] = seen[j]
    BY <1>1, <1>2 DEF SecretsShape
  <1>4. SecretsShape'
    BY <1>1, <1>3 DEF SecretsShape
  <1>5. Effect(i)
    BY <1>2, <1>3, <1>4 DEF Effect
  <1>6. Cleared(i)' /\ Current(i)' /\ Named(i)'
    BY <1>1, <1>2, <1>3 DEF Local, Cleared, Current, Named
  <1>7. Attaching(i)'
    <2> SUFFICES ASSUME i \notin met', pc[i] = "final"
                 PROVE  /\ accounts'[AccountOf[i]] # None
                        /\ \A b \in Asked(i) : b \in todo'[i] \/ secretOf[i] \in accounts'[b].pulls
      BY <1>1 DEF Attaching, Asked
    <2>1. i \notin met
      BY <1>2
    <2>2. /\ accounts[AccountOf[i]] # None
          /\ \A b \in Asked(i) : b \in todo[i] \/ secretOf[i] \in accounts[b].pulls
      BY <1>1, <2>1 DEF Local, Attaching
    <2>3. \A b \in Asked(i) : /\ accounts[b] # None /\ accounts'[b] # None
                              /\ accounts[b].pulls \subseteq accounts'[b].pulls
      BY <1>1, <2>2 DEF AccountsGrow, Grows
    <2> QED BY <1>1, <1>3, <2>2, <2>3
  <1> QED BY <1>5, <1>6, <1>7 DEF Local

LEMMA GetAccountStep ==
  ASSUME NoneIsNone, P!PlacesAssumption, SecretsInv, NEW i \in Installs, P!GetAccount(i), secretOf' = secretOf
  PROVE  Effect(i) /\ Local(i)'
  <1>1. SecretsShape /\ Local(i) /\ accounts[Default] # None /\ Asked(i) = {Default, AccountOf[i]}
        /\ UNCHANGED <<secrets, accounts, pc, named>> /\ pc[i] \in {"pre", "final"}
    BY InstallKnown DEF P!GetAccount, P!cluster
  <1>2. accounts' \in [Accounts -> P!Account \cup {None}] /\ AccountsGrow
    BY <1>1, Unchanged
  <1>3. PICK a \in todo[i] :
          \/ /\ accounts[a] # None
             /\ seen' = [seen EXCEPT ![i] = [name |-> a, was |-> accounts[a]]]
             /\ UNCHANGED <<todo, met>>
          \/ accounts[a] = None /\ P!Visited(i, a) /\ UNCHANGED met
          \/ P!Visited(i, a) /\ P!Refused(i)
    BY DEF P!GetAccount
  <1>4. CASE accounts[a] = None /\ P!Visited(i, a) /\ UNCHANGED met
    <2>1. pc[i] = "final" /\ a \in Asked(i) => i \in met
      BY <1>1, <1>4 DEF Local, Attaching
    <2> QED BY <1>1, <1>2, <1>4, <2>1, VisitedEffect
  <1>5. CASE P!Visited(i, a) /\ P!Refused(i)
    <2>1. pc[i] = "final" => i \in met'
      BY <1>5 DEF P!Refused
    <2> QED BY <1>1, <1>2, <1>5, <2>1, VisitedEffect
  <1>6. CASE /\ accounts[a] # None /\ UNCHANGED <<todo, met>>
             /\ seen' = [seen EXCEPT ![i] = [name |-> a, was |-> accounts[a]]]
    <2> DEFINE read == [name |-> a, was |-> accounts[a]]
    <2>1. a \in Accounts /\ accounts[a] \in P!Account
      BY <1>1, <1>6 DEF SecretsShape
    <2>2. seen'[i] = read /\ DOMAIN seen' = Installs
          /\ \A j \in Installs \ {i} : seen'[j] = seen[j]
      BY <1>1, <1>6 DEF SecretsShape
    <2>3. Effect(i)
      BY <1>1, <1>2, <1>6, <2>2 DEF Effect, SecretsShape
    <2>4. seen'[i].name = a /\ seen'[i].was = accounts[a] /\ accounts[a].rv \in Nat
      BY <2>1, <2>2, AccountParts
    <2>5. Current(i)'
      BY <1>1, <1>6, <2>1, <2>4 DEF Current
    <2>6. Cleared(i)' /\ Named(i)' /\ Attaching(i)'
      BY <1>1, <1>6 DEF Local, Cleared, Named, Attaching, Asked
    <2> QED BY <2>3, <2>5, <2>6 DEF Local
  <1> QED BY <1>3, <1>4, <1>5, <1>6

LEMMA PutAccountStep ==
  ASSUME NoneIsNone, P!PlacesAssumption, SecretsInv, NEW i \in Installs, P!PutAccount(i), secretOf' = secretOf
  PROVE  Effect(i) /\ Local(i)'
  <1>1. P!Visited(i, seen[i].name) /\ pc[i] \in {"pre", "final"} /\ UNCHANGED <<secrets, pc, named>>
        /\ (met' = met \/ P!Refused(i))
    BY DEF P!PutAccount
  <1>2. /\ accounts' \in [Accounts -> P!Account \cup {None}] /\ AccountsGrow
        /\ pc[i] = "final" => i \in met' \/ secretOf[i] \in accounts'[seen[i].name].pulls
    BY PutGrows
  <1> QED BY <1>1, <1>2, VisitedEffect

\* The program counter moves, and little else.
LEMMA MovesEffect ==
  ASSUME P!PlacesAssumption, SecretsInv, NEW i \in Installs, NEW label \in P!Labels, P!Goto(i, label),
         UNCHANGED <<secrets, seen, named, secretOf>>, met' \in {met, met \cup {i}},
         todo' \in [Installs -> SUBSET Accounts], \A j \in Installs \ {i} : todo'[j] = todo[j],
         accounts' \in [Accounts -> P!Account \cup {None}], AccountsGrow
  PROVE  Effect(i) /\ pc'[i] = label
  <1>1. SecretsShape
    BY InstallKnown
  <1>2. pc' \in [Installs -> P!Labels] /\ pc'[i] = label /\ \A j \in Installs \ {i} : pc'[j] = pc[j]
    BY <1>1 DEF P!Goto, SecretsShape
  <1> QED BY <1>1, <1>2 DEF Effect, SecretsShape

LEMMA MoveStep ==
  ASSUME NoneIsNone, P!PlacesAssumption, SecretsInv, NEW i \in Installs, secretOf' = secretOf,
         P!PreAttached(i) \/ P!Install(i) \/ P!ListAccounts(i) \/ P!Finished(i)
  PROVE  Effect(i) /\ Local(i)'
  <1>1. SecretsShape /\ Local(i) /\ accounts[Default] # None /\ Asked(i) \subseteq Accounts
        /\ Asked(i) = {Default, AccountOf[i]} /\ todo \in [Installs -> SUBSET Accounts]
    BY InstallKnown DEF SecretsShape
  <1>2. CASE P!PreAttached(i)
    <2>1. P!Goto(i, "install") /\ pc[i] = "pre" /\ todo[i] = {}
          /\ UNCHANGED <<secrets, accounts, todo, seen, named, met>>
      BY <1>2 DEF P!PreAttached, P!cluster
    <2>2. Effect(i) /\ pc'[i] = "install"
      BY <1>1, <2>1, Unchanged, MovesEffect DEF P!Labels
    <2> QED BY <1>1, <2>1, <2>2 DEF Local, Cleared, Current, Named, Attaching
  <1>3. CASE P!Finished(i)
    <2>1. /\ P!Goto(i, "done") /\ pc[i] = "final" /\ todo[i] = {}
          /\ UNCHANGED <<secrets, accounts, todo, seen, named, met>>
      BY <1>3 DEF P!Finished, P!cluster
    <2>2. Effect(i) /\ pc'[i] = "done"
      BY <1>1, <2>1, Unchanged, MovesEffect DEF P!Labels
    <2> QED BY <1>1, <2>1, <2>2 DEF Local, Cleared, Current, Named, Attaching, Asked
  <1>4. CASE P!Install(i)
    <2>1. PICK label \in {"list", "done", "failed"} : P!Goto(i, label) /\ (label = "done" => ~named[i])
      BY <1>1, <1>4 DEF P!Install, SecretsShape
    <2>2. pc[i] = "install" /\ UNCHANGED <<secrets, todo, seen, named, met>>
      BY <1>4 DEF P!Install
    <2>3. /\ accounts' \in [Accounts -> P!Account \cup {None}] /\ AccountsGrow
          /\ pc'[i] # "failed" => accounts'[AccountOf[i]] # None
      BY <1>4, InstallGrows
    <2>4. Effect(i) /\ pc'[i] = label
      BY <1>1, <2>1, <2>2, <2>3, MovesEffect DEF P!Labels
    <2> QED BY <1>1, <2>1, <2>2, <2>3, <2>4 DEF Local, Cleared, Current, Named, Attaching
  <1>5. CASE P!ListAccounts(i)
    <2>1. pc[i] = "list" /\ UNCHANGED <<secrets, accounts, seen, named>>
      BY <1>5 DEF P!ListAccounts, P!cluster
    <2>2. accounts' \in [Accounts -> P!Account \cup {None}] /\ AccountsGrow
      BY <1>1, <2>1, Unchanged
    <2>3. CASE /\ todo' = [todo EXCEPT ![i] = {a \in Accounts : accounts[a] # None}]
               /\ P!Goto(i, "final") /\ UNCHANGED met
      <3>1. /\ todo' \in [Installs -> SUBSET Accounts] /\ \A j \in Installs \ {i} : todo'[j] = todo[j]
            /\ todo'[i] = {a \in Accounts : accounts[a] # None}
        BY <1>1, <2>3
      <3>2. Effect(i) /\ pc'[i] = "final"
        BY <2>1, <2>2, <2>3, <3>1, MovesEffect DEF P!Labels
      <3>3. Cleared(i)' /\ Current(i)' /\ Named(i)'
        BY <1>1, <2>1, <2>3, <3>2 DEF Local, Cleared, Current, Named
      <3>4. Attaching(i)'
        BY <1>1, <2>1, <2>3, <3>1, <3>2 DEF Local, Attaching, Asked
      <3> QED BY <3>2, <3>3, <3>4 DEF Local
    <2>4. CASE /\ UNCHANGED todo
               /\ \/ P!Goto(i, "list") /\ UNCHANGED met
                  \/ P!Goto(i, "done") /\ met' = met \cup {i}
      <3>1. PICK label \in {"list", "done"} : P!Goto(i, label) /\ (label = "done" => i \in met')
        BY <2>4
      <3>2. met' \in {met, met \cup {i}}
        BY <2>4
      <3>3. Effect(i) /\ pc'[i] = label
        BY <1>1, <2>1, <2>2, <2>4, <3>1, <3>2, MovesEffect DEF P!Labels
      <3> QED BY <1>1, <2>1, <3>1, <3>2, <3>3 DEF Local, Cleared, Current, Named, Attaching
    <2> QED BY <1>5, <2>3, <2>4 DEF P!ListAccounts
  <1> QED BY <1>2, <1>3, <1>4, <1>5

LEMMA StepEffect ==
  ASSUME NoneIsNone, P!PlacesAssumption, SecretsInv, NEW i \in Installs, P!InstallStep(i), secretOf' = secretOf
  PROVE  Effect(i) /\ Local(i)'
  BY GetSecretStep, PutSecretStep, PostSecretStep, GetAccountStep, PutAccountStep, MoveStep
     DEF P!InstallStep

LEMMA SecretsStep ==
  ASSUME NoneIsNone, P!PlacesAssumption
  PROVE  SecretsInv /\ (P!Next \/ UNCHANGED P!vars) => SecretsInv' /\ AccountsGrow
  <1> SUFFICES ASSUME SecretsInv, (P!Next \/ UNCHANGED P!vars) PROVE SecretsInv' /\ AccountsGrow
    OBVIOUS
  <1>1. ASSUME NEW i \in Installs, P!InstallStep(i), secretOf' = secretOf PROVE SecretsInv' /\ AccountsGrow
    <2>1. Effect(i) /\ Local(i)'
      BY <1>1, StepEffect
    <2>2. \A j \in Installs : Local(j)'
      BY <2>1, OtherInstallsKeep
    <2>3. SecretsShape' /\ AccountsGrow /\ accounts'[Default] # None
      BY <2>1 DEF Effect, AccountsGrow, Grows, SecretsInv, P!PlacesAssumption
    <2> QED BY <2>2, <2>3 DEF SecretsInv
  <1>2. CASE UNCHANGED P!vars
    <2>1. UNCHANGED <<secretOf, secrets, accounts, pc, todo, seen, named, met>>
      BY <1>2 DEF P!vars, P!cluster
    <2>2. SecretsShape' /\ AccountsGrow
      BY <2>1, Unchanged DEF SecretsInv, SecretsShape
    <2>3. ASSUME NEW j \in Installs PROVE Local(j)'
      BY <2>1 DEF SecretsInv, Local, Cleared, Current, Named, Attaching
    <2> QED BY <2>1, <2>2, <2>3 DEF SecretsInv
  <1> QED BY <1>1, <1>2 DEF P!Next

LEMMA SecretsStart ==
  ASSUME NoneIsNone, P!PlacesAssumption
  PROVE  P!Init => SecretsInv
  <1> SUFFICES ASSUME P!Init PROVE SecretsInv
    OBVIOUS
  <1> DEFINE new == [rv |-> 1, pulls |-> {}]
  <1>1. new \in P!Account /\ new # None
    BY DEF P!Account, NoneIsNone
  <1> HIDE DEF new
  <1>2. accounts = [a \in Accounts |-> IF a = Default THEN new ELSE None]
    BY DEF P!Init, new
  <1>3. accounts \in [Accounts -> P!Account \cup {None}] /\ accounts[Default] # None
    BY <1>1, <1>2 DEF P!PlacesAssumption
  <1>4. secrets \in [Secrets -> Nat \cup {None}] /\ secretOf \in [Installs -> Secrets]
    BY DEF P!Init
  <1>5. \A i \in Installs : pc[i] = "getSecret" /\ seen[i] = None /\ named[i] = FALSE
    BY DEF P!Init
  <1>6. SecretsShape
    BY <1>3, <1>4 DEF P!Init, SecretsShape, P!Labels
  <1>7. \A i \in Installs : Local(i)
    BY <1>5 DEF Local, Cleared, Current, Named, Attaching
  <1> QED BY <1>3, <1>6, <1>7 DEF SecretsInv

\* What the theorems take from the invariant.
LEMMA SecretsFollow == SecretsInv => P!Attached
  BY DEF SecretsInv, Local, Named, Attaching, P!Attached, Asked

-----------------------------------------------------------------------------
(* What the types of the pull secrets add: the accounts are listed at most as often as is *)
(* allowed, for an install is not refused before it lists them.                           *)

Read == [name : Accounts \cup {None}, was : P!Account]
Early == {"getSecret", "putSecret", "postSecret", "pre", "install"}

SecretsCounts ==
  /\ \A i \in Installs : seen[i] = None \/ seen[i] \in Read
  /\ tries \in [Installs -> 0 .. MaxTries] /\ faults \in 0 .. MaxFaults /\ met \subseteq Installs
  /\ \A i \in Installs : pc[i] \in Early => tries[i] = 0
  /\ \A i \in Installs : pc[i] = "list" => tries[i] < MaxTries

\* What a step of an install that is not a list does to the counts.
LEMMA CountsFollow ==
  ASSUME P!BoundsAssumption, SecretsShape, SecretsCounts, NEW i \in Installs,
         NEW read \in Read \cup {None}, seen' = seen \/ seen' = [seen EXCEPT ![i] = read],
         tries' = tries, faults' = faults \/ P!Fault, met' \subseteq met \cup {i},
         \/ pc' = pc
         \/ \E label \in P!Labels : /\ P!Goto(i, label)
                                    /\ label \in Early \/ label = "list" => pc[i] \in Early
  PROVE  SecretsCounts'
  <1>1. \A j \in Installs : seen'[j] = None \/ seen'[j] \in Read
    BY DEF SecretsShape, SecretsCounts
  <1>2. faults' \in 0 .. MaxFaults
    BY DEF P!Fault, P!BoundsAssumption, SecretsCounts
  <1>3. \A j \in Installs : (pc'[j] \in Early => pc[j] \in Early) /\
                            (pc'[j] = "list" => pc[j] \in Early \cup {"list"})
    BY DEF SecretsShape, P!Goto, Early
  <1> QED BY <1>1, <1>2, <1>3 DEF SecretsCounts, P!BoundsAssumption

LEMMA ListCounts ==
  ASSUME P!BoundsAssumption, SecretsShape, SecretsCounts, NEW i \in Installs, P!ListAccounts(i)
  PROVE  SecretsCounts'
  <1>1. /\ pc[i] = "list" /\ tries[i] \in 0 .. MaxTries /\ tries[i] < MaxTries /\ MaxTries \in Nat
        /\ tries' = [tries EXCEPT ![i] = @ + 1] /\ seen' = seen
    BY DEF P!ListAccounts, SecretsCounts, P!BoundsAssumption
  <1>2. faults' = faults \/ P!Fault
    BY DEF P!ListAccounts
  <1>3. met' \subseteq met \cup {i}
    BY DEF P!ListAccounts
  <1>4. tries' \in [Installs -> 0 .. MaxTries] /\ tries'[i] = tries[i] + 1
        /\ \A j \in Installs \ {i} : tries'[j] = tries[j]
    BY <1>1 DEF SecretsCounts
  <1>5. \/ pc' = [pc EXCEPT ![i] = "final"]
        \/ pc' = [pc EXCEPT ![i] = "done"]
        \/ pc' = [pc EXCEPT ![i] = "list"] /\ tries'[i] # MaxTries
    BY DEF P!ListAccounts, P!Goto
  <1>6. pc'[i] \notin Early /\ (pc'[i] = "list" => tries'[i] # MaxTries)
        /\ \A j \in Installs \ {i} : pc'[j] = pc[j]
    BY <1>5 DEF SecretsShape, Early
  <1>7. faults' \in 0 .. MaxFaults
    BY <1>2 DEF P!Fault, P!BoundsAssumption, SecretsCounts
  <1> QED BY <1>1, <1>3, <1>4, <1>6, <1>7 DEF SecretsCounts

LEMMA SecretsCounted ==
  ASSUME NoneIsNone, P!PlacesAssumption, P!BoundsAssumption, SecretsInv, SecretsCounts,
         P!Next \/ UNCHANGED P!vars
  PROVE  SecretsCounts'
  <1>1. SecretsShape /\ None \in Read \cup {None} /\ P!Labels = Early \cup {"list", "final", "done", "failed"}
    BY DEF SecretsInv, P!Labels, Early
  <1>2. ASSUME NEW i \in Installs, NEW name \in BOOLEAN, P!SecretEnds(i, name), pc[i] \in Early,
               tries' = tries, faults' = faults \/ P!Fault
        PROVE  SecretsCounts'
    <2>1. /\ seen' = [seen EXCEPT ![i] = None] /\ met' \subseteq met \cup {i}
          /\ P!Goto(i, IF name THEN "pre" ELSE "install")
      BY <1>2 DEF P!SecretEnds
    <2>2. (IF name THEN "pre" ELSE "install") \in P!Labels
      BY DEF P!Labels
    <2> QED BY <1>1, <1>2, <2>1, <2>2, CountsFollow
  <1>3. ASSUME NEW i \in Installs, P!GetSecret(i) PROVE SecretsCounts'
    <2> DEFINE rv == secrets[secretOf[i]]
               label == IF rv = None THEN "postSecret" ELSE "putSecret"
               read == IF rv = None THEN None ELSE [name |-> None, was |-> [rv |-> rv, pulls |-> {}]]
    <2>1. rv \in Nat \cup {None}
      BY <1>1 DEF SecretsShape
    <2>2. /\ pc[i] \in Early /\ tries' = tries
          /\ \/ /\ seen' = [seen EXCEPT ![i] = read] /\ P!Goto(i, label) /\ faults' = faults /\ met' = met
             \/ P!Fault /\ P!SecretEnds(i, FALSE)
      BY <1>3 DEF P!GetSecret, Early
    <2>3. read \in Read \cup {None}
      <3>1. \A n \in Nat : [rv |-> n, pulls |-> {}] \in P!Account
        BY DEF P!Account
      <3>2. \A was \in P!Account : [name |-> None, was |-> was] \in Read
        BY DEF Read
      <3> QED BY <2>1, <3>1, <3>2
    <2>4. label \in P!Labels
      BY DEF P!Labels
    <2> HIDE DEF read, label
    <2> QED BY <1>1, <1>2, <2>2, <2>3, <2>4, CountsFollow
  <1>4. ASSUME NEW i \in Installs, P!PutSecret(i) \/ P!PostSecret(i) PROVE SecretsCounts'
    <2>1. PICK name \in BOOLEAN : P!SecretEnds(i, name)
      BY <1>4 DEF P!PutSecret, P!PostSecret
    <2>2. pc[i] \in Early /\ tries' = tries /\ (faults' = faults \/ P!Fault)
      BY <1>4 DEF P!PutSecret, P!PostSecret, P!Fault, Early
    <2> QED BY <1>2, <2>1, <2>2
  <1>5. ASSUME NEW i \in Installs, P!GetAccount(i) PROVE SecretsCounts'
    <2>1. tries' = tries /\ pc' = pc /\ (faults' = faults \/ P!Fault) /\ met' \subseteq met \cup {i}
      BY <1>5 DEF P!GetAccount, P!Refused
    <2>2. PICK a \in todo[i] :
            \/ accounts[a] # None /\ seen' = [seen EXCEPT ![i] = [name |-> a, was |-> accounts[a]]]
            \/ seen' = [seen EXCEPT ![i] = None]
      BY <1>5 DEF P!GetAccount, P!Visited
    <2>3. accounts[a] # None => [name |-> a, was |-> accounts[a]] \in Read
      <3>1. a \in Accounts /\ accounts[a] \in P!Account \cup {None}
        BY <1>1, <2>2 DEF SecretsShape
      <3> QED BY <3>1 DEF Read
    <2>4. PICK read \in Read \cup {None} : seen' = [seen EXCEPT ![i] = read]
      BY <1>1, <2>2, <2>3
    <2> QED BY <1>1, <2>1, <2>4, CountsFollow
  <1>6. ASSUME NEW i \in Installs, P!PutAccount(i) PROVE SecretsCounts'
    <2>1. tries' = tries /\ pc' = pc /\ (faults' = faults \/ P!Fault) /\ met' \subseteq met \cup {i}
      BY <1>6 DEF P!PutAccount, P!Refused
    <2>2. seen' = [seen EXCEPT ![i] = None]
      BY <1>6 DEF P!PutAccount, P!Visited
    <2> QED BY <1>1, <2>1, <2>2, CountsFollow
  <1>7. ASSUME NEW i \in Installs, P!PreAttached(i) \/ P!Install(i) \/ P!Finished(i) PROVE SecretsCounts'
    <2>1. tries' = tries /\ (faults' = faults \/ P!Fault) /\ met' = met /\ seen' = seen
      BY <1>7 DEF P!PreAttached, P!Install, P!Finished
    <2>2. PICK label \in P!Labels : P!Goto(i, label) /\ (label \in Early \/ label = "list" => pc[i] \in Early)
      <3>1. CASE P!PreAttached(i)
        BY <1>1, <3>1 DEF P!PreAttached, Early
      <3>2. CASE P!Finished(i)
        BY <1>1, <3>2 DEF P!Finished, Early
      <3>3. CASE P!Install(i)
        <4>1. pc[i] \in Early
          BY <3>3 DEF P!Install, Early
        <4>2. P!Goto(i, "list") \/ P!Goto(i, "done") \/ P!Goto(i, "failed")
          BY <3>3 DEF P!Install
        <4> QED BY <1>1, <4>1, <4>2
      <3> QED BY <1>7, <3>1, <3>2, <3>3
    <2> QED BY <1>1, <2>1, <2>2, CountsFollow
  <1>8. CASE UNCHANGED P!vars
    BY <1>8 DEF P!vars, SecretsCounts
  <1> QED BY <1>1, <1>3, <1>4, <1>5, <1>6, <1>7, <1>8, ListCounts DEF P!Next, P!InstallStep

LEMMA SecretsTyped == SecretsInv /\ SecretsCounts => P!TypeOK
  BY DEF SecretsInv, SecretsShape, SecretsCounts, Read, P!TypeOK

-----------------------------------------------------------------------------
(* The catalogue, for any apps, words, terms, repositories and clusters and any *)
(* number of calls and of timers at once.                                       *)

(***************************************************************************)
(* The inductive invariant.  The index is always that of the apps at hand  *)
(* (IndexFollows); a flag that shows something in flight has a call that   *)
(* will clear it (FlagsHaveCalls); and a repository that is not mixed has  *)
(* one sync and then no timer (SoloSync), as every other would have met it *)
(* when it began.                                                          *)
(***************************************************************************)
CatalogCall == [id : Nat, kind : C!Kinds, repo : Repos \cup {None}, waits : 0 .. 2]
DiscoveryKinds == {"installations", "clusters", "repositories", "apps", "releases"}

CatalogShape ==
  /\ apps \subseteq Apps /\ text \in Terms \cup {None}
  /\ loadingAll \in BOOLEAN /\ errors \subseteq Apps \cup {"global"}
  /\ repos \in [Repos -> {None, "synced", "unknown", "failed"}]
  /\ syncing \in [Repos -> {None, "running", "full", "failed"}]
  /\ capable \subseteq CheckedClusters /\ discovering \in BOOLEAN /\ stage \in C!Stages
  /\ calls \subseteq CatalogCall /\ \A c \in calls : c.kind = "sync" => c.repo \in Repos
  /\ \A t \in removals : t.repo \in Repos
  /\ began \in 0 .. MaxCalls /\ faults \in 0 .. MaxFaults /\ mixed \subseteq Repos

IndexFollows == index = C!BUILD_SEARCH_INDEX(apps)

FlagsHaveCalls ==
  /\ loadingAll => \E c \in calls : c.kind \in {"fetch", "apps"}
  /\ discovering \/ stage \notin {"idle", "completed", "error"} =>
       \E c \in calls : c.kind \in DiscoveryKinds

SoloSync ==
  /\ \A c, e \in calls : c.kind = "sync" /\ e.kind = "sync" /\ c.repo = e.repo /\ c.repo \notin mixed => c = e
  /\ \A c \in calls, t \in removals : c.kind = "sync" /\ c.repo = t.repo => c.repo \in mixed

CatalogInv == CatalogShape /\ IndexFollows /\ FlagsHaveCalls /\ SoloSync /\ C!SyncShown

\* The bounds of the instance of CatalogStore.
CatalogBounds == MaxCalls \in Nat /\ MaxFaults \in Nat /\ BuiltIn \subseteq Repos

\* The two changes of a call while it waits.
LEMMA CallForms ==
  ASSUME NEW c \in CatalogCall
  PROVE  /\ \A kind \in C!Kinds : /\ [c EXCEPT !.kind = kind] \in CatalogCall
                                  /\ [c EXCEPT !.kind = kind].kind = kind
                                  /\ [c EXCEPT !.kind = kind].repo = c.repo
         /\ [c EXCEPT !.waits = 1] \in CatalogCall
         /\ [c EXCEPT !.waits = 1].kind = c.kind /\ [c EXCEPT !.waits = 1].repo = c.repo
  <1>1. /\ c = [id |-> c.id, kind |-> c.kind, repo |-> c.repo, waits |-> c.waits]
        /\ c.id \in Nat /\ c.kind \in C!Kinds /\ c.repo \in Repos \cup {None} /\ c.waits \in 0 .. 2
    BY DEF CatalogCall
  <1>2. \A kind \in C!Kinds, n \in 0 .. 2 :
          [id |-> c.id, kind |-> kind, repo |-> c.repo, waits |-> n] \in CatalogCall
    BY <1>1 DEF CatalogCall
  <1>3. ASSUME NEW kind \in C!Kinds
        PROVE  /\ [c EXCEPT !.kind = kind] \in CatalogCall
               /\ [c EXCEPT !.kind = kind].kind = kind
               /\ [c EXCEPT !.kind = kind].repo = c.repo
    <2>1. [c EXCEPT !.kind = kind] = [id |-> c.id, kind |-> kind, repo |-> c.repo, waits |-> c.waits]
      BY <1>1
    <2>2. [c EXCEPT !.kind = kind] \in CatalogCall
      BY <1>1, <1>2, <2>1
    <2> QED BY <2>1, <2>2
  <1>4. /\ [c EXCEPT !.waits = 1] \in CatalogCall
        /\ [c EXCEPT !.waits = 1].kind = c.kind /\ [c EXCEPT !.waits = 1].repo = c.repo
    <2>1. [c EXCEPT !.waits = 1] = [id |-> c.id, kind |-> c.kind, repo |-> c.repo, waits |-> 1]
      BY <1>1
    <2>2. [id |-> c.id, kind |-> c.kind, repo |-> c.repo, waits |-> 1] \in CatalogCall
      <3>1. 1 \in 0 .. 2
        OBVIOUS
      <3> QED BY <1>1, <3>1 DEF CatalogCall
    <2> QED BY <2>1, <2>2
  <1> QED BY <1>3, <1>4

LEMMA NewCall ==
  ASSUME CatalogShape, NEW kind \in C!Kinds, NEW repo \in Repos \cup {None}, NEW n \in 0 .. 2
  PROVE  /\ C!Call(kind, repo, n) \in CatalogCall
         /\ C!Call(kind, repo, n).kind = kind /\ C!Call(kind, repo, n).repo = repo
  <1>1. began + 1 \in Nat
    BY DEF CatalogShape
  <1> QED BY <1>1 DEF C!Call, CatalogCall

-----------------------------------------------------------------------------
\* The index is built anew whenever the apps change.
LEMMA IndexKept ==
  ASSUME IndexFollows, C!Next \/ UNCHANGED C!vars
  PROVE  IndexFollows'
  <1>1. CASE UNCHANGED <<apps, index>>
    BY <1>1 DEF IndexFollows, C!BUILD_SEARCH_INDEX
  <1>2. ASSUME NEW list, C!SET_APPS(list) PROVE IndexFollows'
    BY <1>2 DEF IndexFollows, C!SET_APPS, C!BUILD_SEARCH_INDEX
  <1>3. CASE C!clearCache
    BY <1>3 DEF C!clearCache, IndexFollows, C!BUILD_SEARCH_INDEX
  <1>4. ASSUME NEW c \in calls, C!CallStep(c) PROVE IndexFollows'
    <2>1. CASE C!FetchAnswered(c) \/ C!AllAppsFetched(c)
      BY <1>2, <2>1 DEF C!FetchAnswered, C!AllAppsFetched, C!AppsAnswered
    <2>2. CASE ~(C!FetchAnswered(c) \/ C!AllAppsFetched(c))
      BY <1>1, <1>4, <2>2
         DEF C!CallStep, C!FetchFailed, C!DiscoveryFailed, C!AppsFailed, C!SyncWaited, C!SyncEnds,
             C!ClustersFetched, C!RepositoriesFetched, C!Discovered, C!catalog
    <2> QED BY <2>1, <2>2
  <1>5. ASSUME NEW r, C!fetchApp(r) \/ C!searchApps(r) \/ C!syncRepository(r)
                      \/ C!refreshClusterCapabilities(r) \/ C!RemovalFires(r)
        PROVE  IndexFollows'
    BY <1>1, <1>5 DEF C!fetchApp, C!searchApps, C!syncRepository, C!refreshClusterCapabilities,
                      C!RemovalFires, C!catalog
  <1>6. CASE C!fetchAllApps \/ C!fetchRepositories \/ C!discoverInstallations \/ C!discoverAllData
    BY <1>1, <1>6 DEF C!fetchAllApps, C!fetchRepositories, C!discoverInstallations,
                      C!discoverAllData, C!catalog
  <1>7. CASE UNCHANGED C!vars
    BY <1>1, <1>7 DEF C!vars, C!catalog
  <1> QED BY <1>3, <1>4, <1>5, <1>6, <1>7 DEF C!Next

\* A call that begins, goes on or ends leaves typed calls, and the syncs among them a repository.
LEMMA CallsStayTyped ==
  ASSUME CatalogShape, CatalogBounds
  PROVE  /\ \A kind \in C!Kinds, repo \in Repos \cup {None}, n \in 0 .. 2 :
              C!Begin(kind, repo, n) /\ (kind = "sync" => repo \in Repos) =>
                /\ calls' \subseteq CatalogCall /\ (\A c \in calls' : c.kind = "sync" => c.repo \in Repos)
                /\ began' \in 0 .. MaxCalls
         /\ \A c \in calls, kind \in C!Kinds \ {"sync"} : C!GoesOn(c, kind) =>
              calls' \subseteq CatalogCall /\ \A e \in calls' : e.kind = "sync" => e.repo \in Repos
         /\ \A c \in calls : C!Ends(c) =>
              calls' \subseteq CatalogCall /\ \A e \in calls' : e.kind = "sync" => e.repo \in Repos
  <1>1. ASSUME NEW kind \in C!Kinds, NEW repo \in Repos \cup {None}, NEW n \in 0 .. 2,
               C!Begin(kind, repo, n), kind = "sync" => repo \in Repos
        PROVE  /\ calls' \subseteq CatalogCall /\ (\A c \in calls' : c.kind = "sync" => c.repo \in Repos)
               /\ began' \in 0 .. MaxCalls
    <2>1. calls' = calls \cup {C!Call(kind, repo, n)} /\ began' = began + 1 /\ began < MaxCalls
      BY <1>1 DEF C!Begin
    <2>2. /\ C!Call(kind, repo, n) \in CatalogCall
          /\ C!Call(kind, repo, n).kind = kind /\ C!Call(kind, repo, n).repo = repo
      BY NewCall
    <2> QED BY <1>1, <2>1, <2>2 DEF CatalogShape, CatalogBounds
  <1>2. ASSUME NEW c \in calls, NEW kind \in C!Kinds \ {"sync"}, C!GoesOn(c, kind)
        PROVE  calls' \subseteq CatalogCall /\ \A e \in calls' : e.kind = "sync" => e.repo \in Repos
    <2> DEFINE moved == [c EXCEPT !.kind = kind]
    <2>1. c \in CatalogCall /\ calls' = (calls \ {c}) \cup {moved}
      BY <1>2 DEF CatalogShape, C!GoesOn
    <2>2. moved \in CatalogCall /\ moved.kind = kind
      BY <2>1, CallForms
    <2> HIDE DEF moved
    <2> QED BY <2>1, <2>2 DEF CatalogShape
  <1>3. ASSUME NEW c \in calls, C!Ends(c)
        PROVE  calls' \subseteq CatalogCall /\ \A e \in calls' : e.kind = "sync" => e.repo \in Repos
    BY <1>3 DEF CatalogShape, C!Ends
  <1> QED BY <1>1, <1>2, <1>3

\* The types of everything but the calls, after a step that ends, begins or moves one.
LEMMA CatalogTypesKept ==
  ASSUME CatalogShape, CatalogBounds, C!Next \/ UNCHANGED C!vars
  PROVE  CatalogShape'
  <1>1. /\ "fetch" \in C!Kinds /\ "sync" \in C!Kinds /\ {"installations", "clusters"} \subseteq C!Kinds
        /\ {"repositories", "apps", "releases"} \subseteq C!Kinds \ {"sync"} /\ {0, 2} \subseteq 0 .. 2
    BY DEF C!Kinds
  <1>2. ASSUME NEW list \in SUBSET Repos, C!SET_REPOSITORIES(list)
        PROVE  repos' \in [Repos -> {None, "synced", "unknown", "failed"}]
    BY <1>2 DEF C!SET_REPOSITORIES
  <1>3. CASE C!fetchAllApps
    <2>1. C!Begin("fetch", None, 0)
      BY <1>3 DEF C!fetchAllApps
    <2> QED BY <1>1, <1>3, <2>1, CallsStayTyped
            DEF C!fetchAllApps, CatalogShape, C!sources, C!progress
  <1>4. CASE C!clearCache
    BY <1>4 DEF C!clearCache, CatalogShape, C!sources, C!progress
  <1>5. CASE C!fetchRepositories
    <2>1. repos' \in [Repos -> {None, "synced", "unknown", "failed"}]
      BY <1>2, <1>5 DEF C!fetchRepositories, CatalogBounds
    <2> QED BY <1>5, <2>1 DEF C!fetchRepositories, CatalogShape, C!catalog, C!progress
  <1>6. CASE C!discoverInstallations
    <2>1. C!Begin("installations", None, 0)
      BY <1>6 DEF C!discoverInstallations
    <2> QED BY <1>1, <1>6, <2>1, CallsStayTyped
            DEF C!discoverInstallations, C!SetProgress, C!Stages, CatalogShape, C!sources, C!catalog
  <1>7. CASE C!discoverAllData
    <2>1. C!Begin("clusters", None, 0)
      BY <1>7 DEF C!discoverAllData
    <2> QED BY <1>1, <1>7, <2>1, CallsStayTyped
            DEF C!discoverAllData, C!SetProgress, C!Stages, CatalogShape, C!sources, C!catalog
  <1>8. ASSUME NEW a \in Apps, C!fetchApp(a) PROVE CatalogShape'
    BY <1>8 DEF C!fetchApp, CatalogShape, C!sources, C!progress
  <1>9. ASSUME NEW t \in Terms, C!searchApps(t) PROVE CatalogShape'
    BY <1>9 DEF C!searchApps, CatalogShape, C!sources, C!progress
  <1>10. ASSUME NEW r \in Repos, C!syncRepository(r) PROVE CatalogShape'
    <2>1. C!Begin("sync", r, 2) /\ syncing' = [syncing EXCEPT ![r] = "running"]
          /\ mixed' \subseteq mixed \cup {r}
          /\ UNCHANGED <<apps, text, loadingAll, errors, repos, capable, removals, discovering, stage, faults>>
      BY <1>10 DEF C!syncRepository, C!catalog, C!progress
    <2>2. calls' \subseteq CatalogCall /\ (\A c \in calls' : c.kind = "sync" => c.repo \in Repos)
          /\ began' \in 0 .. MaxCalls
      BY <1>1, <2>1, CallsStayTyped
    <2> QED BY <2>1, <2>2 DEF CatalogShape
  <1>11. ASSUME NEW cl \in CheckedClusters, C!refreshClusterCapabilities(cl) PROVE CatalogShape'
    BY <1>11 DEF C!refreshClusterCapabilities, CatalogShape, C!catalog, C!progress
  <1>12. ASSUME NEW t \in removals, C!RemovalFires(t) PROVE CatalogShape'
    BY <1>12 DEF C!RemovalFires, CatalogShape, C!catalog, C!progress
  <1>13. ASSUME NEW c \in calls, C!CallStep(c) PROVE CatalogShape'
    <2>1. CASE C!FetchAnswered(c)
      BY <2>1, CallsStayTyped DEF C!FetchAnswered, C!AppsAnswered, C!SET_APPS, CatalogShape,
                                  C!sources, C!progress
    <2>2. ASSUME C!AppsFailed(c), discovering' \in BOOLEAN, stage' \in C!Stages PROVE CatalogShape'
      <3>1. C!Ends(c) /\ faults' = faults + 1 /\ faults < MaxFaults /\ loadingAll' = FALSE
            /\ errors' = errors \cup {"global"}
            /\ UNCHANGED <<apps, text, repos, syncing, capable, removals, mixed, began>>
        BY <2>2 DEF C!AppsFailed, C!sources
      <3>2. calls' \subseteq CatalogCall /\ \A e \in calls' : e.kind = "sync" => e.repo \in Repos
        BY <3>1, CallsStayTyped
      <3>3. faults' \in 0 .. MaxFaults
        BY <3>1 DEF CatalogShape, CatalogBounds
      <3> QED BY <2>2, <3>1, <3>2, <3>3 DEF CatalogShape
    <2>3. CASE C!FetchFailed(c)
      BY <2>2, <2>3 DEF C!FetchFailed, C!progress, CatalogShape
    <2>4. CASE C!DiscoveryFailed(c)
      BY <2>2, <2>4 DEF C!DiscoveryFailed, C!SetProgress, C!Stages
    <2>5. CASE C!SyncWaited(c)
      <3>1. /\ calls' = (calls \ {c}) \cup {[c EXCEPT !.waits = 1]}
            /\ syncing' = [syncing EXCEPT ![c.repo] = IF @ = "full" THEN "running" ELSE @]
            /\ UNCHANGED <<apps, text, loadingAll, errors, repos, capable, removals, mixed,
                           discovering, stage, began, faults>>
        BY <2>5 DEF C!SyncWaited, C!catalog, C!progress
      <3>2. calls' \subseteq CatalogCall /\ \A e \in calls' : e.kind = "sync" => e.repo \in Repos
        <4> DEFINE moved == [c EXCEPT !.waits = 1]
        <4>1. c \in CatalogCall /\ calls' = (calls \ {c}) \cup {moved}
          BY <3>1 DEF CatalogShape
        <4>2. moved \in CatalogCall /\ moved.kind = c.kind /\ moved.repo = c.repo
          BY <4>1, CallForms
        <4> HIDE DEF moved
        <4> QED BY <4>1, <4>2 DEF CatalogShape
      <3> QED BY <3>1, <3>2 DEF CatalogShape
    <2>6. CASE C!SyncEnds(c)
      <3>1. c.repo \in Repos
        BY <2>6 DEF C!SyncEnds, CatalogShape
      <3>2. C!Ends(c) /\ UNCHANGED <<apps, text, loadingAll, errors, capable, mixed,
                                     discovering, stage, began, faults>>
        BY <2>6 DEF C!SyncEnds, C!catalog, C!progress
      <3>3. /\ syncing' \in [Repos -> {None, "running", "full", "failed"}]
            /\ repos' \in [Repos -> {None, "synced", "unknown", "failed"}]
            /\ \A t \in removals' : t.repo \in Repos
        BY <2>6, <3>1 DEF C!SyncEnds, CatalogShape
      <3>4. calls' \subseteq CatalogCall /\ \A e \in calls' : e.kind = "sync" => e.repo \in Repos
        BY <3>2, CallsStayTyped
      <3> QED BY <3>2, <3>3, <3>4 DEF CatalogShape
    <2>7. CASE C!ClustersFetched(c)
      <3>1. repos' \in [Repos -> {None, "synced", "unknown", "failed"}]
        BY <1>2, <2>7 DEF C!ClustersFetched
      <3> QED BY <1>1, <2>7, <3>1, CallsStayTyped
              DEF C!ClustersFetched, C!SetProgress, C!Stages, CatalogShape, C!catalog
    <2>8. CASE C!RepositoriesFetched(c)
      BY <1>1, <2>8, CallsStayTyped
         DEF C!RepositoriesFetched, C!SetProgress, C!Stages, CatalogShape, C!sources
    <2>9. CASE C!AllAppsFetched(c)
      BY <1>1, <2>9, CallsStayTyped
         DEF C!AllAppsFetched, C!AppsAnswered, C!SET_APPS, C!SetProgress, C!Stages, CatalogShape, C!sources
    <2>10. CASE C!Discovered(c)
      BY <2>10, CallsStayTyped
         DEF C!Discovered, C!SetProgress, C!Stages, CatalogShape, C!sources, C!catalog
    <2> QED BY <1>13, <2>1, <2>3, <2>4, <2>5, <2>6, <2>7, <2>8, <2>9, <2>10 DEF C!CallStep
  <1>14. CASE UNCHANGED C!vars
    BY <1>14 DEF C!vars, C!catalog, C!sources, C!progress, CatalogShape
  <1> QED BY <1>3, <1>4, <1>5, <1>6, <1>7, <1>8, <1>9, <1>10, <1>11, <1>12, <1>13, <1>14 DEF C!Next

-----------------------------------------------------------------------------
\* Of each kind of call there is one as before unless a call of that kind ended or went on.
LEMMA KindsAfter ==
  ASSUME CatalogShape
  PROVE  /\ \A kind \in C!Kinds, repo \in Repos \cup {None}, n \in 0 .. 2 :
              C!Begin(kind, repo, n) => calls \subseteq calls' /\ \E e \in calls' : e.kind = kind
         /\ \A c \in calls, kind \in C!Kinds : C!GoesOn(c, kind) =>
              (\A e \in calls : e \in calls' \/ e = c) /\ \E e \in calls' : e.kind = kind
  <1>1. ASSUME NEW kind \in C!Kinds, NEW repo \in Repos \cup {None}, NEW n \in 0 .. 2, C!Begin(kind, repo, n)
        PROVE  calls \subseteq calls' /\ \E e \in calls' : e.kind = kind
    BY <1>1, NewCall DEF C!Begin
  <1>2. ASSUME NEW c \in calls, NEW kind \in C!Kinds, C!GoesOn(c, kind)
        PROVE  (\A e \in calls : e \in calls' \/ e = c) /\ \E e \in calls' : e.kind = kind
    <2> DEFINE moved == [c EXCEPT !.kind = kind]
    <2>1. c \in CatalogCall /\ calls' = (calls \ {c}) \cup {moved}
      BY <1>2 DEF CatalogShape, C!GoesOn
    <2>2. moved.kind = kind
      BY <2>1, CallForms
    <2> HIDE DEF moved
    <2> QED BY <2>1, <2>2
  <1> QED BY <1>1, <1>2

\* A step that raises a flag leaves a call that will clear it, and one that ends or moves
\* such a call clears the flag or leaves another.
LEMMA FlagsKept ==
  ASSUME CatalogShape, FlagsHaveCalls, C!Next \/ UNCHANGED C!vars
  PROVE  FlagsHaveCalls'
  <1>1. /\ "fetch" \in C!Kinds /\ "sync" \in C!Kinds /\ DiscoveryKinds \subseteq C!Kinds
        /\ {"installations", "clusters", "repositories", "apps", "releases"} = DiscoveryKinds
        /\ {0, 2} \subseteq 0 .. 2
    BY DEF C!Kinds, DiscoveryKinds
  <1>2. ASSUME UNCHANGED <<loadingAll, discovering, stage>>, calls \subseteq calls' PROVE FlagsHaveCalls'
    BY <1>2 DEF FlagsHaveCalls
  <1>3. CASE C!fetchAllApps
    <2>1. C!Begin("fetch", None, 0) /\ UNCHANGED <<discovering, stage>>
      BY <1>3 DEF C!fetchAllApps, C!progress
    <2>2. calls \subseteq calls' /\ \E e \in calls' : e.kind = "fetch"
      BY <1>1, <2>1, KindsAfter
    <2> QED BY <2>1, <2>2 DEF FlagsHaveCalls
  <1>4. CASE C!clearCache
    BY <1>4 DEF C!clearCache, FlagsHaveCalls, C!progress
  <1>5. ASSUME NEW kind \in {"installations", "clusters"}, C!Begin(kind, None, 0), UNCHANGED loadingAll
        PROVE  FlagsHaveCalls'
    <2>1. calls \subseteq calls' /\ \E e \in calls' : e.kind = kind
      BY <1>1, <1>5, KindsAfter
    <2>2. \E e \in calls' : e.kind \in DiscoveryKinds
      BY <1>1, <2>1
    <2> QED BY <1>5, <2>1, <2>2 DEF FlagsHaveCalls
  <1>6. CASE C!discoverInstallations \/ C!discoverAllData
    BY <1>5, <1>6 DEF C!discoverInstallations, C!discoverAllData, C!catalog
  <1>7. ASSUME NEW x, C!fetchApp(x) \/ C!searchApps(x) \/ C!refreshClusterCapabilities(x) \/ C!RemovalFires(x)
        PROVE  FlagsHaveCalls'
    BY <1>2, <1>7 DEF C!fetchApp, C!searchApps, C!refreshClusterCapabilities, C!RemovalFires,
                      C!catalog, C!progress
  <1>8. CASE C!fetchRepositories \/ UNCHANGED C!vars
    BY <1>2, <1>8 DEF C!fetchRepositories, C!vars, C!catalog, C!progress
  <1>9. ASSUME NEW r \in Repos, C!syncRepository(r) PROVE FlagsHaveCalls'
    <2>1. calls \subseteq calls' /\ UNCHANGED <<loadingAll, discovering, stage>>
      BY <1>9 DEF C!syncRepository, C!Begin, C!catalog, C!progress
    <2> QED BY <1>2, <2>1
  <1>10. ASSUME NEW c \in calls, C!CallStep(c) PROVE FlagsHaveCalls'
    <2>1. ASSUME c.kind = "fetch", C!Ends(c), loadingAll' = FALSE, UNCHANGED <<discovering, stage>>
          PROVE  FlagsHaveCalls'
      BY <2>1 DEF FlagsHaveCalls, C!Ends, DiscoveryKinds
    <2>2. CASE C!FetchAnswered(c) \/ C!FetchFailed(c)
      BY <2>1, <2>2 DEF C!FetchAnswered, C!AppsAnswered, C!FetchFailed, C!AppsFailed, C!progress
    <2>3. CASE C!DiscoveryFailed(c)
      BY <2>3 DEF C!DiscoveryFailed, C!AppsFailed, C!SetProgress, FlagsHaveCalls
    <2>4. CASE C!Discovered(c)
      <3>1. /\ calls' = calls \ {c} /\ c.kind \notin {"fetch", "apps"} /\ loadingAll' = loadingAll
            /\ discovering' = FALSE /\ stage' = "completed"
        BY <2>4 DEF C!Discovered, C!Ends, C!SetProgress, C!catalog
      <3> QED BY <3>1 DEF FlagsHaveCalls
    <2>5. CASE C!SyncWaited(c) \/ C!SyncEnds(c)
      <3>1. c.kind = "sync" /\ calls \ {c} \subseteq calls' /\ UNCHANGED <<loadingAll, discovering, stage>>
        BY <2>5 DEF C!SyncWaited, C!SyncEnds, C!Ends, C!catalog, C!progress
      <3> QED BY <3>1 DEF FlagsHaveCalls, DiscoveryKinds
    <2>6. CASE C!ClustersFetched(c)
      <3>1. C!GoesOn(c, "repositories") /\ c.kind = "clusters" /\ UNCHANGED loadingAll
        BY <2>6 DEF C!ClustersFetched, C!catalog
      <3>2. (\A e \in calls : e \in calls' \/ e = c) /\ \E e \in calls' : e.kind = "repositories"
        BY <1>1, <3>1, KindsAfter
      <3>3. \E e \in calls' : e.kind \in DiscoveryKinds
        BY <1>1, <3>2
      <3> QED BY <3>1, <3>2, <3>3 DEF FlagsHaveCalls
    <2>7. CASE C!RepositoriesFetched(c)
      <3>1. C!GoesOn(c, "apps")
        BY <2>7 DEF C!RepositoriesFetched
      <3>2. \E e \in calls' : e.kind = "apps"
        BY <1>1, <3>1, KindsAfter
      <3> QED BY <1>1, <3>2 DEF FlagsHaveCalls
    <2>8. CASE C!AllAppsFetched(c)
      <3>1. C!GoesOn(c, "releases") /\ loadingAll' = FALSE
        BY <2>8 DEF C!AllAppsFetched, C!AppsAnswered
      <3>2. \E e \in calls' : e.kind = "releases"
        BY <1>1, <3>1, KindsAfter
      <3> QED BY <1>1, <3>1, <3>2 DEF FlagsHaveCalls
    <2> QED BY <1>10, <2>2, <2>3, <2>4, <2>5, <2>6, <2>7, <2>8 DEF C!CallStep
  <1> QED BY <1>3, <1>4, <1>6, <1>7, <1>8, <1>9, <1>10 DEF C!Next

-----------------------------------------------------------------------------
\* The syncs stay as they are, or one goes on or ends, and the operations of other
\* repositories, and what overlapped, with them.
LEMMA SyncsUndisturbed ==
  ASSUME SoloSync, C!SyncShown, UNCHANGED <<syncing, removals, mixed>>,
         \A e \in calls' : e.kind = "sync" => e \in calls
  PROVE  SoloSync' /\ C!SyncShown'
  BY DEF SoloSync, C!SyncShown

LEMMA SyncBegins ==
  ASSUME CatalogShape, SoloSync, C!SyncShown, NEW r \in Repos, C!syncRepository(r)
  PROVE  SoloSync' /\ C!SyncShown'
  <1> DEFINE new == C!Call("sync", r, 2)
  <1>1. /\ calls' = calls \cup {new} /\ syncing' = [syncing EXCEPT ![r] = "running"]
        /\ mixed' = (IF C!Syncs(r) THEN mixed \cup {r} ELSE mixed) /\ removals' = removals
    BY DEF C!syncRepository, C!Begin
  <1>2. new.repo = r
    BY DEF C!Call
  <1> HIDE DEF new
  <1>3. /\ \A e \in calls : e.repo = r => r \in mixed'
        /\ \A t \in removals : t.repo = r => r \in mixed'
    BY <1>1 DEF C!Syncs
  <1>4. syncing'[r] = "running" /\ \A s \in Repos \ {r} : syncing'[s] = syncing[s]
    BY <1>1 DEF CatalogShape
  <1>5. SoloSync'
    BY <1>1, <1>2, <1>3 DEF SoloSync
  <1>6. C!SyncShown'
    BY <1>1, <1>2, <1>4 DEF C!SyncShown, CatalogShape
  <1> QED BY <1>5, <1>6

LEMMA SyncGoesOn ==
  ASSUME CatalogShape, SoloSync, C!SyncShown, NEW c \in calls, C!SyncWaited(c)
  PROVE  SoloSync' /\ C!SyncShown'
  <1> DEFINE moved == [c EXCEPT !.waits = 1]
  <1>1. /\ calls' = (calls \ {c}) \cup {moved} /\ UNCHANGED <<removals, mixed>>
        /\ syncing' = [syncing EXCEPT ![c.repo] = IF @ = "full" THEN "running" ELSE @]
        /\ c.kind = "sync" /\ c.repo \in Repos /\ c \in CatalogCall
    BY DEF C!SyncWaited, CatalogShape
  <1>2. moved.kind = "sync" /\ moved.repo = c.repo
    BY <1>1, CallForms
  <1> HIDE DEF moved
  <1>3. \A s \in Repos : syncing[s] = "running" => syncing'[s] = "running"
    BY <1>1 DEF CatalogShape
  <1>4. SoloSync'
    BY <1>1, <1>2 DEF SoloSync
  <1>5. C!SyncShown'
    BY <1>1, <1>2, <1>3 DEF C!SyncShown, CatalogShape
  <1> QED BY <1>4, <1>5

LEMMA SyncIsOver ==
  ASSUME CatalogShape, SoloSync, C!SyncShown, NEW c \in calls, C!SyncEnds(c)
  PROVE  SoloSync' /\ C!SyncShown'
  <1>1. /\ calls' = calls \ {c} /\ mixed' = mixed /\ c.kind = "sync" /\ c.repo \in Repos
        /\ \A s \in Repos \ {c.repo} : syncing'[s] = syncing[s]
        /\ \A t \in removals' : t \in removals \/ t.repo = c.repo
    BY DEF C!SyncEnds, C!Ends, CatalogShape
  <1>2. \A e \in calls' : e.kind = "sync" /\ e.repo = c.repo => e.repo \in mixed
    BY <1>1 DEF SoloSync
  <1>3. SoloSync'
    BY <1>1, <1>2 DEF SoloSync
  <1>4. C!SyncShown'
    BY <1>1, <1>2 DEF C!SyncShown, CatalogShape
  <1> QED BY <1>3, <1>4

LEMMA SyncIsRemoved ==
  ASSUME CatalogShape, SoloSync, C!SyncShown, NEW t \in removals, C!RemovalFires(t)
  PROVE  SoloSync' /\ C!SyncShown'
  <1>1. /\ calls' = calls /\ mixed' = mixed /\ removals' = removals \ {t}
        /\ \A s \in Repos \ {t.repo} : syncing'[s] = syncing[s]
    BY DEF C!RemovalFires, CatalogShape
  <1> QED BY <1>1 DEF SoloSync, C!SyncShown, CatalogShape

LEMMA SyncsKept ==
  ASSUME CatalogShape, SoloSync, C!SyncShown, C!Next \/ UNCHANGED C!vars
  PROVE  SoloSync' /\ C!SyncShown'
  <1>1. {"fetch", "installations", "clusters", "repositories", "apps", "releases"} \subseteq C!Kinds
        /\ 0 \in 0 .. 2
    BY DEF C!Kinds
  <1>2. ASSUME NEW kind \in C!Kinds \ {"sync"}, C!Begin(kind, None, 0), UNCHANGED <<syncing, removals, mixed>>
        PROVE  SoloSync' /\ C!SyncShown'
    <2>1. C!Call(kind, None, 0).kind = kind
      BY DEF C!Call
    <2>2. \A e \in calls' : e.kind = "sync" => e \in calls
      BY <1>2, <2>1 DEF C!Begin
    <2> QED BY <1>2, <2>2, SyncsUndisturbed
  <1>3. ASSUME NEW c \in calls, NEW kind \in C!Kinds \ {"sync"}, C!GoesOn(c, kind),
               UNCHANGED <<syncing, removals, mixed>>
        PROVE  SoloSync' /\ C!SyncShown'
    <2> DEFINE moved == [c EXCEPT !.kind = kind]
    <2>1. c \in CatalogCall /\ calls' = (calls \ {c}) \cup {moved}
      BY <1>3 DEF CatalogShape, C!GoesOn
    <2>2. moved.kind = kind
      BY <2>1, CallForms
    <2> HIDE DEF moved
    <2> QED BY <1>3, <2>1, <2>2, SyncsUndisturbed
  <1>4. CASE C!fetchAllApps \/ C!discoverInstallations \/ C!discoverAllData
    BY <1>1, <1>2, <1>4 DEF C!fetchAllApps, C!discoverInstallations, C!discoverAllData, C!sources
  <1>5. ASSUME NEW x, C!fetchApp(x) \/ C!searchApps(x) \/ C!refreshClusterCapabilities(x)
        PROVE  SoloSync' /\ C!SyncShown'
    BY <1>5, SyncsUndisturbed DEF C!fetchApp, C!searchApps, C!refreshClusterCapabilities, C!sources
  <1>6. CASE C!clearCache \/ C!fetchRepositories \/ UNCHANGED C!vars
    BY <1>6, SyncsUndisturbed DEF C!clearCache, C!fetchRepositories, C!vars, C!sources
  <1>7. ASSUME NEW c \in calls, C!CallStep(c) PROVE SoloSync' /\ C!SyncShown'
    <2>1. CASE C!ClustersFetched(c) \/ C!RepositoriesFetched(c) \/ C!AllAppsFetched(c)
      BY <1>1, <1>3, <2>1 DEF C!ClustersFetched, C!RepositoriesFetched, C!AllAppsFetched, C!sources
    <2>2. CASE C!FetchAnswered(c) \/ C!FetchFailed(c) \/ C!DiscoveryFailed(c) \/ C!Discovered(c)
      BY <2>2, SyncsUndisturbed DEF C!FetchAnswered, C!FetchFailed, C!DiscoveryFailed, C!Discovered,
                                    C!AppsFailed, C!Ends, C!sources
    <2> QED BY <1>7, <2>1, <2>2, SyncGoesOn, SyncIsOver DEF C!CallStep
  <1> QED BY <1>4, <1>5, <1>6, <1>7, SyncBegins, SyncIsRemoved DEF C!Next

-----------------------------------------------------------------------------
LEMMA CatalogStep ==
  ASSUME CatalogBounds
  PROVE  CatalogInv /\ (C!Next \/ UNCHANGED C!vars) => CatalogInv'
  BY CatalogTypesKept, IndexKept, FlagsKept, SyncsKept DEF CatalogInv

LEMMA CatalogStart ==
  ASSUME CatalogBounds
  PROVE  C!Init => CatalogInv
  <1> SUFFICES ASSUME C!Init PROVE CatalogInv
    OBVIOUS
  <1>1. CatalogShape
    <2>1. /\ repos \in [Repos -> {None, "synced", "unknown", "failed"}]
          /\ syncing \in [Repos -> {None, "running", "full", "failed"}]
      BY DEF C!Init
    <2>2. began \in 0 .. MaxCalls /\ faults \in 0 .. MaxFaults
      BY DEF C!Init, CatalogBounds
    <2>3. loadingAll \in BOOLEAN /\ discovering \in BOOLEAN /\ stage \in C!Stages
      BY DEF C!Init, C!Stages
    <2>4. /\ apps = {} /\ text = None /\ errors = {} /\ capable = {} /\ calls = {}
          /\ removals = {} /\ mixed = {}
      BY DEF C!Init
    <2> QED BY <2>1, <2>2, <2>3, <2>4 DEF CatalogShape
  <1>2. IndexFollows
    BY DEF C!Init, IndexFollows, C!BUILD_SEARCH_INDEX
  <1>3. FlagsHaveCalls /\ SoloSync /\ C!SyncShown
    BY DEF C!Init, FlagsHaveCalls, SoloSync, C!SyncShown
  <1> QED BY <1>1, <1>2, <1>3 DEF CatalogInv

\* Both searches look for the text in the words of an app, one of them by the index.
LEMMA SearchesFollow ==
  ASSUME C!CatalogAssumption, CatalogInv
  PROVE  C!SearchesAgree
  <1> SUFFICES ASSUME text # None
               PROVE  /\ C!searchResults \subseteq C!filteredApps
                      /\ \A a \in C!filteredApps \ C!searchResults : Indexed[a] \cap Hits[text] = {}
    BY DEF C!SearchesAgree
  <1>1. Hits[text] \subseteq Words /\ \A a \in Apps : Indexed[a] \subseteq Words
    BY DEF C!CatalogAssumption, CatalogInv, CatalogShape
  <1>2. \A a \in apps : a \in C!searchResults <=> \E w \in Words : w \in Hits[text] /\ w \in Indexed[a]
    <2>1. \A a \in apps, w \in Words : <<w, a>> \in index <=> w \in Indexed[a]
      BY DEF CatalogInv, IndexFollows, C!BUILD_SEARCH_INDEX
    <2> QED BY <2>1 DEF C!searchResults, C!Includes
  <1>3. \A a \in apps : a \in C!filteredApps <=> \E w \in Indexed[a] \cup Short[a] : w \in Hits[text]
    BY DEF C!filteredApps, C!Includes
  <1>4. C!searchResults \subseteq apps /\ C!filteredApps \subseteq apps /\ apps \subseteq Apps
    BY DEF C!searchResults, C!filteredApps, CatalogInv, CatalogShape
  <1> QED BY <1>1, <1>2, <1>3, <1>4

LEMMA CatalogFollows ==
  ASSUME C!CatalogAssumption, CatalogInv
  PROVE  C!TypeOK /\ C!SearchesAgree /\ C!QuietWhenIdle /\ C!SyncShown
  <1>1. C!QuietWhenIdle
    BY DEF CatalogInv, FlagsHaveCalls, C!QuietWhenIdle
  <1>2. index \subseteq Words \X Apps
    BY DEF CatalogInv, CatalogShape, IndexFollows, C!BUILD_SEARCH_INDEX
  <1>3. C!TypeOK
    BY <1>2 DEF CatalogInv, CatalogShape, CatalogCall, C!TypeOK
  <1> QED BY <1>1, <1>3, SearchesFollow DEF CatalogInv

-----------------------------------------------------------------------------
(* The three stores together. *)

StoresInv ==
  /\ part = "records" => RecordsInv /\ RecordsCounts
  /\ part = "catalog" => CatalogInv
  /\ part = "secrets" => SecretsInv /\ SecretsCounts

LEMMA StoresStart == Init => StoresInv
  <1> SUFFICES ASSUME Init PROVE StoresInv
    OBVIOUS
  <1>1. CASE StoresInit
    <2>1. ASSUME part = "records", S!Init PROVE RecordsInv /\ RecordsCounts
      <3>1. RecordsCounts
        BY <2>1, ServicesAssumption DEF S!Init, RecordsCounts, S!BoundsAssumption
      <3> QED BY <2>1, <3>1, RecordsStart, ServicesAssumption
    <2>2. ASSUME part = "catalog", C!Init PROVE CatalogInv
      BY <2>2, CatalogStart, ServicesAssumption DEF CatalogBounds, C!CatalogAssumption
    <2>3. ASSUME part = "secrets", P!Init PROVE SecretsInv /\ SecretsCounts
      <3>1. SecretsCounts
        BY <2>3, ServicesAssumption DEF P!Init, SecretsCounts, P!BoundsAssumption
      <3> QED BY <2>3, <3>1, SecretsStart, ServicesAssumption
    <2> QED BY <1>1, <2>1, <2>2, <2>3 DEF StoresInit, StoresInv
  <1>2. CASE part \notin {"records", "catalog", "secrets"}
    BY <1>2 DEF StoresInv
  <1> QED BY <1>1, <1>2 DEF Init, PromisesInit

LEMMA StoresStep ==
  ASSUME StoresInv, [Next]_vars
  PROVE  StoresInv' /\ (part = "secrets" => AccountsGrow)
  <1>1. part' = part
    BY DEF Next, StoresNext, PromisesNext, LifecycleNext, Records, Catalog, PullSecret,
           Pools, Retry, Calls, vars
  <1>2. ASSUME part = "records" PROVE StoresInv'
    <2>1. S!Next \/ UNCHANGED S!vars
      BY <1>2 DEF Next, StoresNext, PromisesNext, LifecycleNext, Records, Catalog, PullSecret,
                  Pools, Retry, Calls, vars, storeVars, shared, recordsOnly, S!vars, S!records
    <2>2. RecordsInv' /\ RecordsCounts'
      BY <1>2, <2>1, RecordsStep, RecordsCounted, ServicesAssumption DEF StoresInv
    <2> QED BY <1>1, <1>2, <2>2 DEF StoresInv
  <1>3. ASSUME part = "catalog" PROVE StoresInv'
    <2>1. C!Next \/ UNCHANGED C!vars
      BY <1>3 DEF Next, StoresNext, PromisesNext, LifecycleNext, Records, Catalog, PullSecret,
                  Pools, Retry, Calls, vars, storeVars, shared, catalogOnly, C!vars, C!catalog,
                  C!sources, C!progress
    <2>2. CatalogInv'
      BY <1>3, <2>1, CatalogStep, ServicesAssumption DEF StoresInv, CatalogBounds, C!CatalogAssumption
    <2> QED BY <1>1, <1>3, <2>2 DEF StoresInv
  <1>4. ASSUME part = "secrets" PROVE StoresInv' /\ AccountsGrow
    <2>1. P!Next \/ UNCHANGED P!vars
      BY <1>4 DEF Next, StoresNext, PromisesNext, LifecycleNext, Records, Catalog, PullSecret,
                  Pools, Retry, Calls, vars, storeVars, secretsOnly, P!vars, P!cluster
    <2>2. SecretsInv' /\ SecretsCounts' /\ AccountsGrow
      BY <1>4, <2>1, SecretsStep, SecretsCounted, ServicesAssumption DEF StoresInv
    <2> QED BY <1>1, <1>4, <2>2 DEF StoresInv
  <1> QED BY <1>1, <1>2, <1>3, <1>4 DEF StoresInv

LEMMA StoresInvariance == Spec => []StoresInv
  <1>1. StoresInv /\ [Next]_vars => StoresInv'
    BY StoresStep
  <1> QED BY StoresStart, <1>1, PTL DEF Spec

(***************************************************************************)
(* Every record is found under its app and its cluster, whatever calls and *)
(* timers do to one key; the two ways to tell what is installed agree; and *)
(* an operation is shown as running until its call ends, unless acts on    *)
(* its key overlapped (SET_INSTALLATION, REMOVE_INSTALLATION,              *)
(* isAppInstalled, START_OPERATION).                                       *)
(***************************************************************************)
THEOREM RecordsAreKept == Spec => []RecordsKept
  <1>1. StoresInv => RecordsKept
    BY GettersFollow DEF StoresInv, RecordsKept, RecordsInv
  <1> QED BY <1>1, StoresInvariance, PTL

(***************************************************************************)
(* searchApps and the filter find the same apps, no spinner is left on     *)
(* without a call, and a sync is shown while it runs (BUILD_SEARCH_INDEX,  *)
(* SET_LOADING, START_SYNC_OPERATION).                                     *)
(***************************************************************************)
THEOREM CatalogIsKept == Spec => []CatalogKept
  <1>1. StoresInv => CatalogKept
    BY CatalogFollows, ServicesAssumption DEF StoresInv, CatalogKept
  <1> QED BY <1>1, StoresInvariance, PTL

(***************************************************************************)
(* An install that ends has its secret on "default" and on its release's   *)
(* account, unless it was refused where it does not try again              *)
(* (installToCluster, ensurePullSecretOnAllSAs).                           *)
(***************************************************************************)
THEOREM SecretsAttached == Spec => []Attached
  <1>1. StoresInv => Attached
    BY SecretsFollow DEF StoresInv, Attached
  <1> QED BY <1>1, StoresInvariance, PTL

(***************************************************************************)
(* No install takes away a pull secret that another attached, though all   *)
(* write back whole lists read earlier (ensureServiceAccountPullSecret).   *)
(***************************************************************************)
THEOREM SecretsStay == Spec => NothingDetached
  <1>1. StoresInv /\ [Next]_vars =>
          [part = "secrets" => \A a \in Accounts : accounts[a] # None =>
             accounts'[a] # None /\ accounts[a].pulls \subseteq accounts'[a].pulls]_vars
    BY StoresStep DEF AccountsGrow, Grows
  <1> QED BY <1>1, StoresInvariance, PTL DEF NothingDetached, Spec

-----------------------------------------------------------------------------
(* Retries, for any number of attempts. *)

(***************************************************************************)
(* The inductive invariant.  What is told of an answer is told once        *)
(* (SettledOnce), and an attempt over which the next is waited for failed  *)
(* or was given up: so a timer that fires late cannot settle it again.     *)
(***************************************************************************)
SettledOnce ==
  /\ phase = "settled" <=> outcome # "pending"
  /\ stopped = "value" => phase = "settled"
  /\ phase = "sleeping" => attempt < MaxRetries /\ (attempt \in expired \/ runs[attempt] = "failed")

RetryInv == R!TypeOK /\ SettledOnce /\ R!AnswerInTime /\ R!TimeoutIsFinal

\* What the end of an attempt does to the promise: it waits for the next one or settles.
LEMMA FailureEnds ==
  ASSUME RetryInv, phase = "trying", NEW kind \in R!Errors \cup {"timeout"}, R!AttemptFails(kind)
  PROVE  /\ error' = kind
         /\ \/ /\ phase' = "sleeping" /\ outcome' = outcome /\ stopped' = stopped
               /\ attempt < MaxRetries /\ ~(choosy /\ kind = "timeout")
            \/ /\ phase' = "settled" /\ stopped' = "error"
               /\ outcome' = IF canceled THEN "canceled" ELSE "error"
  BY DEF R!AttemptFails, R!MayRetry, R!Settle, R!isRetryableError

LEMMA RetryStep ==
  ASSUME R!RetryAssumption
  PROVE  RetryInv /\ (R!Next \/ UNCHANGED R!vars) => RetryInv'
  <1> SUFFICES ASSUME RetryInv, R!Next \/ UNCHANGED R!vars PROVE RetryInv'
    OBVIOUS
  <1>1. R!TypeOK /\ R!Attempts = 1 .. MaxRetries /\ MaxRetries \in Nat \ {0}
    BY DEF RetryInv, R!RetryAssumption, R!Attempts
  <1>2. CASE R!cancel
    BY <1>2 DEF R!cancel, RetryInv, SettledOnce, R!TypeOK, R!AnswerInTime, R!TimeoutIsFinal
  <1>3. CASE R!SleepEnds
    <2>1. /\ phase = "sleeping" /\ phase' = "trying" /\ attempt' = attempt + 1
          /\ runs' = [runs EXCEPT ![attempt + 1] = "running"]
          /\ UNCHANGED <<timed, choosy, expired, error, canceled, outcome, stopped>>
          /\ attempt < MaxRetries /\ (attempt \in expired \/ runs[attempt] = "failed")
      BY <1>3 DEF R!SleepEnds, RetryInv, SettledOnce
    <2>2. attempt \in 1 .. MaxRetries /\ attempt + 1 \in 1 .. MaxRetries
      BY <1>1, <2>1 DEF R!TypeOK
    <2>3. /\ runs' \in [1 .. MaxRetries -> {"none", "running", "ok", "failed"}]
          /\ \A n \in 1 .. attempt : runs'[n] = runs[n]
      BY <1>1, <2>1, <2>2 DEF R!TypeOK
    <2>4. R!TypeOK'
      BY <1>1, <2>1, <2>2, <2>3 DEF R!TypeOK
    <2>5. stopped # "value" /\ ~(choosy /\ expired # {})
      BY <2>1 DEF RetryInv, SettledOnce, R!TimeoutIsFinal
    <2>6. \A n \in 1 .. attempt : n \in expired \/ runs'[n] = "failed"
      BY <2>1, <2>2, <2>3 DEF RetryInv, R!AnswerInTime
    <2>7. R!AnswerInTime'
      BY <2>1, <2>2, <2>5, <2>6 DEF R!AnswerInTime
    <2>8. R!TimeoutIsFinal' /\ SettledOnce'
      BY <2>1, <2>5 DEF R!TimeoutIsFinal, RetryInv, SettledOnce
    <2> QED BY <2>4, <2>7, <2>8 DEF RetryInv
  <1>4. CASE R!TimerFires
    <2>1. /\ phase = "trying" /\ expired' = expired \cup {attempt} /\ R!AttemptFails("timeout")
          /\ UNCHANGED <<timed, choosy, attempt, runs, canceled>>
      BY <1>4 DEF R!TimerFires, R!Waits
    <2>2. /\ error' = "timeout"
          /\ \/ /\ phase' = "sleeping" /\ outcome' = outcome /\ stopped' = stopped
                /\ attempt < MaxRetries /\ ~choosy
             \/ /\ phase' = "settled" /\ stopped' = "error"
                /\ outcome' = IF canceled THEN "canceled" ELSE "error"
      BY <2>1, FailureEnds
    <2>3. R!TypeOK'
      BY <1>1, <2>1, <2>2 DEF R!TypeOK
    <2>4. SettledOnce' /\ R!AnswerInTime' /\ R!TimeoutIsFinal'
      BY <2>1, <2>2 DEF RetryInv, SettledOnce, R!AnswerInTime, R!TimeoutIsFinal
    <2> QED BY <2>3, <2>4 DEF RetryInv
  <1>5. ASSUME NEW n \in R!Attempts, R!RunEnds(n) PROVE RetryInv'
    <2>1. PICK result \in {"ok", "failed"} :
            /\ runs' = [runs EXCEPT ![n] = result] /\ runs[n] = "running"
            /\ (result = "ok" <=> R!Answers(n)) /\ (result = "failed" <=> R!Fails(n))
      <3>1. CASE R!Answers(n)
        <4>1. runs' = [runs EXCEPT ![n] = "ok"] /\ runs'[n] = "ok"
          BY <1>1, <3>1 DEF R!Answers, R!TypeOK
        <4> QED BY <1>1, <3>1, <4>1 DEF R!Answers, R!Fails, R!TypeOK
      <3>2. CASE R!Fails(n)
        <4>1. runs' = [runs EXCEPT ![n] = "failed"] /\ runs'[n] = "failed"
          BY <1>1, <3>2 DEF R!Fails, R!TypeOK
        <4> QED BY <1>1, <3>2, <4>1 DEF R!Answers, R!Fails, R!TypeOK
      <3> QED BY <1>5, <3>1, <3>2 DEF R!RunEnds
    <2>2. /\ runs' \in [1 .. MaxRetries -> {"none", "running", "ok", "failed"}] /\ runs'[n] = result
          /\ \A m \in 1 .. MaxRetries : runs[m] \in {"ok", "failed"} => runs'[m] = runs[m]
      BY <1>1, <2>1 DEF R!TypeOK
    <2>3. UNCHANGED <<timed, choosy, attempt, expired, canceled>>
      BY <1>5 DEF R!RunEnds, R!Answers, R!Fails
    <2>4. CASE UNCHANGED <<phase, error, outcome, stopped>>
      <3>1. R!TypeOK'
        BY <1>1, <2>2, <2>3, <2>4 DEF R!TypeOK
      <3>2. SettledOnce' /\ R!AnswerInTime' /\ R!TimeoutIsFinal'
        BY <1>1, <2>2, <2>3, <2>4
           DEF RetryInv, SettledOnce, R!TypeOK, R!AnswerInTime, R!TimeoutIsFinal
      <3> QED BY <3>1, <3>2 DEF RetryInv
    <2>5. CASE R!Waits(n) /\ R!Answers(n)
      <3>1. /\ n = attempt /\ n \notin expired /\ phase = "trying" /\ runs'[n] = "ok"
            /\ phase' = "settled" /\ stopped' = "value" /\ error' = error
            /\ outcome' = IF canceled THEN "canceled" ELSE "value"
        BY <2>1, <2>2, <2>5 DEF R!Answers, R!Waits, R!Settle
      <3>2. R!TypeOK'
        BY <1>1, <2>2, <2>3, <3>1 DEF R!TypeOK
      <3>3. SettledOnce' /\ R!AnswerInTime' /\ R!TimeoutIsFinal'
        BY <1>1, <2>2, <2>3, <3>1
           DEF RetryInv, SettledOnce, R!TypeOK, R!AnswerInTime, R!TimeoutIsFinal
      <3> QED BY <3>2, <3>3 DEF RetryInv
    <2>6. CASE R!Waits(n) /\ R!Fails(n)
      <3>1. /\ n = attempt /\ n \notin expired /\ phase = "trying" /\ runs'[n] = "failed"
        BY <2>1, <2>2, <2>6 DEF R!Waits
      <3>2. PICK kind \in R!Errors : R!AttemptFails(kind)
        BY <2>6 DEF R!Fails
      <3>3. /\ error' = kind
            /\ \/ /\ phase' = "sleeping" /\ outcome' = outcome /\ stopped' = stopped
                  /\ attempt < MaxRetries
               \/ /\ phase' = "settled" /\ stopped' = "error"
                  /\ outcome' = IF canceled THEN "canceled" ELSE "error"
        BY <3>1, <3>2, FailureEnds
      <3>4. R!TypeOK'
        BY <1>1, <2>2, <2>3, <3>3 DEF R!TypeOK
      <3>5. SettledOnce' /\ R!AnswerInTime' /\ R!TimeoutIsFinal'
        BY <1>1, <2>2, <2>3, <3>1, <3>3
           DEF RetryInv, SettledOnce, R!TypeOK, R!AnswerInTime, R!TimeoutIsFinal
      <3> QED BY <3>4, <3>5 DEF RetryInv
    <2> QED BY <1>5, <2>4, <2>5, <2>6 DEF R!RunEnds, R!Answers, R!Fails
  <1>6. CASE UNCHANGED R!vars
    BY <1>6 DEF R!vars, RetryInv, SettledOnce, R!TypeOK, R!AnswerInTime, R!TimeoutIsFinal
  <1> QED BY <1>2, <1>3, <1>4, <1>5, <1>6 DEF R!Next

LEMMA RetryStart ==
  ASSUME R!RetryAssumption, None \notin {"value", "error"}
  PROVE  R!Init => RetryInv
  <1> SUFFICES ASSUME R!Init PROVE RetryInv
    OBVIOUS
  <1>1. R!Attempts = 1 .. MaxRetries /\ 1 \in 1 .. MaxRetries
    BY DEF R!RetryAssumption, R!Attempts
  <1>2. /\ attempt = 1 /\ phase = "trying" /\ expired = {} /\ error = None /\ canceled = FALSE
        /\ outcome = "pending" /\ stopped = None /\ timed \in BOOLEAN /\ choosy \in BOOLEAN
        /\ runs = [n \in 1 .. MaxRetries |-> IF n = 1 THEN "running" ELSE "none"]
    BY <1>1 DEF R!Init
  <1>3. runs \in [1 .. MaxRetries -> {"none", "running", "ok", "failed"}]
    BY <1>2
  <1>4. R!TypeOK
    BY <1>1, <1>2, <1>3 DEF R!TypeOK
  <1>5. stopped # "value"
    BY <1>2
  <1>6. 1 .. attempt - 1 = {}
    BY <1>2
  <1>7. SettledOnce /\ R!AnswerInTime /\ R!TimeoutIsFinal
    BY <1>2, <1>5, <1>6 DEF SettledOnce, R!AnswerInTime, R!TimeoutIsFinal
  <1> QED BY <1>4, <1>7 DEF RetryInv

-----------------------------------------------------------------------------
(* Wrapped calls, for any arguments, any times and any number of calls. *)

Exists(r) == runs[r] # None
FailedFor(key, f) == runs[f] # None /\ runs[f].key = key /\ runs[f].end # None /\ ~runs[f].ok

\* Calls are numbered without a gap, and nothing is of a later time than now.
CallsShape ==
  /\ how \in {"memo", "throttle", "debounce"} /\ now \in M!Times
  /\ made \in [M!Ids -> M!PromisedCall \cup {None}]
  /\ runs \in [M!Ids -> M!Run \cup {None}]
  /\ cache \in [Arguments -> M!Entry \cup {None}]
  /\ last \in M!Times \cup {None} /\ pending \in M!Ids \cup {None}
  /\ timers \subseteq [call : M!Ids, due : Nat]
  /\ \E n \in 0 .. MaxPromises : M!Made = 1 .. n
  /\ \A r \in M!Ids : Exists(r) => /\ made[r] # None /\ runs[r].begin <= now
                                   /\ runs[r].end # None => runs[r].end <= now
  /\ \A c \in M!Made : made[c].at <= now
  /\ \A t \in timers : t.call \in M!Made

\* A call is answered by a run of its time, that had not failed when it was made.
Served ==
  \A c \in M!Made :
    /\ made[c].run \in M!Ids /\ Exists(made[c].run)
    /\ runs[made[c].run].begin + Delay > made[c].at
    /\ runs[made[c].run].end # None /\ runs[made[c].run].end < made[c].at => runs[made[c].run].ok

\* An entry is of a run for its arguments that has not failed.
EntriesFit ==
  \A k \in Arguments : cache[k] # None =>
    /\ Exists(cache[k].run) /\ runs[cache[k].run].key = k
    /\ cache[k].expiry = runs[cache[k].run].begin + Delay
    /\ runs[cache[k].run].end # None => runs[cache[k].run].ok

\* A run is cached as long as an entry lives, unless one for its arguments failed since.
Covered ==
  \A r \in M!Ids : Exists(r) =>
    \/ runs[r].begin + Delay <= now
    \/ /\ cache[runs[r].key] # None
       /\ cache[runs[r].key].expiry >= runs[r].begin + Delay
    \/ \E f \in M!Ids : FailedFor(runs[r].key, f) /\ runs[f].end \in runs[r].begin .. now

\* The second half of Memoized.
Spaced ==
  \A r, s \in M!Ids :
    Exists(r) /\ Exists(s) /\ r < s /\ runs[r].key = runs[s].key
      /\ runs[s].begin < runs[r].begin + Delay =>
        \E f \in M!Ids : FailedFor(runs[s].key, f) /\ runs[f].end \in runs[r].begin .. runs[s].begin

Memo == timers = {} /\ Served /\ EntriesFit /\ Covered /\ Spaced

CallsInv == CallsShape /\ (how = "memo" => Memo)

CallsBounds ==
  /\ Delay \in Nat \ {0} /\ MaxTime \in Nat /\ MaxPromises \in Nat
  /\ None \notin Nat /\ None \notin M!PromisedCall /\ None \notin M!Run /\ None \notin M!Entry

LEMMA CallsCardinality == \A X : M!Cardinality(X) = Cardinality(X)
  BY DEF M!Cardinality, Cardinality, M!IsFiniteSet, IsFiniteSet

\* The next number is free.
LEMMA FreshIsFree ==
  ASSUME CallsBounds, CallsShape
  PROVE  \E n \in 0 .. MaxPromises :
           /\ M!Made = 1 .. n /\ M!Fresh = n + 1
           /\ \A r \in M!Ids : r > n => made[r] = None /\ runs[r] = None
  <1>1. PICK n \in 0 .. MaxPromises : M!Made = 1 .. n
    BY DEF CallsShape
  <1>2. n \in Nat /\ MaxPromises \in Nat
    BY <1>1 DEF CallsBounds
  <1>3. Cardinality(1 .. n) = n
    <2>1. Cardinality(1 .. n) = IF 1 > n THEN 0 ELSE n - 1 + 1
      BY <1>2, FS_Interval
    <2> QED BY <1>2, <2>1
  <1>4. M!Fresh = n + 1
    BY <1>1, <1>3, CallsCardinality DEF M!Fresh
  <1>5. ASSUME NEW r \in M!Ids, r > n PROVE made[r] = None /\ runs[r] = None
    <2>1. r \notin 1 .. n
      BY <1>2, <1>5 DEF M!Ids
    <2>2. made[r] = None
      BY <1>1, <2>1 DEF M!Made
    <2> QED BY <2>2 DEF CallsShape, Exists
  <1> QED BY <1>1, <1>4, <1>5

\* What it means for the calls that one more is made.
LEMMA OneMoreCall ==
  ASSUME CallsBounds, CallsShape, M!Fresh \in M!Ids, now' = now,
         NEW key \in Arguments, NEW r \in M!Ids \cup {None}, M!Waits(M!Fresh, key, r)
  PROVE  /\ made' \in [M!Ids -> M!PromisedCall \cup {None}]
         /\ made'[M!Fresh] = [key |-> key, at |-> now, run |-> r] /\ made'[M!Fresh] # None
         /\ \A c \in M!Ids \ {M!Fresh} : made'[c] = made[c]
         /\ M!Made' = M!Made \cup {M!Fresh}
         /\ \E n \in 0 .. MaxPromises : M!Made' = 1 .. n
         /\ \A c \in M!Made' : made'[c].at <= now'
         /\ \A c \in M!Made : c < M!Fresh
  <1> DEFINE new == [key |-> key, at |-> now, run |-> r]
  <1>1. made \in [M!Ids -> M!PromisedCall \cup {None}] /\ now \in M!Times /\ now \in Nat
    BY DEF CallsShape, M!Times, CallsBounds
  <1>2. new \in M!PromisedCall /\ new.at = now
    BY <1>1 DEF M!PromisedCall
  <1>3. made' = [made EXCEPT ![M!Fresh] = new]
    BY DEF M!Waits
  <1>4. new # None
    BY <1>2 DEF CallsBounds
  <1> HIDE DEF new
  <1>5. /\ made' \in [M!Ids -> M!PromisedCall \cup {None}]
        /\ made'[M!Fresh] = new
        /\ \A c \in M!Ids \ {M!Fresh} : made'[c] = made[c]
    BY <1>1, <1>2, <1>3
  <1>6. M!Made' = M!Made \cup {M!Fresh}
    BY <1>4, <1>5 DEF M!Made
  <1>7. PICK n \in 0 .. MaxPromises : M!Made = 1 .. n /\ M!Fresh = n + 1
    BY FreshIsFree
  <1>8. n + 1 \in 0 .. MaxPromises /\ (1 .. n) \cup {n + 1} = 1 .. n + 1
    BY <1>7 DEF M!Ids, CallsBounds
  <1>9. M!Made' = 1 .. n + 1
    BY <1>6, <1>7, <1>8
  <1>10. \A c \in M!Made' : made'[c].at <= now'
    <2> SUFFICES ASSUME NEW c \in M!Made' PROVE made'[c].at <= now'
      OBVIOUS
    <2>1. CASE c = M!Fresh
      BY <1>1, <1>2, <1>5, <2>1
    <2>2. CASE c # M!Fresh
      <3>1. c \in M!Made /\ made'[c] = made[c]
        BY <1>5, <1>6, <2>2 DEF M!Made
      <3> QED BY <3>1 DEF CallsShape
    <2> QED BY <2>1, <2>2
  <1>11. \A c \in M!Made : c < M!Fresh
    BY <1>7
  <1> QED BY <1>4, <1>5, <1>6, <1>8, <1>9, <1>10, <1>11 DEF new

\* A run that begins.
LEMMA OneMoreRun ==
  ASSUME CallsBounds, CallsShape, now' = now, NEW c \in M!Ids, NEW key \in Arguments, M!Starts(c, key)
  PROVE  /\ runs' \in [M!Ids -> M!Run \cup {None}]
         /\ runs'[c] = [key |-> key, begin |-> now, end |-> None, ok |-> FALSE]
         /\ runs'[c].key = key /\ runs'[c].begin = now /\ runs'[c].end = None /\ runs'[c] # None
         /\ \A r \in M!Ids \ {c} : runs'[r] = runs[r]
         /\ made'[c] # None /\ (\A r \in M!Ids \ {c} : made[r] # None => made'[r] # None) =>
              \A r \in M!Ids : Exists(r)' => /\ made'[r] # None /\ runs'[r].begin <= now'
                                             /\ runs'[r].end # None => runs'[r].end <= now'
  <1> DEFINE new == [key |-> key, begin |-> now, end |-> None, ok |-> FALSE]
  <1>1. runs \in [M!Ids -> M!Run \cup {None}] /\ now \in M!Times /\ now \in Nat
    BY DEF CallsShape, M!Times, CallsBounds
  <1>2. FALSE \in BOOLEAN
    OBVIOUS
  <1>3. new \in M!Run /\ new.key = key /\ new.begin = now /\ new.end = None
    BY <1>1, <1>2 DEF M!Run
  <1>4. runs' = [runs EXCEPT ![c] = new]
    BY DEF M!Starts
  <1>5. new # None
    BY <1>3 DEF CallsBounds
  <1> HIDE DEF new
  <1>6. /\ runs' \in [M!Ids -> M!Run \cup {None}] /\ runs'[c] = new
        /\ \A r \in M!Ids \ {c} : runs'[r] = runs[r]
    BY <1>1, <1>3, <1>4
  <1>7. ASSUME made'[c] # None, \A r \in M!Ids \ {c} : made[r] # None => made'[r] # None
        PROVE  \A r \in M!Ids : Exists(r)' => /\ made'[r] # None /\ runs'[r].begin <= now'
                                              /\ runs'[r].end # None => runs'[r].end <= now'
    <2> SUFFICES ASSUME NEW r \in M!Ids, runs'[r] # None
                 PROVE  /\ made'[r] # None /\ runs'[r].begin <= now'
                        /\ runs'[r].end # None => runs'[r].end <= now'
      BY DEF Exists
    <2>1. CASE r = c
      BY <1>1, <1>3, <1>6, <1>7, <2>1
    <2>2. CASE r # c
      <3>1. runs'[r] = runs[r] /\ (made[r] # None => made'[r] # None)
        BY <1>6, <1>7, <2>2
      <3> QED BY <3>1 DEF CallsShape, Exists
    <2> QED BY <2>1, <2>2
  <1> QED BY <1>3, <1>5, <1>6, <1>7 DEF new

LEMMA CallShape ==
  ASSUME CallsBounds, CallsShape, M!Call
  PROVE  CallsShape'
  <1>1. PICK key \in Arguments : M!memoizePromise(key) \/ M!throttlePromise(key) \/ M!debouncePromise(key)
    BY DEF M!Call
  <1>2. /\ M!Fresh \in M!Ids /\ now + Delay <= MaxTime /\ now' = now /\ how' = how
        /\ how' \in {"memo", "throttle", "debounce"} /\ now' \in M!Times /\ now \in Nat
    BY DEF M!Call, CallsShape, M!Times, CallsBounds
  <1>3. now + Delay \in M!Times /\ now \in M!Times
    BY <1>2 DEF M!Times, CallsBounds
  <1>4. PICK q \in M!Ids \cup {None} : M!Waits(M!Fresh, key, q)
    <2>1. M!Cached(key) => cache[key].run \in M!Ids
      BY DEF M!Cached, CallsShape, M!Entry
    <2> QED BY <1>1, <1>2, <2>1 DEF M!memoizePromise, M!throttlePromise, M!debouncePromise, CallsShape
  <1>5. /\ made' \in [M!Ids -> M!PromisedCall \cup {None}]
        /\ made'[M!Fresh] # None
        /\ \A c \in M!Ids \ {M!Fresh} : made'[c] = made[c]
        /\ M!Made' = M!Made \cup {M!Fresh}
        /\ \E n \in 0 .. MaxPromises : M!Made' = 1 .. n
        /\ \A c \in M!Made' : made'[c].at <= now'
    BY <1>2, <1>4, OneMoreCall
  <1>6. /\ runs' \in [M!Ids -> M!Run \cup {None}]
        /\ \A r \in M!Ids : Exists(r)' => /\ made'[r] # None /\ runs'[r].begin <= now'
                                          /\ runs'[r].end # None => runs'[r].end <= now'
    <2>1. CASE M!Starts(M!Fresh, key)
      BY <1>2, <1>5, <2>1, OneMoreRun
    <2>2. CASE UNCHANGED runs
      BY <1>2, <1>5, <2>2 DEF CallsShape, Exists
    <2> QED BY <1>1, <2>1, <2>2 DEF M!memoizePromise, M!throttlePromise, M!debouncePromise
  <1>7. cache' \in [Arguments -> M!Entry \cup {None}]
    <2>1. CASE UNCHANGED cache
      BY <2>1 DEF CallsShape
    <2>2. CASE cache' = [cache EXCEPT ![key] = [run |-> M!Fresh, expiry |-> now + Delay]]
      <3>1. [run |-> M!Fresh, expiry |-> now + Delay] \in M!Entry
        BY <1>2, <1>3 DEF M!Entry
      <3> QED BY <2>2, <3>1 DEF CallsShape
    <2> QED BY <1>1, <2>1, <2>2 DEF M!memoizePromise, M!throttlePromise, M!debouncePromise
  <1>8. last' \in M!Times \cup {None} /\ pending' \in M!Ids \cup {None}
    BY <1>1, <1>2, <1>3 DEF M!memoizePromise, M!throttlePromise, M!debouncePromise, CallsShape
  <1>9. timers' \subseteq [call : M!Ids, due : Nat] /\ \A t \in timers' : t.call \in M!Made'
    <2>1. \A due \in Nat : /\ [call |-> M!Fresh, due |-> due] \in [call : M!Ids, due : Nat]
                           /\ [call |-> M!Fresh, due |-> due].call = M!Fresh
      BY <1>2
    <2>2. timers \subseteq [call : M!Ids, due : Nat] /\ \A t \in timers : t.call \in M!Made'
      BY <1>5 DEF CallsShape
    <2>3. \/ timers' = timers
          \/ \E due \in Nat : timers' = timers \cup {[call |-> M!Fresh, due |-> due]}
          \/ \E due \in Nat : timers' = {[call |-> M!Fresh, due |-> due]}
      <3>1. last # None => last + Delay \in Nat
        BY DEF CallsShape, M!Times, CallsBounds
      <3>2. now + Delay \in Nat
        BY <1>2 DEF CallsBounds
      <3> QED BY <1>1, <3>1, <3>2 DEF M!memoizePromise, M!throttlePromise, M!debouncePromise
    <2> QED BY <1>5, <2>1, <2>2, <2>3
  <1> QED BY <1>2, <1>5, <1>6, <1>7, <1>8, <1>9 DEF CallsShape

LEMMA TimerShape ==
  ASSUME CallsBounds, CallsShape, NEW t \in timers, M!TimerFires(t)
  PROVE  CallsShape'
  <1> DEFINE c == t.call
  <1>1. c \in M!Ids /\ made[c] # None /\ made[c] \in M!PromisedCall /\ now' = now /\ now \in M!Times
    BY DEF CallsShape, M!TimerFires, M!Made
  <1>2. made[c].key \in Arguments /\ M!Starts(c, made[c].key)
    BY <1>1 DEF M!PromisedCall, M!TimerFires
  <1> DEFINE new == [key |-> made[c].key, at |-> made[c].at, run |-> c]
  <1>3. [made[c] EXCEPT !.run = c] = new
    BY <1>1 DEF M!PromisedCall
  <1>4. new \in M!PromisedCall /\ new.at = made[c].at
    BY <1>1 DEF M!PromisedCall
  <1>5. made' = [made EXCEPT ![c] = [made[c] EXCEPT !.run = c]]
    BY DEF M!TimerFires
  <1>6. made' = [made EXCEPT ![c] = new] /\ new # None
    BY <1>3, <1>4, <1>5 DEF CallsBounds
  <1> HIDE DEF new
  <1>7. /\ made' \in [M!Ids -> M!PromisedCall \cup {None}]
        /\ made'[c] = new /\ made'[c] # None
        /\ \A d \in M!Ids \ {c} : made'[d] = made[d]
    BY <1>1, <1>4, <1>6 DEF CallsShape
  <1>8. M!Made' = M!Made
    BY <1>1, <1>7 DEF M!Made
  <1>9. \A d \in M!Made : made'[d].at <= now'
    <2> SUFFICES ASSUME NEW d \in M!Made PROVE made'[d].at <= now'
      OBVIOUS
    <2>1. made'[d].at = made[d].at
      BY <1>4, <1>7 DEF M!Made
    <2> QED BY <1>1, <2>1 DEF CallsShape
  <1> HIDE DEF c
  <1>10. /\ runs' \in [M!Ids -> M!Run \cup {None}]
         /\ \A r \in M!Ids : Exists(r)' => /\ made'[r] # None /\ runs'[r].begin <= now'
                                           /\ runs'[r].end # None => runs'[r].end <= now'
    BY <1>1, <1>2, <1>7, OneMoreRun
  <1>11. /\ timers' \subseteq timers /\ UNCHANGED <<how, cache, pending>>
         /\ last' \in M!Times \cup {None}
    BY <1>1 DEF M!TimerFires, CallsShape
  <1> QED BY <1>1, <1>7, <1>8, <1>9, <1>10, <1>11 DEF CallsShape

\* The end of a run: nothing else about the runs changes, and it has its result from now on.
LEMMA OneRunEnds ==
  ASSUME CallsBounds, CallsShape, NEW r \in M!Ids, M!RunEnds(r)
  PROVE  \E ok \in BOOLEAN :
           /\ runs' \in [M!Ids -> M!Run \cup {None}]
           /\ \A s \in M!Ids \ {r} : runs'[s] = runs[s]
           /\ Exists(r) /\ runs[r].end = None /\ Exists(r)' /\ runs[r] \in M!Run
           /\ runs'[r].key = runs[r].key /\ runs'[r].begin = runs[r].begin
           /\ runs'[r].end = now /\ runs'[r].ok = ok
           /\ cache' = IF how = "memo" /\ ~ok THEN [cache EXCEPT ![runs[r].key] = None] ELSE cache
           /\ UNCHANGED <<how, now, made, last, timers>>
           /\ now \in M!Times /\ now \in Nat /\ now # None
  <1>1. PICK ok \in BOOLEAN :
          /\ runs' = [runs EXCEPT ![r].end = now, ![r].ok = ok]
          /\ cache' = IF how = "memo" /\ ~ok THEN [cache EXCEPT ![runs[r].key] = None] ELSE cache
    BY DEF M!RunEnds
  <1>2. Exists(r) /\ runs[r].end = None /\ runs[r] \in M!Run
    BY DEF M!RunEnds, M!Running, Exists, CallsShape
  <1>3. now \in M!Times /\ now \in Nat /\ now # None
    BY DEF CallsShape, M!Times, CallsBounds
  <1> DEFINE new == [key |-> runs[r].key, begin |-> runs[r].begin, end |-> now, ok |-> ok]
  <1>4. [[runs[r] EXCEPT !.end = now] EXCEPT !.ok = ok] = new
    <2> DEFINE mid == [key |-> runs[r].key, begin |-> runs[r].begin, end |-> now, ok |-> runs[r].ok]
    <2>1. [runs[r] EXCEPT !.end = now] = mid
      BY <1>2 DEF M!Run
    <2>2. [mid EXCEPT !.ok = ok] = new
      OBVIOUS
    <2> QED BY <2>1, <2>2
  <1>5. new \in M!Run
    BY <1>1, <1>2, <1>3 DEF M!Run
  <1>6. runs' = [runs EXCEPT ![r] = new]
    BY <1>1, <1>4 DEF CallsShape
  <1>7. /\ new.key = runs[r].key /\ new.begin = runs[r].begin /\ new.end = now /\ new.ok = ok
        /\ new # None
    BY <1>5 DEF CallsBounds
  <1> HIDE DEF new
  <1>8. /\ runs' \in [M!Ids -> M!Run \cup {None}] /\ runs'[r] = new
        /\ \A s \in M!Ids \ {r} : runs'[s] = runs[s]
    BY <1>5, <1>6 DEF CallsShape
  <1> QED BY <1>1, <1>2, <1>3, <1>7, <1>8 DEF M!RunEnds, Exists

LEMMA RunEndShape ==
  ASSUME CallsBounds, CallsShape, NEW r \in M!Ids, M!RunEnds(r)
  PROVE  CallsShape'
  <1>1. PICK ok \in BOOLEAN :
           /\ runs' \in [M!Ids -> M!Run \cup {None}]
           /\ \A s \in M!Ids \ {r} : runs'[s] = runs[s]
           /\ Exists(r) /\ runs[r].end = None /\ Exists(r)' /\ runs[r] \in M!Run
           /\ runs'[r].key = runs[r].key /\ runs'[r].begin = runs[r].begin
           /\ runs'[r].end = now /\ runs'[r].ok = ok
           /\ cache' = IF how = "memo" /\ ~ok THEN [cache EXCEPT ![runs[r].key] = None] ELSE cache
           /\ UNCHANGED <<how, now, made, last, timers>>
           /\ now \in M!Times /\ now \in Nat /\ now # None
    BY OneRunEnds
  <1>2. cache' \in [Arguments -> M!Entry \cup {None}]
    BY <1>1 DEF CallsShape
  <1>3. \A s \in M!Ids : Exists(s)' => /\ made'[s] # None /\ runs'[s].begin <= now'
                                       /\ runs'[s].end # None => runs'[s].end <= now'
    <2> SUFFICES ASSUME NEW s \in M!Ids, runs'[s] # None
                 PROVE  /\ made'[s] # None /\ runs'[s].begin <= now'
                        /\ runs'[s].end # None => runs'[s].end <= now'
      BY DEF Exists
    <2> QED BY <1>1 DEF CallsShape, Exists
  <1>4. pending' \in M!Ids \cup {None}
    BY DEF M!RunEnds, CallsShape
  <1>5. M!Made' = M!Made
    BY <1>1 DEF M!Made
  <1> QED BY <1>1, <1>2, <1>3, <1>4, <1>5 DEF CallsShape

LEMMA TickShape ==
  ASSUME CallsBounds, CallsShape, M!Tick \/ UNCHANGED M!vars
  PROVE  CallsShape' /\ now \in Nat /\ now' \in Nat /\ now <= now' /\ UNCHANGED <<how, made, runs, cache, last, pending, timers>>
  <1>1. now' \in M!Times /\ now \in Nat /\ now' \in Nat /\ now <= now'
    BY DEF M!Tick, M!vars, M!Times, CallsBounds, CallsShape
  <1>2. UNCHANGED <<how, made, runs, cache, last, pending, timers>>
    BY DEF M!Tick, M!vars
  <1>3. M!Made' = M!Made
    BY <1>2 DEF M!Made
  <1>4. \A c \in M!Made' : made'[c].at <= now'
    <2> SUFFICES ASSUME NEW c \in M!Made PROVE made[c].at <= now'
      BY <1>2, <1>3
    <2>1. made[c].at \in Nat /\ made[c].at <= now
      BY DEF CallsShape, M!Made, M!PromisedCall, M!Times
    <2> QED BY <1>1, <2>1
  <1>5. \A r \in M!Ids : Exists(r)' => /\ made'[r] # None /\ runs'[r].begin <= now'
                                       /\ runs'[r].end # None => runs'[r].end <= now'
    <2> SUFFICES ASSUME NEW r \in M!Ids, runs[r] # None
                 PROVE  /\ made[r] # None /\ runs[r].begin <= now'
                        /\ runs[r].end # None => runs[r].end <= now'
      BY <1>2 DEF Exists
    <2>1. /\ runs[r].begin \in Nat /\ runs[r].begin <= now /\ made[r] # None
          /\ runs[r].end # None => runs[r].end \in Nat /\ runs[r].end <= now
      BY DEF CallsShape, Exists, M!Run, M!Times
    <2> QED BY <1>1, <2>1
  <1> QED BY <1>1, <1>2, <1>3, <1>4, <1>5 DEF CallsShape

LEMMA ShapeKept ==
  ASSUME CallsBounds, CallsShape, M!Next \/ UNCHANGED M!vars
  PROVE  CallsShape'
  BY CallShape, TimerShape, RunEndShape, TickShape DEF M!Next

LEMMA RunNumbers ==
  ASSUME CallsBounds, CallsShape, NEW r \in M!Ids, Exists(r)
  PROVE  /\ runs[r].begin \in Nat /\ runs[r].begin <= now /\ now \in Nat /\ runs[r].key \in Arguments
         /\ runs[r].end # None => runs[r].end \in Nat /\ runs[r].end <= now
         /\ r \in M!Made
  <1>1. runs[r] \in M!Run
    BY DEF CallsShape, Exists
  <1> QED BY <1>1 DEF CallsShape, M!Run, M!Times, CallsBounds, Exists, M!Made

LEMMA HitKeeps ==
  ASSUME CallsBounds, CallsShape, Memo, M!Fresh \in M!Ids, now' = now, NEW key \in Arguments,
         M!Cached(key), M!Waits(M!Fresh, key, cache[key].run), UNCHANGED <<runs, cache, timers>>
  PROVE  Memo'
  <1>1. /\ cache[key] # None /\ cache[key].run \in M!Ids /\ cache[key].expiry > now
        /\ Exists(cache[key].run) /\ cache[key].expiry = runs[cache[key].run].begin + Delay
        /\ runs[cache[key].run].end # None => runs[cache[key].run].ok
    BY DEF M!Cached, Memo, EntriesFit, CallsShape, M!Entry
  <1>2. /\ made'[M!Fresh] = [key |-> key, at |-> now, run |-> cache[key].run]
        /\ \A c \in M!Ids \ {M!Fresh} : made'[c] = made[c]
        /\ M!Made' = M!Made \cup {M!Fresh}
        /\ \A c \in M!Made : c < M!Fresh
    BY <1>1, OneMoreCall
  <1>3. Served'
    <2> SUFFICES ASSUME NEW c \in M!Made'
                 PROVE  /\ made'[c].run \in M!Ids /\ Exists(made'[c].run)
                        /\ runs[made'[c].run].begin + Delay > made'[c].at
                        /\ runs[made'[c].run].end # None /\ runs[made'[c].run].end < made'[c].at
                             => runs[made'[c].run].ok
      BY DEF Served, Exists
    <2>1. CASE c = M!Fresh
      <3>1. made'[c].run = cache[key].run /\ made'[c].at = now
        BY <1>2, <2>1
      <3> QED BY <1>1, <3>1
    <2>2. CASE c # M!Fresh
      <3>1. c \in M!Made /\ made'[c] = made[c]
        BY <1>2, <2>2 DEF M!Made
      <3> QED BY <3>1 DEF Memo, Served
    <2> QED BY <2>1, <2>2
  <1> QED BY <1>3 DEF Memo, EntriesFit, Covered, Spaced, Exists, FailedFor

LEMMA MissKeeps ==
  ASSUME CallsBounds, CallsShape, Memo, M!Fresh \in M!Ids, now' = now, NEW key \in Arguments,
         ~M!Cached(key), M!Starts(M!Fresh, key), M!Waits(M!Fresh, key, M!Fresh),
         cache' = [cache EXCEPT ![key] = [run |-> M!Fresh, expiry |-> now + Delay]],
         now + Delay \in M!Times, timers' = timers
  PROVE  Memo'
  <1> DEFINE F == M!Fresh
  <1>1. /\ made'[F] = [key |-> key, at |-> now, run |-> F]
        /\ \A c \in M!Ids \ {F} : made'[c] = made[c]
        /\ M!Made' = M!Made \cup {F}
        /\ \A c \in M!Made : c < F
    BY OneMoreCall
  <1>2. /\ runs'[F].key = key /\ runs'[F].begin = now /\ runs'[F].end = None /\ runs'[F] # None
        /\ \A r \in M!Ids \ {F} : runs'[r] = runs[r]
    BY OneMoreRun
  <1> DEFINE entry == [run |-> F, expiry |-> now + Delay]
  <1>3. entry.run = F /\ entry.expiry = now + Delay /\ entry # None
    <2>1. entry \in M!Entry
      BY DEF M!Entry
    <2> QED BY <2>1 DEF CallsBounds
  <1>4. cache' = [cache EXCEPT ![key] = entry]
    OBVIOUS
  <1> HIDE DEF entry
  <1>5. cache'[key] = entry /\ \A k \in Arguments \ {key} : cache'[k] = cache[k]
    BY <1>4 DEF CallsShape
  <1>6. \A r \in M!Ids : Exists(r) => r # F /\ runs'[r] = runs[r]
    <2>1. \A r \in M!Ids : Exists(r) => r < F
      BY <1>1, RunNumbers
    <2>2. F \in Nat
      BY DEF M!Ids, CallsBounds
    <2>3. \A r \in M!Ids : Exists(r) => r # F
      BY <2>1, <2>2
    <2> QED BY <1>2, <2>3
  <1>7. now \in Nat /\ Delay \in Nat \ {0} /\ F \in M!Ids /\ F \in Nat
    BY DEF CallsShape, M!Times, CallsBounds, M!Ids
  <1> HIDE DEF F
  <1>8. Served'
    <2> SUFFICES ASSUME NEW c \in M!Made'
                 PROVE  /\ made'[c].run \in M!Ids /\ runs'[made'[c].run] # None
                        /\ runs'[made'[c].run].begin + Delay > made'[c].at
                        /\ runs'[made'[c].run].end # None /\ runs'[made'[c].run].end < made'[c].at
                             => runs'[made'[c].run].ok
      BY <1>7 DEF Served, Exists, CallsBounds
    <2>1. CASE c = F
      <3>1. made'[c].run = F /\ made'[c].at = now
        BY <1>1, <2>1
      <3> QED BY <1>2, <1>7, <3>1
    <2>2. CASE c # F
      <3>1. c \in M!Made /\ made'[c] = made[c]
        BY <1>1, <2>2 DEF M!Made
      <3>2. made[c].run \in M!Ids /\ Exists(made[c].run)
        BY <3>1 DEF Memo, Served
      <3>3. runs'[made[c].run] = runs[made[c].run]
        BY <1>6, <3>2
      <3> QED BY <3>1, <3>2, <3>3 DEF Memo, Served, Exists
    <2> QED BY <2>1, <2>2
  <1>9. EntriesFit'
    <2> SUFFICES ASSUME NEW k \in Arguments, cache'[k] # None
                 PROVE  /\ runs'[cache'[k].run] # None /\ runs'[cache'[k].run].key = k
                        /\ cache'[k].expiry = runs'[cache'[k].run].begin + Delay
                        /\ runs'[cache'[k].run].end # None => runs'[cache'[k].run].ok
      BY DEF EntriesFit, Exists
    <2>1. CASE k = key
      BY <1>2, <1>3, <1>5, <2>1
    <2>2. CASE k # key
      <3>1. cache'[k] = cache[k] /\ cache[k] # None /\ cache[k].run \in M!Ids /\ Exists(cache[k].run)
        BY <1>5, <2>2 DEF Memo, EntriesFit, CallsShape, M!Entry
      <3>2. runs'[cache[k].run] = runs[cache[k].run]
        BY <1>6, <3>1
      <3> QED BY <3>1, <3>2 DEF Memo, EntriesFit, Exists
    <2> QED BY <2>1, <2>2
  <1>10. \A k \in Arguments, f \in M!Ids : FailedFor(k, f) => FailedFor(k, f)' /\ runs'[f].end = runs[f].end
    BY <1>6 DEF FailedFor, Exists
  <1>11. Covered'
    <2> SUFFICES ASSUME NEW r \in M!Ids, runs'[r] # None
                 PROVE  \/ runs'[r].begin + Delay <= now
                        \/ /\ cache'[runs'[r].key] # None
                           /\ cache'[runs'[r].key].expiry >= runs'[r].begin + Delay
                        \/ \E f \in M!Ids : FailedFor(runs[r].key, f)' /\ runs'[f].end \in runs'[r].begin .. now
      BY DEF Covered, Exists, FailedFor
    <2>1. CASE r = F
      BY <1>2, <1>3, <1>5, <1>7, <2>1
    <2>2. CASE r # F
      <3>1. runs'[r] = runs[r] /\ Exists(r)
        BY <1>2, <2>2 DEF Exists
      <3>2. runs[r].begin \in Nat /\ runs[r].begin <= now /\ runs[r].key \in Arguments
        BY <3>1, RunNumbers
      <3>3. CASE runs[r].key = key
        BY <1>3, <1>5, <1>7, <3>1, <3>2, <3>3
      <3>4. CASE runs[r].key # key
        <4>1. cache'[runs[r].key] = cache[runs[r].key]
          BY <1>5, <3>2, <3>4
        <4> QED BY <1>10, <3>1, <3>2, <4>1 DEF Memo, Covered
      <3> QED BY <3>3, <3>4
    <2> QED BY <2>1, <2>2
  <1>12. Spaced'
    <2> SUFFICES ASSUME NEW r \in M!Ids, NEW s \in M!Ids, runs'[r] # None, runs'[s] # None, r < s,
                        runs'[r].key = runs'[s].key, runs'[s].begin < runs'[r].begin + Delay
                 PROVE  \E f \in M!Ids : FailedFor(runs[s].key, f)' /\ runs'[f].end \in runs'[r].begin .. runs'[s].begin
      BY DEF Spaced, Exists, FailedFor
    <2>1. r # F
      <3> SUFFICES ASSUME r = F PROVE FALSE
        OBVIOUS
      <3>1. s # F /\ Exists(s)
        BY <1>2, <1>7 DEF Exists
      <3>2. s < F
        BY <1>1, <3>1, RunNumbers
      <3> QED BY <1>7, <3>2 DEF M!Ids, CallsBounds
    <2>2. runs'[r] = runs[r] /\ Exists(r)
      BY <1>2, <2>1 DEF Exists
    <2>3. CASE s = F
      <3>1. runs[r].begin + Delay > now /\ runs[r].key = key /\ runs'[s].begin = now /\ runs'[s].key = key
        BY <1>2, <1>7, <2>2, <2>3, RunNumbers
      <3>2. runs[r].begin \in Nat /\ runs[r].begin <= now
        BY <2>2, RunNumbers
      <3>3. ~(cache[key] # None /\ cache[key].expiry >= runs[r].begin + Delay)
        <4>1. cache[key] # None => cache[key].expiry \in Nat /\ ~(cache[key].expiry > now)
          BY DEF M!Cached, CallsShape, M!Entry, M!Times
        <4> QED BY <1>7, <3>1, <3>2, <4>1
      <3>4. PICK f \in M!Ids : FailedFor(key, f) /\ runs[f].end \in runs[r].begin .. now
        BY <1>7, <2>2, <3>1, <3>2, <3>3 DEF Memo, Covered
      <3>5. FailedFor(key, f)' /\ runs'[f].end = runs[f].end
        BY <1>10, <3>4
      <3>6. FailedFor(runs[s].key, f)'
        BY <3>1, <3>5 DEF FailedFor
      <3> QED BY <2>2, <3>1, <3>4, <3>5, <3>6
    <2>4. CASE s # F
      <3>1. runs'[s] = runs[s] /\ Exists(s) /\ runs[s].key \in Arguments
        BY <1>2, <2>4, RunNumbers DEF Exists
      <3>2. PICK k \in Arguments : k = runs[s].key
        BY <3>1
      <3>3. PICK f \in M!Ids : FailedFor(k, f) /\ runs[f].end \in runs[r].begin .. runs[s].begin
        BY <1>2, <2>2, <2>4, <3>1, <3>2 DEF Memo, Spaced
      <3>4. FailedFor(k, f)' /\ runs'[f].end = runs[f].end
        BY <1>10, <3>3
      <3>5. FailedFor(runs[s].key, f)'
        BY <3>1, <3>2, <3>4 DEF FailedFor
      <3> QED BY <2>2, <3>1, <3>3, <3>4, <3>5
    <2> QED BY <2>3, <2>4
  <1> QED BY <1>8, <1>9, <1>11, <1>12 DEF Memo

LEMMA RunEndKeeps ==
  ASSUME CallsBounds, CallsShape, Memo, how = "memo", NEW r \in M!Ids, M!RunEnds(r)
  PROVE  Memo'
  <1>1. PICK ok \in BOOLEAN :
           /\ runs' \in [M!Ids -> M!Run \cup {None}]
           /\ \A s \in M!Ids \ {r} : runs'[s] = runs[s]
           /\ Exists(r) /\ runs[r].end = None /\ Exists(r)' /\ runs[r] \in M!Run
           /\ runs'[r].key = runs[r].key /\ runs'[r].begin = runs[r].begin
           /\ runs'[r].end = now /\ runs'[r].ok = ok
           /\ cache' = IF how = "memo" /\ ~ok THEN [cache EXCEPT ![runs[r].key] = None] ELSE cache
           /\ UNCHANGED <<how, now, made, last, timers>>
           /\ now \in M!Times /\ now \in Nat /\ now # None
    BY OneRunEnds
  <1>2. /\ M!Made' = M!Made
        /\ \A s \in M!Ids : /\ Exists(s)' <=> Exists(s)
                            /\ runs'[s].key = runs[s].key /\ runs'[s].begin = runs[s].begin
    <2>1. M!Made' = M!Made
      BY <1>1 DEF M!Made
    <2>2. \A s \in M!Ids : /\ Exists(s)' <=> Exists(s)
                           /\ runs'[s].key = runs[s].key /\ runs'[s].begin = runs[s].begin
      BY <1>1 DEF Exists
    <2> QED BY <2>1, <2>2
  <1>3. \A k \in Arguments, f \in M!Ids : FailedFor(k, f) => FailedFor(k, f)' /\ runs'[f].end = runs[f].end
    BY <1>1 DEF FailedFor, Exists
  <1>4. Served'
    <2> SUFFICES ASSUME NEW c \in M!Made
                 PROVE  /\ made[c].run \in M!Ids /\ runs'[made[c].run] # None
                        /\ runs'[made[c].run].begin + Delay > made[c].at
                        /\ runs'[made[c].run].end # None /\ runs'[made[c].run].end < made[c].at
                             => runs'[made[c].run].ok
      BY <1>1, <1>2 DEF Served, Exists
    <2>1. /\ made[c].run \in M!Ids /\ Exists(made[c].run)
          /\ runs[made[c].run].begin + Delay > made[c].at
          /\ runs[made[c].run].end # None /\ runs[made[c].run].end < made[c].at => runs[made[c].run].ok
      BY DEF Memo, Served
    <2>2. made[c].at \in Nat /\ made[c].at <= now
      BY DEF CallsShape, M!Made, M!PromisedCall, M!Times
    <2>3. CASE made[c].run = r
      <3>1. ~(now < made[c].at)
        BY <1>1, <2>2
      <3> QED BY <1>1, <1>2, <2>1, <2>3, <3>1 DEF Exists
    <2>4. CASE made[c].run # r
      <3>1. runs'[made[c].run] = runs[made[c].run]
        BY <1>1, <2>1, <2>4
      <3> QED BY <1>2, <2>1, <3>1 DEF Exists
    <2> QED BY <2>3, <2>4
  <1>5. EntriesFit'
    <2> SUFFICES ASSUME NEW k \in Arguments, cache'[k] # None
                 PROVE  /\ runs'[cache'[k].run] # None /\ runs'[cache'[k].run].key = k
                        /\ cache'[k].expiry = runs'[cache'[k].run].begin + Delay
                        /\ runs'[cache'[k].run].end # None => runs'[cache'[k].run].ok
      BY DEF EntriesFit, Exists
    <2>1. cache'[k] = cache[k] /\ (~ok => k # runs[r].key)
      BY <1>1 DEF CallsShape
    <2>2. /\ cache[k].run \in M!Ids /\ Exists(cache[k].run) /\ runs[cache[k].run].key = k
          /\ cache[k].expiry = runs[cache[k].run].begin + Delay
          /\ runs[cache[k].run].end # None => runs[cache[k].run].ok
      BY <2>1 DEF Memo, EntriesFit, CallsShape, M!Entry
    <2>3. runs'[cache[k].run] # None /\ runs'[cache[k].run].key = k
      BY <1>1, <1>2, <2>1, <2>2 DEF Exists
    <2>4. cache[k].expiry = runs'[cache[k].run].begin + Delay
      BY <1>2, <2>2
    <2>5. runs'[cache[k].run].end # None => runs'[cache[k].run].ok
      <3>1. CASE cache[k].run = r
        BY <1>1, <2>1, <2>2, <3>1
      <3>2. CASE cache[k].run # r
        BY <1>1, <2>2, <3>2
      <3> QED BY <3>1, <3>2
    <2> QED BY <2>1, <2>3, <2>4, <2>5 DEF Exists
  <1>6. Covered'
    <2> SUFFICES ASSUME NEW s \in M!Ids, Exists(s)
                 PROVE  \/ runs[s].begin + Delay <= now
                        \/ /\ cache'[runs[s].key] # None
                           /\ cache'[runs[s].key].expiry >= runs[s].begin + Delay
                        \/ \E f \in M!Ids : FailedFor(runs[s].key, f)' /\ runs'[f].end \in runs[s].begin .. now
      BY <1>1, <1>2 DEF Covered, FailedFor
    <2>1. /\ runs[s].begin \in Nat /\ runs[s].begin <= now /\ runs[s].key \in Arguments
          /\ runs'[s].key = runs[s].key
      BY <1>2, RunNumbers
    <2>2. PICK k \in Arguments : k = runs[s].key
      BY <2>1
    <2>3. CASE ~ok /\ k = runs[r].key
      <3>1. FailedFor(k, r)' /\ runs'[r].end \in runs[s].begin .. now
        BY <1>1, <2>1, <2>3 DEF FailedFor, Exists
      <3>2. FailedFor(runs[s].key, r)'
        BY <2>1, <2>2, <3>1 DEF FailedFor
      <3> QED BY <3>1, <3>2
    <2>4. CASE ~(~ok /\ k = runs[r].key)
      <3>1. cache'[k] = cache[k]
        BY <1>1, <2>4 DEF CallsShape
      <3>2. \/ runs[s].begin + Delay <= now
            \/ cache[k] # None /\ cache[k].expiry >= runs[s].begin + Delay
            \/ \E f \in M!Ids : FailedFor(k, f) /\ runs[f].end \in runs[s].begin .. now
        BY <2>2 DEF Memo, Covered
      <3>3. \A f \in M!Ids : FailedFor(k, f) => FailedFor(runs[s].key, f)' /\ runs'[f].end = runs[f].end
        BY <1>3, <2>1, <2>2 DEF FailedFor
      <3> QED BY <2>2, <3>1, <3>2, <3>3
    <2> QED BY <2>3, <2>4
  <1>7. Spaced'
    <2> SUFFICES ASSUME NEW q \in M!Ids, NEW s \in M!Ids, Exists(q), Exists(s), q < s,
                        runs[q].key = runs[s].key, runs[s].begin < runs[q].begin + Delay
                 PROVE  \E f \in M!Ids : FailedFor(runs[s].key, f)' /\ runs'[f].end \in runs[q].begin .. runs[s].begin
      BY <1>2 DEF Spaced, FailedFor
    <2>1. PICK k \in Arguments : k = runs[s].key
      BY RunNumbers
    <2>2. PICK f \in M!Ids : FailedFor(k, f) /\ runs[f].end \in runs[q].begin .. runs[s].begin
      BY <2>1 DEF Memo, Spaced
    <2>3. FailedFor(k, f)' /\ runs'[f].end = runs[f].end
      BY <1>3, <2>2
    <2>4. FailedFor(runs[s].key, f)'
      BY <1>2, <2>1, <2>3 DEF FailedFor
    <2> QED BY <2>2, <2>3, <2>4
  <1>8. timers' = {}
    BY <1>1 DEF Memo
  <1> QED BY <1>4, <1>5, <1>6, <1>7, <1>8 DEF Memo

LEMMA TickKeeps ==
  ASSUME CallsBounds, CallsShape, Memo, M!Tick \/ UNCHANGED M!vars
  PROVE  Memo'
  <1>1. now \in Nat /\ now' \in Nat /\ now <= now' /\ UNCHANGED <<made, runs, cache, timers>>
    BY TickShape
  <1>2. M!Made' = M!Made
    BY <1>1 DEF M!Made
  <1>3. Covered'
    <2> SUFFICES ASSUME NEW s \in M!Ids, Exists(s)
                 PROVE  \/ runs[s].begin + Delay <= now'
                        \/ /\ cache[runs[s].key] # None
                           /\ cache[runs[s].key].expiry >= runs[s].begin + Delay
                        \/ \E f \in M!Ids : FailedFor(runs[s].key, f) /\ runs[f].end \in runs[s].begin .. now'
      BY <1>1 DEF Covered, Exists, FailedFor
    <2>1. runs[s].begin \in Nat
      BY RunNumbers
    <2>2. \/ runs[s].begin + Delay <= now
          \/ /\ cache[runs[s].key] # None
             /\ cache[runs[s].key].expiry >= runs[s].begin + Delay
          \/ \E f \in M!Ids : FailedFor(runs[s].key, f) /\ runs[f].end \in runs[s].begin .. now
      BY DEF Memo, Covered
    <2>3. CASE runs[s].begin + Delay <= now
      BY <1>1, <2>1, <2>3 DEF CallsBounds
    <2>4. ASSUME NEW f \in M!Ids, FailedFor(runs[s].key, f), runs[f].end \in runs[s].begin .. now
          PROVE  runs[f].end \in runs[s].begin .. now'
      BY <1>1, <2>1, <2>4
    <2> QED BY <2>2, <2>3, <2>4
  <1> QED BY <1>1, <1>2, <1>3 DEF Memo, Served, EntriesFit, Spaced, Exists, FailedFor

LEMMA CallsStep ==
  ASSUME CallsBounds
  PROVE  CallsInv /\ (M!Next \/ UNCHANGED M!vars) => CallsInv'
  <1> SUFFICES ASSUME CallsInv, M!Next \/ UNCHANGED M!vars PROVE CallsInv'
    OBVIOUS
  <1>1. CallsShape /\ CallsShape' /\ (how = "memo" => Memo)
    BY ShapeKept DEF CallsInv
  <1>2. how' = how
    BY DEF M!Next, M!Call, M!Tick, M!TimerFires, M!RunEnds, M!vars
  <1>3. ASSUME how = "memo" PROVE Memo'
    <2>1. Memo
      BY <1>1, <1>3
    <2>2. CASE M!Call
      <3>1. PICK key \in Arguments : M!memoizePromise(key)
        BY <1>3, <2>2 DEF M!Call, M!throttlePromise, M!debouncePromise
      <3>2. M!Fresh \in M!Ids /\ now' = now /\ now + Delay \in M!Times
        BY <1>1, <2>2 DEF M!Call, CallsShape, M!Times, CallsBounds
      <3>3. CASE M!Cached(key)
        BY <1>1, <2>1, <3>1, <3>2, <3>3, HitKeeps DEF M!memoizePromise
      <3>4. CASE ~M!Cached(key)
        BY <1>1, <2>1, <3>1, <3>2, <3>4, MissKeeps DEF M!memoizePromise
      <3> QED BY <3>3, <3>4
    <2>3. ASSUME NEW t \in timers PROVE Memo'
      BY <2>1 DEF Memo
    <2>4. ASSUME NEW r \in M!Ids, M!RunEnds(r) PROVE Memo'
      BY <1>1, <1>3, <2>1, <2>4, RunEndKeeps
    <2>5. CASE M!Tick \/ UNCHANGED M!vars
      BY <1>1, <2>1, <2>5, TickKeeps
    <2> QED BY <2>2, <2>3, <2>4, <2>5 DEF M!Next
  <1> QED BY <1>1, <1>2, <1>3 DEF CallsInv

LEMMA CallsStart ==
  ASSUME CallsBounds
  PROVE  M!Init => CallsInv
  <1> SUFFICES ASSUME M!Init PROVE CallsInv
    OBVIOUS
  <1>1. \A c \in M!Ids : made[c] = None /\ runs[c] = None
    BY DEF M!Init
  <1>2. M!Made = {} /\ 1 .. 0 = {} /\ 0 \in 0 .. MaxPromises
    BY <1>1 DEF M!Made, CallsBounds
  <1>3. 0 \in M!Times
    BY DEF M!Times, CallsBounds
  <1>4. CallsShape
    BY <1>1, <1>2, <1>3 DEF CallsShape, M!Init, Exists
  <1>5. Memo
    BY <1>1, <1>2 DEF M!Init, Memo, Served, EntriesFit, Covered, Spaced, Exists
  <1> QED BY <1>4, <1>5 DEF CallsInv

LEMMA MemoizedFollows ==
  ASSUME CallsBounds, CallsInv
  PROVE  M!Memoized
  <1> SUFFICES ASSUME how = "memo" PROVE M!Memoized
    BY DEF M!Memoized
  <1>1. Served /\ Spaced
    BY DEF CallsInv, Memo
  <1> QED BY <1>1 DEF M!Memoized, Served, Spaced, Exists, FailedFor

LEMMA CallsTyped ==
  ASSUME CallsInv
  PROVE  M!TypeOK
  BY DEF CallsInv, CallsShape, M!TypeOK

-----------------------------------------------------------------------------
(* Pools, for any number of jobs and any limit. *)

States == {"idle", "waiting", "running", "ok", "failed", "dropped"}
RunningOf(state) == {j \in Q!Ids : state[j] = "running"}
EachOnce(list) == \A m, n \in 1 .. Len(list) : list[m] = list[n] => m = n
Lists(list, state) == \A j \in Q!Ids : state[j] = "waiting" <=> \E n \in 1 .. Len(list) : list[n] = j
Batches == {"batch", "bulk", "serial"}

\* The queue lists what waits, each once, and nothing waits that could run.
Queued ==
  /\ at = "calls" /\ told = None
  /\ EachOnce(queue) /\ Lists(queue, jobs)
  /\ Q!Bounded

\* A loop that passed n: all before were started, all from there on were not.
Passed(state, n) ==
  \A j \in Q!Ids : IF j >= n THEN state[j] = "idle" ELSE state[j] \in {"running", "ok", "failed"}

\* What the loop has passed was started; when it goes on there is a job left.
Looped ==
  /\ queue = <<>> /\ Passed(jobs, next)
  /\ at \in {"loop", "race", "sleep", "all", "resolved", "rejected"}
  /\ at \in {"loop", "sleep"} => next <= Jobs

\* A rejected promise keeps its place.
Throttled ==
  /\ Looped
  /\ Q!Cardinality(Q!Executing(jobs, next)) <= Limit
  /\ at \in {"loop", "sleep"} => Q!Cardinality(Q!Executing(jobs, next)) < Limit
  /\ at = "all" => next > Jobs
  /\ how = "throttle" => told = None

Batched ==
  /\ Looped /\ told = None
  /\ Q!Cardinality(RunningOf(jobs)) <= Limit
  /\ at # "race" /\ (at \in {"loop", "sleep"} => RunningOf(jobs) = {})

PoolsInv ==
  /\ Q!TypeOK /\ Q!OutcomeFits
  /\ how = "queue" => Queued
  /\ how \in Q!Throttles => Throttled
  /\ how \in Batches => Batched

PoolsBounds == Jobs \in Nat \ {0} /\ Limit \in Nat \ {0} /\ None \notin Nat /\ None \notin Q!Tracker

LEMMA PoolsCardinality == \A X : Q!Cardinality(X) = Cardinality(X)
  BY DEF Q!Cardinality, Cardinality, Q!IsFiniteSet, IsFiniteSet

LEMMA JobsAreFinite ==
  ASSUME PoolsBounds
  PROVE  /\ IsFiniteSet(Q!Ids) /\ Cardinality(Q!Ids) = Jobs
         /\ \A X \in SUBSET Q!Ids : IsFiniteSet(X) /\ Cardinality(X) \in Nat
  <1>1. IsFiniteSet(1 .. Jobs) /\ Cardinality(1 .. Jobs) = IF 1 > Jobs THEN 0 ELSE Jobs - 1 + 1
    BY FS_Interval DEF PoolsBounds
  <1>2. IsFiniteSet(Q!Ids) /\ Cardinality(Q!Ids) = Jobs
    BY <1>1 DEF Q!Ids, PoolsBounds
  <1>3. ASSUME NEW X \in SUBSET Q!Ids PROVE IsFiniteSet(X) /\ Cardinality(X) \in Nat
    BY <1>2, FS_Subset, FS_CardinalityType
  <1> QED BY <1>2, <1>3

\* The first k of a list of different jobs are k jobs.
LEMMA FirstOfList ==
  ASSUME NEW list \in Seq(Q!Ids), EachOnce(list), NEW k \in 0 .. Len(list)
  PROVE  Cardinality({list[n] : n \in 1 .. k}) = k
  <1> DEFINE B == {list[n] : n \in 1 .. k}
             f == [n \in 1 .. k |-> list[n]]
  <1>1. IsFiniteSet(1 .. k) /\ Cardinality(1 .. k) = k
    <2>1. IsFiniteSet(1 .. k) /\ Cardinality(1 .. k) = IF 1 > k THEN 0 ELSE k - 1 + 1
      BY FS_Interval
    <2> QED BY <2>1
  <1>2. f \in Surjection(1 .. k, B)
    BY DEF Surjection
  <1>3. f \in Injection(1 .. k, B)
    <2>1. f \in [1 .. k -> B]
      OBVIOUS
    <2>2. \A m, n \in 1 .. k : f[m] = f[n] => m = n
      BY DEF EachOnce
    <2> QED BY <2>1, <2>2 DEF Injection, IsInjective
  <1>4. f \in Bijection(1 .. k, B)
    BY <1>2, <1>3 DEF Bijection
  <1> HIDE DEF f, B
  <1>5. Cardinality(1 .. k) = Cardinality(B)
    BY <1>1, <1>4, FS_Bijection DEF ExistsBijection
  <1> QED BY <1>1, <1>5 DEF B

\* processQueue starts as many as there are places, the first of the list.
LEMMA QueueProcessed ==
  ASSUME PoolsBounds, NEW state \in [Q!Ids -> States], NEW list \in Seq(Q!Ids),
         EachOnce(list), Lists(list, state),
         NEW running \in 0 .. Limit, Cardinality(RunningOf(state)) = running,
         Q!processQueue(state, list, running)
  PROVE  /\ jobs' \in [Q!Ids -> States] /\ queue' \in Seq(Q!Ids)
         /\ EachOnce(queue') /\ Lists(queue', jobs')
         /\ Cardinality(RunningOf(jobs')) <= Limit
         /\ queue' # <<>> => Cardinality(RunningOf(jobs')) = Limit
  <1> DEFINE free == IF running >= Limit THEN 0 ELSE Limit - running
             k == Q!Min(free, Len(list))
             started == SubSeq(list, 1, k)
             B == {list[n] : n \in 1 .. k}
  <1>1. /\ Limit \in Nat /\ Len(list) \in Nat /\ k \in 0 .. Len(list) /\ running + k <= Limit
        /\ k = Len(list) \/ running + k = Limit
    BY DEF PoolsBounds, Q!Min
  <1>2. jobs' = [j \in Q!Ids |-> IF \E n \in DOMAIN started : started[n] = j THEN "running" ELSE state[j]]
    BY DEF Q!processQueue
  <1>3. queue' = SubSeq(list, Len(started) + 1, Len(list))
    BY DEF Q!processQueue
  <1> HIDE DEF k
  <1>4. Len(started) = k /\ DOMAIN started = 1 .. k /\ \A n \in 1 .. k : started[n] = list[n]
    BY <1>1
  <1>5. \A j \in Q!Ids : jobs'[j] = IF j \in B THEN "running" ELSE state[j]
    BY <1>2, <1>4
  <1>6. /\ queue' \in Seq(Q!Ids) /\ Len(queue') = Len(list) - k
        /\ \A n \in 1 .. Len(list) - k : queue'[n] = list[n + k]
    <2>1. queue' = SubSeq(list, k + 1, Len(list))
      BY <1>3, <1>4
    <2> QED BY <1>1, <2>1
  <1> HIDE DEF started
  <1>7. jobs' \in [Q!Ids -> States]
    BY <1>2 DEF States
  <1>8. EachOnce(queue')
    <2> SUFFICES ASSUME NEW m \in 1 .. Len(queue'), NEW n \in 1 .. Len(queue'), queue'[m] = queue'[n]
                 PROVE  m = n
      BY DEF EachOnce
    <2>1. m + k \in 1 .. Len(list) /\ n + k \in 1 .. Len(list) /\ list[m + k] = list[n + k]
      BY <1>1, <1>6
    <2>2. m + k = n + k
      BY <2>1 DEF EachOnce
    <2> QED BY <1>1, <1>6, <2>2
  <1>9. \A j \in Q!Ids : (\E n \in 1 .. Len(list) : list[n] = j) <=> j \in B \/ \E n \in 1 .. Len(queue') : queue'[n] = j
    <2> SUFFICES ASSUME NEW j \in Q!Ids
                 PROVE  (\E n \in 1 .. Len(list) : list[n] = j) <=> j \in B \/ \E n \in 1 .. Len(queue') : queue'[n] = j
      OBVIOUS
    <2>1. ASSUME NEW n \in 1 .. Len(list), list[n] = j
          PROVE  j \in B \/ \E m \in 1 .. Len(queue') : queue'[m] = j
      <3>1. CASE n <= k
        BY <1>1, <2>1, <3>1
      <3>2. CASE n > k
        <4>1. n - k \in 1 .. Len(queue') /\ (n - k) + k = n
          BY <1>1, <1>6, <3>2
        <4> QED BY <1>6, <2>1, <4>1
      <3> QED BY <1>1, <3>1, <3>2
    <2>2. ASSUME NEW n \in 1 .. k PROVE n \in 1 .. Len(list)
      BY <1>1
    <2>3. ASSUME NEW n \in 1 .. Len(queue') PROVE n + k \in 1 .. Len(list) /\ queue'[n] = list[n + k]
      BY <1>1, <1>6
    <2> QED BY <2>1, <2>2, <2>3
  <1>10. \A n \in 1 .. Len(queue') : queue'[n] \notin B
    <2> SUFFICES ASSUME NEW n \in 1 .. Len(queue'), NEW m \in 1 .. k, queue'[n] = list[m] PROVE FALSE
      OBVIOUS
    <2>1. n + k \in 1 .. Len(list) /\ m \in 1 .. Len(list) /\ list[n + k] = list[m] /\ n + k # m
      BY <1>1, <1>6
    <2> QED BY <2>1 DEF EachOnce
  <1>11. Lists(queue', jobs')
    BY <1>5, <1>9, <1>10 DEF Lists
  <1>12. RunningOf(jobs') = RunningOf(state) \cup B /\ RunningOf(state) \cap B = {} /\ B \subseteq Q!Ids
    <2>1. ASSUME NEW n \in 1 .. k PROVE list[n] \in Q!Ids /\ state[list[n]] = "waiting"
      BY <1>1 DEF Lists
    <2> QED BY <1>5, <2>1 DEF RunningOf
  <1>13. Cardinality(B) = k
    BY <1>1, FirstOfList
  <1>14. Cardinality(RunningOf(jobs')) = running + k
    <2>1. IsFiniteSet(RunningOf(state)) /\ IsFiniteSet(B)
      BY <1>12, JobsAreFinite DEF RunningOf
    <2>2. Cardinality(RunningOf(state) \cup B) =
            Cardinality(RunningOf(state)) + Cardinality(B) - Cardinality(RunningOf(state) \cap B)
      BY <2>1, FS_Union
    <2>3. Cardinality(RunningOf(state) \cap B) = 0
      BY <1>12, FS_EmptySet
    <2> HIDE DEF B
    <2> QED BY <1>1, <1>12, <1>13, <2>2, <2>3
  <1>15. queue' # <<>> => k # Len(list)
    BY <1>1, <1>6
  <1> QED BY <1>1, <1>6, <1>7, <1>8, <1>11, <1>14, <1>15

\* Every step of the queue leaves it so, whichever way it goes.
LEMMA QueueLeft ==
  ASSUME PoolsBounds, PoolsInv, how = "queue",
         NEW state \in [Q!Ids -> States], NEW list \in Seq(Q!Ids), EachOnce(list), Lists(list, state),
         NEW running \in 0 .. Limit, Cardinality(RunningOf(state)) = running,
         \/ paused' /\ jobs' = state /\ queue' = list
         \/ Q!processQueue(state, list, running),
         paused' \in BOOLEAN, UNCHANGED <<how, delayed, next, at, told>>
  PROVE  PoolsInv'
  <1>1. /\ jobs' \in [Q!Ids -> States] /\ queue' \in Seq(Q!Ids)
        /\ EachOnce(queue') /\ Lists(queue', jobs')
        /\ Cardinality(RunningOf(jobs')) <= Limit
        /\ ~paused' /\ queue' # <<>> => Cardinality(RunningOf(jobs')) = Limit
    <2>1. CASE paused' /\ jobs' = state /\ queue' = list
      BY <2>1 DEF PoolsBounds
    <2>2. CASE Q!processQueue(state, list, running)
      BY <2>2, QueueProcessed
    <2> QED BY <2>1, <2>2
  <1>2. EachOnce(queue)' /\ Lists(queue, jobs)'
    BY <1>1 DEF EachOnce, Lists
  <1>3. Q!In({"running"})' = RunningOf(jobs')
    BY DEF Q!In, RunningOf
  <1>4. Q!Bounded'
    BY <1>1, <1>3, PoolsCardinality DEF Q!Bounded
  <1>5. at = "calls" /\ told = None
    BY DEF PoolsInv, Queued
  <1>6. Queued'
    BY <1>2, <1>4, <1>5 DEF Queued
  <1>7. Q!TypeOK'
    BY <1>1 DEF PoolsInv, Q!TypeOK, States
  <1>8. Q!OutcomeFits'
    BY <1>5 DEF Q!OutcomeFits
  <1> QED BY <1>6, <1>7, <1>8 DEF PoolsInv, Q!Throttles, Batches

LEMMA QueueStep ==
  ASSUME PoolsBounds, PoolsInv, how = "queue", Q!Next \/ UNCHANGED Q!vars
  PROVE  PoolsInv'
  <1> DEFINE running == Cardinality(RunningOf(jobs))
  <1>1. /\ jobs \in [Q!Ids -> States] /\ queue \in Seq(Q!Ids) /\ paused \in BOOLEAN
        /\ at = "calls" /\ EachOnce(queue) /\ Lists(queue, jobs)
    BY DEF PoolsInv, Q!TypeOK, Queued, States
  <1>2. Q!In({"running"}) = RunningOf(jobs) /\ Q!Cardinality(Q!In({"running"})) = running
    BY PoolsCardinality DEF Q!In, RunningOf
  <1>3. running \in 0 .. Limit
    <2>1. running \in Nat
      BY JobsAreFinite DEF RunningOf
    <2>2. running <= Limit
      BY <1>2 DEF PoolsInv, Queued, Q!Bounded
    <2> QED BY <2>1, <2>2 DEF PoolsBounds
  <1> HIDE DEF running
  <1>4. ASSUME NEW j \in Q!Ids, Q!add(j) PROVE PoolsInv'
    <2> DEFINE state == [jobs EXCEPT ![j] = "waiting"]
               list == Append(queue, j)
    <2>1. /\ jobs[j] = "idle" /\ UNCHANGED <<how, delayed, paused, next, at, told>>
          /\ IF paused THEN jobs' = state /\ queue' = list ELSE Q!processQueue(state, list, running)
      BY <1>2, <1>4 DEF Q!add
    <2>2. state \in [Q!Ids -> States] /\ state[j] = "waiting" /\ \A i \in Q!Ids \ {j} : state[i] = jobs[i]
      BY <1>1 DEF States
    <2>3. /\ list \in Seq(Q!Ids) /\ Len(list) = Len(queue) + 1 /\ list[Len(queue) + 1] = j
          /\ \A n \in 1 .. Len(queue) : list[n] = queue[n]
      BY <1>1
    <2>4. Len(queue) \in Nat /\ \A n \in 1 .. Len(list) : n \in 1 .. Len(queue) \/ n = Len(queue) + 1
      BY <1>1, <2>3
    <2>5. \A n \in 1 .. Len(queue) : queue[n] # j
      BY <1>1, <2>1 DEF Lists
    <2> HIDE DEF state, list
    <2>6. EachOnce(list)
      BY <1>1, <2>3, <2>4, <2>5 DEF EachOnce
    <2>7. Lists(list, state)
      <3>1. Len(queue) + 1 \in 1 .. Len(list) /\ 1 .. Len(queue) \subseteq 1 .. Len(list)
        BY <2>3, <2>4
      <3> QED BY <1>1, <2>2, <2>3, <2>4, <2>5, <3>1 DEF Lists
    <2>8. RunningOf(state) = RunningOf(jobs)
      BY <2>1, <2>2 DEF RunningOf
    <2>9. Cardinality(RunningOf(state)) = running
      BY <2>8 DEF running
    <2> QED BY <1>1, <1>3, <2>1, <2>2, <2>3, <2>6, <2>7, <2>9, QueueLeft
  <1>5. CASE Q!pause
    <2>1. paused' = TRUE /\ jobs' = jobs /\ queue' = queue /\ UNCHANGED <<how, delayed, next, at, told>>
      BY <1>5 DEF Q!pause
    <2>2. paused' \in BOOLEAN
      BY <2>1
    <2>3. Cardinality(RunningOf(jobs)) = running
      BY DEF running
    <2> QED BY <1>1, <1>3, <2>1, <2>2, <2>3, QueueLeft
  <1>6. CASE Q!resume
    <2>1. /\ paused' = FALSE /\ Q!processQueue(jobs, queue, running)
          /\ UNCHANGED <<how, delayed, next, at, told>>
      BY <1>2, <1>6 DEF Q!resume
    <2>2. paused' \in BOOLEAN
      BY <2>1
    <2>3. Cardinality(RunningOf(jobs)) = running
      BY DEF running
    <2> QED BY <1>1, <1>3, <2>1, <2>2, <2>3, QueueLeft
  <1>7. CASE Q!clear
    <2>1. /\ queue' = <<>> /\ UNCHANGED <<how, delayed, paused, next, at, told>>
          /\ jobs' = [j \in Q!Ids |-> IF jobs[j] = "waiting" THEN "dropped" ELSE jobs[j]]
      BY <1>7 DEF Q!clear
    <2>2. /\ jobs' \in [Q!Ids -> States] /\ RunningOf(jobs') = RunningOf(jobs)
          /\ \A j \in Q!Ids : jobs'[j] # "waiting"
      BY <1>1, <2>1 DEF States, RunningOf
    <2>3. Q!TypeOK'
      BY <2>1, <2>2 DEF PoolsInv, Q!TypeOK, States
    <2>4. Q!In({"running"})' = RunningOf(jobs')
      BY DEF Q!In, RunningOf
    <2>5. Q!Bounded'
      BY <1>2, <1>3, <2>1, <2>2, <2>4, PoolsCardinality DEF Q!Bounded, running
    <2>6. EachOnce(queue)' /\ Lists(queue, jobs)'
      <3>1. 1 .. Len(queue') = {}
        BY <2>1
      <3> QED BY <2>2, <3>1 DEF EachOnce, Lists
    <2>7. Queued'
      BY <2>1, <2>5, <2>6 DEF PoolsInv, Queued
    <2>8. Q!OutcomeFits'
      BY <2>1 DEF PoolsInv, Queued, Q!OutcomeFits
    <2> QED BY <2>1, <2>3, <2>7, <2>8 DEF PoolsInv, Q!Throttles, Batches
  <1>8. ASSUME NEW j \in Q!Ids, NEW result \in Q!Ended, Q!QueuedEnds(j, result) PROVE PoolsInv'
    <2> DEFINE state == [jobs EXCEPT ![j] = result]
    <2>1. /\ jobs[j] = "running" /\ UNCHANGED <<how, delayed, paused, next, at, told>>
          /\ IF paused THEN jobs' = state /\ queue' = queue ELSE Q!processQueue(state, queue, running - 1)
      BY <1>2, <1>8 DEF Q!QueuedEnds
    <2>2. /\ state \in [Q!Ids -> States] /\ state[j] = result /\ \A i \in Q!Ids \ {j} : state[i] = jobs[i]
          /\ result \notin {"waiting", "running"}
      BY <1>1 DEF States, Q!Ended
    <2> HIDE DEF state
    <2>3. Lists(queue, state)
      BY <1>1, <2>1, <2>2 DEF Lists
    <2>4. RunningOf(state) = RunningOf(jobs) \ {j} /\ j \in RunningOf(jobs)
      BY <2>1, <2>2 DEF RunningOf
    <2>5. Cardinality(RunningOf(state)) = running - 1
      <3>1. IsFiniteSet(RunningOf(jobs))
        BY JobsAreFinite DEF RunningOf
      <3> QED BY <2>4, <3>1, FS_RemoveElement DEF running
    <2>6. running - 1 \in 0 .. Limit
      <3>1. Cardinality(RunningOf(state)) \in Nat
        BY JobsAreFinite DEF RunningOf
      <3> QED BY <1>3, <2>5, <3>1 DEF PoolsBounds
    <2> QED BY <1>1, <2>1, <2>2, <2>3, <2>5, <2>6, QueueLeft
  <1>9. CASE UNCHANGED Q!vars
    <2>1. UNCHANGED <<how, delayed, jobs, queue, paused, next, at, told>>
      BY <1>9 DEF Q!vars
    <2>2. Q!TypeOK' /\ Queued' /\ Q!OutcomeFits'
      BY <2>1 DEF PoolsInv, Q!TypeOK, Queued, EachOnce, Lists, Q!Bounded, Q!In, Q!OutcomeFits
    <2> QED BY <2>1, <2>2 DEF PoolsInv, Q!Throttles, Batches
  <1>10. ~Q!LoopStep /\ \A j \in Q!Ids : \A result \in Q!Ended : ~Q!ThrottledEnds(j, result) /\ ~Q!BatchedEnds(j, result)
    BY <1>1 DEF Q!LoopStep, Q!throttlePromises, Q!Awakes, Q!batchPromises, Q!ThrottledEnds, Q!BatchedEnds,
               Q!Throttles
  <1> QED BY <1>4, <1>5, <1>6, <1>7, <1>8, <1>9, <1>10 DEF Q!Next, Q!JobEnds

\* Where the loop of throttlePromises may be.
Fits(state, n, where) ==
  /\ where \in {"loop", "race", "sleep", "all", "resolved", "rejected"}
  /\ where \in {"loop", "sleep"} => n <= Jobs /\ Cardinality(Q!Executing(state, n)) < Limit
  /\ where = "all" => n > Jobs
  /\ where = "resolved" => n > Jobs /\ Q!Executing(state, n) = {}
  /\ where = "rejected" => Q!Noticed(state, n)

LEMMA AtAllFits ==
  ASSUME NEW state, NEW n \in Nat, n > Jobs
  PROVE  Fits(state, n, Q!AtAll(state, n))
  BY DEF Fits, Q!AtAll

LEMMA PastFits ==
  ASSUME PoolsBounds, NEW state, NEW n \in Nat, Cardinality(Q!Executing(state, n)) < Limit
  PROVE  Fits(state, n, Q!Past(state, n))
  <1>1. CASE n > Jobs
    BY <1>1, AtAllFits DEF Q!Past
  <1>2. CASE ~(n > Jobs)
    <2>1. n <= Jobs /\ Q!Past(state, n) \in {"loop", "sleep"}
      BY <1>2 DEF Q!Past, PoolsBounds
    <2> QED BY <2>1 DEF Fits
  <1> QED BY <1>1, <1>2

LEMMA AtRaceFits ==
  ASSUME PoolsBounds, NEW state, NEW n \in Nat
  PROVE  Fits(state, n, Q!AtRace(state, n))
  <1>1. CASE Cardinality(Q!Executing(state, n)) < Limit
    BY <1>1, PastFits, PoolsCardinality DEF Q!AtRace
  <1>2. CASE ~(Cardinality(Q!Executing(state, n)) < Limit)
    BY <1>2, PoolsCardinality DEF Q!AtRace, Fits
  <1> QED BY <1>1, <1>2

\* What executeWithProgress tells.
LEMMA ReportTells ==
  ASSUME PoolsBounds, NEW state
  PROVE  /\ Q!Report(state) \in Q!Tracker
         /\ Q!Report(state).isComplete <=> {j \in Q!Ids : state[j] \in Q!Ended} = Q!Ids
  <1> DEFINE X == {j \in Q!Ids : state[j] = "ok"}
             Y1 == {j \in Q!Ids : state[j] = "failed"}
             Z == {j \in Q!Ids : state[j] \in Q!Ended}
  <1>1. Z = X \cup Y1 /\ X \cap Y1 = {} /\ X \subseteq Q!Ids /\ Y1 \subseteq Q!Ids /\ Z \subseteq Q!Ids
    BY DEF Q!Ended
  <1>2. Q!Report(state) = [completed |-> Cardinality(X), failed |-> Cardinality(Y1),
                           isComplete |-> (Cardinality(X) + Cardinality(Y1) = Jobs)]
    BY PoolsCardinality DEF Q!Report
  <1> HIDE DEF X, Y1
  <1>3. /\ IsFiniteSet(X) /\ IsFiniteSet(Y1) /\ IsFiniteSet(Z)
        /\ Cardinality(X) \in Nat /\ Cardinality(Y1) \in Nat /\ Cardinality(Z) \in Nat
    <2> HIDE DEF Z
    <2> QED BY <1>1, JobsAreFinite
  <1>4. Cardinality(X \cap Y1) = 0
    BY <1>1, FS_EmptySet
  <1>5. Cardinality(Z) = Cardinality(X) + Cardinality(Y1)
    <2> HIDE DEF Z
    <2>1. Cardinality(X \cup Y1) = Cardinality(X) + Cardinality(Y1) - Cardinality(X \cap Y1)
      BY <1>3, FS_Union
    <2> QED BY <1>1, <1>3, <1>4, <2>1
  <1>6. Cardinality(Z) <= Jobs /\ (Cardinality(Z) = Jobs <=> Z = Q!Ids)
    <2> HIDE DEF Z
    <2>1. IsFiniteSet(Q!Ids) /\ Cardinality(Q!Ids) = Jobs
      BY JobsAreFinite
    <2>2. Cardinality(Z) <= Cardinality(Q!Ids) /\ (Cardinality(Q!Ids) = Cardinality(Z) => Q!Ids = Z)
      BY <1>1, <2>1, FS_Subset
    <2> QED BY <2>1, <2>2
  <1>7. Cardinality(X) \in 0 .. Jobs /\ Cardinality(Y1) \in 0 .. Jobs
    BY <1>3, <1>5, <1>6 DEF PoolsBounds
  <1>8. (Cardinality(X) + Cardinality(Y1) = Jobs) \in BOOLEAN
    OBVIOUS
  <1>9. Q!Report(state) \in Q!Tracker
    BY <1>2, <1>7, <1>8 DEF Q!Tracker
  <1>10. Q!Report(state).isComplete <=> Cardinality(Z) = Jobs
    <2>1. Q!Report(state).isComplete = (Cardinality(X) + Cardinality(Y1) = Jobs)
      BY <1>2
    <2> QED BY <1>5, <2>1
  <1> QED BY <1>6, <1>9, <1>10

\* The functions that a turn starts.
LEMMA StartedForms ==
  ASSUME PoolsBounds, Q!TypeOK, Passed(jobs, next), NEW end \in next .. Jobs
  PROVE  /\ Q!Started(end) \in [Q!Ids -> States]
         /\ \A j \in Q!Ids : Q!Started(end)[j] = IF j \in next .. end THEN "running" ELSE jobs[j]
         /\ Passed(Q!Started(end), end + 1)
         /\ next \in Q!Ids /\ end + 1 \in 1 .. Jobs + 1
         /\ {j \in Q!Ids : jobs[j] \in Q!Ended} # Q!Ids
         /\ {j \in Q!Ids : Q!Started(end)[j] \in Q!Ended} # Q!Ids
  <1>1. next \in 1 .. Jobs + 1 /\ Jobs \in Nat /\ jobs \in [Q!Ids -> States]
    BY DEF Q!TypeOK, PoolsBounds, States
  <1>2. next \in Q!Ids /\ end + 1 \in 1 .. Jobs + 1 /\ next \in next .. end /\ next \in Nat /\ end \in Nat
    BY <1>1 DEF Q!Ids
  <1>3. /\ Q!Started(end) \in [Q!Ids -> States]
        /\ \A j \in Q!Ids : Q!Started(end)[j] = IF j \in next .. end THEN "running" ELSE jobs[j]
    BY <1>1 DEF Q!Started, States
  <1>4. Passed(Q!Started(end), end + 1)
    <2> SUFFICES ASSUME NEW j \in Q!Ids
                 PROVE  IF j >= end + 1 THEN Q!Started(end)[j] = "idle"
                        ELSE Q!Started(end)[j] \in {"running", "ok", "failed"}
      BY DEF Passed
    <2>1. j \in Nat /\ IF j >= next THEN jobs[j] = "idle" ELSE jobs[j] \in {"running", "ok", "failed"}
      BY DEF Passed, Q!Ids
    <2>2. Q!Started(end)[j] = IF j \in next .. end THEN "running" ELSE jobs[j]
      BY <1>3
    <2> QED BY <1>2, <2>1, <2>2
  <1>5. jobs[next] = "idle" /\ Q!Started(end)[next] = "running"
    BY <1>2, <1>3 DEF Passed
  <1> QED BY <1>2, <1>3, <1>4, <1>5 DEF Q!Ended

LEMMA RunningExecute ==
  ASSUME PoolsBounds, NEW state, NEW n \in Nat, Passed(state, n)
  PROVE  /\ RunningOf(state) \subseteq Q!Executing(state, n) /\ Q!Executing(state, n) \subseteq Q!Ids
         /\ IsFiniteSet(Q!Executing(state, n)) /\ Cardinality(Q!Executing(state, n)) \in Nat
         /\ Cardinality(RunningOf(state)) <= Cardinality(Q!Executing(state, n))
  <1>1. \A j \in Q!Ids : state[j] = "running" => j < n
    <2> SUFFICES ASSUME NEW j \in Q!Ids, state[j] = "running" PROVE j < n
      OBVIOUS
    <2>1. ~(j >= n)
      BY DEF Passed
    <2> QED BY <2>1 DEF Q!Ids
  <1>2. RunningOf(state) \subseteq Q!Executing(state, n) /\ Q!Executing(state, n) \subseteq Q!Ids
    BY <1>1 DEF RunningOf, Q!Executing
  <1>3. IsFiniteSet(Q!Executing(state, n)) /\ Cardinality(Q!Executing(state, n)) \in Nat
    BY <1>2, JobsAreFinite
  <1>4. Cardinality(RunningOf(state)) <= Cardinality(Q!Executing(state, n))
    BY <1>2, <1>3, FS_Subset
  <1> QED BY <1>2, <1>3, <1>4

\* Every step of throttlePromises leaves it so.
LEMMA ThrottleLeft ==
  ASSUME PoolsBounds, PoolsInv, how \in Q!Throttles, jobs' \in [Q!Ids -> States],
         next' \in 1 .. Jobs + 1, Passed(jobs', next'),
         Cardinality(Q!Executing(jobs', next')) <= Limit,
         \/ Fits(jobs', next', at')
         \/ at' = "rejected" /\ \E j \in Q!Ids : jobs'[j] = "failed" /\ how # "tolerant",
         \/ how # "throttle" /\ told' = Q!Report(jobs')
         \/ how = "throttle" /\ told' = told
         \/ /\ told' = told
            /\ {j \in Q!Ids : jobs[j] \in Q!Ended} = Q!Ids <=> {j \in Q!Ids : jobs'[j] \in Q!Ended} = Q!Ids,
         UNCHANGED <<how, delayed, queue, paused>>
  PROVE  PoolsInv'
  <1>1. /\ next' \in Nat /\ Jobs \in Nat /\ Limit \in Nat
        /\ at' \in {"loop", "race", "sleep", "all", "resolved", "rejected"}
    BY DEF PoolsBounds, Fits
  <1>2. /\ queue = <<>> /\ (how = "throttle" => told = None) /\ (told = None \/ told \in Q!Tracker)
        /\ told # None => (told.isComplete <=> {j \in Q!Ids : jobs[j] \in Q!Ended} = Q!Ids)
    BY DEF PoolsInv, Throttled, Looped, Q!OutcomeFits, Q!In, Q!TypeOK, Q!Tracker
  <1>3. /\ told' = None \/ told' \in Q!Tracker
        /\ told' # None => (told'.isComplete <=> {j \in Q!Ids : jobs'[j] \in Q!Ended} = Q!Ids)
    <2>1. CASE told' = Q!Report(jobs')
      BY <2>1, ReportTells
    <2>2. CASE told' # Q!Report(jobs')
      BY <1>2, <2>2
    <2> QED BY <2>1, <2>2
  <1>4. Q!TypeOK'
    BY <1>1, <1>3 DEF PoolsInv, Q!TypeOK, States, Q!Tracker
  <1>5. Passed(jobs, next)' /\ Q!Executing(jobs, next)' = Q!Executing(jobs', next')
    BY DEF Passed, Q!Executing, Q!Rejected
  <1>6. Throttled'
    BY <1>1, <1>2, <1>5, PoolsCardinality DEF Throttled, Looped, Fits
  <1>7. at' = "resolved" => /\ {j \in Q!Ids : jobs'[j] \in Q!Ended} = Q!Ids
                            /\ how # "tolerant" => \A j \in Q!Ids : jobs'[j] # "failed"
    <2> SUFFICES ASSUME at' = "resolved", NEW j \in Q!Ids
                 PROVE  jobs'[j] \in Q!Ended /\ (how # "tolerant" => jobs'[j] # "failed")
      OBVIOUS
    <2>1. next' > Jobs /\ Q!Executing(jobs', next') = {}
      BY DEF Fits
    <2>2. ~(j >= next') /\ j < next'
      BY <1>1, <2>1 DEF Q!Ids
    <2>3. jobs'[j] \in {"running", "ok", "failed"}
      BY <2>2 DEF Passed
    <2>4. ~(jobs'[j] = "running" \/ Q!Rejected(jobs', j))
      BY <2>1, <2>2 DEF Q!Executing
    <2> QED BY <2>3, <2>4 DEF Q!Rejected, Q!Ended
  <1>8. at' = "rejected" => (\E j \in Q!Ids : jobs'[j] = "failed") /\ how # "tolerant"
    BY DEF Fits, Q!Noticed, Q!Executing, Q!Rejected
  <1>9. Q!OutcomeFits'
    BY <1>3, <1>7, <1>8 DEF Q!OutcomeFits, Q!In, Q!Throttles
  <1> QED BY <1>4, <1>6, <1>9 DEF PoolsInv, Q!Throttles, Batches

LEMMA ThrottleStep ==
  ASSUME PoolsBounds, PoolsInv, how \in Q!Throttles, Q!Next \/ UNCHANGED Q!vars
  PROVE  PoolsInv'
  <1> DEFINE executing == Q!Executing(jobs, next)
  <1>1. /\ jobs \in [Q!Ids -> States] /\ next \in 1 .. Jobs + 1 /\ Passed(jobs, next) /\ queue = <<>>
        /\ at \in {"loop", "race", "sleep", "all", "resolved", "rejected"}
        /\ Cardinality(executing) <= Limit
        /\ at \in {"loop", "sleep"} => next <= Jobs /\ Cardinality(executing) < Limit
        /\ at = "all" => next > Jobs
    BY PoolsCardinality DEF PoolsInv, Throttled, Looped, Q!TypeOK, States
  <1>2. next \in Nat /\ Jobs \in Nat /\ Limit \in Nat
    BY <1>1 DEF PoolsBounds
  <1>3. IsFiniteSet(executing) /\ Cardinality(executing) \in Nat
    BY <1>1, <1>2, RunningExecute
  <1>4. CASE Q!throttlePromises
    <2>1. /\ at = "loop" /\ jobs' = Q!Started(next) /\ next' = next + 1 /\ at' = Q!AtRace(jobs', next')
          /\ UNCHANGED <<how, delayed, queue, paused, told>>
      BY <1>4 DEF Q!throttlePromises
    <2>2. next \in next .. Jobs /\ Cardinality(executing) + 1 <= Limit
      BY <1>1, <1>2, <1>3, <2>1
    <2>3. /\ jobs' \in [Q!Ids -> States] /\ Passed(jobs', next') /\ next' \in 1 .. Jobs + 1 /\ next \in Q!Ids
          /\ \A j \in Q!Ids : jobs'[j] = IF j \in next .. next THEN "running" ELSE jobs[j]
          /\ {j \in Q!Ids : jobs[j] \in Q!Ended} # Q!Ids
          /\ {j \in Q!Ids : jobs'[j] \in Q!Ended} # Q!Ids
      BY <2>1, <2>2, StartedForms DEF PoolsInv, Throttled, Looped
    <2>4. Q!Executing(jobs', next') = executing \cup {next}
      <3>1. \A j \in Q!Ids : /\ j < next + 1 <=> j < next \/ j = next
                             /\ j \in next .. next <=> j = next
                             /\ ~(next < next)
        BY <1>2 DEF Q!Ids
      <3> QED BY <2>1, <2>3, <3>1 DEF Q!Executing, Q!Rejected
    <2>5. Cardinality(Q!Executing(jobs', next')) <= Limit
      <3>1. Cardinality(executing \cup {next}) = IF next \in executing THEN Cardinality(executing)
                                                 ELSE Cardinality(executing) + 1
        BY <1>3, FS_AddElement
      <3> HIDE DEF executing
      <3> QED BY <1>1, <1>2, <1>3, <2>2, <2>4, <3>1
    <2>6. Fits(jobs', next', at')
      BY <1>2, <2>1, <2>3, AtRaceFits
    <2> QED BY <2>1, <2>3, <2>5, <2>6, ThrottleLeft
  <1>5. CASE Q!Awakes
    <2>1. at = "sleep" /\ at' = "loop" /\ UNCHANGED <<how, delayed, jobs, queue, paused, next, told>>
      BY <1>5 DEF Q!Awakes
    <2>2. Fits(jobs', next', at')
      BY <1>1, <2>1 DEF Fits
    <2> QED BY <1>1, <2>1, <2>2, ThrottleLeft
  <1>6. ASSUME NEW j \in Q!Ids, NEW result \in Q!Ended, Q!ThrottledEnds(j, result) PROVE PoolsInv'
    <2>1. /\ jobs[j] = "running" /\ jobs' = [jobs EXCEPT ![j] = result] /\ at' = Q!Goes(jobs')
          /\ told' = IF how = "throttle" THEN told ELSE Q!Report(jobs')
          /\ UNCHANGED <<how, delayed, queue, paused, next>>
      BY <1>6 DEF Q!ThrottledEnds
    <2>2. at # "loop"
      BY <1>6 DEF Q!ThrottledEnds
    <2>3. /\ jobs' \in [Q!Ids -> States] /\ jobs'[j] = result /\ \A i \in Q!Ids \ {j} : jobs'[i] = jobs[i]
          /\ result \in {"ok", "failed"}
      BY <1>1, <2>1 DEF States, Q!Ended
    <2>4. Passed(jobs', next')
      <3>1. next' = next /\ ~(j >= next)
        BY <1>1, <2>1 DEF Passed
      <3> QED BY <1>1, <2>3, <3>1 DEF Passed
    <2>5. j \in executing
      BY <1>1, <1>2, <2>1, RunningExecute DEF RunningOf
    <2>6. Q!Executing(jobs', next) = IF Q!Rejected(jobs', j) THEN executing ELSE executing \ {j}
      <3>1. Q!Rejected(jobs', j) <=> jobs'[j] = "failed" /\ how # "tolerant"
        BY DEF Q!Rejected
      <3> QED BY <2>1, <2>3, <2>5, <3>1 DEF Q!Executing, Q!Rejected
    <2>7. Cardinality(executing \ {j}) = Cardinality(executing) - 1
      BY <1>3, <2>5, FS_RemoveElement
    <2> HIDE DEF executing
    <2>8. /\ Cardinality(Q!Executing(jobs', next)) <= Cardinality(executing)
          /\ Cardinality(Q!Executing(jobs', next)) \in Nat
          /\ ~Q!Rejected(jobs', j) => Cardinality(Q!Executing(jobs', next)) < Limit
      BY <1>1, <1>2, <1>3, <2>1, <2>4, <2>6, <2>7, RunningExecute
    <2>9. Cardinality(Q!Executing(jobs', next')) <= Limit
      BY <1>1, <1>2, <1>3, <2>1, <2>8
    <2>10. Q!Rejected(jobs', j) => Q!Noticed(jobs', next)
      BY <2>5, <2>6 DEF Q!Noticed
    <2>11. \/ Fits(jobs', next', at')
           \/ at' = "rejected" /\ \E i \in Q!Ids : jobs'[i] = "failed" /\ how # "tolerant"
      <3>1. CASE at = "race"
        <4>1. at' = IF Q!Noticed(jobs', next) THEN "rejected" ELSE Q!Past(jobs', next)
          BY <2>1, <3>1 DEF Q!Goes
        <4>2. CASE Q!Noticed(jobs', next)
          BY <2>1, <4>1, <4>2 DEF Fits
        <4>3. CASE ~Q!Noticed(jobs', next)
          BY <1>2, <2>1, <2>8, <2>10, <4>1, <4>3, PastFits
        <4> QED BY <4>2, <4>3
      <3>2. CASE at = "all"
        <4>1. at' = Q!AtAll(jobs', next)
          BY <2>1, <3>2 DEF Q!Goes
        <4> QED BY <1>1, <1>2, <2>1, <3>2, <4>1, AtAllFits
      <3>3. CASE at = "sleep"
        <4>1. at' = "sleep"
          BY <2>1, <3>3 DEF Q!Goes
        <4>2. Cardinality(Q!Executing(jobs', next)) < Limit /\ next <= Jobs
          BY <1>1, <1>2, <1>3, <2>8, <3>3
        <4> QED BY <2>1, <4>1, <4>2 DEF Fits
      <3>4. CASE at = "rejected"
        <4>1. at' = "rejected" /\ how # "tolerant"
          BY <2>1, <3>4 DEF Q!Goes, PoolsInv, Q!OutcomeFits
        <4>2. PICK i \in Q!Ids : jobs[i] = "failed"
          BY <3>4 DEF PoolsInv, Q!OutcomeFits, Q!In
        <4>3. jobs'[i] = "failed"
          BY <2>1, <2>3, <4>2
        <4> QED BY <4>1, <4>3
      <3>5. at # "resolved"
        <4> SUFFICES ASSUME at = "resolved" PROVE FALSE
          OBVIOUS
        <4>1. jobs[j] \in Q!Ended
          BY DEF PoolsInv, Q!OutcomeFits, Q!In
        <4> QED BY <2>1, <4>1 DEF Q!Ended
      <3> QED BY <1>1, <2>2, <3>1, <3>2, <3>3, <3>4, <3>5
    <2>12. next' \in 1 .. Jobs + 1
      BY <1>1, <2>1
    <2> QED BY <2>1, <2>3, <2>4, <2>9, <2>11, <2>12, ThrottleLeft
  <1>7. CASE UNCHANGED Q!vars
    <2>1. UNCHANGED <<how, delayed, jobs, queue, paused, next, at, told>>
      BY <1>7 DEF Q!vars
    <2>2. Q!TypeOK' /\ Q!OutcomeFits' /\ Throttled'
      BY <2>1 DEF PoolsInv, Q!TypeOK, Throttled, Looped, Passed, Q!Executing, Q!Rejected, Q!In, Q!OutcomeFits
    <2> QED BY <2>1, <2>2 DEF PoolsInv, Q!Throttles, Batches
  <1>8. /\ ~Q!pause /\ ~Q!resume /\ ~Q!clear /\ ~Q!batchPromises
        /\ \A j \in Q!Ids : ~Q!add(j)
        /\ \A j \in Q!Ids : \A result \in Q!Ended : ~Q!QueuedEnds(j, result) /\ ~Q!BatchedEnds(j, result)
    BY DEF Q!Throttles, Q!pause, Q!resume, Q!clear, Q!batchPromises, Q!add, Q!QueuedEnds, Q!BatchedEnds
  <1> QED BY <1>4, <1>5, <1>6, <1>7, <1>8 DEF Q!Next, Q!JobEnds, Q!LoopStep

\* Every step of a loop over batches leaves it so.
LEMMA BatchLeft ==
  ASSUME PoolsBounds, PoolsInv, how \in Batches, jobs' \in [Q!Ids -> States],
         next' \in 1 .. Jobs + 1, Passed(jobs', next'), Cardinality(RunningOf(jobs')) <= Limit,
         at' \in {"loop", "sleep", "all", "resolved", "rejected"},
         at' \in {"loop", "sleep"} => RunningOf(jobs') = {} /\ next' <= Jobs,
         at' = "resolved" => /\ next' > Jobs /\ RunningOf(jobs') = {}
                             /\ how = "batch" => \A j \in Q!Ids : jobs'[j] # "failed",
         at' = "rejected" => how = "batch" /\ \E j \in Q!Ids : jobs'[j] = "failed",
         UNCHANGED <<how, delayed, queue, paused, told>>
  PROVE  PoolsInv'
  <1>1. queue = <<>> /\ told = None
    BY DEF PoolsInv, Batched, Looped
  <1>2. Q!TypeOK'
    BY <1>1 DEF PoolsInv, Q!TypeOK, States
  <1>3. Passed(jobs, next)' /\ RunningOf(jobs)' = RunningOf(jobs')
    BY DEF Passed, RunningOf
  <1>4. Batched'
    BY <1>1, <1>3, PoolsCardinality DEF Batched, Looped
  <1>5. at' = "resolved" => \A j \in Q!Ids : jobs'[j] \in Q!Ended
    <2> SUFFICES ASSUME at' = "resolved", NEW j \in Q!Ids PROVE jobs'[j] \in Q!Ended
      OBVIOUS
    <2>1. ~(j >= next')
      BY DEF Q!Ids, PoolsBounds
    <2> QED BY <2>1 DEF Passed, RunningOf, Q!Ended
  <1>6. Q!OutcomeFits'
    BY <1>1, <1>5 DEF Q!OutcomeFits, Q!In, Batches
  <1> QED BY <1>2, <1>4, <1>6 DEF PoolsInv, Q!Throttles, Batches

LEMMA BatchStep ==
  ASSUME PoolsBounds, PoolsInv, how \in Batches, Q!Next \/ UNCHANGED Q!vars
  PROVE  PoolsInv'
  <1> DEFINE running == RunningOf(jobs)
  <1>1. /\ jobs \in [Q!Ids -> States] /\ next \in 1 .. Jobs + 1 /\ Passed(jobs, next)
        /\ at \in {"loop", "race", "sleep", "all", "resolved", "rejected"}
        /\ Cardinality(running) <= Limit
        /\ at \in {"loop", "sleep"} => next <= Jobs /\ running = {}
    BY PoolsCardinality DEF PoolsInv, Batched, Looped, Q!TypeOK, States
  <1>2. next \in Nat /\ Jobs \in Nat /\ Limit \in Nat \ {0}
    BY <1>1 DEF PoolsBounds
  <1>3. IsFiniteSet(running) /\ Cardinality(running) \in Nat
    BY JobsAreFinite DEF RunningOf
  <1>4. CASE Q!batchPromises
    <2> DEFINE end == Q!Min(Jobs, next + Q!Size - 1)
    <2>1. /\ at = "loop" /\ jobs' = Q!Started(end) /\ next' = end + 1 /\ at' = "all"
          /\ UNCHANGED <<how, delayed, queue, paused, told>>
      BY <1>4 DEF Q!batchPromises
    <2>2. Q!Size \in 1 .. Limit
      BY <1>2 DEF Q!Size
    <2>3. end \in next .. Jobs /\ end - next + 1 <= Limit
      BY <1>1, <1>2, <2>1, <2>2 DEF Q!Min
    <2> HIDE DEF end
    <2>4. /\ jobs' \in [Q!Ids -> States] /\ Passed(jobs', next') /\ next' \in 1 .. Jobs + 1
          /\ \A j \in Q!Ids : jobs'[j] = IF j \in next .. end THEN "running" ELSE jobs[j]
      BY <2>1, <2>3, StartedForms DEF PoolsInv, Batched, Looped
    <2>5. RunningOf(jobs') = next .. end
      <3>1. next .. end \subseteq Q!Ids
        BY <1>1, <1>2, <2>3 DEF Q!Ids
      <3> QED BY <1>1, <2>1, <2>4, <3>1 DEF RunningOf
    <2>6. Cardinality(RunningOf(jobs')) <= Limit
      <3>1. Cardinality(next .. end) = IF next > end THEN 0 ELSE end - next + 1
        BY <1>2, <2>3, FS_Interval
      <3> QED BY <1>2, <2>3, <2>5, <3>1
    <2> QED BY <2>1, <2>4, <2>6, BatchLeft
  <1>5. CASE Q!Awakes
    <2>1. at = "sleep" /\ at' = "loop" /\ UNCHANGED <<how, delayed, jobs, queue, paused, next, told>>
      BY <1>5 DEF Q!Awakes
    <2> QED BY <1>1, <2>1, BatchLeft
  <1>6. ASSUME NEW j \in Q!Ids, NEW result \in Q!Ended, Q!BatchedEnds(j, result) PROVE PoolsInv'
    <2>1. /\ jobs[j] = "running" /\ jobs' = [jobs EXCEPT ![j] = result]
          /\ at' = IF at = "all" THEN Q!AtBatch(jobs', next) ELSE at
          /\ UNCHANGED <<how, delayed, queue, paused, next, told>>
      BY <1>6 DEF Q!BatchedEnds
    <2>2. /\ jobs' \in [Q!Ids -> States] /\ jobs'[j] = result /\ \A i \in Q!Ids \ {j} : jobs'[i] = jobs[i]
          /\ result \in {"ok", "failed"}
      BY <1>1, <2>1 DEF States, Q!Ended
    <2>3. Passed(jobs', next')
      <3>1. next' = next /\ ~(j >= next)
        BY <1>1, <2>1 DEF Passed
      <3> QED BY <1>1, <2>2, <3>1 DEF Passed
    <2>4. RunningOf(jobs') = running \ {j} /\ j \in running
      BY <2>1, <2>2 DEF RunningOf
    <2> HIDE DEF running
    <2>5. Cardinality(RunningOf(jobs')) <= Limit
      <3>1. Cardinality(running \ {j}) = Cardinality(running) - 1
        BY <1>3, <2>4, FS_RemoveElement
      <3> QED BY <1>1, <1>2, <1>3, <2>4, <3>1
    <2>6. at \notin {"loop", "sleep"}
      BY <1>1, <2>4
    <2>7. at # "resolved"
      <3> SUFFICES ASSUME at = "resolved" PROVE FALSE
        OBVIOUS
      <3>1. jobs[j] \in Q!Ended
        BY DEF PoolsInv, Q!OutcomeFits, Q!In
      <3> QED BY <2>1, <3>1 DEF Q!Ended
    <2>8. CASE at = "all"
      <3>1. at' = Q!AtBatch(jobs', next) /\ next' = next
        BY <2>1, <2>8
      <3>2. /\ at' \in {"loop", "sleep", "all", "resolved", "rejected"}
            /\ at' \in {"loop", "sleep"} => RunningOf(jobs') = {} /\ ~(next > Jobs)
            /\ at' = "resolved" => /\ next > Jobs /\ RunningOf(jobs') = {}
                                   /\ how = "batch" => \A i \in Q!Ids : jobs'[i] # "failed"
            /\ at' = "rejected" => how = "batch" /\ \E i \in Q!Ids : jobs'[i] = "failed"
        BY <3>1 DEF Q!AtBatch, RunningOf
      <3>3. ~(next > Jobs) <=> next <= Jobs
        BY <1>2
      <3>4. next' \in 1 .. Jobs + 1
        BY <1>1, <3>1
      <3> QED BY <2>1, <2>2, <2>3, <2>5, <3>1, <3>2, <3>3, <3>4, BatchLeft
    <2>9. CASE at = "rejected"
      <3>1. at' = "rejected" /\ how = "batch"
        BY <2>1, <2>9 DEF PoolsInv, Q!OutcomeFits, Batches
      <3>2. PICK i \in Q!Ids : jobs[i] = "failed"
        BY <2>9 DEF PoolsInv, Q!OutcomeFits, Q!In
      <3>3. jobs'[i] = "failed"
        BY <2>1, <2>2, <3>2
      <3> QED BY <1>1, <2>1, <2>2, <2>3, <2>5, <3>1, <3>3, BatchLeft
    <2>10. at # "race"
      BY DEF PoolsInv, Batched
    <2> QED BY <1>1, <2>6, <2>7, <2>8, <2>9, <2>10
  <1>7. CASE UNCHANGED Q!vars
    <2>1. UNCHANGED <<how, delayed, jobs, queue, paused, next, at, told>>
      BY <1>7 DEF Q!vars
    <2>2. Q!TypeOK' /\ Q!OutcomeFits' /\ Batched'
      BY <2>1 DEF PoolsInv, Q!TypeOK, Batched, Looped, Passed, RunningOf, Q!In, Q!OutcomeFits
    <2> QED BY <2>1, <2>2 DEF PoolsInv, Q!Throttles, Batches
  <1>8. /\ ~Q!pause /\ ~Q!resume /\ ~Q!clear /\ ~Q!throttlePromises
        /\ \A j \in Q!Ids : ~Q!add(j)
        /\ \A j \in Q!Ids : \A result \in Q!Ended : ~Q!QueuedEnds(j, result) /\ ~Q!ThrottledEnds(j, result)
    BY DEF Batches, Q!Throttles, Q!pause, Q!resume, Q!clear, Q!throttlePromises, Q!add, Q!QueuedEnds, Q!ThrottledEnds
  <1> QED BY <1>4, <1>5, <1>6, <1>7, <1>8 DEF Q!Next, Q!JobEnds, Q!LoopStep

LEMMA PoolsStep ==
  ASSUME PoolsBounds
  PROVE  PoolsInv /\ (Q!Next \/ UNCHANGED Q!vars) => PoolsInv'
  <1> SUFFICES ASSUME PoolsInv, Q!Next \/ UNCHANGED Q!vars PROVE PoolsInv'
    OBVIOUS
  <1>1. how = "queue" \/ how \in Q!Throttles \/ how \in Batches
    BY DEF PoolsInv, Q!TypeOK, Q!Kinds, Q!Throttles, Batches
  <1> QED BY <1>1, QueueStep, ThrottleStep, BatchStep

LEMMA PoolsStart ==
  ASSUME PoolsBounds
  PROVE  Q!Init => PoolsInv
  <1> SUFFICES ASSUME Q!Init PROVE PoolsInv
    OBVIOUS
  <1>1. /\ how \in Q!Kinds /\ delayed \in BOOLEAN /\ jobs = [j \in Q!Ids |-> "idle"] /\ queue = <<>>
        /\ paused = FALSE /\ next = 1 /\ told = None
        /\ at = IF how = "queue" THEN "calls" ELSE "loop"
    BY DEF Q!Init
  <1>2. jobs \in [Q!Ids -> States] /\ \A j \in Q!Ids : jobs[j] = "idle"
    BY <1>1 DEF States
  <1>3. 1 \in 1 .. Jobs + 1 /\ Limit \in Nat /\ 0 < Limit /\ 0 <= Limit /\ 1 <= Jobs /\ \A j \in Q!Ids : j >= 1 /\ ~(j < 1)
    BY DEF PoolsBounds, Q!Ids
  <1>4. queue \in Seq(Q!Ids) /\ 1 .. Len(queue) = {}
    BY <1>1
  <1>5. paused \in BOOLEAN /\ at \in {"calls", "loop", "race", "sleep", "all", "resolved", "rejected"}
    BY <1>1
  <1>6. Q!TypeOK
    BY <1>1, <1>2, <1>3, <1>4, <1>5 DEF Q!TypeOK, States
  <1>7. RunningOf(jobs) = {} /\ Q!In({"running"}) = {} /\ Q!Executing(jobs, next) = {}
    <2>1. \A j \in Q!Ids : ~(j < next)
      BY <1>1, <1>3
    <2> QED BY <1>2, <2>1 DEF RunningOf, Q!In, Q!Executing
  <1>8. Q!Cardinality({}) = 0
    BY FS_EmptySet, PoolsCardinality
  <1>9. Queued \/ at # "calls"
    BY <1>1, <1>2, <1>3, <1>4, <1>7, <1>8 DEF Queued, EachOnce, Lists, Q!Bounded
  <1>10. Looped \/ at = "calls"
    BY <1>1, <1>2, <1>3 DEF Looped, Passed
  <1>11. Q!OutcomeFits
    BY <1>1 DEF Q!OutcomeFits
  <1>12. at # "calls" => Throttled /\ Batched
    BY <1>1, <1>3, <1>7, <1>8, <1>10 DEF Throttled, Batched
  <1> QED BY <1>1, <1>6, <1>9, <1>11, <1>12 DEF PoolsInv, Q!Throttles, Batches

LEMMA BoundedFollows ==
  ASSUME PoolsBounds, PoolsInv
  PROVE  Q!Bounded
  <1>1. Q!In({"running"}) = RunningOf(jobs)
    BY DEF Q!In, RunningOf
  <1>2. CASE how = "queue"
    BY <1>2 DEF PoolsInv, Queued
  <1>3. CASE how \in Batches
    BY <1>1, <1>3 DEF PoolsInv, Batched, Batches, Q!Bounded
  <1>4. CASE how \in Q!Throttles
    <2>1. Passed(jobs, next) /\ next \in Nat /\ Cardinality(Q!Executing(jobs, next)) <= Limit
      BY <1>4, PoolsCardinality DEF PoolsInv, Throttled, Looped, Q!TypeOK
    <2>2. Cardinality(RunningOf(jobs)) <= Limit
      <3>1. Cardinality(RunningOf(jobs)) \in Nat
        BY JobsAreFinite DEF RunningOf
      <3> QED BY <2>1, <3>1, RunningExecute DEF PoolsBounds
    <2> QED BY <1>1, <1>4, <2>2, PoolsCardinality DEF Q!Throttles, Q!Bounded
  <1> QED BY <1>2, <1>3, <1>4 DEF PoolsInv, Q!TypeOK, Q!Kinds, Q!Throttles, Batches

-----------------------------------------------------------------------------
(* The promise utilities together. *)

PromisesInv ==
  /\ part = "pools" => PoolsInv
  /\ part = "retry" => RetryInv
  /\ part = "calls" => CallsInv

LEMMA PromisesBounds == PoolsBounds /\ CallsBounds /\ R!RetryAssumption /\ None \notin {"value", "error"}
  BY ServicesAssumption DEF PoolsBounds, CallsBounds, Q!PoolAssumption, M!CallsAssumption, NoneIsNone

LEMMA PromisesStart == Init => PromisesInv
  <1> SUFFICES ASSUME Init PROVE PromisesInv
    OBVIOUS
  <1>1. CASE PromisesInit
    BY <1>1, PromisesBounds, PoolsStart, RetryStart, CallsStart DEF PromisesInit, PromisesInv
  <1>2. CASE part \notin {"pools", "retry", "calls"}
    BY <1>2 DEF PromisesInv
  <1> QED BY <1>1, <1>2 DEF Init, StoresInit

LEMMA PromisesStep ==
  ASSUME PromisesInv, [Next]_vars
  PROVE  PromisesInv'
  <1>1. part' = part
    BY DEF Next, StoresNext, PromisesNext, LifecycleNext, Records, Catalog, PullSecret,
           Pools, Retry, Calls, vars
  <1>2. ASSUME part = "pools" PROVE PromisesInv'
    <2>1. Q!Next \/ UNCHANGED Q!vars
      BY <1>2 DEF Next, StoresNext, PromisesNext, LifecycleNext, Records, Catalog, PullSecret,
                  Pools, Retry, Calls, vars, promiseVars, poolsOnly, Q!vars
    <2>2. PoolsInv'
      BY <1>2, <2>1, PoolsStep, PromisesBounds DEF PromisesInv
    <2> QED BY <1>1, <1>2, <2>2 DEF PromisesInv
  <1>3. ASSUME part = "retry" PROVE PromisesInv'
    <2>1. R!Next \/ UNCHANGED R!vars
      BY <1>3 DEF Next, StoresNext, PromisesNext, LifecycleNext, Records, Catalog, PullSecret,
                  Pools, Retry, Calls, vars, promiseVars, retryOnly, R!vars
    <2>2. RetryInv'
      BY <1>3, <2>1, RetryStep, PromisesBounds DEF PromisesInv
    <2> QED BY <1>1, <1>3, <2>2 DEF PromisesInv
  <1>4. ASSUME part = "calls" PROVE PromisesInv'
    <2>1. M!Next \/ UNCHANGED M!vars
      BY <1>4 DEF Next, StoresNext, PromisesNext, LifecycleNext, Records, Catalog, PullSecret,
                  Pools, Retry, Calls, vars, promiseVars, callsOnly, M!vars
    <2>2. CallsInv'
      BY <1>4, <2>1, CallsStep, PromisesBounds DEF PromisesInv
    <2> QED BY <1>1, <1>4, <2>2 DEF PromisesInv
  <1> QED BY <1>1, <1>2, <1>3, <1>4 DEF PromisesInv

LEMMA PromisesInvariance == Spec => []PromisesInv
  <1>1. PromisesInv /\ [Next]_vars => PromisesInv'
    BY PromisesStep
  <1> QED BY PromisesStart, <1>1, PTL DEF Spec

(***************************************************************************)
(* For any number of jobs, attempts and calls: no pool runs more than its  *)
(* limit, its queue lets nothing wait that could run, and its promise says *)
(* what became of its jobs; a retried function's answer is the current     *)
(* attempt's; nobody gets a memoized answer that is out of date, nor is a  *)
(* function run again before that (PromiseQueue, throttlePromises,         *)
(* batchPromises, performBulkClusterOperation, retry, memoizePromise).     *)
(***************************************************************************)
THEOREM PromisesAreSound == Spec => []PromisesSound
  <1>1. PromisesInv => PromisesSound
    BY BoundedFollows, MemoizedFollows, PromisesBounds
       DEF PromisesInv, PromisesSound, PoolsInv, RetryInv
  <1> QED BY <1>1, PromisesInvariance, PTL

-----------------------------------------------------------------------------
(* The inductive invariant of the class, for any numbers of attempts and of acts of *)
(* others; AppLifecycle's pc, attempt and ops are step, try and helm here.          *)

Steps == {"idle", "check", "post", "poll", "attach", "success", "deleting", "failed"}

LifecycleShape ==
  /\ mode \in {"install", "manage"} /\ step \in Steps
  /\ try \in 0 .. MaxAttempts /\ others \in 0 .. MaxOthers
  /\ step \notin {"idle", "success", "deleting", "failed"} => try \in 1 .. MaxAttempts
  /\ baseline \in Int /\ baseline >= -1
  /\ app \in Y!A!AppType /\ app.obs <= app.gen
  /\ helm \in [Y!A!Ops -> [status : Y!A!OpStatus, upgrade : BOOLEAN]]
  /\ upgraded \in BOOLEAN /\ heeds \in BOOLEAN /\ deleting \in BOOLEAN /\ alone \in BOOLEAN

\* What the App shows of its current generation is helm's status.
Shows ==
  /\ app.present => app.release # "none" /\ (app.obs = app.gen => app.shown = app.release)
  /\ app.release = "other" => app.present

InProgress(o) == helm[o].status \in {"queued", "running"}

\* How the App stands to the operation of a call that waits.
Stands(op) ==
  /\ op.status # "none"
  /\ op.status = "queued" =>
       /\ op.upgrade = upgraded /\ app.obs = app.gen
       /\ upgraded => baseline \in {-1, app.obs}
       /\ ~upgraded => ~app.present
  /\ op.status = "refused" => ~app.present
  /\ op.status = "running" => app.present /\ app.by = try /\ app.release = "pending"
  /\ op.status \in {"deployed", "failed"} => app.present /\ app.by = try /\ app.release = op.status

\* Nothing is under way but the call, up to the end of its wait.
Undisturbed ==
  alone /\ step \in {"check", "post", "poll"} =>
    /\ ~deleting /\ app.release # "other"
    /\ \A o \in Y!A!Ops : InProgress(o) => o = try /\ step = "poll"
    /\ step # "poll" => app.obs = app.gen
    /\ step = "post" /\ ~upgraded => ~app.present
    /\ step = "poll" => Stands(helm[try])

LifecycleInv == LifecycleShape /\ Shows /\ Undisturbed

LifecycleBounds == MaxAttempts \in Nat \ {0} /\ MaxOthers \in Nat

LEMMA NumbersAreOps ==
  ASSUME LifecycleBounds
  PROVE  /\ 1 .. MaxAttempts \subseteq Y!A!Ops
         /\ \A n \in 1 .. MaxOthers : MaxAttempts + n \in Y!A!Ops
  BY DEF LifecycleBounds, Y!A!Ops

\* The App is a record of its parts.
LEMMA AppParts ==
  ASSUME LifecycleShape
  PROVE  /\ app = [present |-> app.present, gen |-> app.gen, obs |-> app.obs, by |-> app.by,
                   release |-> app.release, shown |-> app.shown]
         /\ app.present \in BOOLEAN /\ app.by \in Y!A!Ops \cup {0}
         /\ app.gen \in Nat /\ app.obs \in Nat /\ app.obs <= app.gen
         /\ app.release \in Y!A!States /\ app.shown \in Y!A!States
  BY DEF LifecycleShape, Y!A!AppType

LEMMA AppTyped ==
  ASSUME NEW a, NEW present \in BOOLEAN, NEW gen \in Nat, NEW obs \in Nat, obs <= gen,
         NEW by \in Y!A!Ops \cup {0},
         NEW release \in Y!A!States, NEW shown \in Y!A!States,
         a = [present |-> present, gen |-> gen, obs |-> obs, by |-> by, release |-> release, shown |-> shown]
  PROVE  a \in Y!A!AppType /\ a.obs <= a.gen
  BY DEF Y!A!AppType

\* An operation's new status leaves the operations typed and the others as they are.
LEMMA StatusSet ==
  ASSUME LifecycleShape, NEW o \in Y!A!Ops, NEW status \in Y!A!OpStatus,
         helm' = [helm EXCEPT ![o].status = status]
  PROVE  /\ helm' \in [Y!A!Ops -> [status : Y!A!OpStatus, upgrade : BOOLEAN]]
         /\ helm'[o].status = status
         /\ \A p \in Y!A!Ops : p # o => helm'[p] = helm[p]
  <1> DEFINE new == [status |-> status, upgrade |-> helm[o].upgrade]
  <1>1. helm[o] \in [status : Y!A!OpStatus, upgrade : BOOLEAN]
    BY DEF LifecycleShape
  <1>2. [helm[o] EXCEPT !.status = status] = new /\ new \in [status : Y!A!OpStatus, upgrade : BOOLEAN]
    BY <1>1
  <1>3. helm' = [helm EXCEPT ![o] = new] /\ new.status = status
    BY <1>2 DEF LifecycleShape
  <1> HIDE DEF new
  <1> QED BY <1>2, <1>3 DEF LifecycleShape

LEMMA OneQueued ==
  ASSUME LifecycleShape, NEW o \in Y!A!Ops, NEW upgrade \in BOOLEAN, Y!A!Queued(o, upgrade)
  PROVE  /\ helm' \in [Y!A!Ops -> [status : Y!A!OpStatus, upgrade : BOOLEAN]]
         /\ helm'[o] = [status |-> "queued", upgrade |-> upgrade]
         /\ \A p \in Y!A!Ops : p # o => helm'[p] = helm[p]
  <1> DEFINE new == [status |-> "queued", upgrade |-> upgrade]
  <1>1. new \in [status : Y!A!OpStatus, upgrade : BOOLEAN]
    BY DEF Y!A!OpStatus
  <1>2. helm' = [helm EXCEPT ![o] = new]
    BY DEF Y!A!Queued
  <1> HIDE DEF new
  <1>3. /\ helm' \in [Y!A!Ops -> [status : Y!A!OpStatus, upgrade : BOOLEAN]] /\ helm'[o] = new
        /\ \A p \in Y!A!Ops : p # o => helm'[p] = helm[p]
    BY <1>1, <1>2 DEF LifecycleShape
  <1> QED BY <1>3 DEF new

-----------------------------------------------------------------------------
(* Its preservation, call by call. *)

\* What the service does to the App and to helm's operations: at most a post.
LEMMA ServiceKeeps ==
  ASSUME LifecycleBounds, LifecycleInv, Y!Service
  PROVE  LifecycleShape' /\ Shows' /\ UNCHANGED <<app, heeds>>
  <1>1. /\ mode \in {"install", "manage"} /\ try \in 0 .. MaxAttempts /\ others \in 0 .. MaxOthers
        /\ upgraded \in BOOLEAN /\ heeds \in BOOLEAN /\ deleting \in BOOLEAN /\ alone \in BOOLEAN
        /\ baseline \in Int /\ baseline >= -1 /\ app \in Y!A!AppType /\ app.obs <= app.gen
        /\ app.present \in BOOLEAN /\ app.obs \in Nat
        /\ helm \in [Y!A!Ops -> [status : Y!A!OpStatus, upgrade : BOOLEAN]]
        /\ step \notin {"idle", "success", "deleting", "failed"} => try \in 1 .. MaxAttempts
    BY AppParts DEF LifecycleInv, LifecycleShape
  <1>2. TRUE \in BOOLEAN /\ FALSE \in BOOLEAN
    OBVIOUS
  <1>3. /\ UNCHANGED <<app, heeds, mode, others>>
        /\ step' \in Steps /\ try' \in 0 .. MaxAttempts
        /\ step' \notin {"idle", "success", "deleting", "failed"} => try' \in 1 .. MaxAttempts
        /\ baseline' \in Int /\ baseline' >= -1
        /\ upgraded' \in BOOLEAN /\ deleting' \in BOOLEAN /\ alone' \in BOOLEAN
        /\ helm' \in [Y!A!Ops -> [status : Y!A!OpStatus, upgrade : BOOLEAN]]
    <2>1. CASE Y!createOrUpgradeApp
      <3>1. /\ try < MaxAttempts /\ try' = try + 1 /\ step' \in {"check", "post"}
            /\ upgraded' = (mode = "manage") /\ alone' = Y!Quiet
            /\ UNCHANGED <<setting, mode, baseline, app, helm, others, heeds, deleting>>
        BY <2>1 DEF Y!createOrUpgradeApp
      <3>2. try' \in 1 .. MaxAttempts /\ try' \in 0 .. MaxAttempts
        BY <1>1, <3>1 DEF LifecycleBounds
      <3>3. (mode = "manage") \in BOOLEAN /\ Y!Quiet \in BOOLEAN
        BY DEF Y!Quiet
      <3> QED BY <1>1, <3>1, <3>2, <3>3 DEF Steps
    <2>2. CASE Y!CheckApp
      BY <1>1, <2>2 DEF Y!CheckApp, Y!A!CheckApp, Steps
    <2>3. CASE Y!Post \/ Y!PostFails
      <3>1. /\ step = "post" /\ step' \in {"poll", "failed"} /\ baseline' \in {-1, baseline}
            /\ Y!A!Queued(try, upgraded) \/ UNCHANGED helm
            /\ UNCHANGED <<setting, mode, try, upgraded, app, others, heeds, deleting, alone>>
        BY <2>3 DEF Y!Post, Y!PostFails, Y!A!Post, Y!A!PostRefused, Y!A!PostUnanswered
      <3>2. try \in Y!A!Ops
        BY <1>1, <3>1, NumbersAreOps
      <3>3. helm' \in [Y!A!Ops -> [status : Y!A!OpStatus, upgrade : BOOLEAN]]
        BY <1>1, <3>1, <3>2, OneQueued DEF LifecycleInv
      <3> QED BY <1>1, <3>1, <3>3 DEF Steps
    <2>4. CASE Y!Poll
      <3>1. /\ step = "poll" /\ step' \in {"poll", "failed", "attach"} /\ baseline' \in {baseline, app.obs}
            /\ UNCHANGED <<setting, mode, try, upgraded, app, helm, others, heeds, deleting, alone>>
        BY <2>4 DEF Y!Poll
      <3> QED BY <1>1, <3>1 DEF Steps
    <2>5. CASE Y!Timeout
      BY <1>1, <2>5 DEF Y!Timeout, Y!A!Timeout, Steps
    <2>6. CASE Y!Return
      BY <1>1, <2>6 DEF Y!Return, Y!A!Attach, Steps
    <2>7. CASE Y!deleteApp
      <3>1. /\ step' \in {"deleting", "failed"} /\ deleting' \in {TRUE, step' = "deleting"}
            /\ UNCHANGED <<setting, mode, try, upgraded, baseline, app, helm, others, heeds, alone>>
        BY <2>7 DEF Y!deleteApp
      <3>2. deleting' \in BOOLEAN
        BY <3>1
      <3> QED BY <1>1, <3>1, <3>2 DEF Steps
    <2>8. CASE Y!DeleteReturns
      BY <1>1, <2>8 DEF Y!DeleteReturns, Steps
    <2> QED BY <2>1, <2>2, <2>3, <2>4, <2>5, <2>6, <2>7, <2>8 DEF Y!Service
  <1> QED BY <1>1, <1>3 DEF LifecycleShape, LifecycleInv, Shows

LEMMA ServiceUndisturbed ==
  ASSUME LifecycleBounds, LifecycleInv, Y!Service
  PROVE  Undisturbed'
  <1>1. UNCHANGED app
    BY ServiceKeeps
  <1>2. CASE Y!createOrUpgradeApp
    <2>1. /\ step' \in {"check", "post"} /\ alone' = Y!Quiet /\ UNCHANGED <<helm, deleting>>
          /\ step' = "post" => upgraded'
      BY <1>2 DEF Y!createOrUpgradeApp, LifecycleInv, LifecycleShape
    <2> QED BY <1>1, <2>1 DEF Undisturbed, Y!Quiet, InProgress
  <1>3. CASE Y!CheckApp
    <2>1. /\ step = "check"
          /\ step' = "failed" \/ (step' = "post" /\ upgraded' = app.present)
          /\ UNCHANGED <<helm, deleting, alone>>
      BY <1>3 DEF Y!CheckApp, Y!A!CheckApp
    <2> QED BY <1>1, <2>1 DEF LifecycleInv, Undisturbed, InProgress
  <1>4. CASE Y!Post
    <2>1. /\ step = "post" /\ step' = "poll" /\ baseline' = -1 /\ Y!A!Queued(try, upgraded)
          /\ UNCHANGED <<try, upgraded, deleting, alone>>
      BY <1>4 DEF Y!Post, Y!A!Post
    <2>2. try \in Y!A!Ops /\ upgraded \in BOOLEAN
      BY <2>1, NumbersAreOps DEF LifecycleInv, LifecycleShape
    <2>3. helm'[try] = [status |-> "queued", upgrade |-> upgraded] /\ \A p \in Y!A!Ops : p # try => helm'[p] = helm[p]
      BY <2>1, <2>2, OneQueued DEF LifecycleInv
    <2>4. SUFFICES ASSUME alone PROVE Undisturbed'
      BY <2>1 DEF Undisturbed
    <2>5. ~deleting /\ (\A o \in Y!A!Ops : ~InProgress(o)) /\ app.obs = app.gen /\ (~upgraded => ~app.present)
      BY <2>1, <2>4 DEF LifecycleInv, Undisturbed
    <2>6. Stands(helm[try])'
      BY <1>1, <2>1, <2>3, <2>5 DEF Stands
    <2>7. app'.release # "other"
      BY <1>1, <2>1, <2>4 DEF LifecycleInv, Undisturbed
    <2>8. \A p \in Y!A!Ops : InProgress(p)' => p = try
      BY <2>3, <2>5 DEF InProgress
    <2> QED BY <2>1, <2>5, <2>6, <2>7, <2>8 DEF Undisturbed
  <1>5. CASE Y!PostFails \/ Y!Timeout \/ Y!Return \/ Y!deleteApp \/ Y!DeleteReturns
    <2>1. step' \in {"failed", "success", "deleting", "idle"}
      BY <1>5 DEF Y!PostFails, Y!A!PostRefused, Y!A!PostUnanswered, Y!Timeout, Y!A!Timeout, Y!Return, Y!A!Attach,
                  Y!deleteApp, Y!DeleteReturns
    <2> QED BY <2>1 DEF Undisturbed
  <1>6. CASE Y!Poll
    <2>1. /\ step = "poll" /\ step' \in {"poll", "attach", "failed"} /\ baseline' \in {baseline, app.obs}
          /\ UNCHANGED <<helm, try, upgraded, deleting, alone>>
      BY <1>6 DEF Y!Poll
    <2> QED BY <1>1, <2>1 DEF LifecycleInv, Undisturbed, InProgress, Stands
  <1> QED BY <1>2, <1>3, <1>4, <1>5, <1>6 DEF Y!Service

\* What helm and the controller make of the App.
LEMMA HelmForms ==
  ASSUME LifecycleBounds, LifecycleInv, Y!A!Helm
  PROVE  /\ UNCHANGED <<setting, mode, step, try, upgraded, baseline, others>>
         /\ \/ \E o \in Y!A!Ops, status \in {"refused", "running"} :
                 /\ helm[o].status = "queued" /\ helm' = [helm EXCEPT ![o].status = status]
                 /\ status = "refused" => /\ app' = app
                                          /\ \/ \E p \in Y!A!Ops : helm[p].status = "running"
                                             \/ app.present # helm[o].upgrade
                                             \/ app.release = "other"
                 /\ status = "running" =>
                      /\ app.present = helm[o].upgrade
                      /\ app' = [present |-> TRUE, gen |-> app.gen + 1, obs |-> app.obs, by |-> o,
                                 release |-> "pending", shown |-> app.shown]
            \/ \E o \in Y!A!Ops, status \in {"deployed", "failed"} :
                 /\ helm[o].status = "running" /\ helm' = [helm EXCEPT ![o].status = status]
                 /\ app' = [present |-> app.present, gen |-> app.gen + 1, obs |-> app.obs, by |-> app.by,
                            release |-> status, shown |-> app.shown]
            \/ /\ app.present /\ app.obs < app.gen /\ helm' = helm
               /\ app' = [present |-> app.present, gen |-> app.gen, obs |-> app.gen, by |-> app.by,
                          release |-> app.release, shown |-> app.release]
  <1>1. app = [present |-> app.present, gen |-> app.gen, obs |-> app.obs, by |-> app.by,
               release |-> app.release, shown |-> app.shown]
    BY AppParts DEF LifecycleInv
  <1>2. ASSUME NEW o \in Y!A!Ops, Y!A!HelmStarts(o)
        PROVE  /\ UNCHANGED <<setting, mode, step, try, upgraded, baseline, others>>
               /\ helm[o].status = "queued"
               /\ \/ /\ helm' = [helm EXCEPT ![o].status = "refused"] /\ app' = app
                     /\ \/ \E p \in Y!A!Ops : helm[p].status = "running"
                        \/ app.present # helm[o].upgrade \/ app.release = "other"
                  \/ /\ helm' = [helm EXCEPT ![o].status = "running"] /\ app.present = helm[o].upgrade
                     /\ app' = [present |-> TRUE, gen |-> app.gen + 1, obs |-> app.obs, by |-> o,
                                release |-> "pending", shown |-> app.shown]
    <2>1. CASE Y!A!Running \/ app.present # helm[o].upgrade \/ app.release = "other"
      BY <1>2, <2>1 DEF Y!A!HelmStarts, Y!A!Running
    <2>2. CASE ~(Y!A!Running \/ app.present # helm[o].upgrade \/ app.release = "other")
      <3>1. app' = [app EXCEPT !.present = TRUE, !.gen = @ + 1, !.release = "pending", !.by = o]
        BY <1>2, <2>2 DEF Y!A!HelmStarts
      <3>2. app' = [present |-> TRUE, gen |-> app.gen + 1, obs |-> app.obs, by |-> o,
                    release |-> "pending", shown |-> app.shown]
        BY <1>1, <3>1
      <3> QED BY <1>2, <2>2, <3>2 DEF Y!A!HelmStarts
    <2> QED BY <2>1, <2>2
  <1>3. ASSUME NEW o \in Y!A!Ops, NEW status \in {"deployed", "failed"}, Y!A!HelmEnds(o, status)
        PROVE  /\ UNCHANGED <<setting, mode, step, try, upgraded, baseline, others>>
               /\ helm[o].status = "running" /\ helm' = [helm EXCEPT ![o].status = status]
               /\ app' = [present |-> app.present, gen |-> app.gen + 1, obs |-> app.obs, by |-> app.by,
                          release |-> status, shown |-> app.shown]
    BY <1>1, <1>3 DEF Y!A!HelmEnds
  <1>4. ASSUME Y!A!Observe
        PROVE  /\ UNCHANGED <<setting, mode, step, try, upgraded, baseline, others>>
               /\ app.present /\ app.obs < app.gen /\ helm' = helm
               /\ app' = [present |-> app.present, gen |-> app.gen, obs |-> app.gen, by |-> app.by,
                          release |-> app.release, shown |-> app.release]
    BY <1>1, <1>4 DEF Y!A!Observe
  <1> QED BY <1>2, <1>3, <1>4 DEF Y!A!Helm

LEMMA HelmKeeps ==
  ASSUME LifecycleBounds, LifecycleInv, Y!A!Helm, UNCHANGED <<heeds, deleting, alone>>
  PROVE  LifecycleInv'
  <1>1. /\ UNCHANGED <<setting, mode, step, try, upgraded, baseline, others>> /\ LifecycleShape
        /\ app.present \in BOOLEAN /\ app.by \in Y!A!Ops \cup {0}
        /\ app.gen \in Nat /\ app.obs \in Nat /\ app.obs <= app.gen
        /\ app.release \in Y!A!States /\ app.shown \in Y!A!States
        /\ app.release = "other" => app.present
        /\ app.present => app.release # "none"
    BY HelmForms, AppParts DEF LifecycleInv, Shows
  <1>2. app.gen + 1 \in Nat /\ app.obs <= app.gen + 1 /\ app.obs # app.gen + 1 /\ TRUE \in BOOLEAN
        /\ app.gen <= app.gen
    BY <1>1
  <1>3. ASSUME app' \in Y!A!AppType, app'.obs <= app'.gen,
               helm' \in [Y!A!Ops -> [status : Y!A!OpStatus, upgrade : BOOLEAN]], Shows',
               alone /\ step \in {"check", "post", "poll"} =>
                 /\ app'.release # "other"
                 /\ \A o \in Y!A!Ops : InProgress(o)' => o = try /\ step = "poll"
                 /\ step # "poll" => app'.obs = app'.gen
                 /\ step = "post" /\ ~upgraded => ~app'.present
                 /\ step = "poll" => Stands(helm[try])'
        PROVE  LifecycleInv'
    <2>1. LifecycleShape'
      BY <1>1, <1>3 DEF LifecycleShape
    <2>2. Undisturbed'
      BY <1>1, <1>3 DEF LifecycleInv, Undisturbed
    <2> QED BY <1>3, <2>1, <2>2 DEF LifecycleInv
  <1>4. ASSUME NEW o \in Y!A!Ops, helm[o].status = "queued", helm' = [helm EXCEPT ![o].status = "refused"], app' = app,
               \/ \E p \in Y!A!Ops : helm[p].status = "running"
               \/ app.present # helm[o].upgrade \/ app.release = "other"
        PROVE  LifecycleInv'
    <2>1. "refused" \in Y!A!OpStatus
      BY DEF Y!A!OpStatus
    <2>2. /\ helm' \in [Y!A!Ops -> [status : Y!A!OpStatus, upgrade : BOOLEAN]]
          /\ helm'[o].status = "refused" /\ \A p \in Y!A!Ops : p # o => helm'[p] = helm[p]
      BY <1>1, <1>4, <2>1, StatusSet
    <2>3. ASSUME alone, step \in {"check", "post", "poll"}
          PROVE  step = "poll" /\ Stands(helm[try])' /\ app'.release # "other"
      <3>1. o = try /\ step = "poll" /\ app.release # "other" /\ \A p \in Y!A!Ops : helm[p].status # "running"
        BY <1>4, <2>3 DEF LifecycleInv, Undisturbed, InProgress
      <3>2. app.present # upgraded /\ (~upgraded => ~app.present)
        BY <1>4, <2>3, <3>1 DEF LifecycleInv, Undisturbed, Stands
      <3>3. ~app.present
        BY <1>1, <3>2 DEF LifecycleShape
      <3> QED BY <1>1, <1>4, <2>2, <3>1, <3>3 DEF Stands
    <2>4. app' \in Y!A!AppType /\ app'.obs <= app'.gen /\ Shows'
      BY <1>1, <1>4 DEF LifecycleInv, LifecycleShape, Shows
    <2>5. ASSUME alone, step \in {"check", "post", "poll"}, NEW p \in Y!A!Ops, InProgress(p)'
          PROVE  p = try
      BY <1>4, <2>2, <2>5 DEF LifecycleInv, Undisturbed, InProgress
    <2> QED BY <1>3, <2>2, <2>3, <2>4, <2>5
  <1>5. ASSUME NEW o \in Y!A!Ops, helm[o].status = "queued", helm' = [helm EXCEPT ![o].status = "running"],
               app.present = helm[o].upgrade,
               app' = [present |-> TRUE, gen |-> app.gen + 1, obs |-> app.obs, by |-> o,
                       release |-> "pending", shown |-> app.shown]
        PROVE  LifecycleInv'
    <2>1. "running" \in Y!A!OpStatus /\ o \in Y!A!Ops \cup {0} /\ "pending" \in Y!A!States
      BY DEF Y!A!OpStatus, Y!A!States
    <2>2. /\ helm' \in [Y!A!Ops -> [status : Y!A!OpStatus, upgrade : BOOLEAN]]
          /\ helm'[o].status = "running" /\ \A p \in Y!A!Ops : p # o => helm'[p] = helm[p]
      BY <1>1, <1>5, <2>1, StatusSet
    <2>3. app' \in Y!A!AppType /\ app'.obs <= app'.gen
      BY <1>1, <1>2, <1>5, <2>1, AppTyped
    <2>4. /\ app'.present /\ app'.release = "pending" /\ app'.by = o
          /\ app'.obs = app.obs /\ app'.gen = app.gen + 1
      BY <1>5
    <2>5. Shows'
      BY <1>2, <2>4 DEF Shows
    <2>6. ASSUME alone, step \in {"check", "post", "poll"}
          PROVE  /\ step = "poll" /\ Stands(helm[try])'
                 /\ \A p \in Y!A!Ops : InProgress(p)' => p = try
      <3>1. o = try /\ step = "poll"
        BY <1>5, <2>6 DEF LifecycleInv, Undisturbed, InProgress
      <3> QED BY <1>1, <2>2, <2>4, <2>6, <3>1 DEF Stands, LifecycleInv, Undisturbed, InProgress
    <2> QED BY <1>3, <2>2, <2>3, <2>4, <2>5, <2>6
  <1>6. ASSUME NEW o \in Y!A!Ops, NEW status \in {"deployed", "failed"}, helm[o].status = "running",
               helm' = [helm EXCEPT ![o].status = status],
               app' = [present |-> app.present, gen |-> app.gen + 1, obs |-> app.obs, by |-> app.by,
                       release |-> status, shown |-> app.shown]
        PROVE  LifecycleInv'
    <2>1. status \in Y!A!OpStatus /\ status \in Y!A!States /\ status \notin {"none", "other"}
      BY DEF Y!A!OpStatus, Y!A!States
    <2>2. /\ helm' \in [Y!A!Ops -> [status : Y!A!OpStatus, upgrade : BOOLEAN]]
          /\ helm'[o].status = status /\ \A p \in Y!A!Ops : p # o => helm'[p] = helm[p]
      BY <1>1, <1>6, <2>1, StatusSet
    <2>3. app' \in Y!A!AppType /\ app'.obs <= app'.gen
      BY <1>1, <1>2, <1>6, <2>1, AppTyped
    <2>4. /\ app'.present = app.present /\ app'.release = status /\ app'.by = app.by
          /\ app'.obs = app.obs /\ app'.gen = app.gen + 1
      BY <1>6
    <2>5. Shows'
      BY <1>2, <2>1, <2>4 DEF Shows
    <2>6. ASSUME alone, step \in {"check", "post", "poll"}
          PROVE  /\ step = "poll" /\ Stands(helm[try])'
                 /\ \A p \in Y!A!Ops : InProgress(p)' => p = try
      <3>1. o = try /\ step = "poll" /\ app.present /\ app.by = try
        BY <1>6, <2>6 DEF LifecycleInv, Undisturbed, InProgress, Stands
      <3> QED BY <1>1, <2>2, <2>4, <2>6, <3>1 DEF Stands, LifecycleInv, Undisturbed, InProgress
    <2> QED BY <1>3, <2>1, <2>2, <2>3, <2>4, <2>5, <2>6
  <1>7. ASSUME app.present, app.obs < app.gen, helm' = helm,
               app' = [present |-> app.present, gen |-> app.gen, obs |-> app.gen, by |-> app.by,
                       release |-> app.release, shown |-> app.release]
        PROVE  LifecycleInv'
    <2>1. app' \in Y!A!AppType /\ app'.obs <= app'.gen
      BY <1>1, <1>2, <1>7, AppTyped
    <2>2. /\ app'.present = app.present /\ app'.release = app.release /\ app'.by = app.by
          /\ app'.obs = app.gen /\ app'.gen = app.gen /\ app'.shown = app.release
      BY <1>7
    <2>3. Shows'
      BY <1>1, <2>2 DEF Shows
    <2>4. app.obs # app.gen
      BY <1>1, <1>7
    <2>5. ASSUME alone, step \in {"check", "post", "poll"}
          PROVE  step = "poll" /\ Stands(helm[try])' /\ app'.release # "other"
      <3>1. step = "poll" /\ helm[try].status # "queued"
        BY <2>4, <2>5 DEF LifecycleInv, Undisturbed, Stands
      <3> QED BY <1>1, <1>7, <2>2, <2>5, <3>1 DEF Stands, LifecycleInv, Undisturbed
    <2>6. alone /\ step \in {"check", "post", "poll"} => \A p \in Y!A!Ops : InProgress(p)' => p = try
      BY <1>7 DEF LifecycleInv, Undisturbed, InProgress
    <2> QED BY <1>1, <1>3, <1>7, <2>1, <2>3, <2>5, <2>6 DEF LifecycleShape
  <1> QED BY <1>4, <1>5, <1>6, <1>7, HelmForms

\* The uninstalls of the class, and of others.
LEMMA UninstallsKeep ==
  ASSUME LifecycleBounds, LifecycleInv,
         UNCHANGED <<mode, step, try, upgraded, baseline, helm, heeds>>,
         deleting' \in BOOLEAN, alone' \in BOOLEAN, others' \in 0 .. MaxOthers,
         \/ /\ app' = [app EXCEPT !.gen = @ + 1, !.release = "other"] /\ app.present
            /\ alone' => (alone /\ deleting /\ deleting' = deleting)
         \/ /\ app' = Y!A!NoApp
            /\ app.release = "other" \/ (deleting /\ ~app.present)
            /\ alone' => alone
  PROVE  LifecycleInv'
  <1>1. ~alone' \/ step \notin {"check", "post", "poll"}
    BY DEF LifecycleInv, Undisturbed
  <1>2. Undisturbed'
    BY <1>1 DEF Undisturbed
  <1>3. app' \in Y!A!AppType /\ app'.obs <= app'.gen /\ Shows'
    <2>1. CASE app' = [app EXCEPT !.gen = @ + 1, !.release = "other"] /\ app.present
      <3>1. app' = [present |-> app.present, gen |-> app.gen + 1, obs |-> app.obs, by |-> app.by,
                    release |-> "other", shown |-> app.shown]
        BY <2>1, AppParts DEF LifecycleInv
      <3>2. app.gen + 1 \in Nat /\ app.obs <= app.gen + 1 /\ app.obs # app.gen + 1
            /\ app.present \in BOOLEAN /\ app.obs \in Nat /\ app.by \in Y!A!Ops \cup {0}
            /\ "other" \in Y!A!States /\ app.shown \in Y!A!States
        BY AppParts DEF LifecycleInv, Y!A!States
      <3>3. app' \in Y!A!AppType /\ app'.obs <= app'.gen
        BY <3>1, <3>2, AppTyped
      <3>4. Shows'
        BY <2>1, <3>1, <3>2 DEF Shows
      <3> QED BY <3>3, <3>4
    <2>2. CASE app' = Y!A!NoApp
      BY <2>2 DEF Y!A!NoApp, Y!A!AppType, Y!A!States, Shows
    <2>3. \/ app' = [app EXCEPT !.gen = @ + 1, !.release = "other"] /\ app.present
          \/ app' = Y!A!NoApp
      BY Zenon
    <2> QED BY <2>1, <2>2, <2>3, Zenon
  <1>4. LifecycleShape'
    BY <1>3 DEF LifecycleInv, LifecycleShape
  <1> QED BY <1>2, <1>3, <1>4 DEF LifecycleInv

\* Others, and the uninstall that the class asked for.
LEMMA OthersKeep ==
  ASSUME LifecycleBounds, LifecycleInv,
         \/ Y!UninstallStarts
         \/ Y!UninstallEnds
         \/ (Y!A!OtherPosts \/ Y!A!OtherUninstalls) /\ alone' = FALSE /\ UNCHANGED <<heeds, deleting>>
  PROVE  LifecycleInv'
  <1>1. deleting \in BOOLEAN /\ alone \in BOOLEAN /\ others \in 0 .. MaxOthers /\ MaxOthers \in Nat
    BY DEF LifecycleInv, LifecycleShape, LifecycleBounds
  <1>2. CASE Y!UninstallStarts
    BY <1>1, <1>2, UninstallsKeep DEF Y!UninstallStarts
  <1>3. CASE Y!UninstallEnds
    <2>1. deleting' \in BOOLEAN
      BY <1>1, <1>3 DEF Y!UninstallEnds
    <2> QED BY <1>1, <1>3, <2>1, UninstallsKeep DEF Y!UninstallEnds
  <1>4. CASE Y!A!OtherUninstalls /\ alone' = FALSE /\ UNCHANGED <<heeds, deleting>>
    <2>1. others < MaxOthers
      BY <1>4, Zenon DEF Y!A!OtherUninstalls
    <2>2. others' = others + 1
      BY <1>4, Zenon DEF Y!A!OtherUninstalls
    <2>3. others' \in 0 .. MaxOthers
      BY <1>1, <2>1, <2>2
    <2>4. alone' \in BOOLEAN
      BY <1>4
    <2> QED BY <1>1, <1>4, <2>3, <2>4, UninstallsKeep DEF Y!A!OtherUninstalls
  <1>5. CASE Y!A!OtherPosts /\ alone' = FALSE /\ UNCHANGED <<heeds, deleting>>
    <2>1. /\ others < MaxOthers /\ others' = others + 1 /\ UNCHANGED <<mode, step, try, upgraded, baseline>>
          /\ Y!A!Queued(MaxAttempts + others', app.present) /\ app' = app
      BY <1>5 DEF Y!A!OtherPosts
    <2>2. others' \in 1 .. MaxOthers /\ others' \in 0 .. MaxOthers /\ app.present \in BOOLEAN
      BY <2>1, AppParts DEF LifecycleInv, LifecycleShape, LifecycleBounds
    <2>3. MaxAttempts + others' \in Y!A!Ops
      BY <2>2, NumbersAreOps
    <2>4. helm' \in [Y!A!Ops -> [status : Y!A!OpStatus, upgrade : BOOLEAN]]
      BY <2>1, <2>2, <2>3, OneQueued DEF LifecycleInv, LifecycleShape
    <2>5. alone' \in BOOLEAN
      BY <1>5
    <2>6. LifecycleShape' /\ Shows'
      BY <1>5, <2>1, <2>2, <2>4, <2>5 DEF LifecycleInv, LifecycleShape, Shows
    <2> QED BY <1>5, <2>6 DEF LifecycleInv, Undisturbed
  <1> QED BY <1>2, <1>3, <1>4, <1>5

LEMMA LifecycleStep ==
  ASSUME LifecycleBounds, LifecycleInv, Y!Next \/ UNCHANGED Y!vars
  PROVE  LifecycleInv'
  <1>1. CASE Y!Service
    BY <1>1, ServiceKeeps, ServiceUndisturbed DEF LifecycleInv
  <1>2. CASE Y!A!Helm /\ UNCHANGED <<heeds, deleting, alone>>
    BY <1>2, HelmKeeps
  <1>3. CASE \/ Y!UninstallStarts
             \/ Y!UninstallEnds
             \/ (Y!A!OtherPosts \/ Y!A!OtherUninstalls) /\ alone' = FALSE /\ UNCHANGED <<heeds, deleting>>
    BY <1>3, OthersKeep
  <1>4. CASE UNCHANGED Y!vars
    BY <1>4 DEF Y!vars, Y!shared, LifecycleInv, LifecycleShape, Shows, Undisturbed, InProgress, Stands
  <1> QED BY <1>1, <1>2, <1>3, <1>4 DEF Y!Next

LEMMA LifecycleStart ==
  ASSUME LifecycleBounds, Y!Init
  PROVE  LifecycleInv
  <1>1. /\ mode \in {"install", "manage"} /\ step = "idle" /\ try = 0 /\ upgraded = FALSE /\ baseline = -1
        /\ app \in {Y!A!NoApp, [present |-> TRUE, gen |-> 1, obs |-> 1, by |-> 0,
                               release |-> "deployed", shown |-> "deployed"]}
        /\ helm = [o \in Y!A!Ops |-> [status |-> "none", upgrade |-> FALSE]] /\ others = 0
        /\ heeds \in BOOLEAN /\ deleting = FALSE /\ alone = FALSE
    BY DEF Y!Init, Y!A!Init
  <1>2. app \in Y!A!AppType /\ app.obs <= app.gen /\ Shows
    <2>1. CASE app = Y!A!NoApp
      BY <2>1 DEF Y!A!NoApp, Y!A!AppType, Y!A!States, Shows
    <2>2. CASE app = [present |-> TRUE, gen |-> 1, obs |-> 1, by |-> 0,
                      release |-> "deployed", shown |-> "deployed"]
      BY <2>2 DEF Y!A!AppType, Y!A!States, Shows
    <2> QED BY <1>1, <2>1, <2>2
  <1>3. helm \in [Y!A!Ops -> [status : Y!A!OpStatus, upgrade : BOOLEAN]]
    BY <1>1 DEF Y!A!OpStatus
  <1>4. try \in 0 .. MaxAttempts /\ others \in 0 .. MaxOthers
    BY <1>1 DEF LifecycleBounds
  <1>5. baseline \in Int /\ baseline >= -1
    BY <1>1
  <1>6. upgraded \in BOOLEAN /\ deleting \in BOOLEAN /\ alone \in BOOLEAN
    BY <1>1
  <1>7. LifecycleShape
    BY <1>1, <1>2, <1>3, <1>4, <1>5, <1>6 DEF LifecycleShape, Steps
  <1> QED BY <1>1, <1>2, <1>7 DEF LifecycleInv, Undisturbed

-----------------------------------------------------------------------------
(* What a wait that ends has read. *)

LEMMA EndReads ==
  ASSUME LifecycleInv, step = "poll", app.present, ~(app.obs < app.gen), app.shown # "pending"
  PROVE  /\ app.release = app.shown /\ app.release \in {"deployed", "failed", "other"}
         /\ app.release = "other" => ~alone
         /\ alone /\ ~(upgraded /\ app.obs <= IF baseline < 0 THEN app.obs ELSE baseline) =>
              helm[try].status = app.release /\ app.by = try
  <1>1. app.obs = app.gen /\ app.obs \in Nat /\ app.shown \in Y!A!States
    BY AppParts DEF LifecycleInv
  <1>2. app.release = app.shown /\ app.release \in {"deployed", "failed", "other"}
        /\ (app.release = "other" => ~alone)
    BY <1>1 DEF LifecycleInv, Shows, Undisturbed, Y!A!States
  <1>3. ASSUME alone, ~(upgraded /\ app.obs <= IF baseline < 0 THEN app.obs ELSE baseline)
        PROVE  helm[try].status = app.release /\ app.by = try
    <2>1. Stands(helm[try])
      BY <1>3 DEF LifecycleInv, Undisturbed
    <2>2. helm[try].status # "queued"
      <3> SUFFICES ASSUME helm[try].status = "queued" PROVE FALSE
        OBVIOUS
      <3>1. upgraded /\ baseline \in {-1, app.obs}
        BY <2>1 DEF Stands, LifecycleInv, LifecycleShape
      <3>2. (IF baseline < 0 THEN app.obs ELSE baseline) = app.obs
        BY <1>1, <3>1
      <3> QED BY <1>1, <1>3, <3>1, <3>2
    <2>3. try \in Y!A!Ops
      <3>1. step \notin {"idle", "success", "deleting", "failed"}
        OBVIOUS
      <3>2. try \in 1 .. MaxAttempts
        BY <3>1 DEF LifecycleInv, LifecycleShape
      <3> QED BY <3>2, NumbersAreOps, ServicesAssumption DEF LifecycleBounds
    <2>4. helm[try].status \in Y!A!OpStatus
      BY <2>3 DEF LifecycleInv, LifecycleShape
    <2>5. helm[try].status \in {"deployed", "failed"}
      BY <1>2, <2>1, <2>2, <2>4 DEF Stands, Y!A!OpStatus
    <2> QED BY <2>1, <2>5 DEF Stands
  <1> QED BY <1>2, <1>3

LEMMA SoundStep ==
  ASSUME LifecycleInv, Y!Next
  PROVE  Y!Sound
  <1>1. ASSUME step = "poll", step' = "attach" PROVE Y!Poll
    BY <1>1 DEF Y!Next, Y!Service, Y!createOrUpgradeApp, Y!CheckApp, Y!Post, Y!PostFails, Y!Timeout, Y!Return,
                Y!deleteApp, Y!DeleteReturns, Y!UninstallStarts, Y!UninstallEnds, Y!A!CheckApp, Y!A!Post, Y!A!PostRefused,
                Y!A!PostUnanswered, Y!A!Timeout, Y!A!Attach, Y!A!Helm, Y!A!HelmStarts, Y!A!HelmEnds,
                Y!A!Observe, Y!A!OtherPosts, Y!A!OtherUninstalls
  <1>2. ASSUME step = "poll", step' = "attach"
        PROVE  /\ app.release = "deployed" \/ (app.release = "other" /\ app.present /\ ~alone)
               /\ alone /\ (heeds \/ ~upgraded) => helm[try].status = "deployed" /\ app.by = try
    <2>1. /\ app.present /\ ~Y!Undecided(baseline') /\ app.shown # "failed"
          /\ baseline' = IF baseline < 0 THEN app.obs ELSE baseline
      BY <1>1, <1>2 DEF Y!Poll
    <2>2. ~(app.obs < app.gen) /\ ~Y!Stale(baseline') /\ app.shown # "pending"
      BY <2>1 DEF Y!Undecided
    <2>3. app.release = "deployed" \/ (app.release = "other" /\ app.present /\ ~alone)
      BY <1>2, <2>1, <2>2, EndReads
    <2>4. ASSUME alone, heeds \/ ~upgraded PROVE helm[try].status = "deployed" /\ app.by = try
      <3>1. ~(upgraded /\ app.obs <= IF baseline < 0 THEN app.obs ELSE baseline)
        BY <2>1, <2>2, <2>4 DEF Y!Stale
      <3> QED BY <1>2, <2>1, <2>2, <2>3, <2>4, <3>1, EndReads
    <2> QED BY <2>3, <2>4
  <1>3. ASSUME Y!A!Poll, step' = "failed", alone PROVE helm[try].status = "failed" /\ app.by = try
    <2>1. /\ step = "poll" /\ app.present /\ ~Y!A!Undecided(baseline') /\ app.shown = "failed"
          /\ baseline' = IF baseline < 0 THEN app.obs ELSE baseline
      BY <1>3 DEF Y!A!Poll
    <2>2. ~(app.obs < app.gen) /\ ~(upgraded /\ app.obs <= IF baseline < 0 THEN app.obs ELSE baseline)
      BY <2>1 DEF Y!A!Undecided, Y!A!Stale
    <2> QED BY <1>3, <2>1, <2>2, EndReads
  <1> QED BY <1>2, <1>3 DEF Y!Sound, Y!A!OwnEnd

-----------------------------------------------------------------------------
(* All of it together. *)

ServicesInv == StoresInv /\ PromisesInv /\ (part = "lifecycle" => LifecycleInv)

LEMMA PartsStep ==
  ASSUME ServicesInv, [Next]_vars
  PROVE  /\ part = "lifecycle" => LifecycleInv'
         /\ part = "lifecycle" => Y!Sound \/ UNCHANGED vars
         /\ part' = part
  <1>1. part' = part
    BY DEF Next, StoresNext, PromisesNext, LifecycleNext, Records, Catalog, PullSecret,
           Pools, Retry, Calls, vars
  <1>2. ASSUME part = "lifecycle" PROVE LifecycleInv' /\ (Y!Sound \/ UNCHANGED vars)
    <2>1. Y!Next \/ UNCHANGED vars
      BY <1>2 DEF Next, StoresNext, PromisesNext, LifecycleNext, Records, Catalog, PullSecret,
                  Pools, Retry, Calls
    <2>2. Y!Next \/ UNCHANGED Y!vars
      BY <2>1 DEF vars, lifecycleVars, Y!vars, Y!shared
    <2> QED BY <1>2, <2>1, <2>2, LifecycleStep, SoundStep, ServicesAssumption DEF ServicesInv, LifecycleBounds
  <1> QED BY <1>1, <1>2

LEMMA ServicesInvariance == Spec => []ServicesInv
  <1>1. Init => ServicesInv
    <2>1. ASSUME Init, part = "lifecycle" PROVE LifecycleInv
      BY <2>1, LifecycleStart, ServicesAssumption DEF Init, StoresInit, PromisesInit, LifecycleBounds
    <2> QED BY <2>1, StoresStart, PromisesStart DEF ServicesInv
  <1>2. ServicesInv /\ [Next]_vars => ServicesInv'
    BY PartsStep, StoresStep, PromisesStep DEF ServicesInv
  <1> QED BY <1>1, <1>2, PTL DEF Spec

(***************************************************************************)
(* The state of every part keeps its type.                                 *)
(***************************************************************************)
THEOREM TypeCorrect == Spec => []TypeOK
  <1>1. ASSUME LifecycleInv PROVE Y!TypeOK
    BY <1>1 DEF LifecycleInv, LifecycleShape, Y!TypeOK, Steps
  <1>2. ServicesInv => TypeOK
    BY <1>1, RecordsTyped, CatalogFollows, SecretsTyped, CallsTyped, ServicesAssumption
       DEF ServicesInv, StoresInv, PromisesInv, PoolsInv, RetryInv, TypeOK
  <1> QED BY <1>2, ServicesInvariance, PTL

(***************************************************************************)
(* A wait of AppLifecycleService that ends well ends on a release neither  *)
(* in progress nor failed, whoever acts, and on a deployed one with        *)
(* nothing else under way from the call on; what it reads is then its own  *)
(* operation's result, if after an upgrade it is told so (what             *)
(* createOrUpgradeApp returned), for any number of calls and deletes.      *)
(***************************************************************************)
THEOREM LifecycleIsSound == Spec => LifecycleSound
  <1>1. ServicesInv /\ [Next]_vars => [part = "lifecycle" => Y!Sound]_vars
    BY PartsStep
  <1> QED BY <1>1, ServicesInvariance, PTL DEF Spec, LifecycleSound

===============================================================================
