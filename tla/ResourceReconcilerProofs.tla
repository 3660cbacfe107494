---------------------- MODULE ResourceReconcilerProofs ----------------------
(***************************************************************************)
(* Proofs about ResourceReconciler, for every number of workers, every     *)
(* desired state, every set of options and every bound.                    *)
(***************************************************************************)
EXTENDS ResourceReconciler, TLAPS

-----------------------------------------------------------------------------
(* What the pure steps return. *)

\* A caller starts with a well-typed desired object (the entry of ReconcileResource).
LEMMA BeginType == ASSUME NEW want \in Desired PROVE Begin(want) \in Call
  BY DEF Begin, Call, Desired

\* Merging keeps every label of both objects and neither adds nor drops the current object's annotation
\* (MetaBase.Merge and the rule on the managed-component annotation).
LEMMA MergeMetaType ==
  ASSUME NEW d \in Call, NEW current \in Object
  PROVE  /\ MergeMeta(d, current) \in Call
         /\ MergeMeta(d, current).rv = d.rv
         /\ MergeMeta(d, current).state = d.state /\ MergeMeta(d, current).spec = d.spec
         /\ current.labels \subseteq MergeMeta(d, current).labels
         /\ d.labels \subseteq MergeMeta(d, current).labels
         /\ current.component = NoComponent <=> MergeMeta(d, current).component = NoComponent
  <1>1. /\ d.labels \cup current.labels \in SUBSET Labels
        /\ d.component \in Component /\ current.component \in Component
    BY DEF Call, Object
  <1> DEFINE c == IF NoComponent \in {d.component, current.component}
                  THEN current.component ELSE d.component
             l == d.labels \cup current.labels
  <1>2. c \in Component /\ (current.component = NoComponent <=> c = NoComponent)
    BY <1>1
  <1>3. MergeMeta(d, current) = [d EXCEPT !.labels = l, !.component = c]
    BY DEF MergeMeta
  <1>4. l \in SUBSET Labels /\ current.labels \subseteq l /\ d.labels \subseteq l
    BY <1>1
  <1> HIDE DEF c, l
  <1> QED BY <1>2, <1>3, <1>4 DEF Call

\* The same of the object given to Update, which carries the version that was read
\* (SetResourceVersion).
LEMMA PrepareType ==
  ASSUME NEW d \in Call, NEW current \in Object
  PROVE  /\ Prepare(d, current) \in Call
         /\ Prepare(d, current).rv = current.rv
         /\ Prepare(d, current).state = d.state /\ Prepare(d, current).spec = d.spec
         /\ current.labels \subseteq Prepare(d, current).labels
         /\ d.labels \subseteq Prepare(d, current).labels
         /\ current.component = NoComponent <=> Prepare(d, current).component = NoComponent
  <1>1. current.rv \in Nat BY DEF Object
  <1> QED BY <1>1, MergeMetaType DEF Prepare, Call

\* A created object is well-typed and takes the next revision (the API server's create).
LEMMA FreshType ==
  ASSUME NEW d, d.spec \in Specs, d.labels \in SUBSET Labels, d.component \in Component, rev \in Nat
  PROVE  Fresh(d) \in Object /\ Fresh(d).rv = rev + 1
  BY DEF Fresh, Object

\* An updated object is well-typed, takes the next revision and the given metadata (the API
\* server's update).
LEMMA OverwriteType ==
  ASSUME NEW old \in Object, NEW d \in Call, rev \in Nat
  PROVE  /\ Overwrite(old, d) \in Object /\ Overwrite(old, d).rv = rev + 1
         /\ Overwrite(old, d).labels = d.labels /\ Overwrite(old, d).component = d.component
         /\ Overwrite(old, d).deleting = old.deleting
  <1>1. /\ rev + 1 \in Nat /\ d.spec \in Specs /\ d.labels \in SUBSET Labels
        /\ d.component \in Component
    BY DEF Call
  <1> DEFINE r == rev + 1  s == d.spec  l == d.labels  c == d.component
  <1>2. Overwrite(old, d) = [old EXCEPT !.rv = r, !.spec = s, !.labels = l, !.component = c]
    BY DEF Overwrite
  <1>3. r \in Nat /\ s \in Specs /\ l \in SUBSET Labels /\ c \in Component BY <1>1
  <1> HIDE DEF r, s, l, c
  <1>4. Overwrite(old, d) \in Object BY <1>2, <1>3 DEF Object
  <1>5. /\ Overwrite(old, d).rv = r /\ Overwrite(old, d).labels = l
        /\ Overwrite(old, d).component = c /\ Overwrite(old, d).deleting = old.deleting
    BY <1>2 DEF Object
  <1> QED BY <1>4, <1>5 DEF r, l, c

\* The policy of a recreation is one that Kubernetes knows (NewGenericReconciler).
LEMMA OptsPolicy == ASSUME opts \in Options
                    PROVE  Opts.policy \in Policies /\ RecreatePolicy \in Policies
  <1>1. opts.policy \in Policies \cup {Nil} /\ "policy" \in DOMAIN opts BY DEF Options
  <1>2. Opts.policy = IF opts.policy = Nil THEN "Background" ELSE opts.policy
    BY DEF Opts, NewGenericReconciler, Options
  <1> QED BY <1>1, <1>2 DEF RecreatePolicy, Policies

-----------------------------------------------------------------------------
(* Every step leaves the object alone or stores a new version of it. *)

NewVersion == \/ UNCHANGED <<store, rev>>
              \/ rev' = rev + 1 /\ (store' # NoObject => store'.rv = rev + 1)

ClusterOK == /\ store' \in Object \cup {NoObject} /\ rev' \in Nat
             /\ pods' \in [alive : BOOLEAN, owner : Nat]
             /\ NewVersion

\* A delete removes the object or stores it anew, marked (the API server's delete).
LEMMA DeleteType ==
  ASSUME TypeOK, store # NoObject, NEW policy \in Policies, Delete(policy)
  PROVE  ClusterOK
  <1>1. store \in Object /\ rev \in Nat /\ rev + 1 \in Nat BY DEF TypeOK
  <1>2. pods' \in [alive : BOOLEAN, owner : Nat] BY DEF Delete, TypeOK
  <1>3. CASE store.deleting # "no" BY <1>1, <1>2, <1>3 DEF Delete, ClusterOK, NewVersion
  <1>4. CASE store.deleting = "no"
    <2> DEFINE marked == [store EXCEPT !.deleting = policy, !.rv = rev + 1]
    <2>1. marked \in Object /\ marked.rv = rev + 1 BY <1>1 DEF Object
    <2>2. rev' = rev + 1 /\ store' \in {NoObject, marked} BY <1>4 DEF Delete, Write
    <2> QED BY <1>1, <1>2, <2>1, <2>2 DEF ClusterOK, NewVersion
  <1> QED BY <1>3, <1>4

\* A step that leaves the cluster alone keeps it well-typed.
LEMMA UnchangedCluster == ASSUME TypeOK, UNCHANGED cluster PROVE ClusterOK
  BY DEF TypeOK, cluster, ClusterOK, NewVersion

\* CreateIfNotExist's create stores at most a fresh version.
LEMMA CreateType == ASSUME TypeOK, NEW w \in Workers, Create(w) PROVE ClusterOK
  <1>1. desired[w] \in Call /\ rev \in Nat BY DEF TypeOK
  <1>2. Fresh(desired[w]) \in Object /\ Fresh(desired[w]).rv = rev + 1
    BY <1>1, FreshType DEF Call
  <1>3. CASE Refuse(w) BY <1>3, UnchangedCluster DEF Refuse, cluster
  <1>4. CASE Write(Fresh(desired[w])) /\ UNCHANGED pods
    BY <1>1, <1>2, <1>4 DEF Write, ClusterOK, NewVersion, TypeOK
  <1> QED BY <1>3, <1>4 DEF Create

\* ReconcileResource's update stores at most a fresh version.
LEMMA UpdateType == ASSUME TypeOK, NEW w \in Workers, Update(w) PROVE ClusterOK
  <1>1. desired[w] \in Call /\ rev \in Nat /\ (store # NoObject => store \in Object) BY DEF TypeOK
  <1>2. CASE Refuse(w) BY <1>2, UnchangedCluster DEF Refuse, cluster
  <1>3. CASE UNCHANGED cluster BY <1>3, UnchangedCluster
  <1>4. CASE UNCHANGED <<store, rev>> /\ UNCHANGED pods BY <1>4, UnchangedCluster DEF cluster
  <1>5. CASE store # NoObject /\ Write(Overwrite(store, desired[w])) /\ UNCHANGED pods
    <2>1. /\ Overwrite(store, desired[w]) \in Object
          /\ Overwrite(store, desired[w]).rv = rev + 1
      BY <1>1, <1>5, OverwriteType
    <2> QED BY <1>1, <1>5, <2>1 DEF Write, ClusterOK, NewVersion, TypeOK
  <1> QED BY <1>2, <1>3, <1>4, <1>5 DEF Update, Current

\* No step of a call breaks the cluster's types or reuses a version.
LEMMA CallClusterOK == ASSUME TypeOK, NEW w \in Workers, StartCall(w) \/ Progress(w) \/ Fault(w)
                       PROVE  ClusterOK
  <1>1. CASE UNCHANGED cluster BY <1>1, UnchangedCluster
  <1>2. CASE Create(w) BY <1>2, CreateType
  <1>3. CASE Update(w) BY <1>3, UpdateType
  <1>4. CASE RecreateDelete(w)
    <2>1. RecreatePolicy \in Policies BY OptsPolicy DEF TypeOK
    <2>2. CASE Refuse(w) BY <2>2, UnchangedCluster DEF Refuse, cluster
    <2>3. CASE store # NoObject /\ Delete(RecreatePolicy) BY <2>1, <2>3, DeleteType
    <2> QED BY <1>4, <2>2, <2>3 DEF RecreateDelete
  <1>5. CASE Remove(w)
    <2>1. CASE Refuse(w) BY <2>1, UnchangedCluster DEF Refuse, cluster
    <2>2. CASE store # NoObject /\ Delete("Background") BY <2>2, DeleteType DEF Policies
    <2> QED BY <1>5, <2>1, <2>2 DEF Remove
  <1> QED BY <1>1, <1>2, <1>3, <1>4, <1>5
          DEF StartCall, Progress, Fault, Retry, GetMissing, GetCreated, GetAbsent, GetTerminating,
              GetPresent, Poll

\* Neither does a step of users, informers or cluster controllers.
LEMMA OthersClusterOK == ASSUME TypeOK, CacheSync \/ External \/ ClusterControllers PROVE ClusterOK
  <1>0. rev \in Nat /\ rev + 1 \in Nat /\ pods \in [alive : BOOLEAN, owner : Nat]
        /\ (store # NoObject => store \in Object)
    BY DEF TypeOK
  <1>1. ASSUME NEW new \in Object, Write([new EXCEPT !.rv = rev + 1]), UNCHANGED pods PROVE ClusterOK
    <2>1. [new EXCEPT !.rv = rev + 1] \in Object /\ [new EXCEPT !.rv = rev + 1].rv = rev + 1
      BY <1>0 DEF Object
    <2> QED BY <1>0, <1>1, <2>1 DEF Write, ClusterOK, NewVersion
  <1>2. CASE CacheSync BY <1>2, UnchangedCluster DEF CacheSync, cluster
  <1>3. CASE ExternalCreate
    <2>1. PICK spec \in Specs, labels \in SUBSET Labels :
             /\ Write(Fresh([spec |-> spec, labels |-> labels, component |-> NoComponent]))
             /\ UNCHANGED pods
      BY <1>3 DEF ExternalCreate
    <2> DEFINE d == [spec |-> spec, labels |-> labels, component |-> NoComponent]
    <2>2. d.spec \in Specs /\ d.labels \in SUBSET Labels /\ d.component \in Component
      BY DEF Component
    <2>3. Write(Fresh(d)) BY <2>1
    <2> HIDE DEF d
    <2>4. Fresh(d) \in Object /\ Fresh(d).rv = rev + 1 BY <1>0, <2>2, FreshType
    <2> QED BY <1>0, <2>1, <2>3, <2>4 DEF Write, ClusterOK, NewVersion
  <1>4. CASE ExternalEdit
    <2>1. PICK new \in {[store EXCEPT !.labels = labels] : labels \in SUBSET Labels}
              \cup {[store EXCEPT !.spec = spec] : spec \in {s \in Specs : <<opts.kind, store.spec, s>> \notin Immutable}}
              \cup {[store EXCEPT !.component = NoComponent]}
              \cup (IF store.deleting = "no" THEN {[store EXCEPT !.held = TRUE]} ELSE {}) :
                 Write([new EXCEPT !.rv = rev + 1])
      BY <1>4 DEF ExternalEdit
    <2>2. store \in Object BY <1>0, <1>4 DEF ExternalEdit
    <2>3. \A labels \in SUBSET Labels : [store EXCEPT !.labels = labels] \in Object BY <2>2 DEF Object
    <2>4. \A spec \in Specs : [store EXCEPT !.spec = spec] \in Object BY <2>2 DEF Object
    <2>5. [store EXCEPT !.component = NoComponent] \in Object BY <2>2 DEF Object, Component
    <2>6. [store EXCEPT !.held = TRUE] \in Object BY <2>2 DEF Object
    <2>7. new \in Object BY <2>1, <2>3, <2>4, <2>5, <2>6
    <2> QED BY <1>1, <1>4, <2>1, <2>7 DEF ExternalEdit
  <1>5. CASE ExternalDelete
    <2>1. store # NoObject /\ \E policy \in Policies : Delete(policy) BY <1>5 DEF ExternalDelete
    <2> QED BY <2>1, DeleteType
  <1>6. CASE Release
    <2>1. store \in Object /\ Write([store EXCEPT !.held = FALSE, !.rv = rev + 1]) /\ UNCHANGED pods
      BY <1>0, <1>6 DEF Release
    <2>2. /\ [store EXCEPT !.held = FALSE, !.rv = rev + 1] \in Object
          /\ [store EXCEPT !.held = FALSE, !.rv = rev + 1].rv = rev + 1
      BY <1>0, <2>1 DEF Object
    <2> QED BY <1>0, <2>1, <2>2 DEF Write, ClusterOK, NewVersion
  <1>7. CASE Establish
    <2>1. store \in Object /\ Write([store EXCEPT !.established = TRUE, !.rv = rev + 1]) /\ UNCHANGED pods
      BY <1>0, <1>7 DEF Establish
    <2>2. /\ [store EXCEPT !.established = TRUE, !.rv = rev + 1] \in Object
          /\ [store EXCEPT !.established = TRUE, !.rv = rev + 1].rv = rev + 1
      BY <1>0, <2>1 DEF Object
    <2> QED BY <1>0, <2>1, <2>2 DEF Write, ClusterOK, NewVersion
  <1>8. CASE StartPods
    <2>1. store.uid \in Nat /\ pods' = [alive |-> TRUE, owner |-> store.uid] /\ UNCHANGED <<store, rev>>
      BY <1>0, <1>8 DEF StartPods, Object
    <2> QED BY <2>1 DEF ClusterOK, NewVersion, TypeOK
  <1>9. CASE CollectPods \/ OrphanPods
    <2>0. [pods EXCEPT !.owner = 0] \in [alive : BOOLEAN, owner : Nat]
          /\ [alive |-> FALSE, owner |-> 0] \in [alive : BOOLEAN, owner : Nat]
      BY <1>0
    <2>1. pods' \in [alive : BOOLEAN, owner : Nat] /\ UNCHANGED <<store, rev>>
      BY <2>0, <1>9 DEF CollectPods, OrphanPods
    <2> QED BY <2>1 DEF ClusterOK, NewVersion, TypeOK
  <1>10. CASE FinishDelete
    BY <1>0, <1>10 DEF FinishDelete, Write, ClusterOK, NewVersion
  <1> QED BY <1>2, <1>3, <1>4, <1>5, <1>6, <1>7, <1>8, <1>9, <1>10 DEF External, ClusterControllers

-----------------------------------------------------------------------------
(* Type correctness. *)

CallersOK == /\ pc' \in [Workers -> Resting \cup Calling]
             /\ desired' \in [Workers -> Call]
             /\ tries' \in [Workers -> Nat] /\ external' \in Nat /\ faults' \in Nat
             /\ opts' \in Options /\ cache' \in Object \cup {NoObject}

\* No step of a call breaks the types of what the callers hold.
LEMMA CallCallersOK == ASSUME TypeOK, NEW w \in Workers, StartCall(w) \/ Progress(w) \/ Fault(w)
                       PROVE  CallersOK
  <1> USE DEF Goto, Resting, Calling, Known, budget
  <1>0. /\ desired[w] \in Call /\ pc \in [Workers -> Resting \cup Calling]
        /\ desired \in [Workers -> Call] /\ tries \in [Workers -> Nat] /\ external \in Nat
        /\ faults \in Nat /\ opts \in Options /\ cache \in Object \cup {NoObject}
        /\ rev \in Nat /\ store \in Object \cup {NoObject}
    BY DEF TypeOK
  <1>1. CASE StartCall(w)
    <2>1. PICK want \in Wants[w] : desired' = [desired EXCEPT ![w] = Begin(want)]
      BY <1>1 DEF StartCall
    <2>2. Begin(want) \in Call BY <2>1, WantsAssumption, BeginType
    <2> QED BY <1>0, <1>1, <2>1, <2>2 DEF StartCall, CallersOK
  <1>2. CASE Retry(w) BY <1>0, <1>2 DEF Retry, CallersOK
  <1>3. CASE GetMissing(w) BY <1>0, <1>3 DEF GetMissing, CallersOK
  <1>4. CASE GetCreated(w) BY <1>0, <1>4 DEF GetCreated, CallersOK
  <1>5. CASE GetAbsent(w) BY <1>0, <1>5 DEF GetAbsent, CallersOK
  <1>6. CASE GetTerminating(w) BY <1>0, <1>6 DEF GetTerminating, CallersOK
  <1>7. CASE GetPresent(w)
    <2>1. Seen \in Object BY <1>0, <1>7 DEF GetPresent, Seen
    <2>2. MergeMeta(desired[w], Seen) \in Call /\ Prepare(desired[w], Seen) \in Call
      BY <1>0, <2>1, MergeMetaType, PrepareType
    <2>3. desired' \in [Workers -> Call] /\ pc' \in [Workers -> Resting \cup Calling]
      BY <1>0, <1>7, <2>2 DEF GetPresent
    <2> QED BY <1>0, <1>7, <2>3 DEF GetPresent, CallersOK
  <1>8. CASE Create(w)
    <2>1. desired' \in [Workers -> Call]
      <3>1. CASE Refuse(w) BY <1>0, <3>1 DEF Refuse
      <3>2. ASSUME NEW v \in {desired[w].rv, rev + 1}, desired' = [desired EXCEPT ![w].rv = v]
            PROVE  desired' \in [Workers -> Call]
        <4>1. v \in Nat BY <1>0 DEF Call
        <4>2. [desired[w] EXCEPT !.rv = v] \in Call BY <1>0, <4>1 DEF Call
        <4> QED BY <1>0, <3>2, <4>2
      <3> QED BY <1>8, <3>1, <3>2 DEF Create
    <2> QED BY <1>0, <1>8, <2>1 DEF Create, Refuse, Answer, CallersOK
  <1>9. CASE Poll(w) BY <1>0, <1>9 DEF Poll, CallersOK
  <1>10. CASE Update(w) BY <1>0, <1>10 DEF Update, Refuse, Answer, CallersOK
  <1>11. CASE RecreateDelete(w)
    <2>1. desired' \in [Workers -> Call]
      <3>1. CASE UNCHANGED desired BY <1>0, <3>1
      <3>2. ASSUME NEW v \in {desired[w].rv, 0}, desired' = [desired EXCEPT ![w].rv = v]
            PROVE  desired' \in [Workers -> Call]
        <4>1. [desired[w] EXCEPT !.rv = v] \in Call BY <1>0 DEF Call
        <4> QED BY <1>0, <3>2, <4>1
      <3> QED BY <1>11, <3>1, <3>2 DEF RecreateDelete, Refuse
    <2> QED BY <1>0, <1>11, <2>1 DEF RecreateDelete, Refuse, Answer, CallersOK
  <1>12. CASE Remove(w) BY <1>0, <1>12 DEF Remove, Refuse, Answer, CallersOK
  <1>13. CASE Fault(w) BY <1>0, <1>13 DEF Fault, CallersOK
  <1> QED BY <1>1, <1>2, <1>3, <1>4, <1>5, <1>6, <1>7, <1>8, <1>9, <1>10, <1>11, <1>12, <1>13
          DEF Progress

\* Everybody else leaves what the callers hold alone.
LEMMA OthersCallersOK ==
  ASSUME TypeOK, CacheSync \/ External \/ ClusterControllers PROVE CallersOK
  BY DEF TypeOK, CallersOK, CacheSync, External, ClusterControllers, Others, callers, budget

\* The initial states are well-typed.
LEMMA InitType == ASSUME Init PROVE TypeOK
  <1>1. \A w \in Workers : Begin(CHOOSE want \in Wants[w] : TRUE) \in Call
    <2> SUFFICES ASSUME NEW w \in Workers PROVE Begin(CHOOSE want \in Wants[w] : TRUE) \in Call
      OBVIOUS
    <2>1. Wants[w] \subseteq Desired /\ Wants[w] # {} BY WantsAssumption
    <2>2. (CHOOSE want \in Wants[w] : TRUE) \in Desired BY <2>1
    <2> QED BY <2>2, BeginType
  <1>2. desired \in [Workers -> Call] BY <1>1 DEF Init
  <1> QED BY <1>2, OptionsAssumption DEF Init, TypeOK, Resting

\* Every step keeps the types.
LEMMA NextType == ASSUME TypeOK, [Next]_vars PROVE TypeOK'
  <1>1. CASE UNCHANGED vars BY <1>1 DEF vars, TypeOK
  <1>2. CASE \E w \in Workers : StartCall(w) \/ Progress(w) \/ Fault(w)
    <2>1. ClusterOK /\ CallersOK BY <1>2, CallClusterOK, CallCallersOK
    <2> QED BY <2>1 DEF ClusterOK, CallersOK, TypeOK
  <1>3. CASE CacheSync \/ External \/ ClusterControllers
    <2>1. ClusterOK /\ CallersOK BY <1>3, OthersClusterOK, OthersCallersOK
    <2> QED BY <2>1 DEF ClusterOK, CallersOK, TypeOK
  <1> QED BY <1>1, <1>2, <1>3 DEF Next

\* Whatever the constants, every variable keeps its type: in particular a call in progress always holds
\* a well-formed desired object, and what a deletion leaves on the object is a propagation policy.
THEOREM TypeCorrect == Spec => []TypeOK
  <1>1. Init => TypeOK BY InitType
  <1>2. TypeOK /\ [Next]_vars => TypeOK' BY NextType
  <1> QED BY <1>1, <1>2, PTL DEF Spec

-----------------------------------------------------------------------------
(* Versions identify contents. *)

\* A worker whose desired object does not change stays prepared, whatever happens to the object.
LEMMA PreparedKept ==
  ASSUME TypeOK, NEW w \in Workers, Prepared(w), NewVersion, rev' \in Nat,
         desired'[w] = desired[w], pc'[w] = "update" => pc[w] = "update"
  PROVE  Prepared(w)'
  <1>1. desired[w].rv \in Nat /\ rev \in Nat BY DEF TypeOK, Call
  <1>2. CASE UNCHANGED <<store, rev>> BY <1>2 DEF Prepared
  <1>3. CASE rev' = rev + 1 /\ (store' # NoObject => store'.rv = rev + 1)
    BY <1>1, <1>3 DEF Prepared
  <1> QED BY <1>2, <1>3 DEF NewVersion

\* So do the parts about the object and the cache, when the cache keeps its copy.
StoreAndCache == /\ store # NoObject => store.rv \in 1..rev
                 /\ cache # NoObject => cache.rv \in 1..rev
                 /\ store # NoObject /\ cache # NoObject /\ cache.rv = store.rv => cache = store

\* Storing only fresh versions keeps a version the name of one content (the API server's
\* resource versions).
LEMMA StoreAndCacheKept ==
  ASSUME TypeOK, StoreAndCache, NewVersion, cache' = cache PROVE StoreAndCache'
  <1>1. rev \in Nat /\ (store # NoObject => store.rv \in Nat) /\ (cache # NoObject => cache.rv \in Nat)
    BY DEF TypeOK, Object
  <1>2. CASE UNCHANGED <<store, rev>> BY <1>2 DEF StoreAndCache
  <1>3. CASE rev' = rev + 1 /\ (store' # NoObject => store'.rv = rev + 1)
    BY <1>1, <1>3 DEF StoreAndCache
  <1> QED BY <1>2, <1>3 DEF NewVersion

\* The worker that moves: only its Get prepares an update, from what it has read.
LEMMA CallPrepared ==
  ASSUME TypeOK, StoreAndCache, NEW w \in Workers, Prepared(w),
         StartCall(w) \/ Progress(w) \/ Fault(w)
  PROVE  Prepared(w)'
  <1>0. NewVersion /\ rev' \in Nat /\ rev \in Nat /\ desired[w] \in Call
        /\ desired \in [Workers -> Call] /\ pc \in [Workers -> Resting \cup Calling]
    BY CallClusterOK DEF ClusterOK, TypeOK
  <1>1. ASSUME pc'[w] # "update", desired'[w].rv \in {0, desired[w].rv} PROVE Prepared(w)'
    BY <1>0, <1>1 DEF Prepared, NewVersion, Call
  <1>2. CASE StartCall(w)
    <2>1. PICK want \in Wants[w] : desired' = [desired EXCEPT ![w] = Begin(want)]
      BY <1>2 DEF StartCall
    <2>2. desired'[w].rv = 0 BY <1>0, <2>1 DEF Begin
    <2>3. pc'[w] = "get" BY <1>0, <1>2 DEF StartCall, Goto
    <2> QED BY <1>1, <2>2, <2>3
  <1>3. CASE GetPresent(w)
    <2>1. Seen # NoObject /\ Seen \in Object /\ Seen.deleting = "no" BY <1>3 DEF GetPresent, Seen, TypeOK
    <2>2. UNCHANGED <<store, rev>> BY <1>3 DEF GetPresent, cluster
    <2>3. Seen.rv \in 1..rev /\ (store # NoObject /\ store.rv = Seen.rv => Seen = store)
      BY <2>1 DEF Seen, StoreAndCache
    <2>4. CASE pc'[w] \in {"done", "failed"} /\ desired'[w] = MergeMeta(desired[w], Seen)
      BY <1>0, <1>1, <2>1, <2>4, MergeMetaType
    <2>5. CASE pc'[w] = "update" /\ desired'[w] = Prepare(desired[w], Seen)
      <3>1. /\ desired'[w].rv = Seen.rv
            /\ Seen.labels \subseteq desired'[w].labels
            /\ Seen.component = NoComponent <=> desired'[w].component = NoComponent
        BY <1>0, <2>1, <2>5, PrepareType
      <3>2. Seen.rv \in Nat /\ Seen.rv <= rev /\ Seen.rv > 0 BY <1>0, <2>3
      <3> QED BY <2>1, <2>2, <2>3, <3>1, <3>2 DEF Prepared
    <2> QED BY <1>0, <1>3, <2>4, <2>5 DEF GetPresent, Goto
  <1>4. CASE Create(w)
    <2>1. CASE Refuse(w)
      BY <1>0, <1>1, <2>1 DEF Refuse, Goto
    <2>2. CASE /\ Write(Fresh(desired[w]))
               /\ Answer(w, IF opts.kind = "CustomResourceDefinition" THEN "poll" ELSE "done")
               /\ desired' = [desired EXCEPT ![w].rv = IF pc'[w] = "failed" THEN @ ELSE rev + 1]
      <3>1. desired'[w].rv \in {desired[w].rv, rev + 1} BY <1>0, <2>2 DEF Call
      <3>2. rev' = rev + 1 /\ pc'[w] # "update" BY <1>0, <2>2 DEF Write, Answer, Goto
      <3>3. desired[w].rv <= rev /\ rev \in Nat /\ desired[w].rv \in Nat BY <1>0 DEF Prepared, Call
      <3> QED BY <1>0, <3>1, <3>2, <3>3 DEF Prepared
    <2> QED BY <1>4, <2>1, <2>2 DEF Create
  <1>5. CASE RecreateDelete(w)
    <2>1. desired'[w].rv \in {0, desired[w].rv} BY <1>0, <1>5 DEF RecreateDelete, Refuse, Call
    <2>2. pc'[w] # "update" BY <1>0, <1>5 DEF RecreateDelete, Refuse, Answer, Goto
    <2> QED BY <1>1, <2>1, <2>2
  <1>6. CASE Update(w) \/ Remove(w) \/ Poll(w) \/ Fault(w) \/ Retry(w)
             \/ GetMissing(w) \/ GetCreated(w) \/ GetAbsent(w) \/ GetTerminating(w)
    <2>1. pc'[w] # "update"
      BY <1>0, <1>6 DEF Update, Remove, Poll, Fault, Retry, GetMissing, GetCreated, GetAbsent,
                        GetTerminating, Refuse, Answer, Goto
    <2>2. desired'[w] = desired[w]
      BY <1>6 DEF Update, Remove, Poll, Fault, Retry, GetMissing, GetCreated, GetAbsent,
                  GetTerminating, Refuse
    <2> QED BY <1>1, <2>1, <2>2
  <1> QED BY <1>2, <1>3, <1>4, <1>5, <1>6 DEF Progress

\* A step of one worker leaves the locals of the others and the cache alone.
LEMMA CallLocal ==
  ASSUME TypeOK, NEW w \in Workers, NEW v \in Workers, v # w,
         StartCall(w) \/ Progress(w) \/ Fault(w)
  PROVE  desired'[v] = desired[v] /\ pc'[v] = pc[v] /\ cache' = cache
  BY DEF TypeOK, StartCall, Progress, Fault, Retry, GetMissing, GetCreated, GetAbsent, GetTerminating,
         GetPresent, Create, Poll, Update, RecreateDelete, Remove, Refuse, Answer, Goto, Known

\* Calls do not write the informer's cache.
LEMMA CallKeepsCache ==
  ASSUME NEW w \in Workers, StartCall(w) \/ Progress(w) \/ Fault(w) PROVE cache' = cache
  BY DEF StartCall, Progress, Fault, Retry, GetMissing, GetCreated, GetAbsent, GetTerminating,
         GetPresent, Create, Poll, Update, RecreateDelete, Remove, Known

\* Every step keeps versions the names of contents, and prepared updates true to the version they
\* carry (the update path of ReconcileResource).
LEMMA NextVersions == ASSUME TypeOK, VersionsIdentify, [Next]_vars PROVE VersionsIdentify'
  <1>1. StoreAndCache /\ \A w \in Workers : Prepared(w) BY DEF VersionsIdentify, StoreAndCache
  <1>2. SUFFICES StoreAndCache' /\ \A w \in Workers : Prepared(w)'
    BY DEF VersionsIdentify, StoreAndCache
  <1>3. CASE UNCHANGED vars
    BY <1>1, <1>3 DEF vars, StoreAndCache, Prepared
  <1>4. CASE \E w \in Workers : StartCall(w) \/ Progress(w) \/ Fault(w)
    <2>1. PICK w \in Workers : StartCall(w) \/ Progress(w) \/ Fault(w) BY <1>4
    <2>2. NewVersion /\ rev' \in Nat BY <2>1, CallClusterOK DEF ClusterOK
    <2>3. StoreAndCache' BY <1>1, <2>1, <2>2, StoreAndCacheKept, CallKeepsCache
    <2>4. Prepared(w)' BY <1>1, <2>1, CallPrepared
    <2>5. ASSUME NEW v \in Workers, v # w PROVE Prepared(v)'
      BY <1>1, <2>1, <2>2, <2>5, CallLocal, PreparedKept
    <2> QED BY <2>3, <2>4, <2>5
  <1>5. CASE CacheSync \/ External \/ ClusterControllers
    <2>1. NewVersion /\ rev' \in Nat BY <1>5, OthersClusterOK DEF ClusterOK
    <2>2. desired' = desired /\ pc' = pc
      BY <1>5 DEF CacheSync, External, ClusterControllers, Others, callers
    <2>3. \A w \in Workers : Prepared(w)' BY <1>1, <2>1, <2>2, PreparedKept
    <2>4. CASE CacheSync
      <3>1. UNCHANGED <<store, rev>> /\ cache' = store BY <2>4 DEF CacheSync, cluster
      <3> QED BY <1>1, <2>3, <3>1 DEF StoreAndCache
    <2>5. CASE External \/ ClusterControllers
      <3>1. cache' = cache BY <2>5 DEF External, ClusterControllers, Others
      <3> QED BY <1>1, <2>1, <2>3, <3>1, StoreAndCacheKept
    <2> QED BY <1>5, <2>4, <2>5
  <1> QED BY <1>3, <1>4, <1>5 DEF Next

\* Nothing is stored or prepared initially.
LEMMA InitVersions == ASSUME Init PROVE VersionsIdentify
  BY DEF Init, VersionsIdentify, Prepared, Begin

\* Whatever the constants, a version of the object names one content: what SetResourceVersion relies on
\* when it lets an update overwrite exactly the object that was read and merged.
THEOREM VersionsCorrect == Spec => []VersionsIdentify
  <1>1. Init => TypeOK /\ VersionsIdentify BY InitType, InitVersions
  <1>2. TypeOK /\ VersionsIdentify /\ [Next]_vars => TypeOK' /\ VersionsIdentify'
    BY NextType, NextVersions
  <1> QED BY <1>1, <1>2, PTL DEF Spec

-----------------------------------------------------------------------------
(* What a worker may do to an object that exists. *)

\* A rewrite starts from an object that is not terminating, keeps its labels, does not adopt it.
Harmless == /\ store.deleting = "no"
            /\ store.labels \subseteq store'.labels
            /\ store.component = NoComponent => store'.component = NoComponent

\* A delete leaves labels and annotations alone (the API server's delete).
LEMMA DeleteHarmless ==
  ASSUME TypeOK, store # NoObject, store' # NoObject, store' # store,
         NEW policy \in Policies, Delete(policy)
  PROVE  Harmless
  BY DEF TypeOK, Delete, Write, Harmless, Object

\* An update that the API server accepts was prepared from what it overwrites, hence keeps its labels,
\* adopts nothing and meets no terminating object (ReconcileResource).
LEMMA UpdateHarmless ==
  ASSUME TypeOK, NEW w \in Workers, Prepared(w), Update(w), store # NoObject, store' # store
  PROVE  Harmless
  <1>0. desired[w] \in Call /\ store \in Object /\ rev \in Nat BY DEF TypeOK
  <1>1. /\ pc[w] = "update" /\ Current(desired[w])
        /\ store' = Overwrite(store, desired[w])
    BY DEF Update, Refuse, Write, cluster
  <1>2. desired[w].rv = store.rv BY <1>0, <1>1 DEF Current, Prepared, Call
  <1>3. /\ store.deleting = "no" /\ store.labels \subseteq desired[w].labels
        /\ store.component = NoComponent => desired[w].component = NoComponent
    BY <1>1, <1>2 DEF Prepared
  <1>4. store'.labels = desired[w].labels /\ store'.component = desired[w].component
    BY <1>0, <1>1, OverwriteType
  <1> QED BY <1>3, <1>4 DEF Harmless

\* The same of every step of a call.
LEMMA CallHarmless ==
  ASSUME TypeOK, NEW w \in Workers, Prepared(w), StartCall(w) \/ Progress(w) \/ Fault(w),
         store # NoObject, store' # NoObject, store' # store
  PROVE  Harmless
  <1>1. CASE Create(w) BY <1>1 DEF Create, Refuse
  <1>2. CASE Update(w) BY <1>2, UpdateHarmless
  <1>3. CASE RecreateDelete(w)
    <2>1. Delete(RecreatePolicy) BY <1>3 DEF RecreateDelete, Refuse
    <2> QED BY <2>1, OptsPolicy, DeleteHarmless DEF TypeOK
  <1>4. CASE Remove(w)
    <2>1. Delete("Background") BY <1>4 DEF Remove, Refuse
    <2> QED BY <2>1, DeleteHarmless DEF Policies
  <1>5. CASE UNCHANGED cluster BY <1>5 DEF cluster
  <1> QED BY <1>1, <1>2, <1>3, <1>4, <1>5
          DEF StartCall, Progress, Fault, Retry, GetMissing, GetCreated, GetAbsent, GetTerminating,
              GetPresent, Poll

\* The same of every rewriting step there is.
LEMMA RewritesHarmless ==
  ASSUME TypeOK, VersionsIdentify, [Next]_vars PROVE \A w \in Workers : Rewrites(w) => Harmless
  <1> SUFFICES ASSUME NEW w \in Workers, Rewrites(w) PROVE Harmless OBVIOUS
  <1>1. pc'[w] # pc[w] /\ store # NoObject /\ store' # NoObject /\ store' # store BY DEF Rewrites
  <1>2. CASE UNCHANGED vars BY <1>1, <1>2 DEF vars
  <1>3. CASE CacheSync \/ External \/ ClusterControllers
    BY <1>1, <1>3 DEF CacheSync, External, ClusterControllers, Others, callers
  <1>4. CASE \E v \in Workers : StartCall(v) \/ Progress(v) \/ Fault(v)
    <2>1. PICK v \in Workers : StartCall(v) \/ Progress(v) \/ Fault(v) BY <1>4
    <2>2. v = w BY <1>1, <2>1, CallLocal
    <2> QED BY <1>1, <2>1, <2>2, CallHarmless DEF VersionsIdentify
  <1> QED BY <1>2, <1>3, <1>4 DEF Next

\* For every number of workers, every interleaving with users and every staleness of the cache: no call
\* of ReconcileResource marks as managed an object that its owner left unmanaged.
THEOREM NeverAdoptsCorrect == Spec => NeverAdopts
  <1>1. TypeOK /\ VersionsIdentify /\ [Next]_vars =>
           [\A w \in Workers : Rewrites(w) /\ store.component = NoComponent
                                => store'.component = NoComponent]_vars
    BY RewritesHarmless DEF Harmless
  <1> QED BY <1>1, TypeCorrect, VersionsCorrect, PTL DEF Spec, NeverAdopts

\* Nor does one take away a label or annotation it did not put there.
THEOREM KeepsForeignLabelsCorrect == Spec => KeepsForeignLabels
  <1>1. TypeOK /\ VersionsIdentify /\ [Next]_vars =>
           [\A w \in Workers : Rewrites(w) => store.labels \subseteq store'.labels]_vars
    BY RewritesHarmless DEF Harmless
  <1> QED BY <1>1, TypeCorrect, VersionsCorrect, PTL DEF Spec, KeepsForeignLabels

\* Nor does one change an object whose deletion has begun, even after the call has read it.
THEOREM NeverWritesTerminatingCorrect == Spec => NeverWritesTerminating
  <1>1. TypeOK /\ VersionsIdentify /\ [Next]_vars =>
           [\A w \in Workers : Rewrites(w) => store.deleting = "no"]_vars
    BY RewritesHarmless DEF Harmless
  <1> QED BY <1>1, TypeCorrect, VersionsCorrect, PTL DEF Spec, NeverWritesTerminating

-----------------------------------------------------------------------------
(* What a call is about. *)

\* The desired state decides which API calls a call may make, the options whether it may recreate.
Routed(w) ==
    /\ pc[w] \in {"update", "delete", "reget", "recreate"} => desired[w].state = "Present"
    /\ pc[w] = "remove" => desired[w].state = "Absent"
    /\ pc[w] \in {"create", "poll"} => desired[w].state # "Absent"
    /\ pc[w] = "delete" => Recreates(Opts)
    /\ pc[w] = "poll" => opts.kind = "CustomResourceDefinition"

\* A call only adds to its desired object; retries start from what is left of it (ReconcileResource
\* and the retry of NativeReconciler).
LEMMA CallGrows ==
  ASSUME TypeOK, NEW w \in Workers, Progress(w) \/ Fault(w)
  PROVE  /\ desired'[w].state = desired[w].state /\ desired'[w].spec = desired[w].spec
         /\ desired[w].labels \subseteq desired'[w].labels
  <1>0. desired[w] \in Call /\ desired \in [Workers -> Call] BY DEF TypeOK
  <1>1. CASE desired' = desired BY <1>1
  <1>2. CASE GetPresent(w)
    <2>1. Seen \in Object BY <1>2 DEF GetPresent, Seen, TypeOK
    <2>2. desired'[w] \in {MergeMeta(desired[w], Seen), Prepare(desired[w], Seen)}
      BY <1>0, <1>2 DEF GetPresent
    <2> QED BY <1>0, <2>1, <2>2, MergeMetaType, PrepareType
  <1>3. CASE Create(w) BY <1>0, <1>3 DEF Create, Refuse, Call
  <1>4. CASE RecreateDelete(w) BY <1>0, <1>4 DEF RecreateDelete, Refuse, Call
  <1> QED BY <1>1, <1>2, <1>3, <1>4
          DEF Progress, Fault, Retry, GetMissing, GetCreated, GetAbsent, GetTerminating, Poll, Update,
              Remove, Refuse, Known

\* Options are fixed when the reconciler is built (NewGenericReconciler).
LEMMA OptsKept == ASSUME [Next]_vars PROVE opts' = opts
  BY DEF Next, vars, StartCall, Progress, Fault, Retry, GetMissing, GetCreated, GetAbsent,
         GetTerminating, GetPresent, Create, Poll, Update, RecreateDelete, Remove, Known, CacheSync,
         External, ClusterControllers, Others

\* The next API call of a call that moves follows from its state (the switch of ReconcileResource).
LEMMA CallRouted ==
  ASSUME TypeOK, NEW w \in Workers, Routed(w), StartCall(w) \/ Progress(w) \/ Fault(w)
  PROVE  Routed(w)'
  <1>0. /\ pc \in [Workers -> Resting \cup Calling] /\ desired[w] \in Call
        /\ desired \in [Workers -> Call]
    BY DEF TypeOK
  <1>1. opts' = opts BY OptsKept DEF Next
  <1>2. ASSUME pc'[w] \in Resting \cup {"get"} PROVE Routed(w)'
    BY <1>2 DEF Routed, Resting
  <1>3. CASE StartCall(w) BY <1>0, <1>2, <1>3 DEF StartCall, Goto
  <1>4. CASE Retry(w) BY <1>0, <1>2, <1>4 DEF Retry, Goto
  <1>5. CASE Fault(w) BY <1>0, <1>2, <1>5 DEF Fault, Goto, Resting
  <1>6. CASE GetMissing(w)
    <2>1. desired' = desired BY <1>6 DEF GetMissing
    <2>2. CASE pc'[w] \in Resting BY <1>2, <2>2
    <2>3. CASE pc[w] = "get" /\ pc'[w] = "create" /\ desired[w].state # "Absent"
      BY <2>1, <2>3 DEF Routed
    <2>4. CASE pc[w] = "reget" /\ pc'[w] = "recreate" BY <2>1, <2>4 DEF Routed
    <2> QED BY <1>0, <1>6, <2>2, <2>3, <2>4 DEF GetMissing, Goto, Resting
  <1>7. CASE GetCreated(w) BY <1>0, <1>2, <1>7 DEF GetCreated, Goto, Resting
  <1>8. CASE GetAbsent(w)
    <2>1. desired' = desired /\ desired[w].state = "Absent" BY <1>8 DEF GetAbsent
    <2>2. pc'[w] \in {"remove", "done", "failed"} BY <1>0, <1>8 DEF GetAbsent, Goto
    <2> QED BY <2>1, <2>2 DEF Routed
  <1>9. CASE GetTerminating(w) BY <1>0, <1>2, <1>9 DEF GetTerminating, Goto, Resting
  <1>10. CASE GetPresent(w)
    <2>1. desired'[w].state = "Present"
      BY <1>10, CallGrows DEF GetPresent, TakesDefault, Progress
    <2>2. pc'[w] \in {"update", "done", "failed"} BY <1>0, <1>10 DEF GetPresent, Goto
    <2> QED BY <2>1, <2>2 DEF Routed
  <1>11. CASE Create(w)
    <2>1. desired'[w].state = desired[w].state /\ desired[w].state # "Absent"
      BY <1>11, CallGrows DEF Create, Routed, Progress
    <2>2. /\ pc'[w] \in {"poll", "done", "failed"}
          /\ pc'[w] = "poll" => opts.kind = "CustomResourceDefinition"
      BY <1>0, <1>11 DEF Create, Refuse, Answer, Goto
    <2> QED BY <1>1, <2>1, <2>2 DEF Routed
  <1>12. CASE Poll(w) BY <1>0, <1>2, <1>12 DEF Poll, Goto, Resting
  <1>13. CASE Update(w)
    <2>1. desired' = desired /\ desired[w].state = "Present" BY <1>13 DEF Update, Refuse, Routed
    <2>2. CASE pc'[w] \in {"done", "failed"} BY <1>2, <2>2 DEF Resting
    <2>3. CASE pc'[w] = "delete" /\ Recreates(Opts)
      BY <1>1, <2>1, <2>3 DEF Routed, Opts
    <2> QED BY <1>0, <1>13, <2>2, <2>3 DEF Update, Refuse, Answer, Goto
  <1>14. CASE RecreateDelete(w)
    <2>1. desired'[w].state = "Present"
      BY <1>14, CallGrows DEF RecreateDelete, Routed, Progress
    <2>2. pc'[w] \in {"reget", "requeue", "failed"}
      BY <1>0, <1>14 DEF RecreateDelete, Refuse, Answer, Goto
    <2> QED BY <2>1, <2>2 DEF Routed
  <1>15. CASE Remove(w) BY <1>0, <1>2, <1>15 DEF Remove, Refuse, Answer, Goto, Resting
  <1> QED BY <1>3, <1>4, <1>5, <1>6, <1>7, <1>8, <1>9, <1>10, <1>11, <1>12, <1>13, <1>14, <1>15
          DEF Progress

Routing == \A w \in Workers : Routed(w)

\* Nobody's step makes a call do what its state does not call for.
LEMMA NextRouting == ASSUME TypeOK, Routing, [Next]_vars PROVE Routing'
  <1>1. opts' = opts BY OptsKept
  <1>2. ASSUME NEW v \in Workers, pc'[v] = pc[v], desired'[v] = desired[v] PROVE Routed(v)'
    BY <1>1, <1>2 DEF Routing, Routed, Opts
  <1>3. CASE UNCHANGED vars \/ CacheSync \/ External \/ ClusterControllers
    <2>1. pc' = pc /\ desired' = desired
      BY <1>3 DEF vars, CacheSync, External, ClusterControllers, Others, callers
    <2> QED BY <1>2, <2>1 DEF Routing
  <1>4. ASSUME NEW w \in Workers, StartCall(w) \/ Progress(w) \/ Fault(w) PROVE Routing'
    <2>1. Routed(w)' BY <1>4, CallRouted DEF Routing
    <2>2. \A v \in Workers : v # w => pc'[v] = pc[v] /\ desired'[v] = desired[v]
      BY <1>4, CallLocal
    <2> QED BY <1>2, <2>1, <2>2 DEF Routing
  <1> QED BY <1>3, <1>4 DEF Next

\* So it is from the beginning.
LEMMA RoutingCorrect == Spec => []Routing
  <1>1. Init => Routing BY DEF Init, Routing, Routed
  <1>2. TypeOK /\ Routing /\ [Next]_vars => Routing' BY NextRouting
  <1> QED BY <1>1, <1>2, TypeCorrect, PTL DEF Spec

\* A worker that moves is the one whose step it is.
LEMMA Mover ==
  ASSUME TypeOK, [Next]_vars, NEW w \in Workers, pc'[w] # pc[w]
  PROVE  StartCall(w) \/ Progress(w) \/ Fault(w)
  <1>1. CASE UNCHANGED vars \/ CacheSync \/ External \/ ClusterControllers
    BY <1>1 DEF vars, CacheSync, External, ClusterControllers, Others, callers
  <1>2. ASSUME NEW v \in Workers, StartCall(v) \/ Progress(v) \/ Fault(v)
        PROVE  StartCall(w) \/ Progress(w) \/ Fault(w)
    <2>1. v = w BY <1>2, CallLocal
    <2> QED BY <1>2, <2>1
  <1> QED BY <1>1, <1>2 DEF Next

\* Only four steps of a call change the object, and not when they are refused (the writes of
\* ReconcileResource).
LEMMA CallWrites ==
  ASSUME NEW w \in Workers, StartCall(w) \/ Progress(w) \/ Fault(w), store' # store
  PROVE  \/ Create(w) /\ pc[w] \in {"create", "recreate"} /\ store = NoObject
         \/ Update(w) /\ pc[w] = "update"
         \/ RecreateDelete(w) /\ pc[w] = "delete" /\ store # NoObject /\ Delete(RecreatePolicy)
         \/ Remove(w) /\ pc[w] = "remove" /\ store # NoObject /\ Delete("Background")
  BY DEF StartCall, Progress, Fault, Retry, GetMissing, GetCreated, GetAbsent, GetTerminating,
         GetPresent, Poll, Create, Update, RecreateDelete, Remove, Refuse, cluster

\* Whatever the constants, a call with StateCreated never changes or removes an object that exists,
\* however stale its read.
THEOREM CreatedNeverTouchesCorrect == Spec => CreatedNeverTouches
  <1>1. ASSUME TypeOK, Routing, [Next]_vars, NEW w \in Workers, pc'[w] # pc[w],
               desired[w].state = "Created", store # NoObject
        PROVE  store' = store
    <2>1. Routed(w) BY <1>1 DEF Routing
    <2> QED BY <1>1, <2>1, Mover, CallWrites DEF Routed
  <1>2. TypeOK /\ Routing /\ [Next]_vars =>
           [\A w \in Workers : pc'[w] # pc[w] /\ desired[w].state = "Created" /\ store # NoObject
                                 => store' = store]_vars
    BY <1>1
  <1> QED BY <1>2, TypeCorrect, RoutingCorrect, PTL DEF Spec, CreatedNeverTouches

\* Recreation is on, and for this kind (RecreateEnabledResourceCondition and its default).
LEMMA RecreatesOnlyIf ==
  ASSUME opts \in Options, Recreates(Opts)
  PROVE  opts.enable /\ (opts.kind \in DefaultRecreateEnabledKinds \/ opts.enabledFor = "all")
  <1>1. /\ Opts.enable = opts.enable /\ Opts.kind = opts.kind
        /\ Opts.enabledFor = IF opts.enabledFor = Nil THEN "defaultKinds" ELSE opts.enabledFor
    BY DEF Opts, NewGenericReconciler, Options
  <1> QED BY <1>1 DEF Recreates, RecreateEnabledResourceCondition

\* Whatever the constants, a call that does not want the object absent removes it only as part of a
\* recreation that the options allow for its kind.
THEOREM DeletesOnlyIfAllowedCorrect == Spec => DeletesOnlyIfAllowed
  <1>1. ASSUME TypeOK, Routing, [Next]_vars, NEW w \in Workers, pc'[w] # pc[w],
               desired[w].state # "Absent", store # NoObject, store.deleting = "no",
               store' = NoObject \/ store'.deleting # "no"
        PROVE  opts.enable /\ (opts.kind \in DefaultRecreateEnabledKinds \/ opts.enabledFor = "all")
    <2>1. Routed(w) BY <1>1 DEF Routing
    <2>2. store' # store BY <1>1
    <2>3. ~Update(w)
      <3> SUFFICES ASSUME Update(w) PROVE FALSE OBVIOUS
      <3>1. store' = Overwrite(store, desired[w]) BY <2>2 DEF Update, Refuse, Write, cluster
      <3>2. desired[w] \in Call /\ store \in Object /\ rev \in Nat BY <1>1 DEF TypeOK
      <3>3. store'.deleting = "no" /\ store' \in Object BY <1>1, <3>1, <3>2, OverwriteType
      <3> QED BY <1>1, <3>3, ObjectAssumption
    <2>4. pc[w] = "delete"
      BY <1>1, <2>1, <2>2, <2>3, Mover, CallWrites DEF Routed
    <2> QED BY <1>1, <2>1, <2>4, RecreatesOnlyIf DEF Routed, TypeOK
  <1>2. TypeOK /\ Routing /\ [Next]_vars =>
           [\A w \in Workers :
              /\ pc'[w] # pc[w] /\ desired[w].state # "Absent"
              /\ store # NoObject /\ store.deleting = "no"
              /\ store' = NoObject \/ store'.deleting # "no"
              => /\ opts.enable
                 /\ opts.kind \in {"Service", "StatefulSet", "DaemonSet", "Deployment"} \/ opts.enabledFor = "all"]_vars
    BY <1>1 DEF DefaultRecreateEnabledKinds
  <1> QED BY <1>2, TypeCorrect, RoutingCorrect, PTL DEF Spec, DeletesOnlyIfAllowed

-----------------------------------------------------------------------------
(* What success means. *)

\* Reads go to the API server, no hook skips a step, and the object's kind is not one that is polled.
Direct == /\ ~CachedReads /\ "skip" \notin HookOutcomes
          /\ \A o \in OptionSet : o.kind # "CustomResourceDefinition"

\* The options are always ones the reconciler may be built with.
LEMMA OptsGiven == Spec => [](opts \in OptionSet)
  <1>1. Init => opts \in OptionSet BY DEF Init
  <1>2. opts \in OptionSet /\ [Next]_vars => (opts \in OptionSet)' BY OptsKept
  <1> QED BY <1>1, <1>2, PTL DEF Spec

Honest(w) == store' # NoObject /\ store'.spec = desired[w].spec /\ desired[w].labels \subseteq store'.labels

\* Each way to succeed leaves the object as it was found in sync, created or updated (ReconcileResource).
LEMMA DoneIsHonest ==
  ASSUME Direct, TypeOK, Routing, [Next]_vars, opts \in OptionSet, NEW w \in Workers,
         pc[w] \in Calling, pc'[w] = "done", desired[w].state = "Present"
  PROVE  Honest(w)
  <1>0. /\ desired[w] \in Call /\ (store # NoObject => store \in Object) /\ rev \in Nat
        /\ pc \in [Workers -> Resting \cup Calling] /\ Routed(w)
    BY DEF TypeOK, Routing
  <1>1. StartCall(w) \/ Progress(w) \/ Fault(w) BY Mover DEF Calling
  <1>2. CASE GetPresent(w)
    <2>1. Seen = store /\ store \in Object /\ store' = store
      BY <1>0, <1>2 DEF GetPresent, Seen, Direct, cluster
    <2>2. InSync(MergeMeta(desired[w], store), store)
      BY <1>0, <1>2, <2>1 DEF GetPresent, Goto, Direct
    <2> QED BY <1>0, <2>1, <2>2, MergeMetaType, ObjectAssumption DEF InSync, Honest
  <1>3. CASE Create(w)
    <2>1. store' = Fresh(desired[w]) BY <1>0, <1>3 DEF Create, Refuse, Goto, Write
    <2>2. Fresh(desired[w]) \in Object BY <1>0, FreshType DEF Call
    <2>3. Fresh(desired[w]).spec = desired[w].spec /\ Fresh(desired[w]).labels = desired[w].labels
      BY DEF Fresh
    <2> QED BY <2>1, <2>2, <2>3, ObjectAssumption DEF Honest
  <1>4. CASE Update(w)
    <2>1. store # NoObject /\ store \in Object BY <1>0, <1>4 DEF Update, Refuse, Goto, Current
    <2>2. CASE InSync(desired[w], store) /\ store' = store BY <2>1, <2>2 DEF InSync, Honest
    <2>3. CASE store' = Overwrite(store, desired[w])
      <3>1. Overwrite(store, desired[w]) \in Object
            /\ Overwrite(store, desired[w]).labels = desired[w].labels
        BY <1>0, <2>1, OverwriteType
      <3>2. Overwrite(store, desired[w]).spec = desired[w].spec BY <2>1 DEF Overwrite, Object
      <3> QED BY <2>3, <3>1, <3>2, ObjectAssumption DEF Honest
    <2> QED BY <1>0, <1>4, <2>2, <2>3 DEF Update, Refuse, Goto, Write
  <1>5. CASE Poll(w) \/ Remove(w) \/ GetAbsent(w) BY <1>0, <1>5 DEF Poll, Remove, GetAbsent, Routed, Direct
  <1>6. CASE RecreateDelete(w) BY <1>0, <1>6 DEF RecreateDelete, Refuse, Answer, Goto
  <1>7. CASE GetMissing(w) BY <1>0, <1>7 DEF GetMissing, Goto, Direct
  <1>8. CASE GetCreated(w) \/ GetTerminating(w) BY <1>0, <1>8 DEF GetCreated, GetTerminating, Goto
  <1>9. CASE StartCall(w) \/ Retry(w) \/ Fault(w) BY <1>0, <1>9 DEF StartCall, Retry, Fault, Goto
  <1> QED BY <1>1, <1>2, <1>3, <1>4, <1>5, <1>6, <1>7, <1>8, <1>9 DEF Progress

\* Whoever interferes, a call with StatePresent that reads from the API server returns success only at a
\* moment when the object is as desired; hooks that skip and the polling of CRDs are left out, since
\* there the code says that it succeeds without looking.
THEOREM SuccessIsHonestCorrect == ASSUME Direct PROVE Spec => SuccessIsHonest
  <1>1. TypeOK /\ Routing /\ opts \in OptionSet /\ [Next]_vars =>
           [\A w \in Workers :
              pc[w] \in Calling /\ pc'[w] = "done" /\ desired[w].state = "Present" =>
                 /\ store' # NoObject
                 /\ store'.spec = desired[w].spec /\ desired[w].labels \subseteq store'.labels]_vars
    BY DoneIsHonest DEF Honest
  <1> QED BY <1>1, TypeCorrect, RoutingCorrect, OptsGiven, PTL DEF Spec, SuccessIsHonest

-----------------------------------------------------------------------------
(* Pods outlive a recreation that orphans them. *)

\* Nobody asks for the object's removal, and whoever orphans pods recreates immediately.
Orphaning == /\ \A w \in Workers : \A want \in Wants[w] : want.state # "Absent"
             /\ \A o \in OptionSet : o.policy = "Orphan" => o.immediately

\* Nobody wants the object absent (StatePresent and StateCreated).
LEMMA NobodyRemoves == ASSUME Orphaning PROVE Spec => [](\A w \in Workers : desired[w].state # "Absent")
  <1> DEFINE Wanted == \A w \in Workers : desired[w].state # "Absent"
  <1>1. Init => Wanted
    <2> SUFFICES ASSUME Init, NEW w \in Workers PROVE desired[w].state # "Absent" OBVIOUS
    <2>1. (CHOOSE want \in Wants[w] : TRUE) \in Wants[w] BY WantsAssumption
    <2> QED BY <2>1 DEF Init, Begin, Orphaning
  <1>2. TypeOK /\ Wanted /\ [Next]_vars => Wanted'
    <2> SUFFICES ASSUME TypeOK, Wanted, [Next]_vars PROVE Wanted' OBVIOUS
    <2>1. CASE desired' = desired BY <2>1
    <2>2. ASSUME NEW w \in Workers, StartCall(w) \/ Progress(w) \/ Fault(w) PROVE Wanted'
      <3>1. \A v \in Workers : v # w => desired'[v] = desired[v] BY <2>2, CallLocal
      <3>2. CASE StartCall(w) BY <3>1, <3>2 DEF StartCall, Begin, Orphaning, TypeOK
      <3>3. CASE Progress(w) \/ Fault(w) BY <3>1, <3>3, CallGrows
      <3> QED BY <2>2, <3>2, <3>3
    <2> QED BY <2>1, <2>2 DEF Next, vars, CacheSync, External, ClusterControllers, Others, callers
  <1> QED BY <1>1, <1>2, TypeCorrect, PTL DEF Spec

\* As long as no user has deleted the object, it is at most being orphaned, and the pods that are
\* owned are owned by it.
PodsHeld ==
    Opts.policy = "Orphan" /\ external = 0 =>
        /\ store # NoObject => store.deleting \in {"no", "Orphan"}
        /\ pods.alive /\ pods.owner # 0 => store # NoObject /\ store.uid = pods.owner

\* A call leaves the pods' owner in place, if it removes the object at all (RecreateImmediately).
LEMMA CallHoldsPods ==
  ASSUME Orphaning, TypeOK, Routing, opts \in OptionSet, PodsHeld, NEW w \in Workers,
         desired[w].state # "Absent", StartCall(w) \/ Progress(w) \/ Fault(w)
  PROVE  PodsHeld' /\ UNCHANGED pods
  <1>0. /\ desired[w] \in Call /\ (store # NoObject => store \in Object) /\ rev \in Nat
        /\ Routed(w) /\ opts' = opts
    BY OptsKept DEF TypeOK, Routing, Next
  <1>1. UNCHANGED <<pods, external>>
    BY DEF StartCall, Progress, Fault, Retry, GetMissing, GetCreated, GetAbsent, GetTerminating,
           GetPresent, Poll, Create, Update, RecreateDelete, Remove, Refuse, Answer, cluster, budget,
           Delete
  <1>2. ASSUME Opts.policy = "Orphan", external = 0, store' # store PROVE PodsHeld'
    <2>1. CASE Create(w) /\ store = NoObject
      <3>1. store' = Fresh(desired[w]) BY <1>2, <2>1 DEF Create, Refuse, Write
      <3>2. store'.deleting = "no" BY <3>1 DEF Fresh
      <3>3. ~(pods.alive /\ pods.owner # 0) BY <1>2, <2>1 DEF PodsHeld
      <3> QED BY <1>1, <3>2, <3>3 DEF PodsHeld
    <2>2. CASE Update(w)
      <3>1. store # NoObject /\ store' = Overwrite(store, desired[w])
        BY <1>2, <2>2 DEF Update, Refuse, Write, cluster, Current
      <3>2. Overwrite(store, desired[w]) \in Object
            /\ Overwrite(store, desired[w]).deleting = store.deleting
        BY <1>0, <3>1, OverwriteType
      <3>3. Overwrite(store, desired[w]).uid = store.uid BY <1>0, <3>1 DEF Overwrite, Object
      <3> QED BY <1>1, <1>2, <3>1, <3>2, <3>3, ObjectAssumption DEF PodsHeld
    <2>3. CASE RecreateDelete(w) /\ store # NoObject /\ Delete(RecreatePolicy)
      <3>1. opts.policy = "Orphan"
        BY <1>2 DEF Opts, NewGenericReconciler, Options, TypeOK
      <3>2. RecreatePolicy = "Orphan" BY <1>2, <3>1 DEF RecreatePolicy, Orphaning
      <3>3. store' = [store EXCEPT !.deleting = "Orphan", !.rv = rev + 1]
        BY <1>2, <2>3, <3>2 DEF Delete, Write
      <3>4. store' # NoObject /\ store'.deleting = "Orphan" /\ store'.uid = store.uid
        <4>0. rev + 1 \in Nat /\ store \in Object BY <1>0, <2>3
        <4>1. store' \in Object
          BY <4>0, <3>3 DEF Object, Policies
        <4> QED BY <1>0, <2>3, <3>3, <4>1, ObjectAssumption DEF Object
      <3> QED BY <1>1, <1>2, <2>3, <3>4 DEF PodsHeld
    <2>4. CASE pc[w] = "remove" BY <1>0, <2>4 DEF Routed
    <2> QED BY <1>2, <2>1, <2>2, <2>3, <2>4, CallWrites
  <1>3. CASE store' = store BY <1>0, <1>1, <1>3 DEF PodsHeld, Opts
  <1>4. CASE Opts.policy # "Orphan" \/ external # 0 BY <1>0, <1>1, <1>4 DEF PodsHeld, Opts
  <1> QED BY <1>1, <1>2, <1>3, <1>4

\* Nor do the cluster's controllers collect the pods of an object that is there (the garbage collector).
LEMMA OthersHoldPods ==
  ASSUME TypeOK, PodsHeld, CacheSync \/ External \/ ClusterControllers
  PROVE  PodsHeld' /\ (Opts.policy = "Orphan" /\ external = 0 /\ pods.alive => pods'.alive)
  <1>0. opts' = opts /\ (store # NoObject => store \in Object) /\ external \in Nat
        /\ rev + 1 \in Nat
    BY OptsKept DEF Next, TypeOK
  <1>1. CASE CacheSync BY <1>1 DEF CacheSync, cluster, budget, PodsHeld, Opts
  <1>2. CASE External
    <2>1. external' # 0 BY <1>0, <1>2 DEF External
    <2>2. pods' = pods BY <1>2 DEF External, ExternalCreate, ExternalEdit, ExternalDelete, Delete
    <2> QED BY <2>1, <2>2 DEF PodsHeld
  <1>3. CASE ClusterControllers
    <2>1. external' = external BY <1>3 DEF ClusterControllers
    <2>2. CASE Release
      <3>1. store # NoObject /\ store' = [store EXCEPT !.held = FALSE, !.rv = rev + 1] /\ pods' = pods
        BY <2>2 DEF Release, Write
      <3>2. store'.deleting = store.deleting /\ store'.uid = store.uid /\ store' \in Object
        BY <1>0, <3>1 DEF Object
      <3> QED BY <1>0, <2>1, <3>1, <3>2, ObjectAssumption DEF PodsHeld, Opts
    <2>3. CASE Establish
      <3>1. store # NoObject /\ store' = [store EXCEPT !.established = TRUE, !.rv = rev + 1] /\ pods' = pods
        BY <2>3 DEF Establish, Write
      <3>2. store'.deleting = store.deleting /\ store'.uid = store.uid /\ store' \in Object
        BY <1>0, <3>1 DEF Object
      <3> QED BY <1>0, <2>1, <3>1, <3>2, ObjectAssumption DEF PodsHeld, Opts
    <2>4. CASE StartPods BY <1>0, <2>1, <2>4 DEF StartPods, PodsHeld, Opts
    <2>5. CASE CollectPods BY <1>0, <2>1, <2>5 DEF CollectPods, OwnsPods, PodsHeld, Opts
    <2>6. CASE OrphanPods
      <3>1. pods'.alive = pods.alive /\ pods'.owner = 0 /\ store' = store
        BY <2>6 DEF OrphanPods, TypeOK
      <3> QED BY <1>0, <2>1, <3>1 DEF PodsHeld, Opts
    <2>7. CASE FinishDelete BY <1>0, <2>1, <2>7 DEF FinishDelete, Write, OwnsPods, PodsHeld, Opts
    <2> QED BY <1>3, <2>2, <2>3, <2>4, <2>5, <2>6, <2>7 DEF ClusterControllers
  <1> QED BY <1>1, <1>2, <1>3

\* With RecreateImmediately, and as long as neither users nor callers remove the object, the "Orphan"
\* policy keeps its pods alive; on the other path the code does not keep this promise.
THEOREM OrphanKeepsPodsCorrect == ASSUME Orphaning PROVE Spec => OrphanKeepsPods
  <1> DEFINE Wanted == \A w \in Workers : desired[w].state # "Absent"
  <1>1. Init => PodsHeld BY DEF Init, PodsHeld
  <1>2. ASSUME TypeOK, Routing, opts \in OptionSet, Wanted, PodsHeld, [Next]_vars
        PROVE  PodsHeld' /\ (Opts.policy = "Orphan" /\ external = 0 /\ pods.alive => pods'.alive)
    <2>1. CASE UNCHANGED vars BY <1>2, <2>1 DEF vars, PodsHeld, Opts
    <2>2. CASE \E w \in Workers : StartCall(w) \/ Progress(w) \/ Fault(w)
      BY <1>2, <2>2, CallHoldsPods
    <2>3. CASE CacheSync \/ External \/ ClusterControllers BY <1>2, <2>3, OthersHoldPods
    <2> QED BY <1>2, <2>1, <2>2, <2>3 DEF Next
  <1>3. TypeOK /\ Routing /\ opts \in OptionSet /\ Wanted /\ PodsHeld /\ [Next]_vars => PodsHeld'
    BY <1>2
  <1>4. TypeOK /\ Routing /\ opts \in OptionSet /\ Wanted /\ PodsHeld /\ [Next]_vars =>
           [Opts.policy = "Orphan" /\ external = 0 /\ pods.alive => pods'.alive]_vars
    BY <1>2
  <1>5. Spec => []Wanted BY NobodyRemoves
  <1> HIDE DEF Wanted
  <1> QED BY <1>1, <1>3, <1>4, <1>5, TypeCorrect, RoutingCorrect, OptsGiven, PTL DEF Spec, OrphanKeepsPods

-----------------------------------------------------------------------------
(* ResourceReconciler implements ManagedObject: a proof of the step        *)
(* simulation, for any number of callers, any desired states, options and  *)
(* bounds.  Every step of a call is one of the abstract steps on the       *)
(* object as it is; everybody else's steps are Others.                     *)

\* A call still works on a desired state it was given, with labels added at most.
Given(w) == \E want \in Wants[w] : /\ want.state = desired[w].state /\ want.spec = desired[w].spec
                                   /\ want.labels \subseteq desired[w].labels

AllGiven == \A w \in Workers : Given(w)

\* Calls begin with what they were given, and after that only add labels to it, also when they are
\* tried again (ReconcileResource, MetaBase.Merge).
LEMMA GivenCorrect == Spec => []AllGiven
  <1>1. Init => AllGiven
    <2> SUFFICES ASSUME Init, NEW w \in Workers PROVE Given(w) BY DEF AllGiven
    <2>1. (CHOOSE want \in Wants[w] : TRUE) \in Wants[w] BY WantsAssumption
    <2> QED BY <2>1 DEF Init, Begin, Given
  <1>2. TypeOK /\ AllGiven /\ [Next]_vars => AllGiven'
    <2> SUFFICES ASSUME TypeOK, AllGiven, [Next]_vars PROVE AllGiven' OBVIOUS
    <2>1. CASE desired' = desired BY <2>1 DEF AllGiven, Given
    <2>2. ASSUME NEW w \in Workers, StartCall(w) \/ Progress(w) \/ Fault(w) PROVE AllGiven'
      <3>1. \A v \in Workers : v # w => desired'[v] = desired[v] BY <2>2, CallLocal
      <3>2. CASE StartCall(w)
        <4>1. PICK want \in Wants[w] : desired' = [desired EXCEPT ![w] = Begin(want)]
          BY <3>2 DEF StartCall
        <4>2. desired'[w] = Begin(want) BY <4>1 DEF TypeOK
        <4> QED BY <3>1, <4>2 DEF AllGiven, Given, Begin
      <3>3. CASE Progress(w) \/ Fault(w)
        <4>1. Given(w)' BY <3>3, CallGrows DEF AllGiven, Given
        <4> QED BY <3>1, <4>1 DEF AllGiven, Given
      <3> QED BY <2>2, <3>2, <3>3
    <2> QED BY <2>1, <2>2 DEF Next, vars, CacheSync, External, ClusterControllers, Others, callers
  <1> QED BY <1>1, <1>2, TypeCorrect, PTL DEF Spec

-----------------------------------------------------------------------------
(* The refinement mapping. *)

\* A call that goes on has the same request.
LEMMA RequestKept ==
  ASSUME TypeOK, NEW w \in Workers, Progress(w) \/ Fault(w)
  PROVE  Requests' = Requests
  <1>1. \A v \in Workers : v # w => desired'[v] = desired[v] BY CallLocal
  <1>2. \A v \in Workers : desired'[v].state = desired[v].state /\ desired'[v].spec = desired[v].spec
    BY <1>1, CallGrows
  <1> QED BY <1>2 DEF Requests

\* Every step of a call moves its worker on, and leaves the options.
LEMMA TurnMoves ==
  ASSUME TypeOK, NEW w \in Workers, StartCall(w) \/ Progress(w) \/ Fault(w)
  PROVE  /\ pc'[w] # pc[w] /\ pc' = [pc EXCEPT ![w] = pc'[w]]
         /\ Recreates(Opts)' = Recreates(Opts)
  <1>0. pc \in [Workers -> Resting \cup Calling] BY DEF TypeOK
  <1>1. opts' = opts BY OptsKept DEF Next
  <1>2. \E label \in Resting \cup Calling : Goto(w, label) /\ label # pc[w]
    <2>1. CASE StartCall(w) BY <2>1 DEF StartCall, Resting, Calling
    <2>2. CASE Retry(w) BY <2>2 DEF Retry, Calling
    <2>3. CASE GetMissing(w) BY <2>3 DEF GetMissing, Resting, Calling
    <2>4. CASE GetCreated(w) BY <2>4 DEF GetCreated, Resting
    <2>5. CASE GetAbsent(w) BY <2>5 DEF GetAbsent, Resting, Calling
    <2>6. CASE GetTerminating(w) BY <2>6 DEF GetTerminating, Resting
    <2>7. CASE GetPresent(w) BY <2>7 DEF GetPresent, Resting, Calling
    <2>8. CASE Create(w) BY <2>8 DEF Create, Refuse, Answer, Resting, Calling
    <2>9. CASE Poll(w) BY <2>9 DEF Poll, Resting
    <2>10. CASE Update(w) BY <2>10 DEF Update, Refuse, Answer, Resting, Calling
    <2>11. CASE RecreateDelete(w) BY <2>11 DEF RecreateDelete, Refuse, Answer, Resting, Calling
    <2>12. CASE Remove(w) BY <2>12 DEF Remove, Refuse, Answer, Resting
    <2>13. CASE Fault(w) BY <2>13 DEF Fault, Resting, Calling
    <2> QED BY <2>1, <2>2, <2>3, <2>4, <2>5, <2>6, <2>7, <2>8, <2>9, <2>10, <2>11, <2>12, <2>13
            DEF Progress
  <1> QED BY <1>0, <1>1, <1>2 DEF Opts, Goto

\* A delete that takes effect is the abstract Remove (the API server's delete).
LEMMA DeleteRemoves ==
  ASSUME TypeOK, NEW w \in Workers, store # NoObject, store' # store, NEW policy, Delete(policy),
         Requests' = Requests,
         desired[w].state = "Absent" \/ (desired[w].state = "Present" /\ Recreates(Opts))
  PROVE  Promise!Remove(w)
  <1>0. store \in Object BY DEF TypeOK
  <1>1. Requests[w].state = desired[w].state BY DEF Requests
  <1>2. \/ store' = NoObject
        \/ store' = [store EXCEPT !.deleting = store'.deleting, !.rv = store'.rv]
    <2>1. CASE store' = [store EXCEPT !.deleting = policy, !.rv = rev + 1]
      <3>1. store'.deleting = policy /\ store'.rv = rev + 1 BY <1>0, <2>1 DEF Object
      <3> QED BY <2>1, <3>1
    <2> QED BY <2>1 DEF Delete, Write
  <1> QED BY <1>1, <1>2 DEF Promise!Remove

\* A step that changes the object, by whom and when it may.
LEMMA CallStep ==
  ASSUME TypeOK, VersionsIdentify, Routing, AllGiven, NEW w \in Workers, Progress(w) \/ Fault(w)
  PROVE  Promise!Work(w) \/ Promise!Create(w) \/ Promise!Rewrite(w) \/ Promise!Remove(w)
  <1>0. /\ desired[w] \in Call /\ (store # NoObject => store \in Object) /\ rev \in Nat
        /\ Routed(w) /\ Prepared(w)
    BY DEF TypeOK, Routing, VersionsIdentify
  <1>1. Requests' = Requests BY RequestKept
  <1>2. Requests[w].state = desired[w].state /\ Requests[w].spec = desired[w].spec BY DEF Requests
  <1>3. PICK want \in Wants[w] : /\ want.state = desired[w].state /\ want.spec = desired[w].spec
                                 /\ want.labels \subseteq desired[w].labels
    BY DEF AllGiven, Given
  <1>4. Requests[w] = [state |-> want.state, spec |-> want.spec] BY <1>3 DEF Requests
  <1>5. ASSUME store' # NoObject, store'.labels = desired[w].labels PROVE Promise!Honours(w)
    BY <1>3, <1>4, <1>5 DEF Promise!Honours, Promise!Request
  <1>6. CASE store' = store BY <1>1, <1>6 DEF Promise!Work
  <1>7. CASE store' # store /\ Create(w) /\ pc[w] \in {"create", "recreate"} /\ store = NoObject
    <2>1. store' = Fresh(desired[w]) BY <1>7 DEF Create, Refuse, Write
    <2>2. Fresh(desired[w]) \in Object BY <1>0, FreshType DEF Call
    <2>3. store' # NoObject /\ store'.spec = desired[w].spec /\ store'.labels = desired[w].labels
          /\ store'.deleting = "no"
      BY <2>1, <2>2, ObjectAssumption DEF Fresh
    <2>4. desired[w].state # "Absent" BY <1>0, <1>7 DEF Routed
    <2> QED BY <1>1, <1>2, <1>5, <1>7, <2>3, <2>4 DEF Promise!Create
  <1>8. CASE store' # store /\ Update(w) /\ pc[w] = "update"
    <2>1. store # NoObject /\ store \in Object /\ desired[w].rv \in {0, store.rv}
          /\ store' = Overwrite(store, desired[w])
      BY <1>0, <1>8 DEF Update, Refuse, Current, Write, cluster
    <2>2. desired[w].rv = store.rv BY <1>0, <1>8, <2>1 DEF Prepared, Call
    <2>3. /\ store.deleting = "no" /\ store.labels \subseteq desired[w].labels
          /\ store.component = NoComponent <=> desired[w].component = NoComponent
      BY <1>0, <1>8, <2>1, <2>2 DEF Prepared
    <2>4. store' \in Object /\ store'.rv = rev + 1 /\ store'.labels = desired[w].labels
          /\ store'.component = desired[w].component
      BY <1>0, <2>1, OverwriteType
    <2>5. store' = [store EXCEPT !.rv = store'.rv, !.spec = desired[w].spec,
                                 !.labels = store'.labels, !.component = store'.component]
      BY <2>1, <2>4 DEF Overwrite
    <2>6. desired[w].state = "Present" BY <1>0, <1>8 DEF Routed
    <2> QED BY <1>1, <1>2, <1>5, <2>1, <2>3, <2>4, <2>5, <2>6, ObjectAssumption DEF Promise!Rewrite
  <1>9. CASE store' # store /\ pc[w] = "delete" /\ store # NoObject /\ Delete(RecreatePolicy)
    BY <1>0, <1>1, <1>9, DeleteRemoves DEF Routed
  <1>10. CASE store' # store /\ pc[w] = "remove" /\ store # NoObject /\ Delete("Background")
    BY <1>0, <1>1, <1>10, DeleteRemoves DEF Routed
  <1> QED BY <1>6, <1>7, <1>8, <1>9, <1>10, CallWrites

\* The entry of ReconcileResource is the abstract Ask.
LEMMA StartAsks == ASSUME TypeOK, NEW w \in Workers, StartCall(w) PROVE Promise!Ask(w)
  <1>1. PICK want \in Wants[w] : desired' = [desired EXCEPT ![w] = Begin(want)] BY DEF StartCall
  <1>2. desired'[w] = Begin(want) /\ \A v \in Workers : v # w => desired'[v] = desired[v]
    BY <1>1 DEF TypeOK
  <1>3. Begin(want).state = want.state /\ Begin(want).spec = want.spec BY DEF Begin
  <1>4. \A v \in Workers : Requests'[v] = IF v = w THEN Promise!Request(want) ELSE Requests[v]
    BY <1>2, <1>3 DEF Requests, Promise!Request
  <1>5. Requests' = [Requests EXCEPT ![w] = Promise!Request(want)] BY <1>4 DEF Requests
  <1> QED BY <1>5 DEF Promise!Ask, StartCall, cluster

\* Every step of the reconciler and its surroundings is an abstract step.
LEMMA Simulation ==
  ASSUME TypeOK, VersionsIdentify, Routing, AllGiven, [Next]_vars
  PROVE  [Promise!Next]_(Promise!vars)
  <1>1. CASE UNCHANGED vars BY <1>1 DEF vars, Promise!vars, Requests, Opts
  <1>2. CASE CacheSync \/ External \/ ClusterControllers
    <2>1. pc' = pc /\ desired' = desired /\ opts' = opts
      BY <1>2 DEF CacheSync, External, ClusterControllers, Others, callers
    <2> QED BY <2>1 DEF Promise!Next, Promise!Others, Requests, Opts
  <1>3. ASSUME NEW w \in Workers, StartCall(w) \/ Progress(w) \/ Fault(w) PROVE Promise!Next
    <2>1. Promise!Ask(w) \/ Promise!Work(w) \/ Promise!Create(w) \/ Promise!Rewrite(w) \/ Promise!Remove(w)
      BY <1>3, StartAsks, CallStep
    <2> QED BY <1>3, <2>1, TurnMoves DEF Promise!Next, Promise!Step
  <1> QED BY <1>1, <1>2, <1>3 DEF Next

\* ReconcileResource, with its cached reads, its separate calls, its retries and recreations, whoever
\* interferes with it, keeps the promise of ManagedObject: every write changes the object as it is at
\* that moment, for a desired state the caller was given.
THEOREM Implementation == Spec => ImplementsManagedObject
  <1>1. Init => Promise!Init
    <2> SUFFICES ASSUME Init PROVE Promise!Init OBVIOUS
    <2>1. ASSUME NEW w \in Workers PROVE \E want \in Wants[w] : Requests[w] = Promise!Request(want)
      <3>1. (CHOOSE want \in Wants[w] : TRUE) \in Wants[w] BY WantsAssumption
      <3> QED BY <3>1 DEF Init, Begin, Requests, Promise!Request
    <2> QED BY <2>1 DEF Init, Promise!Init
  <1>2. TypeOK /\ VersionsIdentify /\ Routing /\ AllGiven /\ [Next]_vars => [Promise!Next]_(Promise!vars)
    BY Simulation
  <1> QED BY <1>1, <1>2, TypeCorrect, VersionsCorrect, RoutingCorrect, GivenCorrect, PTL
          DEF Spec, ImplementsManagedObject, Promise!Spec

-----------------------------------------------------------------------------
(* A call comes to an end. *)

\* The most API calls a try still makes: the longest recreates a definition and waits for it.
CallsAhead(label) == CASE label = "get" -> 6
                       [] label = "update" -> 5
                       [] label = "delete" -> 4
                       [] label = "reget" -> 3
                       [] label \in {"create", "recreate"} -> 2
                       [] label \in {"poll", "remove"} -> 1
                       [] OTHER -> 0

\* The retries that are left count a try each, and the decision to make it.
CallsLeft(w) == 7 * (MaxRetries - tries[w]) + CallsAhead(pc[w])

FewerLeft(w) == CallsLeft(w)' < CallsLeft(w)

\* No call is tried again more often than the backoff has steps (retry.OnError).
TriesBounded == \A w \in Workers : tries[w] <= MaxRetries

LEMMA TriesBoundedCorrect == Spec => []TriesBounded
  <1>1. Init => TriesBounded BY BoundsAssumption DEF Init, TriesBounded
  <1>2. TypeOK /\ TriesBounded /\ [Next]_vars => TriesBounded'
    <2> SUFFICES ASSUME TypeOK, TriesBounded, [Next]_vars PROVE TriesBounded' OBVIOUS
    <2>0. tries \in [Workers -> Nat] /\ MaxRetries \in Nat BY BoundsAssumption DEF TypeOK
    <2>1. ASSUME NEW w \in Workers, StartCall(w) PROVE TriesBounded'
      BY <2>0, <2>1 DEF StartCall, TriesBounded
    <2>2. ASSUME NEW w \in Workers, Retry(w) PROVE TriesBounded'
      BY <2>0, <2>2 DEF Retry, TriesBounded
    <2>3. CASE tries' = tries BY <2>3 DEF TriesBounded
    <2> QED
      BY <2>1, <2>2, <2>3 DEF Next, vars, Progress, Fault, GetMissing, GetCreated, GetAbsent, GetTerminating,
         GetPresent, Create, Poll, Update, RecreateDelete, Remove, Known, CacheSync, External,
         ClusterControllers, Others, callers
  <1> QED BY <1>1, <1>2, TypeCorrect, PTL DEF Spec

LEMMA CallsCounted ==
  ASSUME TypeOK, TriesBounded, NEW w \in Workers
  PROVE  /\ CallsAhead(pc[w]) \in 0 .. 6 /\ (pc[w] \in Calling => CallsAhead(pc[w]) > 0)
         /\ MaxRetries - tries[w] \in Nat
         /\ CallsLeft(w) \in 0 .. 7 * MaxRetries + 6
  <1>1. CallsAhead(pc[w]) \in 0 .. 6 BY DEF CallsAhead
  <1>2. pc[w] \in Calling => CallsAhead(pc[w]) > 0 BY DEF CallsAhead, Calling
  <1>3. tries[w] \in 0 .. MaxRetries /\ MaxRetries \in Nat BY BoundsAssumption DEF TypeOK, TriesBounded
  <1> QED BY <1>1, <1>2, <1>3 DEF CallsLeft

LEMMA CallCloser ==
  ASSUME TypeOK, NEW w \in Workers, Progress(w) \/ Fault(w)
  PROVE  FewerLeft(w)
  <1>0. /\ pc \in [Workers -> Resting \cup Calling] /\ tries \in [Workers -> Nat]
        /\ MaxRetries \in Nat
    BY BoundsAssumption DEF TypeOK
  <1>ahead. ASSUME tries' = tries, CallsAhead(pc'[w]) < CallsAhead(pc[w]),
                   CallsAhead(pc'[w]) \in Nat, CallsAhead(pc[w]) \in Nat
            PROVE  FewerLeft(w)
    BY <1>0, <1>ahead DEF FewerLeft, CallsLeft
  <1>1. CASE Retry(w)
    <2>1. pc[w] = "failed" /\ pc'[w] = "get" /\ tries[w] < MaxRetries /\ tries'[w] = tries[w] + 1
      BY <1>0, <1>1 DEF Retry, Goto
    <2>2. CallsAhead(pc[w]) = 0 /\ CallsAhead(pc'[w]) = 6 BY <2>1 DEF CallsAhead
    <2> QED BY <1>0, <2>1, <2>2 DEF FewerLeft, CallsLeft
  <1>2. CASE ~Retry(w)
    <2>1. tries' = tries
      BY <1>2 DEF Progress, Fault, GetMissing, GetCreated, GetAbsent, GetTerminating, GetPresent, Create,
                  Poll, Update, RecreateDelete, Remove, Known
    <2>2. \E label : Goto(w, label) /\
             \/ pc[w] \in Calling /\ label \in Resting
             \/ pc[w] = "get" /\ label \in {"create", "remove", "update"}
             \/ pc[w] = "reget" /\ label = "recreate"
             \/ pc[w] \in {"create", "recreate"} /\ label = "poll"
             \/ pc[w] = "update" /\ label = "delete"
             \/ pc[w] = "delete" /\ label = "reget"
      <3>1. CASE GetMissing(w) BY <3>1 DEF GetMissing, Resting, Calling
      <3>2. CASE GetCreated(w) BY <3>2 DEF GetCreated, Resting, Calling
      <3>3. CASE GetAbsent(w) BY <3>3 DEF GetAbsent, Resting, Calling
      <3>4. CASE GetTerminating(w) BY <3>4 DEF GetTerminating, Resting, Calling
      <3>5. CASE GetPresent(w) BY <3>5 DEF GetPresent, Resting, Calling
      <3>6. CASE Create(w) BY <3>6 DEF Create, Refuse, Answer, Resting, Calling
      <3>7. CASE Poll(w) BY <3>7 DEF Poll, Resting, Calling
      <3>8. CASE Update(w) BY <3>8 DEF Update, Refuse, Answer, Resting, Calling
      <3>9. CASE RecreateDelete(w) BY <3>9 DEF RecreateDelete, Refuse, Answer, Resting, Calling
      <3>10. CASE Remove(w) BY <3>10 DEF Remove, Refuse, Answer, Resting, Calling
      <3>11. CASE Fault(w) BY <3>11 DEF Fault, Resting
      <3> QED BY <1>2, <3>1, <3>2, <3>3, <3>4, <3>5, <3>6, <3>7, <3>8, <3>9, <3>10, <3>11 DEF Progress
    <2>3. PICK label : pc'[w] = label /\
             \/ pc[w] \in Calling /\ label \in Resting
             \/ pc[w] = "get" /\ label \in {"create", "remove", "update"}
             \/ pc[w] = "reget" /\ label = "recreate"
             \/ pc[w] \in {"create", "recreate"} /\ label = "poll"
             \/ pc[w] = "update" /\ label = "delete"
             \/ pc[w] = "delete" /\ label = "reget"
      BY <1>0, <2>2 DEF Goto
    <2>4. CallsAhead(pc'[w]) < CallsAhead(pc[w]) /\ CallsAhead(pc'[w]) \in Nat /\ CallsAhead(pc[w]) \in Nat
      BY <2>3 DEF CallsAhead, Resting, Calling
    <2> QED BY <1>ahead, <2>1, <2>4
  <1> QED BY <1>1, <1>2

\* Every step of a call, also one that fails, leaves it fewer steps to make, whatever the object has
\* become meanwhile and whoever changes it: a try makes at most six API calls (the wait for a definition
\* is one), and a recreation, which reads again what it has deleted, never leads back to where an update
\* may be rejected again (ReconcileResource and retry.OnError around it).
THEOREM CallsRunOut ==
  Spec => /\ [](\A w \in Workers : CallsLeft(w) \in 0 .. 7 * MaxRetries + 6)
          /\ [][\A w \in Workers : Progress(w) \/ Fault(w) => FewerLeft(w)]_vars
  <1>1. TypeOK /\ TriesBounded => \A w \in Workers : CallsLeft(w) \in 0 .. 7 * MaxRetries + 6 BY CallsCounted
  <1>2. TypeOK => [\A w \in Workers : Progress(w) \/ Fault(w) => FewerLeft(w)]_vars BY CallCloser
  <1> QED BY <1>1, <1>2, TypeCorrect, TriesBoundedCorrect, PTL
=============================================================================
