------------------------ MODULE NativeReconcilerProofs ------------------------
(***************************************************************************)
(* Proofs about NativeReconciler: its type invariant, that a purge deletes *)
(* nothing its reconciliation asked for, and that it deletes no other      *)
(* component's object, whatever users do in the middle of it, when the     *)
(* component ids differ and components reconcile one at a time.            *)
(***************************************************************************)
EXTENDS NativeReconciler, TLAPS

\* What a reconciliation holds follows from where it is.
Staged(r) ==
    /\ r.at # "purge" => r.doomed = {}
    /\ r.at = "purge" => r.failed = FALSE /\ r.todo = {}

\* What was asked for is still to be built, was built, or failed; what was built is not doomed.
Accounted(r) ==
    /\ r.at # "idle" /\ r.failed = FALSE =>
          \A id \in DOMAIN r.want : id \in r.todo \/ generateResourceIDForPurge(id) \in r.visited
    /\ \A id \in r.doomed : generateResourceIDForPurge(id) \notin r.visited

\* Every reconciliation under way is in order.
RunsOK == \A c \in Components : Staged(run[c]) /\ Accounted(run[c])

\* Who may own what a component is about to delete: a user may have taken it over since it was listed.
MayOwn(c) == {c, Nobody}

\* At most one component reconciles, and what it is about to delete is not another's.
Alone == \A c, d \in Components : run[c].at # "idle" /\ run[d].at # "idle" => c = d
DoomedOwn == \A c \in Components : \A id \in run[c].doomed : Exists(id) => cluster[id].owner \in MayOwn(c)

-----------------------------------------------------------------------------
(* Types *)

\* A function into the states over some of the objects is a possible wish (Configs).
LEMMA WantType == ASSUME NEW ids \in SUBSET Objects, NEW w \in [ids -> States] PROVE w \in Wants
  BY DEF Wants

\* The domain of a wish is a set of objects, its values are states (DesiredState).
LEMMA WantDomain == ASSUME NEW w \in Wants
                    PROVE /\ DOMAIN w \in SUBSET Objects
                          /\ \A id \in DOMAIN w : w[id] \in States
  BY DEF Wants

\* The state between reconciliations is well-typed (the locals of Reconcile).
LEMMA IdleType == Idle \in Run
<1>1. [id \in {} |-> "Present"] \in [{} -> States]
  OBVIOUS
<1>2. [id \in {} |-> "Present"] \in Wants
  BY <1>1, WantType
<1>. QED
  BY <1>2 DEF Idle, Run

\* An object whose deletion is accepted has its type (client.Delete).
LEMMA DeletedType == ASSUME TypeOK, NEW id \in Ids
                     PROVE Deleted(id) \in Object \cup {NoObject}
<1>1. CASE id \in Finalized /\ Exists(id)
  <2>1. cluster[id] \in Object
    BY <1>1 DEF TypeOK, Exists
  <2>. QED
    BY <1>1, <2>1 DEF Deleted, Object
<1>2. CASE ~(id \in Finalized /\ Exists(id))
  BY <1>2 DEF Deleted
<1>. QED
  BY <1>1, <1>2

\* What a reconciled object becomes has its type (ReconcileResource).
LEMMA ReconcileType == ASSUME TypeOK, NEW id \in Ids, NEW c \in Components, NEW state
                       PROVE ReconcileResource(c, id, state) \in Object \cup {NoObject}
<1>1. Owned(c) \in Object
  BY DEF Owned, Object
<1>2. cluster[id] \in Object \cup {NoObject}
  BY DEF TypeOK
<1>. QED
  BY <1>1, <1>2, DeletedType DEF ReconcileResource

\* Putting a well-typed reconciliation in place keeps them well-typed (every step of Reconcile).
LEMMA SetType == ASSUME TypeOK, NEW c \in Components, NEW r \in Run, Set(c, r)
                 PROVE run' \in [Components -> Run]
  BY DEF Set, TypeOK

\* What is to be deleted are objects of kinds that may be (PrepareDeletableObjects).
LEMMA DeletableType == ASSUME TypeOK, NEW c \in Components
                       PROVE Deletable(c) \in SUBSET {id \in Objects : id.kind \notin NeverDeleted}
<1>1. objectsInventory(c) \in Inventories
  BY DEF Inventories
<1>2. seen[objectsInventory(c)] \in SUBSET Objects /\ refs[objectsInventory(c)] \in SUBSET Objects
  BY <1>1 DEF TypeOK
<1>3. Listed(objectsInventory(c)) \in SUBSET Objects
  BY <1>2 DEF Listed
<1>. QED
  BY <1>2, <1>3 DEF Deletable, PrepareDeletableObjects

\* The bounds hold after a fault (Fail).
LEMMA FailType == ASSUME TypeOK, Fail
                  PROVE /\ changes' \in 0 .. MaxChanges /\ external' \in 0 .. MaxExternal
                        /\ faults' \in 0 .. MaxFaults
  BY BoundsAssumption DEF TypeOK, Fail

\* Every action keeps the types.
LEMMA TypeStep == ASSUME TypeOK, [Next]_vars PROVE TypeOK'
<1> DEFINE Counted == /\ changes' \in 0 .. MaxChanges /\ external' \in 0 .. MaxExternal
                      /\ faults' \in 0 .. MaxFaults
<1>budget. UNCHANGED budget => Counted
  BY DEF TypeOK, budget
<1>fail. Fail => Counted
  BY FailType
<1> HIDE DEF Counted
<1>0. CASE UNCHANGED vars
  BY <1>0, <1>budget DEF vars, TypeOK, budget, Counted
<1>1. ASSUME NEW c \in Components, Begin(c) PROVE TypeOK'
  <2>1. config[c] \in Wants /\ DOMAIN config[c] \in SUBSET Ids
    BY WantDomain DEF TypeOK, Ids
  <2>2. [Idle EXCEPT !.at = IF UseInventory THEN "append" ELSE "build",
                     !.want = config[c], !.todo = DOMAIN config[c]] \in Run
    BY <2>1, IdleType DEF Run
  <2>3. run' \in [Components -> Run]
    BY <1>1, <2>2, SetType DEF Begin
  <2>. QED
    BY <1>1, <2>3, <1>budget DEF Begin, TypeOK, world, asked, Counted
<1>2. ASSUME NEW c \in Components, NEW deletable, InventoryAppendWith(c, deletable), Counted,
             deletable \in SUBSET {id \in Objects : id.kind \notin NeverDeleted}
      PROVE TypeOK'
  <2>1. toDelete' \in [Components -> SUBSET {id \in Objects : id.kind \notin NeverDeleted}]
    BY <1>2 DEF InventoryAppendWith, TypeOK
  <2>2. run[c] \in Run /\ objectsInventory(c) \in Ids
    BY DEF TypeOK, Ids, Inventories
  <2> DEFINE todo == IF PrepareDesiredObjects(run[c].want) = {} \/ c \in leaving THEN run[c].todo
                     ELSE run[c].todo \cup {objectsInventory(c)}
  <2>3. todo \in SUBSET Ids
    BY <2>2 DEF Run
  <2>4. Set(c, [run[c] EXCEPT !.at = "build", !.todo = todo])
    BY <1>2, <2>2 DEF InventoryAppendWith, Run
  <2> HIDE DEF todo
  <2>5. [run[c] EXCEPT !.at = "build", !.todo = todo] \in Run
    BY <2>2, <2>3 DEF Run
  <2>6. run' \in [Components -> Run]
    BY <2>4, <2>5, SetType
  <2>. QED
    BY <1>2, <2>1, <2>6 DEF InventoryAppendWith, TypeOK, world, asked, Counted
<1>3. ASSUME NEW c \in Components, InventoryAppend(c) PROVE TypeOK'
  BY <1>2, <1>3, <1>budget, DeletableType DEF InventoryAppend
<1>4. ASSUME NEW c \in Components, InventoryAppendSkips(c) PROVE TypeOK'
  BY <1>2, <1>4, <1>fail, DeletableType DEF InventoryAppendSkips
<1>5. ASSUME NEW c \in Components, InventoryAppendFails(c) PROVE TypeOK'
  <2>1. [run[c] EXCEPT !.at = "build"] \in Run
    BY ZenonT(60) DEF TypeOK, Run
  <2>2. run' \in [Components -> Run]
    BY <1>5, <2>1, IdleType, SetType DEF InventoryAppendFails
  <2>. QED
    BY <1>5, <2>2, <1>fail DEF InventoryAppendFails, TypeOK, world, asked, Counted
<1>reconciles. ASSUME NEW c \in Components, NEW id \in Ids, Reconciles(c, id)
      PROVE  /\ cluster' \in [Ids -> Object \cup {NoObject}]
             /\ refs' \in [Inventories -> SUBSET Objects]
  <2>1. cluster' \in [Ids -> Object \cup {NoObject}]
    BY <1>reconciles, ReconcileType DEF Reconciles, TypeOK
  <2>2. run[c].want \in Wants
    BY DEF TypeOK, Run
  <2>3. PrepareDesiredObjects(run[c].want) \in SUBSET Objects
    BY <2>2, WantDomain DEF PrepareDesiredObjects
  <2>4. refs' \in [Inventories -> SUBSET Objects]
    BY <1>reconciles, <2>3 DEF Reconciles, TypeOK
  <2>. QED
    BY <2>1, <2>4
<1>6. ASSUME NEW c \in Components, Build(c) PROVE TypeOK'
  <2>1. PICK id \in Ids :
          /\ Reconciles(c, id)
          /\ Set(c, [run[c] EXCEPT !.todo = @ \ {id},
                                   !.visited = @ \cup {generateResourceIDForPurge(id)}])
    BY <1>6 DEF Build
  <2>2. /\ cluster' \in [Ids -> Object \cup {NoObject}]
        /\ refs' \in [Inventories -> SUBSET Objects]
    BY <2>1, <1>reconciles
  <2>6. [run[c] EXCEPT !.todo = @ \ {id}, !.visited = @ \cup {generateResourceIDForPurge(id)}] \in Run
    BY ZenonT(60) DEF TypeOK, Run
  <2>7. run' \in [Components -> Run]
    BY <2>1, <2>6, SetType
  <2>. QED
    BY <1>6, <2>2, <2>7, <1>budget DEF Build, TypeOK, asked, Counted
<1>7. ASSUME NEW c \in Components, BuildFails(c) PROVE TypeOK'
  <2>1. PICK id \in Ids :
          /\ Reconciles(c, id) \/ UNCHANGED <<cluster, refs>>
          /\ Set(c, [run[c] EXCEPT !.todo = @ \ {id}, !.failed = TRUE])
    BY <1>7 DEF BuildFails
  <2>2. [run[c] EXCEPT !.todo = @ \ {id}, !.failed = TRUE] \in Run
    BY DEF TypeOK, Run
  <2>3. run' \in [Components -> Run]
    BY <2>1, <2>2, SetType
  <2>4. /\ cluster' \in [Ids -> Object \cup {NoObject}]
        /\ refs' \in [Inventories -> SUBSET Objects]
    BY <2>1, <1>reconciles DEF TypeOK
  <2>. QED
    BY <1>7, <2>3, <2>4, <1>fail DEF BuildFails, TypeOK, asked, Counted
<1>8. ASSUME NEW c \in Components, StartPurge(c) PROVE TypeOK'
  <2> DEFINE types == IF UseInventory THEN TypesToPurge(toDelete[c]) ELSE StaticTypes
  <2>1. TypesToPurge(toDelete[c]) \in SUBSET Kinds
    BY DEF TypesToPurge, TypeOK, Kinds, Ids
  <2>2. types \in SUBSET Kinds
    BY <2>1, TypesAssumption
  <2>3. Set(c, [run[c] EXCEPT !.at = "purge", !.types = types]) \/ Set(c, Idle)
    BY <1>8 DEF StartPurge
  <2> HIDE DEF types
  <2>4. [run[c] EXCEPT !.at = "purge", !.types = types] \in Run
    BY <2>2, ZenonT(60) DEF TypeOK, Run
  <2>5. run' \in [Components -> Run]
    BY <2>3, <2>4, IdleType, SetType
  <2>. QED
    BY <1>8, <2>5, <1>budget DEF StartPurge, TypeOK, world, asked, Counted
<1>9. ASSUME NEW c \in Components, List(c) PROVE TypeOK'
  <2>1. PICK kind \in run[c].types :
          Set(c, [run[c] EXCEPT !.types = @ \ {kind},
                                !.doomed = @ \cup {id \in Unvisited(c) : id.kind = kind}])
    BY <1>9 DEF List
  <2>2. Unvisited(c) \in SUBSET Ids
    BY DEF Unvisited, ManagedBy
  <2>3. [run[c] EXCEPT !.types = @ \ {kind},
                       !.doomed = @ \cup {id \in Unvisited(c) : id.kind = kind}] \in Run
    BY <2>2, ZenonT(60) DEF TypeOK, Run
  <2>4. run' \in [Components -> Run]
    BY <2>1, <2>3, SetType
  <2>. QED
    BY <1>9, <2>4, <1>budget DEF List, TypeOK, world, asked, Counted
<1>10. ASSUME NEW c \in Components, ListFails(c) PROVE TypeOK'
  <2>1. \A kind : [run[c] EXCEPT !.types = @ \ {kind}] \in Run
    BY DEF TypeOK, Run
  <2>2. run' \in [Components -> Run]
    BY <1>10, <2>1, SetType DEF ListFails
  <2>. QED
    BY <1>10, <2>2, <1>fail DEF ListFails, TypeOK, world, asked, Counted
<1>11. \A c \in Components, id \in Ids : [run[c] EXCEPT !.doomed = @ \ {id}] \in Run
  BY DEF TypeOK, Run
<1>12. ASSUME NEW c \in Components, Purge(c) PROVE TypeOK'
  <2>1. PICK id \in Ids : /\ cluster' = [cluster EXCEPT ![id] = Deleted(id)]
                         /\ Set(c, [run[c] EXCEPT !.doomed = @ \ {id}])
    BY <1>12 DEF Purge
  <2>2. cluster' \in [Ids -> Object \cup {NoObject}] /\ run' \in [Components -> Run]
    BY <2>1, <1>11, DeletedType, SetType DEF TypeOK
  <2>. QED
    BY <1>12, <2>2, <1>budget DEF Purge, TypeOK, asked, Counted
<1>13. ASSUME NEW c \in Components, PurgeFails(c) PROVE TypeOK'
  <2>1. run' \in [Components -> Run]
    BY <1>13, <1>11, SetType DEF PurgeFails
  <2>. QED
    BY <1>13, <2>1, <1>fail DEF PurgeFails, TypeOK, world, asked, Counted
<1>14. ASSUME NEW c \in Components, Finish(c) PROVE TypeOK'
  <2>1. run' \in [Components -> Run]
    BY <1>14, IdleType, SetType DEF Finish
  <2>. QED
    BY <1>14, <2>1, <1>budget DEF Finish, TypeOK, world, asked, Counted
<1>15. CASE Crash
  <2>1. run' \in [Components -> Run]
    BY <1>15, IdleType DEF Crash
  <2>. QED
    BY <1>15, <2>1, <1>fail DEF Crash, TypeOK, world, asked, Counted
<1>16. ASSUME NEW c \in Components, ChangeConfig(c) PROVE TypeOK'
  <2>1. Configs[c] \subseteq Wants
    BY ConfigsAssumption
  <2>2. config' \in [Components -> Wants]
    BY <1>16, <2>1 DEF ChangeConfig, TypeOK
  <2>. QED
    BY <1>16, <2>2, BoundsAssumption DEF ChangeConfig, TypeOK, world
<1>17. ASSUME NEW c \in Components, Leave(c) PROVE TypeOK'
  BY <1>17, BoundsAssumption DEF Leave, TypeOK, world
<1>18. CASE External
  <2>1. Owned(Nobody) \in Object
    BY DEF Owned, Object
  <2>2. PICK id \in Objects : \/ cluster' = [cluster EXCEPT ![id] = Owned(Nobody)]
                             \/ cluster' = [cluster EXCEPT ![id] = Deleted(id)]
    BY <1>18 DEF External
  <2>3. Deleted(id) \in Object \cup {NoObject}
    BY DeletedType DEF Ids
  <2>4. cluster' \in [Ids -> Object \cup {NoObject}]
    BY <2>1, <2>2, <2>3 DEF TypeOK
  <2>. QED
    BY <1>18, <2>4, BoundsAssumption DEF External, TypeOK, asked
<1>19. ASSUME NEW id \in Ids, FinishDelete(id) PROVE TypeOK'
  <2>1. cluster' \in [Ids -> Object \cup {NoObject}]
    BY <1>19 DEF FinishDelete, TypeOK
  <2>. QED
    BY <1>19, <2>1, <1>budget DEF FinishDelete, TypeOK, asked, Counted
<1>20. ASSUME NEW i \in Inventories, CacheSync(i) PROVE TypeOK'
  <2>1. Listed(i) \in SUBSET Objects
    BY DEF Listed, TypeOK
  <2>2. seen' \in [Inventories -> SUBSET Objects]
    BY <1>20, <2>1 DEF CacheSync, TypeOK
  <2>. QED
    BY <1>20, <2>2, <1>budget DEF CacheSync, TypeOK, asked, Counted
<1>. QED
  BY <1>0, <1>1, <1>3, <1>4, <1>5, <1>6, <1>7, <1>8, <1>9, <1>10, <1>12, <1>13, <1>14, <1>15, <1>16,
     <1>17, <1>18, <1>19, <1>20 DEF Next, Progress, Failure

\* Whatever fails, whoever interferes and however the names clash, every variable keeps its type and
\* nothing but objects of kinds that may be deleted is ever marked for deletion (Inventory).
THEOREM TypeCorrect == Spec => []TypeOK
<1>1. Init => TypeOK
  BY IdleType, BoundsAssumption, ConfigsAssumption DEF Init, TypeOK
<1>2. TypeOK /\ [Next]_vars => TypeOK'
  BY TypeStep
<1>. QED
  BY <1>1, <1>2, PTL DEF Spec

-----------------------------------------------------------------------------
(* What was asked for is not purged. *)

\* A step that leaves the reconciliations alone keeps them in order (everybody else's steps).
LEMMA SameRuns == ASSUME RunsOK, run' = run PROVE RunsOK'
  BY DEF RunsOK, Staged, Accounted

\* Putting one that is in order in place keeps all in order (every step of Reconcile).
LEMMA SetRuns == ASSUME TypeOK, RunsOK, NEW c \in Components, NEW r, Set(c, r), Staged(r), Accounted(r)
                 PROVE RunsOK'
<1>1. \A d \in Components : run'[d] = IF d = c THEN r ELSE run[d]
  BY DEF Set, TypeOK
<1>. QED
  BY <1>1 DEF RunsOK, Staged, Accounted

\* Nothing is in progress between reconciliations (the locals of Reconcile).
LEMMA IdleOK == Staged(Idle) /\ Accounted(Idle)
  BY DEF Staged, Accounted, Idle

\* Every action keeps the reconciliations in order.
LEMMA RunsStep == ASSUME TypeOK, RunsOK, [Next]_vars PROVE RunsOK'
<1>1. ASSUME NEW c \in Components PROVE run[c] \in Run /\ Staged(run[c]) /\ Accounted(run[c])
  BY DEF TypeOK, RunsOK
<1>2. CASE UNCHANGED vars
  BY <1>2, SameRuns DEF vars
<1>3. ASSUME NEW c \in Components, Begin(c) PROVE RunsOK'
  <2> DEFINE r == [Idle EXCEPT !.at = IF UseInventory THEN "append" ELSE "build",
                               !.want = config[c], !.todo = DOMAIN config[c]]
  <2>1. Staged(r) /\ Accounted(r)
    BY DEF Staged, Accounted, Idle
  <2>. QED
    BY <1>3, <2>1, SetRuns DEF Begin
<1>4. ASSUME NEW c \in Components, NEW deletable, InventoryAppendWith(c, deletable) PROVE RunsOK'
  <2> DEFINE todo == IF PrepareDesiredObjects(run[c].want) = {} \/ c \in leaving THEN run[c].todo
                     ELSE run[c].todo \cup {objectsInventory(c)}
             r == [run[c] EXCEPT !.at = "build", !.todo = todo]
  <2>1. Set(c, r)
    BY <1>1, <1>4 DEF InventoryAppendWith, Run
  <2>2. run[c].todo \subseteq todo
    OBVIOUS
  <2> HIDE DEF todo
  <2>3. Staged(r) /\ Accounted(r)
    BY <1>1, <1>4, <2>2 DEF InventoryAppendWith, Staged, Accounted, Run
  <2>. QED
    BY <2>1, <2>3, SetRuns
<1>5. ASSUME NEW c \in Components, InventoryAppendFails(c) PROVE RunsOK'
  <2>1. Staged([run[c] EXCEPT !.at = "build"]) /\ Accounted([run[c] EXCEPT !.at = "build"])
    BY <1>1, <1>5 DEF InventoryAppendFails, Staged, Accounted, Run
  <2>. QED
    BY <1>5, <2>1, IdleOK, SetRuns DEF InventoryAppendFails
<1>6. ASSUME NEW c \in Components, Build(c) PROVE RunsOK'
  <2>1. PICK id \in Ids :
          Set(c, [run[c] EXCEPT !.todo = @ \ {id},
                                !.visited = @ \cup {generateResourceIDForPurge(id)}])
    BY <1>6 DEF Build
  <2> DEFINE r == [run[c] EXCEPT !.todo = @ \ {id},
                                 !.visited = @ \cup {generateResourceIDForPurge(id)}]
  <2>2. run[c].at = "build" /\ run[c].doomed = {}
    BY <1>1, <1>6 DEF Build, Staged
  <2>3. Staged(r) /\ Accounted(r)
    BY <1>1, <2>2 DEF Staged, Accounted, Run
  <2>. QED
    BY <2>1, <2>3, SetRuns
<1>7. ASSUME NEW c \in Components, BuildFails(c) PROVE RunsOK'
  <2>1. PICK id \in Ids : Set(c, [run[c] EXCEPT !.todo = @ \ {id}, !.failed = TRUE])
    BY <1>7 DEF BuildFails
  <2>2. run[c].at = "build" /\ run[c].doomed = {}
    BY <1>1, <1>7 DEF BuildFails, Staged
  <2>3. /\ Staged([run[c] EXCEPT !.todo = @ \ {id}, !.failed = TRUE])
        /\ Accounted([run[c] EXCEPT !.todo = @ \ {id}, !.failed = TRUE])
    BY <1>1, <2>2 DEF Staged, Accounted, Run
  <2>. QED
    BY <2>1, <2>3, SetRuns
<1>8. ASSUME NEW c \in Components, StartPurge(c) PROVE RunsOK'
  <2> DEFINE types == IF UseInventory THEN TypesToPurge(toDelete[c]) ELSE StaticTypes
             r == [run[c] EXCEPT !.at = "purge", !.types = types]
  <2>1. CASE run[c].failed = FALSE
    <3>1. Set(c, r)
      BY <1>8, <2>1 DEF StartPurge, MayPurge
    <3> HIDE DEF types
    <3>2. Staged(r) /\ Accounted(r)
      BY <1>1, <1>8, <2>1 DEF StartPurge, Staged, Accounted, Run
    <3>. QED
      BY <3>1, <3>2, SetRuns
  <2>2. CASE run[c].failed = TRUE
    BY <1>8, <2>2, IdleOK, SetRuns DEF StartPurge, MayPurge
  <2>. QED
    BY <1>1, <2>1, <2>2 DEF Run
<1>9. ASSUME NEW c \in Components, List(c) PROVE RunsOK'
  <2>1. PICK kind \in run[c].types :
          Set(c, [run[c] EXCEPT !.types = @ \ {kind},
                                !.doomed = @ \cup {id \in Unvisited(c) : id.kind = kind}])
    BY <1>9 DEF List
  <2> DEFINE new == {id \in Unvisited(c) : id.kind = kind}
             r == [run[c] EXCEPT !.types = @ \ {kind}, !.doomed = @ \cup new]
  <2>2. \A id \in new : generateResourceIDForPurge(id) \notin run[c].visited
    BY DEF Unvisited
  <2>3. run[c].at = "purge"
    BY <1>9 DEF List
  <2>4. Set(c, r)
    BY <2>1
  <2> HIDE DEF new
  <2>5. Staged(r) /\ Accounted(r)
    BY <1>1, <2>2, <2>3 DEF Staged, Accounted, Run
  <2>. QED
    BY <2>4, <2>5, SetRuns
<1>10. ASSUME NEW c \in Components, ListFails(c) PROVE RunsOK'
  <2>1. PICK kind \in run[c].types : Set(c, [run[c] EXCEPT !.types = @ \ {kind}])
    BY <1>10 DEF ListFails
  <2>2. Staged([run[c] EXCEPT !.types = @ \ {kind}]) /\ Accounted([run[c] EXCEPT !.types = @ \ {kind}])
    BY <1>1 DEF Staged, Accounted, Run
  <2>. QED
    BY <2>1, <2>2, SetRuns
<1>11. ASSUME NEW c \in Components, NEW id PROVE Staged([run[c] EXCEPT !.doomed = @ \ {id}])
                                               /\ Accounted([run[c] EXCEPT !.doomed = @ \ {id}])
  BY <1>1 DEF Staged, Accounted, Run
<1>12. ASSUME NEW c \in Components, Purge(c) \/ PurgeFails(c) PROVE RunsOK'
  <2>1. PICK id : Set(c, [run[c] EXCEPT !.doomed = @ \ {id}])
    BY <1>12 DEF Purge, PurgeFails
  <2>. QED
    BY <2>1, <1>11, SetRuns
<1>13. ASSUME NEW c \in Components, Finish(c) PROVE RunsOK'
  BY <1>13, IdleOK, SetRuns DEF Finish
<1>14. CASE Crash
  BY <1>14, IdleOK DEF Crash, RunsOK
<1>15. CASE External \/ \E c \in Components : ChangeConfig(c) \/ Leave(c)
  BY <1>15, SameRuns DEF External, ChangeConfig, Leave
<1>16. CASE (\E id \in Ids : FinishDelete(id)) \/ \E i \in Inventories : CacheSync(i)
  BY <1>16, SameRuns DEF FinishDelete, CacheSync
<1>. QED
  BY <1>2, <1>3, <1>4, <1>5, <1>6, <1>7, <1>8, <1>9, <1>10, <1>12, <1>13, <1>14, <1>15, <1>16
     DEF Next, Progress, Failure, InventoryAppend, InventoryAppendSkips

\* Whatever fails and however the names clash, a purge deletes nothing its reconciliation asked for
\* (purge, and the decision to skip it after an error).
THEOREM PurgesDroppedCorrect == Spec => PurgesDropped
<1>1. Init => TypeOK /\ RunsOK
  BY IdleType, IdleOK, BoundsAssumption, ConfigsAssumption DEF Init, TypeOK, RunsOK
<1>2. TypeOK /\ RunsOK /\ [Next]_vars => (TypeOK /\ RunsOK)'
  BY TypeStep, RunsStep
<1>3. ASSUME RunsOK, NEW c \in Components, NEW id \in Objects, PurgeStep(c, id)
      PROVE  id \notin DOMAIN run[c].want
  <2>1. run[c].at = "purge" /\ id \in run[c].doomed
    BY <1>3 DEF PurgeStep, Purges
  <2>2. run[c].failed = FALSE /\ run[c].todo = {}
    BY <1>3, <2>1 DEF RunsOK, Staged
  <2>. QED
    BY <1>3, <2>1, <2>2 DEF RunsOK, Accounted
<1>4. RunsOK => [\A c \in Components, id \in Objects :
                    PurgeStep(c, id) => id \notin DOMAIN run[c].want]_vars
  BY <1>3
<1>. QED
  BY <1>1, <1>2, <1>4, PTL DEF Spec, PurgesDropped

-----------------------------------------------------------------------------
(* What is purged is no other component's. *)

\* Component ids name their components, and components take turns.
Orderly ==
    /\ Sequential
    /\ \A c, d \in Components : generateComponentID(c) = generateComponentID(d) => c = d

\* A step of one reconciliation leaves the others as they are (every step of Reconcile).
LEMMA SetOthers == ASSUME TypeOK, NEW c \in Components, NEW r, Set(c, r)
                   PROVE run'[c] = r /\ \A d \in Components \ {c} : run'[d] = run[d]
  BY DEF Set, TypeOK

\* A reconciliation only begins when no other is under way (Dispatcher.Reconcile).
LEMMA AloneStep == ASSUME Orderly, TypeOK, Alone, [Next]_vars PROVE Alone'
<1>1. CASE run' = run
  BY <1>1 DEF Alone
<1>2. ASSUME NEW c \in Components, Begin(c) PROVE Alone'
  BY <1>2, SetOthers DEF Begin, MayBegin, Alone, Orderly
<1>3. ASSUME NEW c \in Components, NEW r, Set(c, r), run[c].at # "idle" PROVE Alone'
  BY <1>3, SetOthers DEF Alone
<1>4. ASSUME NEW c \in Components, Progress(c) \/ Failure(c) PROVE Alone'
  <2>1. run[c].at # "idle" /\ \E r : Set(c, r)
    BY <1>4 DEF Progress, Failure, InventoryAppend, InventoryAppendSkips, InventoryAppendWith,
                InventoryAppendFails, Build, BuildFails, StartPurge, List, ListFails, Purge, PurgeFails,
                Purges, Finish
  <2>. QED
    BY <1>3, <2>1, Zenon
<1>5. CASE Crash
  BY <1>5 DEF Crash, Alone, Idle
<1>. QED
  BY <1>1, <1>2, <1>4, <1>5
     DEF Next, vars, External, ChangeConfig, Leave, FinishDelete, CacheSync

\* Only a list adds to what a component is about to delete (purge).
LEMMA OthersShrink ==
  ASSUME TypeOK, NEW c \in Components,
         \/ Begin(c) \/ InventoryAppend(c) \/ InventoryAppendSkips(c) \/ InventoryAppendFails(c)
         \/ Build(c) \/ BuildFails(c) \/ StartPurge(c) \/ ListFails(c) \/ Purge(c) \/ PurgeFails(c) \/ Finish(c)
  PROVE  \A d \in Components : run'[d].doomed \subseteq run[d].doomed
<1> DEFINE Shrinks == \E r : Set(c, r) /\ r.doomed \subseteq run[c].doomed
<1>0. run[c] \in Run /\ Idle.doomed = {}
  BY DEF TypeOK, Idle
<1>1. ASSUME NEW at, NEW types, NEW deletable, NEW todo, NEW visited, NEW id
      PROVE  /\ Set(c, [run[c] EXCEPT !.at = at]) => Shrinks
             /\ Set(c, [run[c] EXCEPT !.at = at, !.todo = todo]) => Shrinks
             /\ Set(c, [run[c] EXCEPT !.at = at, !.types = types]) => Shrinks
             /\ Set(c, [run[c] EXCEPT !.types = types]) => Shrinks
             /\ Set(c, [run[c] EXCEPT !.doomed = @ \ {id}]) => Shrinks
             /\ Set(c, Idle) => Shrinks
  <2>1. /\ [run[c] EXCEPT !.at = at].doomed = run[c].doomed
        /\ [run[c] EXCEPT !.at = at, !.todo = todo].doomed = run[c].doomed
        /\ [run[c] EXCEPT !.at = at, !.types = types].doomed = run[c].doomed
        /\ [run[c] EXCEPT !.types = types].doomed = run[c].doomed
        /\ [run[c] EXCEPT !.doomed = @ \ {id}].doomed = run[c].doomed \ {id}
    BY <1>0 DEF Run
  <2> DEFINE Good(r) == Set(c, r) => Shrinks
  <2>2. \A r : r.doomed \subseteq run[c].doomed => Good(r)
    OBVIOUS
  <2> HIDE DEF Shrinks
  <2>3. /\ Good([run[c] EXCEPT !.at = at]) /\ Good([run[c] EXCEPT !.at = at, !.todo = todo])
        /\ Good([run[c] EXCEPT !.at = at, !.types = types]) /\ Good([run[c] EXCEPT !.types = types])
        /\ Good([run[c] EXCEPT !.doomed = @ \ {id}]) /\ Good(Idle)
    <3> HIDE DEF Good
    <3>. QED
      BY <1>0, <2>1, <2>2
  <2>. QED
    BY <2>3
<1>2. CASE Begin(c)
  <2> DEFINE r == [Idle EXCEPT !.at = IF UseInventory THEN "append" ELSE "build",
                               !.want = config[c], !.todo = DOMAIN config[c]]
  <2>1. Set(c, r)
    BY <1>2 DEF Begin
  <2>2. r.doomed = {}
    BY DEF Idle
  <2>. QED
    BY <2>1, <2>2, SetOthers
<1>3. ASSUME NEW deletable, InventoryAppendWith(c, deletable) PROVE Shrinks
  <2> DEFINE todo == IF PrepareDesiredObjects(run[c].want) = {} \/ c \in leaving THEN run[c].todo
                     ELSE run[c].todo \cup {objectsInventory(c)}
  <2>1. Set(c, [run[c] EXCEPT !.at = "build", !.todo = todo])
    BY <1>0, <1>3 DEF InventoryAppendWith, Run
  <2> HIDE DEF Shrinks, todo
  <2>. QED
    BY <1>1, <2>1
<1>4. CASE Build(c)
  <2>1. PICK id \in Ids :
           Set(c, [run[c] EXCEPT !.todo = @ \ {id}, !.visited = @ \cup {generateResourceIDForPurge(id)}])
    BY <1>4 DEF Build
  <2>2. [run[c] EXCEPT !.todo = @ \ {id},
                       !.visited = @ \cup {generateResourceIDForPurge(id)}].doomed = run[c].doomed
    BY <1>0 DEF Run
  <2>. QED
    BY <2>1, <2>2, SetOthers
<1>5. CASE BuildFails(c)
  <2>1. PICK id \in Ids : Set(c, [run[c] EXCEPT !.todo = @ \ {id}, !.failed = TRUE])
    BY <1>5 DEF BuildFails
  <2>2. [run[c] EXCEPT !.todo = @ \ {id}, !.failed = TRUE].doomed = run[c].doomed
    BY <1>0 DEF Run
  <2>. QED
    BY <2>1, <2>2, SetOthers
<1>6. CASE StartPurge(c)
  <2> DEFINE types == IF UseInventory THEN TypesToPurge(toDelete[c]) ELSE StaticTypes
  <2>1. Set(c, [run[c] EXCEPT !.at = "purge", !.types = types]) \/ Set(c, Idle)
    BY <1>6 DEF StartPurge
  <2> HIDE DEF Shrinks, types
  <2>2. Shrinks
    BY <1>1, <2>1
  <2>. QED
    BY <2>2, SetOthers DEF Shrinks
<1>7. CASE ListFails(c)
  <2>1. PICK kind \in run[c].types : Set(c, [run[c] EXCEPT !.types = @ \ {kind}])
    BY <1>7 DEF ListFails
  <2>2. [run[c] EXCEPT !.types = @ \ {kind}].doomed = run[c].doomed
    BY <1>0 DEF Run
  <2>. QED
    BY <2>1, <2>2, SetOthers
<1>8. CASE Purge(c) \/ PurgeFails(c)
  <2>1. PICK id \in Ids : Set(c, [run[c] EXCEPT !.doomed = @ \ {id}])
    BY <1>8 DEF Purge, PurgeFails
  <2>2. [run[c] EXCEPT !.doomed = @ \ {id}].doomed = run[c].doomed \ {id}
    BY <1>0 DEF Run
  <2>. QED
    BY <2>1, <2>2, SetOthers
<1>9. CASE InventoryAppendFails(c) \/ Finish(c)
  <2>1. Set(c, [run[c] EXCEPT !.at = "build"]) \/ Set(c, Idle)
    BY <1>9 DEF InventoryAppendFails, Finish
  <2> HIDE DEF Shrinks
  <2>2. Shrinks
    BY <1>1, <2>1
  <2>. QED
    BY <2>2, SetOthers DEF Shrinks
<1>. QED
  BY <1>2, <1>3, <1>4, <1>5, <1>6, <1>7, <1>8, <1>9, SetOthers
     DEF InventoryAppend, InventoryAppendSkips

\* A list adds objects that carry the component's annotation (purge).
LEMMA ListGrows ==
  ASSUME TypeOK, NEW c \in Components, List(c)
  PROVE  /\ run'[c].doomed \subseteq run[c].doomed \cup ManagedBy(c)
         /\ \A d \in Components \ {c} : run'[d] = run[d]
<1>1. PICK kind \in run[c].types :
        Set(c, [run[c] EXCEPT !.types = @ \ {kind},
                              !.doomed = @ \cup {id \in Unvisited(c) : id.kind = kind}])
  BY DEF List
<1> DEFINE new == {id \in Unvisited(c) : id.kind = kind}
           r == [run[c] EXCEPT !.types = @ \ {kind}, !.doomed = @ \cup new]
<1>2. new \subseteq ManagedBy(c) /\ Set(c, r)
  BY <1>1 DEF Unvisited
<1> HIDE DEF new
<1>3. r.doomed = run[c].doomed \cup new
  BY DEF TypeOK, Run
<1>. QED
  BY <1>2, <1>3, SetOthers

\* The annotation names the component, when component ids differ (generateComponentID).
LEMMA ManagedOwn ==
  ASSUME Orderly, TypeOK, NEW c \in Components, NEW id \in ManagedBy(c)
  PROVE  Exists(id) /\ cluster[id].owner = c
<1>1. cluster[id] \in Object
  BY DEF ManagedBy, Exists, TypeOK
<1>. QED
  BY <1>1 DEF ManagedBy, Orderly, Object

\* No component takes an object over between the list that dooms it and its delete, only users may (purge).
LEMMA DoomedStep ==
  ASSUME Orderly, TypeOK, RunsOK, Alone, DoomedOwn, [Next]_vars
  PROVE  DoomedOwn'
<1>1. ASSUME \A c \in Components : run'[c].doomed \subseteq run[c].doomed,
             \A c \in Components : \A id \in run'[c].doomed :
                cluster'[id] # NoObject => /\ cluster[id] # NoObject
                                          /\ cluster'[id].owner = cluster[id].owner
      PROVE  DoomedOwn'
  BY <1>1 DEF DoomedOwn, Exists
<1>2. ASSUME cluster' = cluster, run' = run PROVE DoomedOwn'
  BY <1>1, <1>2
<1>3. \A d \in Components : run[d].doomed \subseteq Ids
  BY DEF TypeOK, Run
<1>4. ASSUME NEW id \in Ids, cluster' = [cluster EXCEPT ![id] = Deleted(id)]
      PROVE  \A i \in Ids : cluster'[i] # NoObject => /\ cluster[i] # NoObject
                                                    /\ cluster'[i].owner = cluster[i].owner
  <2>1. Deleted(id) # NoObject => cluster[id] # NoObject /\ Deleted(id).owner = cluster[id].owner
    BY DEF Deleted, Exists, TypeOK, Object
  <2>. QED
    BY <1>4, <2>1 DEF TypeOK
<1>5. ASSUME NEW c \in Components,
             \/ Begin(c) \/ InventoryAppend(c) \/ InventoryAppendSkips(c) \/ InventoryAppendFails(c)
             \/ StartPurge(c) \/ ListFails(c) \/ PurgeFails(c) \/ Finish(c)
      PROVE  DoomedOwn'
  <2>1. \A d \in Components : run'[d].doomed \subseteq run[d].doomed
    BY <1>5, OthersShrink
  <2>2. cluster' = cluster
    BY <1>5 DEF Begin, InventoryAppend, InventoryAppendSkips, InventoryAppendWith, InventoryAppendFails,
                StartPurge, ListFails, PurgeFails, Finish, world
  <2>. QED
    BY <1>1, <2>1, <2>2
<1>6. ASSUME NEW c \in Components, Build(c) \/ BuildFails(c) PROVE DoomedOwn'
  <2>1. \A d \in Components : run[d].doomed = {}
    BY <1>6 DEF Build, BuildFails, Alone, RunsOK, Staged
  <2>2. \A d \in Components : run'[d].doomed = {}
    BY <1>6, <2>1, OthersShrink
  <2>. QED
    BY <2>2 DEF DoomedOwn
<1>7. ASSUME NEW c \in Components, List(c) PROVE DoomedOwn'
  <2>1. cluster' = cluster
    BY <1>7 DEF List, world
  <2>2. \A id \in run'[c].doomed : id \in run[c].doomed \/ cluster[id].owner = c
    BY <1>7, ListGrows, ManagedOwn
  <2>3. \A d \in Components \ {c} : run'[d] = run[d]
    BY <1>7, ListGrows
  <2>. QED
    BY <2>1, <2>2, <2>3 DEF DoomedOwn, Exists, MayOwn
<1>8. ASSUME NEW c \in Components, Purge(c) PROVE DoomedOwn'
  <2>1. PICK id \in Ids : cluster' = [cluster EXCEPT ![id] = Deleted(id)]
    BY <1>8 DEF Purge
  <2>2. \A d \in Components : run'[d].doomed \subseteq run[d].doomed
    BY <1>8, OthersShrink
  <2>. QED
    BY <1>1, <1>3, <1>4, <2>1, <2>2
<1>9. CASE Crash
  BY <1>9 DEF Crash, DoomedOwn, Idle
<1>10. CASE External
  <2>1. run' = run
    BY <1>10 DEF External
  <2>2. PICK id \in Ids : \/ cluster' = [cluster EXCEPT ![id] = Owned(Nobody)]
                         \/ cluster' = [cluster EXCEPT ![id] = Deleted(id)]
    BY <1>10 DEF External, Ids
  <2>3. CASE cluster' = [cluster EXCEPT ![id] = Owned(Nobody)]
    BY <2>1, <2>3 DEF DoomedOwn, Exists, MayOwn, Owned, TypeOK
  <2>4. CASE cluster' = [cluster EXCEPT ![id] = Deleted(id)]
    BY <1>1, <1>3, <1>4, <2>1, <2>4
  <2>. QED
    BY <2>2, <2>3, <2>4
<1>11. ASSUME NEW id \in Ids, FinishDelete(id) PROVE DoomedOwn'
  <2>1. \A i \in Ids : cluster'[i] # NoObject => cluster'[i] = cluster[i]
    BY <1>11 DEF FinishDelete, TypeOK
  <2>. QED
    BY <1>1, <1>3, <1>11, <2>1 DEF FinishDelete
<1>. QED
  BY <1>2, <1>5, <1>6, <1>7, <1>8, <1>9, <1>10, <1>11
     DEF Next, Progress, Failure, vars, world, ChangeConfig, Leave, CacheSync

\* What is doomed stays as it should be in every behaviour.
LEMMA DoomedOwnCorrect == ASSUME Orderly PROVE Spec => [](TypeOK /\ DoomedOwn)
<1> DEFINE IInv == TypeOK /\ RunsOK /\ Alone /\ DoomedOwn
<1>1. Init => IInv
  BY IdleType, IdleOK, BoundsAssumption, ConfigsAssumption
     DEF Init, TypeOK, RunsOK, Alone, DoomedOwn, Idle
<1>2. IInv /\ [Next]_vars => IInv'
  BY TypeStep, RunsStep, AloneStep, DoomedStep
<1>3. IInv => TypeOK /\ DoomedOwn
  OBVIOUS
<1> HIDE DEF IInv
<1>. QED
  BY <1>1, <1>2, <1>3, PTL DEF Spec

\* What a reconciliation has listed anew is its component's own, and the object has its annotation
\* (purge, generateComponentID).
LEMMA ListsOwn ==
  ASSUME Orderly, TypeOK, NEW c \in Components, NEW id \in Ids, [Next]_vars,
         id \in run'[c].doomed \ run[c].doomed
  PROVE  cluster[id].owner = c
<1>1. CASE run' = run
  BY <1>1
<1>2. ASSUME NEW d \in Components,
             \/ Begin(d) \/ InventoryAppend(d) \/ InventoryAppendSkips(d) \/ InventoryAppendFails(d)
             \/ Build(d) \/ BuildFails(d) \/ StartPurge(d) \/ ListFails(d) \/ Purge(d) \/ PurgeFails(d) \/ Finish(d)
      PROVE  run'[c].doomed \subseteq run[c].doomed
  BY <1>2, OthersShrink
<1>3. ASSUME NEW d \in Components, List(d)
      PROVE  cluster[id].owner = c
  BY <1>3, ListGrows, ManagedOwn
<1>4. CASE Crash
  BY <1>4 DEF Crash, Idle
<1>. QED
  BY <1>1, <1>2, <1>3, <1>4
     DEF Next, Progress, Failure, vars, External, ChangeConfig, Leave, FinishDelete, CacheSync

\* Whatever users create, take over and delete in the middle of a purge, it takes up only its component's
\* objects and deletes no other component's, as long as component ids differ and components take turns
\* (purge, generateComponentID, Dispatcher.Handle).
THEOREM PurgesNobodyElsesCorrect == ASSUME Orderly PROVE Spec => PurgesNobodyElses
<1> DEFINE Claim == \A c \in Components, id \in Ids :
              /\ id \in run'[c].doomed \ run[c].doomed => cluster[id].owner = c
              /\ PurgeStep(c, id) => cluster[id].owner \in {c, Nobody}
<1>1. ASSUME TypeOK, DoomedOwn, [Next]_vars PROVE Claim
  <2>1. ASSUME NEW c \in Components, NEW id \in Ids, PurgeStep(c, id)
        PROVE  cluster[id].owner \in {c, Nobody}
    BY <1>1, <2>1 DEF PurgeStep, Purges, DoomedOwn, MayOwn
  <2>. QED
    BY <1>1, <2>1, ListsOwn
<1>2. TypeOK /\ DoomedOwn /\ [Next]_vars => [Claim]_vars
  BY <1>1
<1>. QED
  BY <1>2, DoomedOwnCorrect, PTL DEF PurgesNobodyElses, Spec

-----------------------------------------------------------------------------
(* Names whose joins do not clash. *)

\* A join has its second part behind the first.
LEMMA JoinedBehind ==
  ASSUME NEW S, NEW s \in Seq(S), NEW t \in Seq(S), NEW i \in 1 .. Len(t)
  PROVE  (s \o t)[Len(s) + i] = t[i]
<1>1. Len(s) \in Nat /\ Len(t) \in Nat
  OBVIOUS
<1>2. Len(s) + i \in 1 .. Len(s) + Len(t) /\ ~(Len(s) + i <= Len(s)) /\ (Len(s) + i) - Len(s) = i
  BY <1>1
<1> DEFINE j == Len(s) + i
<1>3. (s \o t)[j] = t[j - Len(s)]
  BY <1>2
<1>. QED
  BY <1>2, <1>3

\* Two joins of parts are equal only where the parts are, when the first parts have as many pieces.
LEMMA SplitsAlike ==
  ASSUME NEW S, NEW s \in Seq(S), NEW t \in Seq(S), NEW u \in Seq(S), NEW v \in Seq(S),
         s \o t = u \o v, Len(s) = Len(u)
  PROVE  s = u /\ t = v
<1>1. Len(s \o t) = Len(s) + Len(t) /\ Len(u \o v) = Len(u) + Len(v)
  OBVIOUS
<1>2. Len(t) = Len(v)
  BY <1>1
<1>3. ASSUME NEW i \in 1 .. Len(s) PROVE s[i] = u[i]
  <2>1. (s \o t)[i] = s[i] /\ (u \o v)[i] = u[i]
    OBVIOUS
  <2>. QED
    BY <2>1
<1>4. ASSUME NEW i \in 1 .. Len(t) PROVE t[i] = v[i]
  <2>1. (s \o t)[Len(s) + i] = t[i]
    BY JoinedBehind
  <2>2. i \in 1 .. Len(v)
    BY <1>2
  <2>3. (u \o v)[Len(u) + i] = v[i]
    BY <2>2, JoinedBehind
  <2>. QED
    BY <2>1, <2>3
<1>. QED
  BY <1>2, <1>3, <1>4

\* What an object is remembered by tells it from every other, unless their names and namespaces have as
\* many pieces together and are cut differently (generateResourceIDForPurge).
LEMMA IdsTellApart ==
  ASSUME NEW S, NEW id \in [kind : S, name : Seq(S), namespace : Seq(S)],
         NEW other \in [kind : S, name : Seq(S), namespace : Seq(S)],
         Len(id.name) + Len(id.namespace) = Len(other.name) + Len(other.namespace)
            => Len(id.name) = Len(other.name),
         generateResourceIDForPurge(id) = generateResourceIDForPurge(other)
  PROVE  id = other
<1> DEFINE first(x) == x.name \o x.namespace
<1>1. /\ id.name \in Seq(S) /\ id.namespace \in Seq(S) /\ first(id) \in Seq(S)
      /\ <<id.kind>> \in Seq(S)
      /\ other.name \in Seq(S) /\ other.namespace \in Seq(S) /\ first(other) \in Seq(S)
      /\ <<other.kind>> \in Seq(S)
  OBVIOUS
<1>2. first(id) \o <<id.kind>> = first(other) \o <<other.kind>>
  BY DEF generateResourceIDForPurge
<1>3. Len(first(id)) = Len(first(other))
  <2>1. Len(first(id) \o <<id.kind>>) = Len(first(id)) + 1
        /\ Len(first(other) \o <<other.kind>>) = Len(first(other)) + 1
    BY <1>1
  <2>2. Len(first(id)) \in Nat /\ Len(first(other)) \in Nat
    BY <1>1
  <2> HIDE DEF first
  <2>. QED
    BY <1>2, <2>1, <2>2
<1>4. first(id) = first(other) /\ <<id.kind>> = <<other.kind>>
  <2> HIDE DEF first
  <2>. QED
    BY <1>1, <1>2, <1>3, SplitsAlike
<1>5. id.name = other.name /\ id.namespace = other.namespace
  <2>1. Len(id.name \o id.namespace) = Len(id.name) + Len(id.namespace)
        /\ Len(other.name \o other.namespace) = Len(other.name) + Len(other.namespace)
    BY <1>1
  <2>2. Len(id.name) = Len(other.name)
    BY <1>3, <2>1
  <2>. QED
    BY <1>1, <1>4, <2>2, SplitsAlike
<1>6. id.kind = other.kind
  <2>1. <<id.kind>>[1] = id.kind /\ <<other.kind>>[1] = other.kind
    OBVIOUS
  <2>. QED
    BY <1>4, <2>1
<1>. QED
  BY <1>5, <1>6

\* The parts of a component's names.
Parts(S) == [name : Seq(S), namespace : Seq(S), component : Seq(S), kind : Seq(S),
             release : Seq(S), target : Seq(S)]

\* Component ids tell owners apart whose names, namespaces and components have as many pieces each
\* (generateComponentID).
LEMMA ComponentsTellApart ==
  ASSUME NEW S, NEW c \in Parts(S), NEW d \in Parts(S),
         Len(c.name) = Len(d.name), Len(c.namespace) = Len(d.namespace),
         Len(c.component) = Len(d.component),
         generateComponentID(c) = generateComponentID(d)
  PROVE  c.name = d.name /\ c.namespace = d.namespace /\ c.component = d.component /\ c.kind = d.kind
<1> DEFINE two(x) == x.name \o x.namespace
           three(x) == two(x) \o x.component
<1>1. \A x \in {c, d} : /\ x.name \in Seq(S) /\ x.namespace \in Seq(S) /\ x.component \in Seq(S)
                        /\ x.kind \in Seq(S)
  BY DEF Parts
<1>2. \A x \in {c, d} : two(x) \in Seq(S) /\ Len(two(x)) = Len(x.name) + Len(x.namespace)
  BY <1>1
<1>3. \A x \in {c, d} : three(x) \in Seq(S) /\ Len(three(x)) = Len(two(x)) + Len(x.component)
  <2> HIDE DEF two
  <2>. TAKE x \in {c, d}
  <2>1. two(x) \in Seq(S) /\ x.component \in Seq(S)
    BY <1>1, <1>2
  <2>. QED
    BY <2>1
<1>4. three(c) \o c.kind = three(d) \o d.kind
  BY DEF generateComponentID
<1>5. Len(two(c)) = Len(two(d)) /\ Len(three(c)) = Len(three(d))
  <2> HIDE DEF two, three
  <2>. QED
    BY <1>2, <1>3
<1>6. three(c) = three(d) /\ c.kind = d.kind
  <2>1. three(c) \in Seq(S) /\ c.kind \in Seq(S) /\ three(d) \in Seq(S) /\ d.kind \in Seq(S)
    BY <1>1, <1>3
  <2> HIDE DEF two, three
  <2>. QED
    BY <2>1, <1>4, <1>5, SplitsAlike
<1>7. two(c) = two(d) /\ c.component = d.component
  <2>1. two(c) \in Seq(S) /\ two(d) \in Seq(S)
    BY <1>2
  <2>2. c.component \in Seq(S) /\ d.component \in Seq(S)
    BY <1>1
  <2>3. two(c) \o c.component = two(d) \o d.component
    BY <1>6
  <2>4. Len(two(c)) = Len(two(d))
    BY <1>5
  <2> HIDE DEF two, three
  <2>. QED
    BY <2>1, <2>2, <2>3, <2>4, SplitsAlike
<1>8. c.name = d.name /\ c.namespace = d.namespace
  BY <1>1, <1>7, SplitsAlike
<1>. QED
  BY <1>6, <1>7, <1>8

\* Owners of one kind, in namespaces, with as many dashes in their names; no two are the same.
EvenComponents(S) ==
    /\ Components \subseteq Parts(S)
    /\ \A c, d \in Components :
          /\ Len(c.name) = Len(d.name) /\ Len(c.namespace) = Len(d.namespace)
          /\ Len(c.component) = Len(d.component)
          /\ c.name = d.name /\ c.namespace = d.namespace /\ c.component = d.component /\ c.kind = d.kind
                => c = d

\* Of components with such names that take turns, none purges another's objects, whatever users do: it
\* takes names that are cut differently for ids to clash (generateComponentID, purge).
THEOREM PurgesNobodyElsesByName ==
  ASSUME NEW S, EvenComponents(S), Sequential
  PROVE  Spec => PurgesNobodyElses
<1>1. ASSUME NEW c \in Components, NEW d \in Components, generateComponentID(c) = generateComponentID(d)
      PROVE  c = d
  <2>1. c \in Parts(S) /\ d \in Parts(S)
    BY DEF EvenComponents
  <2>2. Len(c.name) = Len(d.name) /\ Len(c.namespace) = Len(d.namespace) /\ Len(c.component) = Len(d.component)
    BY DEF EvenComponents
  <2>3. c.name = d.name /\ c.namespace = d.namespace /\ c.component = d.component /\ c.kind = d.kind
    BY <1>1, <2>1, <2>2, ComponentsTellApart
  <2>. QED
    BY <2>3 DEF EvenComponents
<1>2. Orderly
  BY <1>1 DEF Orderly
<1>. QED
  BY <1>2, PurgesNobodyElsesCorrect

\* Objects of one kind whose names and namespaces have as many pieces together are not cut differently.
EvenIds(S) ==
    /\ Ids \subseteq [kind : S, name : Seq(S), namespace : Seq(S)]
    /\ \A id, other \in Ids :
          Len(id.name) + Len(id.namespace) = Len(other.name) + Len(other.namespace)
             => Len(id.name) = Len(other.name)

\* A reconciliation builds, and remembers, what it was asked for and its inventory.
OwnBuilders(c) == DOMAIN run[c].want \cup {objectsInventory(c)}

VisitsOwn == \A c \in Components :
    /\ run[c].todo \subseteq OwnBuilders(c)
    /\ run[c].visited \subseteq {generateResourceIDForPurge(id) : id \in OwnBuilders(c)}

LEMMA VisitsOwnStep == ASSUME TypeOK, VisitsOwn, [Next]_vars PROVE VisitsOwn'
<1>1. CASE run' = run
  BY <1>1 DEF VisitsOwn, OwnBuilders
<1>2. ASSUME NEW c \in Components, NEW r, Set(c, r),
             r.todo \subseteq DOMAIN r.want \cup {objectsInventory(c)},
             r.visited \subseteq {generateResourceIDForPurge(id) : id \in DOMAIN r.want \cup {objectsInventory(c)}}
      PROVE  VisitsOwn'
  BY <1>2, SetOthers DEF VisitsOwn, OwnBuilders
<1>3. \A c \in Components : run[c] \in Run
  BY DEF TypeOK
<1>4. Idle.todo = {} /\ Idle.visited = {}
  BY DEF Idle
<1>5. ASSUME NEW c \in Components, Begin(c) PROVE VisitsOwn'
  <2> DEFINE r == [Idle EXCEPT !.at = IF UseInventory THEN "append" ELSE "build",
                               !.want = config[c], !.todo = DOMAIN config[c]]
  <2>1. Set(c, r)
    BY <1>5 DEF Begin
  <2>2. r.want = config[c] /\ r.todo = DOMAIN config[c] /\ r.visited = {}
    BY DEF Idle
  <2> HIDE DEF r
  <2>. QED
    BY <1>2, <2>1, <2>2
<1>6. ASSUME NEW c \in Components, Progress(c) \/ Failure(c) PROVE VisitsOwn'
  <2>1. \E r : /\ Set(c, r)
               /\ \/ r = Idle
                  \/ /\ r.want = run[c].want
                     /\ r.todo \subseteq run[c].todo \cup {objectsInventory(c)}
                     /\ \/ r.visited = run[c].visited
                        \/ \E id \in run[c].todo :
                              r.visited = run[c].visited \cup {generateResourceIDForPurge(id)}
    <3> DEFINE Good(r) == \/ r = Idle
                          \/ /\ r.want = run[c].want
                             /\ r.todo \subseteq run[c].todo \cup {objectsInventory(c)}
                             /\ \/ r.visited = run[c].visited
                                \/ \E id \in run[c].todo :
                                      r.visited = run[c].visited \cup {generateResourceIDForPurge(id)}
    <3>. SUFFICES \E r : Set(c, r) /\ Good(r)
      OBVIOUS
    <3>0. run[c] \in Run
      BY <1>3
    <3>1. ASSUME NEW deletable, InventoryAppendWith(c, deletable) PROVE \E r : Set(c, r) /\ Good(r)
      <4> DEFINE todo == IF PrepareDesiredObjects(run[c].want) = {} \/ c \in leaving THEN run[c].todo
                         ELSE run[c].todo \cup {objectsInventory(c)}
                 r == [run[c] EXCEPT !.at = "build", !.todo = todo]
      <4>1. Set(c, r)
        BY <3>0, <3>1 DEF InventoryAppendWith, Run
      <4>2. todo \subseteq run[c].todo \cup {objectsInventory(c)}
        OBVIOUS
      <4> HIDE DEF todo
      <4>3. Good(r)
        BY <3>0, <4>2 DEF Run
      <4>. QED
        BY <4>1, <4>3
    <3>2. CASE InventoryAppendFails(c)
      <4>1. Good([run[c] EXCEPT !.at = "build"])
        BY <3>0 DEF Run
      <4>2. Set(c, [run[c] EXCEPT !.at = "build"]) \/ Set(c, Idle)
        BY <3>2 DEF InventoryAppendFails
      <4>3. Good(Idle)
        OBVIOUS
      <4> DEFINE r == [run[c] EXCEPT !.at = "build"]
      <4>4. (Set(c, r) /\ Good(r)) \/ (Set(c, Idle) /\ Good(Idle))
        BY <4>1, <4>2, <4>3
      <4> HIDE DEF Good, r
      <4>. QED
        BY <4>4
    <3>3. CASE Build(c)
      <4> DEFINE r(id) == [run[c] EXCEPT !.todo = @ \ {id},
                                         !.visited = @ \cup {generateResourceIDForPurge(id)}]
      <4>1. PICK id \in run[c].todo : Set(c, r(id))
        BY <3>3 DEF Build, IsNext
      <4>2. Good(r(id))
        BY <3>0 DEF Run
      <4>. QED
        BY <4>1, <4>2
    <3>4. CASE BuildFails(c)
      <4> DEFINE r(id) == [run[c] EXCEPT !.todo = @ \ {id}, !.failed = TRUE]
      <4>1. PICK id \in run[c].todo : Set(c, r(id))
        BY <3>4 DEF BuildFails, IsNext
      <4>2. Good(r(id))
        BY <3>0 DEF Run
      <4>. QED
        BY <4>1, <4>2
    <3>5. ASSUME NEW at, NEW types, NEW doomed
          PROVE  /\ Good([run[c] EXCEPT !.at = at, !.types = types])
                 /\ Good([run[c] EXCEPT !.types = types])
                 /\ Good([run[c] EXCEPT !.types = types, !.doomed = doomed])
                 /\ Good([run[c] EXCEPT !.doomed = doomed])
                 /\ Good(Idle)
      BY <3>0 DEF Run
    <3> HIDE DEF Good
    <3>6. CASE StartPurge(c)
      <4> DEFINE r == [run[c] EXCEPT !.at = "purge",
                          !.types = IF UseInventory THEN TypesToPurge(toDelete[c]) ELSE StaticTypes]
      <4>1. (Set(c, r) /\ Good(r)) \/ (Set(c, Idle) /\ Good(Idle))
        BY <3>5, <3>6 DEF StartPurge
      <4> HIDE DEF r
      <4>. QED
        BY <4>1
    <3>7. CASE List(c)
      <4> DEFINE r(kind) == [run[c] EXCEPT !.types = @ \ {kind},
                                !.doomed = @ \cup {id \in Unvisited(c) : id.kind = kind}]
      <4>1. PICK kind : Set(c, r(kind))
        BY <3>7 DEF List
      <4>2. Good(r(kind))
        BY <3>5
      <4> HIDE DEF r
      <4>. QED
        BY <4>1, <4>2
    <3>8. CASE ListFails(c)
      <4> DEFINE r(kind) == [run[c] EXCEPT !.types = @ \ {kind}]
      <4>1. PICK kind : Set(c, r(kind))
        BY <3>8 DEF ListFails
      <4>2. Good(r(kind))
        BY <3>5
      <4> HIDE DEF r
      <4>. QED
        BY <4>1, <4>2
    <3>9. CASE Purge(c) \/ PurgeFails(c)
      <4> DEFINE r(id) == [run[c] EXCEPT !.doomed = @ \ {id}]
      <4>1. PICK id : Set(c, r(id))
        BY <3>9 DEF Purge, PurgeFails
      <4>2. Good(r(id))
        BY <3>5
      <4> HIDE DEF r
      <4>. QED
        BY <4>1, <4>2
    <3>10. CASE Finish(c)
      BY <3>5, <3>10 DEF Finish
    <3>. QED
      BY <1>6, <3>1, <3>2, <3>3, <3>4, <3>6, <3>7, <3>8, <3>9, <3>10
         DEF Progress, Failure, InventoryAppend, InventoryAppendSkips
  <2>2. PICK r : /\ Set(c, r)
                 /\ \/ r = Idle
                    \/ /\ r.want = run[c].want
                       /\ r.todo \subseteq run[c].todo \cup {objectsInventory(c)}
                       /\ \/ r.visited = run[c].visited
                          \/ \E id \in run[c].todo :
                                r.visited = run[c].visited \cup {generateResourceIDForPurge(id)}
    BY <2>1
  <2>. QED
    BY <1>2, <1>4, <2>2 DEF VisitsOwn, OwnBuilders
<1>7. CASE Crash
  BY <1>4, <1>7 DEF Crash, VisitsOwn, OwnBuilders
<1>. QED
  BY <1>1, <1>5, <1>6, <1>7 DEF Next, vars, External, ChangeConfig, Leave, FinishDelete, CacheSync

\* When a type has been listed, every object of it that is the component's own and was not asked for is
\* going to be deleted.
ListsAll == [][\A c \in Components, id \in Objects :
    List(c) /\ Exists(id) /\ cluster[id].owner = c /\ id.kind \in run[c].types \ run'[c].types
       => id \in DOMAIN run[c].want \cup run'[c].doomed]_vars

\* With names that are not cut differently no visited object hides another from the purge
\* (generateResourceIDForPurge, purge).
THEOREM ListsAllCorrect == ASSUME NEW S, EvenIds(S) PROVE Spec => ListsAll
<1>1. Init => VisitsOwn
  BY DEF Init, VisitsOwn, Idle
<1>2. TypeOK /\ VisitsOwn /\ [Next]_vars => VisitsOwn'
  BY VisitsOwnStep
<1>3. ASSUME TypeOK, VisitsOwn, NEW c \in Components, NEW id \in Objects, List(c), Exists(id),
             cluster[id].owner = c, id.kind \in run[c].types \ run'[c].types
      PROVE  id \in DOMAIN run[c].want \cup run'[c].doomed
  <2>0. run[c] \in Run /\ id \in Ids
    BY <1>3 DEF TypeOK, Ids
  <2>1. PICK kind \in run[c].types :
           Set(c, [run[c] EXCEPT !.types = @ \ {kind},
                                 !.doomed = @ \cup {i \in Unvisited(c) : i.kind = kind}])
    BY <1>3 DEF List
  <2> DEFINE new == {i \in Unvisited(c) : i.kind = kind}
             r == [run[c] EXCEPT !.types = @ \ {kind}, !.doomed = @ \cup new]
  <2>2. Set(c, r)
    BY <2>1
  <2>3. id \in Unvisited(c) => id \in new \/ id.kind # kind
    OBVIOUS
  <2> HIDE DEF new
  <2>4. run'[c].types = run[c].types \ {kind} /\ run'[c].doomed = run[c].doomed \cup new
    <3>1. r.types = run[c].types \ {kind} /\ r.doomed = run[c].doomed \cup new
      BY <2>0 DEF Run
    <3>2. run'[c] = r
      <4> HIDE DEF r
      <4>. QED
        BY <1>3, <2>2, SetOthers
    <3> HIDE DEF r
    <3>. QED
      BY <3>1, <3>2
  <2>5. CASE id \in Unvisited(c)
    BY <1>3, <2>3, <2>4, <2>5
  <2>6. CASE id \notin Unvisited(c)
    <3>1. id \in ManagedBy(c)
      BY <1>3, <2>0, OwnerAssumption DEF ManagedBy
    <3>2. generateResourceIDForPurge(id) \in run[c].visited
      BY <2>6, <3>1 DEF Unvisited
    <3>3. PICK other \in OwnBuilders(c) : generateResourceIDForPurge(id) = generateResourceIDForPurge(other)
      BY <1>3, <3>2 DEF VisitsOwn
    <3>4. other \in Ids
      <4>1. DOMAIN run[c].want \subseteq Objects
        BY <2>0, WantDomain DEF Run
      <4>. QED
        BY <4>1 DEF OwnBuilders, Ids, Inventories
    <3>5. id = other
      <4>1. /\ id \in [kind : S, name : Seq(S), namespace : Seq(S)]
            /\ other \in [kind : S, name : Seq(S), namespace : Seq(S)]
            /\ Len(id.name) + Len(id.namespace) = Len(other.name) + Len(other.namespace)
                  => Len(id.name) = Len(other.name)
        BY <2>0, <3>4 DEF EvenIds
      <4>. QED
        BY <3>3, <4>1, IdsTellApart
    <3>6. id # objectsInventory(c)
      BY ObjectsAssumption DEF Inventories
    <3>. QED
      BY <3>3, <3>5, <3>6 DEF OwnBuilders
  <2>. QED
    BY <2>5, <2>6
<1>4. TypeOK /\ VisitsOwn =>
        [\A c \in Components, id \in Objects :
            List(c) /\ Exists(id) /\ cluster[id].owner = c /\ id.kind \in run[c].types \ run'[c].types
               => id \in DOMAIN run[c].want \cup run'[c].doomed]_vars
  BY <1>3
<1>. QED
  BY <1>1, <1>2, <1>4, TypeCorrect, PTL DEF Spec, ListsAll

-----------------------------------------------------------------------------
(* A reconciliation comes to an end. *)

\* How far a reconciliation has come.
Phase(r) == CASE r.at = "append" -> 3
              [] r.at = "build" -> 2
              [] r.at = "purge" -> 1
              [] OTHER -> 0

\* What is left of the phase: builders, types to list, and then objects to delete.
Shorter(r, old) ==
    \/ Phase(r) < Phase(old)
    \/ Phase(r) = Phase(old) /\ r.todo \subseteq old.todo /\ r.todo # old.todo
    \/ /\ Phase(r) = Phase(old) /\ r.todo = old.todo
       /\ r.types \subseteq old.types /\ r.types # old.types
    \/ /\ Phase(r) = Phase(old) /\ r.todo = old.todo /\ r.types = old.types
       /\ r.doomed \subseteq old.doomed /\ r.doomed # old.doomed

Closer(c) == Shorter(run'[c], run[c])

\* Whatever puts such a reconciliation in its place brings it closer to its end.
LEMMA SetCloser ==
  ASSUME TypeOK, NEW c \in Components, NEW r, Set(c, r), Shorter(r, run[c])
  PROVE  Closer(c)
  BY SetOthers DEF Closer

LEMMA IdleShorter ==
  ASSUME TypeOK, NEW c \in Components, run[c].at # "idle"
  PROVE  Shorter(Idle, run[c])
  BY DEF TypeOK, Run, Idle, Shorter, Phase

LEMMA StepCloser ==
  ASSUME TypeOK, NEW c \in Components, Progress(c) \/ Failure(c)
  PROVE  Closer(c)
<1>0. run[c] \in Run
  BY DEF TypeOK
<1>1. ASSUME NEW deletable, InventoryAppendWith(c, deletable) PROVE Closer(c)
  <2> DEFINE todo == IF PrepareDesiredObjects(run[c].want) = {} \/ c \in leaving THEN run[c].todo
                     ELSE run[c].todo \cup {objectsInventory(c)}
  <2>1. Set(c, [run[c] EXCEPT !.at = "build", !.todo = todo]) /\ run[c].at = "append"
    BY <1>0, <1>1 DEF InventoryAppendWith, Run
  <2> HIDE DEF todo
  <2>2. Shorter([run[c] EXCEPT !.at = "build", !.todo = todo], run[c])
    BY <1>0, <2>1 DEF Run, Shorter, Phase
  <2>. QED
    BY <2>1, <2>2, SetCloser
<1>2. CASE InventoryAppendFails(c)
  <2>1. run[c].at = "append" /\ (Set(c, [run[c] EXCEPT !.at = "build"]) \/ Set(c, Idle))
    BY <1>2 DEF InventoryAppendFails
  <2>2. Shorter([run[c] EXCEPT !.at = "build"], run[c])
    BY <1>0, <2>1 DEF Run, Shorter, Phase
  <2>. QED
    BY <2>1, <2>2, SetCloser, IdleShorter
<1>3. CASE Build(c)
  <2> DEFINE r(id) == [run[c] EXCEPT !.todo = @ \ {id},
                                     !.visited = @ \cup {generateResourceIDForPurge(id)}]
  <2>1. PICK id \in run[c].todo : Set(c, r(id))
    BY <1>3 DEF Build, IsNext
  <2>2. Shorter(r(id), run[c])
    BY <1>0, <2>1 DEF Run, Shorter, Phase
  <2>. QED
    BY <2>1, <2>2, SetCloser
<1>4. CASE BuildFails(c)
  <2>1. PICK id \in run[c].todo : Set(c, [run[c] EXCEPT !.todo = @ \ {id}, !.failed = TRUE])
    BY <1>4 DEF BuildFails, IsNext
  <2>2. Shorter([run[c] EXCEPT !.todo = @ \ {id}, !.failed = TRUE], run[c])
    BY <1>0, <2>1 DEF Run, Shorter, Phase
  <2>. QED
    BY <2>1, <2>2, SetCloser
<1>5. CASE StartPurge(c)
  <2> DEFINE types == IF UseInventory THEN TypesToPurge(toDelete[c]) ELSE StaticTypes
  <2>1. run[c].at = "build" /\ (Set(c, [run[c] EXCEPT !.at = "purge", !.types = types]) \/ Set(c, Idle))
    BY <1>5 DEF StartPurge
  <2> HIDE DEF types
  <2>2. Shorter([run[c] EXCEPT !.at = "purge", !.types = types], run[c])
    BY <1>0, <2>1 DEF Run, Shorter, Phase
  <2>. QED
    BY <2>1, <2>2, SetCloser, IdleShorter
<1>6. CASE List(c)
  <2> DEFINE new(kind) == {id \in Unvisited(c) : id.kind = kind}
             r(kind) == [run[c] EXCEPT !.types = @ \ {kind}, !.doomed = @ \cup new(kind)]
  <2>1. PICK kind \in run[c].types : Set(c, r(kind))
    BY <1>6 DEF List
  <2> HIDE DEF new
  <2>2. Shorter(r(kind), run[c])
    BY <1>0, <2>1 DEF Run, Shorter, Phase
  <2>. QED
    BY <2>1, <2>2, SetCloser
<1>7. CASE ListFails(c)
  <2>1. PICK kind \in run[c].types : Set(c, [run[c] EXCEPT !.types = @ \ {kind}])
    BY <1>7 DEF ListFails
  <2>2. Shorter([run[c] EXCEPT !.types = @ \ {kind}], run[c])
    BY <1>0, <2>1 DEF Run, Shorter, Phase
  <2>. QED
    BY <2>1, <2>2, SetCloser
<1>8. CASE Purge(c) \/ PurgeFails(c)
  <2>1. PICK id \in run[c].doomed : Set(c, [run[c] EXCEPT !.doomed = @ \ {id}])
    BY <1>8 DEF Purge, PurgeFails, Purges
  <2>2. Shorter([run[c] EXCEPT !.doomed = @ \ {id}], run[c])
    BY <1>0, <2>1 DEF Run, Shorter, Phase
  <2>. QED
    BY <2>1, <2>2, SetCloser
<1>9. CASE Finish(c)
  BY <1>9, SetCloser, IdleShorter DEF Finish
<1>. QED
  BY <1>1, <1>2, <1>3, <1>4, <1>5, <1>6, <1>7, <1>8, <1>9
     DEF Progress, Failure, InventoryAppend, InventoryAppendSkips

\* Every step of a reconciliation, also one that fails, strikes a builder, a type or an object off its
\* lists or leads to a later phase: no builder runs twice and nothing is deleted twice in one
\* reconciliation, and it ends when the lists are finite, whatever the other components and users do
\* (NativeReconciler.Reconcile, purge).
THEOREM ReconcilesRunOut ==
    Spec => [][\A c \in Components : Progress(c) \/ Failure(c) => Closer(c)]_vars
<1>1. TypeOK => [\A c \in Components : Progress(c) \/ Failure(c) => Closer(c)]_vars
  BY StepCloser
<1>. QED
  BY <1>1, TypeCorrect, PTL
=============================================================================
