-------------------------- MODULE KubernetesProofs --------------------------
(***************************************************************************)
(* Proof, for every value of the constants, that kubernetes has the live   *)
(* volumes of the database whenever no request is in progress, however     *)
(* requests overlap, under the conditions of Orderly.                      *)
(***************************************************************************)
EXTENDS Kubernetes, AccountProofs

-----------------------------------------------------------------------------
(* What Orderly rules out.                                                 *)

LEMMA OrderlyOp ==
  ASSUME Orderly, IInv, EffectInv, NEW r \in Requests, pc[r] \in ActiveSteps
  PROVE  /\ call[r] \in Calls /\ call[r].op \in Ops /\ pc[r] \in Route(call[r].op)
         /\ call[r].op \notin {"import", "deleteUser", "deleteNs"}
         /\ call[r].op = "updateStorage" => NewName(call[r]) = call[r].storage
  BY CallFields DEF Orderly, IInv, LocalsFit, LocalFit, EffectInv, RoutesFit, RouteFit,
     ActiveSteps, OutsideSteps, InsideSteps

(* Storages keep their names.                                              *)
LEMMA NamesStay ==
  ASSUME Orderly, IInv, EffectInv, NEW r \in Requests, Step(r), NEW k \in RowId, storages[k] # NoRow
  PROVE  storages'[k] # NoRow /\ storages'[k].name = storages[k].name
  <1>1. RequestsTypeOK /\ StorageVersionsFit
    BY DEF IInv, TypeOK, EffectInv
  <1>2. CASE UNCHANGED storages
    BY <1>2
  <1>3. CASE Commits(r) /\ dirtyStorage[k].tx # r
    BY <1>3 DEF Commits, CommitTx, StoragesSeen, View
  <1>4. CASE Commits(r) /\ dirtyStorage[k].tx = r
    <2>1. StorageEffect(r, call[r], k, storages[k], dirtyStorage[k].row) /\ dirtyStorage[k].row # NoRow
      BY <1>1, <1>4, IdsDistinct DEF StorageVersionsFit
    <2>2. storages'[k] = dirtyStorage[k].row
      BY <1>4 DEF Commits, CommitTx, StoragesSeen, View
    <2>3. call[r].op = "updateStorage" => NewName(call[r]) = call[r].storage
      BY <1>4, OrderlyOp DEF Commits, ActiveSteps, InsideSteps
    <2> QED BY <2>1, <2>2, <2>3 DEF StorageEffect
  <1> QED BY <1>1, <1>2, <1>3, <1>4, OnlyCommitsShow

LEMMA NamedStays ==
  ASSUME Orderly, IInv, EffectInv, NEW r \in Requests, Step(r), NEW name, StoragesNamed(storages, name) # {}
  PROVE  StoragesNamed(storages', name) # {}
  <1>1. PICK k \in RowId : storages[k] # NoRow /\ storages[k].name = name
    BY DEF StoragesNamed
  <1>2. storages'[k] # NoRow /\ storages'[k].name = name
    BY <1>1, NamesStay
  <1> QED BY <1>2 DEF StoragesNamed

(* No rename reaches a volume.                                             *)
LEMMA RewriteKeepsVolumes ==
  ASSUME Orderly, IInv, EffectInv, NEW r \in Requests, RewritesStorage(r)
  PROVE  dirtyVolume' = dirtyVolume
  <1>1. StoreTypeOK
    BY DEF IInv, TypeOK
  <1>2. call[r].op = "updateStorage" /\ NewName(call[r]) = call[r].storage
    BY OrderlyOp, OnRoute DEF RewritesStorage, ActiveSteps, InsideSteps
  <1>3. loc[r].storage = call[r].storage
    BY <1>2 DEF EffectInv, Told, LocalsTold, RewritesStorage
  <1>4. Cascade(r, call[r].storage, loc[r].storage) = {}
    BY <1>3 DEF Cascade
  <1>5. dirtyVolume' = [i \in RowId |-> dirtyVolume[i]]
    BY <1>4 DEF RewritesStorage, RewriteStorageRow, Written
  <1> QED BY <1>1, <1>5 DEF StoreTypeOK

(* The commit of a transaction finds its references.                       *)
LEMMA ReferencesFound ==
  ASSUME KubeInv, IInv, EffectInv, NEW r \in Requests, pc[r] = "commit"
  PROVE  ReferencesExist(r)
  <1> SUFFICES ASSUME NEW i \in RowId, dirtyVolume[i].tx = r
               PROVE  StoragesNamed(StoragesSeen(r), dirtyVolume[i].row.storage) # {}
    BY DEF ReferencesExist, NewReferences
  <1>1. PICK k \in RowId : storages[k] # NoRow /\ storages[k].name = dirtyVolume[i].row.storage
    BY IdsDistinct DEF KubeInv, StoragesNamed
  <1>2. dirtyStorage[k].tx = r => dirtyStorage[k].row # NoRow /\ dirtyStorage[k].row.name = storages[k].name
    <2> SUFFICES ASSUME dirtyStorage[k].tx = r
                 PROVE  dirtyStorage[k].row # NoRow /\ dirtyStorage[k].row.name = storages[k].name
      OBVIOUS
    <2>1. StorageEffect(r, call[r], k, storages[k], dirtyStorage[k].row) /\ dirtyStorage[k].row # NoRow
      BY IdsDistinct DEF EffectInv, StorageVersionsFit
    <2>2. call[r].op = "updateStorage" => NewName(call[r]) = call[r].storage
      BY OrderlyOp DEF KubeInv, ActiveSteps, InsideSteps
    <2> QED BY <1>1, <2>1, <2>2 DEF StorageEffect
  <1> QED BY <1>1, <1>2 DEF StoragesNamed, StoragesSeen, View

-----------------------------------------------------------------------------
(* The steps around the call to kubernetes.                                *)

KubeSteps == {"kubeCreate", "kubeDelete", "kubeUpdate"}

(* The call is carried out and answered.                                   *)
KubeTold(r) ==
  /\ pc[r] \in KubeSteps
  /\ kube' = [kube EXCEPT ![RequestKey(r)] = IF pc[r] = "kubeDelete" THEN NoRow ELSE loc[r].capacity]
  /\ pc[r] = "kubeCreate" <=> kube[RequestKey(r)] = NoRow
  /\ pc'[r] = IF pc[r] = "kubeDelete" THEN "unsubscribe" ELSE "commit"
  /\ UNCHANGED storeVars

KubeRefused(r) == pc[r] \in KubeSteps /\ UNCHANGED kube /\ Refuse(r, "kube")

LEMMA KubeCalled ==
  ASSUME Orderly, RequestsTypeOK, NEW r \in Requests, NEW key, NEW accepted \in BOOLEAN, NEW capacity, NEW next,
         CallKube(r, key, accepted, capacity, next)
  PROVE  \/ UNCHANGED kube /\ Refuse(r, "kube")
         \/ accepted /\ kube' = [kube EXCEPT ![key] = capacity] /\ pc'[r] = next /\ UNCHANGED storeVars
  <1>1. PICK o \in Outcomes("kube", accepted) :
          /\ IF o.done THEN KubePut(key, capacity) ELSE UNCHANGED kube
          /\ (o.ok /\ Go(r, next) /\ UNCHANGED storeVars) \/ (~o.ok /\ Refuse(r, "kube"))
    BY DEF CallKube
  <1>2. o.done <=> o.ok
    BY DEF Outcomes, Orderly
  <1>3. o.done => accepted
    BY DEF Outcomes
  <1> QED BY <1>1, <1>2, <1>3 DEF KubePut, Go, RequestsTypeOK

LEMMA AroundKube ==
  ASSUME Orderly, RequestsTypeOK, NEW r \in Requests, Step(r)
  PROVE  /\ KubeTold(r) \/ KubeRefused(r) \/ (UNCHANGED kube /\ pc[r] \notin KubeSteps)
         /\ pc[r] = "unsubscribe" => UNCHANGED storeVars /\ pc'[r] = "commit"
         /\ pc[r] = "unsubscribeAll" => UnsubscribeAll(r)
         /\ pc[r] = "commit" => Commit(r)
  <1> USE DEF KubeSteps
  <1>1. CASE FetchTariff(r) BY <1>1 DEF FetchTariff, serviceVars
  <1>2. CASE PickStorage(r) BY <1>2 DEF PickStorage, serviceVars
  <1>3. CASE Subscribe(r) BY <1>3 DEF Subscribe
  <1>4. CASE Begin(r) BY <1>4 DEF Begin, serviceVars
  <1>5. CASE CountLabel(r) BY <1>5 DEF CountLabel, serviceVars
  <1>6. CASE ReserveSpace(r) BY <1>6 DEF ReserveSpace, serviceVars
  <1>7. CASE InsertVolume(r) BY <1>7 DEF InsertVolume, serviceVars
  <1>8. CASE CreateInKube(r)
    <2>1. PICK o \in Outcomes("kube", kube[RequestKey(r)] = NoRow) :
            /\ IF o.done THEN KubePut(RequestKey(r), loc[r].capacity) ELSE UNCHANGED kube
            /\ (o.ok /\ Go(r, "commit") /\ UNCHANGED storeVars) \/ (~o.ok /\ Refuse(r, "kube"))
      BY <1>8 DEF CreateInKube, CallKube
    <2>2. (o.done <=> o.ok) /\ (o.done => kube[RequestKey(r)] = NoRow)
      <3>1. o \in {[done |-> kube[RequestKey(r)] = NoRow, ok |-> kube[RequestKey(r)] = NoRow],
                   [done |-> FALSE, ok |-> FALSE]}
        BY <2>1 DEF Outcomes, Orderly
      <3>2. CASE o = [done |-> kube[RequestKey(r)] = NoRow, ok |-> kube[RequestKey(r)] = NoRow]
        BY <3>2
      <3>3. CASE o = [done |-> FALSE, ok |-> FALSE]
        BY <3>3
      <3> QED BY <3>1, <3>2, <3>3
    <2>3. \/ UNCHANGED kube /\ Refuse(r, "kube")
          \/ /\ kube[RequestKey(r)] = NoRow /\ kube' = [kube EXCEPT ![RequestKey(r)] = loc[r].capacity]
             /\ pc'[r] = "commit" /\ UNCHANGED storeVars
      BY <2>1, <2>2 DEF KubePut, Go, RequestsTypeOK
    <2> QED BY <1>8, <2>3 DEF CreateInKube, KubeTold, KubeRefused
  <1>9. CASE SelectVolume(r) BY <1>9 DEF SelectVolume, serviceVars
  <1>10. CASE ReleaseSpace(r) BY <1>10 DEF ReleaseSpace, serviceVars
  <1>11. CASE MarkDeleted(r) BY <1>11 DEF MarkDeleted, serviceVars
  <1>12. CASE DeleteFromKube(r) BY <1>12, KubeCalled DEF DeleteFromKube, KubeTold, KubeRefused
  <1>13. CASE Unsubscribe(r)
    <2>1. \A o \in Outcomes("billing", TRUE) : o.ok
      BY DEF Outcomes, Orderly
    <2>2. loc[r].vols \subseteq subs \/ "unknown" \notin Faults
      BY DEF Orderly
    <2> QED BY <1>13, <2>1, <2>2 DEF Unsubscribe, CallUnsubscribe, Go, RequestsTypeOK
  <1>14. CASE ReadOldCapacity(r) BY <1>14 DEF ReadOldCapacity, serviceVars
  <1>15. CASE CheckFit(r) BY <1>15 DEF CheckFit, serviceVars
  <1>16. CASE Recharge(r) BY <1>16 DEF Recharge, serviceVars
  <1>17. CASE SetCapacity(r) BY <1>17 DEF SetCapacity, serviceVars
  <1>18. CASE UpdateInKube(r)
    <2>1. PICK o \in Outcomes("kube", kube[RequestKey(r)] # NoRow) :
            /\ IF o.done THEN KubePut(RequestKey(r), loc[r].capacity) ELSE UNCHANGED kube
            /\ (o.ok /\ Go(r, "commit") /\ UNCHANGED storeVars) \/ (~o.ok /\ Refuse(r, "kube"))
      BY <1>18 DEF UpdateInKube, CallKube
    <2>2. (o.done <=> o.ok) /\ (o.done => kube[RequestKey(r)] # NoRow)
      <3>1. o \in {[done |-> kube[RequestKey(r)] # NoRow, ok |-> kube[RequestKey(r)] # NoRow],
                   [done |-> FALSE, ok |-> FALSE]}
        BY <2>1 DEF Outcomes, Orderly
      <3>2. CASE o = [done |-> kube[RequestKey(r)] # NoRow, ok |-> kube[RequestKey(r)] # NoRow]
        BY <3>2
      <3>3. CASE o = [done |-> FALSE, ok |-> FALSE]
        BY <3>3
      <3> QED BY <3>1, <3>2, <3>3
    <2>3. \/ UNCHANGED kube /\ Refuse(r, "kube")
          \/ /\ kube[RequestKey(r)] # NoRow /\ kube' = [kube EXCEPT ![RequestKey(r)] = loc[r].capacity]
             /\ pc'[r] = "commit" /\ UNCHANGED storeVars
      BY <2>1, <2>2 DEF KubePut, Go, RequestsTypeOK
    <2> QED BY <1>18, <2>3 DEF UpdateInKube, KubeTold, KubeRefused
  <1>19. CASE ListVolumes(r) BY <1>19 DEF ListVolumes, serviceVars
  <1>20. CASE ListFails(r) BY <1>20 DEF ListFails, serviceVars
  <1>21. CASE MarkAllDeleted(r) BY <1>21 DEF MarkAllDeleted, serviceVars
  <1>22. CASE UnsubscribeAll(r) BY <1>22 DEF UnsubscribeAll, CallUnsubscribe
  <1>23. CASE CountName(r) BY <1>23 DEF CountName, serviceVars
  <1>24. CASE ResetStorage(r) BY <1>24 DEF ResetStorage, serviceVars
  <1>25. CASE CountNameAgain(r) BY <1>25 DEF CountNameAgain, serviceVars
  <1>26. CASE InsertStorage(r) BY <1>26 DEF InsertStorage, serviceVars
  <1>27. CASE FindStorage(r) BY <1>27 DEF FindStorage, serviceVars
  <1>28. CASE CountNewName(r) BY <1>28 DEF CountNewName, serviceVars
  <1>29. CASE WriteStorage(r) BY <1>29 DEF WriteStorage, serviceVars
  <1>30. CASE CountVolumes(r) BY <1>30 DEF CountVolumes, serviceVars
  <1>31. CASE DropStorage(r) BY <1>31 DEF DropStorage, serviceVars
  <1>32. CASE Commit(r) BY <1>32 DEF Commit, serviceVars
  <1>33. CASE DbError(r) BY <1>33 DEF DbError, Orderly
  <1>34. CASE PoolTimeout(r) BY <1>34 DEF PoolTimeout, serviceVars
  <1> QED
    BY <1>1, <1>2, <1>3, <1>4, <1>5, <1>6, <1>7, <1>8, <1>9, <1>10, <1>11, <1>12, <1>13, <1>14,
       <1>15, <1>16, <1>17, <1>18, <1>19, <1>20, <1>21, <1>22, <1>23, <1>24, <1>25, <1>26, <1>27, <1>28,
       <1>29, <1>30, <1>31, <1>32, <1>33, <1>34 DEF Step

LEMMA StepInProgress ==
  ASSUME RequestsTypeOK, NEW r \in Requests, Step(r)
  PROVE  pc[r] \in ActiveSteps /\ call' = call
  <1>1. pc[r] \in ActiveSteps
    BY StepPlan DEF Reads, Refused, Commits, Charges, InsertsVolume, Marks, Resizes, Resets, InsertsStorage,
       RewritesStorage, Drops, ActiveSteps, OutsideSteps, InsideSteps
  <1> QED BY <1>1, StepShape DEF OwnLocals

-----------------------------------------------------------------------------
(* Settled rows: only the call to kubernetes changes them.                 *)

(* A request that has written nothing before writes for its call.          *)
LEMMA WritesForCall ==
  ASSUME Orderly, IInv, EffectInv, NEW r \in Requests, Step(r), pc[r] \notin WroteSteps,
         NEW i \in RowId, dirtyVolume'[i] # dirtyVolume[i]
  PROVE  pc'[r] \in KubeSteps
  <1>1. /\ RequestsTypeOK /\ StoreTypeOK /\ DirtyFits
        /\ pc[r] \in ActiveSteps
    BY StepInProgress DEF IInv, TypeOK
  <1>2. call[r].op \notin {"import", "deleteUser", "deleteNs"} /\ call[r].op \in Ops /\ pc[r] \in Route(call[r].op)
    BY <1>1, OrderlyOp
  <1>3. \A step : Go(r, step) => pc'[r] = step
    BY <1>1 DEF Go, RequestsTypeOK
  <1>4. dirtyVolume[i].tx # r
    BY <1>1, NothingWritten
  <1>5. CASE Reads(r)
    BY <1>5 DEF Reads
  <1>6. CASE Refused(r)
    BY <1>4, <1>6 DEF Refused, Refuse, RollbackTx, Released
  <1>7. CASE Commits(r)
    BY <1>7 DEF Commits, WroteSteps
  <1>8. CASE Charges(r) \/ Resets(r) \/ InsertsStorage(r) \/ Drops(r)
    BY <1>8 DEF Charges, Resets, InsertsStorage, Drops, AddUsed, ResetStorageRow, InsertStorageRow, DropStorageRow
  <1>9. CASE RewritesStorage(r)
    BY <1>9, RewriteKeepsVolumes
  <1>10. CASE InsertsVolume(r)
    BY <1>2, <1>3, <1>10 DEF InsertsVolume, KubeSteps
  <1>11. CASE Marks(r)
    <2>1. pc[r] = "mark"
      BY <1>2, <1>11, OnRoute DEF Marks, DeleteAlls
    <2> QED BY <1>3, <1>11, <2>1 DEF Marks, KubeSteps
  <1>12. CASE Resizes(r)
    BY <1>3, <1>12 DEF Resizes, KubeSteps
  <1> QED BY <1>1, <1>5, <1>6, <1>7, <1>8, <1>9, <1>10, <1>11, <1>12, StepPlan

LEMMA SettledStays ==
  ASSUME KubeInv, IInv, EffectInv, NEW r \in Requests, Step(r), ~KubeTold(r), NEW i \in RowId
  PROVE  Settled(i)' = Settled(i)
  <1> DEFINE t == dirtyVolume[i].tx
  <1>1. /\ Orderly /\ TypeOK /\ RequestsTypeOK /\ StoreTypeOK /\ DirtyFits /\ RowsFresh /\ LocalFit(r)
        /\ pc[r] \in ActiveSteps
    BY StepInProgress DEF IInv, TypeOK, LocalsFit, KubeInv
  <1>2. RowOutcome(r, i)
    BY <1>1, StepRowOutcome
  <1>3. t \in Requests \cup {NoTx} /\ NoTx \notin Requests
    BY <1>1, IdsDistinct DEF StoreTypeOK
  <1>4. \A q \in Requests : q # r => pc'[q] = pc[q]
    BY <1>1, OthersStay
  <1>5. Clean.tx = NoTx
    BY DEF Clean
  <1>6. CASE t \notin {r, NoTx}
    BY <1>2, <1>3, <1>4, <1>6 DEF RowOutcome, Settled
  <1>7. CASE t = NoTx
    <2>1. volumes'[i] = volumes[i]
      BY <1>2, <1>3, <1>7 DEF RowOutcome
    <2>2. CASE dirtyVolume'[i] = dirtyVolume[i]
      BY <1>7, <2>1, <2>2 DEF Settled
    <2>3. CASE dirtyVolume'[i] # dirtyVolume[i]
      <3>1. dirtyVolume'[i].tx = r /\ pc[r] \notin WroteSteps
        BY <1>2, <1>3, <1>7, <2>3 DEF RowOutcome, WroteSteps
      <3>2. pc'[r] \in KubeSteps
        BY <1>1, <2>3, <3>1, WritesForCall
      <3> QED BY <1>7, <2>1, <3>1, <3>2 DEF Settled, KubeSteps
    <2> QED BY <2>2, <2>3
  <1>8. CASE t = r
    <2>1. pc[r] \in WroteSteps
      BY <1>1, <1>3, <1>8 DEF DirtyFits
    <2>2. KubeRefused(r) \/ pc[r] \notin KubeSteps
      BY <1>1, AroundKube
    <2>3. CASE KubeRefused(r)
      <3>1. pc[r] \notin {"unsubscribe", "commit"}
        BY <2>3 DEF KubeRefused, KubeSteps
      <3>2. volumes'[i] = volumes[i] /\ dirtyVolume'[i] = Clean
        BY <1>8, <2>3 DEF KubeRefused, Refuse, RollbackTx, Released
      <3> QED BY <1>3, <1>5, <1>8, <3>1, <3>2 DEF Settled
    <2>4. CASE pc[r] = "unsubscribe"
      <3>1. UNCHANGED storeVars /\ pc'[r] = "commit"
        BY <1>1, <2>4, AroundKube
      <3> QED BY <1>3, <1>8, <2>4, <3>1 DEF Settled, storeVars
    <2>5. CASE pc[r] = "commit"
      <3>1. Commit(r) /\ ReferencesExist(r)
        BY <1>1, <2>5, AroundKube, ReferencesFound
      <3>2. CommitTx(r)
        BY <3>1 DEF Commit
      <3>3. volumes'[i] = dirtyVolume[i].row /\ dirtyVolume'[i] = Clean
        BY <1>8, <3>2 DEF CommitTx, VolumesSeen, View, Released
      <3> QED BY <1>3, <1>5, <1>8, <2>5, <3>3 DEF Settled
    <2>6. pc[r] # "unsubscribeAll"
      <3>1. call[r].op \notin DeleteAlls /\ call[r].op \in Ops /\ pc[r] \in Route(call[r].op)
        BY <1>1, OrderlyOp DEF DeleteAlls
      <3> QED BY <3>1, OnRoute
    <2> QED BY <2>1, <2>2, <2>3, <2>4, <2>5, <2>6 DEF WroteSteps, KubeSteps
  <1> QED BY <1>6, <1>7, <1>8

(* The one row a request has written when it calls kubernetes, before and  *)
(* after the call.                                                         *)
TellsRow(r, o) ==
  LET v == volumes[o]
      w == dirtyVolume[o].row
  IN  /\ \A i \in RowId : dirtyVolume[i].tx = r <=> i = o
      /\ Live(v) => Key(v) = RequestKey(r)
      /\ Key(w) = RequestKey(r)
      /\ IF pc[r] = "kubeDelete" THEN ~Live(w) ELSE Live(w) /\ w.capacity = loc[r].capacity
      /\ \A j \in RowId : j # o /\ Live(Settled(j)) => Key(Settled(j)) # RequestKey(r)

LEMMA RowTold ==
  ASSUME KubeInv, IInv, EffectInv, NEW r \in Requests, Step(r), KubeTold(r)
  PROVE  \E o \in RowId : TellsRow(r, o)
  <1>1. /\ Orderly /\ TypeOK /\ RequestsTypeOK /\ StoreTypeOK /\ DirtyFits /\ UniqueVersions
        /\ VolumeVersionsFit /\ Wrote(r) /\ LocalsTold(r)
        /\ HoldsLabel(r) /\ TellsCapacity(r) /\ KubeMatches
        /\ pc[r] \in KubeSteps /\ r \in RowId
    BY DEF IInv, TypeOK, KubeInv, EffectInv, WritesDone, Told, KubeTold, KubeSteps, RowId
  <1>2. call[r].op \in Ops /\ pc[r] \in Route(call[r].op)
    <2>1. pc[r] \in ActiveSteps
      BY <1>1, StepInProgress
    <2> QED BY <1>1, <2>1, OrderlyOp
  <1>3. \A j \in RowId : Settled(j) \in {volumes[j], dirtyVolume[j].row}
    BY DEF Settled
  <1>4. ASSUME NEW i \in RowId, dirtyVolume[i].tx = r
        PROVE  VolumeEffect(r, call[r], i, volumes[i], dirtyVolume[i].row) /\ dirtyVolume[i].row # NoRow
    BY <1>1, <1>4, IdsDistinct DEF VolumeVersionsFit, DirtyFits
  <1>5. \A i \in RowId : volumes[i] # NoRow => volumes[i] \in VolumeRow
    BY <1>1 DEF StoreTypeOK
  <1>6. CASE pc[r] = "kubeCreate"
    <2>1. call[r].op \in {"create", "directCreate"}
      BY <1>2, <1>6, OnRoute
    <2>2. dirtyVolume[r].tx = r
      BY <1>1, <1>6, <2>1 DEF Wrote, Creations
    <2>3. ASSUME NEW i \in RowId, dirtyVolume[i].tx = r
          PROVE  /\ i = r /\ volumes[i] = NoRow
                 /\ Live(dirtyVolume[i].row) /\ Key(dirtyVolume[i].row) = RequestKey(r)
      BY <1>4, <2>1, <2>3 DEF VolumeEffect, Creations, DeleteAlls, Resizings, Live, Key, RequestKey
    <2>4. dirtyVolume[r].row.capacity = loc[r].capacity
      BY <1>1, <1>6, <2>2 DEF TellsCapacity
    <2>5. ASSUME NEW j \in RowId, j # r, Live(Settled(j))
          PROVE  Key(Settled(j)) # RequestKey(r)
      <3>1. ~SameLabel(dirtyVolume[r].row, Settled(j))
        BY <1>1, <1>3, <2>2, <2>3, <2>5 DEF UniqueVersions
      <3> QED BY <1>1, <2>2, <2>3, <3>1 DEF SameLabel, Key, RequestKey
    <2>6. TellsRow(r, r)
      BY <1>1, <1>6, <2>2, <2>3, <2>4, <2>5 DEF TellsRow, Live
    <2> QED BY <1>1, <2>6
  <1>7. CASE pc[r] \in {"kubeDelete", "kubeUpdate"}
    <2>1. PICK o \in RowId : loc[r].vols = {o}
      BY <1>1, <1>7 DEF LocalsTold
    <2>2. \A i \in RowId : dirtyVolume[i].tx = r <=> i = o
      BY <1>1, <1>7, <2>1 DEF Wrote
    <2>3. VolumeEffect(r, call[r], o, volumes[o], dirtyVolume[o].row) /\ dirtyVolume[o].row # NoRow
      BY <1>4, <2>2
    <2>4. IF pc[r] = "kubeDelete" THEN call[r].op = "delete" ELSE call[r].op \in Resizings
      BY <1>2, <1>7, OnRoute
    <2>5. /\ volumes[o] \in VolumeRow
          /\ IF pc[r] = "kubeDelete"
             THEN dirtyVolume[o].row = [volumes[o] EXCEPT !.deleted = TRUE]
             ELSE dirtyVolume[o].row = [volumes[o] EXCEPT !.capacity = dirtyVolume[o].row.capacity]
      BY <1>5, <2>3, <2>4 DEF VolumeEffect, Concerns, Creations, DeleteAlls, Resizings
    <2>6. Key(volumes[o]) = RequestKey(r)
      BY <1>1, <1>7, <2>1 DEF HoldsLabel, HandlingSteps
    <2>7. Key(dirtyVolume[o].row) = RequestKey(r)
      BY <2>5, <2>6 DEF Key, VolumeRow
    <2>8. ASSUME NEW j \in RowId, NEW v \in {volumes[j], dirtyVolume[j].row}, Live(v), Key(v) = RequestKey(r)
          PROVE  j = o
      BY <1>1, <1>7, <2>1, <2>8 DEF HoldsLabel, HandlingSteps
    <2>9. CASE pc[r] = "kubeDelete"
      <3>1. ~Live(dirtyVolume[o].row)
        BY <2>5, <2>9 DEF Live, VolumeRow
      <3> QED BY <1>3, <2>2, <2>6, <2>7, <2>8, <2>9, <3>1 DEF TellsRow
    <2>10. CASE pc[r] = "kubeUpdate"
      <3>1. kube[RequestKey(r)] # NoRow /\ RequestKey(r) \in Namespaces \X Labels
        <4>1. kube[RequestKey(r)] # NoRow
          BY <2>10 DEF KubeTold
        <4>2. volumes[o].ns \in Namespaces /\ volumes[o].label \in Labels
          BY <2>5 DEF VolumeRow
        <4> QED BY <2>6, <4>1, <4>2 DEF Key
      <3>2. PICK i \in RowId : Live(Settled(i)) /\ Key(Settled(i)) = RequestKey(r)
        BY <1>1, <3>1 DEF KubeMatches
      <3>3. i = o
        BY <1>3, <2>8, <3>2
      <3>4. Settled(o) = volumes[o]
        BY <2>2, <2>10 DEF Settled
      <3>5. Live(dirtyVolume[o].row)
        BY <2>3, <2>5, <2>10, <3>2, <3>3, <3>4 DEF Live, VolumeRow
      <3>6. dirtyVolume[o].row.capacity = loc[r].capacity
        BY <1>1, <2>2, <2>10 DEF TellsCapacity
      <3> QED BY <1>3, <2>2, <2>6, <2>7, <2>8, <2>10, <3>5, <3>6 DEF TellsRow
    <2> QED BY <1>7, <2>9, <2>10
  <1> QED BY <1>1, <1>6, <1>7 DEF KubeSteps

LEMMA StepKubeMatches ==
  ASSUME KubeInv, IInv, EffectInv, NEW r \in Requests, Step(r)
  PROVE  KubeMatches'
  <1>1. /\ Orderly /\ KubeMatches /\ RequestsTypeOK /\ StoreTypeOK
        /\ kube \in [Namespaces \X Labels -> Int \cup {NoRow}]
    BY DEF IInv, TypeOK, KubeInv, ServicesTypeOK
  <1>2. CASE ~KubeTold(r)
    <2>1. UNCHANGED kube
      BY <1>1, <1>2, AroundKube DEF KubeRefused
    <2>2. \A i \in RowId : Settled(i)' = Settled(i)
      BY <1>2, SettledStays
    <2> QED BY <1>1, <2>1, <2>2 DEF KubeMatches, Live, Key
  <1>3. CASE KubeTold(r)
    <2>1. PICK o \in RowId : TellsRow(r, o)
      BY <1>3, RowTold
    <2> DEFINE w == dirtyVolume[o].row
               key == RequestKey(r)
    <2>2. /\ kube' = [kube EXCEPT ![key] = IF pc[r] = "kubeDelete" THEN NoRow ELSE loc[r].capacity]
          /\ pc[r] \notin {"unsubscribe", "commit"} /\ pc'[r] \in {"unsubscribe", "commit"}
          /\ UNCHANGED <<volumes, dirtyVolume>>
      BY <1>3 DEF KubeTold, KubeSteps, storeVars
    <2>3. \A q \in Requests : q # r => pc'[q] = pc[q]
      BY <1>1, OthersStay
    <2>4. Settled(o)' = w /\ Settled(o) = volumes[o]
      BY <2>1, <2>2, IdsDistinct DEF TellsRow, Settled
    <2>5. ASSUME NEW i \in RowId, i # o
          PROVE  Settled(i)' = Settled(i)
      <3>1. dirtyVolume[i].tx # r /\ dirtyVolume[i].tx \in Requests \cup {NoTx}
        BY <1>1, <2>1, <2>5 DEF TellsRow, StoreTypeOK
      <3> QED BY <2>2, <2>3, <3>1 DEF Settled
    <2>6. \A i \in RowId : i # o /\ Live(Settled(i)) => Key(Settled(i)) # key
      BY <2>1 DEF TellsRow
    <2>7. ASSUME NEW i \in RowId, Live(Settled(i)')
          PROVE  kube'[Key(Settled(i)')] = Settled(i)'.capacity
      <3>1. CASE i = o
        <4>1. Live(w) /\ Key(w) = key /\ pc[r] # "kubeDelete" /\ w.capacity = loc[r].capacity
          BY <2>1, <2>4, <2>7, <3>1 DEF TellsRow
        <4>2. key \in Namespaces \X Labels
          <5>1. w \in VolumeRow
            BY <1>1, <4>1 DEF StoreTypeOK, Live
          <5> QED BY <4>1, <5>1 DEF Key, VolumeRow
        <4> QED BY <1>1, <2>2, <2>4, <3>1, <4>1, <4>2
      <3>2. CASE i # o
        <4>1. Live(Settled(i)) /\ Key(Settled(i)) # key /\ kube[Key(Settled(i))] = Settled(i).capacity
          BY <1>1, <2>5, <2>6, <2>7, <3>2 DEF KubeMatches
        <4>2. Key(Settled(i)) \in Namespaces \X Labels
          <5>1. Settled(i) \in VolumeRow
            BY <1>1, <4>1 DEF StoreTypeOK, Live, Settled
          <5> QED BY <5>1 DEF Key, VolumeRow
        <4> QED BY <1>1, <2>2, <2>5, <3>2, <4>1, <4>2
      <3> QED BY <3>1, <3>2
    <2>8. ASSUME NEW k \in Namespaces \X Labels, kube'[k] # NoRow
          PROVE  \E i \in RowId : Live(Settled(i)') /\ Key(Settled(i)') = k
      <3>1. CASE k = key
        <4>1. pc[r] # "kubeDelete"
          BY <1>1, <2>2, <2>8, <3>1
        <4> QED BY <2>1, <2>4, <3>1, <4>1 DEF TellsRow
      <3>2. CASE k # key
        <4>1. kube[k] # NoRow
          BY <1>1, <2>2, <2>8, <3>2
        <4>2. PICK i \in RowId : Live(Settled(i)) /\ Key(Settled(i)) = k
          BY <1>1, <4>1 DEF KubeMatches
        <4>3. i # o
          BY <2>1, <2>4, <3>2, <4>2 DEF TellsRow
        <4> QED BY <2>5, <4>2, <4>3
      <3> QED BY <3>1, <3>2
    <2> QED BY <2>7, <2>8 DEF KubeMatches, Live, Key
  <1> QED BY <1>2, <1>3

-----------------------------------------------------------------------------
(* Where the locals of a request in these steps come from.                 *)

LEMMA LocalsFrom ==
  ASSUME RequestsTypeOK, NEW r \in Requests, LocalFit(r), call[r].op # "import", Step(r)
  PROVE  /\ pc'[r] \in HandlingSteps =>
              SelectVolume(r) \/ (pc[r] \in HandlingSteps /\ loc'[r].vols = loc[r].vols)
         /\ ChoseStorage(r)' => PickStorage(r) \/ (ChoseStorage(r) /\ loc'[r].storage = loc[r].storage)
  <1>1. loc[r] \in LocType
    BY LocalFields
  <1> USE DEF HandlingSteps, ChoseStorage, Creations, Go, GoWith, Refuse, Answer, RequestsTypeOK, LocType
  <1>11. CASE FetchTariff(r) BY <1>1, <1>11 DEF FetchTariff, LocalFit
  <1>12. CASE PickStorage(r) BY <1>1, <1>12 DEF PickStorage
  <1>13. CASE Subscribe(r) BY <1>1, <1>13 DEF Subscribe
  <1>14. CASE Begin(r) BY <1>1, <1>14 DEF Begin, FirstInside
  <1>15. CASE CountLabel(r) BY <1>1, <1>15 DEF CountLabel
  <1>16. CASE ReserveSpace(r) BY <1>1, <1>16 DEF ReserveSpace
  <1>17. CASE InsertVolume(r) BY <1>1, <1>17 DEF InsertVolume
  <1>18. CASE CreateInKube(r) BY <1>1, <1>18 DEF CreateInKube, CallKube
  <1>19. CASE SelectVolume(r) BY <1>1, <1>19 DEF SelectVolume
  <1>20. CASE ReleaseSpace(r) BY <1>1, <1>20 DEF ReleaseSpace
  <1>21. CASE MarkDeleted(r) BY <1>1, <1>21 DEF MarkDeleted
  <1>22. CASE DeleteFromKube(r) BY <1>1, <1>22 DEF DeleteFromKube, CallKube
  <1>23. CASE Unsubscribe(r) BY <1>1, <1>23 DEF Unsubscribe, CallUnsubscribe
  <1>24. CASE ReadOldCapacity(r) BY <1>1, <1>24 DEF ReadOldCapacity
  <1>25. CASE CheckFit(r) BY <1>1, <1>25 DEF CheckFit
  <1>26. CASE Recharge(r) BY <1>1, <1>26 DEF Recharge
  <1>27. CASE SetCapacity(r) BY <1>1, <1>27 DEF SetCapacity
  <1>28. CASE UpdateInKube(r) BY <1>1, <1>28 DEF UpdateInKube, CallKube
  <1>29. CASE ListVolumes(r) BY <1>1, <1>29 DEF ListVolumes
  <1>30. CASE ListFails(r) BY <1>1, <1>30 DEF ListFails
  <1>31. CASE MarkAllDeleted(r) BY <1>1, <1>31 DEF MarkAllDeleted
  <1>32. CASE UnsubscribeAll(r) BY <1>1, <1>32 DEF UnsubscribeAll, CallUnsubscribe
  <1>33. CASE CountName(r) BY <1>1, <1>33 DEF CountName
  <1>34. CASE ResetStorage(r) BY <1>1, <1>34 DEF ResetStorage
  <1>35. CASE CountNameAgain(r) BY <1>1, <1>35 DEF CountNameAgain
  <1>36. CASE InsertStorage(r) BY <1>1, <1>36 DEF InsertStorage
  <1>37. CASE FindStorage(r) BY <1>1, <1>37 DEF FindStorage
  <1>38. CASE CountNewName(r) BY <1>1, <1>38 DEF CountNewName
  <1>39. CASE WriteStorage(r) BY <1>1, <1>39 DEF WriteStorage
  <1>40. CASE CountVolumes(r) BY <1>1, <1>40 DEF CountVolumes
  <1>41. CASE DropStorage(r) BY <1>1, <1>41 DEF DropStorage
  <1>42. CASE Commit(r) BY <1>1, <1>42 DEF Commit
  <1>43. CASE DbError(r) BY <1>1, <1>43 DEF DbError
  <1>44. CASE PoolTimeout(r) BY <1>1, <1>44 DEF PoolTimeout
  <1> QED
    BY <1>11, <1>12, <1>13, <1>14, <1>15, <1>16, <1>17, <1>18, <1>19, <1>20, <1>21, <1>22, <1>23, <1>24,
       <1>25, <1>26, <1>27, <1>28, <1>29, <1>30, <1>31, <1>32, <1>33, <1>34, <1>35, <1>36, <1>37,
       <1>38, <1>39, <1>40, <1>41, <1>42, <1>43, <1>44 DEF Step

(* A request has selected a live volume with the label it was asked for.   *)
LEMMA Selected ==
  ASSUME RequestsTypeOK, DirtyFits, NEW r \in Requests, SelectVolume(r), pc'[r] \in HandlingSteps
  PROVE  /\ UNCHANGED storeVars
         /\ \A i \in loc'[r].vols : Live(volumes[i]) /\ Key(volumes[i]) = RequestKey(r)
  <1>1. VolumesLabelled(VolumesSeen(r), call[r].ns, call[r].label)
          = VolumesLabelled(volumes, call[r].ns, call[r].label)
    <2>1. pc[r] \notin WroteSteps
      BY DEF SelectVolume, WroteSteps
    <2>2. \A i \in RowId : VolumesSeen(r)[i] = volumes[i]
      BY <2>1, NothingWritten
    <2> QED BY <2>2 DEF VolumesLabelled
  <1>2. UNCHANGED storeVars
        /\ \E i \in VolumesLabelled(volumes, call[r].ns, call[r].label) : loc'[r].vols = {i}
    <2>1. loc[r] \in LocType
      BY LocalFields
    <2>2. \A answer : ~Refuse(r, answer)
      BY DEF Refuse, Answer, RequestsTypeOK, HandlingSteps
    <2>3. PICK i \in VolumesLabelled(VolumesSeen(r), call[r].ns, call[r].label) :
            /\ UNCHANGED storeVars
            /\ \E step, name, capacity :
                 GoWith(r, step, [loc[r] EXCEPT !.vols = {i}, !.storage = name, !.capacity = capacity])
      BY <2>2 DEF SelectVolume
    <2>4. \A name, capacity : [loc[r] EXCEPT !.vols = {i}, !.storage = name, !.capacity = capacity].vols = {i}
      BY <2>1 DEF LocType
    <2>5. loc'[r].vols = {i}
      BY <2>3, <2>4 DEF GoWith, RequestsTypeOK
    <2> QED BY <1>1, <2>3, <2>5
  <1> QED BY <1>2 DEF VolumesLabelled, Key, RequestKey

(* A live volume stays live, unless a deletion of it commits.              *)
LEMMA DeletedByCall ==
  ASSUME Orderly, IInv, EffectInv, NEW r \in Requests, Step(r), NEW i \in RowId,
         Live(volumes[i]), ~Live(volumes'[i])
  PROVE  \E d \in Calls : d.op = "delete" /\ CallKey(d) = Key(volumes[i])
  <1>1. /\ TypeOK /\ RequestsTypeOK /\ StoreTypeOK /\ DirtyFits /\ RowsFresh /\ LocalFit(r) /\ VolumeVersionsFit
        /\ r \in RowId
    BY DEF IInv, TypeOK, LocalsFit, EffectInv, RowId
  <1>2. call[r] \in Calls /\ call[r].op \notin {"import", "deleteUser", "deleteNs"}
    BY <1>1, StepInProgress, OrderlyOp
  <1>3. volumes[i] \in VolumeRow
    BY <1>1 DEF StoreTypeOK, Live
  <1>4. volumes'[i] = dirtyVolume[i].row /\ dirtyVolume[i].tx = r
    BY <1>1, StepRowOutcome DEF RowOutcome, Live
  <1>5. VolumeEffect(r, call[r], i, volumes[i], dirtyVolume[i].row) /\ dirtyVolume[i].row # NoRow
    BY <1>1, <1>4, IdsDistinct DEF VolumeVersionsFit, DirtyFits
  <1>6. dirtyVolume[i].row.deleted /\ ~volumes[i].deleted
    BY <1>4, <1>5 DEF Live
  <1>7. call[r].op = "delete" /\ Concerns(call[r], volumes[i])
    BY <1>2, <1>3, <1>5, <1>6 DEF VolumeEffect, VolumeRow, DeleteAlls
  <1> QED BY <1>2, <1>7 DEF Concerns, CallKey, Key, DeleteAlls

LEMMA KeyStays ==
  ASSUME IInv, NEW r \in Requests, Step(r), NEW i \in RowId, volumes[i] # NoRow
  PROVE  Key(volumes'[i]) = Key(volumes[i])
  <1>1. /\ TypeOK /\ DirtyFits /\ RowsFresh /\ LocalFit(r)
    BY DEF IInv, LocalsFit
  <1>2. RowOutcome(r, i)
    BY <1>1, StepRowOutcome
  <1> QED BY <1>1, <1>2, IdsDistinct DEF RowOutcome, DirtyFits, SameLabel, Key

LEMMA StepHoldsLabel ==
  ASSUME KubeInv, IInv, EffectInv, NEW r \in Requests, Step(r), NEW q \in Requests
  PROVE  HoldsLabel(q)'
  <1>1. /\ Orderly /\ TypeOK /\ RequestsTypeOK /\ StoreTypeOK /\ DirtyFits /\ RowsFresh /\ UniqueVersions
        /\ LocalFit(r) /\ LocalFit(q) /\ HoldsLabel(q)
        /\ pc[r] \in ActiveSteps /\ call' = call
    BY StepInProgress DEF IInv, TypeOK, KubeInv, LocalsFit
  <1>2. call[r] \in Calls /\ call[r].op \notin {"import", "deleteUser", "deleteNs"}
        /\ call[r].op \in Ops /\ pc[r] \in Route(call[r].op)
    BY <1>1, OrderlyOp
  <1>3. RequestsTypeOK'
    BY <1>1, StepLocalsFit DEF IInv
  <1>4. RequestKey(q)' = RequestKey(q)
    BY <1>1 DEF RequestKey
  <1> SUFFICES ASSUME pc'[q] \in HandlingSteps, NEW i \in loc'[q].vols
               PROVE  /\ Key(volumes'[i]) = RequestKey(q)
                      /\ Live(volumes'[i]) \/ \E d \in Calls : d.op = "delete" /\ CallKey(d) = RequestKey(q)
                      /\ \A j \in RowId : \A v \in {volumes'[j], dirtyVolume'[j].row} :
                           Live(v) /\ Key(v) = RequestKey(q) => j = i
    BY <1>4 DEF HoldsLabel, Live, Key
  <1>5. i \in RowId
    BY <1>3 DEF RequestsTypeOK, LocType
  <1>6. \/ q = r /\ SelectVolume(r)
        \/ pc[q] \in HandlingSteps /\ i \in loc[q].vols
    <2>1. CASE q = r
      BY <1>1, <1>2, <2>1, LocalsFrom
    <2>2. CASE q # r
      <3>1. pc'[q] = pc[q] /\ loc'[q] = loc[q]
        BY <1>1, <2>2, OthersStay, StepShape DEF OwnLocals, RequestsTypeOK
      <3> QED BY <3>1
    <2> QED BY <2>1, <2>2
  <1>7. CASE q = r /\ SelectVolume(r)
    <2>1. UNCHANGED <<volumes, dirtyVolume>> /\ Live(volumes[i]) /\ Key(volumes[i]) = RequestKey(q)
      BY <1>1, <1>7, Selected DEF storeVars
    <2>2. \A j \in RowId : \A v \in {volumes[j], dirtyVolume[j].row} :
            Live(v) /\ Key(v) = RequestKey(q) => j = i
      BY <1>1, <1>5, <2>1 DEF UniqueVersions, SameLabel, Key
    <2> QED BY <2>1, <2>2
  <1>8. CASE pc[q] \in HandlingSteps /\ i \in loc[q].vols
    <2>1. /\ Key(volumes[i]) = RequestKey(q) /\ volumes[i] # NoRow
          /\ Live(volumes[i]) \/ \E d \in Calls : d.op = "delete" /\ CallKey(d) = RequestKey(q)
          /\ \A j \in RowId : \A v \in {volumes[j], dirtyVolume[j].row} :
               Live(v) /\ Key(v) = RequestKey(q) => j = i
      BY <1>1, <1>8 DEF HoldsLabel, LocalFit
    <2>2. Key(volumes'[i]) = RequestKey(q)
      BY <1>5, <2>1, KeyStays
    <2>3. Live(volumes'[i]) \/ \E d \in Calls : d.op = "delete" /\ CallKey(d) = RequestKey(q)
      BY <1>1, <1>5, <2>1, DeletedByCall
    <2>4. ASSUME NEW j \in RowId, NEW v \in {volumes'[j], dirtyVolume'[j].row},
                 Live(v), Key(v) = RequestKey(q), j # i
          PROVE  FALSE
      <3>1. ~ClaimsLabel(j, v)
        BY <2>1, <2>4 DEF ClaimsLabel, RowVersions, SameLabel, Key
      <3>2. TakesLabel(r) /\ v = NewVolume(r)
        BY <1>1, <2>4, <3>1, LiveVersions
      <3>3. call[r].op \in Creations /\ CallKey(call[r]) = RequestKey(q)
        <4>1. pc[r] = "insert"
          BY <3>2 DEF TakesLabel
        <4>2. call[r].op \in Creations
          BY <1>2, <4>1, OnRoute
        <4> QED BY <2>4, <3>2, <4>2 DEF NewVolume, Key, CallKey
      <3>4. Live(volumes[i])
        BY <1>1, <1>2, <2>1, <3>3 DEF Orderly
      <3>5. ~ClaimsLabel(i, v)
        BY <1>1, <1>5, <3>2, NewLabelUnclaimed
      <3> QED BY <2>1, <2>4, <3>4, <3>5 DEF ClaimsLabel, RowVersions, SameLabel, Key
    <2> QED BY <2>2, <2>3, <2>4
  <1> QED BY <1>6, <1>7, <1>8

LEMMA StepTellsCapacity ==
  ASSUME KubeInv, IInv, EffectInv, NEW r \in Requests, Step(r), NEW q \in Requests
  PROVE  TellsCapacity(q)'
  <1>1. /\ TypeOK /\ RequestsTypeOK /\ StoreTypeOK /\ DirtyFits /\ RowsFresh /\ LocalFit(r) /\ TellsCapacity(q)
    BY DEF IInv, TypeOK, KubeInv, LocalsFit
  <1> SUFFICES ASSUME pc'[q] \in {"kubeCreate", "kubeUpdate"}, NEW i \in RowId, dirtyVolume'[i].tx = q
               PROVE  dirtyVolume'[i].row.capacity = loc'[q].capacity
    BY DEF TellsCapacity
  <1>2. CASE q # r
    <2>1. pc'[q] = pc[q] /\ loc'[q] = loc[q]
      BY <1>1, <1>2, OthersStay, StepShape DEF OwnLocals, RequestsTypeOK
    <2>2. RowOutcome(r, i) /\ Clean.tx = NoTx
      BY <1>1, StepRowOutcome DEF Clean
    <2>3. dirtyVolume'[i] = dirtyVolume[i]
      BY <1>2, <2>2, IdsDistinct DEF RowOutcome
    <2> QED BY <1>1, <2>1, <2>3 DEF TellsCapacity
  <1>3. CASE q = r
    <2>1. \A step : Go(r, step) => pc'[r] = step /\ loc' = loc
      BY <1>1 DEF Go, RequestsTypeOK
    <2>2. InsertsVolume(r) \/ Resizes(r)
      <3>1. ~Reads(r)
        BY <1>1, <1>3 DEF Reads, MovesTo, RequestsTypeOK, WroteSteps
      <3>2. ~Refused(r) /\ ~Commits(r)
        BY <1>1, <1>3 DEF Refused, Refuse, Commits, Answer, RequestsTypeOK
      <3>3. ~Charges(r) /\ ~Marks(r) /\ ~Resets(r) /\ ~InsertsStorage(r) /\ ~RewritesStorage(r) /\ ~Drops(r)
        BY <1>3, <2>1 DEF Charges, Marks, Resets, InsertsStorage, RewritesStorage, Drops
      <3> QED BY <1>1, <3>1, <3>2, <3>3, StepPlan
    <2>3. dirtyVolume[i].tx # r
      <3>1. pc[r] \notin WroteSteps
        BY <2>2 DEF InsertsVolume, Resizes, WroteSteps
      <3> QED BY <1>1, <3>1, NothingWritten
    <2>4. CASE InsertsVolume(r)
      <3>1. dirtyVolume'[i] = IF i \in {r} THEN [tx |-> r, row |-> NewVolume(r)] ELSE dirtyVolume[i]
        BY <2>4 DEF InsertsVolume, InsertVolumeRow, WriteVolumes, Written
      <3>2. dirtyVolume'[i].row = NewVolume(r) /\ loc' = loc
        BY <1>3, <2>1, <2>3, <2>4, <3>1 DEF InsertsVolume
      <3> QED BY <1>3, <3>2 DEF NewVolume
    <2>5. CASE Resizes(r)
      <3> DEFINE w == [VolumesSeen(r)[i] EXCEPT !.capacity = loc[r].capacity]
      <3>1. dirtyVolume'[i] = IF i \in {TheVolume(r)} THEN [tx |-> r, row |-> w] ELSE dirtyVolume[i]
        BY <2>5 DEF Resizes, SetVolumeCapacity, WriteVolumes, Written
      <3>2. dirtyVolume'[i].row = w /\ i = TheVolume(r) /\ loc' = loc
        BY <1>3, <2>1, <2>3, <2>5, <3>1 DEF Resizes
      <3>3. VolumesSeen(r)[i] \in VolumeRow
        <4>1. PICK k \in RowId : loc[r].vols = {k} /\ volumes[k] # NoRow
          BY <1>1, <2>5 DEF Resizes, LocalFit
        <4>2. i \in loc[r].vols
          BY <3>2, <4>1 DEF TheVolume
        <4>3. VolumesSeen(r)[i] = volumes[i]
          BY <2>3 DEF VolumesSeen, View
        <4> QED BY <1>1, <4>1, <4>2, <4>3 DEF StoreTypeOK
      <3> QED BY <1>3, <3>2, <3>3 DEF VolumeRow
    <2> QED BY <2>2, <2>4, <2>5
  <1> QED BY <1>2, <1>3

LEMMA StepKnowsStorage ==
  ASSUME KubeInv, IInv, EffectInv, NEW r \in Requests, Step(r), NEW q \in Requests
  PROVE  KnowsStorage(q)'
  <1>1. /\ Orderly /\ TypeOK /\ RequestsTypeOK /\ LocalFit(r) /\ KnowsStorage(q)
        /\ pc[r] \in ActiveSteps /\ call' = call
    BY StepInProgress DEF IInv, TypeOK, KubeInv, LocalsFit
  <1> SUFFICES ASSUME ChoseStorage(q)'
               PROVE  StoragesNamed(storages', loc'[q].storage) # {}
    BY DEF KnowsStorage
  <1>2. CASE ChoseStorage(q) /\ loc'[q].storage = loc[q].storage
    BY <1>1, <1>2, NamedStays DEF KnowsStorage
  <1>3. CASE q = r /\ PickStorage(r)
    <2>1. \A answer : ~Refuse(r, answer)
      BY <1>1, <1>3 DEF Refuse, Answer, RequestsTypeOK, ChoseStorage
    <2>2. PICK i \in Candidates(call[r], loc[r].capacity) :
            /\ \E step : GoWith(r, step, [loc[r] EXCEPT !.storage = storages[i].name])
            /\ UNCHANGED storeVars
      BY <1>3, <2>1 DEF PickStorage
    <2>3. i \in RowId /\ storages[i] # NoRow
      BY <2>2 DEF Candidates, LiveStoragesNamed, LeastUsedStorages, StoragesNamed, Live
    <2>4. loc'[r].storage = storages[i].name
      <3>1. loc[r] \in LocType
        BY <1>1, LocalFields
      <3> QED BY <1>1, <2>2, <3>1 DEF GoWith, RequestsTypeOK, LocType
    <2> QED BY <1>3, <2>2, <2>3, <2>4 DEF StoragesNamed, storeVars
  <1>4. CASE q # r
    <2>1. pc'[q] = pc[q] /\ loc'[q] = loc[q]
      BY <1>1, <1>4, OthersStay, StepShape DEF OwnLocals, RequestsTypeOK
    <2>2. ChoseStorage(q)
      BY <1>1, <2>1 DEF ChoseStorage
    <2> QED BY <1>2, <2>1, <2>2
  <1>5. call[r].op # "import"
    BY <1>1, OrderlyOp
  <1> QED BY <1>1, <1>2, <1>3, <1>4, <1>5, LocalsFrom

(* The storage an uncommitted version refers to exists.                    *)
LEMMA StepReferences ==
  ASSUME KubeInv, IInv, EffectInv, NEW r \in Requests, Step(r), NEW i \in RowId, dirtyVolume'[i].tx # NoTx
  PROVE  StoragesNamed(storages', dirtyVolume'[i].row.storage) # {}
  <1>1. /\ Orderly /\ TypeOK /\ RequestsTypeOK /\ StoreTypeOK /\ DirtyFits /\ RowsFresh /\ LocalFit(r)
        /\ RouteFit(r) /\ LocalsTold(r) /\ ForeignKey
        /\ pc[r] \in ActiveSteps
    BY StepInProgress DEF IInv, TypeOK, KubeInv, LocalsFit, EffectInv, RoutesFit, Told, ActiveSteps,
       OutsideSteps, InsideSteps
  <1>2. /\ call[r].op \notin {"import", "deleteUser", "deleteNs"} /\ call[r].op \in Ops /\ pc[r] \in Route(call[r].op)
        /\ call[r].op = "updateStorage" => NewName(call[r]) = call[r].storage
    BY <1>1, OrderlyOp
  <1>3. RowOutcome(r, i) /\ VolumeOutcome(r, i) /\ Clean.tx = NoTx
    BY <1>1, StepRowOutcome, StepVolumeOutcome DEF Clean
  <1>4. CASE dirtyVolume'[i] = dirtyVolume[i]
    BY <1>1, <1>4, NamedStays DEF KubeInv
  <1>5. CASE dirtyVolume'[i] = [tx |-> r, row |-> NewVolume(r)] /\ pc[r] = "insert"
    <2>1. StoragesNamed(storages, loc[r].storage) # {}
      BY <1>5 DEF KubeInv, KnowsStorage, ChoseStorage
    <2>2. dirtyVolume'[i].row.storage = loc[r].storage
      BY <1>5 DEF NewVolume
    <2> QED BY <1>1, <2>1, <2>2, NamedStays
  <1>6. CASE /\ volumes[i] \in VolumeRow /\ dirtyVolume'[i].row \in VolumeRow /\ dirtyVolume'[i] # dirtyVolume[i]
    <2>1. VolumeEffect(r, call[r], i, volumes[i], dirtyVolume'[i].row)
      BY <1>3, <1>6 DEF VolumeOutcome
    <2>2. dirtyVolume'[i].row.storage = volumes[i].storage
      BY <1>2, <1>6, <2>1, IdsDistinct DEF VolumeEffect, VolumeRow
    <2>3. StoragesNamed(storages, volumes[i].storage) # {}
      BY <1>1, <1>6, IdsDistinct DEF ForeignKey
    <2> QED BY <1>1, <2>2, <2>3, NamedStays
  <1> QED BY <1>3, <1>4, <1>5, <1>6 DEF RowOutcome

-----------------------------------------------------------------------------
(* KubeInv is an invariant.                                                *)

LEMMA InitKube ==
  ASSUME Orderly, Init
  PROVE  KubeInv
  <1>1. /\ volumes = [i \in RowId |-> IF i \in SeedRows THEN SeedVolumes[i] ELSE NoRow]
        /\ dirtyVolume = [i \in RowId |-> Clean]
        /\ pc = [r \in Requests |-> "idle"]
    BY DEF Init, StoreInit
  <1>2. \A i \in RowId : dirtyVolume[i].tx = NoTx
    BY <1>1 DEF Clean
  <1>3. \A r \in Requests : HoldsLabel(r) /\ TellsCapacity(r) /\ KnowsStorage(r)
    BY <1>1 DEF HoldsLabel, TellsCapacity, KnowsStorage, ChoseStorage, HandlingSteps
  <1>4. \A i \in RowId : Settled(i) = volumes[i]
    BY <1>2 DEF Settled
  <1> DEFINE Seeds(key) == {i \in SeedRows : Live(SeedVolumes[i]) /\ Key(SeedVolumes[i]) = key}
             First(key) == CHOOSE i \in SeedRows : Live(SeedVolumes[i]) /\ Key(SeedVolumes[i]) = key
  <1>5. kube = [key \in Namespaces \X Labels |->
                  IF \E i \in SeedRows : Live(SeedVolumes[i]) /\ Key(SeedVolumes[i]) = key
                  THEN SeedVolumes[First(key)].capacity ELSE NoRow]
    BY DEF Init, ServicesInit
  <1>6. ASSUME NEW i \in RowId, Live(volumes[i])
        PROVE  kube[Key(volumes[i])] = volumes[i].capacity
    <2>1. i \in SeedRows /\ volumes[i] = SeedVolumes[i]
      BY <1>1, <1>6 DEF Live
    <2>2. Key(volumes[i]) \in Namespaces \X Labels
      BY <1>6, <2>1, SeedsTyped DEF Live, Key, VolumeRow
    <2>3. First(Key(volumes[i])) = i
      <3>1. /\ First(Key(volumes[i])) \in SeedRows /\ Live(SeedVolumes[First(Key(volumes[i]))])
            /\ Key(SeedVolumes[First(Key(volumes[i]))]) = Key(volumes[i])
        BY <1>6, <2>1
      <3> QED BY <1>6, <2>1, <3>1, SeedsConsistent DEF Key, SameLabel
    <2> HIDE DEF First
    <2> QED BY <1>5, <1>6, <2>1, <2>2, <2>3
  <1>7. ASSUME NEW key \in Namespaces \X Labels, kube[key] # NoRow
        PROVE  \E i \in RowId : Live(volumes[i]) /\ Key(volumes[i]) = key
    <2>1. PICK i \in SeedRows : Live(SeedVolumes[i]) /\ Key(SeedVolumes[i]) = key
      BY <1>5, <1>7
    <2> QED BY <1>1, <2>1 DEF RowId
  <1>8. KubeMatches
    BY <1>4, <1>6, <1>7 DEF KubeMatches
  <1> QED BY <1>2, <1>3, <1>8 DEF KubeInv

LEMMA StepKube ==
  ASSUME KubeInv, IInv, EffectInv, NEW r \in Requests, Step(r)
  PROVE  KubeInv'
  <1>1. Orderly
    BY DEF KubeInv
  <1> QED BY <1>1, StepKubeMatches, StepHoldsLabel, StepTellsCapacity, StepKnowsStorage, StepReferences
      DEF KubeInv, Orderly

LEMMA StartKube ==
  ASSUME KubeInv, IInv, NEW r \in Requests, NEW c \in Calls, Start(r, c)
  PROVE  KubeInv'
  <1>1. /\ Orderly /\ RequestsTypeOK /\ StoreTypeOK /\ DirtyFits
    BY DEF IInv, TypeOK, KubeInv
  <1>2. UNCHANGED <<storages, volumes, dirtyVolume, kube>> /\ pc[r] = "idle"
    BY DEF Start, storeVars, serviceVars
  <1>3. /\ pc'[r] = FirstStep(c) /\ call'[r] = c
        /\ \A q \in Requests : q # r => pc'[q] = pc[q] /\ call'[q] = call[q] /\ loc'[q] = loc[q]
    BY <1>1 DEF Start, RequestsTypeOK
  <1>4. FirstStep(c) \in {"tariff", "pick", "begin"} /\ (FirstStep(c) = "begin" => c.op \notin Creations)
    BY <1>1 DEF FirstStep, Creations, Orderly
  <1>5. \A i \in RowId : dirtyVolume[i].tx \in (Requests \cup {NoTx}) \ {r}
    BY <1>1, <1>2, IdsDistinct DEF DirtyFits, StoreTypeOK, WroteSteps
  <1>6. \A i \in RowId : Settled(i)' = Settled(i)
    BY <1>2, <1>3, <1>5 DEF Settled
  <1>7. KubeMatches'
    BY <1>2, <1>6 DEF KubeInv, KubeMatches, Live, Key
  <1>8. ASSUME NEW q \in Requests
        PROVE  (HoldsLabel(q) /\ TellsCapacity(q) /\ KnowsStorage(q))'
    <2>1. CASE q = r
      BY <1>3, <1>4, <2>1 DEF HoldsLabel, TellsCapacity, KnowsStorage, ChoseStorage, HandlingSteps
    <2>2. CASE q # r
      <3>1. HoldsLabel(q) /\ TellsCapacity(q) /\ KnowsStorage(q)
        BY DEF KubeInv
      <3>2. HoldsLabel(q)'
        BY <1>2, <1>3, <2>2, <3>1 DEF HoldsLabel, RequestKey, Live, Key
      <3>3. TellsCapacity(q)' /\ KnowsStorage(q)'
        BY <1>2, <1>3, <2>2, <3>1 DEF TellsCapacity, KnowsStorage, ChoseStorage
      <3> QED BY <3>2, <3>3
    <2> QED BY <2>1, <2>2
  <1> QED BY <1>1, <1>2, <1>7, <1>8 DEF KubeInv, Orderly

(* Kubernetes has the live volumes that transactions past their call have  *)
(* settled: deletions removed, creations and resizes included.             *)
THEOREM KubeInvariant ==
  ASSUME Orderly
  PROVE  Spec => []KubeInv
  <1>1. Init => KubeInv
    BY InitKube
  <1>2. ASSUME IInv, EffectInv, KubeInv, [Next]_vars
        PROVE  KubeInv'
    <2>1. CASE UNCHANGED vars
      <3>1. UNCHANGED <<storages, volumes, dirtyVolume, kube, call, pc, loc>>
        BY <2>1 DEF vars, storeVars, serviceVars, requestVars
      <3>2. \A i \in RowId : Settled(i)' = Settled(i)
        BY <3>1 DEF Settled
      <3>3. KubeMatches'
        BY <1>2, <3>1, <3>2 DEF KubeInv, KubeMatches, Live, Key
      <3>4. \A q \in Requests : (HoldsLabel(q) /\ TellsCapacity(q) /\ KnowsStorage(q))'
        BY <1>2, <3>1 DEF KubeInv, HoldsLabel, TellsCapacity, KnowsStorage, ChoseStorage, RequestKey, Live, Key
      <3> QED BY <1>2, <3>1, <3>3, <3>4 DEF KubeInv, Orderly
    <2>2. ~Crash
      BY DEF Crash, Orderly
    <2> QED BY <1>2, <2>1, <2>2, StepKube, StartKube DEF Next, Finished
  <1> QED BY <1>1, <1>2, Inductiveness, EffectInvariant, PTL DEF Spec

(* Whenever no request is in progress kubernetes has the live volumes of   *)
(* the database, with their capacity, and no others.                       *)
THEOREM KubernetesAgrees ==
  ASSUME Orderly
  PROVE  Spec => []KubeAgrees
  <1>1. ASSUME IInv, KubeInv
        PROVE  KubeAgrees
    <2>1. SUFFICES ASSUME Active = {}, NEW ns \in Namespaces, NEW label \in Labels
                   PROVE  \/ /\ VolumesLabelled(volumes, ns, label) = {}
                             /\ kube[<<ns, label>>] = NoRow
                          \/ \E i \in VolumesLabelled(volumes, ns, label) :
                               kube[<<ns, label>>] = volumes[i].capacity
      BY DEF KubeAgrees
    <2>2. ASSUME NEW i \in RowId
          PROVE  Settled(i) = volumes[i]
      <3>1. dirtyVolume[i].tx \in Requests \cup {NoTx}
        BY <1>1 DEF IInv, TypeOK, StoreTypeOK
      <3>2. dirtyVolume[i].tx # NoTx => pc[dirtyVolume[i].tx] \in ActiveSteps
        BY <1>1 DEF IInv, DirtyFits, WroteSteps, ActiveSteps, InsideSteps
      <3> QED BY <2>1, <3>1, <3>2 DEF Active, Settled
    <2>3. <<ns, label>> \in Namespaces \X Labels
      BY <2>1
    <2>4. \A i \in RowId : i \in VolumesLabelled(volumes, ns, label)
                              <=> Live(volumes[i]) /\ Key(volumes[i]) = <<ns, label>>
      BY DEF VolumesLabelled, Key
    <2>5. CASE VolumesLabelled(volumes, ns, label) = {}
      BY <1>1, <2>2, <2>3, <2>4, <2>5 DEF KubeInv, KubeMatches
    <2>6. CASE VolumesLabelled(volumes, ns, label) # {}
      <3>1. PICK i \in RowId : i \in VolumesLabelled(volumes, ns, label)
        BY <2>6 DEF VolumesLabelled
      <3> QED BY <1>1, <2>2, <2>4, <3>1 DEF KubeInv, KubeMatches
    <2> QED BY <2>5, <2>6
  <1> QED BY <1>1, Inductiveness, KubeInvariant, PTL

-----------------------------------------------------------------------------
(* Kubernetes tells two deletions of a volume apart.                       *)

(* Kubernetes has what it is asked to delete, so the volume is still live. *)
LEMMA DeletesLive ==
  ASSUME KubeInv, IInv, EffectInv, DeletesOnce, NEW r \in Requests, Step(r), call[r].op = "delete",
         pc'[r] \in {"unsubscribe", "commit"}, NEW i \in RowId, dirtyVolume'[i].tx = r
  PROVE  Live(volumes'[i])
  <1>1. /\ Orderly /\ RequestsTypeOK /\ StoreTypeOK /\ DirtyFits /\ KubeMatches
        /\ pc[r] \in Route(call[r].op) /\ call[r].op \in Ops
    BY Stepping DEF KubeInv
  <1>2. pc[r] \in WroteSteps
    <2>1. ASSUME pc[r] \notin WroteSteps
          PROVE  FALSE
      <3>1. dirtyVolume[i].tx # r
        BY <1>1, <2>1, NothingWritten
      <3>2. pc'[r] \in KubeSteps
        BY <1>1, <2>1, <3>1, WritesForCall
      <3> QED BY <3>2 DEF KubeSteps
    <2> QED BY <2>1
  <1>3. pc[r] \in {"kubeDelete", "unsubscribe", "commit"}
    BY <1>1, <1>2, OnRoute DEF WroteSteps, Creations, Resizings, DeleteAlls
  <1>4. pc'[r] # "done"
    OBVIOUS
  <1>5. CASE pc[r] = "commit"
    <2>1. Commit(r)
      BY <1>1, <1>5, AroundKube
    <2>2. \A answer : ~Answer(r, answer)
      BY <1>1, <1>4 DEF Answer, RequestsTypeOK
    <2> QED BY <2>1, <2>2 DEF Commit, Refuse
  <1>6. CASE pc[r] = "unsubscribe"
    <2>1. UNCHANGED storeVars
      BY <1>1, <1>6, AroundKube
    <2>2. volumes' = volumes /\ dirtyVolume[i].tx = r
      BY <2>1 DEF storeVars
    <2>3. Live(volumes[i])
      BY <1>6, <2>2 DEF DeletesOnce
    <2> QED BY <2>2, <2>3
  <1>7. CASE pc[r] = "kubeDelete"
    <2>1. KubeTold(r)
      <3>1. \A answer : ~Refuse(r, answer)
        BY <1>1, <1>4 DEF Refuse, Answer, RequestsTypeOK
      <3> QED BY <1>1, <1>7, <3>1, AroundKube DEF KubeRefused, KubeSteps
    <2>2. /\ kube[RequestKey(r)] # NoRow
          /\ volumes' = volumes /\ dirtyVolume[i].tx = r
      BY <1>7, <2>1 DEF KubeTold, storeVars
    <2>3. PICK o \in RowId : TellsRow(r, o)
      BY <2>1, RowTold
    <2>4. i = o /\ Key(dirtyVolume[i].row) = RequestKey(r)
      BY <2>2, <2>3 DEF TellsRow
    <2>5. RequestKey(r) \in Namespaces \X Labels
      <3>1. dirtyVolume[i].row \in VolumeRow
        BY <1>1, <2>2, IdsDistinct DEF DirtyFits, StoreTypeOK
      <3> QED BY <2>4, <3>1 DEF Key, VolumeRow
    <2>6. PICK j \in RowId : Live(Settled(j)) /\ Key(Settled(j)) = RequestKey(r)
      BY <1>1, <2>2, <2>5 DEF KubeMatches
    <2>7. j = i
      BY <2>3, <2>4, <2>6 DEF TellsRow
    <2>8. Settled(i) = volumes[i]
      BY <1>7, <2>2 DEF Settled
    <2> QED BY <2>2, <2>6, <2>7, <2>8
  <1> QED BY <1>3, <1>5, <1>6, <1>7

LEMMA StepDeletes ==
  ASSUME KubeInv, IInv, EffectInv, DeletesOnce, NEW r \in Requests, Step(r)
  PROVE  DeletesOnce'
  <1>1. SUFFICES ASSUME NEW q \in Requests, NEW i \in RowId, pc'[q] \in {"unsubscribe", "commit"},
                        call'[q].op = "delete", dirtyVolume'[i].tx = q
                 PROVE  Live(volumes'[i])
    BY DEF DeletesOnce, Live
  <1>2. call' = call
    BY Stepping
  <1>3. CASE q = r
    BY <1>1, <1>2, <1>3, DeletesLive
  <1>4. CASE q # r
    <2>1. /\ pc'[q] = pc[q] /\ dirtyVolume[i].tx = q
          /\ volumes'[i] = volumes[i]
      BY <1>1, <1>4, Bystander
    <2>2. Live(volumes[i])
      BY <1>1, <1>2, <2>1 DEF DeletesOnce
    <2> QED BY <2>1, <2>2
  <1> QED BY <1>3, <1>4

(* Of two deletions of one volume that overlap only one gets past its call *)
(* to kubernetes and gives the space of the volume back.                   *)
THEOREM DeletedOnce ==
  ASSUME Orderly
  PROVE  Spec => []DeletesOnce
  <1>1. Init => DeletesOnce
    BY DEF Init, DeletesOnce
  <1>2. ASSUME IInv, EffectInv, KubeInv, DeletesOnce, [Next]_vars
        PROVE  DeletesOnce'
    <2>1. RequestsTypeOK
      BY <1>2 DEF IInv, TypeOK
    <2>2. CASE UNCHANGED vars
      <3>1. UNCHANGED <<volumes, dirtyVolume, call, pc>>
        BY <2>2 DEF vars, storeVars, requestVars
      <3> QED BY <1>2, <3>1 DEF DeletesOnce, Live
    <2>3. ASSUME NEW r \in Requests, NEW c \in Calls, Start(r, c)
          PROVE  DeletesOnce'
      <3>1. UNCHANGED <<volumes, dirtyVolume>> /\ pc'[r] \notin {"unsubscribe", "commit"}
        BY <2>1, <2>3 DEF Start, FirstStep, storeVars, RequestsTypeOK
      <3>2. \A q \in Requests : q # r => pc'[q] = pc[q] /\ call'[q] = call[q]
        BY <2>1, <2>3 DEF Start, RequestsTypeOK
      <3> QED BY <1>2, <3>1, <3>2 DEF DeletesOnce, Live
    <2>4. ~Crash
      BY DEF Crash, Orderly
    <2> QED BY <1>2, <2>2, <2>3, <2>4, StepDeletes DEF Next, Finished
  <1> QED BY <1>1, <1>2, Inductiveness, EffectInvariant, KubeInvariant, PTL DEF Spec

(* So space is never counted less than it is used, however deletions,      *)
(* resizes and creations overlap, as long as resizes of one volume that    *)
(* overlap are to one size and storages are dropped while none is created  *)
(* on.                                                                     *)
THEOREM UsedCoversOrderly ==
  ASSUME Orderly, IsFiniteSet(RowId)
  PROVE  Spec /\ Covered /\ [](StoragesApart /\ LooselyApart) => [](CoverInv /\ UsedCoversVolumes)
  <1>1. NothingOwed
    BY DEF NothingOwed, Orderly, DeleteAlls
  <1> QED BY <1>1, DeletedOnce, UsedCovers, PTL
=============================================================================
