------------------------ MODULE VolumeManagerProofs ------------------------
(***************************************************************************)
(* Proofs, for every value of the constants, that volume-manager keeps the *)
(* promises of module Promises about labels, deletions and subscriptions.  *)
(***************************************************************************)
EXTENDS Inductive, TLAPS

-----------------------------------------------------------------------------
(* The statements of PgStore keep the tables well typed.                   *)

(* A transaction sees well-typed rows.                                     *)
LEMMA ViewTyped ==
  ASSUME StoreTypeOK, NEW t \in Requests
  PROVE  /\ StoragesSeen(t) \in [RowId -> StorageRow \cup {NoRow}]
         /\ VolumesSeen(t) \in [RowId -> VolumeRow \cup {NoRow}]
  BY DEF StoreTypeOK, StoragesSeen, VolumesSeen, View

(* Rows that a statement writes are typed if the new versions are.         *)
LEMMA WriteStoragesTyped ==
  ASSUME StoreTypeOK, NEW t \in Requests, NEW I \in SUBSET RowId,
         NEW rows \in [I -> StorageRow],
         dirtyStorage' = Written(t, dirtyStorage, rows)
  PROVE  dirtyStorage' \in [RowId -> [tx : Requests \cup {NoTx}, row : StorageRow \cup {NoRow}]]
  BY DEF StoreTypeOK, Written

LEMMA WriteVolumesTyped ==
  ASSUME StoreTypeOK, NEW t \in Requests, NEW I \in SUBSET RowId,
         NEW rows \in [I -> VolumeRow],
         dirtyVolume' = Written(t, dirtyVolume, rows)
  PROVE  dirtyVolume' \in [RowId -> [tx : Requests \cup {NoTx}, row : VolumeRow \cup {NoRow}]]
  BY DEF StoreTypeOK, Written

(* Releasing locks and committing keep the tables typed.                   *)
LEMMA EndTyped ==
  ASSUME StoreTypeOK, NEW t \in Requests, RollbackTx(t) \/ CommitTx(t) \/ RollbackAll
  PROVE  StoreTypeOK'
  <1>1. Clean \in [tx : Requests \cup {NoTx}, row : StorageRow \cup {NoRow}]
    BY DEF Clean
  <1>2. Clean \in [tx : Requests \cup {NoTx}, row : VolumeRow \cup {NoRow}]
    BY DEF Clean
  <1>3. CASE RollbackTx(t)
    BY <1>1, <1>2, <1>3 DEF RollbackTx, Released, StoreTypeOK
  <1>4. CASE CommitTx(t)
    BY <1>1, <1>2, <1>4, ViewTyped DEF CommitTx, Released, StoreTypeOK
  <1>5. CASE RollbackAll
    BY <1>1, <1>2, <1>5 DEF RollbackAll, StoreTypeOK
  <1> QED BY <1>3, <1>4, <1>5

(* The updates of "used".                                                  *)
LEMMA AddUsedTyped ==
  ASSUME StoreTypeOK, NEW t \in Requests, NEW name, NEW delta \in Int, AddUsed(t, name, delta)
  PROVE  StoreTypeOK'
  <1> DEFINE S == StoragesSeen(t)
             I == StoragesNamed(S, name)
             rows == [i \in I |-> [S[i] EXCEPT !.used = @ + delta]]
  <1>1. I \in SUBSET RowId /\ \A i \in I : S[i] \in StorageRow
    BY ViewTyped DEF StoragesNamed
  <1>2. \A i \in I : [S[i] EXCEPT !.used = @ + delta] \in StorageRow
    BY <1>1 DEF StorageRow
  <1>3. rows \in [I -> StorageRow]
    BY <1>2
  <1>4. dirtyStorage' = Written(t, dirtyStorage, rows) /\ UNCHANGED <<storages, volumes, dirtyVolume>>
    BY DEF AddUsed, WriteStorages
  <1> HIDE DEF rows, S, I
  <1> QED BY <1>1, <1>3, <1>4, WriteStoragesTyped DEF StoreTypeOK

(* The other statements on "storages".                                     *)
LEMMA ResetStorageRowTyped ==
  ASSUME StoreTypeOK, NEW t \in Requests, NEW name, NEW size \in Int, ResetStorageRow(t, name, size)
  PROVE  StoreTypeOK'
  <1> DEFINE S == StoragesSeen(t)
             I == StoragesNamed(S, name)
             rows == [i \in I |-> [S[i] EXCEPT !.size = size, !.deleted = FALSE]]
  <1>1. I \in SUBSET RowId /\ \A i \in I : S[i] \in StorageRow
    BY ViewTyped DEF StoragesNamed
  <1>2. \A k \in I : [S[k] EXCEPT !.size = size, !.deleted = FALSE] \in StorageRow
    BY <1>1 DEF StorageRow
  <1>2a. rows \in [I -> StorageRow]
    BY <1>2
  <1>3. dirtyStorage' = Written(t, dirtyStorage, rows) /\ UNCHANGED <<storages, volumes, dirtyVolume>>
    BY DEF ResetStorageRow, WriteStorages
  <1> HIDE DEF rows, S, I
  <1> QED BY <1>1, <1>2a, <1>3, WriteStoragesTyped DEF StoreTypeOK

LEMMA DropStorageRowTyped ==
  ASSUME StoreTypeOK, NEW t \in Requests, NEW name,
         DropStorageRow(t, StoragesNamed(StoragesSeen(t), name))
  PROVE  StoreTypeOK'
  <1> DEFINE S == StoragesSeen(t)
             I == StoragesNamed(S, name)
             rows == [i \in I |-> [S[i] EXCEPT !.deleted = TRUE, !.used = 0]]
  <1>1. I \in SUBSET RowId /\ \A i \in I : S[i] \in StorageRow
    BY ViewTyped DEF StoragesNamed
  <1>2. \A s \in StorageRow : [s EXCEPT !.deleted = TRUE, !.used = 0] \in StorageRow
    <2>1. \A s \in StorageRow : [s EXCEPT !.deleted = TRUE] \in StorageRow
      BY DEF StorageRow
    <2>2. \A s \in StorageRow : [s EXCEPT !.used = 0] \in StorageRow
      BY DEF StorageRow
    <2>3. \A s : [s EXCEPT !.deleted = TRUE, !.used = 0] = [[s EXCEPT !.deleted = TRUE] EXCEPT !.used = 0]
      OBVIOUS
    <2> QED BY <2>1, <2>2, <2>3
  <1>2a. rows \in [I -> StorageRow]
    BY <1>1, <1>2
  <1>3. dirtyStorage' = Written(t, dirtyStorage, rows) /\ UNCHANGED <<storages, volumes, dirtyVolume>>
    BY DEF DropStorageRow, WriteStorages
  <1> HIDE DEF rows, S, I
  <1> QED BY <1>1, <1>2a, <1>3, WriteStoragesTyped DEF StoreTypeOK

LEMMA InsertStorageRowTyped ==
  ASSUME StoreTypeOK, NEW t \in Requests, NEW name \in StorageNames, NEW size \in Int,
         InsertStorageRow(t, name, size)
  PROVE  StoreTypeOK'
  <1> DEFINE rows == [i \in {t} |-> [name |-> name, size |-> size, used |-> 0, deleted |-> FALSE]]
  <1>1. {t} \in SUBSET RowId
    BY DEF RowId
  <1>2. rows \in [{t} -> StorageRow]
    BY DEF StorageRow
  <1>3. dirtyStorage' = Written(t, dirtyStorage, rows) /\ UNCHANGED <<storages, volumes, dirtyVolume>>
    BY DEF InsertStorageRow, WriteStorages
  <1> HIDE DEF rows
  <1> QED BY <1>1, <1>2, <1>3, WriteStoragesTyped DEF StoreTypeOK

LEMMA RewriteStorageRowTyped ==
  ASSUME StoreTypeOK, NEW t \in Requests, NEW name, NEW newName \in StorageNames, NEW size \in Int,
         RewriteStorageRow(t, StoragesNamed(StoragesSeen(t), name), name, newName, size)
  PROVE  StoreTypeOK'
  <1> DEFINE S == StoragesSeen(t)
             I == StoragesNamed(S, name)
             V == VolumesSeen(t)
             J == Cascade(t, name, newName)
             rows == [i \in I |-> [S[i] EXCEPT !.name = newName, !.size = size]]
             vols == [i \in J |-> [V[i] EXCEPT !.storage = newName]]
  <1>1. I \in SUBSET RowId /\ \A i \in I : S[i] \in StorageRow
    BY ViewTyped DEF StoragesNamed
  <1>2. J \in SUBSET RowId /\ \A i \in J : V[i] \in VolumeRow
    BY ViewTyped DEF Cascade
  <1>3. rows \in [I -> StorageRow]
    BY <1>1 DEF StorageRow
  <1>4. vols \in [J -> VolumeRow]
    BY <1>2 DEF VolumeRow
  <1>5. /\ dirtyStorage' = Written(t, dirtyStorage, rows)
        /\ dirtyVolume' = Written(t, dirtyVolume, vols)
        /\ UNCHANGED <<storages, volumes>>
    BY DEF RewriteStorageRow
  <1> HIDE DEF rows, vols, S, I, V, J
  <1> QED BY <1>1, <1>2, <1>3, <1>4, <1>5, WriteStoragesTyped, WriteVolumesTyped DEF StoreTypeOK

(* The statements on "volumes".                                            *)
LEMMA InsertVolumeRowTyped ==
  ASSUME StoreTypeOK, NEW t \in Requests, NEW v \in VolumeRow, InsertVolumeRow(t, v)
  PROVE  StoreTypeOK'
  <1> DEFINE rows == [i \in {t} |-> v]
  <1>1. {t} \in SUBSET RowId
    BY DEF RowId
  <1>2. rows \in [{t} -> VolumeRow]
    OBVIOUS
  <1>3. dirtyVolume' = Written(t, dirtyVolume, rows) /\ UNCHANGED <<storages, volumes, dirtyStorage>>
    BY DEF InsertVolumeRow, WriteVolumes
  <1> HIDE DEF rows
  <1> QED BY <1>1, <1>2, <1>3, WriteVolumesTyped DEF StoreTypeOK

LEMMA MarkVolumesDeletedTyped ==
  ASSUME StoreTypeOK, NEW t \in Requests, NEW I \in SUBSET RowId,
         \A i \in I : VolumesSeen(t)[i] # NoRow, MarkVolumesDeleted(t, I)
  PROVE  StoreTypeOK'
  <1> DEFINE rows == [i \in I |-> [VolumesSeen(t)[i] EXCEPT !.deleted = TRUE]]
  <1>1. \A i \in I : VolumesSeen(t)[i] \in VolumeRow
    BY ViewTyped
  <1>2. \A k \in I : [VolumesSeen(t)[k] EXCEPT !.deleted = TRUE] \in VolumeRow
    BY <1>1 DEF VolumeRow
  <1>2a. rows \in [I -> VolumeRow]
    BY <1>2
  <1>3. dirtyVolume' = Written(t, dirtyVolume, rows) /\ UNCHANGED <<storages, volumes, dirtyStorage>>
    BY DEF MarkVolumesDeleted, WriteVolumes
  <1> HIDE DEF rows
  <1> QED BY <1>2a, <1>3, WriteVolumesTyped DEF StoreTypeOK

LEMMA SetVolumeCapacityTyped ==
  ASSUME StoreTypeOK, NEW t \in Requests, NEW i \in RowId, NEW capacity \in Int,
         VolumesSeen(t)[i] # NoRow, SetVolumeCapacity(t, i, capacity)
  PROVE  StoreTypeOK'
  <1> DEFINE rows == [k \in {i} |-> [VolumesSeen(t)[k] EXCEPT !.capacity = capacity]]
  <1>1. VolumesSeen(t)[i] \in VolumeRow
    BY ViewTyped
  <1>2. rows \in [{i} -> VolumeRow]
    BY <1>1 DEF VolumeRow
  <1>3. dirtyVolume' = Written(t, dirtyVolume, rows) /\ UNCHANGED <<storages, volumes, dirtyStorage>>
    BY DEF SetVolumeCapacity, WriteVolumes
  <1> HIDE DEF rows
  <1>4. {i} \in SUBSET RowId
    OBVIOUS
  <1> QED BY <1>2, <1>3, <1>4, WriteVolumesTyped DEF StoreTypeOK

-----------------------------------------------------------------------------
(* What a step of a request may do to the volume rows.                     *)

MovesTo(r, step) == pc' = [pc EXCEPT ![r] = step]

(* It leaves them alone; only a request past kubernetes reaches "commit"   *)
(* from a step that follows its writes.                                    *)
Quiet(r) ==
  /\ UNCHANGED <<volumes, dirtyVolume>>
  /\ \E step \in ActiveSteps :
       /\ MovesTo(r, step)
       /\ pc[r] \in WroteSteps => step \in WroteSteps
       /\ pc[r] \in {"kubeCreate", "commit"} => step = "commit"
       /\ pc[r] \in ActiveSteps

Undone(r) == RollbackTx(r) /\ MovesTo(r, "done") /\ pc[r] \in ActiveSteps

Committed(r) == CommitTx(r) /\ MovesTo(r, "done") /\ pc[r] = "commit"

Inserted(r) ==
  /\ pc[r] = "insert"
  /\ ~LabelUndecided(r, NewVolume(r)) /\ ~LabelTaken(r, NewVolume(r))
  /\ InsertVolumeRow(r, NewVolume(r))
  /\ MovesTo(r, "kubeCreate") \/ MovesTo(r, "commit")

Marked(r) ==
  /\ pc[r] \in {"mark", "markAll"}
  /\ MarkVolumesDeleted(r, loc[r].vols)
  /\ MovesTo(r, "kubeDelete") \/ MovesTo(r, "unsubscribeAll")

Resized(r) ==
  /\ pc[r] = "setCapacity"
  /\ SetVolumeCapacity(r, TheVolume(r), loc[r].capacity)
  /\ MovesTo(r, "kubeUpdate")

Rewritten(r) ==
  LET name == call[r].storage
      newName == loc[r].storage
  IN  /\ pc[r] = "writeStorage"
      /\ Unlocked(r, dirtyVolume, Cascade(r, name, newName))
      /\ RewriteStorageRow(r, StoragesNamed(StoragesSeen(r), name), name, newName, loc[r].capacity)
      /\ MovesTo(r, "commit")

OwnLocals(r) ==
  /\ call' = call
  /\ loc' = loc \/ \E l : loc' = [loc EXCEPT ![r] = l]

(* Every step of a request has one of these shapes, and concerns its own   *)
(* local state only.                                                       *)
LEMMA StepShape ==
  ASSUME NEW r \in Requests, Step(r)
  PROVE  /\ Quiet(r) \/ Undone(r) \/ Committed(r) \/ Inserted(r) \/ Marked(r) \/ Resized(r) \/ Rewritten(r)
         /\ OwnLocals(r)
  <1> USE DEF OwnLocals, Quiet, Undone, MovesTo, WroteSteps, ActiveSteps, OutsideSteps, InsideSteps,
              Go, GoWith, Refuse, Answer, storeVars
  <1>1. CASE FetchTariff(r) BY <1>1 DEF FetchTariff
  <1>2. CASE PickStorage(r) BY <1>2 DEF PickStorage
  <1>3. CASE Subscribe(r) BY <1>3 DEF Subscribe
  <1>4. CASE Begin(r) BY <1>4 DEF Begin, FirstInside
  <1>5. CASE CountLabel(r) BY <1>5 DEF CountLabel
  <1>6. CASE ReserveSpace(r) BY <1>6 DEF ReserveSpace, AddUsed, WriteStorages
  <1>7. CASE InsertVolume(r) BY <1>7 DEF InsertVolume, Inserted
  <1>8. CASE CreateInKube(r) BY <1>8 DEF CreateInKube, CallKube
  <1>9. CASE SelectVolume(r) BY <1>9 DEF SelectVolume
  <1>10. CASE ReleaseSpace(r) BY <1>10 DEF ReleaseSpace, AddUsed, WriteStorages
  <1>11. CASE MarkDeleted(r) BY <1>11 DEF MarkDeleted, Marked
  <1>12. CASE DeleteFromKube(r) BY <1>12 DEF DeleteFromKube, CallKube
  <1>13. CASE Unsubscribe(r) BY <1>13 DEF Unsubscribe, CallUnsubscribe
  <1>14. CASE ReadOldCapacity(r) BY <1>14 DEF ReadOldCapacity
  <1>15. CASE CheckFit(r) BY <1>15 DEF CheckFit
  <1>16. CASE Recharge(r) BY <1>16 DEF Recharge, AddUsed, WriteStorages
  <1>17. CASE SetCapacity(r) BY <1>17 DEF SetCapacity, Resized
  <1>18. CASE UpdateInKube(r) BY <1>18 DEF UpdateInKube, CallKube
  <1>19. CASE ListVolumes(r) BY <1>19 DEF ListVolumes
  <1>20. CASE ListFails(r) BY <1>20 DEF ListFails
  <1>21. CASE MarkAllDeleted(r) BY <1>21 DEF MarkAllDeleted, Marked
  <1>22. CASE UnsubscribeAll(r) BY <1>22 DEF UnsubscribeAll, CallUnsubscribe
  <1>23. CASE CountName(r) BY <1>23 DEF CountName
  <1>24. CASE ResetStorage(r) BY <1>24 DEF ResetStorage, ResetStorageRow, WriteStorages
  <1>25. CASE CountNameAgain(r) BY <1>25 DEF CountNameAgain
  <1>26. CASE InsertStorage(r) BY <1>26 DEF InsertStorage, InsertStorageRow, WriteStorages
  <1>27. CASE FindStorage(r) BY <1>27 DEF FindStorage
  <1>28. CASE CountNewName(r) BY <1>28 DEF CountNewName
  <1>29. CASE WriteStorage(r) BY <1>29 DEF WriteStorage, Rewritten
  <1>30. CASE CountVolumes(r) BY <1>30 DEF CountVolumes
  <1>31. CASE DropStorage(r) BY <1>31 DEF DropStorage, DropStorageRow, WriteStorages
  <1>32. CASE Commit(r) BY <1>32 DEF Commit, Committed
  <1>33. CASE DbError(r) BY <1>33 DEF DbError
  <1>34. CASE PoolTimeout(r) BY <1>34 DEF PoolTimeout
  <1> QED
    BY <1>1, <1>2, <1>3, <1>4, <1>5, <1>6, <1>7, <1>8, <1>9, <1>10, <1>11, <1>12, <1>13, <1>14,
       <1>15, <1>16, <1>17, <1>18, <1>19, <1>20, <1>21, <1>22, <1>23, <1>24, <1>25, <1>26, <1>27,
       <1>28, <1>29, <1>30, <1>31, <1>32, <1>33, <1>34 DEF Step

-----------------------------------------------------------------------------
(* A row once committed stays in the table.                                *)

LEMMA RowsStay ==
  ASSUME StoreTypeOK, DirtyFits, NEW r \in Requests, Step(r), NEW i \in RowId, volumes[i] # NoRow
  PROVE  volumes'[i] # NoRow
  <1>1. CASE Committed(r)
    <2>1. dirtyVolume[i].tx = r => dirtyVolume[i].row # NoRow
      BY IdsDistinct DEF DirtyFits
    <2> QED BY <1>1, <2>1 DEF Committed, CommitTx, VolumesSeen, View
  <1>2. CASE UNCHANGED volumes
    BY <1>2
  <1>3. Committed(r) \/ UNCHANGED volumes
    BY StepShape DEF Quiet, Undone, Inserted, Marked, Resized, Rewritten, RollbackTx,
       InsertVolumeRow, MarkVolumesDeleted, SetVolumeCapacity, WriteVolumes, RewriteStorageRow
  <1> QED BY <1>1, <1>2, <1>3

(* A transaction sees the committed rows, in some version.                 *)
LEMMA CommittedSeen ==
  ASSUME DirtyFits, NEW r \in Requests, NEW i \in RowId, volumes[i] # NoRow
  PROVE  VolumesSeen(r)[i] # NoRow
  BY IdsDistinct DEF DirtyFits, VolumesSeen, View

-----------------------------------------------------------------------------
(* The local state of a request stays well typed.                          *)

LEMMA CallFields ==
  ASSUME NEW c \in Calls
  PROVE  /\ c \in CallType
         /\ c.op \in Ops
         /\ c.ns \in Namespaces
         /\ c.label \in Labels
         /\ c.owner \in Owners \cup {NoName}
         /\ c.tariff \in Tariffs \cup {FreeTariff}
         /\ c.storage \in StorageNames \cup {NoName}
         /\ c.name \in StorageNames \cup {NoName}
         /\ c.capacity \in Int \cup {NoSize}
         /\ c.op \in {"directCreate", "import", "adminResize", "createStorage"} => c.capacity \in Int
         /\ c.op \in {"directCreate", "createStorage", "updateStorage", "deleteStorage"}
              => c.storage \in StorageNames
         /\ c.op \in {"directCreate", "create", "deleteUser"} => c.owner \in Owners
  BY CallsTyped, CallsBound DEF CallType

(* What is known of the request that takes a step.                         *)
LEMMA LocalFields ==
  ASSUME RequestsTypeOK, NEW r \in Requests
  PROVE  /\ loc[r] \in LocType
         /\ loc[r].storage \in StorageNames \cup {NoName}
         /\ loc[r].capacity \in Int
         /\ loc[r].seen \in Int
         /\ loc[r].vols \in SUBSET RowId
  BY DEF RequestsTypeOK, LocType

(* The request moved to "step" with locals l.                              *)
LEMMA GoWithFits ==
  ASSUME RequestsTypeOK, NEW r \in Requests, LocalFit(r), pc[r] # "idle",
         NEW step \in ActiveSteps, NEW l \in LocType, GoWith(r, step, l),
         step \in StorageSteps => call[r].op = "createStorage",
         \/ step \in {"subscribe", "countLabel", "reserve", "insert", "countNewName", "writeStorage"}
         \/ step = "begin" /\ call[r].op \in {"create", "directCreate"}
         => l.storage \in StorageNames,
         step \in {"oldCapacity", "fit", "recharge", "setCapacity"} => \E i \in RowId : l.vols = {i},
         step = "tariff" => call[r].op \in {"create", "resize"},
         step = "subscribe" => call[r].op = "create",
         \A i \in l.vols : volumes'[i] # NoRow
  PROVE  RequestsTypeOK' /\ LocalFit(r)'
  <1>1. RequestsTypeOK'
    BY DEF RequestsTypeOK, GoWith
  <1>2. pc'[r] = step /\ loc'[r] = l /\ call' = call
    BY DEF RequestsTypeOK, GoWith
  <1>3. LocalFit(r)'
    BY <1>2 DEF LocalFit
  <1> QED BY <1>1, <1>3

LEMMA AnswerFits ==
  ASSUME RequestsTypeOK, NEW r \in Requests, LocalFit(r), pc[r] # "idle",
         NEW answer \in Replies, Answer(r, answer)
  PROVE  RequestsTypeOK' /\ LocalFit(r)'
  <1>1. Blank \in LocType
    BY DEF Blank, LocType
  <1>2. RequestsTypeOK'
    BY <1>1 DEF RequestsTypeOK, Answer
  <1>3. pc'[r] = "done" /\ loc'[r] = Blank /\ call' = call
    BY DEF RequestsTypeOK, Answer
  <1>4. LocalFit(r)'
    BY <1>3 DEF LocalFit, Blank, StorageSteps
  <1> QED BY <1>2, <1>4
LEMMA GoFits ==
  ASSUME RequestsTypeOK, NEW r \in Requests, LocalFit(r), pc[r] # "idle",
         NEW step \in ActiveSteps, Go(r, step),
         step \in StorageSteps => call[r].op = "createStorage",
         \/ step \in {"subscribe", "countLabel", "reserve", "insert", "countNewName", "writeStorage"}
         \/ step = "begin" /\ call[r].op \in {"create", "directCreate"}
         => loc[r].storage \in StorageNames,
         step \in {"oldCapacity", "fit", "recharge", "setCapacity"} => \E i \in RowId : loc[r].vols = {i},
         step = "tariff" => call[r].op \in {"create", "resize"},
         step = "subscribe" => call[r].op = "create",
         \A i \in loc[r].vols : volumes'[i] # NoRow
  PROVE  RequestsTypeOK' /\ LocalFit(r)'
  <1>1. loc[r] \in LocType
    BY LocalFields
  <1>2. GoWith(r, step, loc[r])
    BY DEF Go, GoWith, RequestsTypeOK
  <1> QED BY <1>1, <1>2, GoWithFits

(* Every step of a request leaves it with well-typed locals, fit for the   *)
(* place it has reached.                                                   *)
LEMMA StepFits ==
  ASSUME TypeOK, DirtyFits, NEW r \in Requests, LocalFit(r), Step(r)
  PROVE  RequestsTypeOK' /\ LocalFit(r)'
  <1>1. RequestsTypeOK /\ StoreTypeOK
    BY DEF TypeOK
  <1>2. pc[r] \in ActiveSteps /\ pc[r] # "idle"
    BY StepShape DEF Quiet, Undone, Committed, Inserted, Marked, Resized, Rewritten,
       ActiveSteps, OutsideSteps, InsideSteps
  <1>3. call[r] \in Calls
    BY <1>2 DEF LocalFit
  <1>4. \A i \in loc[r].vols : volumes'[i] # NoRow
    BY <1>1, RowsStay, LocalFields DEF LocalFit
  <1>5. \A answer \in Replies : Refuse(r, answer) => RequestsTypeOK' /\ LocalFit(r)'
    BY <1>1, <1>2, AnswerFits DEF Refuse
  <1>6. ActiveSteps = OutsideSteps \cup InsideSteps
    BY DEF ActiveSteps
  <1> USE DEF OutsideSteps, InsideSteps, StorageSteps, Replies
  <1>11. CASE FetchTariff(r)
    <2>1. SUFFICES ASSUME NEW tariff \in TariffAnswers(call[r].ns, call[r].tariff),
                          GoWith(r, IF call[r].op = "create" THEN "pick" ELSE "begin",
                                 [loc[r] EXCEPT !.capacity = tariff.limit])
                   PROVE  RequestsTypeOK' /\ LocalFit(r)'
      BY <1>11, <1>5 DEF FetchTariff
    <2>2. tariff.limit \in Int
      BY <1>3, CallFields, ServicesTyped DEF TariffAnswers, Tariff
    <2>3. [loc[r] EXCEPT !.capacity = tariff.limit] \in LocType
      BY <1>1, <2>2, LocalFields DEF LocType
    <2>4. [loc[r] EXCEPT !.capacity = tariff.limit].vols = loc[r].vols
      BY <1>1, LocalFields DEF LocType
    <2>5. call[r].op \in {"create", "resize"}
      BY <1>11 DEF FetchTariff, LocalFit
    <2> QED BY <1>1, <1>2, <1>4, <1>6, <2>1, <2>3, <2>4, <2>5, GoWithFits
  <1>12. CASE PickStorage(r)
    <2>1. SUFFICES ASSUME NEW i \in Candidates(call[r], loc[r].capacity),
                          GoWith(r, IF call[r].op = "create" /\ call[r].tariff # FreeTariff
                                    THEN "subscribe" ELSE "begin",
                                 [loc[r] EXCEPT !.storage = storages[i].name])
                   PROVE  RequestsTypeOK' /\ LocalFit(r)'
      BY <1>12, <1>5 DEF PickStorage
    <2>2. storages[i].name \in StorageNames
      BY <1>1 DEF Candidates, LiveStoragesNamed, StoragesNamed, LeastUsedStorages, Live,
         StoreTypeOK, StorageRow
    <2> DEFINE l == [loc[r] EXCEPT !.storage = storages[i].name]
    <2>3. l \in LocType
      BY <1>1, <2>2, LocalFields DEF LocType
    <2>4. l.vols = loc[r].vols /\ l.storage \in StorageNames
      BY <1>1, <2>2, LocalFields DEF LocType
    <2>5. GoWith(r, IF call[r].op = "create" /\ call[r].tariff # FreeTariff
                    THEN "subscribe" ELSE "begin", l)
      BY <2>1
    <2> HIDE DEF l
    <2> QED BY <1>1, <1>2, <1>4, <1>6, <2>3, <2>4, <2>5, GoWithFits
  <1>13. CASE Subscribe(r)
    BY <1>13, <1>1, <1>2, <1>4, <1>5, <1>6, GoFits DEF Subscribe, LocalFit
  <1>14. CASE Begin(r)
    <2>1. FirstInside(call[r]) \in ActiveSteps
      BY <1>6 DEF FirstInside
    <2>2. FirstInside(call[r]) \in StorageSteps => call[r].op = "createStorage"
      BY <1>3, CallFields DEF FirstInside, Ops
    <2>3. FirstInside(call[r]) = "countLabel" => call[r].op \in {"create", "directCreate"}
      BY DEF FirstInside
    <2>4. FirstInside(call[r]) \notin {"tariff", "subscribe", "begin", "reserve", "insert", "countNewName",
                                      "writeStorage", "oldCapacity", "fit", "recharge", "setCapacity"}
      BY DEF FirstInside
    <2>5. FirstInside(call[r]) = "countLabel" => loc[r].storage \in StorageNames
      BY <1>14, <2>3 DEF Begin, LocalFit
    <2>6. Go(r, FirstInside(call[r]))
      BY <1>14 DEF Begin
    <2> QED BY <1>1, <1>2, <1>4, <2>1, <2>2, <2>4, <2>5, <2>6, GoFits
  <1>15. CASE CountLabel(r)
    BY <1>15, <1>1, <1>2, <1>4, <1>5, <1>6, GoFits DEF CountLabel, LocalFit
  <1>16. CASE ReserveSpace(r)
    BY <1>16, <1>1, <1>2, <1>4, <1>5, <1>6, GoFits DEF ReserveSpace, LocalFit
  <1>17. CASE InsertVolume(r)
    BY <1>17, <1>1, <1>2, <1>4, <1>5, <1>6, GoFits DEF InsertVolume, LocalFit
  <1>18. CASE CreateInKube(r)
    BY <1>18, <1>1, <1>2, <1>4, <1>5, <1>6, GoFits DEF CreateInKube, CallKube, LocalFit
  <1>19. CASE SelectVolume(r)
    <2>1. SUFFICES ASSUME NEW i \in VolumesLabelled(VolumesSeen(r), call[r].ns, call[r].label),
                          NEW step \in {"release", "oldCapacity"}, NEW capacity \in Int,
                          GoWith(r, step, [loc[r] EXCEPT !.vols = {i},
                                                         !.storage = VolumesSeen(r)[i].storage,
                                                         !.capacity = capacity])
                   PROVE  RequestsTypeOK' /\ LocalFit(r)'
      <3>1. \A i \in VolumesLabelled(VolumesSeen(r), call[r].ns, call[r].label) :
              VolumesSeen(r)[i].capacity \in Int
        BY <1>1, ViewTyped DEF VolumesLabelled, Live, VolumeRow
      <3>2. loc[r].capacity \in Int /\ (call[r].op = "adminResize" => call[r].capacity \in Int)
        BY <1>1, <1>3, LocalFields, CallFields
      <3> QED BY <1>19, <1>5, <2>1, <3>1, <3>2 DEF SelectVolume
    <2> DEFINE l == [loc[r] EXCEPT !.vols = {i}, !.storage = VolumesSeen(r)[i].storage,
                                   !.capacity = capacity]
    <2>2. i \in RowId /\ VolumesSeen(r)[i] \in VolumeRow
      BY <1>1, ViewTyped DEF VolumesLabelled, Live
    <2>3. l \in LocType /\ l.vols = {i}
      BY <1>1, <2>2, LocalFields DEF LocType, VolumeRow
    <2>4. GoWith(r, step, l)
      BY <2>1
    <2>5. volumes'[i] # NoRow
      <3>1. dirtyVolume[i].tx # r
        BY <1>19, <2>2, IdsDistinct DEF SelectVolume, DirtyFits, WroteSteps
      <3>2. volumes[i] # NoRow
        BY <2>2, <3>1, IdsDistinct DEF VolumesSeen, View
      <3> QED BY <1>1, <2>2, <3>2, RowsStay
    <2> HIDE DEF l
    <2> QED BY <1>1, <1>2, <1>6, <2>2, <2>3, <2>4, <2>5, GoWithFits
  <1>20. CASE ReleaseSpace(r)
    BY <1>20, <1>1, <1>2, <1>4, <1>5, <1>6, GoFits DEF ReleaseSpace, LocalFit
  <1>21. CASE MarkDeleted(r)
    BY <1>21, <1>1, <1>2, <1>4, <1>5, <1>6, GoFits DEF MarkDeleted, LocalFit
  <1>22. CASE DeleteFromKube(r)
    BY <1>22, <1>1, <1>2, <1>4, <1>5, <1>6, GoFits DEF DeleteFromKube, CallKube, LocalFit
  <1>23. CASE Unsubscribe(r)
    BY <1>23, <1>1, <1>2, <1>4, <1>5, <1>6, GoFits DEF Unsubscribe, CallUnsubscribe, LocalFit
  <1>24. CASE ReadOldCapacity(r)
    <2> DEFINE l == [loc[r] EXCEPT !.seen = VolumesSeen(r)[TheVolume(r)].capacity]
    <2>1. \E i \in RowId : loc[r].vols = {i}
      BY <1>24 DEF ReadOldCapacity, LocalFit
    <2>2. TheVolume(r) \in RowId /\ TheVolume(r) \in loc[r].vols
      BY <2>1 DEF TheVolume
    <2>3. VolumesSeen(r)[TheVolume(r)] \in VolumeRow
      BY <1>1, <2>2, ViewTyped, CommittedSeen DEF LocalFit
    <2>4. l \in LocType /\ l.vols = loc[r].vols
      BY <1>1, <2>3, LocalFields DEF LocType, VolumeRow
    <2>5. GoWith(r, "fit", l)
      BY <1>24 DEF ReadOldCapacity
    <2> HIDE DEF l
    <2> QED BY <1>1, <1>2, <1>4, <1>6, <2>1, <2>4, <2>5, GoWithFits
  <1>25. CASE CheckFit(r)
    BY <1>25, <1>1, <1>2, <1>4, <1>5, <1>6, GoFits DEF CheckFit, LocalFit
  <1>26. CASE Recharge(r)
    BY <1>26, <1>1, <1>2, <1>4, <1>5, <1>6, GoFits DEF Recharge, LocalFit
  <1>27. CASE SetCapacity(r)
    BY <1>27, <1>1, <1>2, <1>4, <1>5, <1>6, GoFits DEF SetCapacity, LocalFit
  <1>28. CASE UpdateInKube(r)
    BY <1>28, <1>1, <1>2, <1>4, <1>5, <1>6, GoFits DEF UpdateInKube, CallKube, LocalFit
  <1>29. CASE ListVolumes(r)
    <2> DEFINE l == [loc[r] EXCEPT !.vols = ListedVolumes(call[r])]
    <2>1. ListedVolumes(call[r]) \in SUBSET RowId
      BY DEF ListedVolumes, VolumesOfUser, VolumesOfNamespace
    <2>2. \A i \in ListedVolumes(call[r]) : volumes[i] # NoRow
      BY DEF ListedVolumes, VolumesOfUser, VolumesOfNamespace, Live
    <2>3. l \in LocType /\ l.vols = ListedVolumes(call[r])
      BY <1>1, <2>1, LocalFields DEF LocType
    <2>4. \A i \in l.vols : volumes'[i] # NoRow
      BY <1>1, <2>1, <2>2, <2>3, RowsStay
    <2>5. GoWith(r, "markAll", l)
      BY <1>29 DEF ListVolumes
    <2> HIDE DEF l
    <2> QED BY <1>1, <1>2, <1>6, <2>3, <2>4, <2>5, GoWithFits
  <1>30. CASE ListFails(r)
    BY <1>30, <1>1, <1>2, <1>4, <1>5, <1>6, GoFits DEF ListFails, LocalFit
  <1>31. CASE MarkAllDeleted(r)
    BY <1>31, <1>1, <1>2, <1>4, <1>5, <1>6, GoFits DEF MarkAllDeleted, LocalFit
  <1>32. CASE UnsubscribeAll(r)
    BY <1>32, <1>1, <1>2, <1>4, <1>5, <1>6, GoFits DEF UnsubscribeAll, CallUnsubscribe, LocalFit
  <1>33. CASE CountName(r)
    BY <1>33, <1>1, <1>2, <1>4, <1>5, <1>6, GoFits DEF CountName, LocalFit
  <1>34. CASE ResetStorage(r)
    BY <1>34, <1>1, <1>2, <1>4, <1>5, <1>6, GoFits DEF ResetStorage, LocalFit
  <1>35. CASE CountNameAgain(r)
    BY <1>35, <1>1, <1>2, <1>4, <1>5, <1>6, GoFits DEF CountNameAgain, LocalFit
  <1>36. CASE InsertStorage(r)
    BY <1>36, <1>1, <1>2, <1>4, <1>5, <1>6, GoFits DEF InsertStorage, LocalFit
  <1>37. CASE FindStorage(r)
    <2> DEFINE l(storage, capacity, seen) ==
                 [loc[r] EXCEPT !.storage = storage, !.capacity = capacity, !.seen = seen]
    <2>1. \A storage \in StorageNames, capacity, seen \in Int :
            /\ l(storage, capacity, seen) \in LocType
            /\ l(storage, capacity, seen).storage = storage
            /\ l(storage, capacity, seen).vols = loc[r].vols
      BY <1>1, LocalFields DEF LocType
    <2>2. \A i \in LiveStoragesNamed(StoragesSeen(r), call[r].storage) :
            StoragesSeen(r)[i] \in StorageRow
      BY <1>1, ViewTyped DEF LiveStoragesNamed, StoragesNamed
    <2>3. SUFFICES ASSUME NEW step \in {"countLabel", "countNewName", "writeStorage", "countVolumes"},
                          NEW storage \in StorageNames, NEW capacity \in Int, NEW seen \in Int,
                          GoWith(r, step, l(storage, capacity, seen))
                   PROVE  RequestsTypeOK' /\ LocalFit(r)'
      <3> DEFINE found == LiveStoragesNamed(StoragesSeen(r), call[r].storage)
                 s(i) == StoragesSeen(r)[i]
                 c == call[r]
                 seen == loc[r].seen
      <3>1. \A i \in found : s(i).name \in StorageNames /\ s(i).size \in Int /\ s(i).used \in Int
        BY <2>2 DEF StorageRow
      <3>2. c.op = "import" => c.capacity \in Int
        BY <1>3, CallFields
      <3>3. seen \in Int /\ c.name \in StorageNames \cup {NoName} /\ c.capacity \in Int \cup {NoSize}
        BY <1>1, <1>3, LocalFields, CallFields
      <3>4. \A storage, capacity : [loc[r] EXCEPT !.storage = storage, !.capacity = capacity]
                                    = l(storage, capacity, seen)
        BY <1>1, LocalFields DEF LocType
      <3>5. \/ \E answer \in Replies : Refuse(r, answer)
            \/ \E i \in found :
                 \/ c.op = "import" /\ GoWith(r, "countLabel", l(s(i).name, c.capacity, seen))
                 \/ \E step \in {"countNewName", "writeStorage"} :
                      GoWith(r, step, l(IF c.name # NoName THEN c.name ELSE s(i).name,
                                        IF c.capacity # NoSize THEN c.capacity ELSE s(i).size,
                                        s(i).used))
                 \/ GoWith(r, "countVolumes", l(s(i).name, s(i).size, s(i).used))
        BY <1>37, <3>4 DEF FindStorage
      <3> HIDE DEF l, s, c, seen, found
      <3> QED BY <1>5, <2>3, <3>1, <3>2, <3>3, <3>5
    <2> HIDE DEF l
    <2> QED BY <1>1, <1>2, <1>4, <1>6, <2>1, <2>3, GoWithFits
  <1>38. CASE CountNewName(r)
    BY <1>38, <1>1, <1>2, <1>4, <1>5, <1>6, GoFits DEF CountNewName, LocalFit
  <1>39. CASE WriteStorage(r)
    BY <1>39, <1>1, <1>2, <1>4, <1>5, <1>6, GoFits DEF WriteStorage, LocalFit
  <1>40. CASE CountVolumes(r)
    BY <1>40, <1>1, <1>2, <1>4, <1>5, <1>6, GoFits DEF CountVolumes, LocalFit
  <1>41. CASE DropStorage(r)
    BY <1>41, <1>1, <1>2, <1>4, <1>5, <1>6, GoFits DEF DropStorage, LocalFit
  <1>42. CASE Commit(r)
    BY <1>42, <1>1, <1>2, <1>4, <1>5, <1>6, AnswerFits DEF Commit
  <1>43. CASE DbError(r)
    BY <1>43, <1>5 DEF DbError
  <1>44. CASE PoolTimeout(r)
    BY <1>44, <1>5 DEF PoolTimeout
  <1> QED
    BY <1>11, <1>12, <1>13, <1>14, <1>15, <1>16, <1>17, <1>18, <1>19, <1>20, <1>21, <1>22, <1>23,
       <1>24, <1>25, <1>26, <1>27, <1>28, <1>29, <1>30, <1>31, <1>32, <1>33, <1>34, <1>35, <1>36,
       <1>37, <1>38, <1>39, <1>40, <1>41, <1>42, <1>43, <1>44 DEF Step
(* A step of one request leaves the others fit for their places.           *)
LEMMA StepLocalsFit ==
  ASSUME TypeOK, DirtyFits, LocalsFit, NEW r \in Requests, Step(r)
  PROVE  RequestsTypeOK' /\ LocalsFit'
  <1>1. RequestsTypeOK' /\ LocalFit(r)'
    BY StepFits DEF LocalsFit
  <1>2. ASSUME NEW q \in Requests, q # r
        PROVE  LocalFit(q)'
    <2>1. pc'[q] = pc[q]
      BY <1>2, StepShape DEF Quiet, Undone, Committed, Inserted, Marked, Resized, Rewritten, MovesTo,
         TypeOK, RequestsTypeOK
    <2>2. call'[q] = call[q] /\ loc'[q] = loc[q]
      BY <1>2, StepShape DEF OwnLocals, TypeOK, RequestsTypeOK
    <2>3. \A i \in loc[q].vols : volumes'[i] # NoRow
      BY RowsStay, LocalFields DEF LocalsFit, LocalFit, TypeOK
    <2> QED BY <2>1, <2>2, <2>3 DEF LocalsFit, LocalFit
  <1> QED BY <1>1, <1>2 DEF LocalsFit

-----------------------------------------------------------------------------
(* A step keeps the tables and the services well typed.                    *)

LEMMA NewVolumeTyped ==
  ASSUME TypeOK, NEW r \in Requests, LocalFit(r), pc[r] = "insert"
  PROVE  NewVolume(r) \in VolumeRow
  <1>1. call[r] \in Calls /\ loc[r].storage \in StorageNames
    BY DEF LocalFit
  <1>2. loc[r].capacity \in Int
    BY LocalFields DEF TypeOK
  <1> QED BY <1>1, <1>2, CallFields, CallsTyped DEF NewVolume, VolumeRow

LEMMA QuietTyped ==
  ASSUME StoreTypeOK, UNCHANGED storeVars
  PROVE  StoreTypeOK'
  BY DEF StoreTypeOK, storeVars

LEMMA StepStoreTyped ==
  ASSUME TypeOK, DirtyFits, NEW r \in Requests, LocalFit(r), Step(r)
  PROVE  StoreTypeOK'
  <1>1. StoreTypeOK /\ RequestsTypeOK
    BY DEF TypeOK
  <1>2. \A answer : Refuse(r, answer) => StoreTypeOK'
    BY <1>1, EndTyped DEF Refuse
  <1>3. UNCHANGED storeVars => StoreTypeOK'
    BY <1>1, QuietTyped
  <1>4. /\ loc[r].capacity \in Int /\ loc[r].seen \in Int /\ loc[r].vols \in SUBSET RowId
        /\ -loc[r].capacity \in Int /\ loc[r].capacity - loc[r].seen \in Int
    BY <1>1, LocalFields
  <1>5. \A i \in loc[r].vols : VolumesSeen(r)[i] # NoRow
    BY <1>1, <1>4, CommittedSeen DEF LocalFit
  <1>6. CASE UNCHANGED storeVars \/ \E answer : Refuse(r, answer)
    BY <1>2, <1>3, <1>6
  <1>7. CASE ReserveSpace(r) \/ ReleaseSpace(r) \/ Recharge(r)
    BY <1>1, <1>4, <1>7, AddUsedTyped DEF ReserveSpace, ReleaseSpace, Recharge
  <1>8. CASE InsertVolume(r)
    BY <1>1, <1>2, <1>8, NewVolumeTyped, InsertVolumeRowTyped DEF InsertVolume
  <1>9. CASE MarkDeleted(r) \/ MarkAllDeleted(r)
    BY <1>1, <1>4, <1>5, <1>9, MarkVolumesDeletedTyped DEF MarkDeleted, MarkAllDeleted
  <1>10. CASE SetCapacity(r)
    <2>1. TheVolume(r) \in loc[r].vols
      BY <1>10 DEF SetCapacity, LocalFit, TheVolume
    <2> QED BY <1>1, <1>4, <1>5, <1>10, <2>1, SetVolumeCapacityTyped DEF SetCapacity
  <1>11. CASE ResetStorage(r) \/ InsertStorage(r)
    <2>1. call[r] \in Calls /\ call[r].op = "createStorage"
      BY <1>11 DEF ResetStorage, InsertStorage, LocalFit, StorageSteps
    <2>2. call[r].storage \in StorageNames /\ call[r].capacity \in Int
      BY <2>1, CallFields
    <2> QED BY <1>1, <1>2, <1>11, <2>2, ResetStorageRowTyped, InsertStorageRowTyped
            DEF ResetStorage, InsertStorage
  <1>12. CASE WriteStorage(r)
    <2>1. loc[r].storage \in StorageNames
      BY <1>12 DEF WriteStorage, LocalFit
    <2> QED BY <1>1, <1>2, <1>4, <1>12, <2>1, RewriteStorageRowTyped DEF WriteStorage
  <1>13. CASE DropStorage(r)
    BY <1>1, <1>2, <1>13, DropStorageRowTyped DEF DropStorage
  <1>14. CASE Commit(r)
    BY <1>1, <1>2, <1>14, EndTyped DEF Commit
  <1> QED
    BY <1>6, <1>7, <1>8, <1>9, <1>10, <1>11, <1>12, <1>13, <1>14
    DEF Step, FetchTariff, PickStorage, Subscribe, Begin, CountLabel, CreateInKube, CallKube,
        SelectVolume, DeleteFromKube, Unsubscribe, CallUnsubscribe, ReadOldCapacity, CheckFit,
        UpdateInKube, ListVolumes, ListFails, UnsubscribeAll, CountName, CountNameAgain, FindStorage,
        CountNewName, CountVolumes, DbError, PoolTimeout, storeVars
LEMMA StepServicesTyped ==
  ASSUME TypeOK, NEW r \in Requests, LocalFit(r), Step(r)
  PROVE  ServicesTypeOK'
  <1>1. /\ kube \in [Namespaces \X Labels -> Int \cup {NoRow}] /\ subs \subseteq RowId
        /\ r \in RowId
    BY DEF TypeOK, ServicesTypeOK, RowId
  <1>2. loc[r].capacity \in Int /\ loc[r].vols \subseteq RowId
    BY LocalFields DEF TypeOK
  <1>3. CASE UNCHANGED serviceVars
    BY <1>1, <1>3 DEF serviceVars, ServicesTypeOK
  <1>4. CASE Subscribe(r) \/ Unsubscribe(r) \/ UnsubscribeAll(r)
    <2>1. kube' = kube
      BY <1>4 DEF Subscribe, Unsubscribe, UnsubscribeAll, CallUnsubscribe
    <2>2. subs' \in {subs, subs \cup {r}, subs \ loc[r].vols}
      BY <1>4 DEF Subscribe, Unsubscribe, UnsubscribeAll, CallUnsubscribe
    <2> QED BY <1>1, <2>1, <2>2 DEF ServicesTypeOK
  <1>5. CASE CreateInKube(r) \/ DeleteFromKube(r) \/ UpdateInKube(r)
    <2>1. subs' = subs
      BY <1>5 DEF CreateInKube, DeleteFromKube, UpdateInKube, CallKube
    <2>2. kube' = kube \/ \E capacity \in {loc[r].capacity, NoRow} :
                            kube' = [kube EXCEPT ![RequestKey(r)] = capacity]
      BY <1>5 DEF CreateInKube, DeleteFromKube, UpdateInKube, CallKube, KubePut
    <2>3. kube' \in [Namespaces \X Labels -> Int \cup {NoRow}]
      BY <1>1, <1>2, <2>2
    <2> QED BY <1>1, <2>1, <2>3 DEF ServicesTypeOK
  <1> QED
    BY <1>3, <1>4, <1>5
    DEF Step, FetchTariff, PickStorage, Begin, CountLabel, ReserveSpace, InsertVolume, SelectVolume,
        ReleaseSpace, MarkDeleted, ReadOldCapacity, CheckFit, Recharge, SetCapacity, ListVolumes,
        ListFails, MarkAllDeleted, CountName, ResetStorage, CountNameAgain, InsertStorage, FindStorage,
        CountNewName, WriteStorage, CountVolumes, DropStorage, Commit, DbError, PoolTimeout

-----------------------------------------------------------------------------
(* The versions of volume rows, by the shape of the step.                  *)

(* A request that has not written sees the committed rows.                 *)
LEMMA NothingWritten ==
  ASSUME DirtyFits, NEW r \in Requests, pc[r] \notin WroteSteps, NEW i \in RowId
  PROVE  dirtyVolume[i].tx # r /\ VolumesSeen(r)[i] = volumes[i]
  BY IdsDistinct DEF DirtyFits, VolumesSeen, View

(* Of all steps, what they may do to a row and its uncommitted version.    *)
RowOutcome(r, i) ==
  \/ /\ volumes'[i] = volumes[i]
     /\ dirtyVolume'[i] = dirtyVolume[i]
     /\ dirtyVolume[i].tx = r => pc'[r] \in WroteSteps
  \/ /\ volumes'[i] = volumes[i]
     /\ dirtyVolume[i].tx = r
     /\ dirtyVolume'[i] = Clean
  \/ /\ volumes'[i] = dirtyVolume[i].row
     /\ dirtyVolume[i].tx = r
     /\ dirtyVolume'[i] = Clean
     /\ pc[r] = "commit"
  \/ /\ i = r
     /\ volumes'[i] = NoRow
     /\ volumes[i] = NoRow
     /\ dirtyVolume[i].tx = NoTx
     /\ dirtyVolume'[i] = [tx |-> r, row |-> NewVolume(r)]
     /\ pc[r] = "insert"
     /\ pc'[r] \in {"kubeCreate", "commit"}
     /\ ~LabelUndecided(r, NewVolume(r))
     /\ ~LabelTaken(r, NewVolume(r))
  \/ /\ volumes[i] \in VolumeRow
     /\ volumes'[i] = volumes[i]
     /\ dirtyVolume[i].tx = NoTx
     /\ dirtyVolume'[i].tx = r
     /\ dirtyVolume'[i].row \in VolumeRow
     /\ SameLabel(volumes[i], dirtyVolume'[i].row)
     /\ dirtyVolume'[i].row.owner = volumes[i].owner
     /\ volumes[i].deleted => dirtyVolume'[i].row.deleted
     /\ IF pc[r] \in {"mark", "markAll"} THEN i \in loc[r].vols
                                         ELSE dirtyVolume'[i].row.deleted = volumes[i].deleted
     /\ pc'[r] \in WroteSteps
     /\ pc[r] \notin WroteSteps

LEMMA StepRowOutcome ==
  ASSUME TypeOK, DirtyFits, RowsFresh, NEW r \in Requests, LocalFit(r), Step(r), NEW i \in RowId
  PROVE  RowOutcome(r, i)
  <1>1. StoreTypeOK /\ RequestsTypeOK
    BY DEF TypeOK
  <1>2. volumes[i] \in VolumeRow \cup {NoRow}
    BY <1>1 DEF StoreTypeOK
  <1>3. \A step : MovesTo(r, step) => pc'[r] = step
    BY <1>1 DEF MovesTo, RequestsTypeOK
  <1>4. dirtyVolume[i].tx = r => pc[r] \in WroteSteps
    BY IdsDistinct DEF DirtyFits
  <1>5. CASE Quiet(r)
    BY <1>3, <1>4, <1>5 DEF Quiet, RowOutcome
  <1>6. CASE Undone(r)
    BY <1>1, <1>6 DEF Undone, RollbackTx, Released, RowOutcome, StoreTypeOK
  <1>7. CASE Committed(r)
    BY <1>1, <1>7 DEF Committed, CommitTx, Released, VolumesSeen, View, RowOutcome, StoreTypeOK
  <1>8. CASE Inserted(r)
    <2>1. pc'[r] \in {"kubeCreate", "commit"} /\ pc[r] = "insert"
      BY <1>3, <1>8 DEF Inserted
    <2>2. volumes[r] = NoRow /\ dirtyVolume[r].tx = NoTx
      BY <2>1 DEF RowsFresh, Uninserted
    <2>3. dirtyVolume'[i] = IF i = r THEN [tx |-> r, row |-> NewVolume(r)] ELSE dirtyVolume[i]
      BY <1>8 DEF Inserted, InsertVolumeRow, WriteVolumes, Written
    <2>4. volumes' = volumes
      BY <1>8 DEF Inserted, InsertVolumeRow, WriteVolumes
    <2> QED BY <1>8, <2>1, <2>2, <2>3, <2>4 DEF RowOutcome, Inserted, WroteSteps
  <1>9. CASE Marked(r)
    <2>1. pc'[r] \in WroteSteps /\ pc[r] \notin WroteSteps
      BY <1>3, <1>9 DEF Marked, WroteSteps
    <2>2. VolumesSeen(r)[i] = volumes[i]
      BY <2>1, NothingWritten
    <2>3. /\ volumes' = volumes
          /\ i \in loc[r].vols => dirtyVolume[i].tx \in {r, NoTx}
          /\ dirtyVolume'[i] = IF i \in loc[r].vols
                               THEN [tx |-> r, row |-> [VolumesSeen(r)[i] EXCEPT !.deleted = TRUE]]
                               ELSE dirtyVolume[i]
      BY <1>9 DEF Marked, MarkVolumesDeleted, WriteVolumes, Written, Unlocked
    <2>4. i \in loc[r].vols => volumes[i] \in VolumeRow
      BY <1>2 DEF LocalFit
    <2>5. \A v \in VolumeRow : LET w == [v EXCEPT !.deleted = TRUE]
                              IN  w \in VolumeRow /\ SameLabel(v, w) /\ w.owner = v.owner /\ w.deleted
      BY DEF VolumeRow, SameLabel
    <2> QED BY <1>4, <1>9, <2>1, <2>2, <2>3, <2>4, <2>5 DEF RowOutcome, Marked
  <1>10. CASE Resized(r)
    <2>1. pc'[r] \in WroteSteps /\ pc[r] \notin WroteSteps
      BY <1>3, <1>10 DEF Resized, WroteSteps
    <2>2. VolumesSeen(r)[i] = volumes[i]
      BY <2>1, NothingWritten
    <2>3. /\ volumes' = volumes
          /\ i = TheVolume(r) => dirtyVolume[i].tx \in {r, NoTx}
          /\ dirtyVolume'[i] = IF i = TheVolume(r)
                               THEN [tx |-> r, row |-> [VolumesSeen(r)[i] EXCEPT !.capacity = loc[r].capacity]]
                               ELSE dirtyVolume[i]
      BY <1>10 DEF Resized, SetVolumeCapacity, WriteVolumes, Written, Unlocked
    <2>4. i = TheVolume(r) => volumes[i] \in VolumeRow
      <3>1. TheVolume(r) \in loc[r].vols
        BY <1>10 DEF Resized, LocalFit, TheVolume
      <3> QED BY <1>2, <3>1 DEF LocalFit
    <2>5. loc[r].capacity \in Int
      BY <1>1, LocalFields
    <2>6. \A v \in VolumeRow : LET w == [v EXCEPT !.capacity = loc[r].capacity]
                              IN  /\ w \in VolumeRow /\ SameLabel(v, w) /\ w.owner = v.owner
                                  /\ w.deleted = v.deleted
      BY <2>5 DEF VolumeRow, SameLabel
    <2> QED BY <1>4, <1>10, <2>1, <2>2, <2>3, <2>4, <2>6 DEF RowOutcome, Resized
  <1>11. CASE Rewritten(r)
    <2> DEFINE J == Cascade(r, call[r].storage, loc[r].storage)
    <2>1. pc'[r] \in WroteSteps /\ pc[r] \notin WroteSteps
      BY <1>3, <1>11 DEF Rewritten, WroteSteps
    <2>2. VolumesSeen(r)[i] = volumes[i]
      BY <2>1, NothingWritten
    <2>3. /\ volumes' = volumes
          /\ i \in J => dirtyVolume[i].tx \in {r, NoTx}
          /\ dirtyVolume'[i] = IF i \in J
                               THEN [tx |-> r, row |-> [VolumesSeen(r)[i] EXCEPT !.storage = loc[r].storage]]
                               ELSE dirtyVolume[i]
      BY <1>11 DEF Rewritten, RewriteStorageRow, Written, Unlocked
    <2>4. i \in J => volumes[i] \in VolumeRow
      BY <1>2, <2>2 DEF Cascade
    <2>5. loc[r].storage \in StorageNames
      BY <1>11 DEF Rewritten, LocalFit
    <2>6. \A v \in VolumeRow : LET w == [v EXCEPT !.storage = loc[r].storage]
                              IN  /\ w \in VolumeRow /\ SameLabel(v, w) /\ w.owner = v.owner
                                  /\ w.deleted = v.deleted
      BY <2>5 DEF VolumeRow, SameLabel
    <2> HIDE DEF J
    <2> QED BY <1>4, <1>11, <2>1, <2>2, <2>3, <2>4, <2>6 DEF RowOutcome, Rewritten
  <1> QED BY <1>5, <1>6, <1>7, <1>8, <1>9, <1>10, <1>11, StepShape
(* Other requests keep their places.                                       *)
LEMMA OthersStay ==
  ASSUME RequestsTypeOK, NEW r \in Requests, Step(r), NEW q \in Requests, q # r
  PROVE  pc'[q] = pc[q]
  BY StepShape DEF Quiet, Undone, Committed, Inserted, Marked, Resized, Rewritten, MovesTo, RequestsTypeOK

LEMMA StepDirtyFits ==
  ASSUME TypeOK, DirtyFits, RowsFresh, NEW r \in Requests, LocalFit(r), Step(r)
  PROVE  DirtyFits'
  <1>1. SUFFICES ASSUME NEW i \in RowId
                 PROVE  /\ dirtyVolume'[i].tx = NoTx => dirtyVolume'[i].row = NoRow
                        /\ dirtyVolume'[i].tx # NoTx =>
                             /\ dirtyVolume'[i].row # NoRow
                             /\ pc'[dirtyVolume'[i].tx] \in WroteSteps
                             /\ volumes'[i] # NoRow =>
                                  /\ SameLabel(volumes'[i], dirtyVolume'[i].row)
                                  /\ dirtyVolume'[i].row.owner = volumes'[i].owner
                                  /\ volumes'[i].deleted => dirtyVolume'[i].row.deleted
    BY DEF DirtyFits, SameLabel
  <1>2. dirtyVolume[i].tx \in Requests \cup {NoTx}
    BY DEF TypeOK, StoreTypeOK
  <1>3. \A q \in Requests : q # r => pc'[q] = pc[q]
    BY OthersStay DEF TypeOK
  <1>4. RowOutcome(r, i)
    BY StepRowOutcome
  <1>5. Clean.tx = NoTx /\ Clean.row = NoRow
    BY DEF Clean
  <1>6. pc[r] = "insert" => NewVolume(r) # NoRow
    BY NewVolumeTyped, IdsDistinct
  <1> QED BY <1>2, <1>3, <1>4, <1>5, <1>6, IdsDistinct DEF DirtyFits, RowOutcome, WroteSteps

LEMMA StepRowsFresh ==
  ASSUME TypeOK, DirtyFits, RowsFresh, NEW r \in Requests, LocalFit(r), Step(r)
  PROVE  RowsFresh'
  <1>1. SUFFICES ASSUME NEW q \in Requests, Uninserted(q)'
                 PROVE  volumes'[q] = NoRow /\ dirtyVolume'[q].tx = NoTx
    BY DEF RowsFresh
  <1>2. q \in RowId
    BY DEF RowId
  <1>3. Uninserted(q)
    <2>1. CASE q # r
      BY <1>1, <2>1, OthersStay DEF TypeOK, Uninserted
    <2>2. CASE q = r
      BY <1>1, <2>2, StepShape DEF Quiet, Undone, Committed, Inserted, Marked, Resized, Rewritten, MovesTo,
         Uninserted, TypeOK, RequestsTypeOK, ActiveSteps, OutsideSteps, InsideSteps
    <2> QED BY <2>1, <2>2
  <1>4. volumes[q] = NoRow /\ dirtyVolume[q].tx = NoTx
    BY <1>3 DEF RowsFresh
  <1>5. RowOutcome(r, q)
    BY <1>2, StepRowOutcome
  <1> QED BY <1>1, <1>4, <1>5, IdsDistinct DEF RowOutcome, Uninserted

(* No label is gained by two rows at once.                                 *)
(* A live version claims its label; the label of an inserted row is new.   *)
RowVersions(i) == {volumes[i], dirtyVolume[i].row}

ClaimsLabel(i, w) == \E v \in RowVersions(i) : Live(v) /\ SameLabel(v, w)

TakesLabel(r) ==
  pc[r] = "insert" /\ ~LabelUndecided(r, NewVolume(r)) /\ ~LabelTaken(r, NewVolume(r))

LEMMA LiveVersions ==
  ASSUME TypeOK, DirtyFits, RowsFresh, NEW r \in Requests, LocalFit(r), Step(r),
         NEW i \in RowId, NEW w \in {volumes'[i], dirtyVolume'[i].row}, Live(w)
  PROVE  ClaimsLabel(i, w) \/ (i = r /\ TakesLabel(r) /\ w = NewVolume(r))
  <1> DEFINE NewVersions == {volumes'[i], dirtyVolume'[i].row}
  <1>1. RowOutcome(r, i)
    BY StepRowOutcome
  <1>2. ~Live(Clean.row)
    BY DEF Live, Clean
  <1>3. CASE NewVersions \subseteq RowVersions(i) \cup {Clean.row}
    BY <1>2, <1>3 DEF SameLabel, ClaimsLabel
  <1>4. CASE i = r /\ TakesLabel(r) /\ w \in {NoRow, NewVolume(r)}
    BY <1>4 DEF Live
  <1>5. CASE /\ volumes'[i] = volumes[i]
             /\ SameLabel(volumes[i], dirtyVolume'[i].row)
             /\ volumes[i] \in VolumeRow
             /\ volumes[i].deleted => dirtyVolume'[i].row.deleted
    BY <1>5, IdsDistinct DEF Live, SameLabel, ClaimsLabel, RowVersions
  <1> QED BY <1>1, <1>3, <1>4, <1>5 DEF RowOutcome, RowVersions, TakesLabel

LEMMA NewLabelUnclaimed ==
  ASSUME DirtyFits, NEW r \in Requests, TakesLabel(r), NEW j \in RowId
  PROVE  ~ClaimsLabel(j, NewVolume(r))
  <1>1. pc[r] \notin WroteSteps
    BY DEF TakesLabel, WroteSteps
  <1>2. dirtyVolume[j].tx # r /\ VolumesSeen(r)[j] = volumes[j]
    BY <1>1, NothingWritten
  <1>3. dirtyVolume[j].tx = NoTx => ~Live(dirtyVolume[j].row)
    BY DEF DirtyFits, Live
  <1> QED BY <1>2, <1>3 DEF LabelUndecided, LabelTaken, TakesLabel, ClaimsLabel, RowVersions

LEMMA StepUniqueVersions ==
  ASSUME TypeOK, DirtyFits, RowsFresh, UniqueVersions, NEW r \in Requests, LocalFit(r), Step(r)
  PROVE  UniqueVersions'
  <1> DEFINE NewVersions(i) == {volumes'[i], dirtyVolume'[i].row}
             Fresh(i) == i = r /\ TakesLabel(r)
  <1>1. ASSUME NEW i \in RowId, NEW w \in NewVersions(i), Live(w)
        PROVE  ClaimsLabel(i, w) \/ (Fresh(i) /\ w = NewVolume(r))
    BY <1>1, LiveVersions
  <1>2. ASSUME NEW j \in RowId, Fresh(r)
        PROVE  ~ClaimsLabel(j, NewVolume(r))
    BY <1>2, NewLabelUnclaimed
  <1>3. \A i, j \in RowId : \A v, w : i # j /\ ClaimsLabel(i, v) /\ ClaimsLabel(j, w) => ~SameLabel(v, w)
    BY DEF UniqueVersions, SameLabel, ClaimsLabel, RowVersions
  <1>4. \A i, j \in RowId : \A v, w :
          i # j /\ v \in NewVersions(i) /\ w \in NewVersions(j) /\ Live(v) /\ Live(w) => ~SameLabel(v, w)
    <2>1. SUFFICES ASSUME NEW i \in RowId, NEW j \in RowId, i # j,
                          NEW v \in NewVersions(i), NEW w \in NewVersions(j), Live(v), Live(w)
                   PROVE  ~SameLabel(v, w)
      OBVIOUS
    <2>2. CASE ClaimsLabel(i, v) /\ ClaimsLabel(j, w)
      BY <1>3, <2>1, <2>2
    <2>3. CASE Fresh(i) /\ v = NewVolume(r)
      <3>1. ClaimsLabel(j, w)
        BY <1>1, <2>1, <2>3
      <3> QED BY <1>2, <2>1, <2>3, <3>1 DEF SameLabel, ClaimsLabel
    <2>4. CASE Fresh(j) /\ w = NewVolume(r)
      <3>1. ClaimsLabel(i, v)
        BY <1>1, <2>1, <2>4
      <3> QED BY <1>2, <2>1, <2>4, <3>1 DEF SameLabel, ClaimsLabel
    <2> QED BY <1>1, <2>1, <2>2, <2>3, <2>4
  <1> QED BY <1>4 DEF UniqueVersions, Live, SameLabel
-----------------------------------------------------------------------------
(* IInv is an invariant.                                                   *)

LEMMA InitIInv ==
  ASSUME Init
  PROVE  IInv
  <1>1. /\ storages = [i \in RowId |-> IF i \in SeedRows THEN SeedStorages[i] ELSE NoRow]
        /\ volumes = [i \in RowId |-> IF i \in SeedRows THEN SeedVolumes[i] ELSE NoRow]
        /\ dirtyStorage = [i \in RowId |-> Clean]
        /\ dirtyVolume = [i \in RowId |-> Clean]
    BY DEF Init, StoreInit
  <1>2. StoreTypeOK
    BY <1>1, SeedsTyped DEF StoreTypeOK, Clean
  <1>3. ServicesTypeOK
    <2>1. \A i \in SeedRows : Live(SeedVolumes[i]) => SeedVolumes[i].capacity \in Int
      BY SeedsTyped DEF Live, VolumeRow
    <2>2. \A key \in Namespaces \X Labels :
            kube[key] = IF \E i \in SeedRows : Live(SeedVolumes[i]) /\ Key(SeedVolumes[i]) = key
                        THEN SeedVolumes[CHOOSE i \in SeedRows : /\ Live(SeedVolumes[i])
                                                                /\ Key(SeedVolumes[i]) = key].capacity
                        ELSE NoRow
      BY DEF Init, ServicesInit
    <2>3. \A key \in Namespaces \X Labels : kube[key] \in Int \cup {NoRow}
      BY <2>1, <2>2
    <2>4. kube \in [Namespaces \X Labels -> Int \cup {NoRow}]
      BY <2>3 DEF Init, ServicesInit
    <2>5. subs \subseteq RowId
      BY SeedPaidLive DEF Init, ServicesInit, RowId
    <2> QED BY <2>4, <2>5 DEF ServicesTypeOK
  <1>4. RequestsTypeOK
    BY DEF Init, RequestsTypeOK, Blank, LocType
  <1>5. LocalsFit
    BY DEF Init, LocalsFit, LocalFit, Blank, StorageSteps
  <1>6. DirtyFits
    BY <1>1 DEF DirtyFits, Clean
  <1>7. RowsFresh
    BY <1>1, IdsDistinct DEF RowsFresh, RowId, Clean
  <1>8. UniqueVersions
    <2>1. \A i \in RowId : \A v \in {volumes[i], dirtyVolume[i].row} :
            Live(v) => i \in SeedRows /\ v = SeedVolumes[i]
      BY <1>1 DEF Clean, Live
    <2> QED BY <2>1, SeedsConsistent DEF UniqueVersions
  <1> QED BY <1>2, <1>3, <1>4, <1>5, <1>6, <1>7, <1>8 DEF IInv, TypeOK

LEMMA StepIInv ==
  ASSUME IInv, NEW r \in Requests, Step(r)
  PROVE  IInv'
  <1>1. TypeOK /\ LocalsFit /\ LocalFit(r) /\ DirtyFits /\ RowsFresh /\ UniqueVersions
    BY DEF IInv, LocalsFit
  <1>2. TypeOK'
    BY <1>1, StepStoreTyped, StepServicesTyped, StepLocalsFit DEF TypeOK
  <1> QED
    BY <1>1, <1>2, StepLocalsFit, StepDirtyFits, StepRowsFresh, StepUniqueVersions DEF IInv

LEMMA StartIInv ==
  ASSUME IInv, NEW r \in Requests, NEW c \in Calls, Start(r, c)
  PROVE  IInv'
  <1>1. TypeOK /\ LocalsFit /\ DirtyFits /\ RowsFresh /\ UniqueVersions
    BY DEF IInv
  <1>2. UNCHANGED <<storages, volumes, dirtyStorage, dirtyVolume, kube, subs, reply>> /\ pc[r] = "idle"
    BY DEF Start, storeVars, serviceVars
  <1>3. /\ c \in CallType /\ (c.op = "directCreate" => c.capacity \in Int)
    BY CallFields
  <1> DEFINE l == [Blank EXCEPT !.capacity = IF c.op = "directCreate" THEN c.capacity ELSE 0]
  <1>4. l \in LocType /\ l.vols = {}
    BY <1>3 DEF Blank, LocType
  <1>5. /\ call' = [call EXCEPT ![r] = c]
        /\ pc' = [pc EXCEPT ![r] = FirstStep(c)]
        /\ loc' = [loc EXCEPT ![r] = l]
    BY DEF Start
  <1>6. /\ FirstStep(c) \in {"tariff", "pick", "begin"}
        /\ FirstStep(c) = "tariff" => c.op \in {"create", "resize"}
        /\ FirstStep(c) = "begin" => c.op \notin {"create", "directCreate"}
    BY DEF FirstStep
  <1> HIDE DEF l
  <1>7. RequestsTypeOK'
    BY <1>1, <1>2, <1>3, <1>4, <1>5, <1>6 DEF TypeOK, RequestsTypeOK, ActiveSteps, OutsideSteps
  <1>8. TypeOK'
    BY <1>1, <1>2, <1>7 DEF TypeOK, StoreTypeOK, ServicesTypeOK
  <1>9. LocalsFit'
    <2>1. ASSUME NEW q \in Requests, q # r
          PROVE  LocalFit(q)'
      BY <1>1, <1>2, <1>5, <2>1 DEF LocalsFit, LocalFit, TypeOK, RequestsTypeOK
    <2>2. call'[r] = c /\ pc'[r] = FirstStep(c) /\ loc'[r] = l
      BY <1>1, <1>5 DEF TypeOK, RequestsTypeOK
    <2>3. LocalFit(r)'
      BY <1>4, <1>6, <2>2 DEF LocalFit, StorageSteps
    <2> QED BY <2>1, <2>3 DEF LocalsFit
  <1>10. DirtyFits'
    <2>1. \A q \in Requests : q # r => pc'[q] = pc[q]
      BY <1>1, <1>5 DEF TypeOK, RequestsTypeOK
    <2>2. pc[r] \notin WroteSteps
      BY <1>2 DEF WroteSteps
    <2>3. \A i \in RowId : dirtyVolume[i].tx # r
      BY <1>1, <2>2, NothingWritten
    <2>4. \A i \in RowId : dirtyVolume[i].tx \in Requests \cup {NoTx}
      BY <1>1 DEF TypeOK, StoreTypeOK
    <2> QED BY <1>1, <1>2, <2>1, <2>3, <2>4 DEF DirtyFits, SameLabel
  <1>11. RowsFresh'
    BY <1>1, <1>2, <1>5, <1>6 DEF RowsFresh, Uninserted, TypeOK, RequestsTypeOK
  <1>12. UniqueVersions'
    BY <1>1, <1>2 DEF UniqueVersions, Live, SameLabel
  <1> QED BY <1>8, <1>9, <1>10, <1>11, <1>12 DEF IInv

LEMMA CrashIInv ==
  ASSUME IInv, Crash
  PROVE  IInv'
  <1>1. TypeOK /\ LocalsFit /\ DirtyFits /\ RowsFresh /\ UniqueVersions
    BY DEF IInv
  <1>2. /\ UNCHANGED <<storages, volumes, kube, subs, call, reply>>
        /\ dirtyVolume' = [i \in RowId |-> Clean]
        /\ loc' = [r \in Requests |-> Blank]
        /\ pc' = [r \in Requests |-> IF r \in Active THEN "cut" ELSE pc[r]]
        /\ RollbackAll
    BY DEF Crash, RollbackAll, serviceVars
  <1>3. Blank \in LocType /\ Blank.vols = {}
    BY DEF Blank, LocType
  <1>4. StoreTypeOK' /\ ServicesTypeOK'
    <2>1. StoreTypeOK'
      <3>1. Clean \in [tx : Requests \cup {NoTx}, row : StorageRow \cup {NoRow}]
        BY DEF Clean
      <3>2. Clean \in [tx : Requests \cup {NoTx}, row : VolumeRow \cup {NoRow}]
        BY DEF Clean
      <3> QED BY <1>1, <1>2, <3>1, <3>2 DEF TypeOK, StoreTypeOK, RollbackAll
    <2>2. ServicesTypeOK'
      BY <1>1, <1>2 DEF TypeOK, ServicesTypeOK
    <2> QED BY <2>1, <2>2
  <1>5. \A r \in Requests : \/ pc'[r] = "cut" /\ pc[r] # "idle"
                            \/ pc'[r] = pc[r] /\ pc[r] \in {"idle", "done", "cut"}
    BY <1>1, <1>2 DEF Active, TypeOK, RequestsTypeOK, ActiveSteps, OutsideSteps, InsideSteps
  <1>6. RequestsTypeOK'
    BY <1>1, <1>2, <1>3 DEF TypeOK, RequestsTypeOK
  <1>7. LocalsFit'
    <2>1. SUFFICES ASSUME NEW r \in Requests PROVE LocalFit(r)'
      BY DEF LocalsFit
    <2>2. call'[r] = call[r] /\ loc'[r].vols = {} /\ pc'[r] \in {"idle", "done", "cut"}
      BY <1>2, <1>3, <1>5
    <2>3. pc'[r] # "idle" => call'[r] \in Calls
      BY <1>1, <1>2, <1>5 DEF LocalsFit, LocalFit
    <2> QED BY <2>2, <2>3 DEF LocalFit, StorageSteps
  <1>8. DirtyFits'
    BY <1>2 DEF DirtyFits, Clean
  <1>9. RowsFresh'
    BY <1>1, <1>2, <1>5 DEF RowsFresh, Uninserted, Clean, RowId
  <1>10. UniqueVersions'
    <2>1. \A i \in RowId : volumes'[i] = volumes[i] /\ ~Live(dirtyVolume'[i].row)
      BY <1>2 DEF Clean, Live
    <2> QED BY <1>1, <2>1 DEF UniqueVersions
  <1> QED BY <1>4, <1>6, <1>7, <1>8, <1>9, <1>10 DEF IInv, TypeOK

LEMMA NextIInv ==
  ASSUME IInv, [Next]_vars
  PROVE  IInv'
  <1>1. CASE UNCHANGED vars
    BY <1>1 DEF IInv, vars, storeVars, serviceVars, requestVars, TypeOK, StoreTypeOK, ServicesTypeOK,
       RequestsTypeOK, LocalsFit, LocalFit, DirtyFits, RowsFresh, Uninserted, UniqueVersions,
       Live, SameLabel
  <1> QED BY <1>1, StepIInv, StartIInv, CrashIInv DEF Next, Finished

(* The invariant that the theorems below rest on.                          *)
THEOREM Inductiveness == Spec => []IInv
  <1>1. Init => IInv
    BY InitIInv
  <1>2. IInv /\ [Next]_vars => IInv'
    BY NextIInv
  <1> QED BY <1>1, <1>2, PTL DEF Spec
-----------------------------------------------------------------------------
(* The promises of module Promises.                                        *)

(* Tables, services and requests always hold values of their types: no     *)
(* statement writes a row that the schema has no place for.                *)
THEOREM TypesKept == Spec => []TypeOK
  BY Inductiveness, PTL DEF IInv

(* Two live volumes of a namespace never share a label.                    *)
THEOREM LabelsUnique == Spec => []UniqueLiveLabels
  <1>1. IInv => UniqueLiveLabels
    BY DEF IInv, UniqueVersions, UniqueLiveLabels
  <1> QED BY <1>1, Inductiveness, PTL

(* A volume row stays, keeps its identity and stays deleted.               *)
THEOREM DeletionsFinal == Spec => DeletedForGood
  <1> DEFINE Kept(i) == volumes[i] # NoRow =>
                          /\ volumes'[i] # NoRow
                          /\ SameLabel(volumes[i], volumes'[i])
                          /\ volumes'[i].owner = volumes[i].owner
                          /\ volumes[i].deleted => volumes'[i].deleted
  <1>1. ASSUME IInv, [Next]_vars, NEW i \in RowId
        PROVE  Kept(i)
    <2>1. CASE volumes' = volumes
      BY <2>1 DEF SameLabel
    <2>2. ASSUME NEW r \in Requests, Step(r)
          PROVE  Kept(i)
      <3>1. RowOutcome(r, i) /\ DirtyFits
        BY <1>1, <2>2, StepRowOutcome DEF IInv, LocalsFit
      <3> QED BY <3>1, IdsDistinct DEF RowOutcome, DirtyFits, SameLabel
    <2> QED BY <1>1, <2>1, <2>2 DEF Next, Start, Crash, RollbackAll, Finished, vars, storeVars
  <1>2. IInv /\ [Next]_vars => [\A i \in RowId : Kept(i)]_vars
    BY <1>1
  <1> QED BY <1>2, Inductiveness, PTL DEF Spec, DeletedForGood

(* What a step does to the subscriptions, and to the locals that say which *)
(* volumes are still to be unsubscribed.                                   *)
BillingOutcome(r) ==
  /\ \/ subs' \subseteq subs
     \/ pc[r] = "subscribe" /\ subs' \subseteq subs \cup {r}
  /\ \/ Undone(r)
     \/ /\ pc[r] \in {"mark", "markAll"} =>
            pc'[r] \in {"kubeDelete", "unsubscribeAll"} /\ loc'[r] = loc[r]
        /\ pc[r] = "kubeDelete" => pc'[r] = "unsubscribe" /\ loc'[r] = loc[r]
        /\ pc[r] \in {"unsubscribe", "unsubscribeAll"} =>
            pc'[r] = "commit" /\ subs' = subs \ loc[r].vols
        /\ pc[r] \in {"kubeCreate", "kubeUpdate"} => pc'[r] = "commit"
        /\ pc[r] \notin {"mark", "markAll", "kubeDelete"} =>
            pc'[r] \notin {"kubeDelete", "unsubscribe", "unsubscribeAll"}
(* A call answered with nil was carried out.                               *)
LEMMA OkMeansDone ==
  ASSUME "unreadable" \notin Faults, NEW service, NEW accepted \in BOOLEAN,
         NEW o \in Outcomes(service, accepted), o.ok
  PROVE  o.done
  BY DEF Outcomes

LEMMA StepBilling ==
  ASSUME "unreadable" \notin Faults, RequestsTypeOK, NEW r \in Requests, Step(r)
  PROVE  BillingOutcome(r)
  <1>1. \A step, l : Go(r, step) => pc'[r] = step /\ loc'[r] = loc[r]
    BY DEF Go, RequestsTypeOK
  <1>2. \A step, l : GoWith(r, step, l) => pc'[r] = step
    BY DEF GoWith, RequestsTypeOK
  <1>3. \A answer : Answer(r, answer) => pc'[r] = "done"
    BY DEF Answer, RequestsTypeOK
  <1>4. pc[r] \in ActiveSteps /\ \A answer : Refuse(r, answer) => Undone(r)
    BY StepShape DEF Quiet, Undone, Committed, Inserted, Marked, Resized, Rewritten, Refuse, Answer, MovesTo,
       ActiveSteps, OutsideSteps, InsideSteps
  <1> DEFINE Plain == {"mark", "markAll", "kubeDelete", "unsubscribe", "unsubscribeAll",
                       "kubeCreate", "kubeUpdate"}
  <1>5. CASE UNCHANGED subs /\ \E answer : Refuse(r, answer)
    BY <1>4, <1>5 DEF BillingOutcome
  <1>6. CASE UNCHANGED subs /\ pc[r] \notin Plain
             /\ pc'[r] \notin {"kubeDelete", "unsubscribe", "unsubscribeAll"}
    BY <1>6 DEF BillingOutcome
  <1>7. CASE MarkDeleted(r) \/ MarkAllDeleted(r)
    BY <1>1, <1>7 DEF MarkDeleted, MarkAllDeleted, BillingOutcome, serviceVars
  <1>8. CASE CreateInKube(r) \/ DeleteFromKube(r) \/ UpdateInKube(r)
    BY <1>1, <1>4, <1>8 DEF CreateInKube, DeleteFromKube, UpdateInKube, CallKube, BillingOutcome
  <1>9. CASE Subscribe(r)
    BY <1>1, <1>4, <1>9 DEF Subscribe, BillingOutcome
  <1>10. CASE Unsubscribe(r) \/ UnsubscribeAll(r)
    <2>1. CallUnsubscribe(r, loc[r].vols) /\ pc[r] \in {"unsubscribe", "unsubscribeAll"}
      BY <1>10 DEF Unsubscribe, UnsubscribeAll
    <2>2. subs' \subseteq subs
      BY <2>1 DEF CallUnsubscribe
    <2>3. Undone(r) \/ (pc'[r] = "commit" /\ subs' = subs \ loc[r].vols)
      BY <1>1, <1>4, <2>1, OkMeansDone DEF CallUnsubscribe
    <2> QED BY <2>1, <2>2, <2>3 DEF BillingOutcome
  <1>11. CASE PickStorage(r)
    BY <1>1, <1>2, <1>3, <1>5, <1>6, <1>11 DEF PickStorage, serviceVars
  <1>12. CASE FetchTariff(r)
    BY <1>1, <1>2, <1>3, <1>5, <1>6, <1>12 DEF FetchTariff, serviceVars
  <1>13. CASE Begin(r)
    BY <1>1, <1>2, <1>3, <1>5, <1>6, <1>13 DEF Begin, FirstInside, serviceVars
  <1>14. CASE CountLabel(r)
    BY <1>1, <1>2, <1>3, <1>5, <1>6, <1>14 DEF CountLabel, serviceVars
  <1>15. CASE ReserveSpace(r)
    BY <1>1, <1>2, <1>3, <1>5, <1>6, <1>15 DEF ReserveSpace, serviceVars
  <1>16. CASE InsertVolume(r)
    BY <1>1, <1>2, <1>3, <1>5, <1>6, <1>16 DEF InsertVolume, serviceVars
  <1>17. CASE SelectVolume(r)
    BY <1>1, <1>2, <1>3, <1>5, <1>6, <1>17 DEF SelectVolume, serviceVars
  <1>18. CASE ReleaseSpace(r)
    BY <1>1, <1>2, <1>3, <1>5, <1>6, <1>18 DEF ReleaseSpace, serviceVars
  <1>19. CASE ReadOldCapacity(r)
    BY <1>1, <1>2, <1>3, <1>5, <1>6, <1>19 DEF ReadOldCapacity, serviceVars
  <1>20. CASE CheckFit(r)
    BY <1>1, <1>2, <1>3, <1>5, <1>6, <1>20 DEF CheckFit, serviceVars
  <1>21. CASE Recharge(r)
    BY <1>1, <1>2, <1>3, <1>5, <1>6, <1>21 DEF Recharge, serviceVars
  <1>22. CASE SetCapacity(r)
    BY <1>1, <1>2, <1>3, <1>5, <1>6, <1>22 DEF SetCapacity, serviceVars
  <1>23. CASE ListVolumes(r)
    BY <1>1, <1>2, <1>3, <1>5, <1>6, <1>23 DEF ListVolumes, serviceVars
  <1>24. CASE ListFails(r)
    BY <1>1, <1>2, <1>3, <1>5, <1>6, <1>24 DEF ListFails, serviceVars
  <1>25. CASE CountName(r)
    BY <1>1, <1>2, <1>3, <1>5, <1>6, <1>25 DEF CountName, serviceVars
  <1>26. CASE ResetStorage(r)
    BY <1>1, <1>2, <1>3, <1>5, <1>6, <1>26 DEF ResetStorage, serviceVars
  <1>27. CASE CountNameAgain(r)
    BY <1>1, <1>2, <1>3, <1>5, <1>6, <1>27 DEF CountNameAgain, serviceVars
  <1>28. CASE InsertStorage(r)
    BY <1>1, <1>2, <1>3, <1>5, <1>6, <1>28 DEF InsertStorage, serviceVars
  <1>29. CASE FindStorage(r)
    BY <1>1, <1>2, <1>3, <1>5, <1>6, <1>29 DEF FindStorage, serviceVars
  <1>30. CASE CountNewName(r)
    BY <1>1, <1>2, <1>3, <1>5, <1>6, <1>30 DEF CountNewName, serviceVars
  <1>31. CASE WriteStorage(r)
    BY <1>1, <1>2, <1>3, <1>5, <1>6, <1>31 DEF WriteStorage, serviceVars
  <1>32. CASE CountVolumes(r)
    BY <1>1, <1>2, <1>3, <1>5, <1>6, <1>32 DEF CountVolumes, serviceVars
  <1>33. CASE DropStorage(r)
    BY <1>1, <1>2, <1>3, <1>5, <1>6, <1>33 DEF DropStorage, serviceVars
  <1>34. CASE Commit(r)
    BY <1>1, <1>2, <1>3, <1>5, <1>6, <1>34 DEF Commit, serviceVars
  <1>35. CASE DbError(r)
    BY <1>1, <1>2, <1>3, <1>5, <1>6, <1>35 DEF DbError, serviceVars
  <1>36. CASE PoolTimeout(r)
    BY <1>1, <1>2, <1>3, <1>5, <1>6, <1>36 DEF PoolTimeout, serviceVars
  <1> QED
    BY <1>7, <1>8, <1>9, <1>10, <1>11, <1>12, <1>13, <1>14, <1>15, <1>16, <1>17, <1>18, <1>19,
       <1>20, <1>21, <1>22, <1>23, <1>24, <1>25, <1>26, <1>27, <1>28, <1>29, <1>30, <1>31,
       <1>32, <1>33, <1>34, <1>35, <1>36 DEF Step

LEMMA InitBilling ==
  ASSUME Init
  PROVE  BillingInv
  <1>1. \A i \in subs : i \in SeedRows /\ Live(SeedVolumes[i])
    BY SeedPaidLive DEF Init, ServicesInit
  <1>2. \A i \in SeedRows : volumes[i] = SeedVolumes[i]
    BY DEF Init, StoreInit, RowId
  <1>3. \A i \in RowId : dirtyVolume[i].tx = NoTx
    BY DEF Init, StoreInit, Clean
  <1> QED BY <1>1, <1>2, <1>3 DEF BillingInv, NoBillingAfterDelete, DeletedUnsubscribed, Live

LEMMA StepKeepsBilling ==
  ASSUME "unreadable" \notin Faults, IInv, BillingInv, NEW r \in Requests, Step(r)
  PROVE  BillingInv'
  <1>1. TypeOK /\ RequestsTypeOK /\ LocalFit(r) /\ DirtyFits /\ RowsFresh
    BY DEF IInv, LocalsFit, TypeOK
  <1>2. BillingOutcome(r)
    BY <1>1, StepBilling
  <1>3. \A i \in RowId : RowOutcome(r, i)
    BY <1>1, StepRowOutcome
  <1>4. \A q \in Requests : q # r => pc'[q] = pc[q] /\ loc'[q] = loc[q]
    BY <1>1, OthersStay, StepShape DEF OwnLocals, RequestsTypeOK
  <1>5. ASSUME NEW i \in RowId, i \notin subs, i \in subs'
        PROVE  volumes'[i] = NoRow /\ dirtyVolume'[i].tx = NoTx
    <2>1. i = r /\ pc[r] = "subscribe"
      BY <1>2, <1>5 DEF BillingOutcome
    <2>2. volumes[i] = NoRow /\ dirtyVolume[i].tx = NoTx
      BY <1>1, <2>1 DEF RowsFresh, Uninserted
    <2> QED BY <1>3, <2>1, <2>2, IdsDistinct DEF RowOutcome
  <1>6. NoBillingAfterDelete'
    <2>1. SUFFICES ASSUME NEW i \in RowId, volumes'[i] # NoRow, volumes'[i].deleted, i \in subs
                   PROVE  FALSE
      BY <1>5 DEF NoBillingAfterDelete
    <2>2. volumes'[i] # volumes[i]
      BY <2>1 DEF BillingInv, NoBillingAfterDelete
    <2> QED BY <1>3, <2>1, <2>2, IdsDistinct DEF RowOutcome, BillingInv, DeletedUnsubscribed
  <1>7. DeletedUnsubscribed'
    <2> DEFINE Owed == {"kubeDelete", "unsubscribe", "unsubscribeAll"}
    <2>1. SUFFICES ASSUME NEW i \in RowId, NEW t \in Requests,
                          dirtyVolume'[i].tx = t, dirtyVolume'[i].row.deleted
                   PROVE  IF pc'[t] \in Owed THEN i \in loc'[t].vols ELSE i \notin subs'
      <3>1. \A i \in RowId : dirtyVolume'[i].tx \in Requests \cup {NoTx}
        BY <1>1, StepStoreTyped DEF StoreTypeOK
      <3> QED BY <3>1 DEF DeletedUnsubscribed
    <2>2. i \notin subs => i \notin subs'
      BY <1>5, <2>1, IdsDistinct
    <2>3. dirtyVolume[i] = dirtyVolume'[i] =>
            /\ pc[t] \in WroteSteps
            /\ IF pc[t] \in Owed THEN i \in loc[t].vols ELSE i \notin subs
      BY <1>1, <2>1, IdsDistinct DEF DirtyFits, BillingInv, DeletedUnsubscribed
    <2>4. CASE dirtyVolume[i] = dirtyVolume'[i] /\ t # r
      BY <1>4, <2>2, <2>3, <2>4
    <2>5. CASE dirtyVolume[i] = dirtyVolume'[i] /\ t = r
      <3>1. pc'[r] \in WroteSteps
        BY <1>1, <2>1, <2>5, StepDirtyFits, IdsDistinct DEF DirtyFits
      <3>2. ~Undone(r)
        BY <1>1, <3>1 DEF Undone, MovesTo, RequestsTypeOK, WroteSteps
      <3> QED BY <1>2, <2>2, <2>3, <2>5, <3>2 DEF BillingOutcome, WroteSteps
    <2>6. CASE dirtyVolume[i] # dirtyVolume'[i]
      <3>1. /\ t = r /\ volumes[i] \in VolumeRow
            /\ IF pc[r] \in {"mark", "markAll"} THEN i \in loc[r].vols ELSE volumes[i].deleted
            /\ pc'[r] \in WroteSteps /\ pc[r] \notin WroteSteps
        BY <1>3, <2>1, <2>6, IdsDistinct DEF RowOutcome, Clean, NewVolume
      <3>2. ~Undone(r)
        BY <1>1, <3>1 DEF Undone, MovesTo, RequestsTypeOK, WroteSteps
      <3>3. volumes[i].deleted => i \notin subs
        BY <3>1, IdsDistinct DEF BillingInv, NoBillingAfterDelete
      <3> QED BY <1>2, <2>2, <3>1, <3>2, <3>3 DEF BillingOutcome, WroteSteps
    <2> QED BY <2>4, <2>5, <2>6
  <1> QED BY <1>6, <1>7 DEF BillingInv
LEMMA NextBilling ==
  ASSUME "unreadable" \notin Faults, IInv, BillingInv, [Next]_vars
  PROVE  BillingInv'
  <1>1. CASE UNCHANGED vars
    BY <1>1 DEF vars, storeVars, serviceVars, requestVars, BillingInv, NoBillingAfterDelete, DeletedUnsubscribed
  <1>2. ASSUME NEW r \in Requests, NEW c \in Calls, Start(r, c)
        PROVE  BillingInv'
    <2>1. UNCHANGED <<volumes, dirtyVolume, subs>> /\ pc[r] = "idle"
      BY <1>2 DEF Start, storeVars, serviceVars
    <2>2. \A q \in Requests : q # r => pc'[q] = pc[q] /\ loc'[q] = loc[q]
      BY <1>2 DEF Start, IInv, TypeOK, RequestsTypeOK
    <2>3. \A i \in RowId : dirtyVolume[i].tx # r /\ dirtyVolume[i].tx \in Requests \cup {NoTx}
      BY <2>1, NothingWritten DEF IInv, TypeOK, StoreTypeOK, WroteSteps
    <2> QED BY <2>1, <2>2, <2>3 DEF BillingInv, NoBillingAfterDelete, DeletedUnsubscribed
  <1>3. CASE Crash
    <2>1. UNCHANGED <<volumes, subs>> /\ \A i \in RowId : dirtyVolume'[i].tx = NoTx
      BY <1>3 DEF Crash, RollbackAll, serviceVars, Clean
    <2> QED BY <2>1 DEF BillingInv, NoBillingAfterDelete, DeletedUnsubscribed
  <1> QED BY <1>1, <1>2, <1>3, StepKeepsBilling DEF Next, Finished

(* A deletion about to commit has unsubscribed what it marked or still has *)
(* to, if the clients can read every error billing answers.                *)
THEOREM BillingInvariant ==
  ASSUME "unreadable" \notin Faults
  PROVE  Spec => []BillingInv
  <1>1. Init => BillingInv
    BY InitBilling
  <1>2. IInv /\ BillingInv /\ [Next]_vars => BillingInv'
    BY NextBilling
  <1> QED BY <1>1, <1>2, Inductiveness, PTL DEF Spec

(* Billing never charges for a volume recorded as deleted, under the same  *)
(* assumption; "unreadable" answers break this.                            *)
THEOREM DeletedNotBilled ==
  ASSUME "unreadable" \notin Faults
  PROVE  Spec => []NoBillingAfterDelete
  <1>1. BillingInv => NoBillingAfterDelete
    BY DEF BillingInv
  <1> QED BY <1>1, BillingInvariant, PTL
=============================================================================
