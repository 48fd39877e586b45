---------------------------- MODULE EffectProofs ----------------------------
(***************************************************************************)
(* Proofs, for every value of the constants, that uncommitted versions are *)
(* what the calls of their transactions make of the committed rows, and of *)
(* the promises that follow: names of storages are unique, references of   *)
(* volumes exist, and a paid volume is billed unless an answer is lost.    *)
(***************************************************************************)
EXTENDS Effects, VolumeManagerProofs

-----------------------------------------------------------------------------
(* Routes: which operations pass a step, and which steps follow.           *)

LEMMA OnRoute ==
  ASSUME NEW op \in Ops, NEW step \in Route(op)
  PROVE  /\ step \in {"countLabel", "reserve", "insert"} => op \in Creations
         /\ step = "kubeCreate" => op \in {"create", "directCreate"}
         /\ step \in {"pick", "subscribe"} => op \in {"create", "directCreate"}
         /\ step \in {"release", "mark", "kubeDelete", "unsubscribe"} => op = "delete"
         /\ step \in {"oldCapacity", "fit", "recharge", "setCapacity", "kubeUpdate"} => op \in Resizings
         /\ step = "select" => op \in Resizings \cup {"delete"}
         /\ step \in {"list", "markAll", "unsubscribeAll"} => op \in DeleteAlls
         /\ step \in {"countName", "reset", "countNameAgain", "insertStorage"} => op = "createStorage"
         /\ step \in {"countNewName", "writeStorage"} => op = "updateStorage"
         /\ step \in {"countVolumes", "dropStorage"} => op = "deleteStorage"
         /\ step = "findStorage" => op \in {"import", "updateStorage", "deleteStorage"}
         /\ step = "tariff" => op \in Resizings \cup {"create"}
         /\ step \in ActiveSteps
  BY DEF Ops, Route, Creations, DeleteAlls, Resizings, ActiveSteps, OutsideSteps, InsideSteps

LEMMA RouteOf ==
  ASSUME NEW op \in Ops
  PROVE  /\ op \in Creations => {"begin", "countLabel", "reserve", "insert", "commit"} \subseteq Route(op)
         /\ op \in {"create", "directCreate"} => {"pick", "kubeCreate"} \subseteq Route(op)
         /\ op = "create" => {"tariff", "subscribe"} \subseteq Route(op)
         /\ op = "delete" => {"select", "release", "mark", "kubeDelete", "unsubscribe"} \subseteq Route(op)
         /\ op \in DeleteAlls => {"list", "markAll", "unsubscribeAll"} \subseteq Route(op)
         /\ op \in Resizings =>
              {"tariff", "select", "oldCapacity", "fit", "recharge", "setCapacity", "kubeUpdate"} \subseteq Route(op)
         /\ op = "createStorage" =>
              {"countName", "reset", "countNameAgain", "insertStorage"} \subseteq Route(op)
         /\ op = "updateStorage" => {"findStorage", "countNewName", "writeStorage"} \subseteq Route(op)
         /\ op = "deleteStorage" => {"findStorage", "countVolumes", "dropStorage"} \subseteq Route(op)
         /\ op = "import" => "findStorage" \in Route(op)
         /\ {"begin", "commit"} \subseteq Route(op)
  BY DEF Ops, Route, Creations, DeleteAlls, Resizings

-----------------------------------------------------------------------------
(* The shapes of a step, now with the storage rows and the answer.         *)

(* It writes nothing; a step that follows a write is reached from the      *)
(* step before it, with the same locals.                                   *)
Reads(r) ==
  /\ UNCHANGED <<storages, volumes, dirtyStorage, dirtyVolume, reply>>
  /\ pc[r] \in ActiveSteps
  /\ \E step \in ActiveSteps :
       /\ MovesTo(r, step)
       /\ step \in WroteSteps \cup ChargedSteps => loc' = loc
       /\ step = "commit" => pc[r] \in {"kubeCreate", "kubeUpdate", "unsubscribe", "unsubscribeAll", "list"}
       /\ step \in WroteSteps \cup ChargedSteps => step = "commit" \/ (step = "unsubscribe" /\ pc[r] = "kubeDelete")
       /\ pc[r] \in WroteSteps \cup ChargedSteps => step \in WroteSteps \cap ChargedSteps

Refused(r) ==
  /\ pc[r] \in ActiveSteps
  /\ \E answer \in Replies \ {"ok"} : Refuse(r, answer)

Commits(r) ==
  /\ pc[r] = "commit"
  /\ ~ReferenceUndecided(r) /\ ReferencesExist(r)
  /\ CommitTx(r)
  /\ \E answer \in Replies : Answer(r, answer) /\ (answer = "ok" \/ "commitLost" \in Faults)

Charges(r) ==
  /\ \/ pc[r] = "reserve" /\ Go(r, "insert")
     \/ pc[r] = "release" /\ Go(r, "mark")
     \/ pc[r] = "recharge" /\ Go(r, "setCapacity")
  /\ \E delta \in Int : AddUsed(r, loc[r].storage, delta)

InsertsVolume(r) ==
  /\ pc[r] = "insert"
  /\ ~LabelUndecided(r, NewVolume(r)) /\ ~LabelTaken(r, NewVolume(r))
  /\ InsertVolumeRow(r, NewVolume(r))
  /\ Go(r, IF call[r].op = "import" THEN "commit" ELSE "kubeCreate")

Marks(r) ==
  /\ \/ pc[r] = "mark" /\ Go(r, "kubeDelete")
     \/ pc[r] = "markAll" /\ Go(r, "unsubscribeAll")
  /\ MarkVolumesDeleted(r, loc[r].vols)

Resizes(r) ==
  /\ pc[r] = "setCapacity"
  /\ SetVolumeCapacity(r, TheVolume(r), loc[r].capacity)
  /\ Go(r, "kubeUpdate")

Resets(r) ==
  /\ pc[r] = "reset"
  /\ ResetStorageRow(r, call[r].storage, call[r].capacity)
  /\ Go(r, "commit")

InsertsStorage(r) ==
  /\ pc[r] = "insertStorage"
  /\ ~NameUndecided(r, call[r].storage) /\ ~NameTaken(r, call[r].storage, {})
  /\ InsertStorageRow(r, call[r].storage, call[r].capacity)
  /\ Go(r, "commit")

(* The rows of the storage an update is about.                             *)
Own(r) == StoragesNamed(StoragesSeen(r), call[r].storage)

RewritesStorage(r) ==
  /\ pc[r] = "writeStorage"
  /\ Own(r) # {}
  /\ Unlocked(r, dirtyStorage, Own(r))
  /\ ~NameUndecided(r, loc[r].storage) /\ ~NameTaken(r, loc[r].storage, Own(r))
  /\ Unlocked(r, dirtyVolume, Cascade(r, call[r].storage, loc[r].storage))
  /\ RewriteStorageRow(r, Own(r), call[r].storage, loc[r].storage, loc[r].capacity)
  /\ Go(r, "commit")

Drops(r) ==
  LET I == StoragesNamed(StoragesSeen(r), loc[r].storage)
  IN  /\ pc[r] = "dropStorage"
      /\ I # {}
      /\ Unlocked(r, dirtyStorage, I)
      /\ DropStorageRow(r, I)
      /\ Go(r, "commit")

LEMMA StepPlan ==
  ASSUME RequestsTypeOK, NEW r \in Requests, Step(r)
  PROVE  \/ Reads(r) \/ Refused(r) \/ Commits(r)
         \/ Charges(r) \/ InsertsVolume(r) \/ Marks(r) \/ Resizes(r)
         \/ Resets(r) \/ InsertsStorage(r) \/ RewritesStorage(r) \/ Drops(r)
  <1>0. loc[r].capacity \in Int /\ loc[r].seen \in Int
    BY LocalFields
  <1> USE DEF Reads, Refused, MovesTo, WroteSteps, ChargedSteps, ActiveSteps, OutsideSteps, InsideSteps,
              Go, GoWith, Replies, storeVars
  <1>1. CASE FetchTariff(r) BY <1>1 DEF FetchTariff
  <1>2. CASE PickStorage(r) BY <1>2 DEF PickStorage
  <1>3. CASE Subscribe(r) BY <1>3 DEF Subscribe
  <1>4. CASE Begin(r) BY <1>4 DEF Begin, FirstInside
  <1>5. CASE CountLabel(r) BY <1>5 DEF CountLabel
  <1>6. CASE ReserveSpace(r) BY <1>0, <1>6 DEF ReserveSpace, Charges
  <1>7. CASE InsertVolume(r) BY <1>7 DEF InsertVolume, InsertsVolume
  <1>8. CASE CreateInKube(r) BY <1>8 DEF CreateInKube, CallKube
  <1>9. CASE SelectVolume(r) BY <1>9 DEF SelectVolume
  <1>10. CASE ReleaseSpace(r) BY <1>0, <1>10 DEF ReleaseSpace, Charges
  <1>11. CASE MarkDeleted(r) BY <1>11 DEF MarkDeleted, Marks
  <1>12. CASE DeleteFromKube(r) BY <1>12 DEF DeleteFromKube, CallKube
  <1>13. CASE Unsubscribe(r) BY <1>13 DEF Unsubscribe, CallUnsubscribe
  <1>14. CASE ReadOldCapacity(r) BY <1>14 DEF ReadOldCapacity
  <1>15. CASE CheckFit(r) BY <1>15 DEF CheckFit
  <1>16. CASE Recharge(r) BY <1>0, <1>16 DEF Recharge, Charges
  <1>17. CASE SetCapacity(r) BY <1>17 DEF SetCapacity, Resizes
  <1>18. CASE UpdateInKube(r) BY <1>18 DEF UpdateInKube, CallKube
  <1>19. CASE ListVolumes(r) BY <1>19 DEF ListVolumes
  <1>20. CASE ListFails(r) BY <1>20 DEF ListFails
  <1>21. CASE MarkAllDeleted(r) BY <1>21 DEF MarkAllDeleted, Marks
  <1>22. CASE UnsubscribeAll(r) BY <1>22 DEF UnsubscribeAll, CallUnsubscribe
  <1>23. CASE CountName(r) BY <1>23 DEF CountName
  <1>24. CASE ResetStorage(r) BY <1>24 DEF ResetStorage, Resets
  <1>25. CASE CountNameAgain(r) BY <1>25 DEF CountNameAgain
  <1>26. CASE InsertStorage(r) BY <1>26 DEF InsertStorage, InsertsStorage
  <1>27. CASE FindStorage(r) BY <1>27 DEF FindStorage
  <1>28. CASE CountNewName(r) BY <1>28 DEF CountNewName
  <1>29. CASE WriteStorage(r) BY <1>29 DEF WriteStorage, RewritesStorage, Own
  <1>30. CASE CountVolumes(r) BY <1>30 DEF CountVolumes
  <1>31. CASE DropStorage(r) BY <1>31 DEF DropStorage, Drops
  <1>32. CASE Commit(r) BY <1>32 DEF Commit, Commits
  <1>33. CASE DbError(r) BY <1>33 DEF DbError
  <1>34. CASE PoolTimeout(r) BY <1>34 DEF PoolTimeout
  <1> QED
    BY <1>1, <1>2, <1>3, <1>4, <1>5, <1>6, <1>7, <1>8, <1>9, <1>10, <1>11, <1>12, <1>13, <1>14,
       <1>15, <1>16, <1>17, <1>18, <1>19, <1>20, <1>21, <1>22, <1>23, <1>24, <1>25, <1>26, <1>27,
       <1>28, <1>29, <1>30, <1>31, <1>32, <1>33, <1>34 DEF Step

(* Which actions may run at a step.                                        *)
LEMMA StepAt ==
  ASSUME NEW r \in Requests, Step(r)
  PROVE  /\ pc[r] = "commit" => Commit(r) \/ DbError(r)
         /\ pc[r] \in {"tariff", "pick", "subscribe"} =>
              FetchTariff(r) \/ PickStorage(r) \/ Subscribe(r) \/ DbError(r) \/ PoolTimeout(r)
         /\ pc[r] \in {"begin", "findStorage"} => Begin(r) \/ FindStorage(r) \/ DbError(r) \/ PoolTimeout(r)
         /\ pc[r] \in {"countLabel", "reserve", "insert", "kubeCreate"} =>
              CountLabel(r) \/ ReserveSpace(r) \/ InsertVolume(r) \/ CreateInKube(r) \/ DbError(r)
         /\ pc[r] \in {"select", "release", "mark", "kubeDelete", "unsubscribe"} =>
              \/ SelectVolume(r) \/ ReleaseSpace(r) \/ MarkDeleted(r) \/ DeleteFromKube(r)
              \/ Unsubscribe(r) \/ DbError(r)
         /\ pc[r] \in {"oldCapacity", "fit", "recharge", "setCapacity", "kubeUpdate"} =>
              \/ ReadOldCapacity(r) \/ CheckFit(r) \/ Recharge(r) \/ SetCapacity(r)
              \/ UpdateInKube(r) \/ DbError(r)
         /\ pc[r] \in {"countVolumes", "dropStorage"} => CountVolumes(r) \/ DropStorage(r) \/ DbError(r)
         /\ pc[r] \in {"countNewName", "writeStorage"} => CountNewName(r) \/ WriteStorage(r) \/ DbError(r)
  <1>1. /\ Begin(r) => pc[r] = "begin"
        /\ CountLabel(r) => pc[r] = "countLabel"
        /\ ReserveSpace(r) => pc[r] = "reserve"
        /\ InsertVolume(r) => pc[r] = "insert"
        /\ CreateInKube(r) => pc[r] = "kubeCreate"
        /\ SelectVolume(r) => pc[r] = "select"
        /\ ReleaseSpace(r) => pc[r] = "release"
        /\ MarkDeleted(r) => pc[r] = "mark"
        /\ DeleteFromKube(r) => pc[r] = "kubeDelete"
        /\ Unsubscribe(r) => pc[r] = "unsubscribe"
    BY DEF Begin, CountLabel, ReserveSpace, InsertVolume, CreateInKube, SelectVolume, ReleaseSpace,
       MarkDeleted, DeleteFromKube, Unsubscribe
  <1>2. /\ ReadOldCapacity(r) => pc[r] = "oldCapacity"
        /\ CheckFit(r) => pc[r] = "fit"
        /\ Recharge(r) => pc[r] = "recharge"
        /\ SetCapacity(r) => pc[r] = "setCapacity"
        /\ UpdateInKube(r) => pc[r] = "kubeUpdate"
        /\ ListVolumes(r) \/ ListFails(r) => pc[r] = "list"
        /\ MarkAllDeleted(r) => pc[r] = "markAll"
        /\ UnsubscribeAll(r) => pc[r] = "unsubscribeAll"
    BY DEF ReadOldCapacity, CheckFit, Recharge, SetCapacity, UpdateInKube, ListVolumes, ListFails,
       MarkAllDeleted, UnsubscribeAll
  <1>3. /\ CountName(r) => pc[r] = "countName"
        /\ ResetStorage(r) => pc[r] = "reset"
        /\ CountNameAgain(r) => pc[r] = "countNameAgain"
        /\ InsertStorage(r) => pc[r] = "insertStorage"
        /\ FindStorage(r) => pc[r] = "findStorage"
        /\ CountNewName(r) => pc[r] = "countNewName"
        /\ WriteStorage(r) => pc[r] = "writeStorage"
        /\ CountVolumes(r) => pc[r] = "countVolumes"
        /\ DropStorage(r) => pc[r] = "dropStorage"
    BY DEF CountName, ResetStorage, CountNameAgain, InsertStorage, FindStorage, CountNewName, WriteStorage,
       CountVolumes, DropStorage
  <1>4. /\ FetchTariff(r) => pc[r] = "tariff"
        /\ PickStorage(r) => pc[r] = "pick"
        /\ Subscribe(r) => pc[r] = "subscribe"
        /\ Commit(r) => pc[r] = "commit"
        /\ PoolTimeout(r) => pc[r] \in {"pick", "begin"}
    BY DEF FetchTariff, PickStorage, Subscribe, Commit, PoolTimeout
  <1> QED BY <1>1, <1>2, <1>3, <1>4 DEF Step

-----------------------------------------------------------------------------
(* What a step may do to a storage row and its uncommitted version.        *)

(* A request that has not charged a storage sees the committed storages.   *)
LEMMA NothingCharged ==
  ASSUME StorageVersionsFit, NEW r \in Requests, pc[r] \notin ChargedSteps, NEW i \in RowId
  PROVE  dirtyStorage[i].tx # r /\ StoragesSeen(r)[i] = storages[i]
  BY IdsDistinct DEF StorageVersionsFit, StoragesSeen, View

(* The name of a new version is the old one, or one that no other storage  *)
(* has in any version.                                                     *)
FreshName(r, i, name) ==
  /\ pc'[r] = "commit"
  /\ ~NameUndecided(r, name)
  /\ \/ pc[r] = "insertStorage" /\ i = r /\ ~NameTaken(r, name, {})
     \/ pc[r] = "writeStorage" /\ i \in Own(r) /\ ~NameTaken(r, name, Own(r))

StorageOutcome(r, i) ==
  \/ /\ storages'[i] = storages[i]
     /\ dirtyStorage'[i] = dirtyStorage[i]
     /\ dirtyStorage[i].tx = r => pc'[r] \in ChargedSteps
  \/ /\ storages'[i] = storages[i]
     /\ dirtyStorage[i].tx = r
     /\ dirtyStorage'[i] = Clean
  \/ /\ storages'[i] = dirtyStorage[i].row
     /\ dirtyStorage[i].tx = r
     /\ dirtyStorage'[i] = Clean
     /\ Commits(r)
  \/ /\ storages'[i] = storages[i]
     /\ dirtyStorage[i].tx = NoTx
     /\ dirtyStorage'[i].tx = r
     /\ dirtyStorage'[i].row \in StorageRow
     /\ storages[i] # NoRow \/ i = r
     /\ StorageEffect(r, call[r], i, storages[i], dirtyStorage'[i].row)
     /\ \/ storages[i] # NoRow /\ dirtyStorage'[i].row.name = storages[i].name
        \/ FreshName(r, i, dirtyStorage'[i].row.name)
     /\ pc'[r] \in ChargedSteps
     /\ pc[r] \notin ChargedSteps

LEMMA StepStorageOutcome ==
  ASSUME TypeOK, StorageVersionsFit, StorageRowsFresh, NEW r \in Requests, LocalFit(r), RouteFit(r),
         LocalsTold(r), Step(r), NEW i \in RowId
  PROVE  StorageOutcome(r, i)
  <1>1. StoreTypeOK /\ RequestsTypeOK
    BY DEF TypeOK
  <1>2. storages[i] \in StorageRow \cup {NoRow} /\ NoRow \notin StorageRow
    BY <1>1, IdsDistinct DEF StoreTypeOK
  <1>3. dirtyStorage[i].tx = r => pc[r] \in ChargedSteps
    BY IdsDistinct DEF StorageVersionsFit
  <1>4. pc[r] \in ActiveSteps => call[r] \in Calls /\ call[r].op \in Ops /\ pc[r] \in Route(call[r].op)
    BY CallFields DEF LocalFit, RouteFit, ActiveSteps, OutsideSteps, InsideSteps
  <1>5. \A step : Go(r, step) => pc'[r] = step
    BY <1>1 DEF Go, RequestsTypeOK
  <1>6. StoragesSeen(r)[i] = storages[i] \/ pc[r] \in ChargedSteps
    BY NothingCharged
  <1>7. loc[r].capacity \in Int
    BY <1>1, LocalFields
  <1>8. ASSUME storages'[i] = storages[i], dirtyStorage'[i] = dirtyStorage[i], pc[r] \notin ChargedSteps
        PROVE  StorageOutcome(r, i)
    BY <1>3, <1>8 DEF StorageOutcome
  <1>9. ASSUME NEW d \in StorageRow, storages'[i] = storages[i], dirtyStorage[i].tx \in {r, NoTx},
               dirtyStorage'[i] = [tx |-> r, row |-> d], storages[i] # NoRow \/ i = r,
               StorageEffect(r, call[r], i, storages[i], d),
               (storages[i] # NoRow /\ d.name = storages[i].name) \/ FreshName(r, i, d.name),
               pc'[r] \in ChargedSteps, pc[r] \notin ChargedSteps
        PROVE  StorageOutcome(r, i)
    BY <1>3, <1>9 DEF StorageOutcome
  <1>11. CASE Reads(r)
    <2>1. \E step : MovesTo(r, step) /\ (pc[r] \in ChargedSteps => step \in ChargedSteps)
      BY <1>11 DEF Reads
    <2>2. pc[r] \in ChargedSteps => pc'[r] \in ChargedSteps
      BY <1>1, <2>1 DEF MovesTo, RequestsTypeOK
    <2> QED BY <1>3, <1>11, <2>2 DEF Reads, StorageOutcome
  <1>12. CASE Refused(r)
    BY <1>1, <1>12 DEF Refused, Refuse, RollbackTx, Released, StorageOutcome, StoreTypeOK
  <1>13. CASE Commits(r)
    BY <1>1, <1>13 DEF Commits, CommitTx, Released, StoragesSeen, View, StorageOutcome, StoreTypeOK
  <1>14. CASE UNCHANGED <<storages, dirtyStorage>> /\ pc[r] \notin ChargedSteps
    BY <1>3, <1>14 DEF StorageOutcome
  <1>15. CASE InsertsVolume(r) \/ Resizes(r) \/ Marks(r)
    <2>1. UNCHANGED <<storages, dirtyStorage>>
      BY <1>15 DEF InsertsVolume, Resizes, Marks, InsertVolumeRow, SetVolumeCapacity, MarkVolumesDeleted,
         WriteVolumes
    <2>2. pc[r] \in ChargedSteps => pc'[r] \in ChargedSteps
      BY <1>5, <1>15 DEF InsertsVolume, Resizes, Marks, ChargedSteps
    <2> QED BY <1>3, <2>1, <2>2 DEF StorageOutcome
  <1>16. CASE Charges(r)
    <2>1. pc[r] \notin ChargedSteps /\ pc'[r] \in ChargedSteps
      BY <1>5, <1>16 DEF Charges, ChargedSteps
    <2>2. call[r].op \in Creations \cup Resizings \cup {"delete"}
      <3>1. pc[r] \in ActiveSteps
        BY <1>16 DEF Charges, ActiveSteps, InsideSteps
      <3> QED BY <1>4, <1>16, <3>1, OnRoute DEF Charges
    <2> DEFINE I == StoragesNamed(StoragesSeen(r), loc[r].storage)
    <2>3. PICK delta \in Int :
            /\ storages' = storages
            /\ i \in I => dirtyStorage[i].tx \in {r, NoTx}
            /\ dirtyStorage'[i] = IF i \in I
                                  THEN [tx |-> r, row |-> [StoragesSeen(r)[i] EXCEPT !.used = @ + delta]]
                                  ELSE dirtyStorage[i]
      BY <1>16 DEF Charges, AddUsed, WriteStorages, Written, Unlocked
    <2>4. i \in I => storages[i] \in StorageRow
      BY <1>2, <1>6, <2>1 DEF StoragesNamed
    <2>5. \A s \in StorageRow : LET d == [s EXCEPT !.used = @ + delta]
                               IN  d \in StorageRow /\ d.name = s.name /\ d.size = s.size /\ d.deleted = s.deleted
      BY DEF StorageRow
    <2> HIDE DEF I
    <2>6. CASE i \in I
      BY <1>2, <1>6, <1>9, <2>1, <2>2, <2>3, <2>4, <2>5, <2>6 DEF StorageEffect
    <2> QED BY <1>8, <2>1, <2>3, <2>6
  <1>17. CASE Resets(r)
    <2>1. pc[r] \notin ChargedSteps /\ pc'[r] \in ChargedSteps
      BY <1>5, <1>17 DEF Resets, ChargedSteps
    <2>2. call[r].op = "createStorage" /\ call[r] \in Calls
      BY <1>4, <1>17, OnRoute DEF Resets, ActiveSteps, InsideSteps
    <2>3. call[r].capacity \in Int
      BY <2>2, CallFields
    <2> DEFINE I == StoragesNamed(StoragesSeen(r), call[r].storage)
    <2>4. /\ storages' = storages
          /\ i \in I => dirtyStorage[i].tx \in {r, NoTx}
          /\ dirtyStorage'[i] = IF i \in I
                                THEN [tx |-> r, row |-> [StoragesSeen(r)[i] EXCEPT !.size = call[r].capacity,
                                                                                   !.deleted = FALSE]]
                                ELSE dirtyStorage[i]
      BY <1>17 DEF Resets, ResetStorageRow, WriteStorages, Written, Unlocked
    <2>5. i \in I => storages[i] \in StorageRow /\ storages[i].name = call[r].storage
      BY <1>2, <1>6, <2>1 DEF StoragesNamed
    <2>6. \A s \in StorageRow : LET d == [s EXCEPT !.size = call[r].capacity, !.deleted = FALSE]
                               IN  d \in StorageRow /\ d.name = s.name /\ d.size = call[r].capacity /\ ~d.deleted
      BY <2>3 DEF StorageRow
    <2> HIDE DEF I
    <2>7. CASE i \in I
      BY <1>2, <1>6, <1>9, <2>1, <2>2, <2>4, <2>5, <2>6, <2>7 DEF StorageEffect
    <2> QED BY <1>8, <2>1, <2>4, <2>7
  <1>18. CASE InsertsStorage(r)
    <2>1. pc[r] \notin ChargedSteps /\ pc'[r] \in ChargedSteps
      BY <1>5, <1>18 DEF InsertsStorage, ChargedSteps
    <2>2. call[r].op = "createStorage" /\ call[r] \in Calls
      BY <1>4, <1>18, OnRoute DEF InsertsStorage, ActiveSteps, InsideSteps
    <2>3. call[r].capacity \in Int /\ call[r].storage \in StorageNames
      BY <2>2, CallFields
    <2>4. storages[r] = NoRow /\ dirtyStorage[r].tx = NoTx
      BY <1>18 DEF InsertsStorage, StorageRowsFresh
    <2> DEFINE d == [name |-> call[r].storage, size |-> call[r].capacity, used |-> 0, deleted |-> FALSE]
    <2>5. /\ storages' = storages
          /\ dirtyStorage'[i] = IF i = r THEN [tx |-> r, row |-> d] ELSE dirtyStorage[i]
      BY <1>18 DEF InsertsStorage, InsertStorageRow, WriteStorages, Written
    <2>6. /\ d \in StorageRow
          /\ d.name = call[r].storage /\ d.size = call[r].capacity /\ ~d.deleted
      BY <2>3 DEF StorageRow
    <2>7. FreshName(r, r, d.name)
      BY <1>5, <1>18, <2>6 DEF InsertsStorage, FreshName
    <2> HIDE DEF d
    <2>8. CASE i = r
      BY <1>9, <2>1, <2>2, <2>4, <2>5, <2>6, <2>7, <2>8 DEF StorageEffect
    <2> QED BY <1>8, <2>1, <2>5, <2>8
  <1>19. CASE RewritesStorage(r)
    <2>1. pc[r] \notin ChargedSteps /\ pc'[r] \in ChargedSteps
      BY <1>5, <1>19 DEF RewritesStorage, ChargedSteps
    <2>2. call[r].op = "updateStorage" /\ call[r] \in Calls
      BY <1>4, <1>19, OnRoute DEF RewritesStorage, ActiveSteps, InsideSteps
    <2>3. /\ loc[r].storage \in StorageNames /\ loc[r].storage = NewName(call[r])
          /\ call[r].capacity # NoSize => loc[r].capacity = call[r].capacity
      BY <1>19 DEF RewritesStorage, LocalFit, LocalsTold
    <2>4. /\ storages' = storages
          /\ i \in Own(r) => dirtyStorage[i].tx \in {r, NoTx}
          /\ dirtyStorage'[i] = IF i \in Own(r)
                                THEN [tx |-> r, row |-> [StoragesSeen(r)[i] EXCEPT !.name = loc[r].storage,
                                                                                   !.size = loc[r].capacity]]
                                ELSE dirtyStorage[i]
      BY <1>19 DEF RewritesStorage, RewriteStorageRow, Written, Unlocked
    <2>5. i \in Own(r) => storages[i] \in StorageRow /\ storages[i].name = call[r].storage
      BY <1>2, <1>6, <2>1 DEF StoragesNamed, Own
    <2>6. \A s \in StorageRow : LET d == [s EXCEPT !.name = loc[r].storage, !.size = loc[r].capacity]
                               IN  /\ d \in StorageRow
                                   /\ d.name = loc[r].storage /\ d.size = loc[r].capacity /\ d.deleted = s.deleted
      BY <1>7, <2>3 DEF StorageRow
    <2>7. i \in Own(r) => FreshName(r, i, loc[r].storage)
      BY <1>5, <1>19 DEF RewritesStorage, FreshName
    <2>8. CASE i \in Own(r)
      BY <1>2, <1>6, <1>9, <2>1, <2>2, <2>3, <2>4, <2>5, <2>6, <2>7, <2>8 DEF StorageEffect
    <2> QED BY <1>8, <2>1, <2>4, <2>8
  <1>20. CASE Drops(r)
    <2>1. pc[r] \notin ChargedSteps /\ pc'[r] \in ChargedSteps
      BY <1>5, <1>20 DEF Drops, ChargedSteps
    <2>2. call[r].op = "deleteStorage" /\ loc[r].storage = call[r].storage
      BY <1>4, <1>20, OnRoute DEF Drops, ActiveSteps, InsideSteps, LocalsTold
    <2> DEFINE I == StoragesNamed(StoragesSeen(r), loc[r].storage)
    <2>4. /\ storages' = storages
          /\ i \in I => dirtyStorage[i].tx \in {r, NoTx}
          /\ dirtyStorage'[i] = IF i \in I
                                THEN [tx |-> r, row |-> [StoragesSeen(r)[i] EXCEPT !.deleted = TRUE, !.used = 0]]
                                ELSE dirtyStorage[i]
      BY <1>20 DEF Drops, DropStorageRow, WriteStorages, Written, Unlocked
    <2>5. i \in I => storages[i] \in StorageRow /\ storages[i].name = call[r].storage
      BY <1>2, <1>6, <2>1, <2>2 DEF StoragesNamed
    <2> DEFINE d(s) == [[s EXCEPT !.deleted = TRUE] EXCEPT !.used = 0]
    <2>6. \A s \in StorageRow : d(s) \in StorageRow /\ d(s).name = s.name /\ d(s).size = s.size /\ d(s).deleted
      <3>1. \A s \in StorageRow : LET w == [s EXCEPT !.deleted = TRUE]
                                 IN  w \in StorageRow /\ w.name = s.name /\ w.size = s.size /\ w.deleted
        BY DEF StorageRow
      <3>2. \A s \in StorageRow : LET w == [s EXCEPT !.used = 0]
                                 IN  /\ w \in StorageRow /\ w.name = s.name /\ w.size = s.size
                                     /\ w.deleted = s.deleted
        BY DEF StorageRow
      <3> QED BY <3>1, <3>2
    <2>7. \A s : [s EXCEPT !.deleted = TRUE, !.used = 0] = d(s)
      OBVIOUS
    <2> HIDE DEF I, d
    <2>8. CASE i \in I
      BY <1>2, <1>6, <1>9, <2>1, <2>2, <2>4, <2>5, <2>6, <2>7, <2>8 DEF StorageEffect
    <2> QED BY <1>8, <2>1, <2>4, <2>8
  <1> QED BY <1>1, <1>11, <1>12, <1>13, <1>15, <1>16, <1>17, <1>18, <1>19, <1>20, StepPlan

-----------------------------------------------------------------------------
(* The uncommitted versions are what their calls make of committed rows.   *)

VolumeOutcome(r, i) ==
  \/ dirtyVolume'[i] \in {dirtyVolume[i], Clean}
  \/ /\ dirtyVolume'[i].tx = r
     /\ volumes'[i] = volumes[i]
     /\ VolumeEffect(r, call[r], i, volumes[i], dirtyVolume'[i].row)

LEMMA StepVolumeOutcome ==
  ASSUME TypeOK, DirtyFits, RowsFresh, NEW r \in Requests, LocalFit(r), RouteFit(r), LocalsTold(r), Step(r),
         NEW i \in RowId
  PROVE  VolumeOutcome(r, i)
  <1>1. StoreTypeOK /\ RequestsTypeOK
    BY DEF TypeOK
  <1>2. volumes[i] \in VolumeRow \cup {NoRow} /\ NoRow \notin VolumeRow
    BY <1>1, IdsDistinct DEF StoreTypeOK
  <1>3. pc[r] \in ActiveSteps => call[r].op \in Ops /\ pc[r] \in Route(call[r].op)
    BY CallFields DEF LocalFit, RouteFit, ActiveSteps, OutsideSteps, InsideSteps
  <1>4. pc[r] \notin WroteSteps => VolumesSeen(r)[i] = volumes[i]
    BY NothingWritten
  <1>5. CASE UNCHANGED dirtyVolume
    BY <1>5 DEF VolumeOutcome
  <1>6. CASE Refused(r) \/ Commits(r)
    BY <1>6 DEF Refused, Refuse, RollbackTx, Commits, CommitTx, Released, VolumeOutcome
  <1>7. CASE InsertsVolume(r)
    <2>1. call[r].op \in Creations
      BY <1>3, <1>7, OnRoute DEF InsertsVolume, ActiveSteps, InsideSteps
    <2>2. volumes[r] = NoRow
      BY <1>7 DEF InsertsVolume, RowsFresh, Uninserted
    <2>3. call[r].op # "create" => loc[r].capacity = call[r].capacity
      BY <1>7, <2>1 DEF InsertsVolume, LocalsTold, Creations, ActiveSteps, InsideSteps
    <2>4. call[r].storage # NoName => loc[r].storage = call[r].storage
      BY <1>7 DEF InsertsVolume, LocalsTold
    <2>5. /\ volumes' = volumes
          /\ dirtyVolume'[i] = IF i = r THEN [tx |-> r, row |-> NewVolume(r)] ELSE dirtyVolume[i]
      BY <1>7 DEF InsertsVolume, InsertVolumeRow, WriteVolumes, Written
    <2>6. VolumeEffect(r, call[r], r, NoRow, NewVolume(r))
      BY <2>1, <2>3, <2>4 DEF VolumeEffect, NewVolume
    <2> QED BY <2>2, <2>5, <2>6 DEF VolumeOutcome
  <1>8. CASE Marks(r)
    <2>1. call[r].op \in DeleteAlls \cup {"delete"}
      BY <1>3, <1>8, OnRoute DEF Marks, ActiveSteps, InsideSteps
    <2>2. i \in loc[r].vols => Concerns(call[r], volumes[i])
      BY <1>8 DEF Marks, LocalsTold
    <2>3. VolumesSeen(r)[i] = volumes[i]
      BY <1>4, <1>8 DEF Marks, WroteSteps
    <2>4. /\ volumes' = volumes
          /\ dirtyVolume'[i] = IF i \in loc[r].vols
                               THEN [tx |-> r, row |-> [VolumesSeen(r)[i] EXCEPT !.deleted = TRUE]]
                               ELSE dirtyVolume[i]
      BY <1>8 DEF Marks, MarkVolumesDeleted, WriteVolumes, Written
    <2> QED BY <2>1, <2>2, <2>3, <2>4 DEF VolumeOutcome, VolumeEffect
  <1>9. CASE Resizes(r)
    <2>1. call[r].op \in Resizings
      BY <1>3, <1>9, OnRoute DEF Resizes, ActiveSteps, InsideSteps
    <2>2. TheVolume(r) \in loc[r].vols
      BY <1>9 DEF Resizes, LocalFit, TheVolume
    <2>3. i = TheVolume(r) => Concerns(call[r], volumes[i])
      BY <1>9, <2>2 DEF Resizes, LocalsTold
    <2>4. VolumesSeen(r)[i] = volumes[i]
      BY <1>4, <1>9 DEF Resizes, WroteSteps
    <2>5. /\ volumes' = volumes
          /\ dirtyVolume'[i] = IF i = TheVolume(r)
                               THEN [tx |-> r, row |-> [VolumesSeen(r)[i] EXCEPT !.capacity = loc[r].capacity]]
                               ELSE dirtyVolume[i]
      BY <1>9 DEF Resizes, SetVolumeCapacity, WriteVolumes, Written
    <2>6. \A capacity : \A v \in VolumeRow : [v EXCEPT !.capacity = capacity].capacity = capacity
      BY DEF VolumeRow
    <2>7. call[r].op = "adminResize" => loc[r].capacity = call[r].capacity
      BY <1>9 DEF Resizes, LocalsTold
    <2>8. CASE i = TheVolume(r)
      <3>1. volumes[i] \in VolumeRow
        BY <1>2, <2>3, <2>8 DEF Concerns
      <3>2. VolumeEffect(r, call[r], i, volumes[i], [volumes[i] EXCEPT !.capacity = loc[r].capacity])
        BY <2>1, <2>3, <2>6, <2>7, <2>8, <3>1 DEF VolumeEffect
      <3> QED BY <2>4, <2>5, <2>8, <3>2 DEF VolumeOutcome
    <2> QED BY <2>5, <2>8 DEF VolumeOutcome
  <1>10. CASE RewritesStorage(r)
    <2>1. call[r].op = "updateStorage"
      BY <1>3, <1>10, OnRoute DEF RewritesStorage, ActiveSteps, InsideSteps
    <2>2. loc[r].storage = NewName(call[r])
      BY <1>10 DEF RewritesStorage, LocalsTold
    <2>3. VolumesSeen(r)[i] = volumes[i]
      BY <1>4, <1>10 DEF RewritesStorage, WroteSteps
    <2> DEFINE J == Cascade(r, call[r].storage, loc[r].storage)
    <2>4. /\ volumes' = volumes
          /\ dirtyVolume'[i] = IF i \in J
                               THEN [tx |-> r, row |-> [VolumesSeen(r)[i] EXCEPT !.storage = loc[r].storage]]
                               ELSE dirtyVolume[i]
      BY <1>10 DEF RewritesStorage, RewriteStorageRow, Written
    <2>5. i \in J => volumes[i] # NoRow /\ volumes[i].storage = call[r].storage /\ NewName(call[r]) # call[r].storage
      BY <2>2, <2>3 DEF Cascade
    <2> HIDE DEF J
    <2> QED BY <2>1, <2>2, <2>3, <2>4, <2>5 DEF VolumeOutcome, VolumeEffect
  <1>11. Reads(r) \/ Charges(r) \/ Resets(r) \/ InsertsStorage(r) \/ Drops(r) => UNCHANGED dirtyVolume
    BY DEF Reads, Charges, Resets, InsertsStorage, Drops, AddUsed, ResetStorageRow, InsertStorageRow, DropStorageRow
  <1> QED BY <1>1, <1>5, <1>6, <1>7, <1>8, <1>9, <1>10, <1>11, StepPlan

LEMMA StepVolumeVersions ==
  ASSUME TypeOK, DirtyFits, RowsFresh, VolumeVersionsFit, NEW r \in Requests, LocalFit(r), RouteFit(r),
         LocalsTold(r), Step(r)
  PROVE  VolumeVersionsFit'
  <1>1. call' = call
    BY StepShape DEF OwnLocals
  <1>2. SUFFICES ASSUME NEW i \in RowId, dirtyVolume'[i].tx # NoTx
                 PROVE  VolumeEffect(dirtyVolume'[i].tx, call[dirtyVolume'[i].tx], i, volumes'[i],
                                     dirtyVolume'[i].row)
    BY <1>1 DEF VolumeVersionsFit, VolumeEffect, Concerns
  <1>3. RowOutcome(r, i) /\ VolumeOutcome(r, i)
    BY StepRowOutcome, StepVolumeOutcome
  <1>4. dirtyVolume'[i] = dirtyVolume[i] => volumes'[i] = volumes[i]
    BY <1>2, <1>3, IdsDistinct DEF RowOutcome, Clean
  <1> QED BY <1>2, <1>3, <1>4 DEF VolumeOutcome, VolumeVersionsFit, Clean

LEMMA StepStorageVersions ==
  ASSUME TypeOK, StorageVersionsFit, StorageRowsFresh, NEW r \in Requests, LocalFit(r), RouteFit(r),
         LocalsTold(r), Step(r)
  PROVE  StorageVersionsFit'
  <1>1. call' = call
    BY StepShape DEF OwnLocals
  <1>2. \A q \in Requests : q # r => pc'[q] = pc[q]
    BY OthersStay DEF TypeOK
  <1>3. SUFFICES ASSUME NEW i \in RowId
                 PROVE  LET t == dirtyStorage'[i].tx
                            d == dirtyStorage'[i].row
                        IN  /\ t = NoTx => d = NoRow
                            /\ t # NoTx => /\ d # NoRow
                                           /\ pc'[t] \in ChargedSteps
                                           /\ StorageEffect(t, call[t], i, storages'[i], d)
    BY <1>1 DEF StorageVersionsFit, StorageEffect
  <1>4. StorageOutcome(r, i)
    BY StepStorageOutcome
  <1>5. dirtyStorage[i].tx \in Requests \cup {NoTx}
    BY DEF TypeOK, StoreTypeOK
  <1> QED BY <1>2, <1>4, <1>5, IdsDistinct DEF StorageOutcome, StorageVersionsFit, Clean

-----------------------------------------------------------------------------
(* Requests stay on their routes and remember what they were told.         *)

(* A volume that a request is about remains so: its namespace, label and   *)
(* owner never change.                                                     *)
LEMMA ConcernsStay ==
  ASSUME TypeOK, DirtyFits, RowsFresh, NEW r \in Requests, LocalFit(r), Step(r), NEW c, NEW i \in RowId,
         Concerns(c, volumes[i])
  PROVE  Concerns(c, volumes'[i])
  <1>1. RowOutcome(r, i)
    BY StepRowOutcome
  <1> QED BY <1>1, IdsDistinct DEF RowOutcome, Concerns, DirtyFits, SameLabel

LEMMA AnswerTold ==
  ASSUME RequestsTypeOK, NEW r \in Requests, pc[r] # "idle", NEW answer \in Replies, Answer(r, answer)
  PROVE  RouteFit(r)' /\ LocalsTold(r)'
  <1>1. pc'[r] = "done" /\ reply'[r] = answer /\ answer # "none"
    BY DEF RequestsTypeOK, Answer, Replies
  <1> QED BY <1>1 DEF RouteFit, LocalsTold, ActiveSteps, OutsideSteps, InsideSteps

(* What the step before has established of the locals of the step after.   *)
LEMMA StepTold ==
  ASSUME TypeOK, DirtyFits, RowsFresh, NEW r \in Requests, LocalFit(r), RouteFit(r), LocalsTold(r), Step(r)
  PROVE  RouteFit(r)' /\ LocalsTold(r)'
  <1>1. RequestsTypeOK /\ StoreTypeOK
    BY DEF TypeOK
  <1>2. pc[r] \in ActiveSteps /\ pc[r] \notin {"idle", "done", "cut"}
    BY StepShape DEF Quiet, Undone, Committed, Inserted, Marked, Resized, Rewritten,
       ActiveSteps, OutsideSteps, InsideSteps
  <1>3. call[r] \in Calls /\ call[r].op \in Ops /\ pc[r] \in Route(call[r].op) /\ reply[r] = "none"
    BY <1>2, CallFields DEF LocalFit, RouteFit
  <1>4. \A i \in RowId : Concerns(call[r], volumes[i]) => Concerns(call[r], volumes'[i])
    BY ConcernsStay
  <1>5. loc[r].vols \in SUBSET RowId
    BY <1>1, LocalFields
  <1> DEFINE Aims(step) == step \in {"release", "mark", "oldCapacity", "fit", "recharge", "setCapacity", "markAll"}
  <1>6. Aims(pc[r]) => \A i \in loc[r].vols : Concerns(call[r], volumes'[i])
    BY <1>4, <1>5 DEF LocalsTold
  <1>7. \A answer \in Replies : Answer(r, answer) \/ Refuse(r, answer) => RouteFit(r)' /\ LocalsTold(r)'
    BY <1>1, <1>2, AnswerTold DEF Refuse
  <1>8. \A step \in Route(call[r].op) : \A l :
          GoWith(r, step, l) => /\ RouteFit(r)' /\ call'[r] = call[r]
                                /\ pc'[r] = step /\ loc'[r] = l
    <2>1. SUFFICES ASSUME NEW step \in Route(call[r].op), NEW l, GoWith(r, step, l)
                   PROVE  /\ RouteFit(r)' /\ call'[r] = call[r]
                          /\ pc'[r] = step /\ loc'[r] = l
      OBVIOUS
    <2>2. pc'[r] = step /\ loc'[r] = l /\ call' = call /\ reply' = reply
      BY <1>1, <2>1 DEF GoWith, RequestsTypeOK
    <2>3. step \in ActiveSteps
      BY <1>3, OnRoute
    <2> QED BY <1>3, <2>2, <2>3 DEF RouteFit, ActiveSteps, OutsideSteps, InsideSteps
  <1>9. \A step \in Route(call[r].op) :
          Go(r, step) => /\ RouteFit(r)' /\ call'[r] = call[r]
                         /\ pc'[r] = step /\ loc'[r] = loc[r]
    <2>1. \A step : Go(r, step) => GoWith(r, step, loc[r])
      BY <1>1 DEF Go, GoWith, RequestsTypeOK
    <2> QED BY <1>8, <2>1
  <1> HIDE DEF Aims
  <1> USE DEF Replies, Creations, DeleteAlls, Resizings
  <1>11. CASE FetchTariff(r)
    <2>1. call[r].op \in Resizings \cup {"create"}
      BY <1>3, <1>11, OnRoute DEF FetchTariff
    <2>3. ASSUME NEW limit, GoWith(r, IF call[r].op = "create" THEN "pick" ELSE "begin",
                                   [loc[r] EXCEPT !.capacity = limit])
          PROVE  RouteFit(r)' /\ LocalsTold(r)'
      <3>1. (IF call[r].op = "create" THEN "pick" ELSE "begin") \in Route(call[r].op)
        BY <1>3, RouteOf
      <3>2. /\ RouteFit(r)' /\ call'[r] = call[r]
            /\ pc'[r] = IF call[r].op = "create" THEN "pick" ELSE "begin"
        BY <1>8, <2>3, <3>1
      <3> QED BY <2>1, <3>2 DEF LocalsTold
    <2> QED BY <1>7, <1>11, <2>3 DEF FetchTariff
  <1>12. CASE PickStorage(r)
    <2>1. call[r].op \in {"create", "directCreate"}
      BY <1>3, <1>12, OnRoute DEF PickStorage
    <2> DEFINE step == IF call[r].op = "create" /\ call[r].tariff # FreeTariff THEN "subscribe" ELSE "begin"
    <2>2. ASSUME NEW i \in Candidates(call[r], loc[r].capacity),
                 GoWith(r, step, [loc[r] EXCEPT !.storage = storages[i].name])
          PROVE  RouteFit(r)' /\ LocalsTold(r)'
      <3> DEFINE l == [loc[r] EXCEPT !.storage = storages[i].name]
      <3>1. step \in Route(call[r].op)
        BY <1>3, <2>1, RouteOf
      <3>2. RouteFit(r)' /\ call'[r] = call[r] /\ pc'[r] = step /\ loc'[r] = l
        BY <1>8, <2>2, <3>1
      <3>3. l.storage = storages[i].name /\ l.capacity = loc[r].capacity
        BY <1>1, LocalFields DEF LocType
      <3>4. call[r].storage # NoName => storages[i].name = call[r].storage
        BY <2>2 DEF Candidates, LiveStoragesNamed, StoragesNamed
      <3>5. call[r].op = "directCreate" => loc[r].capacity = call[r].capacity
        BY <1>2 DEF LocalsTold
      <3> HIDE DEF l
      <3> QED BY <2>1, <3>2, <3>3, <3>4, <3>5 DEF LocalsTold
    <2> QED BY <1>7, <1>12, <2>2 DEF PickStorage
  <1>13. CASE Subscribe(r)
    <2>1. call[r].op \in {"create", "directCreate"} /\ pc[r] = "subscribe"
      BY <1>3, <1>13, OnRoute DEF Subscribe
    <2>2. Go(r, "begin") \/ \E answer \in Replies : Refuse(r, answer)
      BY <1>13 DEF Subscribe
    <2>3. Go(r, "begin") => RouteFit(r)' /\ LocalsTold(r)'
      BY <1>2, <1>3, <1>9, <2>1, RouteOf DEF LocalsTold
    <2> QED BY <1>7, <2>2, <2>3
  <1>14. CASE Begin(r)
    <2>1. FirstInside(call[r]) \in Route(call[r].op)
      BY <1>3, RouteOf DEF FirstInside, Ops
    <2>2. /\ RouteFit(r)' /\ call'[r] = call[r]
          /\ pc'[r] = FirstInside(call[r]) /\ loc'[r] = loc[r] /\ pc[r] = "begin"
      BY <1>9, <1>14, <2>1 DEF Begin
    <2>3. FirstInside(call[r]) = "countLabel" => call[r].op \in {"create", "directCreate"}
      BY DEF FirstInside
    <2>4. FirstInside(call[r]) \in {"countLabel", "findStorage", "select", "list", "countName"}
      BY DEF FirstInside
    <2> QED BY <1>2, <2>2, <2>3, <2>4 DEF LocalsTold
  <1>15. CASE CountLabel(r)
    <2>1. call[r].op \in Creations /\ pc[r] = "countLabel"
      BY <1>3, <1>15, OnRoute DEF CountLabel
    <2>2. Go(r, "reserve") \/ \E answer \in Replies : Refuse(r, answer)
      BY <1>15 DEF CountLabel
    <2>3. Go(r, "reserve") => RouteFit(r)' /\ LocalsTold(r)'
      BY <1>2, <1>3, <1>9, <2>1, RouteOf DEF LocalsTold
    <2> QED BY <1>7, <2>2, <2>3
  <1>16. CASE ReserveSpace(r)
    <2>1. call[r].op \in Creations /\ pc[r] = "reserve" /\ Go(r, "insert")
      BY <1>3, <1>16, OnRoute DEF ReserveSpace
    <2> QED BY <1>2, <1>3, <1>9, <2>1, RouteOf DEF LocalsTold
  <1>17. CASE InsertVolume(r)
    <2>1. call[r].op \in Creations /\ pc[r] = "insert"
      BY <1>3, <1>17, OnRoute DEF InsertVolume
    <2> DEFINE step == IF call[r].op = "import" THEN "commit" ELSE "kubeCreate"
    <2>2. Go(r, step) \/ \E answer \in Replies : Refuse(r, answer)
      BY <1>17 DEF InsertVolume
    <2>3. step \in Route(call[r].op)
      BY <1>3, <2>1, RouteOf
    <2>4. Go(r, step) => RouteFit(r)' /\ LocalsTold(r)'
      BY <1>2, <1>9, <2>1, <2>3 DEF LocalsTold
    <2> QED BY <1>7, <2>2, <2>4
  <1>18. CASE CreateInKube(r)
    <2>1. call[r].op \in {"create", "directCreate"} /\ pc[r] = "kubeCreate"
      BY <1>3, <1>18, OnRoute DEF CreateInKube
    <2>2. Go(r, "commit") \/ \E answer \in Replies : Refuse(r, answer)
      BY <1>18 DEF CreateInKube, CallKube
    <2>3. Go(r, "commit") => RouteFit(r)' /\ LocalsTold(r)'
      BY <1>2, <1>3, <1>9, <2>1, RouteOf DEF LocalsTold
    <2> QED BY <1>7, <2>2, <2>3
  <1>19. CASE SelectVolume(r)
    <2> pc[r] = "select"
      BY <1>19 DEF SelectVolume
    <2>1. call[r].op \in Resizings \cup {"delete"}
      BY <1>3, OnRoute
    <2> DEFINE found == VolumesLabelled(VolumesSeen(r), call[r].ns, call[r].label)
               step == IF call[r].op = "delete" THEN "release" ELSE "oldCapacity"
    <2>2. ASSUME NEW i \in found, NEW storage, NEW capacity,
                 call[r].op = "adminResize" => capacity = call[r].capacity,
                 GoWith(r, step, [loc[r] EXCEPT !.vols = {i}, !.storage = storage, !.capacity = capacity])
          PROVE  RouteFit(r)' /\ LocalsTold(r)'
      <3> DEFINE l == [loc[r] EXCEPT !.vols = {i}, !.storage = storage, !.capacity = capacity]
      <3>1. step \in Route(call[r].op)
        BY <1>3, <2>1, RouteOf
      <3>2. RouteFit(r)' /\ call'[r] = call[r] /\ pc'[r] = step /\ loc'[r] = l
        BY <1>8, <2>2, <3>1
      <3>3. l.vols = {i} /\ l.capacity = capacity
        BY <1>1, LocalFields DEF LocType
      <3>4. i \in RowId /\ Concerns(call[r], volumes[i])
        <4>1. i \in RowId
          BY <2>2 DEF VolumesLabelled
        <4>2. VolumesSeen(r)[i] = volumes[i]
          BY <2>1, <4>1, NothingWritten DEF WroteSteps
        <4> QED BY <2>1, <2>2, <4>1, <4>2 DEF VolumesLabelled, Concerns, Live
      <3>5. Concerns(call[r], volumes'[i])
        BY <1>4, <3>4
      <3> HIDE DEF l
      <3> QED BY <2>1, <2>2, <3>2, <3>3, <3>4, <3>5 DEF LocalsTold
    <2>3. \/ \E answer \in Replies : Refuse(r, answer)
          \/ \E storage, capacity : \E i \in found :
               /\ call[r].op = "adminResize" => capacity = call[r].capacity
               /\ GoWith(r, step, [loc[r] EXCEPT !.vols = {i}, !.storage = storage, !.capacity = capacity])
      BY <1>19 DEF SelectVolume
    <2> QED BY <1>7, <2>2, <2>3
  <1>20. CASE ReleaseSpace(r)
    <2>1. call[r].op = "delete" /\ pc[r] = "release" /\ Go(r, "mark")
      BY <1>3, <1>20, OnRoute DEF ReleaseSpace
    <2> QED BY <1>2, <1>3, <1>6, <1>9, <2>1, RouteOf DEF LocalsTold, Aims
  <1>21. CASE MarkDeleted(r)
    <2>1. call[r].op = "delete" /\ pc[r] = "mark" /\ Go(r, "kubeDelete")
      BY <1>3, <1>21, OnRoute DEF MarkDeleted
    <2> QED BY <1>2, <1>3, <1>9, <2>1, RouteOf DEF LocalsTold
  <1>22. CASE DeleteFromKube(r)
    <2>1. call[r].op = "delete" /\ pc[r] = "kubeDelete"
      BY <1>3, <1>22, OnRoute DEF DeleteFromKube
    <2>2. Go(r, "unsubscribe") \/ \E answer \in Replies : Refuse(r, answer)
      BY <1>22 DEF DeleteFromKube, CallKube
    <2>3. Go(r, "unsubscribe") => RouteFit(r)' /\ LocalsTold(r)'
      BY <1>2, <1>3, <1>9, <2>1, RouteOf DEF LocalsTold
    <2> QED BY <1>7, <2>2, <2>3
  <1>23. CASE Unsubscribe(r) \/ UnsubscribeAll(r)
    <2>1. call[r].op \in DeleteAlls \cup {"delete"} /\ pc[r] \in {"unsubscribe", "unsubscribeAll"}
      BY <1>3, <1>23, OnRoute DEF Unsubscribe, UnsubscribeAll
    <2>2. Go(r, "commit") \/ \E answer \in Replies : Refuse(r, answer)
      BY <1>23 DEF Unsubscribe, UnsubscribeAll, CallUnsubscribe
    <2>3. Go(r, "commit") => RouteFit(r)' /\ LocalsTold(r)'
      BY <1>2, <1>3, <1>9, <2>1, RouteOf DEF LocalsTold
    <2> QED BY <1>7, <2>2, <2>3
  <1>24. CASE ReadOldCapacity(r)
    <2> DEFINE l == [loc[r] EXCEPT !.seen = VolumesSeen(r)[TheVolume(r)].capacity]
    <2>1. call[r].op \in Resizings /\ pc[r] = "oldCapacity" /\ GoWith(r, "fit", l)
      BY <1>3, <1>24, OnRoute DEF ReadOldCapacity
    <2>2. l.vols = loc[r].vols /\ l.capacity = loc[r].capacity
      BY <1>1, LocalFields DEF LocType
    <2> HIDE DEF l
    <2> QED BY <1>2, <1>3, <1>6, <1>8, <2>1, <2>2, RouteOf DEF LocalsTold, Aims
  <1>25. CASE CheckFit(r)
    <2>1. call[r].op \in Resizings /\ pc[r] = "fit"
      BY <1>3, <1>25, OnRoute DEF CheckFit
    <2>2. Go(r, "recharge") \/ \E answer \in Replies : Refuse(r, answer)
      BY <1>25 DEF CheckFit
    <2>3. Go(r, "recharge") => RouteFit(r)' /\ LocalsTold(r)'
      BY <1>2, <1>3, <1>6, <1>9, <2>1, RouteOf DEF LocalsTold, Aims
    <2> QED BY <1>7, <2>2, <2>3
  <1>26. CASE Recharge(r)
    <2>1. call[r].op \in Resizings /\ pc[r] = "recharge" /\ Go(r, "setCapacity")
      BY <1>3, <1>26, OnRoute DEF Recharge
    <2> QED BY <1>2, <1>3, <1>6, <1>9, <2>1, RouteOf DEF LocalsTold, Aims
  <1>27. CASE SetCapacity(r)
    <2>1. call[r].op \in Resizings /\ pc[r] = "setCapacity" /\ Go(r, "kubeUpdate")
      BY <1>3, <1>27, OnRoute DEF SetCapacity
    <2> QED BY <1>2, <1>3, <1>9, <2>1, RouteOf DEF LocalsTold
  <1>28. CASE UpdateInKube(r)
    <2>1. call[r].op \in Resizings /\ pc[r] = "kubeUpdate"
      BY <1>3, <1>28, OnRoute DEF UpdateInKube
    <2>2. Go(r, "commit") \/ \E answer \in Replies : Refuse(r, answer)
      BY <1>28 DEF UpdateInKube, CallKube
    <2>3. Go(r, "commit") => RouteFit(r)' /\ LocalsTold(r)'
      BY <1>2, <1>3, <1>9, <2>1, RouteOf DEF LocalsTold
    <2> QED BY <1>7, <2>2, <2>3
  <1>29. CASE ListVolumes(r)
    <2> DEFINE l == [loc[r] EXCEPT !.vols = ListedVolumes(call[r])]
    <2>1. call[r].op \in DeleteAlls /\ pc[r] = "list" /\ GoWith(r, "markAll", l)
      BY <1>3, <1>29, OnRoute DEF ListVolumes
    <2>2. l.vols = ListedVolumes(call[r])
      BY <1>1, LocalFields DEF LocType
    <2>3. \A i \in ListedVolumes(call[r]) : i \in RowId /\ Concerns(call[r], volumes[i])
      BY <2>1 DEF ListedVolumes, VolumesOfUser, VolumesOfNamespace, Concerns, Live
    <2>4. \A i \in l.vols : Concerns(call[r], volumes'[i])
      BY <1>4, <2>2, <2>3
    <2> HIDE DEF l
    <2> QED BY <1>3, <1>8, <2>1, <2>4, RouteOf DEF LocalsTold
  <1>30. CASE ListFails(r)
    <2>1. call[r].op \in DeleteAlls /\ pc[r] = "list" /\ Go(r, "commit")
      BY <1>3, <1>30, OnRoute DEF ListFails
    <2> QED BY <1>2, <1>3, <1>9, <2>1, RouteOf DEF LocalsTold
  <1>31. CASE MarkAllDeleted(r)
    <2>1. call[r].op \in DeleteAlls /\ pc[r] = "markAll" /\ Go(r, "unsubscribeAll")
      BY <1>3, <1>31, OnRoute DEF MarkAllDeleted
    <2> QED BY <1>2, <1>3, <1>9, <2>1, RouteOf DEF LocalsTold
  <1>32. CASE CountName(r) \/ ResetStorage(r) \/ CountNameAgain(r) \/ InsertStorage(r)
    <2>1. call[r].op = "createStorage"
      BY <1>3, <1>32, OnRoute DEF CountName, ResetStorage, CountNameAgain, InsertStorage
    <2>2. \/ \E answer \in Replies : Refuse(r, answer)
          \/ \E step \in {"reset", "countNameAgain", "insertStorage", "commit"} : Go(r, step)
      BY <1>32 DEF CountName, ResetStorage, CountNameAgain, InsertStorage
    <2>3. ASSUME NEW step \in {"reset", "countNameAgain", "insertStorage", "commit"}, Go(r, step)
          PROVE  RouteFit(r)' /\ LocalsTold(r)'
      <3>1. step \in Route(call[r].op)
        BY <1>3, <2>1, <2>3, RouteOf
      <3> QED BY <1>9, <2>1, <2>3, <3>1 DEF LocalsTold
    <2> QED BY <1>7, <2>2, <2>3
  <1>33. CASE FindStorage(r)
    <2> DEFINE found == LiveStoragesNamed(StoragesSeen(r), call[r].storage)
               l(storage, capacity, seen) ==
                 [loc[r] EXCEPT !.storage = storage, !.capacity = capacity, !.seen = seen]
               c == call[r]
    <2>1. c.op \in {"import", "updateStorage", "deleteStorage"}
      BY <1>3, <1>33, OnRoute DEF FindStorage
    <2>2. \A storage, capacity, seen :
            l(storage, capacity, seen).storage = storage /\ l(storage, capacity, seen).capacity = capacity
      BY <1>1, LocalFields DEF LocType
    <2>3. \A i \in found : StoragesSeen(r)[i].name = call[r].storage
      BY DEF LiveStoragesNamed, StoragesNamed
    <2>4. ASSUME c.op = "import", NEW seen, GoWith(r, "countLabel", l(c.storage, c.capacity, seen))
          PROVE  RouteFit(r)' /\ LocalsTold(r)'
      <3>1. "countLabel" \in Route(c.op)
        BY <1>3, <2>4, RouteOf
      <3> HIDE DEF l
      <3> QED BY <1>8, <2>2, <2>4, <3>1 DEF LocalsTold
    <2>5. ASSUME c.op = "updateStorage", NEW step \in {"countNewName", "writeStorage"}, NEW size, NEW seen,
                 GoWith(r, step, l(IF c.name # NoName THEN c.name ELSE c.storage,
                                   IF c.capacity # NoSize THEN c.capacity ELSE size, seen))
          PROVE  RouteFit(r)' /\ LocalsTold(r)'
      <3>1. step \in Route(c.op)
        BY <1>3, <2>5, RouteOf
      <3> HIDE DEF l
      <3> QED BY <1>8, <2>2, <2>5, <3>1 DEF LocalsTold, NewName
    <2>6. ASSUME c.op = "deleteStorage", NEW size, NEW seen, GoWith(r, "countVolumes", l(c.storage, size, seen))
          PROVE  RouteFit(r)' /\ LocalsTold(r)'
      <3>1. "countVolumes" \in Route(c.op)
        BY <1>3, <2>6, RouteOf
      <3> HIDE DEF l
      <3> QED BY <1>8, <2>2, <2>6, <3>1 DEF LocalsTold
    <2>7. \A storage, capacity : [loc[r] EXCEPT !.storage = storage, !.capacity = capacity]
                                   = l(storage, capacity, loc[r].seen)
      BY <1>1, LocalFields DEF LocType
    <2>8. \/ \E answer \in Replies : Refuse(r, answer)
          \/ \E i \in found :
               \/ c.op = "import" /\ GoWith(r, "countLabel", l(StoragesSeen(r)[i].name, c.capacity, loc[r].seen))
               \/ /\ c.op = "updateStorage"
                  /\ \E step \in {"countNewName", "writeStorage"} :
                       GoWith(r, step, l(IF c.name # NoName THEN c.name ELSE StoragesSeen(r)[i].name,
                                         IF c.capacity # NoSize THEN c.capacity ELSE StoragesSeen(r)[i].size,
                                         StoragesSeen(r)[i].used))
               \/ /\ c.op = "deleteStorage"
                  /\ GoWith(r, "countVolumes", l(StoragesSeen(r)[i].name, StoragesSeen(r)[i].size,
                                                 StoragesSeen(r)[i].used))
      BY <1>33, <2>1, <2>7 DEF FindStorage
    <2> HIDE DEF found, l
    <2> QED BY <1>7, <2>3, <2>4, <2>5, <2>6, <2>8
  <1>34. CASE CountNewName(r) \/ WriteStorage(r)
    <2>1. call[r].op = "updateStorage"
      BY <1>3, <1>34, OnRoute DEF CountNewName, WriteStorage
    <2>2. \/ \E answer \in Replies : Refuse(r, answer)
          \/ pc[r] = "countNewName" /\ Go(r, "writeStorage")
          \/ Go(r, "commit")
      BY <1>34 DEF CountNewName, WriteStorage
    <2>3. Go(r, "writeStorage") /\ pc[r] = "countNewName" => RouteFit(r)' /\ LocalsTold(r)'
      BY <1>3, <1>9, <2>1, RouteOf DEF LocalsTold, NewName
    <2>4. Go(r, "commit") => RouteFit(r)' /\ LocalsTold(r)'
      BY <1>3, <1>9, <2>1, RouteOf DEF LocalsTold
    <2> QED BY <1>7, <2>2, <2>3, <2>4
  <1>35. CASE CountVolumes(r) \/ DropStorage(r)
    <2>1. call[r].op = "deleteStorage"
      BY <1>3, <1>35, OnRoute DEF CountVolumes, DropStorage
    <2>2. \/ \E answer \in Replies : Refuse(r, answer)
          \/ pc[r] = "countVolumes" /\ Go(r, "dropStorage")
          \/ Go(r, "commit")
      BY <1>35 DEF CountVolumes, DropStorage
    <2>3. Go(r, "dropStorage") /\ pc[r] = "countVolumes" => RouteFit(r)' /\ LocalsTold(r)'
      BY <1>3, <1>9, <2>1, RouteOf DEF LocalsTold
    <2>4. Go(r, "commit") => RouteFit(r)' /\ LocalsTold(r)'
      BY <1>3, <1>9, <2>1, RouteOf DEF LocalsTold
    <2> QED BY <1>7, <2>2, <2>3, <2>4
  <1>36. CASE Commit(r) \/ DbError(r) \/ PoolTimeout(r)
    BY <1>7, <1>36 DEF Commit, DbError, PoolTimeout
  <1> QED
    BY <1>11, <1>12, <1>13, <1>14, <1>15, <1>16, <1>17, <1>18, <1>19, <1>20, <1>21, <1>22, <1>23,
       <1>24, <1>25, <1>26, <1>27, <1>28, <1>29, <1>30, <1>31, <1>32, <1>33, <1>34, <1>35, <1>36 DEF Step

-----------------------------------------------------------------------------
(* What a request has written before it commits.                           *)

(* A step of r leaves the rows other transactions hold alone, and takes    *)
(* none of them.                                                           *)
LEMMA OthersHold ==
  ASSUME TypeOK, DirtyFits, RowsFresh, StorageVersionsFit, StorageRowsFresh, NEW r \in Requests, LocalFit(r),
         RouteFit(r), LocalsTold(r), Step(r), NEW q \in Requests, q # r, NEW i \in RowId
  PROVE  /\ dirtyVolume'[i].tx = q <=> dirtyVolume[i].tx = q
         /\ dirtyStorage'[i].tx = q <=> dirtyStorage[i].tx = q
  <1>1. RowOutcome(r, i) /\ StorageOutcome(r, i)
    BY StepRowOutcome, StepStorageOutcome
  <1> QED BY <1>1, IdsDistinct DEF RowOutcome, StorageOutcome, Clean

LEMMA OnlyCommitsShow ==
  ASSUME RequestsTypeOK, NEW r \in Requests, Step(r)
  PROVE  Commits(r) \/ UNCHANGED <<storages, volumes>>
  <1>1. Refused(r) => UNCHANGED <<storages, volumes>>
    BY DEF Refused, Refuse, RollbackTx
  <1>2. Reads(r) => UNCHANGED <<storages, volumes>>
    BY DEF Reads
  <1>3. Charges(r) \/ Resets(r) \/ InsertsStorage(r) \/ Drops(r) => UNCHANGED <<storages, volumes>>
    BY DEF Charges, Resets, InsertsStorage, Drops, AddUsed, ResetStorageRow, InsertStorageRow, DropStorageRow,
       WriteStorages
  <1>4. InsertsVolume(r) \/ Marks(r) \/ Resizes(r) \/ RewritesStorage(r) => UNCHANGED <<storages, volumes>>
    BY DEF InsertsVolume, Marks, Resizes, RewritesStorage, InsertVolumeRow, MarkVolumesDeleted,
       SetVolumeCapacity, RewriteStorageRow, WriteVolumes
  <1> QED BY <1>1, <1>2, <1>3, <1>4, StepPlan

(* A commit of r cannot bring a reference to a name that q is changing.    *)
LEMMA RenameHolds ==
  ASSUME TypeOK, StorageVersionsFit, NEW r \in Requests, NEW q \in Requests, q # r,
         LocalFit(q), Wrote(q), Commits(r),
         pc[q] = "commit", call[q].op = "updateStorage", NewName(call[q]) # call[q].storage,
         NEW i \in RowId, volumes'[i] # NoRow, volumes'[i].storage = call[q].storage
  PROVE  dirtyVolume[i].tx = q
  <1>1. volumes'[i] = IF dirtyVolume[i].tx = r THEN dirtyVolume[i].row ELSE volumes[i]
    BY DEF Commits, CommitTx, VolumesSeen, View
  <1>2. volumes[i] # NoRow /\ volumes[i].storage = call[q].storage => dirtyVolume[i].tx = q
    BY DEF Wrote
  <1>3. SUFFICES ASSUME dirtyVolume[i].tx = r, dirtyVolume[i].row.storage = call[q].storage,
                        volumes[i] # NoRow => volumes[i].storage # call[q].storage
                 PROVE  FALSE
    BY <1>1, <1>2
  <1>4. i \in NewReferences(r)
    BY <1>3 DEF NewReferences
  <1>5. PICK j \in RowId : dirtyStorage[j].tx = q
    BY DEF Wrote
  <1>6. /\ storages[j] # NoRow /\ storages[j].name = call[q].storage
        /\ dirtyStorage[j].row.name # storages[j].name
    BY <1>5, IdsDistinct DEF StorageVersionsFit, StorageEffect, Creations, Resizings
  <1> QED BY <1>3, <1>4, <1>5, <1>6, IdsDistinct DEF Commits, ReferenceUndecided

LEMMA StepWritesDone ==
  ASSUME IInv, StorageVersionsFit, StorageRowsFresh, WritesDone, NEW r \in Requests, RouteFit(r),
         LocalsTold(r), Step(r)
  PROVE  WritesDone'
  <1>1. /\ TypeOK /\ RequestsTypeOK /\ DirtyFits /\ RowsFresh
        /\ LocalFit(r) /\ Wrote(r)
    BY DEF IInv, TypeOK, LocalsFit, WritesDone
  <1>2. call' = call
    BY StepShape DEF OwnLocals
  <1>3. ASSUME NEW q \in Requests, q # r
        PROVE  Wrote(q)'
    <2>1. pc'[q] = pc[q] /\ loc'[q] = loc[q]
      BY <1>1, <1>3, StepShape, OthersStay DEF OwnLocals, RequestsTypeOK
    <2>2. \A i \in RowId : /\ dirtyVolume'[i].tx = q <=> dirtyVolume[i].tx = q
                           /\ dirtyStorage'[i].tx = q <=> dirtyStorage[i].tx = q
      BY <1>1, <1>3, OthersHold
    <2>3. q \in RowId /\ Wrote(q) /\ LocalFit(q)
      BY DEF RowId, WritesDone, IInv, LocalsFit
    <2>4. pc[q] = "commit" /\ call[q].op = "updateStorage" /\ NewName(call[q]) # call[q].storage =>
            \A i \in RowId :
              volumes'[i] # NoRow /\ volumes'[i].storage = call[q].storage => dirtyVolume[i].tx = q
      <3>1. CASE Commits(r)
        BY <1>1, <1>3, <2>3, <3>1, RenameHolds
      <3>2. CASE UNCHANGED volumes
        BY <2>3, <3>2 DEF Wrote
      <3> QED BY <1>1, <3>1, <3>2, OnlyCommitsShow
    <2> QED BY <1>2, <2>1, <2>2, <2>3, <2>4 DEF Wrote, NewName
  <1>4. Wrote(r)'
    <2>1. call[r].op \in Ops /\ pc[r] \in Route(call[r].op) /\ pc[r] \in ActiveSteps
      <3>1. pc[r] \in ActiveSteps
        BY StepShape DEF Quiet, Undone, Committed, Inserted, Marked, Resized, Rewritten,
           ActiveSteps, OutsideSteps, InsideSteps
      <3> QED BY <1>1, <3>1, CallFields DEF LocalFit, RouteFit, ActiveSteps, OutsideSteps, InsideSteps
    <2>2. \A step : Go(r, step) => pc'[r] = step /\ loc'[r] = loc[r]
      BY <1>1 DEF Go, RequestsTypeOK
    <2>3. pc[r] \notin WroteSteps => \A i \in RowId : dirtyVolume[i].tx # r
      BY <1>1, NothingWritten
    <2>4. r \in RowId
      BY DEF RowId
    <2> USE DEF Creations, Resizings, DeleteAlls
    <2>5. CASE Reads(r)
      <3>1. PICK step \in ActiveSteps :
              /\ MovesTo(r, step)
              /\ step \in WroteSteps \cup ChargedSteps => loc' = loc
              /\ step = "commit" => pc[r] \in {"kubeCreate", "kubeUpdate", "unsubscribe", "unsubscribeAll", "list"}
              /\ step \in WroteSteps \cup ChargedSteps => step = "commit" \/ (step = "unsubscribe" /\ pc[r] = "kubeDelete")
        BY <2>5 DEF Reads
      <3>2. pc'[r] = step /\ UNCHANGED <<volumes, dirtyStorage, dirtyVolume>>
        BY <1>1, <2>5, <3>1 DEF MovesTo, RequestsTypeOK, Reads
      <3>3. CASE step \notin WroteSteps \cup ChargedSteps
        BY <3>2, <3>3 DEF Wrote, WroteSteps
      <3>4. CASE step = "unsubscribe" /\ pc[r] = "kubeDelete"
        BY <1>1, <1>2, <3>1, <3>2, <3>4 DEF Wrote, WroteSteps
      <3>5. CASE step = "commit" /\ pc[r] \in {"kubeUpdate", "unsubscribe"}
        <4>1. PICK i \in RowId : loc[r].vols = {i}
          BY <3>5 DEF LocalsTold
        <4>2. \A k \in RowId : dirtyVolume[k].tx = r <=> k = i
          BY <1>1, <3>5, <4>1 DEF Wrote
        <4>3. call[r].op \in Resizings \cup {"delete"}
          BY <2>1, <3>5, OnRoute
        <4> QED BY <1>2, <3>2, <3>5, <4>2, <4>3 DEF Wrote
      <3>6. CASE step = "commit" /\ pc[r] \in {"kubeCreate", "unsubscribeAll", "list"}
        <4>1. \/ call[r].op \in {"create", "directCreate"} /\ pc[r] = "kubeCreate"
              \/ call[r].op \in DeleteAlls
          BY <2>1, <3>6, OnRoute
        <4> QED BY <1>1, <1>2, <3>2, <3>6, <4>1 DEF Wrote
      <3> QED BY <3>1, <3>3, <3>4, <3>5, <3>6
    <2>6. CASE Refused(r) \/ Commits(r)
      <3>1. pc'[r] = "done"
        BY <1>1, <2>6 DEF Refused, Refuse, Commits, Answer, RequestsTypeOK
      <3> QED BY <3>1 DEF Wrote
    <2>7. CASE Charges(r)
      BY <2>2, <2>7 DEF Charges, Wrote
    <2>8. CASE InsertsVolume(r)
      <3>1. call[r].op \in Creations
        BY <2>1, <2>8, OnRoute DEF InsertsVolume
      <3>2. pc'[r] \in {"kubeCreate", "commit"} /\ dirtyVolume'[r].tx = r
        BY <2>2, <2>4, <2>8 DEF InsertsVolume, InsertVolumeRow, WriteVolumes, Written
      <3> QED BY <1>2, <3>1, <3>2 DEF Wrote
    <2>9. CASE Marks(r)
      <3>1. pc'[r] \in {"kubeDelete", "unsubscribeAll"} /\ loc'[r] = loc[r]
        BY <2>2, <2>9 DEF Marks
      <3>2. \A i \in RowId : dirtyVolume[i].tx # r
        BY <2>3, <2>9 DEF Marks, WroteSteps
      <3>3. \A i \in RowId : dirtyVolume'[i].tx = r <=> i \in loc[r].vols
        BY <2>9, <3>2 DEF Marks, MarkVolumesDeleted, WriteVolumes, Written
      <3> QED BY <3>1, <3>3 DEF Wrote
    <2>10. CASE Resizes(r)
      <3>1. pc'[r] = "kubeUpdate" /\ loc'[r] = loc[r]
        BY <2>2, <2>10 DEF Resizes
      <3>2. \A i \in RowId : dirtyVolume[i].tx # r
        BY <2>3, <2>10 DEF Resizes, WroteSteps
      <3>3. loc[r].vols = {TheVolume(r)}
        BY <1>1, <2>10 DEF Resizes, LocalFit, TheVolume
      <3>4. \A i \in RowId : dirtyVolume'[i].tx = r <=> i \in loc[r].vols
        BY <2>10, <3>2, <3>3 DEF Resizes, SetVolumeCapacity, WriteVolumes, Written
      <3> QED BY <3>1, <3>4 DEF Wrote
    <2>11. CASE Resets(r) \/ InsertsStorage(r)
      <3>1. call[r].op = "createStorage" /\ pc'[r] = "commit"
        BY <2>1, <2>2, <2>11, OnRoute DEF Resets, InsertsStorage
      <3> QED BY <1>2, <3>1 DEF Wrote
    <2>12. CASE RewritesStorage(r)
      <3>1. call[r].op = "updateStorage" /\ pc'[r] = "commit" /\ loc[r].storage = NewName(call[r])
        BY <2>1, <2>2, <2>12, OnRoute DEF RewritesStorage, LocalsTold
      <3>2. \E i \in RowId : dirtyStorage'[i].tx = r
        <4>1. PICK i \in RowId : i \in Own(r)
          BY <2>12 DEF RewritesStorage, Own, StoragesNamed
        <4> QED BY <2>12, <4>1 DEF RewritesStorage, RewriteStorageRow, Written
      <3>3. ASSUME NEW i \in RowId, NewName(call[r]) # call[r].storage,
                   volumes'[i] # NoRow, volumes'[i].storage = call[r].storage
            PROVE  dirtyVolume'[i].tx = r
        <4>1. volumes' = volumes /\ VolumesSeen(r)[i] = volumes[i]
          BY <1>1, <2>12, NothingWritten DEF RewritesStorage, RewriteStorageRow, WroteSteps
        <4>2. i \in Cascade(r, call[r].storage, loc[r].storage)
          BY <3>1, <3>3, <4>1 DEF Cascade
        <4> QED BY <2>12, <4>2 DEF RewritesStorage, RewriteStorageRow, Written
      <3> QED BY <1>2, <3>1, <3>2, <3>3 DEF Wrote, NewName
    <2>13. CASE Drops(r)
      <3>1. call[r].op = "deleteStorage" /\ pc'[r] = "commit"
        BY <2>1, <2>2, <2>13, OnRoute DEF Drops
      <3>2. \E i \in RowId : dirtyStorage'[i].tx = r
        <4>1. PICK i \in RowId : i \in StoragesNamed(StoragesSeen(r), loc[r].storage)
          BY <2>13 DEF Drops, StoragesNamed
        <4> QED BY <2>13, <4>1 DEF Drops, DropStorageRow, WriteStorages, Written
      <3> QED BY <1>2, <3>1, <3>2 DEF Wrote
    <2> QED BY <1>1, <2>5, <2>6, <2>7, <2>8, <2>9, <2>10, <2>11, <2>12, <2>13, StepPlan
  <1> QED BY <1>3, <1>4 DEF WritesDone

-----------------------------------------------------------------------------
(* Names of storages, and the references of volumes to them.               *)

LEMMA StepStorageRowsFresh ==
  ASSUME TypeOK, StorageVersionsFit, StorageRowsFresh, NEW r \in Requests, LocalFit(r), RouteFit(r),
         LocalsTold(r), Step(r)
  PROVE  StorageRowsFresh'
  <1>1. SUFFICES ASSUME NEW q \in Requests, pc'[q] \notin {"commit", "done", "cut"}
                 PROVE  storages'[q] = NoRow /\ dirtyStorage'[q].tx = NoTx
    BY DEF StorageRowsFresh
  <1>2. q \in RowId
    BY DEF RowId
  <1>3. pc[q] \notin {"commit", "done", "cut"}
    <2>1. CASE q # r
      BY <1>1, <2>1, OthersStay DEF TypeOK
    <2>2. CASE q = r
      BY <1>1, <2>2, StepShape DEF Quiet, Undone, Committed, Inserted, Marked, Resized, Rewritten, MovesTo,
         TypeOK, RequestsTypeOK, ActiveSteps, OutsideSteps, InsideSteps
    <2> QED BY <2>1, <2>2
  <1>4. storages[q] = NoRow /\ dirtyStorage[q].tx = NoTx
    BY <1>3 DEF StorageRowsFresh
  <1>5. StorageOutcome(r, q)
    BY <1>2, StepStorageOutcome
  <1> QED BY <1>1, <1>4, <1>5, IdsDistinct DEF StorageOutcome, FreshName

(* No name is gained by two storages at once.                              *)
LEMMA StepUniqueNames ==
  ASSUME TypeOK, StorageVersionsFit, StorageRowsFresh, UniqueNames, NEW r \in Requests, LocalFit(r),
         RouteFit(r), LocalsTold(r), Step(r)
  PROVE  UniqueNames'
  <1> DEFINE Versions(i) == {storages[i], dirtyStorage[i].row}
             NewVersions(i) == {storages'[i], dirtyStorage'[i].row}
             Claims(i, name) == \E s \in Versions(i) : s # NoRow /\ s.name = name
  <1>1. ASSUME NEW i \in RowId, NEW d \in NewVersions(i), d # NoRow
        PROVE  Claims(i, d.name) \/ FreshName(r, i, d.name)
    <2>1. StorageOutcome(r, i)
      BY StepStorageOutcome
    <2>2. Clean.row = NoRow
      BY DEF Clean
    <2>3. CASE NewVersions(i) \subseteq Versions(i) \cup {NoRow}
      BY <1>1, <2>3
    <2>4. CASE d = storages[i] \/ (storages[i] # NoRow /\ d.name = storages[i].name)
      BY <1>1, <2>4
    <2>5. CASE d = dirtyStorage'[i].row /\ FreshName(r, i, dirtyStorage'[i].row.name)
      BY <2>5
    <2> HIDE DEF Claims
    <2> QED BY <1>1, <2>1, <2>2, <2>3, <2>4, <2>5 DEF StorageOutcome
  <1>2. \A i, j \in RowId : \A name : i # j /\ Claims(i, name) => ~Claims(j, name)
    BY DEF UniqueNames
  <1>3. ASSUME NEW i \in RowId, NEW j \in RowId, i # j, NEW name, FreshName(r, i, name)
        PROVE  ~Claims(j, name) /\ ~FreshName(r, j, name)
    <2>1. pc[r] \notin ChargedSteps
      BY <1>3 DEF FreshName, ChargedSteps
    <2>2. /\ dirtyStorage[i].tx # r /\ StoragesSeen(r)[i] = storages[i]
          /\ dirtyStorage[j].tx # r /\ StoragesSeen(r)[j] = storages[j]
      BY <2>1, NothingCharged
    <2>3. dirtyStorage[j].tx = NoTx => dirtyStorage[j].row = NoRow
      BY DEF StorageVersionsFit
    <2>4. pc[r] = "writeStorage" => ~(i \in Own(r) /\ j \in Own(r))
      BY <1>2, <1>3, <2>2 DEF Own, StoragesNamed
    <2>5. storages[j] # NoRow => storages[j].name # name
      BY <1>3, <2>2, <2>4 DEF FreshName, NameTaken, StoragesNamed
    <2>6. dirtyStorage[j].row # NoRow => dirtyStorage[j].row.name # name
      BY <1>3, <2>2, <2>3 DEF FreshName, NameUndecided
    <2> QED BY <1>3, <2>4, <2>5, <2>6 DEF FreshName
  <1> HIDE DEF Claims
  <1>4. \A i, j \in RowId : i # j =>
          \A s \in NewVersions(i), d \in NewVersions(j) : s # NoRow /\ d # NoRow => s.name # d.name
    BY <1>1, <1>2, <1>3
  <1> QED BY <1>4 DEF UniqueNames

(* A commit leaves no volume without its storage: a new reference was      *)
(* checked, an old one follows a rename in the same transaction.           *)
LEMMA StepForeignKey ==
  ASSUME TypeOK, StorageVersionsFit, VolumeVersionsFit, ForeignKey, NEW r \in Requests, Wrote(r), Step(r)
  PROVE  ForeignKey'
  <1>1. CASE UNCHANGED <<storages, volumes>>
    BY <1>1 DEF ForeignKey, StoragesNamed
  <1>2. ASSUME Commits(r), NEW i \in RowId, volumes'[i] # NoRow
        PROVE  StoragesNamed(storages', volumes'[i].storage) # {}
    <2>1. storages' = StoragesSeen(r) /\ volumes' = VolumesSeen(r)
      BY <1>2 DEF Commits, CommitTx
    <2>2. volumes'[i] = IF dirtyVolume[i].tx = r THEN dirtyVolume[i].row ELSE volumes[i]
      BY <2>1 DEF VolumesSeen, View
    <2>3. CASE i \in NewReferences(r)
      BY <1>2, <2>1, <2>2, <2>3 DEF Commits, ReferencesExist, NewReferences
    <2>4. CASE i \notin NewReferences(r)
      <3>1. volumes[i] # NoRow /\ volumes'[i].storage = volumes[i].storage
        BY <1>2, <2>2, <2>4 DEF NewReferences
      <3>2. PICK j \in RowId : storages[j] # NoRow /\ storages[j].name = volumes[i].storage
        BY <3>1 DEF ForeignKey, StoragesNamed
      <3>3. CASE dirtyStorage[j].tx # r
        BY <2>1, <3>1, <3>2, <3>3 DEF StoragesSeen, View, StoragesNamed
      <3>4. CASE dirtyStorage[j].tx = r
        <4>1. /\ dirtyStorage[j].row # NoRow
              /\ StorageEffect(r, call[r], j, storages[j], dirtyStorage[j].row)
          BY <3>4, IdsDistinct DEF StorageVersionsFit
        <4>2. CASE dirtyStorage[j].row.name = storages[j].name
          BY <2>1, <3>1, <3>2, <3>4, <4>1, <4>2 DEF StoragesSeen, View, StoragesNamed
        <4>3. CASE dirtyStorage[j].row.name # storages[j].name
          <5>1. /\ call[r].op = "updateStorage" /\ storages[j].name = call[r].storage
                /\ NewName(call[r]) # call[r].storage
            BY <3>2, <4>1, <4>3 DEF StorageEffect
          <5>2. dirtyVolume[i].tx = r
            BY <1>2, <3>1, <3>2, <5>1 DEF Commits, Wrote
          <5>3. dirtyVolume[i].row.storage = volumes[i].storage
            BY <2>2, <3>1, <5>2
          <5>4. VolumeEffect(r, call[r], i, volumes[i], dirtyVolume[i].row)
            BY <5>2, IdsDistinct DEF VolumeVersionsFit
          <5>5. volumes[i] \in VolumeRow
            BY <3>1 DEF TypeOK, StoreTypeOK
          <5>6. [volumes[i] EXCEPT !.storage = NewName(call[r])].storage = NewName(call[r])
            BY <5>5 DEF VolumeRow
          <5> QED BY <3>2, <5>1, <5>3, <5>4, <5>6 DEF VolumeEffect, Creations, Resizings, DeleteAlls
        <4> QED BY <4>2, <4>3
      <3> QED BY <3>3, <3>4
    <2> QED BY <2>3, <2>4
  <1>3. Commits(r) \/ UNCHANGED <<storages, volumes>>
    BY OnlyCommitsShow DEF TypeOK
  <1> QED BY <1>1, <1>2, <1>3 DEF ForeignKey, StoragesNamed

-----------------------------------------------------------------------------
(* EffectInv is an invariant.                                              *)

LEMMA InitEffect ==
  ASSUME Init
  PROVE  EffectInv
  <1>1. /\ storages = [i \in RowId |-> IF i \in SeedRows THEN SeedStorages[i] ELSE NoRow]
        /\ volumes = [i \in RowId |-> IF i \in SeedRows THEN SeedVolumes[i] ELSE NoRow]
        /\ \A i \in RowId : dirtyStorage[i] = Clean /\ dirtyVolume[i] = Clean
    BY DEF Init, StoreInit
  <1>2. \A r \in Requests : pc[r] = "idle" /\ call[r] = NoCall /\ reply[r] = "none"
    BY DEF Init
  <1>3. RoutesFit /\ Told /\ WritesDone
    BY <1>2 DEF RoutesFit, RouteFit, Told, WritesDone, Wrote, ActiveSteps, OutsideSteps, InsideSteps
  <1>4. VolumeVersionsFit /\ StorageVersionsFit
    BY <1>1 DEF VolumeVersionsFit, StorageVersionsFit, Clean
  <1>5. StorageRowsFresh
    BY <1>1, IdsDistinct DEF StorageRowsFresh, RowId, Clean
  <1>6. \A i \in RowId : \A s \in {storages[i], dirtyStorage[i].row} :
          s # NoRow => i \in SeedRows /\ s = SeedStorages[i]
    BY <1>1 DEF Clean
  <1>7. UniqueNames
    BY <1>6, SeedsConsistent DEF UniqueNames
  <1>8. ForeignKey
    <2>1. SUFFICES ASSUME NEW i \in RowId, volumes[i] # NoRow
                   PROVE  StoragesNamed(storages, volumes[i].storage) # {}
      BY DEF ForeignKey
    <2>2. i \in SeedRows /\ volumes[i] = SeedVolumes[i] /\ SeedVolumes[i] # NoRow
      BY <1>1, <2>1
    <2>3. PICK j \in SeedRows : SeedStorages[j] # NoRow /\ SeedStorages[j].name = SeedVolumes[i].storage
      BY <2>2, SeedsConsistent
    <2>4. j \in RowId /\ storages[j] = SeedStorages[j]
      BY <1>1 DEF RowId
    <2> QED BY <2>2, <2>3, <2>4 DEF StoragesNamed
  <1> QED BY <1>3, <1>4, <1>5, <1>7, <1>8 DEF EffectInv

LEMMA StepEffect ==
  ASSUME IInv, EffectInv, NEW r \in Requests, Step(r)
  PROVE  EffectInv'
  <1>1. /\ TypeOK /\ RequestsTypeOK /\ DirtyFits /\ RowsFresh /\ LocalFit(r)
    BY DEF IInv, TypeOK, LocalsFit
  <1>2. pc[r] # "idle"
    BY StepShape DEF Quiet, Undone, Committed, Inserted, Marked, Resized, Rewritten,
       ActiveSteps, OutsideSteps, InsideSteps
  <1>3. /\ RouteFit(r) /\ LocalsTold(r) /\ Wrote(r)
        /\ VolumeVersionsFit /\ StorageVersionsFit /\ WritesDone /\ StorageRowsFresh /\ UniqueNames /\ ForeignKey
    BY <1>2 DEF EffectInv, RoutesFit, Told, WritesDone
  <1>4. RouteFit(r)' /\ LocalsTold(r)'
    BY <1>1, <1>3, StepTold
  <1>5. ASSUME NEW q \in Requests, q # r
        PROVE  RouteFit(q)' /\ (pc'[q] # "idle" => LocalsTold(q)')
    <2>1. pc'[q] = pc[q] /\ loc'[q] = loc[q] /\ call'[q] = call[q]
      BY <1>1, <1>5, StepShape, OthersStay DEF OwnLocals, RequestsTypeOK
    <2>2. reply'[q] = reply[q]
      <3>1. reply' = reply \/ \E answer : Answer(r, answer)
        BY <1>1, StepPlan
        DEF Reads, Refused, Refuse, Commits, Charges, InsertsVolume, Marks, Resizes, Resets, InsertsStorage,
            RewritesStorage, Drops, Go
      <3> QED BY <1>1, <1>5, <3>1 DEF Answer, RequestsTypeOK
    <2>3. RouteFit(q) /\ (pc[q] # "idle" => LocalsTold(q))
      BY DEF EffectInv, RoutesFit, Told
    <2>4. \A i \in loc[q].vols : Concerns(call[q], volumes[i]) => Concerns(call[q], volumes'[i])
      BY <1>1, LocalFields, ConcernsStay
    <2>5. RouteFit(q)'
      BY <2>1, <2>2, <2>3 DEF RouteFit
    <2> QED BY <2>1, <2>3, <2>4, <2>5 DEF LocalsTold, NewName, Concerns
  <1>6. RoutesFit' /\ Told'
    BY <1>4, <1>5 DEF RoutesFit, Told
  <1>7. VolumeVersionsFit' /\ StorageVersionsFit' /\ StorageRowsFresh'
    BY <1>1, <1>3, StepVolumeVersions, StepStorageVersions, StepStorageRowsFresh
  <1>8. WritesDone' /\ UniqueNames' /\ ForeignKey'
    BY <1>1, <1>3, StepWritesDone, StepUniqueNames, StepForeignKey
  <1> QED BY <1>6, <1>7, <1>8 DEF EffectInv

LEMMA StartEffect ==
  ASSUME IInv, EffectInv, NEW r \in Requests, NEW c \in Calls, Start(r, c)
  PROVE  EffectInv'
  <1>1. TypeOK /\ RequestsTypeOK /\ DirtyFits
    BY DEF IInv, TypeOK
  <1>2. /\ UNCHANGED <<storages, volumes, dirtyStorage, dirtyVolume, reply>>
        /\ pc[r] = "idle"
    BY DEF Start, storeVars
  <1>3. c.op \in Ops
    BY CallFields
  <1>4. /\ pc'[r] = FirstStep(c) /\ call'[r] = c
        /\ loc'[r] = [Blank EXCEPT !.capacity = IF c.op = "directCreate" THEN c.capacity ELSE 0]
        /\ \A q \in Requests : q # r => pc'[q] = pc[q] /\ call'[q] = call[q] /\ loc'[q] = loc[q]
    BY <1>1 DEF Start, RequestsTypeOK
  <1>5. /\ FirstStep(c) \in {"tariff", "pick", "begin"} /\ FirstStep(c) \in Route(c.op)
        /\ FirstStep(c) = "begin" => c.op \notin {"create", "directCreate"}
    BY <1>3, RouteOf DEF FirstStep, Resizings
  <1>6. \A i \in RowId : dirtyVolume[i].tx # r /\ dirtyStorage[i].tx # r
    BY <1>1, <1>2, NothingWritten, NothingCharged DEF WroteSteps, ChargedSteps, EffectInv
  <1>7. \A i \in RowId : /\ dirtyVolume[i].tx \in Requests \cup {NoTx}
                         /\ dirtyStorage[i].tx \in Requests \cup {NoTx}
    BY <1>1 DEF TypeOK, StoreTypeOK
  <1>8. RouteFit(r)' /\ LocalsTold(r)' /\ Wrote(r)'
    <2>1. loc'[r].capacity = IF c.op = "directCreate" THEN c.capacity ELSE 0
      BY <1>4 DEF Blank
    <2>2. reply[r] = "none"
      BY <1>2 DEF EffectInv, RoutesFit, RouteFit
    <2>3. RouteFit(r)'
      BY <1>2, <1>4, <1>5, <2>2 DEF RouteFit
    <2>4. LocalsTold(r)'
      BY <1>4, <1>5, <2>1 DEF LocalsTold
    <2> QED BY <1>4, <1>5, <2>3, <2>4 DEF Wrote
  <1>9. ASSUME NEW q \in Requests, q # r
        PROVE  RouteFit(q)' /\ (pc'[q] # "idle" => LocalsTold(q)') /\ Wrote(q)'
    <2>1. RouteFit(q) /\ (pc[q] # "idle" => LocalsTold(q)) /\ Wrote(q)
      BY DEF EffectInv, RoutesFit, Told, WritesDone
    <2> QED BY <1>2, <1>4, <1>9, <2>1 DEF RouteFit, LocalsTold, Wrote, NewName, Concerns
  <1>10. RoutesFit' /\ Told' /\ WritesDone'
    BY <1>8, <1>9 DEF RoutesFit, Told, WritesDone
  <1>11. VolumeVersionsFit'
    BY <1>2, <1>4, <1>6, <1>7 DEF EffectInv, VolumeVersionsFit, VolumeEffect, Concerns, NewName
  <1>12. StorageVersionsFit'
    BY <1>2, <1>4, <1>6, <1>7 DEF EffectInv, StorageVersionsFit, StorageEffect, NewName
  <1>13. StorageRowsFresh' /\ UniqueNames' /\ ForeignKey'
    BY <1>2, <1>4 DEF EffectInv, StorageRowsFresh, UniqueNames, ForeignKey, StoragesNamed
  <1> QED BY <1>10, <1>11, <1>12, <1>13 DEF EffectInv

LEMMA CrashEffect ==
  ASSUME IInv, EffectInv, Crash
  PROVE  EffectInv'
  <1>1. /\ UNCHANGED <<storages, volumes, call, reply>>
        /\ \A i \in RowId : dirtyStorage'[i] = Clean /\ dirtyVolume'[i] = Clean
    BY DEF Crash, RollbackAll
  <1>2. \A r \in Requests : \/ pc'[r] = "cut" /\ pc[r] \in ActiveSteps
                            \/ pc'[r] = pc[r] /\ pc[r] \in {"idle", "done", "cut"}
    BY DEF IInv, TypeOK, RequestsTypeOK, Crash, Active
  <1>3. \A r \in Requests : pc'[r] \in {"idle", "done", "cut"}
    BY <1>2
  <1>4. RoutesFit' /\ Told' /\ WritesDone'
    BY <1>1, <1>2, <1>3 DEF EffectInv, RoutesFit, RouteFit, Told, LocalsTold, WritesDone, Wrote,
       ActiveSteps, OutsideSteps, InsideSteps
  <1>5. VolumeVersionsFit' /\ StorageVersionsFit'
    BY <1>1 DEF VolumeVersionsFit, StorageVersionsFit, Clean
  <1>6. StorageRowsFresh'
    BY <1>1, <1>2 DEF EffectInv, StorageRowsFresh, Clean, RowId
  <1>7. UniqueNames' /\ ForeignKey'
    BY <1>1 DEF EffectInv, UniqueNames, ForeignKey, StoragesNamed, Clean
  <1> QED BY <1>4, <1>5, <1>6, <1>7 DEF EffectInv

LEMMA NextEffect ==
  ASSUME IInv, EffectInv, [Next]_vars
  PROVE  EffectInv'
  <1>1. CASE UNCHANGED vars
    <2>1. UNCHANGED <<storages, volumes, dirtyStorage, dirtyVolume, call, pc, loc, reply>>
      BY <1>1 DEF vars, storeVars, requestVars
    <2>2. RoutesFit' /\ Told' /\ WritesDone'
      BY <2>1 DEF EffectInv, RoutesFit, RouteFit, Told, LocalsTold, WritesDone, Wrote, Concerns, NewName
    <2>3. VolumeVersionsFit' /\ StorageVersionsFit'
      BY <2>1 DEF EffectInv, VolumeVersionsFit, StorageVersionsFit, VolumeEffect, StorageEffect, Concerns, NewName
    <2>4. StorageRowsFresh' /\ UniqueNames' /\ ForeignKey'
      BY <2>1 DEF EffectInv, StorageRowsFresh, UniqueNames, ForeignKey, StoragesNamed
    <2> QED BY <2>2, <2>3, <2>4 DEF EffectInv
  <1> QED BY <1>1, StepEffect, StartEffect, CrashEffect DEF Next, Finished

(* The uncommitted work of every request fits what it was asked and what   *)
(* it wrote it on.                                                         *)
THEOREM EffectInvariant == Spec => []EffectInv
  <1>1. Init => EffectInv
    BY InitEffect
  <1>2. IInv /\ EffectInv /\ [Next]_vars => EffectInv'
    BY NextEffect
  <1> QED BY <1>1, <1>2, Inductiveness, PTL DEF Spec

(* Two storages never share a name, deleted ones included, although        *)
(* CreateStorage and UpdateStorage count and write in separate statements. *)
THEOREM StorageNamesUnique == Spec => []UniqueStorageNames
  <1>1. EffectInv => UniqueStorageNames
    BY DEF EffectInv, UniqueNames, UniqueStorageNames
  <1> QED BY <1>1, EffectInvariant, PTL

(* Every volume row names a storage row, across renames of storages by     *)
(* UpdateStorage while volumes are being created on them.                  *)
THEOREM ReferencesHold == Spec => []ForeignKey
  <1>1. EffectInv => ForeignKey
    BY DEF EffectInv
  <1> QED BY <1>1, EffectInvariant, PTL

-----------------------------------------------------------------------------
(* Subscriptions: a volume created with a tariff is charged for as long as *)
(* it lives, unless an answer is lost or the transaction of a deletion     *)
(* breaks off.                                                             *)

(* No answer of a service is lost or unreadable, no connection breaks and  *)
(* the process does not stop; refusals and a lost COMMIT answer remain.    *)
Reliable == Faults \cap {"lost", "unreadable", "db", "crash"} = {}

-----------------------------------------------------------------------------
(* The steps that subscribe and unsubscribe.                               *)

(* A paid creation cannot reach its transaction unless it is subscribed.   *)
LEMMA StepSubscribes ==
  ASSUME Reliable, RequestsTypeOK, NEW r \in Requests, Step(r), call[r].op = "create",
         call[r].tariff # FreeTariff, pc[r] \in {"tariff", "pick", "subscribe"}
  PROVE  \/ pc'[r] \in {"pick", "subscribe", "done"}
         \/ pc'[r] = "begin" /\ r \in subs'
  <1>1. \A answer : Refuse(r, answer) => pc'[r] = "done"
    BY DEF RequestsTypeOK, Refuse, Answer
  <1>2. \A step, l : Go(r, step) \/ GoWith(r, step, l) => pc'[r] = step
    BY DEF RequestsTypeOK, Go, GoWith
  <1>3. CASE FetchTariff(r) BY <1>1, <1>2, <1>3 DEF FetchTariff
  <1>4. CASE PickStorage(r) BY <1>1, <1>2, <1>4 DEF PickStorage
  <1>5. CASE Subscribe(r)
    <2>1. PICK o \in Outcomes("billing", TRUE) :
            /\ subs' = IF o.done THEN subs \cup {r} ELSE subs
            /\ (o.ok /\ Go(r, "begin")) \/ (~o.ok /\ Refuse(r, "billing"))
      BY <1>5 DEF Subscribe
    <2>2. o.ok => o.done
      BY OkMeansDone DEF Reliable
    <2> QED BY <1>1, <1>2, <2>1, <2>2
  <1>6. CASE DbError(r) \/ PoolTimeout(r) BY <1>1, <1>6 DEF DbError, PoolTimeout
  <1> QED BY <1>3, <1>4, <1>5, <1>6, StepAt

(* What a step does to the subscriptions when every answer arrives.        *)
SubsOutcome(r) ==
  \/ subs \subseteq subs'
  \/ /\ pc[r] \in {"unsubscribe", "unsubscribeAll"} /\ pc'[r] = "commit"
     /\ subs' = subs \ loc[r].vols
     /\ UNCHANGED <<volumes, dirtyVolume>>

LEMMA StepSubs ==
  ASSUME Reliable, RequestsTypeOK, NEW r \in Requests, Step(r)
  PROVE  SubsOutcome(r)
  <1>1. CASE Unsubscribe(r) \/ UnsubscribeAll(r)
    <2>1. CallUnsubscribe(r, loc[r].vols) /\ pc[r] \in {"unsubscribe", "unsubscribeAll"}
      BY <1>1 DEF Unsubscribe, UnsubscribeAll
    <2>2. CASE UNCHANGED subs
      BY <2>2 DEF SubsOutcome
    <2>3. ASSUME NEW accepted \in BOOLEAN, NEW o \in Outcomes("billing", accepted),
                 subs' = IF o.done THEN subs \ loc[r].vols ELSE subs,
                 \/ o.ok /\ Go(r, "commit") /\ UNCHANGED storeVars
                 \/ ~o.ok /\ Refuse(r, "billing")
          PROVE  SubsOutcome(r)
      <3>1. o.done => o.ok
        BY <2>3 DEF Outcomes, Reliable
      <3>2. Go(r, "commit") => pc'[r] = "commit"
        BY DEF Go, RequestsTypeOK
      <3> QED BY <2>1, <2>3, <3>1, <3>2 DEF SubsOutcome, storeVars
    <2> QED BY <2>1, <2>2, <2>3 DEF CallUnsubscribe
  <1>2. CASE Subscribe(r)
    BY <1>2 DEF Subscribe, SubsOutcome
  <1>3. CASE CreateInKube(r) \/ DeleteFromKube(r) \/ UpdateInKube(r)
    BY <1>3 DEF CreateInKube, DeleteFromKube, UpdateInKube, CallKube, SubsOutcome
  <1>4. CASE UNCHANGED serviceVars
    BY <1>4 DEF serviceVars, SubsOutcome
  <1>5. FetchTariff(r) \/ PickStorage(r) \/ Begin(r) \/ CountLabel(r) \/ ReserveSpace(r) \/ InsertVolume(r)
          => UNCHANGED serviceVars
    BY DEF FetchTariff, PickStorage, Begin, CountLabel, ReserveSpace, InsertVolume
  <1>6. SelectVolume(r) \/ ReleaseSpace(r) \/ MarkDeleted(r) \/ ReadOldCapacity(r) \/ CheckFit(r)
          \/ Recharge(r) \/ SetCapacity(r) \/ ListVolumes(r) \/ ListFails(r) \/ MarkAllDeleted(r)
          => UNCHANGED serviceVars
    BY DEF SelectVolume, ReleaseSpace, MarkDeleted, ReadOldCapacity, CheckFit, Recharge, SetCapacity,
       ListVolumes, ListFails, MarkAllDeleted, serviceVars
  <1>7. CountName(r) \/ ResetStorage(r) \/ CountNameAgain(r) \/ InsertStorage(r) \/ FindStorage(r)
          \/ CountNewName(r) \/ WriteStorage(r) \/ CountVolumes(r) \/ DropStorage(r)
          => UNCHANGED serviceVars
    BY DEF CountName, ResetStorage, CountNameAgain, InsertStorage, FindStorage, CountNewName, WriteStorage,
       CountVolumes, DropStorage, serviceVars
  <1>8. Commit(r) \/ DbError(r) \/ PoolTimeout(r) => UNCHANGED serviceVars
    BY DEF Commit, DbError, PoolTimeout
  <1> QED BY <1>1, <1>2, <1>3, <1>4, <1>5, <1>6, <1>7, <1>8 DEF Step

-----------------------------------------------------------------------------
(* A transaction that has unsubscribed commits.                            *)

(* Rows marked by a deletion keep their storage: it adds no reference.     *)
LEMMA DeletionAddsNoReference ==
  ASSUME TypeOK, VolumeVersionsFit, NEW r \in Requests, call[r].op \in DeleteAlls \cup {"delete"}
  PROVE  ReferencesExist(r)
  <1>1. SUFFICES ASSUME NEW i \in NewReferences(r)
                 PROVE  FALSE
    BY DEF ReferencesExist
  <1>2. i \in RowId /\ dirtyVolume[i].tx = r /\ dirtyVolume[i].tx # NoTx
    BY <1>1, IdsDistinct DEF NewReferences
  <1>3. volumes[i] # NoRow /\ dirtyVolume[i].row = [volumes[i] EXCEPT !.deleted = TRUE]
    BY <1>2 DEF VolumeVersionsFit, VolumeEffect, Concerns, Creations, DeleteAlls, Resizings
  <1>4. volumes[i] \in VolumeRow
    BY <1>2, <1>3 DEF TypeOK, StoreTypeOK
  <1>5. [volumes[i] EXCEPT !.deleted = TRUE].storage = volumes[i].storage
    BY <1>4 DEF VolumeRow
  <1> QED BY <1>1, <1>3, <1>5 DEF NewReferences

(* A version that is deleted where the committed row is not, is written by *)
(* a deletion.                                                             *)
LEMMA DeletedByDeletion ==
  ASSUME TypeOK, VolumeVersionsFit, NEW i \in RowId, Live(volumes[i]), BeingDeleted(i)
  PROVE  call[dirtyVolume[i].tx].op \in DeleteAlls \cup {"delete"}
  <1> DEFINE t == dirtyVolume[i].tx
             v == volumes[i]
             w == dirtyVolume[i].row
  <1>1. VolumeEffect(t, call[t], i, v, w) /\ w.deleted
    BY DEF BeingDeleted, VolumeVersionsFit
  <1>2. v \in VolumeRow /\ v # NoRow /\ ~v.deleted
    BY DEF TypeOK, StoreTypeOK, Live
  <1>3. \A capacity, storage : ~[v EXCEPT !.capacity = capacity].deleted /\ ~[v EXCEPT !.storage = storage].deleted
    BY <1>2 DEF VolumeRow
  <1> HIDE DEF t, v, w
  <1>4. call[t].op \in DeleteAlls \cup {"delete"}
    BY <1>1, <1>2, <1>3 DEF VolumeEffect
  <1> QED BY <1>4 DEF t

(* What an update or a resize leaves of a live volume is live.             *)
LEMMA LiveBefore ==
  ASSUME TypeOK, VolumeVersionsFit, NEW i \in RowId, NEW r \in Requests, i # r,
         dirtyVolume[i].tx = r, Live(dirtyVolume[i].row)
  PROVE  Live(volumes[i])
  <1> DEFINE v == volumes[i]
             w == dirtyVolume[i].row
  <1>1. VolumeEffect(r, call[r], i, v, w) /\ ~w.deleted
    BY IdsDistinct DEF VolumeVersionsFit, Live
  <1>2. v # NoRow => v \in VolumeRow
    BY DEF TypeOK, StoreTypeOK
  <1>3. v # NoRow => \A capacity, storage : /\ [v EXCEPT !.capacity = capacity].deleted = v.deleted
                                            /\ [v EXCEPT !.storage = storage].deleted = v.deleted
                                            /\ [v EXCEPT !.deleted = TRUE].deleted
    BY <1>2 DEF VolumeRow
  <1> HIDE DEF v, w
  <1>4. v # NoRow /\ ~v.deleted
    BY <1>1, <1>3 DEF VolumeEffect, Concerns
  <1> QED BY <1>4 DEF v, Live

LEMMA CommitStep ==
  ASSUME Reliable, NEW r \in Requests, Step(r), pc[r] = "commit"
  PROVE  Commits(r) \/ ~ReferencesExist(r)
  <1>1. Commit(r)
    BY StepAt DEF DbError, Reliable
  <1> QED BY <1>1 DEF Commit, Commits, Replies

-----------------------------------------------------------------------------
(* PaidInv is an invariant.                                                *)

LEMMA StepPaid ==
  ASSUME Reliable, IInv, EffectInv, PaidInv, NEW r \in Requests, Step(r)
  PROVE  PaidInv'
  <1>1. /\ TypeOK /\ RequestsTypeOK /\ DirtyFits /\ RowsFresh /\ LocalFit(r)
        /\ VolumeVersionsFit /\ WritesDone
    BY DEF IInv, LocalsFit, TypeOK, EffectInv
  <1>2. call' = call
    BY StepShape DEF OwnLocals
  <1>3. SUFFICES ASSUME NEW q \in Requests, call[q] # NoCall, Paid(call[q])
                 PROVE  /\ pc'[q] \in {"begin", "countLabel", "reserve", "insert", "kubeCreate", "commit"}
                             => q \in subs'
                        /\ Live(volumes'[q]) /\ ~(BeingDeleted(q)' /\ pc'[dirtyVolume'[q].tx] = "commit")
                             => q \in subs'
    BY <1>2 DEF PaidInv, Paid
  <1>4. q \in RowId /\ RowOutcome(r, q)
    BY <1>1, StepRowOutcome DEF RowId
  <1>5. \A t \in Requests : t # r => pc'[t] = pc[t]
    BY <1>1, OthersStay
  <1>6. call[q].op = "create" /\ call[q].tariff # FreeTariff
    BY <1>3 DEF Paid
  <1>7. pc[r] \in ActiveSteps /\ call[r].op \in Ops /\ pc[r] \in Route(call[r].op)
    <2>1. pc[r] \in ActiveSteps
      BY StepShape DEF Quiet, Undone, Committed, Inserted, Marked, Resized, Rewritten,
         ActiveSteps, OutsideSteps, InsideSteps
    <2> QED BY <1>1, <2>1, CallFields
        DEF LocalFit, EffectInv, RoutesFit, RouteFit, ActiveSteps, OutsideSteps, InsideSteps
  <1>8. CASE q \notin subs' /\ q \in subs
    <2>1. /\ pc[r] \in {"unsubscribe", "unsubscribeAll"} /\ pc'[r] = "commit"
          /\ q \in loc[r].vols
          /\ UNCHANGED <<volumes, dirtyVolume>>
      BY <1>1, <1>8, StepSubs DEF SubsOutcome
    <2>2. call[r].op \in DeleteAlls \cup {"delete"} /\ q # r
      BY <1>6, <1>7, <2>1, OnRoute DEF DeleteAlls
    <2>3. dirtyVolume[q].tx = r
      BY <1>1, <1>4, <2>1 DEF WritesDone, Wrote
    <2>4. volumes[q] # NoRow /\ dirtyVolume[q].row = [volumes[q] EXCEPT !.deleted = TRUE]
      BY <1>1, <1>4, <2>2, <2>3, IdsDistinct
      DEF VolumeVersionsFit, VolumeEffect, Concerns, Creations, DeleteAlls, Resizings
    <2>5. [volumes[q] EXCEPT !.deleted = TRUE].deleted
      <3>1. volumes[q] \in VolumeRow
        BY <1>1, <1>4, <2>4 DEF TypeOK, StoreTypeOK
      <3> QED BY <3>1 DEF VolumeRow
    <2>6. pc[q] \notin {"begin", "countLabel", "reserve", "insert", "kubeCreate", "commit"}
      BY <1>1, <1>6, <2>2, <2>3, <2>4 DEF RowsFresh, Uninserted, WritesDone, Wrote, Creations
    <2>7. BeingDeleted(q)' /\ dirtyVolume'[q].tx = r
      BY <2>1, <2>3, <2>4, <2>5, IdsDistinct DEF BeingDeleted
    <2> QED BY <1>5, <2>1, <2>2, <2>6, <2>7
  <1>9. CASE q \in subs => q \in subs'
    <2>1. pc'[q] \in {"begin", "countLabel", "reserve", "insert", "kubeCreate", "commit"} => q \in subs'
      <3>1. CASE pc[q] \in {"begin", "countLabel", "reserve", "insert", "kubeCreate", "commit"}
        BY <1>3, <1>9, <3>1 DEF PaidInv
      <3>2. CASE q # r
        BY <1>3, <1>5, <1>9, <3>2 DEF PaidInv
      <3>3. CASE q = r /\ pc[q] \notin {"begin", "countLabel", "reserve", "insert", "kubeCreate", "commit"}
        <4>1. pc[r] \in {"tariff", "pick", "subscribe"}
          <5>1. pc[r] \in Route("create")
            BY <1>6, <1>7, <3>3
          <5> QED BY <3>3, <5>1 DEF Route, DeleteAlls, Resizings
        <4> QED BY <1>1, <1>6, <3>3, <4>1, StepSubscribes
      <3> QED BY <3>1, <3>2, <3>3
    <2>2. ASSUME Live(volumes'[q]), ~(BeingDeleted(q)' /\ pc'[dirtyVolume'[q].tx] = "commit"), q \notin subs
          PROVE  FALSE
      <3> DEFINE t == dirtyVolume[q].tx
      <3>1. Live(volumes[q]) => BeingDeleted(q) /\ pc[t] = "commit"
        BY <1>3, <2>2 DEF PaidInv
      <3>2. ASSUME t = r, BeingDeleted(q), pc[r] = "commit", Live(volumes[q])
            PROVE  volumes'[q] = dirtyVolume[q].row
        <4>1. call[r].op \in DeleteAlls \cup {"delete"}
          BY <1>1, <1>4, <3>2, DeletedByDeletion
        <4>2. Commits(r)
          BY <1>1, <3>2, <4>1, CommitStep, DeletionAddsNoReference
        <4> QED BY <1>4, <3>2, <4>2 DEF Commits, CommitTx, VolumesSeen, View
      <3>3. CASE volumes'[q] = volumes[q] /\ dirtyVolume'[q] = dirtyVolume[q]
        <4>1. BeingDeleted(q)' /\ BeingDeleted(q) /\ pc[t] = "commit" /\ pc'[t] # "commit"
          BY <2>2, <3>1, <3>3 DEF BeingDeleted
        <4>2. t = r
          BY <1>1, <1>4, <1>5, <4>1 DEF BeingDeleted, TypeOK, StoreTypeOK
        <4>3. volumes[q] = dirtyVolume[q].row
          BY <2>2, <3>2, <3>3, <4>1, <4>2
        <4> QED BY <2>2, <3>3, <4>1, <4>3 DEF BeingDeleted, Live
      <3>4. CASE volumes'[q] = volumes[q] /\ t = r
        <4>1. BeingDeleted(q) /\ pc[r] = "commit"
          BY <2>2, <3>1, <3>4
        <4>2. volumes[q] = dirtyVolume[q].row
          BY <2>2, <3>2, <3>4, <4>1
        <4> QED BY <2>2, <3>4, <4>1, <4>2 DEF BeingDeleted, Live
      <3>5. CASE volumes'[q] = dirtyVolume[q].row /\ t = r /\ pc[r] = "commit"
        <4>1. CASE q = r
          BY <1>3, <2>2, <3>5, <4>1 DEF PaidInv
        <4>2. CASE q # r
          <5>1. Live(volumes[q])
            BY <1>1, <1>4, <2>2, <3>5, <4>2, LiveBefore
          <5> QED BY <2>2, <3>1, <3>5, <5>1 DEF BeingDeleted, Live
        <4> QED BY <4>1, <4>2
      <3>6. CASE volumes'[q] = NoRow
        BY <2>2, <3>6 DEF Live
      <3>7. CASE volumes'[q] = volumes[q] /\ t = NoTx
        BY <2>2, <3>1, <3>7 DEF BeingDeleted
      <3> QED BY <1>4, <3>3, <3>4, <3>5, <3>6, <3>7 DEF RowOutcome
    <2> QED BY <1>9, <2>1, <2>2
  <1> QED BY <1>8, <1>9

LEMMA StartPaid ==
  ASSUME IInv, PaidInv, NEW r \in Requests, NEW c \in Calls, Start(r, c)
  PROVE  PaidInv'
  <1>1. RequestsTypeOK /\ RowsFresh
    BY DEF IInv, TypeOK
  <1>2. UNCHANGED <<volumes, dirtyVolume, subs>> /\ pc[r] = "idle"
    BY DEF Start, storeVars, serviceVars
  <1>3. /\ pc'[r] = FirstStep(c) /\ call'[r] = c
        /\ \A q \in Requests : q # r => pc'[q] = pc[q] /\ call'[q] = call[q]
    BY <1>1 DEF Start, RequestsTypeOK
  <1>4. volumes[r] = NoRow
    BY <1>1, <1>2 DEF RowsFresh, Uninserted
  <1>5. Paid(c) => FirstStep(c) = "tariff"
    BY DEF Paid, FirstStep
  <1>6. \A t : pc[t] = "commit" /\ t \in Requests => pc'[t] = "commit"
    BY <1>2, <1>3
  <1>7. \A i \in RowId : dirtyVolume[i].tx \in Requests \cup {NoTx}
    BY DEF IInv, TypeOK, StoreTypeOK
  <1>8. ASSUME NEW q \in Requests, q # r, call'[q] # NoCall, Paid(call'[q])
        PROVE  /\ pc'[q] \in {"begin", "countLabel", "reserve", "insert", "kubeCreate", "commit"} => q \in subs
               /\ Live(volumes[q]) /\ ~(BeingDeleted(q) /\ pc'[dirtyVolume[q].tx] = "commit") => q \in subs
    BY <1>3, <1>6, <1>7, <1>8 DEF PaidInv, BeingDeleted, RowId
  <1>9. ASSUME Paid(c)
        PROVE  ~Live(volumes[r]) /\ pc'[r] = "tariff"
    BY <1>3, <1>4, <1>5, <1>9 DEF Live
  <1>10. ASSUME NEW q \in Requests, call'[q] # NoCall, Paid(call'[q])
         PROVE  /\ pc'[q] \in {"begin", "countLabel", "reserve", "insert", "kubeCreate", "commit"} => q \in subs
                /\ Live(volumes[q]) /\ ~(BeingDeleted(q) /\ pc'[dirtyVolume[q].tx] = "commit") => q \in subs
    BY <1>3, <1>8, <1>9, <1>10
  <1> QED BY <1>2, <1>10 DEF PaidInv, BeingDeleted, Paid

(* A live volume created with a tariff is charged for, unless the          *)
(* transaction of a deletion has unsubscribed it and is sure to commit.    *)
THEOREM PaidInvariant ==
  ASSUME Reliable
  PROVE  Spec => []PaidInv
  <1>1. Init => PaidInv
    BY DEF Init, PaidInv
  <1>2. ASSUME IInv, EffectInv, PaidInv, [Next]_vars
        PROVE  PaidInv'
    <2>1. CASE UNCHANGED vars
      BY <1>2, <2>1 DEF vars, storeVars, serviceVars, requestVars, PaidInv, Paid, BeingDeleted, Live
    <2>2. ~Crash
      BY DEF Crash, Reliable
    <2> QED BY <1>2, <2>1, <2>2, StepPaid, StartPaid DEF Next, Finished
  <1> QED BY <1>1, <1>2, Inductiveness, EffectInvariant, PTL DEF Spec

(* Billing charges for every live volume that was created with a tariff    *)
(* and is not being deleted.                                               *)
THEOREM PaidStaysBilled ==
  ASSUME Reliable
  PROVE  Spec => []PaidVolumeIsBilled
  <1>1. PaidInv => PaidVolumeIsBilled
    BY DEF PaidInv, PaidVolumeIsBilled
  <1> QED BY <1>1, PaidInvariant, PTL
=============================================================================
