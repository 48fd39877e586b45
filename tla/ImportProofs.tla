---------------------------- MODULE ImportProofs ----------------------------
(***************************************************************************)
(* Proofs, for every value of the constants, that importing is using       *)
(* VolumeManager as any client does, that reports are true and that        *)
(* sending a body again converges, while nobody deletes what is imported.  *)
(***************************************************************************)
EXTENDS Imports, EffectProofs

-----------------------------------------------------------------------------
(* What a commit leaves of the rows that were there.                       *)

(* Without deletions a live volume stays alive, under its label.           *)
LEMMA VolumesLive ==
  ASSUME Undisturbed, IInv, EffectInv, NEW q \in Requests, Step(q), NEW i \in RowId, Live(volumes[i])
  PROVE  Live(volumes'[i]) /\ SameLabel(volumes[i], volumes'[i])
  <1>1. TypeOK /\ RequestsTypeOK /\ VolumeVersionsFit /\ StoreTypeOK
    BY DEF IInv, TypeOK, EffectInv
  <1>2. CASE UNCHANGED volumes
    BY <1>2 DEF SameLabel
  <1>3. CASE Commits(q) /\ dirtyVolume[i].tx # q
    BY <1>3 DEF Commits, CommitTx, VolumesSeen, View, SameLabel
  <1>4. CASE Commits(q) /\ dirtyVolume[i].tx = q
    <2> DEFINE v == volumes[i]
               w == dirtyVolume[i].row
    <2>1. VolumeEffect(q, call[q], i, v, w)
      BY <1>1, <1>4, IdsDistinct DEF VolumeVersionsFit
    <2>2. volumes'[i] = w
      BY <1>4 DEF Commits, CommitTx, VolumesSeen, View
    <2>3. call[q] \in Calls
      BY <1>4 DEF IInv, LocalsFit, LocalFit, Commits
    <2>4. call[q].op \notin DeleteAlls \cup {"delete"}
      BY <2>3 DEF Undisturbed, DeleteAlls
    <2>5. v \in VolumeRow /\ v # NoRow /\ ~v.deleted
      BY <1>1 DEF StoreTypeOK, Live
    <2>6. \A capacity, storage :
            /\ LET x == [v EXCEPT !.capacity = capacity] IN x.ns = v.ns /\ x.label = v.label /\ ~x.deleted
            /\ LET x == [v EXCEPT !.storage = storage] IN x.ns = v.ns /\ x.label = v.label /\ ~x.deleted
      BY <2>5 DEF VolumeRow
    <2>7. w # NoRow
      BY <1>4, IdsDistinct DEF IInv, DirtyFits
    <2> HIDE DEF v, w
    <2>8. ~w.deleted /\ w.ns = v.ns /\ w.label = v.label
      BY <2>1, <2>4, <2>5, <2>6 DEF VolumeEffect
    <2> QED BY <2>2, <2>7, <2>8 DEF Live, SameLabel, v, w
  <1> QED BY <1>1, <1>2, <1>3, <1>4, OnlyCommitsShow

(* Without deletions and renames the storages under the name of an import  *)
(* stay, the live ones alive, and those that come are live.                *)
StoragesKept(name, k) ==
  /\ storages[k] # NoRow /\ storages[k].name = name => storages'[k] # NoRow /\ storages'[k].name = name
  /\ Live(storages[k]) /\ storages[k].name = name => Live(storages'[k])
  /\ storages'[k] # NoRow /\ storages'[k].name = name =>
       Live(storages'[k]) \/ (storages[k] # NoRow /\ storages[k].name = name)

LEMMA StoragesLive ==
  ASSUME Undisturbed, IInv, EffectInv, NEW q \in Requests, Step(q), NEW k \in RowId,
         NEW c \in Calls, c.op = "createStorage"
  PROVE  StoragesKept(c.storage, k)
  <1>1. RequestsTypeOK /\ StorageVersionsFit
    BY DEF IInv, TypeOK, EffectInv
  <1>2. CASE UNCHANGED storages
    BY <1>2 DEF StoragesKept
  <1>3. CASE Commits(q) /\ dirtyStorage[k].tx # q
    BY <1>3 DEF Commits, CommitTx, StoragesSeen, View, StoragesKept
  <1>4. CASE Commits(q) /\ dirtyStorage[k].tx = q
    <2> DEFINE s == storages[k]
               d == dirtyStorage[k].row
    <2>1. StorageEffect(q, call[q], k, s, d) /\ d # NoRow
      BY <1>1, <1>4, IdsDistinct DEF StorageVersionsFit
    <2>2. storages'[k] = d
      BY <1>4 DEF Commits, CommitTx, StoragesSeen, View
    <2>3. call[q] \in Calls
      BY <1>4 DEF IInv, LocalsFit, LocalFit, Commits
    <2>4. /\ call[q].op # "deleteStorage"
          /\ call[q].op = "updateStorage" /\ NewName(call[q]) # call[q].storage =>
               c.storage \notin {call[q].storage, NewName(call[q])}
      BY <2>3 DEF Undisturbed
    <2> HIDE DEF s, d
    <2>5. /\ s # NoRow /\ s.name = c.storage => d.name = c.storage
          /\ Live(s) /\ s.name = c.storage => ~d.deleted
          /\ d.name = c.storage => ~d.deleted \/ (s # NoRow /\ s.name = c.storage)
      BY <2>1, <2>4 DEF StorageEffect, Live
    <2> QED BY <2>1, <2>2, <2>5 DEF StoragesKept, Live, s, d
  <1> QED BY <1>1, <1>2, <1>3, <1>4, OnlyCommitsShow

(* So what was imported stays there.                                       *)
LEMMA PresentStays ==
  ASSUME Undisturbed, IInv, EffectInv, NEW q \in Requests, Step(q),
         NEW c \in Calls, c.op \in {"import", "createStorage"}, Present(c)
  PROVE  Present(c)'
  <1>1. CASE c.op = "import"
    <2>1. PICK i \in RowId : Live(volumes[i]) /\ volumes[i].ns = c.ns /\ volumes[i].label = c.label
      BY <1>1 DEF Present, VolumesLabelled
    <2>2. Live(volumes'[i]) /\ SameLabel(volumes[i], volumes'[i])
      BY <2>1, VolumesLive
    <2> QED BY <1>1, <2>1, <2>2 DEF Present, VolumesLabelled, SameLabel
  <1>2. CASE c.op = "createStorage"
    <2>1. PICK k \in RowId : Live(storages[k]) /\ storages[k].name = c.storage
      BY <1>2 DEF Present, LiveStoragesNamed, StoragesNamed, Live
    <2>2. Live(storages'[k]) /\ storages'[k].name = c.storage
      BY <1>2, <2>1, StoragesLive DEF StoragesKept, Live
    <2> QED BY <1>2, <2>2 DEF Present, LiveStoragesNamed, StoragesNamed, Live
  <1> QED BY <1>1, <1>2

-----------------------------------------------------------------------------
(* Truthful is kept by every step of a request.                            *)

(* Where the steps that lead to an answer come from.                       *)
LEMMA StepLeads ==
  ASSUME RequestsTypeOK, NEW r \in Requests, Step(r)
  PROVE  /\ pc'[r] \in {"reset", "countNameAgain"} => CountName(r)
         /\ reply'[r] = "exists" =>
              reply[r] = "exists" \/ CountLabel(r) \/ CountNameAgain(r) \/ CountNewName(r)
  <1> USE DEF RequestsTypeOK, Go, GoWith, Refuse, Answer
  <1>1. CASE FetchTariff(r) BY <1>1 DEF FetchTariff
  <1>2. CASE PickStorage(r) BY <1>2 DEF PickStorage
  <1>3. CASE Subscribe(r) BY <1>3 DEF Subscribe
  <1>4. CASE Begin(r) BY <1>4 DEF Begin, FirstInside
  <1>5. CASE CountLabel(r) BY <1>5 DEF CountLabel
  <1>6. CASE ReserveSpace(r) BY <1>6 DEF ReserveSpace
  <1>7. CASE InsertVolume(r) BY <1>7 DEF InsertVolume
  <1>8. CASE CreateInKube(r) BY <1>8 DEF CreateInKube, CallKube
  <1>9. CASE SelectVolume(r) BY <1>9 DEF SelectVolume
  <1>10. CASE ReleaseSpace(r) BY <1>10 DEF ReleaseSpace
  <1>11. CASE MarkDeleted(r) BY <1>11 DEF MarkDeleted
  <1>12. CASE DeleteFromKube(r) BY <1>12 DEF DeleteFromKube, CallKube
  <1>13. CASE Unsubscribe(r) BY <1>13 DEF Unsubscribe, CallUnsubscribe
  <1>14. CASE ReadOldCapacity(r) BY <1>14 DEF ReadOldCapacity
  <1>15. CASE CheckFit(r) BY <1>15 DEF CheckFit
  <1>16. CASE Recharge(r) BY <1>16 DEF Recharge
  <1>17. CASE SetCapacity(r) BY <1>17 DEF SetCapacity
  <1>18. CASE UpdateInKube(r) BY <1>18 DEF UpdateInKube, CallKube
  <1>19. CASE ListVolumes(r) BY <1>19 DEF ListVolumes
  <1>20. CASE ListFails(r) BY <1>20 DEF ListFails
  <1>21. CASE MarkAllDeleted(r) BY <1>21 DEF MarkAllDeleted
  <1>22. CASE UnsubscribeAll(r) BY <1>22 DEF UnsubscribeAll, CallUnsubscribe
  <1>23. CASE CountName(r) BY <1>23 DEF CountName
  <1>24. CASE ResetStorage(r) BY <1>24 DEF ResetStorage
  <1>25. CASE CountNameAgain(r) BY <1>25 DEF CountNameAgain
  <1>26. CASE InsertStorage(r) BY <1>26 DEF InsertStorage
  <1>27. CASE FindStorage(r) BY <1>27 DEF FindStorage
  <1>28. CASE CountNewName(r) BY <1>28 DEF CountNewName
  <1>29. CASE WriteStorage(r) BY <1>29 DEF WriteStorage
  <1>30. CASE CountVolumes(r) BY <1>30 DEF CountVolumes
  <1>31. CASE DropStorage(r) BY <1>31 DEF DropStorage
  <1>32. CASE Commit(r) BY <1>32 DEF Commit
  <1>33. CASE DbError(r) BY <1>33 DEF DbError
  <1>34. CASE PoolTimeout(r) BY <1>34 DEF PoolTimeout
  <1> QED
    BY <1>1, <1>2, <1>3, <1>4, <1>5, <1>6, <1>7, <1>8, <1>9, <1>10, <1>11, <1>12, <1>13, <1>14,
       <1>15, <1>16, <1>17, <1>18, <1>19, <1>20, <1>21, <1>22, <1>23, <1>24, <1>25, <1>26, <1>27, <1>28,
       <1>29, <1>30, <1>31, <1>32, <1>33, <1>34 DEF Step

LEMMA OthersAnswers ==
  ASSUME RequestsTypeOK, NEW r \in Requests, Step(r), NEW q \in Requests, q # r
  PROVE  reply'[q] = reply[q]
  <1>1. reply' = reply \/ \E answer : Answer(r, answer)
    BY StepPlan
    DEF Reads, Refused, Refuse, Commits, Charges, InsertsVolume, Marks, Resizes, Resets, InsertsStorage,
        RewritesStorage, Drops, Go
  <1> QED BY <1>1 DEF Answer, RequestsTypeOK

(* What a request was told on its own last step.                           *)
LEMMA OwnTruth ==
  ASSUME IInv, EffectInv, NEW r \in Requests, Step(r), Truthful(r)
  PROVE  Truthful(r)'
  <1>1. /\ TypeOK /\ RequestsTypeOK /\ StoreTypeOK /\ DirtyFits /\ LocalFit(r) /\ RouteFit(r) /\ Wrote(r)
        /\ StorageVersionsFit /\ VolumeVersionsFit
    BY DEF IInv, TypeOK, LocalsFit, EffectInv, RoutesFit, WritesDone
  <1>2. pc[r] \in ActiveSteps
    BY StepShape DEF Quiet, Undone, Committed, Inserted, Marked, Resized, Rewritten,
       ActiveSteps, OutsideSteps, InsideSteps
  <1>3. PICK c \in Calls : c = call[r]
    BY <1>1, <1>2 DEF LocalFit, ActiveSteps, OutsideSteps, InsideSteps
  <1>4. call'[r] = c /\ c.op \in Ops /\ pc[r] \in Route(c.op) /\ reply[r] = "none"
    BY <1>1, <1>2, <1>3, CallFields, StepShape
    DEF OwnLocals, RouteFit, ActiveSteps, OutsideSteps, InsideSteps
  <1>5. pc'[r] = "reset" => StoragesNamed(storages', c.storage) # {}
    <2>0. SUFFICES ASSUME pc'[r] = "reset"
                 PROVE  StoragesNamed(storages', c.storage) # {}
      OBVIOUS
    <2>1. CountName(r)
      BY <1>1, <2>0, StepLeads
    <2>2. StoragesNamed(StoragesSeen(r), c.storage) # {} /\ storages' = storages
      BY <1>1, <1>3, <2>0, <2>1 DEF CountName, Go, RequestsTypeOK, storeVars
    <2>3. \A k \in RowId : StoragesSeen(r)[k] = storages[k]
      BY <1>1, <2>1, NothingCharged DEF CountName, ChargedSteps
    <2> QED BY <2>2, <2>3 DEF StoragesNamed
  <1>6. pc'[r] = "countNameAgain" =>
          StoragesNamed(storages', c.storage) = LiveStoragesNamed(storages', c.storage)
    <2>0. SUFFICES ASSUME pc'[r] = "countNameAgain"
                 PROVE  StoragesNamed(storages', c.storage) = LiveStoragesNamed(storages', c.storage)
      OBVIOUS
    <2>1. CountName(r)
      BY <1>1, <2>0, StepLeads
    <2>2. StoragesNamed(StoragesSeen(r), c.storage) = {} /\ storages' = storages
      BY <1>1, <1>3, <2>0, <2>1 DEF CountName, Go, RequestsTypeOK, storeVars
    <2>3. \A k \in RowId : StoragesSeen(r)[k] = storages[k]
      BY <1>1, <2>1, NothingCharged DEF CountName, ChargedSteps
    <2> QED BY <2>2, <2>3 DEF StoragesNamed, LiveStoragesNamed
  <1>7. pc'[r] = "commit" /\ c.op = "createStorage" => \E k \in RowId : dirtyStorage'[k].tx = r
    <2>0. SUFFICES ASSUME pc'[r] = "commit", c.op = "createStorage"
                 PROVE  \E k \in RowId : dirtyStorage'[k].tx = r
      OBVIOUS
    <2>1. pc[r] \in {"begin", "countName", "reset", "countNameAgain", "insertStorage", "commit"}
      BY <1>4, <2>0 DEF Route, DeleteAlls, Resizings
    <2>2. Resets(r) \/ InsertsStorage(r)
      <3>1. \A step : Go(r, step) => pc'[r] = step
        BY <1>1 DEF Go, RequestsTypeOK
      <3>2. \A step : MovesTo(r, step) => pc'[r] = step
        BY <1>1 DEF MovesTo, RequestsTypeOK
      <3>3. \A answer : Answer(r, answer) => pc'[r] = "done"
        BY <1>1 DEF Answer, RequestsTypeOK
      <3>4. ~Reads(r)
        BY <2>0, <2>1, <3>2 DEF Reads
      <3>5. ~Refused(r) /\ ~Commits(r)
        BY <2>0, <3>3 DEF Refused, Refuse, Commits
      <3>6. ~Charges(r) /\ ~InsertsVolume(r) /\ ~Marks(r) /\ ~Resizes(r) /\ ~RewritesStorage(r) /\ ~Drops(r)
        BY <2>1 DEF Charges, InsertsVolume, Marks, Resizes, RewritesStorage, Drops
      <3> QED BY <1>1, <3>4, <3>5, <3>6, StepPlan
    <2>3. CASE Resets(r)
      <3>1. PICK k \in RowId : storages[k] # NoRow /\ storages[k].name = c.storage
        BY <1>3, <2>3 DEF Truthful, Resets, StoragesNamed
      <3>2. k \in StoragesNamed(StoragesSeen(r), c.storage)
        BY <1>1, <2>3, <3>1, NothingCharged DEF Resets, ChargedSteps, StoragesNamed
      <3> QED BY <1>3, <2>3, <3>2 DEF Resets, ResetStorageRow, WriteStorages, Written
    <2>4. CASE InsertsStorage(r)
      BY <2>4 DEF InsertsStorage, InsertStorageRow, WriteStorages, Written, RowId
    <2> QED BY <2>2, <2>3, <2>4
  <1>8. reply'[r] = "ok" /\ c.op \in {"import", "createStorage"} => Present(c)'
    <2>0. SUFFICES ASSUME reply'[r] = "ok", c.op \in {"import", "createStorage"}
                 PROVE  Present(c)'
      OBVIOUS
    <2>1. Commits(r)
      <3>1. ~Refused(r)
        BY <1>1, <2>0 DEF Refused, Refuse, Answer, RequestsTypeOK
      <3>2. reply' # reply
        BY <1>4, <2>0
      <3> QED
        BY <1>1, <3>1, <3>2, StepPlan
        DEF Reads, Charges, InsertsVolume, Marks, Resizes, Resets, InsertsStorage, RewritesStorage, Drops, Go
    <2>2. CASE c.op = "import"
      <3> DEFINE w == dirtyVolume[r].row
      <3>1. dirtyVolume[r].tx = r /\ r \in RowId
        BY <1>1, <1>3, <2>1, <2>2 DEF Wrote, Commits, Creations, RowId
      <3>2. volumes'[r] = w
        BY <2>1, <3>1 DEF Commits, CommitTx, VolumesSeen, View
      <3>3. w # NoRow /\ ~w.deleted /\ w.ns = c.ns /\ w.label = c.label
        BY <1>1, <1>3, <2>2, <3>1, IdsDistinct
        DEF DirtyFits, VolumeVersionsFit, VolumeEffect, DeleteAlls, Resizings
      <3> HIDE DEF w
      <3> QED BY <2>2, <3>1, <3>2, <3>3 DEF Present, VolumesLabelled, Live
    <2>3. CASE c.op = "createStorage"
      <3>1. PICK k \in RowId : dirtyStorage[k].tx = r
        BY <1>3, <2>1, <2>3 DEF Truthful, Commits
      <3> DEFINE d == dirtyStorage[k].row
      <3>2. storages'[k] = d
        BY <2>1, <3>1 DEF Commits, CommitTx, StoragesSeen, View
      <3>3. d # NoRow /\ ~d.deleted /\ d.name = c.storage
        BY <1>1, <1>3, <2>3, <3>1, IdsDistinct DEF StorageVersionsFit, StorageEffect, Creations, Resizings
      <3> HIDE DEF d
      <3> QED BY <2>3, <3>2, <3>3 DEF Present, LiveStoragesNamed, StoragesNamed
    <2> QED BY <2>0, <2>2, <2>3
  <1>9. reply'[r] = "exists" /\ c.op \in {"import", "createStorage"} => Present(c)'
    <2>0. SUFFICES ASSUME reply'[r] = "exists", c.op \in {"import", "createStorage"}
                 PROVE  Present(c)'
      OBVIOUS
    <2>1. CountLabel(r) \/ CountNameAgain(r)
      BY <1>1, <1>4, <2>0, StepLeads, OnRoute DEF CountNewName
    <2>2. CASE CountLabel(r)
      <3>1. c.op = "import"
        BY <1>4, <2>0, <2>2, OnRoute DEF CountLabel, Creations
      <3>2. VolumesLabelled(VolumesSeen(r), c.ns, c.label) # {}
        BY <1>1, <1>3, <1>4, <2>0, <2>2 DEF CountLabel, Go, RequestsTypeOK
      <3>3. volumes' = volumes
        BY <2>2 DEF CountLabel, Refuse, RollbackTx, storeVars
      <3>4. \A i \in RowId : VolumesSeen(r)[i] = volumes[i]
        BY <1>1, <2>2, NothingWritten DEF CountLabel, WroteSteps
      <3> QED BY <3>1, <3>2, <3>3, <3>4 DEF Present, VolumesLabelled
    <2>3. CASE CountNameAgain(r)
      <3>1. c.op = "createStorage"
        BY <1>4, <2>3, OnRoute DEF CountNameAgain
      <3>2. StoragesNamed(StoragesSeen(r), c.storage) # {}
        BY <1>1, <1>3, <1>4, <2>0, <2>3 DEF CountNameAgain, Go, RequestsTypeOK
      <3>3. storages' = storages
        BY <2>3 DEF CountNameAgain, Refuse, RollbackTx, storeVars
      <3>4. \A k \in RowId : StoragesSeen(r)[k] = storages[k]
        BY <1>1, <2>3, NothingCharged DEF CountNameAgain, ChargedSteps
      <3>5. StoragesNamed(storages, c.storage) # {}
        BY <3>2, <3>4 DEF StoragesNamed
      <3>6. StoragesNamed(storages, c.storage) = LiveStoragesNamed(storages, c.storage)
        BY <1>3, <2>3 DEF Truthful, CountNameAgain
      <3> QED BY <3>1, <3>3, <3>5, <3>6 DEF Present
    <2> QED BY <2>1, <2>2, <2>3
  <1> QED BY <1>4, <1>5, <1>6, <1>7, <1>8, <1>9 DEF Truthful, Present

(* What the other requests were told, or are about to be, stays true.      *)
LEMMA OthersTruth ==
  ASSUME Undisturbed, IInv, EffectInv, NEW r \in Requests, Step(r), NEW q \in Requests, q # r, Truthful(q)
  PROVE  Truthful(q)'
  <1>1. /\ TypeOK /\ RequestsTypeOK /\ DirtyFits /\ RowsFresh /\ LocalFit(r) /\ LocalFit(q)
        /\ RouteFit(r) /\ RouteFit(q) /\ StorageVersionsFit /\ StorageRowsFresh
    BY DEF IInv, TypeOK, LocalsFit, EffectInv, RoutesFit
  <1>2. pc[r] # "idle"
    BY StepShape DEF Quiet, Undone, Committed, Inserted, Marked, Resized, Rewritten,
       ActiveSteps, OutsideSteps, InsideSteps
  <1>3. LocalsTold(r)
    BY <1>2 DEF EffectInv, Told
  <1>4. pc'[q] = pc[q] /\ call'[q] = call[q] /\ reply'[q] = reply[q]
    BY <1>1, StepShape, OthersStay, OthersAnswers DEF OwnLocals, RequestsTypeOK
  <1>5. CASE pc[q] = "idle"
    BY <1>1, <1>4, <1>5 DEF Truthful, RouteFit
  <1>6. CASE pc[q] # "idle"
    <2>1. PICK c \in Calls : c = call[q]
      BY <1>1, <1>6 DEF LocalFit
    <2>2. pc[q] \in {"reset", "countNameAgain"} => c.op = "createStorage"
      BY <1>1, <2>1 DEF LocalFit, StorageSteps
    <2>3. c.op = "createStorage" => \A k \in RowId : StoragesKept(c.storage, k)
      BY StoragesLive
    <2>4. pc[q] = "reset" => StoragesNamed(storages', c.storage) # {}
      BY <2>1, <2>2, <2>3 DEF Truthful, StoragesNamed, StoragesKept
    <2>5. pc[q] = "countNameAgain" =>
            StoragesNamed(storages', c.storage) = LiveStoragesNamed(storages', c.storage)
      <3>0. SUFFICES ASSUME pc[q] = "countNameAgain",
                          NEW k \in RowId, storages'[k] # NoRow, storages'[k].name = c.storage
                   PROVE  ~storages'[k].deleted
        BY DEF StoragesNamed, LiveStoragesNamed
      <3>1. storages[k] # NoRow /\ storages[k].name = c.storage => Live(storages[k])
        BY <2>1, <3>0 DEF Truthful, StoragesNamed, LiveStoragesNamed, Live
      <3> QED BY <2>2, <2>3, <3>0, <3>1 DEF StoragesKept, Live
    <2>6. \A k \in RowId : dirtyStorage'[k].tx = q <=> dirtyStorage[k].tx = q
      BY <1>1, <1>3, OthersHold
    <2>7. c.op \in {"import", "createStorage"} /\ Present(c) => Present(c)'
      BY PresentStays
    <2> QED BY <1>4, <2>1, <2>4, <2>5, <2>6, <2>7 DEF Truthful, Present
  <1> QED BY <1>5, <1>6

-----------------------------------------------------------------------------
(* Importers use the server as any client does.                            *)

LEMMA Elements ==
  ASSUME NEW m \in Importers
  PROVE  /\ MaxAttempts[m] \in Nat /\ Len(Body[m]) \in Nat
         /\ \A k \in 1..Len(Body[m]) : Body[m][k] \in Calls /\ Body[m][k].op \in {"import", "createStorage"}
         /\ \A a \in 1..MaxAttempts[m], k \in 1..Len(Body[m]) : Slots[m][a][k] \in Requests
  <1> DEFINE C == {c \in Calls : c.op \in {"import", "createStorage"}}
  <1>1. /\ MaxAttempts[m] \in Nat
        /\ Body[m] \in Seq(C)
        /\ Slots[m] \in [1..MaxAttempts[m] -> [1..Len(Body[m]) -> Requests]]
    BY ImportsTyped
  <1> HIDE DEF C
  <1>2. Len(Body[m]) \in Nat /\ \A k \in 1..Len(Body[m]) : Body[m][k] \in C
    BY <1>1
  <1>3. \A a \in 1..MaxAttempts[m], k \in 1..Len(Body[m]) : Slots[m][a][k] \in Requests
    BY <1>1
  <1> QED BY <1>1, <1>2, <1>3 DEF C

(* The element an importer is at, and the request it runs as.              *)
LEMMA NextElement ==
  ASSUME ImportsFit, NEW m \in Importers, imports[m].status = "running", Handled(m) < Len(Body[m])
  PROVE  /\ imports[m].attempt \in 1..MaxAttempts[m]
         /\ Handled(m) + 1 \in 1..Len(Body[m])
         /\ Slot(m) \in Requests
  <1>1. imports[m].attempt \in 1..MaxAttempts[m] /\ Handled(m) \in Nat
    BY Elements DEF ImportsFit, ImportFit, Handled
  <1>2. Handled(m) + 1 \in 1..Len(Body[m])
    BY <1>1, Elements
  <1> QED BY <1>1, <1>2, Elements DEF Slot

LEMMA ImportsUse ==
  ASSUME ImportsFit, [ImportsNext]_importVars
  PROVE  [Next]_vars
  <1>1. ASSUME NEW m \in Importers, StartElement(m)
        PROVE  Next
    BY <1>1, NextElement, Elements DEF StartElement, Next
  <1>2. ASSUME NEW r \in OtherRequests, NEW c \in OtherCalls, Start(r, c)
        PROVE  Next
    BY <1>2, ImportsTyped DEF OtherRequests, Next
  <1>3. ASSUME NEW r \in Requests, Step(r)
        PROVE  Next
    BY <1>3 DEF Next
  <1>4. CrashImports => Next \/ UNCHANGED vars
    BY DEF CrashImports, Next
  <1>5. ASSUME NEW m \in Importers, Send(m) \/ RecordElement(m) \/ Report(m)
        PROVE  UNCHANGED vars
    BY <1>5 DEF Send, RecordElement, Report
  <1>6. AllOver \/ UNCHANGED importVars => UNCHANGED vars
    BY DEF AllOver, importVars
  <1> QED BY <1>1, <1>2, <1>3, <1>4, <1>5, <1>6 DEF ImportsNext

(* Only StartElement makes a request out of an element.                    *)
LEMMA ElementsCalled ==
  ASSUME RequestsTypeOK, ImportsFit, [ImportsNext]_importVars, NEW m \in Importers,
         NEW a \in 1..MaxAttempts[m], NEW k \in 1..Len(Body[m])
  PROVE  call'[Slots[m][a][k]] \in {NoCall, Body[m][k]}
  <1> DEFINE s == Slots[m][a][k]
  <1>1. s \in Requests /\ call[s] \in {NoCall, Body[m][k]}
    BY Elements DEF ImportsFit, ImportFit
  <1>2. ASSUME call'[s] = call[s]
        PROVE  call'[s] \in {NoCall, Body[m][k]}
    BY <1>1, <1>2
  <1>3. ASSUME NEW n \in Importers, StartElement(n)
        PROVE  call'[s] \in {NoCall, Body[m][k]}
    <2>1. /\ imports[n].attempt \in 1..MaxAttempts[n] /\ Handled(n) + 1 \in 1..Len(Body[n])
          /\ Slot(n) \in Requests
      BY <1>3, NextElement DEF StartElement
    <2>2. call' = [call EXCEPT ![Slot(n)] = Body[n][Handled(n) + 1]]
      BY <1>3 DEF StartElement, Start
    <2>3. CASE Slot(n) # s
      BY <1>1, <2>1, <2>2, <2>3 DEF RequestsTypeOK
    <2>4. CASE Slot(n) = s
      <3>1. n = m /\ Handled(n) + 1 = k
        BY <2>1, <2>4, SlotsDistinct DEF Slot
      <3> QED BY <1>1, <2>2, <2>4, <3>1 DEF RequestsTypeOK
    <2> QED BY <2>3, <2>4
  <1>4. ASSUME NEW r \in OtherRequests, NEW c \in OtherCalls, Start(r, c)
        PROVE  call'[s] = call[s]
    <2>1. r # s /\ r \in Requests
      BY DEF OtherRequests, SlotsOf
    <2> QED BY <1>1, <1>4, <2>1 DEF Start, RequestsTypeOK
  <1>5. ASSUME NEW r \in Requests, Step(r)
        PROVE  call'[s] = call[s]
    BY <1>5, StepShape DEF OwnLocals
  <1>6. CrashImports => call' = call
    BY DEF CrashImports, Crash, vars, requestVars
  <1>7. ASSUME NEW n \in Importers, Send(n) \/ RecordElement(n) \/ Report(n)
        PROVE  call' = call
    BY <1>7 DEF Send, RecordElement, Report, vars, requestVars
  <1>8. AllOver \/ UNCHANGED importVars => call' = call
    BY DEF AllOver, importVars, vars, requestVars
  <1> HIDE DEF s
  <1>9. call'[s] \in {NoCall, Body[m][k]}
    BY <1>2, <1>3, <1>4, <1>5, <1>6, <1>7, <1>8 DEF ImportsNext
  <1> QED BY <1>9 DEF s

(* What a step does to an importer.                                        *)
Recorded(m) ==
  /\ imports[m].status = "running" /\ Handled(m) < Len(Body[m]) /\ pc[Slot(m)] = "done"
  /\ imports'[m] = [imports[m] EXCEPT !.outcome = Append(imports[m].outcome, reply[Slot(m)])]
  /\ UNCHANGED vars

Restarted(m) ==
  /\ imports[m].attempt < MaxAttempts[m]
  /\ imports'[m] = [status |-> "running", attempt |-> imports[m].attempt + 1, outcome |-> <<>>]

Closed(m) ==
  /\ imports[m].status = "running"
  /\ \/ imports'[m] = [imports[m] EXCEPT !.status = "reported"] /\ Handled(m) = Len(Body[m])
     \/ imports'[m] = [imports[m] EXCEPT !.status = "cut"]

LEMMA ImporterMoves ==
  ASSUME ImportsFit, [ImportsNext]_importVars, NEW m \in Importers
  PROVE  imports'[m] = imports[m] \/ Recorded(m) \/ Restarted(m) \/ Closed(m)
  <1>1. imports = [n \in Importers |-> imports[n]]
    BY DEF ImportsFit
  <1>2. ASSUME NEW n \in Importers, Send(n)
        PROVE  imports'[m] = imports[m] \/ Restarted(m)
    BY <1>1, <1>2 DEF Send, Restarted
  <1>3. ASSUME NEW n \in Importers, RecordElement(n)
        PROVE  imports'[m] = imports[m] \/ Recorded(m)
    BY <1>1, <1>3 DEF RecordElement, Recorded
  <1>4. ASSUME NEW n \in Importers, Report(n)
        PROVE  imports'[m] = imports[m] \/ Closed(m)
    BY <1>1, <1>4 DEF Report, Closed
  <1>5. CrashImports => imports'[m] = imports[m] \/ Closed(m)
    BY DEF CrashImports, Closed, Running
  <1>6. ASSUME NEW n \in Importers, StartElement(n)
        PROVE  imports' = imports
    BY <1>6 DEF StartElement
  <1>7. AllOver \/ UNCHANGED importVars => imports' = imports
    BY DEF AllOver, importVars
  <1> QED BY <1>2, <1>3, <1>4, <1>5, <1>6, <1>7 DEF ImportsNext

LEMMA StepImportsFit ==
  ASSUME IInv, EffectInv, ImportsFit, [ImportsNext]_importVars
  PROVE  ImportsFit'
  <1>1. RequestsTypeOK
    BY DEF IInv, TypeOK
  <1>2. imports' = [m \in Importers |-> imports'[m]]
    BY DEF ImportsFit, ImportsNext, importVars, Send, StartElement, RecordElement, Report, CrashImports, AllOver
  <1>3. ASSUME NEW m \in Importers
        PROVE  ImportFit(m)'
    <2> DEFINE i == imports[m]
    <2>1. /\ i.status \in {"waiting", "running", "cut", "reported"}
          /\ i.attempt \in 0..MaxAttempts[m] /\ i.outcome \in Seq(Replies)
          /\ i = [status |-> i.status, attempt |-> i.attempt, outcome |-> i.outcome]
          /\ i.status = "running" => i.attempt >= 1
          /\ Len(i.outcome) <= Len(Body[m])
          /\ i.status = "reported" => Len(i.outcome) = Len(Body[m])
      BY DEF ImportsFit, ImportFit
    <2>2. MaxAttempts[m] \in Nat /\ Len(Body[m]) \in Nat
      BY Elements
    <2>3. \A a \in 1..MaxAttempts[m], k \in 1..Len(Body[m]) : call'[Slots[m][a][k]] \in {NoCall, Body[m][k]}
      BY <1>1, ElementsCalled
    <2>4. CASE imports'[m] = imports[m]
      BY <2>1, <2>3, <2>4 DEF ImportFit
    <2>5. CASE Recorded(m)
      <3>1. reply[Slot(m)] \in Replies
        BY <1>1, <2>5, NextElement DEF Recorded, EffectInv, RoutesFit, RouteFit, RequestsTypeOK
      <3>2. /\ Append(i.outcome, reply[Slot(m)]) \in Seq(Replies)
            /\ Len(Append(i.outcome, reply[Slot(m)])) = Len(i.outcome) + 1
            /\ Len(i.outcome) \in Nat
        BY <2>1, <3>1
      <3>3. imports'[m] = [status |-> i.status, attempt |-> i.attempt,
                           outcome |-> Append(i.outcome, reply[Slot(m)])]
        BY <2>1, <2>5 DEF Recorded
      <3>4. Len(i.outcome) + 1 <= Len(Body[m]) /\ i.status = "running"
        BY <2>2, <2>5, <3>2 DEF Recorded, Handled
      <3> QED BY <2>1, <2>3, <3>2, <3>3, <3>4 DEF ImportFit
    <2>6. CASE Restarted(m)
      BY <2>1, <2>2, <2>3, <2>6 DEF ImportFit, Restarted
    <2>7. CASE Closed(m)
      BY <2>1, <2>2, <2>3, <2>7 DEF ImportFit, Closed, Handled
    <2> QED BY <2>4, <2>5, <2>6, <2>7, ImporterMoves
  <1> QED BY <1>2, <1>3 DEF ImportsFit

LEMMA InitImportsFit ==
  ASSUME ImportsInit
  PROVE  ImportsFit
  <1>1. imports = [m \in Importers |-> [status |-> "waiting", attempt |-> 0, outcome |-> <<>>]]
    BY DEF ImportsInit
  <1>2. call = [r \in Requests |-> NoCall]
    BY DEF ImportsInit, Init
  <1> QED BY <1>1, <1>2, Elements DEF ImportsFit, ImportFit

(* The invariants of the server hold while clients import, and importers   *)
(* stay within their bodies.                                               *)
THEOREM ImportsStayFit == ImportsSpec => [](IInv /\ EffectInv /\ ImportsFit)
  <1>1. ImportsInit => IInv /\ EffectInv /\ ImportsFit
    BY InitIInv, InitEffect, InitImportsFit DEF ImportsInit
  <1>2. IInv /\ EffectInv /\ ImportsFit /\ [ImportsNext]_importVars => (IInv /\ EffectInv /\ ImportsFit)'
    BY ImportsUse, NextIInv, NextEffect, StepImportsFit
  <1> QED BY <1>1, <1>2, PTL DEF ImportsSpec

(* An import is a sequence of ordinary requests, each in a transaction of  *)
(* its own: whatever is proved of the server holds of it while it imports. *)
THEOREM ImportsAreRequests == ImportsSpec => Spec
  <1>1. ImportsFit /\ [ImportsNext]_importVars => [Next]_vars
    BY ImportsUse
  <1>2. ImportsInit => Init
    BY DEF ImportsInit
  <1> QED BY <1>1, <1>2, ImportsStayFit, PTL DEF ImportsSpec, Spec

-----------------------------------------------------------------------------
(* Reports are true.                                                       *)

LEMMA NextTruth ==
  ASSUME Undisturbed, IInv, EffectInv, [Next]_vars, NEW q \in Requests, \A r \in Requests : Truthful(r)
  PROVE  Truthful(q)'
  <1>1. RequestsTypeOK /\ RouteFit(q)
    BY DEF IInv, TypeOK, EffectInv, RoutesFit
  <1>2. ASSUME NEW r \in Requests, Step(r)
        PROVE  Truthful(q)'
    BY <1>2, OwnTruth, OthersTruth
  <1>3. ASSUME NEW r \in Requests, NEW c \in Calls, Start(r, c)
        PROVE  Truthful(q)'
    <2>1. UNCHANGED <<storages, volumes, dirtyStorage, reply>> /\ pc[r] = "idle"
      BY <1>3 DEF Start, storeVars
    <2>2. CASE q # r
      <3>1. pc'[q] = pc[q] /\ call'[q] = call[q]
        BY <1>1, <1>3, <2>2 DEF Start, RequestsTypeOK
      <3> QED BY <2>1, <3>1 DEF Truthful, Present
    <2>3. CASE q = r
      <3>1. pc'[q] \in {"tariff", "pick", "begin"} /\ reply[q] = "none"
        BY <1>1, <1>3, <2>1, <2>3 DEF Start, FirstStep, RequestsTypeOK, RouteFit
      <3> QED BY <2>1, <3>1 DEF Truthful
    <2> QED BY <2>2, <2>3
  <1>4. CASE Crash
    <2>1. UNCHANGED <<storages, volumes, call, reply>>
      BY <1>4 DEF Crash, RollbackAll
    <2>2. pc'[q] \in {"idle", "done", "cut"}
      BY <1>1, <1>4 DEF Crash, Active, RequestsTypeOK
    <2> QED BY <2>1, <2>2 DEF Truthful, Present
  <1>5. CASE UNCHANGED vars
    BY <1>5 DEF vars, storeVars, requestVars, Truthful, Present
  <1> QED BY <1>2, <1>3, <1>4, <1>5 DEF Next, Finished

LEMMA PresentKept ==
  ASSUME Undisturbed, IInv, EffectInv, [Next]_vars,
         NEW c \in Calls, c.op \in {"import", "createStorage"}, Present(c)
  PROVE  Present(c)'
  <1>1. ASSUME NEW r \in Requests, Step(r)
        PROVE  Present(c)'
    BY <1>1, PresentStays
  <1>2. ASSUME UNCHANGED <<storages, volumes>>
        PROVE  Present(c)'
    BY <1>2 DEF Present
  <1> QED BY <1>1, <1>2 DEF Next, Finished, Start, Crash, RollbackAll, vars, storeVars

(* An element recorded as imported, or as there already, is there.         *)
LEMMA RecordedIsThere ==
  ASSUME IInv, EffectInv, ImportsInv, NEW m \in Importers, Recorded(m),
         reply[Slot(m)] \in {"ok", "exists"}
  PROVE  Present(Body[m][Handled(m) + 1])
  <1> DEFINE s == Slot(m)
             c == Body[m][Handled(m) + 1]
  <1>1. /\ imports[m].attempt \in 1..MaxAttempts[m] /\ Handled(m) + 1 \in 1..Len(Body[m])
        /\ s \in Requests
    BY NextElement DEF ImportsInv, Recorded
  <1>2. c \in Calls /\ c.op \in {"import", "createStorage"}
    BY <1>1, Elements
  <1>3. call[s] \in {NoCall, c}
    BY <1>1 DEF ImportsInv, ImportsFit, ImportFit, Slot
  <1>4. call[s] = c
    BY <1>1, <1>3, CallsTyped DEF Recorded, IInv, LocalsFit, LocalFit
  <1>5. Truthful(s)
    BY <1>1 DEF ImportsInv
  <1> QED BY <1>2, <1>4, <1>5 DEF Truthful

LEMMA StepImportsInv ==
  ASSUME Undisturbed, IInv, EffectInv, ImportsInv, [ImportsNext]_importVars
  PROVE  ImportsInv'
  <1>1. [Next]_vars /\ ImportsFit'
    BY ImportsUse, StepImportsFit DEF ImportsInv
  <1>2. \A r \in Requests : Truthful(r)'
    BY <1>1, NextTruth DEF ImportsInv
  <1>3. ASSUME NEW m \in Importers, NEW k \in DOMAIN imports'[m].outcome,
               imports'[m].outcome[k] \in {"ok", "exists"}
        PROVE  Present(Body[m][k])'
    <2> DEFINE i == imports[m]
    <2>1. /\ i \in [status : {"waiting", "running", "cut", "reported"}, attempt : 0..MaxAttempts[m],
                    outcome : Seq(Replies)]
          /\ Len(i.outcome) <= Len(Body[m])
      BY DEF ImportsInv, ImportsFit, ImportFit
    <2>2. Len(Body[m]) \in Nat
      BY Elements
    <2>3. ASSUME NEW j \in DOMAIN i.outcome, i.outcome[j] \in {"ok", "exists"}
          PROVE  Present(Body[m][j])'
      <3>1. j \in 1..Len(Body[m])
        BY <2>1, <2>2
      <3>2. Present(Body[m][j])
        BY <2>3 DEF ImportsInv
      <3>3. Body[m][j] \in Calls /\ Body[m][j].op \in {"import", "createStorage"}
        BY <3>1, Elements
      <3> QED BY <1>1, <3>2, <3>3, PresentKept
    <2>4. CASE imports'[m] = imports[m]
      BY <1>3, <2>3, <2>4
    <2>5. CASE Recorded(m)
      <3>1. imports'[m].outcome = Append(i.outcome, reply[Slot(m)])
        BY <2>1, <2>5 DEF Recorded
      <3>2. CASE k \in DOMAIN i.outcome
        <4>1. imports'[m].outcome[k] = i.outcome[k]
          BY <2>1, <3>1, <3>2
        <4> QED BY <1>3, <2>3, <3>2, <4>1
      <3>3. CASE k \notin DOMAIN i.outcome
        <4>1. k = Handled(m) + 1 /\ imports'[m].outcome[k] = reply[Slot(m)]
          BY <2>1, <3>1, <3>3 DEF Handled
        <4>2. Present(Body[m][k])
          BY <1>3, <2>5, <4>1, RecordedIsThere
        <4> QED BY <2>5, <4>2 DEF Recorded, Present, vars, storeVars
      <3> QED BY <3>2, <3>3
    <2>6. CASE Restarted(m)
      BY <1>3, <2>6 DEF Restarted
    <2>7. CASE Closed(m)
      <3>1. imports'[m].outcome = i.outcome
        BY <2>1, <2>7 DEF Closed
      <3> QED BY <1>3, <2>3, <3>1
    <2> QED BY <2>4, <2>5, <2>6, <2>7, ImporterMoves DEF ImportsInv
  <1> QED BY <1>1, <1>2, <1>3 DEF ImportsInv

LEMMA InitImportsInv ==
  ASSUME ImportsInit
  PROVE  ImportsInv
  <1>1. imports = [m \in Importers |-> [status |-> "waiting", attempt |-> 0, outcome |-> <<>>]]
    BY DEF ImportsInit
  <1>2. \A r \in Requests : pc[r] = "idle" /\ reply[r] = "none"
    BY DEF ImportsInit, Init
  <1> QED BY <1>1, <1>2, InitImportsFit DEF ImportsInv, Truthful

(* While nobody deletes or renames what is imported, an answer "ok" or     *)
(* "exists" to an import is true, and stays so.                            *)
THEOREM ImportsInvariant ==
  ASSUME Undisturbed
  PROVE  ImportsSpec => []ImportsInv
  <1>1. ImportsInit => ImportsInv
    BY InitImportsInv
  <1>2. IInv /\ EffectInv /\ ImportsInv /\ [ImportsNext]_importVars => ImportsInv'
    BY StepImportsInv
  <1> QED BY <1>1, <1>2, ImportsStayFit, PTL DEF ImportsSpec

(* Everything the report of an import lists as imported is in the tables.  *)
THEOREM ReportsTrue ==
  ASSUME Undisturbed
  PROVE  ImportsSpec => []ImportedIsThere
  <1>1. ImportsInv => ImportedIsThere
    BY DEF ImportsInv, ImportedIsThere
  <1> QED BY <1>1, ImportsInvariant, PTL

(* A body sent again and again is imported once the only failures left are *)
(* elements that exist, whatever crashes and lost answers came before.     *)
THEOREM RetriesConverge ==
  ASSUME Undisturbed
  PROVE  ImportsSpec => []RetryConverges
  <1>1. ASSUME ImportsInv, NEW m \in Importers, imports[m].status = "reported", Failures(m) \subseteq {"exists"},
               NEW k \in DOMAIN Body[m]
        PROVE  Present(Body[m][k])
    <2>1. /\ imports[m].outcome \in Seq(Replies)
          /\ Len(imports[m].outcome) = Len(Body[m])
      BY <1>1 DEF ImportsInv, ImportsFit, ImportFit
    <2>2. k \in DOMAIN imports[m].outcome
      BY <2>1, ImportsTyped
    <2>3. imports[m].outcome[k] \in {"ok", "exists"}
      BY <1>1, <2>2 DEF Failures
    <2> QED BY <1>1, <2>2, <2>3 DEF ImportsInv
  <1>2. ImportsInv => RetryConverges
    BY <1>1 DEF RetryConverges
  <1> QED BY <1>2, ImportsInvariant, PTL
=============================================================================
