-------------------------- MODULE CatalogueProofs --------------------------
(***************************************************************************)
(* Proof, for every value of the constants, that volume-manager implements *)
(* VolumeCatalog: a commit is the one step in which a request takes        *)
(* effect, every other step of it is a stutter or its refusal.             *)
(***************************************************************************)
EXTENDS EffectProofs

(* The variables of the catalogue that are not those of the server.        *)
ListedStorages == [i \in RowId |-> Listed(storages[i])]
Answered == [r \in Requests |-> IF pc[r] = "cut" THEN "cut" ELSE reply[r]]

-----------------------------------------------------------------------------
(* Steps that do not show, and steps that end a request.                   *)

LEMMA Unseen ==
  ASSUME UNCHANGED <<storages, volumes, call, reply>>, \A q \in Requests : pc'[q] = "cut" <=> pc[q] = "cut"
  PROVE  UNCHANGED <<Catalogue!catalogue, call, Answered>>
  BY DEF Catalogue!catalogue, Answered, Listed

(* A request is in progress here exactly when it is waiting there.         *)
LEMMA ActiveWaits ==
  ASSUME IInv, RoutesFit, NEW r \in Requests
  PROVE  Catalogue!Waiting(r) <=> pc[r] \in ActiveSteps
  <1>1. RouteFit(r) /\ LocalFit(r) /\ pc[r] \in ActiveSteps \cup {"idle", "done", "cut"}
    BY DEF RoutesFit, IInv, LocalsFit, TypeOK, RequestsTypeOK
  <1>2. pc[r] # "idle" => call[r] # NoCall
    BY <1>1, CallsTyped DEF LocalFit
  <1> QED BY <1>1, <1>2 DEF Catalogue!Waiting, RouteFit, ActiveSteps, OutsideSteps, InsideSteps

LEMMA AnswerShows ==
  ASSUME RequestsTypeOK, NEW r \in Requests, pc[r] \in ActiveSteps, NEW answer \in Replies, Answer(r, answer),
         NEW replies, answer \in replies
  PROVE  Catalogue!Answers(r, replies)
  <1>1. Answered'[r] = answer
    BY DEF Answered, Answer, RequestsTypeOK
  <1>2. Answered' = [Answered EXCEPT ![r] = Answered'[r]]
    BY DEF Answered, Answer, RequestsTypeOK
  <1>3. call' = call
    BY DEF Answer
  <1> QED BY <1>1, <1>2, <1>3 DEF Catalogue!Answers, Answered

LEMMA RefusalDeclines ==
  ASSUME IInv, RoutesFit, NEW r \in Requests, Refused(r)
  PROVE  Catalogue!Decline(r)
  <1>1. PICK answer \in Replies \ {"ok"} : RollbackTx(r) /\ Answer(r, answer) /\ pc[r] \in ActiveSteps
    BY DEF Refused, Refuse
  <1>2. Catalogue!Waiting(r)
    BY <1>1, ActiveWaits
  <1>3. Catalogue!Answers(r, Replies \ {"ok"})
    BY <1>1, AnswerShows DEF IInv, TypeOK
  <1>4. UNCHANGED Catalogue!catalogue
    BY <1>1 DEF Catalogue!catalogue, RollbackTx, Listed
  <1> QED BY <1>2, <1>3, <1>4 DEF Catalogue!Decline

LEMMA StartAsks ==
  ASSUME IInv, RoutesFit, NEW r \in Requests, NEW c \in Calls, Start(r, c)
  PROVE  Catalogue!Ask(r)
  <1>1. RequestsTypeOK /\ call[r] = NoCall
    BY DEF IInv, TypeOK, RoutesFit, RouteFit, Start
  <1>2. call' = [call EXCEPT ![r] = c] /\ call'[r] = c
    BY <1>1 DEF Start, RequestsTypeOK
  <1>3. UNCHANGED <<Catalogue!catalogue, Answered>>
    BY <1>1 DEF Start, storeVars, Catalogue!catalogue, Answered, Listed, FirstStep, RequestsTypeOK
  <1> QED BY <1>1, <1>2, <1>3 DEF Catalogue!Ask, Answered

LEMMA CrashCutsOff ==
  ASSUME IInv, RoutesFit, Crash
  PROVE  Catalogue!CutOff
  <1>1. \A q \in Requests : Catalogue!Waiting(q) <=> q \in Active
    BY ActiveWaits DEF Active
  <1>2. UNCHANGED <<Catalogue!catalogue, call>>
    BY DEF Crash, RollbackAll, Catalogue!catalogue, Listed
  <1>3. \A q \in Requests : Answered'[q] = IF q \in Active THEN "cut" ELSE Answered[q]
    BY DEF Crash, Answered
  <1>4. Answered' = [q \in Requests |-> IF Catalogue!Waiting(q) THEN "cut" ELSE Answered[q]]
    BY <1>1, <1>3 DEF Answered
  <1> QED BY <1>2, <1>4 DEF Catalogue!CutOff, Answered

-----------------------------------------------------------------------------
(* A commit installs the versions of its transaction, and they are the     *)
(* effect of its call.                                                     *)

(* The rows it leaves, in the store and in the catalogue.                  *)
LEMMA CommitInstalls ==
  ASSUME TypeOK, StorageVersionsFit, NEW r \in Requests, Commits(r)
  PROVE  /\ volumes' = [i \in RowId |-> IF dirtyVolume[i].tx = r THEN dirtyVolume[i].row ELSE volumes[i]]
         /\ ListedStorages' = [i \in RowId |-> IF dirtyStorage[i].tx = r THEN Listed(dirtyStorage[i].row)
                                                                        ELSE ListedStorages[i]]
  BY DEF Commits, CommitTx, VolumesSeen, StoragesSeen, View, ListedStorages, Listed

(* A storage is listed with its name, size and mark, and under its name.   *)
LEMMA ListedFields ==
  ASSUME NEW s \in StorageRow
  PROVE  /\ Listed(s) = [name |-> s.name, size |-> s.size, deleted |-> s.deleted]
         /\ Listed(s) # NoRow
  <1>1. s # NoRow
    BY IdsDistinct
  <1>2. [name |-> s.name, size |-> s.size, deleted |-> s.deleted]
          \in [name : StorageNames, size : Int, deleted : BOOLEAN]
    BY DEF StorageRow
  <1> QED BY <1>1, <1>2, ListedDistinct DEF Listed

(* What changing fields of one listed storage makes of the table.          *)
LEMMA MarkChanges ==
  ASSUME NEW table, table = [i \in RowId |-> table[i]], NEW k \in RowId, NEW name, NEW size, NEW mark,
         table[k] = [name |-> name, size |-> size, deleted |-> mark]
  PROVE  [table EXCEPT ![k].deleted = TRUE]
           = [i \in RowId |-> IF i = k THEN [name |-> name, size |-> size, deleted |-> TRUE] ELSE table[i]]
  <1>1. PICK gone : gone = TRUE
    OBVIOUS
  <1>2. [table EXCEPT ![k].deleted = gone]
          = [i \in RowId |-> IF i = k THEN [name |-> name, size |-> size, deleted |-> gone] ELSE table[i]]
    OBVIOUS
  <1>3. /\ [table EXCEPT ![k].deleted = TRUE] = [table EXCEPT ![k].deleted = gone]
        /\ [name |-> name, size |-> size, deleted |-> TRUE] = [name |-> name, size |-> size, deleted |-> gone]
    BY <1>1
  <1> QED BY <1>2, <1>3

WithSizeAndMark(table, k, size, mark) == [table EXCEPT ![k].size = size, ![k].deleted = mark]
WithNameAndSize(table, k, name, size) == [table EXCEPT ![k].name = name, ![k].size = size]

LEMMA SizeAndMarkChange ==
  ASSUME NEW table, table = [i \in RowId |-> table[i]], NEW k \in RowId, NEW name, NEW size, NEW mark,
         table[k] = [name |-> name, size |-> size, deleted |-> mark], NEW size1, NEW mark1
  PROVE  WithSizeAndMark(table, k, size1, mark1)
           = [i \in RowId |-> IF i = k THEN [name |-> name, size |-> size1, deleted |-> mark1] ELSE table[i]]
  <1> DEFINE resized == [table EXCEPT ![k].size = size1]
  <1>1. /\ resized = [i \in RowId |-> resized[i]]
        /\ resized[k] = [name |-> name, size |-> size1, deleted |-> mark]
        /\ \A i \in RowId : i # k => resized[i] = table[i]
    OBVIOUS
  <1>2. WithSizeAndMark(table, k, size1, mark1) = [resized EXCEPT ![k].deleted = mark1]
    BY DEF WithSizeAndMark
  <1> HIDE DEF resized
  <1>3. [resized EXCEPT ![k].deleted = mark1]
          = [i \in RowId |-> IF i = k THEN [name |-> name, size |-> size1, deleted |-> mark1] ELSE resized[i]]
    BY <1>1
  <1> QED BY <1>1, <1>2, <1>3

LEMMA NameAndSizeChange ==
  ASSUME NEW table, table = [i \in RowId |-> table[i]], NEW k \in RowId, NEW name, NEW size, NEW mark,
         table[k] = [name |-> name, size |-> size, deleted |-> mark], NEW name1, NEW size1
  PROVE  WithNameAndSize(table, k, name1, size1)
           = [i \in RowId |-> IF i = k THEN [name |-> name1, size |-> size1, deleted |-> mark] ELSE table[i]]
  <1> DEFINE renamed == [table EXCEPT ![k].name = name1]
  <1>1. /\ renamed = [i \in RowId |-> renamed[i]]
        /\ renamed[k] = [name |-> name1, size |-> size, deleted |-> mark]
        /\ \A i \in RowId : i # k => renamed[i] = table[i]
    OBVIOUS
  <1>2. WithNameAndSize(table, k, name1, size1) = [renamed EXCEPT ![k].size = size1]
    BY DEF WithNameAndSize
  <1> HIDE DEF renamed
  <1>3. [renamed EXCEPT ![k].size = size1]
          = [i \in RowId |-> IF i = k THEN [name |-> name1, size |-> size1, deleted |-> mark] ELSE renamed[i]]
    BY <1>1
  <1> QED BY <1>1, <1>2, <1>3

LEMMA ListedIsTable == ListedStorages = [i \in RowId |-> ListedStorages[i]]
  BY DEF ListedStorages

LEMMA NamedShows ==
  ASSUME StoreTypeOK, NEW name
  PROVE  Catalogue!Named(name) = StoragesNamed(storages, name)
  <1>1. \A i \in RowId : storages[i] \in StorageRow \cup {NoRow}
    BY DEF StoreTypeOK
  <1>2. ASSUME NEW i \in RowId
        PROVE  /\ storages[i] = NoRow => Listed(storages[i]) = NoRow
               /\ storages[i] # NoRow => Listed(storages[i]) # NoRow /\ Listed(storages[i]).name = storages[i].name
    BY <1>1, ListedFields DEF Listed
  <1>3. \A i \in RowId : /\ ListedStorages[i] # NoRow <=> storages[i] # NoRow
                         /\ storages[i] # NoRow => ListedStorages[i].name = storages[i].name
    BY <1>2 DEF ListedStorages
  <1> QED BY <1>3 DEF Catalogue!Named, StoragesNamed, ListedStorages

(* Who reserves, releases or moves space leaves the listed storages alone. *)
LEMMA ChargesUnseen ==
  ASSUME TypeOK, StorageVersionsFit, NEW r \in Requests, Commits(r),
         call[r].op \in Creations \cup Resizings \cup {"delete"} \cup DeleteAlls
  PROVE  ListedStorages' = ListedStorages
  <1>1. SUFFICES ASSUME NEW i \in RowId, dirtyStorage[i].tx = r
                 PROVE  Listed(dirtyStorage[i].row) = Listed(storages[i])
    BY CommitInstalls DEF ListedStorages
  <1>2. /\ dirtyStorage[i].row # NoRow
        /\ StorageEffect(r, call[r], i, storages[i], dirtyStorage[i].row)
    BY <1>1, IdsDistinct DEF StorageVersionsFit
  <1>3. /\ storages[i] # NoRow
        /\ dirtyStorage[i].row.name = storages[i].name
        /\ dirtyStorage[i].row.size = storages[i].size
        /\ dirtyStorage[i].row.deleted = storages[i].deleted
    BY <1>2 DEF StorageEffect, Creations, Resizings, DeleteAlls
  <1> QED BY <1>2, <1>3 DEF Listed

LEMMA CreationShows ==
  ASSUME IInv, EffectInv, NEW r \in Requests, Commits(r), call[r].op \in Creations
  PROVE  Catalogue!Creates(r, call[r])
  <1> DEFINE c == call[r]
             v == dirtyVolume[r].row
  <1>1. /\ TypeOK /\ StoreTypeOK /\ DirtyFits /\ UniqueVersions
        /\ VolumeVersionsFit /\ StorageVersionsFit /\ Wrote(r)
        /\ r \in RowId
    BY DEF IInv, TypeOK, EffectInv, WritesDone, RowId
  <1>2. dirtyVolume[r].tx = r
    BY <1>1 DEF Wrote, Commits
  <1>3. VolumeEffect(r, c, r, volumes[r], v)
    BY <1>1, <1>2, IdsDistinct DEF VolumeVersionsFit
  <1>4. \A i \in RowId : dirtyVolume[i].tx = r => i = r
    BY <1>1, IdsDistinct DEF VolumeVersionsFit, VolumeEffect, Creations, DeleteAlls, Resizings
  <1>5. /\ volumes[r] = NoRow /\ ~v.deleted
        /\ v.ns = c.ns /\ v.label = c.label
        /\ v.owner = IF c.owner = NoName THEN ZeroUUID ELSE c.owner
        /\ c.op # "create" => v.capacity = c.capacity
        /\ c.storage # NoName => v.storage = c.storage
    BY <1>3 DEF VolumeEffect, Creations, DeleteAlls, Resizings
  <1>6. v # NoRow
    BY <1>1, <1>2, IdsDistinct DEF DirtyFits
  <1>7. volumes' = [volumes EXCEPT ![r] = v] /\ volumes'[r] = v
    BY <1>1, <1>2, <1>4, CommitInstalls DEF StoreTypeOK
  <1>8. \A i \in Catalogue!Labelled(c.ns, c.label) : volumes[i].deleted
    <2>1. SUFFICES ASSUME NEW i \in RowId, volumes[i] # NoRow, volumes[i].ns = c.ns, volumes[i].label = c.label
                   PROVE  volumes[i].deleted
      BY DEF Catalogue!Labelled
    <2>2. i # r /\ Live(v) /\ SameLabel(volumes[i], v)
      BY <1>5, <1>6, <2>1 DEF Live, SameLabel
    <2> QED BY <1>1, <2>1, <2>2 DEF UniqueVersions, Live
  <1>9. Catalogue!Named(v.storage) # {}
    <2>1. StoragesNamed(StoragesSeen(r), v.storage) # {}
      BY <1>1, <1>2, <1>5 DEF Commits, ReferencesExist, NewReferences
    <2>2. PICK j \in RowId : StoragesSeen(r)[j] # NoRow /\ StoragesSeen(r)[j].name = v.storage
      BY <2>1 DEF StoragesNamed
    <2>3. storages[j] # NoRow /\ storages[j].name = v.storage
      <3>1. CASE dirtyStorage[j].tx = r
        <4>1. /\ StoragesSeen(r)[j] = dirtyStorage[j].row
              /\ StorageEffect(r, c, j, storages[j], dirtyStorage[j].row)
          BY <1>1, <3>1, IdsDistinct DEF StoragesSeen, View, StorageVersionsFit
        <4> QED BY <2>2, <4>1 DEF StorageEffect, Creations
      <3>2. CASE dirtyStorage[j].tx # r
        BY <2>2, <3>2 DEF StoragesSeen, View
      <3> QED BY <3>1, <3>2
    <2> QED BY <1>1, <2>3, NamedShows DEF StoragesNamed
  <1>10. ListedStorages' = ListedStorages
    BY <1>1, ChargesUnseen
  <1> HIDE DEF c, v
  <1>11. Catalogue!Creates(r, c)
    BY <1>5, <1>6, <1>7, <1>8, <1>9, <1>10
    DEF Catalogue!Creates, Catalogue!IsLive, Catalogue!OwnerOf, Creations, ListedStorages, c
  <1> QED BY <1>11 DEF c

(* The one row of a deletion or a resize.                                  *)
LEMMA OneRow ==
  ASSUME IInv, EffectInv, NEW r \in Requests, Commits(r), call[r].op \in Resizings \cup {"delete"}
  PROVE  \E k \in RowId :
           /\ volumes[k] \in VolumeRow
           /\ k \in Catalogue!Labelled(call[r].ns, call[r].label)
           /\ VolumeEffect(r, call[r], k, volumes[k], dirtyVolume[k].row)
           /\ volumes' = [i \in RowId |-> IF i = k THEN dirtyVolume[k].row ELSE volumes[i]]
  <1>1. /\ TypeOK /\ StoreTypeOK /\ VolumeVersionsFit /\ StorageVersionsFit /\ Wrote(r)
    BY DEF IInv, TypeOK, EffectInv, WritesDone
  <1>2. PICK k \in RowId : \A i \in RowId : dirtyVolume[i].tx = r <=> i = k
    BY <1>1 DEF Wrote, Commits
  <1>3. VolumeEffect(r, call[r], k, volumes[k], dirtyVolume[k].row)
    BY <1>1, <1>2, IdsDistinct DEF VolumeVersionsFit
  <1>4. Concerns(call[r], volumes[k])
    BY <1>3 DEF VolumeEffect, Creations, Resizings, DeleteAlls
  <1>5. volumes[k] \in VolumeRow /\ k \in Catalogue!Labelled(call[r].ns, call[r].label)
    BY <1>1, <1>4 DEF Concerns, StoreTypeOK, Catalogue!Labelled, DeleteAlls, Resizings
  <1>6. volumes' = [i \in RowId |-> IF i = k THEN dirtyVolume[k].row ELSE volumes[i]]
    <2>1. volumes' = [i \in RowId |-> IF dirtyVolume[i].tx = r THEN dirtyVolume[i].row ELSE volumes[i]]
      BY <1>1, CommitInstalls
    <2>2. \A i \in RowId : (IF dirtyVolume[i].tx = r THEN dirtyVolume[i].row ELSE volumes[i])
                            = IF i = k THEN dirtyVolume[k].row ELSE volumes[i]
      BY <1>2
    <2> QED BY <2>1, <2>2
  <1> QED BY <1>3, <1>5, <1>6

LEMMA DeletionShows ==
  ASSUME IInv, EffectInv, NEW r \in Requests, Commits(r), call[r].op = "delete"
  PROVE  Catalogue!Deletes(call[r])
  <1>1. PICK k \in RowId :
           /\ volumes[k] \in VolumeRow
           /\ k \in Catalogue!Labelled(call[r].ns, call[r].label)
           /\ VolumeEffect(r, call[r], k, volumes[k], dirtyVolume[k].row)
           /\ volumes' = [i \in RowId |-> IF i = k THEN dirtyVolume[k].row ELSE volumes[i]]
    BY OneRow
  <1>2. dirtyVolume[k].row = [volumes[k] EXCEPT !.deleted = TRUE]
    BY <1>1 DEF VolumeEffect, Creations, Resizings
  <1>3. volumes' = [i \in RowId |-> IF i \in {k} THEN [volumes[i] EXCEPT !.deleted = TRUE] ELSE volumes[i]]
    BY <1>1, <1>2
  <1>4. ListedStorages' = ListedStorages
    BY ChargesUnseen DEF IInv, EffectInv
  <1> QED BY <1>1, <1>3, <1>4 DEF Catalogue!Deletes, Catalogue!Marks, ListedStorages

LEMMA DeleteAllShows ==
  ASSUME IInv, EffectInv, NEW r \in Requests, Commits(r), call[r].op \in DeleteAlls
  PROVE  Catalogue!DeletesAll(call[r])
  <1> DEFINE I == {i \in RowId : dirtyVolume[i].tx = r}
  <1>1. TypeOK /\ VolumeVersionsFit /\ StorageVersionsFit
    BY DEF IInv, EffectInv
  <1>2. \A i \in I : /\ Concerns(call[r], volumes[i])
                     /\ dirtyVolume[i].row = [volumes[i] EXCEPT !.deleted = TRUE]
    BY <1>1, IdsDistinct DEF VolumeVersionsFit, VolumeEffect, Creations, Resizings, DeleteAlls
  <1>3. volumes' = [i \in RowId |-> IF i \in I THEN [volumes[i] EXCEPT !.deleted = TRUE] ELSE volumes[i]]
    <2>1. volumes' = [i \in RowId |-> IF dirtyVolume[i].tx = r THEN dirtyVolume[i].row ELSE volumes[i]]
      BY <1>1, CommitInstalls
    <2>2. \A i \in RowId : (IF dirtyVolume[i].tx = r THEN dirtyVolume[i].row ELSE volumes[i])
                            = IF i \in I THEN [volumes[i] EXCEPT !.deleted = TRUE] ELSE volumes[i]
      BY <1>2
    <2> HIDE DEF I
    <2> QED BY <2>1, <2>2
  <1>4. I \in SUBSET {i \in RowId : /\ volumes[i] # NoRow
                                    /\ IF call[r].op = "deleteUser" THEN volumes[i].owner = call[r].owner
                                                                    ELSE volumes[i].ns = call[r].ns}
    BY <1>2 DEF Concerns
  <1>5. ListedStorages' = ListedStorages
    BY <1>1, ChargesUnseen
  <1> HIDE DEF I
  <1> QED BY <1>3, <1>4, <1>5 DEF Catalogue!DeletesAll, Catalogue!Marks, ListedStorages, DeleteAlls

LEMMA ResizeShows ==
  ASSUME IInv, EffectInv, NEW r \in Requests, Commits(r), call[r].op \in Resizings
  PROVE  Catalogue!Resizes(call[r])
  <1>1. PICK k \in RowId :
           /\ volumes[k] \in VolumeRow
           /\ k \in Catalogue!Labelled(call[r].ns, call[r].label)
           /\ VolumeEffect(r, call[r], k, volumes[k], dirtyVolume[k].row)
           /\ volumes' = [i \in RowId |-> IF i = k THEN dirtyVolume[k].row ELSE volumes[i]]
    BY OneRow
  <1>2. /\ dirtyVolume[k].row = [volumes[k] EXCEPT !.capacity = dirtyVolume[k].row.capacity]
        /\ call[r].op = "adminResize" => dirtyVolume[k].row.capacity = call[r].capacity
    BY <1>1 DEF VolumeEffect, Creations, Resizings, DeleteAlls
  <1>3. volumes \in [RowId -> VolumeRow \cup {NoRow}]
    BY DEF IInv, TypeOK, StoreTypeOK
  <1>4. volumes'[k] = dirtyVolume[k].row
    BY <1>1
  <1>5. volumes' = [volumes EXCEPT ![k].capacity = volumes'[k].capacity]
    BY <1>1, <1>2, <1>3, <1>4
  <1>6. ListedStorages' = ListedStorages
    BY ChargesUnseen DEF IInv, EffectInv
  <1> QED BY <1>1, <1>2, <1>4, <1>5, <1>6 DEF Catalogue!Resizes, ListedStorages, Resizings

(* Operations on storages that touch no volume.                            *)
LEMMA VolumesUntouched ==
  ASSUME IInv, EffectInv, NEW r \in Requests, Commits(r), call[r].op \in {"createStorage", "deleteStorage"}
  PROVE  volumes' = volumes
  <1>1. /\ TypeOK /\ StorageVersionsFit /\ VolumeVersionsFit
        /\ volumes \in [RowId -> VolumeRow \cup {NoRow}]
    BY DEF IInv, EffectInv, TypeOK, StoreTypeOK
  <1>2. \A i \in RowId : dirtyVolume[i].tx # r
    BY <1>1, IdsDistinct DEF VolumeVersionsFit, VolumeEffect, Creations, Resizings, DeleteAlls
  <1> QED BY <1>1, <1>2, CommitInstalls

(* An operation on an existing storage has written that row alone.         *)
LEMMA OneStorage ==
  ASSUME IInv, EffectInv, NEW r \in Requests, Commits(r), NEW k \in RowId, dirtyStorage[k].tx = r,
         call[r].op \in {"createStorage", "updateStorage", "deleteStorage"}
  PROVE  /\ StorageEffect(r, call[r], k, storages[k], dirtyStorage[k].row)
         /\ dirtyStorage[k].row \in StorageRow
         /\ storages[k] \in StorageRow \cup {NoRow}
         /\ ListedStorages' = [i \in RowId |-> IF i = k THEN Listed(dirtyStorage[k].row) ELSE ListedStorages[i]]
  <1>1. /\ TypeOK /\ StoreTypeOK /\ StorageVersionsFit /\ UniqueNames
    BY DEF IInv, TypeOK, EffectInv
  <1>2. ASSUME NEW i \in RowId, dirtyStorage[i].tx = r
        PROVE  /\ StorageEffect(r, call[r], i, storages[i], dirtyStorage[i].row)
               /\ dirtyStorage[i].row # NoRow
    BY <1>1, <1>2, IdsDistinct DEF StorageVersionsFit
  <1>3. ASSUME NEW i \in RowId, dirtyStorage[i].tx = r
        PROVE  \E s \in {storages[i], dirtyStorage[i].row} : s # NoRow /\ s.name = call[r].storage
    BY <1>2, <1>3 DEF StorageEffect, Creations, Resizings
  <1>4. \A i \in RowId : dirtyStorage[i].tx = r => i = k
    BY <1>1, <1>3 DEF UniqueNames
  <1>5. ListedStorages' = [i \in RowId |-> IF i = k THEN Listed(dirtyStorage[k].row) ELSE ListedStorages[i]]
    BY <1>1, <1>4, CommitInstalls
  <1> QED BY <1>1, <1>2, <1>5 DEF StoreTypeOK

LEMMA StorageCreationShows ==
  ASSUME IInv, EffectInv, NEW r \in Requests, Commits(r), call[r].op = "createStorage"
  PROVE  Catalogue!CreatesStorage(r, call[r])
  <1>1. volumes' = volumes
    BY VolumesUntouched
  <1>2. StoreTypeOK /\ UniqueNames /\ TypeOK /\ StorageVersionsFit
    BY DEF IInv, TypeOK, EffectInv
  <1>3. CASE \A k \in RowId : dirtyStorage[k].tx # r
    <2>1. ListedStorages' = ListedStorages
      BY <1>2, <1>3, CommitInstalls DEF ListedStorages
    <2> QED BY <1>1, <2>1 DEF Catalogue!CreatesStorage, ListedStorages
  <1>4. ASSUME NEW k \in RowId, dirtyStorage[k].tx = r
        PROVE  Catalogue!CreatesStorage(r, call[r])
    <2> DEFINE d == dirtyStorage[k].row
               s == storages[k]
               l == [name |-> call[r].storage, size |-> call[r].capacity, deleted |-> FALSE]
    <2>1. /\ d.name = call[r].storage /\ d.size = call[r].capacity /\ ~d.deleted
          /\ \/ k = r /\ s = NoRow
             \/ s # NoRow /\ s.name = call[r].storage
          /\ d \in StorageRow /\ s \in StorageRow \cup {NoRow}
      BY <1>4, OneStorage DEF StorageEffect, Creations, Resizings
    <2>2. Listed(d) = l
      BY <2>1, ListedFields DEF StorageRow
    <2>3. ListedStorages' = [i \in RowId |-> IF i = k THEN l ELSE ListedStorages[i]]
      BY <1>4, <2>2, OneStorage
    <2>4. ListedStorages[k] = Listed(s)
      BY DEF ListedStorages
    <2>5. CASE k = r /\ s = NoRow
      <3>1. StoragesNamed(storages, call[r].storage) = {}
        BY <1>2, <2>1, <2>5, IdsDistinct DEF UniqueNames, StoragesNamed
      <3>2. Catalogue!Named(call[r].storage) = {}
        BY <1>2, <3>1, NamedShows
      <3>3. ListedStorages[r] = NoRow
        BY <2>4, <2>5 DEF Listed
      <3>4. ListedStorages' = [ListedStorages EXCEPT ![r] = l]
        BY <2>3, <2>5 DEF ListedStorages
      <3> QED BY <1>1, <3>2, <3>3, <3>4 DEF Catalogue!CreatesStorage, ListedStorages
    <2>6. CASE s # NoRow /\ s.name = call[r].storage
      <3>1. k \in Catalogue!Named(call[r].storage)
        BY <1>2, <2>6, NamedShows DEF StoragesNamed
      <3>2. Listed(s) = [name |-> call[r].storage, size |-> s.size, deleted |-> s.deleted]
        BY <2>1, <2>6, ListedFields
      <3>3. ListedStorages' = [ListedStorages EXCEPT ![k].size = call[r].capacity, ![k].deleted = FALSE]
        <4>1. ListedStorages[k] = [name |-> call[r].storage, size |-> s.size, deleted |-> s.deleted]
          BY <2>4, <3>2
        <4>2. PICK table, name, size0, mark, size, present :
                /\ table = ListedStorages /\ name = call[r].storage /\ size = call[r].capacity /\ present = FALSE
                /\ table[k] = [name |-> name, size |-> size0, deleted |-> mark]
          BY <4>1
        <4>3. table = [i \in RowId |-> table[i]]
          BY <4>2, ListedIsTable
        <4>4. WithSizeAndMark(table, k, size, present)
                = [i \in RowId |-> IF i = k THEN [name |-> name, size |-> size, deleted |-> present] ELSE table[i]]
          BY <4>2, <4>3, SizeAndMarkChange
        <4>5. l = [name |-> name, size |-> size, deleted |-> present]
          BY <4>2
        <4>6. [ListedStorages EXCEPT ![k].size = call[r].capacity, ![k].deleted = FALSE]
                = WithSizeAndMark(table, k, size, present)
          BY <4>2 DEF WithSizeAndMark
        <4> HIDE DEF l
        <4> QED BY <2>3, <4>2, <4>4, <4>5, <4>6
      <3> QED BY <1>1, <3>1, <3>3 DEF Catalogue!CreatesStorage, ListedStorages
    <2> QED BY <2>1, <2>5, <2>6
  <1> QED BY <1>3, <1>4

LEMMA StorageUpdateShows ==
  ASSUME IInv, EffectInv, NEW r \in Requests, Commits(r), call[r].op = "updateStorage"
  PROVE  Catalogue!UpdatesStorage(call[r])
  <1> DEFINE name == NewName(call[r])
             old == call[r].storage
  <1>1. /\ TypeOK /\ StoreTypeOK /\ UniqueNames /\ StorageVersionsFit /\ VolumeVersionsFit /\ Wrote(r)
    BY DEF IInv, TypeOK, EffectInv, WritesDone
  <1>2. PICK k \in RowId : dirtyStorage[k].tx = r
    BY <1>1 DEF Wrote, Commits
  <1> DEFINE d == dirtyStorage[k].row
             s == storages[k]
  <1>3. /\ s # NoRow /\ s.name = old
        /\ d.name = name /\ d.deleted = s.deleted
        /\ call[r].capacity # NoSize => d.size = call[r].capacity
        /\ d \in StorageRow /\ s \in StorageRow
        /\ ListedStorages' = [i \in RowId |-> IF i = k THEN Listed(d) ELSE ListedStorages[i]]
    BY <1>2, OneStorage DEF StorageEffect, Creations, Resizings
  <1>4. /\ Listed(d) = [name |-> name, size |-> d.size, deleted |-> s.deleted]
        /\ Listed(s) = [name |-> old, size |-> s.size, deleted |-> s.deleted]
    BY <1>3, ListedFields
  <1>5. name = old \/ Catalogue!Named(name) = {}
    <2>1. ASSUME name # old, NEW j \in RowId, storages[j] # NoRow, storages[j].name = name
          PROVE  FALSE
      BY <1>1, <1>2, <1>3, <2>1, IdsDistinct DEF UniqueNames
    <2>2. name # old => StoragesNamed(storages, name) = {}
      BY <2>1 DEF StoragesNamed
    <2> QED BY <1>1, <2>2, NamedShows
  <1>6. k \in Catalogue!Named(old)
    BY <1>1, <1>3, NamedShows DEF StoragesNamed
  <1>7. ListedStorages'[k].size = d.size
    BY <1>3, <1>4
  <1>8. ListedStorages' = [ListedStorages EXCEPT ![k].name = name, ![k].size = d.size]
    <2>1. ListedStorages[k] = [name |-> old, size |-> s.size, deleted |-> s.deleted]
      BY <1>4 DEF ListedStorages
    <2> HIDE DEF d, s, name, old
    <2>2. PICK table, name0, size0, mark, name1, size1 :
            /\ table = ListedStorages /\ mark = s.deleted /\ name1 = name /\ size1 = d.size
            /\ table[k] = [name |-> name0, size |-> size0, deleted |-> mark]
      BY <2>1
    <2>3. table = [i \in RowId |-> table[i]]
      BY <2>2, ListedIsTable
    <2>4. WithNameAndSize(table, k, name1, size1)
            = [i \in RowId |-> IF i = k THEN [name |-> name1, size |-> size1, deleted |-> mark] ELSE table[i]]
      BY <2>2, <2>3, NameAndSizeChange
    <2>5. Listed(d) = [name |-> name1, size |-> size1, deleted |-> mark]
      BY <1>4, <2>2
    <2>6. ListedStorages' = [i \in RowId |-> IF i = k THEN Listed(d) ELSE table[i]]
      BY <1>3, <2>2
    <2>7. [ListedStorages EXCEPT ![k].name = name, ![k].size = d.size] = WithNameAndSize(table, k, name1, size1)
      BY <2>2 DEF WithNameAndSize
    <2> QED BY <2>4, <2>5, <2>6, <2>7
  <1>9. volumes' = [i \in RowId |-> IF volumes[i] # NoRow /\ volumes[i].storage = old
                                    THEN [volumes[i] EXCEPT !.storage = name] ELSE volumes[i]]
    <2>1. volumes' = [i \in RowId |-> IF dirtyVolume[i].tx = r THEN dirtyVolume[i].row ELSE volumes[i]]
      BY <1>1, CommitInstalls
    <2>2. ASSUME NEW i \in RowId, dirtyVolume[i].tx = r
          PROVE  /\ volumes[i] # NoRow /\ volumes[i].storage = old /\ name # old
                 /\ dirtyVolume[i].row = [volumes[i] EXCEPT !.storage = name]
      BY <1>1, <2>2, IdsDistinct DEF VolumeVersionsFit, VolumeEffect, Creations, Resizings, DeleteAlls
    <2>3. ASSUME NEW i \in RowId, volumes[i] # NoRow, volumes[i].storage = old, name # old
          PROVE  dirtyVolume[i].tx = r
      BY <1>1, <2>3 DEF Wrote, Commits
    <2>4. ASSUME NEW i \in RowId, volumes[i] # NoRow, volumes[i].storage = old, name = old
          PROVE  [volumes[i] EXCEPT !.storage = name] = volumes[i]
      BY <1>1, <2>4 DEF StoreTypeOK, VolumeRow
    <2>5. ASSUME NEW i \in RowId
          PROVE  (IF dirtyVolume[i].tx = r THEN dirtyVolume[i].row ELSE volumes[i])
                   = IF volumes[i] # NoRow /\ volumes[i].storage = old
                     THEN [volumes[i] EXCEPT !.storage = name] ELSE volumes[i]
      BY <2>2, <2>3, <2>4
    <2> HIDE DEF name, old
    <2> QED BY <2>1, <2>5
  <1> HIDE DEF d, s
  <1> QED BY <1>3, <1>5, <1>6, <1>7, <1>8, <1>9 DEF Catalogue!UpdatesStorage, ListedStorages, NewName

LEMMA StorageDropShows ==
  ASSUME IInv, EffectInv, NEW r \in Requests, Commits(r), call[r].op = "deleteStorage"
  PROVE  Catalogue!DropsStorage(call[r])
  <1>1. StoreTypeOK /\ Wrote(r)
    BY DEF IInv, TypeOK, EffectInv, WritesDone
  <1>2. PICK k \in RowId : dirtyStorage[k].tx = r
    BY <1>1 DEF Wrote, Commits
  <1> DEFINE d == dirtyStorage[k].row
             s == storages[k]
  <1>3. /\ s # NoRow /\ s.name = call[r].storage
        /\ d.name = s.name /\ d.size = s.size /\ d.deleted
        /\ d \in StorageRow /\ s \in StorageRow
        /\ ListedStorages' = [i \in RowId |-> IF i = k THEN Listed(d) ELSE ListedStorages[i]]
    BY <1>2, OneStorage DEF StorageEffect, Creations, Resizings
  <1>4. /\ Listed(d) = [name |-> s.name, size |-> s.size, deleted |-> TRUE]
        /\ ListedStorages[k] = [name |-> s.name, size |-> s.size, deleted |-> s.deleted]
    BY <1>3, ListedFields DEF ListedStorages, StorageRow
  <1>5. ListedStorages' = [ListedStorages EXCEPT ![k].deleted = TRUE]
    <2> HIDE DEF d, s
    <2>1. PICK table, name, size, mark : /\ table = ListedStorages /\ name = s.name /\ size = s.size
                                         /\ table[k] = [name |-> name, size |-> size, deleted |-> mark]
      BY <1>4
    <2>2. table = [i \in RowId |-> table[i]]
      BY <2>1, ListedIsTable
    <2>3. [table EXCEPT ![k].deleted = TRUE]
            = [i \in RowId |-> IF i = k THEN [name |-> name, size |-> size, deleted |-> TRUE] ELSE table[i]]
      BY <2>1, <2>2, MarkChanges
    <2>4. Listed(d) = [name |-> name, size |-> size, deleted |-> TRUE]
      BY <1>4, <2>1
    <2>5. ListedStorages' = [i \in RowId |-> IF i = k THEN Listed(d) ELSE table[i]]
      BY <1>3, <2>1
    <2> QED BY <2>1, <2>3, <2>4, <2>5
  <1>6. k \in Catalogue!Named(call[r].storage)
    BY <1>1, <1>3, NamedShows DEF StoragesNamed
  <1> QED BY <1>5, <1>6, VolumesUntouched DEF Catalogue!DropsStorage, ListedStorages

LEMMA CommitTakesEffect ==
  ASSUME IInv, EffectInv, NEW r \in Requests, Commits(r)
  PROVE  Catalogue!TakesEffect(r, call[r])
  <1>1. call[r].op \in Ops
    <2>1. LocalFit(r) /\ pc[r] = "commit"
      BY DEF IInv, LocalsFit, Commits
    <2> QED BY <2>1, CallFields DEF LocalFit
  <1>2. call[r].op \in Creations \cup DeleteAlls \cup Resizings
                        \cup {"delete", "createStorage", "updateStorage", "deleteStorage"}
    BY <1>1 DEF Ops, Creations, DeleteAlls, Resizings
  <1> QED
    BY <1>2, CreationShows, DeletionShows, DeleteAllShows, ResizeShows, StorageCreationShows,
       StorageUpdateShows, StorageDropShows DEF Catalogue!TakesEffect

LEMMA CommitServes ==
  ASSUME IInv, EffectInv, NEW r \in Requests, Commits(r)
  PROVE  Catalogue!Serve(r)
  <1>1. PICK answer \in Replies : Answer(r, answer) /\ (answer = "ok" \/ "commitLost" \in Faults)
    BY DEF Commits
  <1>2. pc[r] \in ActiveSteps /\ RoutesFit /\ RequestsTypeOK
    BY DEF Commits, ActiveSteps, InsideSteps, EffectInv, IInv, TypeOK
  <1>3. Catalogue!Waiting(r)
    BY <1>2, ActiveWaits
  <1>4. Catalogue!Answers(r, {"ok"} \cup IF "commitLost" \in Faults THEN Replies \ {"ok"} ELSE {})
    BY <1>1, <1>2, AnswerShows
  <1> QED BY <1>3, <1>4, CommitTakesEffect DEF Catalogue!Serve

(* Every step of a request is its effect, its refusal or a stutter.        *)
LEMMA StepShows ==
  ASSUME IInv, EffectInv, NEW r \in Requests, Step(r)
  PROVE  \/ Catalogue!Serve(r)
         \/ Catalogue!Decline(r)
         \/ UNCHANGED <<Catalogue!catalogue, call, Answered>>
  <1>1. RequestsTypeOK /\ RoutesFit
    BY DEF IInv, TypeOK, EffectInv
  <1>2. CASE Commits(r)
    BY <1>2, CommitServes
  <1>3. CASE Refused(r)
    BY <1>1, <1>3, RefusalDeclines
  <1>4. ASSUME ~Commits(r), ~Refused(r)
        PROVE  UNCHANGED <<Catalogue!catalogue, call, Answered>>
    <2>1. UNCHANGED <<storages, volumes, call>>
      BY <1>1, <1>4, OnlyCommitsShow, StepShape DEF OwnLocals
    <2>2. reply' = reply /\ \E step \in ActiveSteps : MovesTo(r, step)
      BY <1>1, <1>4, StepPlan
      DEF Reads, Charges, InsertsVolume, Marks, Resizes, Resets, InsertsStorage, RewritesStorage, Drops, Go,
          MovesTo, ActiveSteps, InsideSteps
    <2>3. pc[r] \in ActiveSteps
      BY StepShape DEF Quiet, Undone, Committed, Inserted, Marked, Resized, Rewritten,
         ActiveSteps, OutsideSteps, InsideSteps
    <2>4. \A q \in Requests : pc'[q] = "cut" <=> pc[q] = "cut"
      BY <1>1, <2>2, <2>3 DEF MovesTo, RequestsTypeOK, ActiveSteps, OutsideSteps, InsideSteps
    <2> QED BY <2>1, <2>2, <2>4, Unseen
  <1> QED BY <1>2, <1>3, <1>4

-----------------------------------------------------------------------------
(* volume-manager implements the catalogue.                                *)

(* Every request takes effect in one step, the commit, or not at all, and  *)
(* its answer says which, however its statements interleave with those of  *)
(* other requests and wherever it fails.                                   *)
THEOREM CatalogueImplemented == Spec => ImplementsCatalogue
  <1>1. Init => Catalogue!Init
    BY IdsDistinct DEF Init, Catalogue!Init, StoreInit, Listed, RowId
  <1>2. IInv /\ EffectInv /\ [Next]_vars => [Catalogue!Next]_<<Catalogue!catalogue, call, Answered>>
    <2> SUFFICES ASSUME IInv, EffectInv, [Next]_vars
                 PROVE  Catalogue!Next \/ UNCHANGED <<Catalogue!catalogue, call, Answered>>
      OBVIOUS
    <2>1. RoutesFit
      BY DEF EffectInv
    <2>2. CASE UNCHANGED vars
      BY <2>2, Unseen DEF vars, storeVars, requestVars
    <2>3. ASSUME NEW r \in Requests, NEW c \in Calls, Start(r, c)
          PROVE  Catalogue!Next
      BY <2>1, <2>3, StartAsks DEF Catalogue!Next
    <2>4. ASSUME NEW r \in Requests, Step(r)
          PROVE  Catalogue!Next \/ UNCHANGED <<Catalogue!catalogue, call, Answered>>
      BY <2>4, StepShows DEF Catalogue!Next
    <2>5. CASE Crash
      BY <2>1, <2>5, CrashCutsOff DEF Catalogue!Next
    <2> QED BY <2>2, <2>3, <2>4, <2>5 DEF Next, Finished
  <1> QED BY <1>1, <1>2, Inductiveness, EffectInvariant, PTL DEF Spec, ImplementsCatalogue, Catalogue!Spec, Answered
=============================================================================
