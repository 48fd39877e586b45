------------------------------ MODULE PgStore ------------------------------
(***************************************************************************)
(* The PostgreSQL database of volume-manager: the tables "storages" and    *)
(* "volumes" (pkg/models, pkg/database/postgres/migrations) and the        *)
(* statements that pkg/database/postgres and the ORM hooks of pkg/models   *)
(* send to it.                                                             *)
(*                                                                         *)
(* Isolation is READ COMMITTED, the default the code never changes.  A     *)
(* statement is atomic and sees the committed tables overlaid with its     *)
(* transaction's own writes.  A row written by an open transaction is      *)
(* locked by it: "dirtyStorage" and "dirtyVolume" hold the uncommitted     *)
(* version of each row together with the transaction that owns the lock,   *)
(* and a statement that needs a row of another transaction is not enabled  *)
(* until that transaction commits or rolls back.                           *)
(***************************************************************************)
EXTENDS Integers, FiniteSets

CONSTANTS
  Requests,      \* HTTP requests; each runs at most one transaction
  SeedRows,      \* rows present before the first request
  Namespaces,    \* kubernetes namespaces (ns_id)
  Labels,        \* volume labels
  Owners,        \* user ids
  StorageNames,  \* names a storage may have
  SeedStorages,  \* initial contents of table "storages"
  SeedVolumes,   \* initial contents of table "volumes"
  NoRow,         \* the row does not exist
  NoTx           \* no transaction holds the row

VARIABLES
  storages,      \* committed rows of table "storages"
  volumes,       \* committed rows of table "volumes"
  dirtyStorage,  \* uncommitted version and lock owner of each storage row
  dirtyVolume    \* uncommitted version and lock owner of each volume row

storeVars == <<storages, volumes, dirtyStorage, dirtyVolume>>

(* A row inserted by request r has identity r: the fresh uuid of a volume, *)
(* the place in the table of a storage, whose name may change later.       *)
RowId == Requests \cup SeedRows

StorageRow == [name : StorageNames, size : Int, used : Int, deleted : BOOLEAN]

VolumeRow == [ns : Namespaces, label : Labels, owner : Owners, capacity : Int,
              storage : StorageNames, deleted : BOOLEAN]

Live(row) == row # NoRow /\ ~row.deleted

SameLabel(v, w) == v.ns = w.ns /\ v.label = w.label

(* The constraints the migrations put on the tables hold of the seed rows. *)
ASSUME IdsDistinct ==
  /\ Requests \cap SeedRows = {}
  /\ NoTx \notin Requests
  /\ NoRow \notin StorageRow
  /\ NoRow \notin VolumeRow

ASSUME SeedsTyped ==
  /\ SeedStorages \in [SeedRows -> StorageRow \cup {NoRow}]
  /\ SeedVolumes \in [SeedRows -> VolumeRow \cup {NoRow}]

ASSUME SeedsConsistent ==
  /\ \A i, j \in SeedRows :
       /\ i # j /\ Live(SeedVolumes[i]) /\ Live(SeedVolumes[j])
            => ~SameLabel(SeedVolumes[i], SeedVolumes[j])
       /\ i # j /\ SeedStorages[i] # NoRow /\ SeedStorages[j] # NoRow
            => SeedStorages[i].name # SeedStorages[j].name
  /\ \A i \in SeedRows : SeedVolumes[i] # NoRow =>
       \E j \in SeedRows : SeedStorages[j] # NoRow /\ SeedStorages[j].name = SeedVolumes[i].storage

-----------------------------------------------------------------------------
(* What a transaction sees, and which rows it may write.                   *)

Clean == [tx |-> NoTx, row |-> NoRow]

View(t, table, dirty) ==
  [i \in RowId |-> IF dirty[i].tx = t THEN dirty[i].row ELSE table[i]]

StoragesSeen(t) == View(t, storages, dirtyStorage)
VolumesSeen(t) == View(t, volumes, dirtyVolume)

Unlocked(t, dirty, I) == \A i \in I : dirty[i].tx \in {t, NoTx}

Written(t, dirty, rows) ==
  [i \in RowId |-> IF i \in DOMAIN rows THEN [tx |-> t, row |-> rows[i]] ELSE dirty[i]]

Released(t, dirty) ==
  [i \in RowId |-> IF dirty[i].tx = t THEN Clean ELSE dirty[i]]

-----------------------------------------------------------------------------
(* Queries.                                                                *)

StoragesNamed(rows, name) == {i \in RowId : rows[i] # NoRow /\ rows[i].name = name}

LiveStoragesNamed(rows, name) == {i \in StoragesNamed(rows, name) : ~rows[i].deleted}

(* LeastUsedStorage: ties on "used" are broken by name, here arbitrarily.  *)
LeastUsedStorages(rows, minFree) ==
  LET fitting == {i \in RowId : Live(rows[i]) /\ rows[i].size - rows[i].used >= minFree}
  IN  {i \in fitting : \A j \in fitting : rows[i].used <= rows[j].used}

VolumesLabelled(rows, ns, label) ==
  {i \in RowId : Live(rows[i]) /\ rows[i].ns = ns /\ rows[i].label = label}

VolumesOfUser(rows, owner) == {i \in RowId : Live(rows[i]) /\ rows[i].owner = owner}

VolumesOfNamespace(rows, ns) == {i \in RowId : Live(rows[i]) /\ rows[i].ns = ns}

LiveVolumesOn(rows, name) == {i \in RowId : Live(rows[i]) /\ rows[i].storage = name}

-----------------------------------------------------------------------------
(* Constraints: the partial unique index on (ns_id, label) of live rows,   *)
(* the primary key of "storages", the deferred foreign key.  An insert     *)
(* that meets an undecided row of another transaction waits for it.        *)

(* Mutant: no unique index.                                                *)
MutantNoIndex(t, v) == FALSE

LabelUndecided(t, v) ==
  \E i \in RowId : /\ dirtyVolume[i].tx \notin {t, NoTx}
                   /\ \/ Live(volumes[i]) /\ SameLabel(volumes[i], v)
                      \/ Live(dirtyVolume[i].row) /\ SameLabel(dirtyVolume[i].row, v)

LabelTaken(t, v) ==
  \E i \in RowId : Live(VolumesSeen(t)[i]) /\ SameLabel(VolumesSeen(t)[i], v)

NameUndecided(t, name) ==
  \E i \in RowId : /\ dirtyStorage[i].tx \notin {t, NoTx}
                   /\ \/ storages[i] # NoRow /\ storages[i].name = name
                      \/ dirtyStorage[i].row # NoRow /\ dirtyStorage[i].row.name = name

(* Mutant: no primary key on the name of a storage.                        *)
MutantNoPrimaryKey(t, name, I) == FALSE

NameTaken(t, name, I) == StoragesNamed(StoragesSeen(t), name) \ I # {}

(* Volume rows of t whose reference is new and is checked at commit.       *)
NewReferences(t) ==
  {i \in RowId : /\ dirtyVolume[i].tx = t
                 /\ volumes[i] # NoRow => volumes[i].storage # dirtyVolume[i].row.storage}

(* The key of a storage row is being changed by another transaction.       *)
ReferenceUndecided(t) ==
  \E i \in NewReferences(t), j \in RowId :
    /\ storages[j] # NoRow /\ storages[j].name = dirtyVolume[i].row.storage
    /\ dirtyStorage[j].tx \notin {t, NoTx}
    /\ dirtyStorage[j].row.name # storages[j].name

(* Mutant: no foreign key.                                                 *)
MutantNoForeignKey(t) == TRUE

ReferencesExist(t) ==
  \A i \in NewReferences(t) :
    StoragesNamed(StoragesSeen(t), dirtyVolume[i].row.storage) # {}

-----------------------------------------------------------------------------
(* Statements that write.  Each names the rows it needs; they are locked   *)
(* until the end of the transaction.                                       *)

WriteStorages(t, rows) ==
  /\ dirtyStorage' = Written(t, dirtyStorage, rows)
  /\ UNCHANGED <<storages, volumes>>

WriteVolumes(t, rows) ==
  /\ dirtyVolume' = Written(t, dirtyVolume, rows)
  /\ UNCHANGED <<storages, volumes>>

(* UPDATE storages SET used = used + delta WHERE name: the row count is    *)
(* not looked at, so a name that matches nothing changes nothing.          *)
AddUsed(t, name, delta) ==
  LET S == StoragesSeen(t)
      I == StoragesNamed(S, name)
  IN  /\ Unlocked(t, dirtyStorage, I)
      /\ WriteStorages(t, [i \in I |-> [S[i] EXCEPT !.used = @ + delta]])
      /\ UNCHANGED dirtyVolume

ResetStorageRow(t, name, size) ==
  LET S == StoragesSeen(t)
      I == StoragesNamed(S, name)
  IN  /\ Unlocked(t, dirtyStorage, I)
      /\ WriteStorages(t, [i \in I |-> [S[i] EXCEPT !.size = size, !.deleted = FALSE]])
      /\ UNCHANGED dirtyVolume

DropStorageRow(t, I) ==
  /\ WriteStorages(t, [i \in I |-> [StoragesSeen(t)[i] EXCEPT !.deleted = TRUE, !.used = 0]])
  /\ UNCHANGED dirtyVolume

InsertStorageRow(t, name, size) ==
  /\ WriteStorages(t, [i \in {t} |->
       [name |-> name, size |-> size, used |-> 0, deleted |-> FALSE]])
  /\ UNCHANGED dirtyVolume

(* Mutant: the foreign key does not cascade.                               *)
MutantNoCascade(t, name, newName) == {}

(* The volume rows the statement's ON UPDATE CASCADE reaches.              *)
Cascade(t, name, newName) ==
  {i \in RowId : /\ name # newName
                 /\ VolumesSeen(t)[i] # NoRow
                 /\ VolumesSeen(t)[i].storage = name}

RewriteStorageRow(t, I, name, newName, size) ==
  /\ dirtyStorage' = Written(t, dirtyStorage,
       [i \in I |-> [StoragesSeen(t)[i] EXCEPT !.name = newName, !.size = size]])
  /\ dirtyVolume' = Written(t, dirtyVolume,
       [i \in Cascade(t, name, newName) |-> [VolumesSeen(t)[i] EXCEPT !.storage = newName]])
  /\ UNCHANGED <<storages, volumes>>

InsertVolumeRow(t, v) ==
  /\ WriteVolumes(t, [i \in {t} |-> v])
  /\ UNCHANGED dirtyStorage

MarkVolumesDeleted(t, I) ==
  /\ Unlocked(t, dirtyVolume, I)
  /\ WriteVolumes(t, [i \in I |-> [VolumesSeen(t)[i] EXCEPT !.deleted = TRUE]])
  /\ UNCHANGED dirtyStorage

(* Mutant: the update writes every column of the row it was given, which   *)
(* was read while the volume was live.                                     *)
MutantWriteWholeRow(t, i, capacity) ==
  /\ Unlocked(t, dirtyVolume, {i})
  /\ WriteVolumes(t, [k \in {i} |-> [VolumesSeen(t)[k] EXCEPT !.capacity = capacity,
                                                              !.deleted = FALSE]])
  /\ UNCHANGED dirtyStorage

SetVolumeCapacity(t, i, capacity) ==
  /\ Unlocked(t, dirtyVolume, {i})
  /\ WriteVolumes(t, [k \in {i} |-> [VolumesSeen(t)[k] EXCEPT !.capacity = capacity]])
  /\ UNCHANGED dirtyStorage

-----------------------------------------------------------------------------
(* The end of a transaction.                                               *)

CommitTx(t) ==
  /\ storages' = StoragesSeen(t)
  /\ volumes' = VolumesSeen(t)
  /\ dirtyStorage' = Released(t, dirtyStorage)
  /\ dirtyVolume' = Released(t, dirtyVolume)

RollbackTx(t) ==
  /\ dirtyStorage' = Released(t, dirtyStorage)
  /\ dirtyVolume' = Released(t, dirtyVolume)
  /\ UNCHANGED <<storages, volumes>>

RollbackAll ==
  /\ dirtyStorage' = [i \in RowId |-> Clean]
  /\ dirtyVolume' = [i \in RowId |-> Clean]
  /\ UNCHANGED <<storages, volumes>>

StoreInit ==
  /\ storages = [i \in RowId |-> IF i \in SeedRows THEN SeedStorages[i] ELSE NoRow]
  /\ volumes = [i \in RowId |-> IF i \in SeedRows THEN SeedVolumes[i] ELSE NoRow]
  /\ dirtyStorage = [i \in RowId |-> Clean]
  /\ dirtyVolume = [i \in RowId |-> Clean]

StoreTypeOK ==
  /\ storages \in [RowId -> StorageRow \cup {NoRow}]
  /\ volumes \in [RowId -> VolumeRow \cup {NoRow}]
  /\ dirtyStorage \in [RowId -> [tx : Requests \cup {NoTx}, row : StorageRow \cup {NoRow}]]
  /\ dirtyVolume \in [RowId -> [tx : Requests \cup {NoTx}, row : VolumeRow \cup {NoRow}]]
=============================================================================
