------------------------------ MODULE Promises ------------------------------
(***************************************************************************)
(* What volume-manager promises about its rows, its subscriptions and its  *)
(* answers, whatever requests run at the same time and whatever fails.     *)
(***************************************************************************)
EXTENDS VolumeManager

(* A namespace never holds two live volumes with one label: the count in   *)
(* Volume.BeforeInsert is not serialised, the partial unique index of      *)
(* migration 2 decides between concurrent creations.                       *)
UniqueLiveLabels ==
  \A i, j \in RowId :
    i # j /\ Live(volumes[i]) /\ Live(volumes[j]) => ~SameLabel(volumes[i], volumes[j])

(* Two storages never share a name, a deleted one included: CreateStorage  *)
(* and UpdateStorage count the name and write it in separate statements.   *)
UniqueStorageNames ==
  \A i, j \in RowId :
    i # j /\ storages[i] # NoRow /\ storages[j] # NoRow => storages[i].name # storages[j].name

(* Every volume row names a storage row, across renames of the storage by  *)
(* UpdateStorage while volumes are being created on it.                    *)
ForeignKey ==
  \A i \in RowId : volumes[i] # NoRow => StoragesNamed(storages, volumes[i].storage) # {}

(* A volume row is never lost, never changes its namespace, label or       *)
(* owner, and once deleted stays deleted, although a resize may still      *)
(* write a row that a deletion committed after the resize had read it.     *)
DeletedForGood ==
  [][\A i \in RowId : volumes[i] # NoRow =>
       /\ volumes'[i] # NoRow
       /\ SameLabel(volumes[i], volumes'[i])
       /\ volumes'[i].owner = volumes[i].owner
       /\ volumes[i].deleted => volumes'[i].deleted]_vars

(* Billing does not charge for a volume the database records as deleted:   *)
(* every deletion unsubscribes inside its transaction, before the commit.  *)
NoBillingAfterDelete ==
  \A i \in RowId : volumes[i] # NoRow /\ volumes[i].deleted => i \notin subs

Paid(c) == c.op = "create" /\ c.tariff # FreeTariff

BeingDeleted(i) == dirtyVolume[i].tx # NoTx /\ dirtyVolume[i].row.deleted

(* A live volume created with a tariff is charged for, unless a deletion   *)
(* that has already unsubscribed it is about to commit.                    *)
PaidVolumeIsBilled ==
  \A r \in Requests :
    call[r] # NoCall /\ Paid(call[r]) /\ Live(volumes[r]) /\ ~BeingDeleted(r) => r \in subs

Listed(row) ==
  IF row = NoRow THEN NoRow ELSE [name |-> row.name, size |-> row.size, deleted |-> row.deleted]

ASSUME ListedDistinct == NoRow \notin [name : StorageNames, size : Int, deleted : BOOLEAN]

(* The catalogue behind the store: committed rows without "used".          *)
Catalogue == INSTANCE VolumeCatalog WITH
  Rows <- RowId,
  Errors <- Replies \ {"ok"},
  MayLoseAnswers <- "commitLost" \in Faults,
  storages <- [i \in RowId |-> Listed(storages[i])],
  asked <- call,
  answer <- [r \in Requests |-> IF pc[r] = "cut" THEN "cut" ELSE reply[r]]

(* Every request takes effect in one step, the commit, or not at all, and  *)
(* its answer says which, however its statements interleave with those of  *)
(* other requests and wherever it fails.                                   *)
ImplementsCatalogue == Catalogue!Spec

(* Every request in progress is eventually answered: transactions do not   *)
(* wait for each other in a circle, neither on rows nor on connections.    *)
EveryRequestAnswered ==
  \A r \in Requests : pc[r] \in ActiveSteps ~> pc[r] = "done"
=============================================================================
