----------------------------- MODULE Accounting -----------------------------
(***************************************************************************)
(* What volume-manager promises about space: the "used" counter that every *)
(* creation, resize and deletion moves against the volumes that are there. *)
(***************************************************************************)
EXTENDS Effects, FiniteSetsExt

(* Capacity of the live volumes on a storage.                              *)
ChargedIn(rows, name) == MapThenSumSet(LAMBDA i : rows[i].capacity, LiveVolumesOn(rows, name))

Charged(name) == ChargedIn(volumes, name)

(* The counter of a storage is the capacity of its live volumes, although  *)
(* the hooks move it in statements of their own.                           *)
UsedIsCharged ==
  \A i \in RowId : Live(storages[i]) => storages[i].used = Charged(storages[i].name)

(* Space is never counted less than it is used: the counter of a storage,  *)
(* moved by amounts read earlier and under a name read earlier, covers the *)
(* live volumes on it (for resizes that overlap, if they are to one size). *)
UsedCoversVolumes ==
  \A i \in RowId : Live(storages[i]) => storages[i].used >= Charged(storages[i].name)

(* The live volumes of a storage fit in it.                                *)
NoOversubscription ==
  \A i \in RowId : Live(storages[i]) => Charged(storages[i].name) <= storages[i].size

(* A live volume is on a live storage: DeleteStorage refuses while a       *)
(* volume is there.                                                        *)
LiveOnLiveStorage ==
  \A i \in RowId : Live(volumes[i]) => LiveStoragesNamed(storages, volumes[i].storage) # {}

(* A volume that stays alive never gets smaller.                           *)
CapacityNeverShrinks ==
  [][\A i \in RowId : Live(volumes[i]) /\ Live(volumes'[i])
       => volumes'[i].capacity >= volumes[i].capacity]_vars

(* After a delete-all that answered with success the volumes it is about   *)
(* are gone.                                                               *)
DeleteAllDeletes ==
  [][\A r \in Requests :
       reply[r] # "ok" /\ reply'[r] = "ok" /\ call[r].op \in {"deleteUser", "deleteNs"}
         => ListedVolumes(call[r])' = {}]_vars

-----------------------------------------------------------------------------
(* What the accounts rest on when requests overlap.  A deletion or resize  *)
(* works with what it has read of its volume, a creation with the name of  *)
(* the storage it has picked; the requests that would make this wrong have *)
(* to keep apart from it in time.                                          *)

Handlers == Resizings \cup {"delete"}

Renames(c) == c.op = "updateStorage" /\ NewName(c) # c.storage

(* Nobody asks for a storage of this name.                                 *)
Retired(name) ==
  \A c \in Calls : /\ c.op = "createStorage" => c.storage # name
                   /\ Renames(c) => NewName(c) # name

(* A volume is handled by one request at a time, and not while all volumes *)
(* are deleted or a storage is renamed.                                    *)
VolumesApart ==
  \A r, q \in Active : r # q /\ call[r].op \in Handlers =>
    /\ call[q].op \notin DeleteAlls /\ ~Renames(call[q])
    /\ call[q].op \in Handlers => RequestKey(q) # RequestKey(r)

(* A storage is not deleted while volumes are created or a storage is      *)
(* renamed, and not renamed while volumes are created, unless its name is  *)
(* not used again.                                                         *)
StoragesApart ==
  \A r, q \in Active : r # q =>
    /\ call[r].op = "deleteStorage" => call[q].op \notin Creations /\ ~Renames(call[q])
    /\ call[r].op \in Creations /\ Renames(call[q]) => Retired(call[q].storage)

Apart == VolumesApart /\ StoragesApart

(* The simplest way to keep apart: one request at a time.                  *)
Alone == \A r, q \in Active : r = q

(* The storage a creation has picked is there, or its name is for good not *)
(* that of any storage, and the foreign key will refuse the volume.        *)
Placed(r) ==
  \/ pc[r] \in {"subscribe", "countLabel", "reserve", "insert", "kubeCreate"}
  \/ pc[r] = "begin" /\ call[r].op \in {"create", "directCreate"}
  \/ pc[r] = "commit" /\ call[r].op \in Creations

Gone(name) ==
  /\ Retired(name)
  /\ StoragesNamed(storages, name) = {}
  /\ \A i \in RowId : dirtyStorage[i].tx # NoTx => dirtyStorage[i].row.name # name

KeepsPlace(r) ==
  Placed(r) => LiveStoragesNamed(storages, loc[r].storage) # {} \/ Gone(loc[r].storage)

(* A deletion or resize that has selected its volume.                      *)
Knowing(r) == pc[r] \in ActiveSteps \ {"tariff", "begin", "select"} /\ call[r].op \in Handlers

(* A deletion or resize knows its volume as it is, until it commits.       *)
Handles(r, i) ==
  /\ loc[r].vols = {i}
  /\ Live(volumes[i]) /\ Key(volumes[i]) = RequestKey(r)
  /\ loc[r].storage = volumes[i].storage
  /\ IF call[r].op = "delete" THEN loc[r].capacity = volumes[i].capacity
                              ELSE loc[r].capacity >= volumes[i].capacity
  /\ call[r].op # "delete" /\ pc[r] # "oldCapacity" => loc[r].seen = volumes[i].capacity
  /\ pc[r] = "commit" => dirtyVolume[i].tx = r

KnowsVolume(r) == Knowing(r) => \E i \in RowId : Handles(r, i)

(* A transaction that has moved "used" holds the storage and has moved it  *)
(* by what its volume takes or gives back; no other one touches "used",    *)
(* but for a new or a dropped storage, which has none.                     *)
Move(r) ==
  CASE call[r].op \in Creations -> loc[r].capacity
    [] call[r].op \in Resizings -> loc[r].capacity - loc[r].seen
    [] call[r].op = "delete"    -> -loc[r].capacity
    [] OTHER                    -> 0

ChargesOwn(r) ==
  /\ pc[r] \in ChargedSteps /\ call[r].op \in Creations \cup Handlers =>
       \A i \in RowId : dirtyStorage[i].tx = r <=> i \in StoragesNamed(storages, loc[r].storage)
  /\ \A i \in RowId : dirtyStorage[i].tx = r =>
       dirtyStorage[i].row.used = IF call[r].op = "deleteStorage" \/ storages[i] = NoRow
                                  THEN 0 ELSE storages[i].used + Move(r)

(* The row a transaction has inserted or resized is as it was charged.     *)
WritesCharged(r) ==
  \A i \in RowId : dirtyVolume[i].tx = r /\ call[r].op \in Creations \cup Resizings =>
    /\ dirtyVolume[i].row.capacity = loc[r].capacity
    /\ call[r].op \in Creations => dirtyVolume[i].row.storage = loc[r].storage

(* A storage being dropped has no live volumes.                            *)
DropsEmpty(r) ==
  pc[r] \in {"dropStorage", "commit"} /\ call[r].op = "deleteStorage" =>
    LiveVolumesOn(volumes, call[r].storage) = {}

PlaceInv == \A r \in Requests : KeepsPlace(r) /\ DropsEmpty(r)
KnowledgeInv == \A r \in Requests : KnowsVolume(r)
WritesInv == \A r \in Requests : WritesCharged(r)
ChargeInv == \A r \in Requests : ChargesOwn(r)

ProgressInv == PlaceInv /\ KnowledgeInv /\ WritesInv /\ ChargeInv

(* The accounts of all storages are right, those of deleted ones included, *)
(* as CreateStorage may bring these back.                                  *)
Accounted ==
  \A i \in RowId : storages[i] # NoRow => storages[i].used = Charged(storages[i].name)

-----------------------------------------------------------------------------
(* What is left of this when requests about one volume do overlap: no      *)
(* space is counted less than it is used.                                  *)

(* No storage is renamed next to deletions and resizes, and resizes of one *)
(* volume that overlap are to one size.                                    *)
LooselyApart ==
  \A r, q \in Active : r # q /\ call[r].op \in Handlers =>
    /\ ~Renames(call[q])
    /\ /\ Knowing(r) /\ Knowing(q) /\ RequestKey(r) = RequestKey(q)
       /\ {call[r].op, call[q].op} \subseteq Resizings
       => loc[r].capacity = loc[q].capacity

(* A deletion that kubernetes has carried out is that of a live volume: no *)
(* other one gives the space back as well.                                 *)
DeletesOnce ==
  \A r \in Requests, i \in RowId :
    pc[r] \in {"unsubscribe", "commit"} /\ call[r].op = "delete" /\ dirtyVolume[i].tx = r => Live(volumes[i])

(* What a deletion or resize remembers of its volume errs on one side: it  *)
(* gives back no more, and asks for no less.                               *)
Remembers(r, i) ==
  /\ loc[r].vols = {i}
  /\ volumes[i] # NoRow /\ Key(volumes[i]) = RequestKey(r)
  /\ loc[r].storage = volumes[i].storage
  /\ IF call[r].op = "delete" THEN loc[r].capacity <= volumes[i].capacity
                              ELSE volumes[i].capacity <= loc[r].capacity
  /\ call[r].op # "delete" /\ pc[r] # "oldCapacity" => loc[r].seen <= volumes[i].capacity
  /\ pc[r] = "commit" => dirtyVolume[i].tx = r

RemembersVolume(r) == Knowing(r) => \E i \in RowId : Remembers(r, i)

MemoryInv == \A r \in Requests : RemembersVolume(r)

(* The counter of every storage, deleted or not, covers its live volumes.  *)
Covered ==
  \A i \in RowId : storages[i] # NoRow => storages[i].used >= Charged(storages[i].name)

CoverInv == DeletesOnce /\ PlaceInv /\ MemoryInv /\ WritesInv /\ ChargeInv /\ Covered

-----------------------------------------------------------------------------
(* The room in a storage is looked at before it is taken; while requests   *)
(* come one at a time, it is still there.                                  *)

(* CreateStorage brings no storage back: that sets a size without a look   *)
(* at what is used.                                                        *)
NoResets == \A r \in Requests : pc[r] # "reset"

(* Giving a volume back takes no space.                                    *)
NoNegatives == \A i \in RowId : Live(volumes[i]) => volumes[i].capacity >= 0

FitsIn(s) == s.used <= s.size

Fitting == \A i \in RowId : Live(storages[i]) => FitsIn(storages[i])

(* A creation between the choice of its storage and the reservation.       *)
Choosing(r) ==
  \/ pc[r] \in {"subscribe", "countLabel", "reserve"}
  \/ pc[r] = "begin" /\ call[r].op \in {"create", "directCreate"}

HoldsRoom(r) ==
  /\ Choosing(r) =>
       \A i \in StoragesNamed(storages, loc[r].storage) : HasRoom(storages[i], loc[r].capacity)
  /\ pc[r] = "recharge" =>
       \A i \in StoragesNamed(storages, loc[r].storage) : ResizeFits(storages[i], loc[r].seen, loc[r].capacity)
  /\ pc[r] \in {"countNewName", "writeStorage"} =>
       \A i \in StoragesNamed(storages, call[r].storage) : storages[i].used = loc[r].seen

WritesFit(r) ==
  \A i \in RowId : dirtyStorage[i].tx = r /\ Live(dirtyStorage[i].row) => FitsIn(dirtyStorage[i].row)

RoomInv == Fitting /\ \A r \in Requests : HoldsRoom(r) /\ WritesFit(r)
=============================================================================
