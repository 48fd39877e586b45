--------------------------- MODULE VolumeManager ---------------------------
(***************************************************************************)
(* The server of volume-manager (pkg/server): every HTTP request that      *)
(* changes something runs as a process of its own, one step per statement  *)
(* it sends to the database (pkg/database/postgres, the hooks of           *)
(* pkg/models) and per call it makes to kubernetes and billing.  Steps of  *)
(* concurrent requests interleave; between two of its steps a request      *)
(* keeps what it has read in its local state, however stale it becomes.    *)
(***************************************************************************)
EXTENDS Services

CONSTANTS
  Calls,      \* the requests clients may send
  NoCall,     \* the request has not been sent
  NoName,     \* an optional name or owner left out
  NoSize,     \* an optional size left out
  ZeroUUID,   \* owner of an imported volume that names none
  MaxActive,  \* bound: requests in progress at one time
  PoolSize    \* connections of the database pool

VARIABLES
  call,       \* what each request asks
  pc,         \* the next step of each request
  loc,        \* the local variables of each request
  reply       \* the answer of each request

requestVars == <<call, pc, loc, reply>>
vars == <<storeVars, serviceVars, requestVars>>

Ops == {"directCreate", "create", "import", "delete", "deleteUser", "deleteNs",
        "adminResize", "resize", "createStorage", "updateStorage", "deleteStorage"}

(* "storage" is the storage the request names, "name" and "capacity" the   *)
(* new name and size of an update; a field an operation ignores is blank.  *)
CallType == [op : Ops, ns : Namespaces, label : Labels, owner : Owners \cup {NoName},
             storage : StorageNames \cup {NoName}, name : StorageNames \cup {NoName},
             capacity : Int \cup {NoSize}, tariff : Tariffs \cup {FreeTariff},
             admin : BOOLEAN]

(* Steps outside a transaction, then steps that hold a connection.         *)
OutsideSteps == {"tariff", "pick", "subscribe", "begin"}

InsideSteps ==
  {"countLabel", "reserve", "insert", "kubeCreate",
   "select", "release", "mark", "kubeDelete", "unsubscribe",
   "oldCapacity", "fit", "recharge", "setCapacity", "kubeUpdate",
   "list", "markAll", "unsubscribeAll",
   "countName", "reset", "countNameAgain", "insertStorage",
   "findStorage", "countNewName", "writeStorage", "countVolumes", "dropStorage",
   "commit"}

ServiceSteps == {"kubeCreate", "kubeDelete", "kubeUpdate", "unsubscribe", "unsubscribeAll"}

ActiveSteps == OutsideSteps \cup InsideSteps

Replies == {"ok", "exists", "notExists", "noFree", "quota", "downResize",
            "hasVolumes", "denied", "internal", "kube", "billing"}

(* storage, capacity: of the volume or storage at hand, as read or as to   *)
(* be written; seen: a capacity or a "used" read earlier; vols: the rows   *)
(* the request is about.                                                   *)
LocType == [storage : StorageNames \cup {NoName}, capacity : Int, seen : Int,
            vols : SUBSET RowId]

Blank == [storage |-> NoName, capacity |-> 0, seen |-> 0, vols |-> {}]

ASSUME CallsTyped == /\ Calls \subseteq CallType
                     /\ NoCall \notin CallType
                     /\ ZeroUUID \in Owners
                     /\ MaxActive \in Nat
                     /\ PoolSize \in Nat

(* What the bindings of the request types require of a body.               *)
ASSUME CallsBound ==
  \A c \in Calls :
    /\ c.op \in {"directCreate", "import", "adminResize", "createStorage"} => c.capacity \in Int
    /\ c.op \in {"directCreate", "createStorage", "updateStorage", "deleteStorage"}
         => c.storage \in StorageNames
    /\ c.op \in {"directCreate", "create", "deleteUser"} => c.owner \in Owners

-----------------------------------------------------------------------------
(* Moves of one request.                                                   *)

Go(r, step) ==
  /\ pc' = [pc EXCEPT ![r] = step]
  /\ UNCHANGED <<call, loc, reply>>

GoWith(r, step, l) ==
  /\ pc' = [pc EXCEPT ![r] = step]
  /\ loc' = [loc EXCEPT ![r] = l]
  /\ UNCHANGED <<call, reply>>

Answer(r, answer) ==
  /\ pc' = [pc EXCEPT ![r] = "done"]
  /\ loc' = [loc EXCEPT ![r] = Blank]
  /\ reply' = [reply EXCEPT ![r] = answer]
  /\ UNCHANGED call

(* Mutant: the transaction is committed whatever the function returns.     *)
MutantCommitOnError(r, answer) == CommitTx(r) /\ Answer(r, answer)

(* An error returned from the function given to Transactional rolls the    *)
(* transaction back; outside a transaction there is nothing to roll back.  *)
Refuse(r, answer) == RollbackTx(r) /\ Answer(r, answer)

Active == {r \in Requests : pc[r] \in ActiveSteps}

(* A transaction keeps its connection until it ends.                       *)
HasConnection == Cardinality({r \in Requests : pc[r] \in InsideSteps}) < PoolSize

FirstStep(c) ==
  CASE c.op \in {"create", "resize"} -> "tariff"
    [] c.op = "directCreate"         -> "pick"
    [] OTHER                         -> "begin"

FirstInside(c) ==
  CASE c.op \in {"create", "directCreate"}                     -> "countLabel"
    [] c.op \in {"import", "updateStorage", "deleteStorage"}   -> "findStorage"
    [] c.op \in {"delete", "adminResize", "resize"}            -> "select"
    [] c.op \in {"deleteUser", "deleteNs"}                     -> "list"
    [] OTHER                                                   -> "countName"

Start(r, c) ==
  /\ pc[r] = "idle"
  /\ Cardinality(Active) < MaxActive
  /\ call' = [call EXCEPT ![r] = c]
  /\ pc' = [pc EXCEPT ![r] = FirstStep(c)]
  /\ loc' = [loc EXCEPT ![r] = [Blank EXCEPT !.capacity = IF c.op = "directCreate" THEN c.capacity ELSE 0]]
  /\ UNCHANGED <<reply, storeVars, serviceVars>>

-----------------------------------------------------------------------------
(* Before the transaction: the tariff, the storage, the subscription.      *)

TariffAllowed(tariff, admin) == tariff.active /\ (admin \/ tariff.public)

FetchTariff(r) ==
  /\ pc[r] = "tariff"
  /\ UNCHANGED serviceVars
  /\ \/ \E tariff \in TariffAnswers(call[r].ns, call[r].tariff) :
          \/ /\ ~TariffAllowed(tariff, call[r].admin)
             /\ Refuse(r, "denied")
          \/ /\ TariffAllowed(tariff, call[r].admin)
             /\ GoWith(r, IF call[r].op = "create" THEN "pick" ELSE "begin",
                       [loc[r] EXCEPT !.capacity = tariff.limit])
             /\ UNCHANGED storeVars
     \/ /\ Faults \cap {"billing", "lost"} # {}
        /\ Refuse(r, "billing")

(* The storage a new volume goes to, read outside any transaction.         *)
Candidates(c, size) ==
  IF c.storage # NoName THEN LiveStoragesNamed(storages, c.storage)
                        ELSE LeastUsedStorages(storages, size)

(* Mutant: any free space is enough.                                       *)
MutantAnyRoom(storage, size) == storage.size - storage.used > 0

HasRoom(storage, size) == storage.size - storage.used - size >= 0

PickStorage(r) ==
  LET c == call[r]
      size == loc[r].capacity
  IN  /\ pc[r] = "pick"
      /\ HasConnection
      /\ UNCHANGED serviceVars
      /\ \/ /\ Candidates(c, size) = {}
            /\ Refuse(r, IF c.storage # NoName THEN "notExists" ELSE "noFree")
         \/ /\ Candidates(c, size) # {}
            /\ c.op = "create" /\ size = 0
            /\ Refuse(r, "quota")
         \/ \E i \in Candidates(c, size) :
              /\ c.op = "create" => size # 0
              /\ \/ /\ ~HasRoom(storages[i], size)
                    /\ Refuse(r, "noFree")
                 \/ /\ HasRoom(storages[i], size)
                    /\ GoWith(r, IF c.op = "create" /\ c.tariff # FreeTariff THEN "subscribe" ELSE "begin",
                              [loc[r] EXCEPT !.storage = storages[i].name])
                    /\ UNCHANGED storeVars

(* Mutant: the error of Subscribe is dropped.                              *)
MutantSubscribeUnchecked(r) ==
  /\ pc[r] = "subscribe"
  /\ UNCHANGED <<kube, storeVars>>
  /\ \E o \in Outcomes("billing", TRUE) : subs' = IF o.done THEN subs \cup {r} ELSE subs
  /\ Go(r, "begin")

Subscribe(r) ==
  /\ pc[r] = "subscribe"
  /\ UNCHANGED kube
  /\ \E o \in Outcomes("billing", TRUE) :
       /\ subs' = IF o.done THEN subs \cup {r} ELSE subs
       /\ \/ o.ok /\ Go(r, "begin") /\ UNCHANGED storeVars
          \/ ~o.ok /\ Refuse(r, "billing")

Begin(r) ==
  /\ pc[r] = "begin"
  /\ HasConnection
  /\ Go(r, FirstInside(call[r]))
  /\ UNCHANGED <<storeVars, serviceVars>>

-----------------------------------------------------------------------------
(* tx.CreateVolume: BeforeInsert counts the label and reserves the space,  *)
(* then the row is inserted; the volume is then created in kubernetes.     *)

(* Mutant: the owner of an import is not defaulted.                        *)
MutantNoOwnerDefault(r) ==
  [ns |-> call[r].ns, label |-> call[r].label, owner |-> call[r].owner,
   capacity |-> loc[r].capacity, storage |-> loc[r].storage, deleted |-> FALSE]

NewVolume(r) ==
  [ns |-> call[r].ns, label |-> call[r].label,
   owner |-> IF call[r].owner = NoName THEN ZeroUUID ELSE call[r].owner,
   capacity |-> loc[r].capacity, storage |-> loc[r].storage, deleted |-> FALSE]

CountLabel(r) ==
  /\ pc[r] = "countLabel"
  /\ UNCHANGED serviceVars
  /\ \/ /\ VolumesLabelled(VolumesSeen(r), call[r].ns, call[r].label) # {}
        /\ Refuse(r, "exists")
     \/ /\ VolumesLabelled(VolumesSeen(r), call[r].ns, call[r].label) = {}
        /\ Go(r, "reserve")
        /\ UNCHANGED storeVars

(* Mutant: an import reserves no space.                                    *)
MutantFreeImport(r) ==
  /\ pc[r] = "reserve"
  /\ IF call[r].op = "import" THEN UNCHANGED storeVars ELSE AddUsed(r, loc[r].storage, loc[r].capacity)
  /\ Go(r, "insert")
  /\ UNCHANGED serviceVars

ReserveSpace(r) ==
  /\ pc[r] = "reserve"
  /\ AddUsed(r, loc[r].storage, loc[r].capacity)
  /\ Go(r, "insert")
  /\ UNCHANGED serviceVars

InsertVolume(r) ==
  /\ pc[r] = "insert"
  /\ ~LabelUndecided(r, NewVolume(r))
  /\ UNCHANGED serviceVars
  /\ \/ /\ LabelTaken(r, NewVolume(r))
        /\ Refuse(r, "internal")
     \/ /\ ~LabelTaken(r, NewVolume(r))
        /\ InsertVolumeRow(r, NewVolume(r))
        /\ Go(r, IF call[r].op = "import" THEN "commit" ELSE "kubeCreate")

(* Mutant: the error of the call is dropped.                               *)
MutantKubeUnchecked(r, key, accepted, capacity, next) ==
  /\ UNCHANGED <<subs, storeVars>>
  /\ \E o \in Outcomes("kube", accepted) :
       IF o.done THEN KubePut(key, capacity) ELSE UNCHANGED kube
  /\ Go(r, next)

(* One call to kubernetes about the volume "key", which leaves "capacity"  *)
(* there when it takes effect.                                             *)
CallKube(r, key, accepted, capacity, next) ==
  /\ UNCHANGED subs
  /\ \E o \in Outcomes("kube", accepted) :
       /\ IF o.done THEN KubePut(key, capacity) ELSE UNCHANGED kube
       /\ \/ o.ok /\ Go(r, next) /\ UNCHANGED storeVars
          \/ ~o.ok /\ Refuse(r, "kube")

RequestKey(r) == <<call[r].ns, call[r].label>>

CreateInKube(r) ==
  /\ pc[r] = "kubeCreate"
  /\ CallKube(r, RequestKey(r), kube[RequestKey(r)] = NoRow, loc[r].capacity, "commit")

-----------------------------------------------------------------------------
(* DeleteVolume and the resizes read the volume first.                     *)

(* Mutant: the new capacity is not compared with the old one.              *)
MutantDownResize(capacity, v) == FALSE

TooSmall(capacity, v) == capacity < v.capacity

SelectVolume(r) ==
  LET found == VolumesLabelled(VolumesSeen(r), call[r].ns, call[r].label)
  IN  /\ pc[r] = "select"
      /\ UNCHANGED serviceVars
      /\ \/ /\ found = {}
            /\ Refuse(r, "notExists")
         \/ \E i \in found :
              LET v == VolumesSeen(r)[i]
                  wanted == IF call[r].op = "adminResize" THEN call[r].capacity ELSE loc[r].capacity
              IN  \/ /\ call[r].op = "delete"
                     /\ GoWith(r, "release", [loc[r] EXCEPT !.vols = {i}, !.storage = v.storage,
                                                            !.capacity = v.capacity])
                     /\ UNCHANGED storeVars
                  \/ /\ call[r].op # "delete"
                     /\ TooSmall(wanted, v)
                     /\ Refuse(r, "downResize")
                  \/ /\ call[r].op # "delete"
                     /\ ~TooSmall(wanted, v)
                     /\ GoWith(r, "oldCapacity", [loc[r] EXCEPT !.vols = {i}, !.storage = v.storage,
                                                                !.capacity = wanted])
                     /\ UNCHANGED storeVars

(* DeleteVolume: BeforeUpdate gives the space back, the row is marked, the *)
(* volume is removed from kubernetes and from billing.                     *)
ReleaseSpace(r) ==
  /\ pc[r] = "release"
  /\ AddUsed(r, loc[r].storage, -loc[r].capacity)
  /\ Go(r, "mark")
  /\ UNCHANGED serviceVars

MarkDeleted(r) ==
  /\ pc[r] = "mark"
  /\ MarkVolumesDeleted(r, loc[r].vols)
  /\ Go(r, "kubeDelete")
  /\ UNCHANGED serviceVars

(* Mutant: the volume is not unsubscribed.                                 *)
MutantKeepSubscription(r) ==
  /\ pc[r] = "kubeDelete"
  /\ CallKube(r, RequestKey(r), kube[RequestKey(r)] # NoRow, NoRow, "commit")

DeleteFromKube(r) ==
  /\ pc[r] = "kubeDelete"
  /\ CallKube(r, RequestKey(r), kube[RequestKey(r)] # NoRow, NoRow, "unsubscribe")

(* Mutant: the error of the call is dropped.                               *)
MutantUnsubscribeUnchecked(r, ids) ==
  /\ UNCHANGED <<kube, storeVars>>
  /\ \E o \in Outcomes("billing", ids \subseteq subs \/ "unknown" \notin Faults) :
       subs' = IF o.done THEN subs \ ids ELSE subs
  /\ Go(r, "commit")

(* Unsubscribe of one volume, MassiveUnsubscribe of several; no call is    *)
(* made for none.                                                          *)
CallUnsubscribe(r, ids) ==
  /\ UNCHANGED kube
  /\ \/ /\ ids = {}
        /\ Go(r, "commit")
        /\ UNCHANGED <<subs, storeVars>>
     \/ /\ ids # {}
        /\ \E o \in Outcomes("billing", ids \subseteq subs \/ "unknown" \notin Faults) :
             /\ subs' = IF o.done THEN subs \ ids ELSE subs
             /\ \/ o.ok /\ Go(r, "commit") /\ UNCHANGED storeVars
                \/ ~o.ok /\ Refuse(r, "billing")

Unsubscribe(r) ==
  /\ pc[r] = "unsubscribe"
  /\ CallUnsubscribe(r, loc[r].vols)

-----------------------------------------------------------------------------
(* UpdateVolume of the resizes: BeforeUpdate reads the old capacity, checks *)
(* the storage and moves "used", then the row and kubernetes are updated.  *)

TheVolume(r) == CHOOSE i \in loc[r].vols : TRUE

ReadOldCapacity(r) ==
  /\ pc[r] = "oldCapacity"
  /\ GoWith(r, "fit", [loc[r] EXCEPT !.seen = VolumesSeen(r)[TheVolume(r)].capacity])
  /\ UNCHANGED <<storeVars, serviceVars>>

ResizeFits(storage, old, new) == storage.used - old + new <= storage.size

CheckFit(r) ==
  LET found == StoragesNamed(StoragesSeen(r), loc[r].storage)
  IN  /\ pc[r] = "fit"
      /\ UNCHANGED serviceVars
      /\ \/ /\ found = {}
            /\ Refuse(r, "internal")
         \/ \E i \in found :
              \/ /\ ~ResizeFits(StoragesSeen(r)[i], loc[r].seen, loc[r].capacity)
                 /\ Refuse(r, "noFree")
              \/ /\ ResizeFits(StoragesSeen(r)[i], loc[r].seen, loc[r].capacity)
                 /\ Go(r, "recharge")
                 /\ UNCHANGED storeVars

(* Mutant: the old capacity is not given back.                             *)
MutantRechargeAll(r) ==
  /\ pc[r] = "recharge"
  /\ AddUsed(r, loc[r].storage, loc[r].capacity)
  /\ Go(r, "setCapacity")
  /\ UNCHANGED serviceVars

(* Mutant: the old and the new capacity are swapped.                       *)
MutantRechargeSwapped(r) ==
  /\ pc[r] = "recharge"
  /\ AddUsed(r, loc[r].storage, loc[r].seen - loc[r].capacity)
  /\ Go(r, "setCapacity")
  /\ UNCHANGED serviceVars

Recharge(r) ==
  /\ pc[r] = "recharge"
  /\ AddUsed(r, loc[r].storage, loc[r].capacity - loc[r].seen)
  /\ Go(r, "setCapacity")
  /\ UNCHANGED serviceVars

SetCapacity(r) ==
  /\ pc[r] = "setCapacity"
  /\ SetVolumeCapacity(r, TheVolume(r), loc[r].capacity)
  /\ Go(r, "kubeUpdate")
  /\ UNCHANGED serviceVars

UpdateInKube(r) ==
  /\ pc[r] = "kubeUpdate"
  /\ CallKube(r, RequestKey(r), kube[RequestKey(r)] # NoRow, loc[r].capacity, "commit")

-----------------------------------------------------------------------------
(* DeleteAllUserVolumes, DeleteAllNamespaceVolumes: the list is read with  *)
(* s.db, a second connection, while tx holds the first.  An error of that  *)
(* read comes with an empty list, which ends the function with nil.        *)

ListedVolumes(c) ==
  IF c.op = "deleteUser" THEN VolumesOfUser(volumes, c.owner)
                         ELSE VolumesOfNamespace(volumes, c.ns)

ListVolumes(r) ==
  /\ pc[r] = "list"
  /\ HasConnection
  /\ GoWith(r, "markAll", [loc[r] EXCEPT !.vols = ListedVolumes(call[r])])
  /\ UNCHANGED <<storeVars, serviceVars>>

(* Mutant: the list is tried again while the transaction stays open.       *)
MutantListRetried(r) ==
  /\ pc[r] = "list"
  /\ \/ "db" \in Faults
     \/ ~HasConnection
  /\ Go(r, "list")
  /\ UNCHANGED <<storeVars, serviceVars>>

ListFails(r) ==
  /\ pc[r] = "list"
  /\ \/ "db" \in Faults
     \/ ~HasConnection
  /\ Go(r, "commit")
  /\ UNCHANGED <<storeVars, serviceVars>>

(* The update names no loaded volume: no hook runs, "used" stays as it is. *)
MarkAllDeleted(r) ==
  /\ pc[r] = "markAll"
  /\ MarkVolumesDeleted(r, loc[r].vols)
  /\ Go(r, "unsubscribeAll")
  /\ UNCHANGED serviceVars

UnsubscribeAll(r) ==
  /\ pc[r] = "unsubscribeAll"
  /\ CallUnsubscribe(r, loc[r].vols)

-----------------------------------------------------------------------------
(* CreateStorage: a known name is reset, another one is inserted, after    *)
(* the hook has counted the name again.                                    *)

CountName(r) ==
  /\ pc[r] = "countName"
  /\ Go(r, IF StoragesNamed(StoragesSeen(r), call[r].storage) # {} THEN "reset" ELSE "countNameAgain")
  /\ UNCHANGED <<storeVars, serviceVars>>

ResetStorage(r) ==
  /\ pc[r] = "reset"
  /\ ResetStorageRow(r, call[r].storage, call[r].capacity)
  /\ Go(r, "commit")
  /\ UNCHANGED serviceVars

CountNameAgain(r) ==
  /\ pc[r] = "countNameAgain"
  /\ UNCHANGED serviceVars
  /\ \/ /\ StoragesNamed(StoragesSeen(r), call[r].storage) # {}
        /\ Refuse(r, "exists")
     \/ /\ StoragesNamed(StoragesSeen(r), call[r].storage) = {}
        /\ Go(r, "insertStorage")
        /\ UNCHANGED storeVars

InsertStorage(r) ==
  /\ pc[r] = "insertStorage"
  /\ ~NameUndecided(r, call[r].storage)
  /\ UNCHANGED serviceVars
  /\ \/ /\ NameTaken(r, call[r].storage, {})
        /\ Refuse(r, "internal")
     \/ /\ ~NameTaken(r, call[r].storage, {})
        /\ InsertStorageRow(r, call[r].storage, call[r].capacity)
        /\ Go(r, "commit")

-----------------------------------------------------------------------------
(* StorageByName inside a transaction, for an import, an update and a      *)
(* deletion of a storage.                                                  *)

FindStorage(r) ==
  LET c == call[r]
      found == LiveStoragesNamed(StoragesSeen(r), c.storage)
  IN  /\ pc[r] = "findStorage"
      /\ UNCHANGED serviceVars
      /\ \/ /\ found = {}
            /\ Refuse(r, "notExists")
         \/ \E i \in found :
              LET s == StoragesSeen(r)[i]
              IN  /\ UNCHANGED storeVars
                  /\ CASE c.op = "import" ->
                            GoWith(r, "countLabel", [loc[r] EXCEPT !.storage = s.name,
                                                                   !.capacity = c.capacity])
                       [] c.op = "updateStorage" ->
                            GoWith(r, IF c.name \notin {NoName, s.name} THEN "countNewName" ELSE "writeStorage",
                                   [loc[r] EXCEPT !.storage = IF c.name # NoName THEN c.name ELSE s.name,
                                                  !.capacity = IF c.capacity # NoSize THEN c.capacity ELSE s.size,
                                                  !.seen = s.used])
                       [] OTHER ->   \* deleteStorage
                            GoWith(r, "countVolumes", [loc[r] EXCEPT !.storage = s.name,
                                                                     !.capacity = s.size,
                                                                     !.seen = s.used])

(* UpdateStorage: the new name must be unused, deleted storages included.  *)
CountNewName(r) ==
  /\ pc[r] = "countNewName"
  /\ UNCHANGED serviceVars
  /\ \/ /\ StoragesNamed(StoragesSeen(r), loc[r].storage) # {}
        /\ Refuse(r, "exists")
     \/ /\ StoragesNamed(StoragesSeen(r), loc[r].storage) = {}
        /\ Go(r, "writeStorage")
        /\ UNCHANGED storeVars

(* Mutant: the new size is not compared with what is used.                 *)
MutantNoQuota(size, used) == FALSE

(* The hook compares the new size with "used" as it was read.              *)
QuotaExceeded(size, used) == size < used

WriteStorage(r) ==
  LET I == StoragesNamed(StoragesSeen(r), call[r].storage)
  IN  /\ pc[r] = "writeStorage"
      /\ UNCHANGED serviceVars
      /\ \/ /\ QuotaExceeded(loc[r].capacity, loc[r].seen)
            /\ Refuse(r, "quota")
         \/ /\ ~QuotaExceeded(loc[r].capacity, loc[r].seen)
            /\ I = {}
            /\ Refuse(r, "notExists")
         \/ /\ ~QuotaExceeded(loc[r].capacity, loc[r].seen)
            /\ I # {}
            /\ Unlocked(r, dirtyStorage, I)
            /\ ~NameUndecided(r, loc[r].storage)
            /\ \/ /\ NameTaken(r, loc[r].storage, I)
                  /\ Refuse(r, "internal")
               \/ /\ ~NameTaken(r, loc[r].storage, I)
                  /\ Unlocked(r, dirtyVolume, Cascade(r, call[r].storage, loc[r].storage))
                  /\ RewriteStorageRow(r, I, call[r].storage, loc[r].storage, loc[r].capacity)
                  /\ Go(r, "commit")

(* Mutant: the volumes of the storage are not counted.                     *)
MutantNoCount(r) ==
  /\ pc[r] = "countVolumes"
  /\ Go(r, "dropStorage")
  /\ UNCHANGED <<storeVars, serviceVars>>

(* DeleteStorage: refused while a live volume is seen on the storage.      *)
CountVolumes(r) ==
  /\ pc[r] = "countVolumes"
  /\ UNCHANGED serviceVars
  /\ \/ /\ LiveVolumesOn(VolumesSeen(r), loc[r].storage) # {}
        /\ Refuse(r, "hasVolumes")
     \/ /\ LiveVolumesOn(VolumesSeen(r), loc[r].storage) = {}
        /\ Go(r, "dropStorage")
        /\ UNCHANGED storeVars

DropStorage(r) ==
  LET I == StoragesNamed(StoragesSeen(r), loc[r].storage)
  IN  /\ pc[r] = "dropStorage"
      /\ UNCHANGED serviceVars
      /\ \/ /\ QuotaExceeded(loc[r].capacity, loc[r].seen)
            /\ Refuse(r, "quota")
         \/ /\ ~QuotaExceeded(loc[r].capacity, loc[r].seen)
            /\ I = {}
            /\ Refuse(r, "internal")
         \/ /\ ~QuotaExceeded(loc[r].capacity, loc[r].seen)
            /\ I # {}
            /\ Unlocked(r, dirtyStorage, I)
            /\ DropStorageRow(r, I)
            /\ Go(r, "commit")

-----------------------------------------------------------------------------
(* The end of the transaction and of the request.                          *)

Commit(r) ==
  /\ pc[r] = "commit"
  /\ ~ReferenceUndecided(r)
  /\ UNCHANGED serviceVars
  /\ \/ /\ ~ReferencesExist(r)
        /\ Refuse(r, "internal")
     \/ /\ ReferencesExist(r)
        /\ CommitTx(r)
        /\ Answer(r, "ok")
     \/ /\ ReferencesExist(r)
        /\ "commitLost" \in Faults
        /\ CommitTx(r)
        /\ Answer(r, "internal")

(* A statement, BEGIN or COMMIT fails.                                     *)
DbError(r) ==
  /\ "db" \in Faults
  /\ pc[r] \in ({"pick", "begin"} \cup InsideSteps) \ ServiceSteps
  /\ Refuse(r, "internal")
  /\ UNCHANGED serviceVars

(* No connection became free within the pool's timeout.                    *)
PoolTimeout(r) ==
  /\ pc[r] \in {"pick", "begin"}
  /\ ~HasConnection
  /\ Refuse(r, "internal")
  /\ UNCHANGED serviceVars

(* The process stops: its connections close, PostgreSQL rolls back.        *)
Crash ==
  /\ "crash" \in Faults
  /\ Active # {}
  /\ pc' = [r \in Requests |-> IF r \in Active THEN "cut" ELSE pc[r]]
  /\ loc' = [r \in Requests |-> Blank]
  /\ RollbackAll
  /\ UNCHANGED <<call, reply, serviceVars>>

Step(r) ==
  \/ FetchTariff(r) \/ PickStorage(r) \/ Subscribe(r) \/ Begin(r)
  \/ CountLabel(r) \/ ReserveSpace(r) \/ InsertVolume(r) \/ CreateInKube(r)
  \/ SelectVolume(r) \/ ReleaseSpace(r) \/ MarkDeleted(r) \/ DeleteFromKube(r) \/ Unsubscribe(r)
  \/ ReadOldCapacity(r) \/ CheckFit(r) \/ Recharge(r) \/ SetCapacity(r) \/ UpdateInKube(r)
  \/ ListVolumes(r) \/ ListFails(r) \/ MarkAllDeleted(r) \/ UnsubscribeAll(r)
  \/ CountName(r) \/ ResetStorage(r) \/ CountNameAgain(r) \/ InsertStorage(r)
  \/ FindStorage(r) \/ CountNewName(r) \/ WriteStorage(r) \/ CountVolumes(r) \/ DropStorage(r)
  \/ Commit(r) \/ DbError(r) \/ PoolTimeout(r)

(* Every request has been answered or was cut off by a crash.              *)
Finished ==
  /\ \A r \in Requests : pc[r] \in {"done", "cut"}
  /\ UNCHANGED vars

Next ==
  \/ \E r \in Requests, c \in Calls : Start(r, c)
  \/ \E r \in Requests : Step(r)
  \/ Crash
  \/ Finished

Init ==
  /\ StoreInit
  /\ ServicesInit
  /\ call = [r \in Requests |-> NoCall]
  /\ pc = [r \in Requests |-> "idle"]
  /\ loc = [r \in Requests |-> Blank]
  /\ reply = [r \in Requests |-> "none"]

Spec == Init /\ [][Next]_vars

(* A request in progress keeps running: goroutines are scheduled, every    *)
(* statement that is not waiting for a lock and every call returns.        *)
FairSpec == Spec /\ \A r \in Requests : WF_vars(Step(r))

RequestsTypeOK ==
  /\ call \in [Requests -> CallType \cup {NoCall}]
  /\ pc \in [Requests -> ActiveSteps \cup {"idle", "done", "cut"}]
  /\ loc \in [Requests -> LocType]
  /\ reply \in [Requests -> Replies \cup {"none"}]

TypeOK == StoreTypeOK /\ ServicesTypeOK /\ RequestsTypeOK
=============================================================================
