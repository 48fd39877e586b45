------------------------------ MODULE Effects ------------------------------
(***************************************************************************)
(* What the requests in progress have done so far: which steps each        *)
(* operation passes, what its locals say of its call, and how every        *)
(* uncommitted version relates to the committed row and to the call of the *)
(* transaction that wrote it.  A commit installs exactly these versions,   *)
(* so this is what the names of storages, the references of volumes and    *)
(* the refinement of VolumeCatalog rest on.                                *)
(***************************************************************************)
EXTENDS Inductive

Creations == {"create", "directCreate", "import"}
DeleteAlls == {"deleteUser", "deleteNs"}
Resizings == {"resize", "adminResize"}

(* The steps an operation may be at while it is in progress.               *)
Route(op) ==
  CASE op = "create" ->
         {"tariff", "pick", "subscribe", "begin", "countLabel", "reserve", "insert", "kubeCreate", "commit"}
    [] op = "directCreate" -> {"pick", "begin", "countLabel", "reserve", "insert", "kubeCreate", "commit"}
    [] op = "import"       -> {"begin", "findStorage", "countLabel", "reserve", "insert", "commit"}
    [] op = "delete"       -> {"begin", "select", "release", "mark", "kubeDelete", "unsubscribe", "commit"}
    [] op \in DeleteAlls   -> {"begin", "list", "markAll", "unsubscribeAll", "commit"}
    [] op \in Resizings    ->
         {"tariff", "begin", "select", "oldCapacity", "fit", "recharge", "setCapacity", "kubeUpdate", "commit"}
    [] op = "createStorage" -> {"begin", "countName", "reset", "countNameAgain", "insertStorage", "commit"}
    [] op = "updateStorage" -> {"begin", "findStorage", "countNewName", "writeStorage", "commit"}
    [] OTHER                -> {"begin", "findStorage", "countVolumes", "dropStorage", "commit"}

(* A request is on the route of its operation until it is answered, once.  *)
RouteFit(r) ==
  /\ pc[r] = "idle" => call[r] = NoCall
  /\ pc[r] \in ActiveSteps => pc[r] \in Route(call[r].op)
  /\ reply[r] = "none" <=> pc[r] # "done"

(* The volumes a request may delete or resize.                             *)
Concerns(c, v) ==
  /\ v # NoRow
  /\ IF c.op = "deleteUser" THEN v.owner = c.owner ELSE v.ns = c.ns
  /\ c.op \notin DeleteAlls => v.label = c.label

(* The name an update of a storage leaves it with.                         *)
NewName(c) == IF c.name = NoName THEN c.storage ELSE c.name

(* What a request has read and computed agrees with what it was asked.     *)
LocalsTold(r) ==
  LET c == call[r]
      l == loc[r]
  IN  /\ \/ c.op = "directCreate" /\ pc[r] \in ActiveSteps
         \/ c.op = "import" /\ pc[r] \in {"countLabel", "reserve", "insert"}
         \/ c.op = "adminResize" /\ pc[r] \in {"oldCapacity", "fit", "recharge", "setCapacity"}
         => l.capacity = c.capacity
      /\ \/ pc[r] \in {"subscribe", "countLabel", "reserve", "insert"}
         \/ pc[r] = "begin" /\ c.op \in {"create", "directCreate"}
         => (c.storage # NoName => l.storage = c.storage)
      /\ pc[r] \in {"countNewName", "writeStorage"} =>
           l.storage = NewName(c) /\ (c.capacity # NoSize => l.capacity = c.capacity)
      /\ pc[r] \in {"countVolumes", "dropStorage"} => l.storage = c.storage
      /\ pc[r] \in {"release", "mark", "kubeDelete", "unsubscribe", "oldCapacity", "fit", "recharge",
                    "setCapacity", "kubeUpdate"} => \E i \in RowId : l.vols = {i}
      /\ pc[r] \in {"release", "mark", "oldCapacity", "fit", "recharge", "setCapacity", "markAll"} =>
           \A i \in l.vols : Concerns(c, volumes[i])

Told ==
  \A r \in Requests : pc[r] # "idle" => LocalsTold(r)

RoutesFit == \A r \in Requests : RouteFit(r)

(* The uncommitted version w of volume row i is what request t, asked c,   *)
(* makes of the committed version v.                                       *)
VolumeEffect(t, c, i, v, w) ==
  \/ /\ c.op \in Creations
     /\ i = t /\ v = NoRow /\ ~w.deleted
     /\ w.ns = c.ns /\ w.label = c.label
     /\ w.owner = IF c.owner = NoName THEN ZeroUUID ELSE c.owner
     /\ c.op # "create" => w.capacity = c.capacity
     /\ c.storage # NoName => w.storage = c.storage
  \/ /\ c.op \in DeleteAlls \cup {"delete"}
     /\ Concerns(c, v)
     /\ w = [v EXCEPT !.deleted = TRUE]
  \/ /\ c.op \in Resizings
     /\ Concerns(c, v)
     /\ w = [v EXCEPT !.capacity = w.capacity]
     /\ c.op = "adminResize" => w.capacity = c.capacity
  \/ /\ c.op = "updateStorage"
     /\ v # NoRow /\ v.storage = c.storage /\ NewName(c) # c.storage
     /\ w = [v EXCEPT !.storage = NewName(c)]

VolumeVersionsFit ==
  \A i \in RowId :
    LET t == dirtyVolume[i].tx
    IN  t # NoTx => VolumeEffect(t, call[t], i, volumes[i], dirtyVolume[i].row)

(* The same for storage row i, from s to d; only "used" may change on      *)
(* behalf of a volume.                                                     *)
StorageEffect(t, c, i, s, d) ==
  \/ /\ c.op \in Creations \cup Resizings \cup {"delete"}
     /\ s # NoRow
     /\ d.name = s.name /\ d.size = s.size /\ d.deleted = s.deleted
  \/ /\ c.op = "createStorage"
     /\ i = t /\ s = NoRow
     /\ d.name = c.storage /\ d.size = c.capacity /\ ~d.deleted
  \/ /\ c.op = "createStorage"
     /\ s # NoRow /\ s.name = c.storage
     /\ d.name = s.name /\ d.size = c.capacity /\ ~d.deleted
  \/ /\ c.op = "updateStorage"
     /\ s # NoRow /\ s.name = c.storage
     /\ d.name = NewName(c) /\ d.deleted = s.deleted
     /\ c.capacity # NoSize => d.size = c.capacity
  \/ /\ c.op = "deleteStorage"
     /\ s # NoRow /\ s.name = c.storage
     /\ d.name = s.name /\ d.size = s.size /\ d.deleted

(* The steps of a request that has written storage rows.                   *)
ChargedSteps ==
  {"insert", "kubeCreate", "mark", "kubeDelete", "unsubscribe", "setCapacity", "kubeUpdate", "commit"}

StorageVersionsFit ==
  \A i \in RowId :
    LET t == dirtyStorage[i].tx
        d == dirtyStorage[i].row
    IN  /\ t = NoTx => d = NoRow
        /\ t # NoTx =>
             /\ d # NoRow
             /\ pc[t] \in ChargedSteps
             /\ StorageEffect(t, call[t], i, storages[i], d)

(* A request about to commit has written the rows it is about; a rename    *)
(* holds every volume of the storage until then.                           *)
Wrote(r) ==
  LET op == call[r].op
  IN  /\ pc[r] \in {"kubeCreate", "commit"} /\ op \in Creations => dirtyVolume[r].tx = r
      /\ pc[r] \in {"kubeDelete", "unsubscribe", "unsubscribeAll", "kubeUpdate"} =>
           \A i \in RowId : dirtyVolume[i].tx = r <=> i \in loc[r].vols
      /\ pc[r] = "commit" /\ op \in Resizings \cup {"delete"} =>
           \E i \in RowId : \A k \in RowId : dirtyVolume[k].tx = r <=> k = i
      /\ pc[r] = "commit" /\ op \in {"updateStorage", "deleteStorage"} =>
           \E i \in RowId : dirtyStorage[i].tx = r
      /\ pc[r] = "commit" /\ op = "updateStorage" /\ NewName(call[r]) # call[r].storage =>
           \A i \in RowId :
             volumes[i] # NoRow /\ volumes[i].storage = call[r].storage => dirtyVolume[i].tx = r

WritesDone == \A r \in Requests : Wrote(r)

(* The row CreateStorage will insert does not exist before it is inserted. *)
StorageRowsFresh ==
  \A r \in Requests :
    pc[r] \notin {"commit", "done", "cut"} => storages[r] = NoRow /\ dirtyStorage[r].tx = NoTx

(* No two storages have versions, committed or not, with one name.         *)
UniqueNames ==
  \A i, j \in RowId : i # j =>
    \A s \in {storages[i], dirtyStorage[i].row}, d \in {storages[j], dirtyStorage[j].row} :
      s # NoRow /\ d # NoRow => s.name # d.name

EffectInv ==
  /\ RoutesFit
  /\ Told
  /\ VolumeVersionsFit
  /\ StorageVersionsFit
  /\ WritesDone
  /\ StorageRowsFresh
  /\ UniqueNames
  /\ ForeignKey

(* A creation that has to be paid is subscribed before its transaction     *)
(* begins, and its volume stays subscribed until the transaction of a      *)
(* deletion, past its last call, is sure to commit.                        *)
PaidInv ==
  \A r \in Requests : call[r] # NoCall /\ Paid(call[r]) =>
    /\ pc[r] \in {"begin", "countLabel", "reserve", "insert", "kubeCreate", "commit"} => r \in subs
    /\ Live(volumes[r]) /\ ~(BeingDeleted(r) /\ pc[dirtyVolume[r].tx] = "commit") => r \in subs
=============================================================================
