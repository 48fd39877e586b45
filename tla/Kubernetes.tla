----------------------------- MODULE Kubernetes -----------------------------
(***************************************************************************)
(* The volumes kubernetes has against the rows of the database.  A request *)
(* calls kubernetes inside its transaction, after its last statement and   *)
(* before the commit: in between kubernetes is ahead of the committed rows *)
(* by what that transaction has written.                                   *)
(***************************************************************************)
EXTENDS Effects

(* When no request is in progress kubernetes has the live volumes of the   *)
(* database, with their capacity, and no others.                           *)
KubeAgrees ==
  Active = {} =>
    \A ns \in Namespaces, label \in Labels :
      LET rows == VolumesLabelled(volumes, ns, label)
      IN  \/ rows = {} /\ kube[<<ns, label>>] = NoRow
          \/ \E i \in rows : kube[<<ns, label>>] = volumes[i].capacity

CallKey(c) == <<c.ns, c.label>>

(* What the code needs for that: a transaction that has called kubernetes  *)
(* does not break off (its database and billing answer, and the storage it *)
(* refers to is not renamed), every volume is created and deleted with a   *)
(* call, and the label of a volume is not taken again after its deletion,  *)
(* of which requests that have read the volume before know nothing.        *)
Orderly ==
  /\ Faults \subseteq {"kube", "commitLost"}
  /\ \A c \in Calls : /\ c.op \notin {"import", "deleteUser", "deleteNs"}
                      /\ c.op = "updateStorage" => NewName(c) = c.storage
  /\ \A c, d \in Calls : c.op \in Creations /\ d.op = "delete" => CallKey(c) # CallKey(d)

-----------------------------------------------------------------------------
(* The row as kubernetes was told: its uncommitted version if the          *)
(* transaction that wrote it has made its call.                            *)
Settled(i) ==
  LET t == dirtyVolume[i].tx
  IN  IF t # NoTx /\ pc[t] \in {"unsubscribe", "commit"} THEN dirtyVolume[i].row ELSE volumes[i]

(* Kubernetes has the settled volumes that are live, and no others.        *)
KubeMatches ==
  /\ \A i \in RowId : Live(Settled(i)) => kube[Key(Settled(i))] = Settled(i).capacity
  /\ \A key \in Namespaces \X Labels :
       kube[key] # NoRow => \E i \in RowId : Live(Settled(i)) /\ Key(Settled(i)) = key

(* The steps of a request that has selected a volume and not yet called.   *)
HandlingSteps ==
  {"release", "mark", "kubeDelete", "oldCapacity", "fit", "recharge", "setCapacity", "kubeUpdate"}

(* Nobody takes the label of a volume that is being deleted or resized.    *)
HoldsLabel(r) ==
  pc[r] \in HandlingSteps =>
    \A i \in loc[r].vols :
      /\ Key(volumes[i]) = RequestKey(r)
      /\ Live(volumes[i]) \/ \E d \in Calls : d.op = "delete" /\ CallKey(d) = RequestKey(r)
      /\ \A j \in RowId : \A v \in {volumes[j], dirtyVolume[j].row} :
           Live(v) /\ Key(v) = RequestKey(r) => j = i

(* A request tells kubernetes the capacity that it has written.            *)
TellsCapacity(r) ==
  pc[r] \in {"kubeCreate", "kubeUpdate"} =>
    \A i \in RowId : dirtyVolume[i].tx = r => dirtyVolume[i].row.capacity = loc[r].capacity

(* A creation knows a storage that exists, until its row refers to it.     *)
ChoseStorage(r) ==
  \/ pc[r] \in {"subscribe", "countLabel", "reserve", "insert"}
  \/ pc[r] = "begin" /\ call[r].op \in Creations

KnowsStorage(r) == ChoseStorage(r) => StoragesNamed(storages, loc[r].storage) # {}

KubeInv ==
  /\ Orderly
  /\ KubeMatches
  /\ \A r \in Requests : HoldsLabel(r) /\ TellsCapacity(r) /\ KnowsStorage(r)
  /\ \A i \in RowId : dirtyVolume[i].tx # NoTx => StoragesNamed(storages, dirtyVolume[i].row.storage) # {}
=============================================================================
