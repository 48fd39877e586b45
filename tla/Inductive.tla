----------------------------- MODULE Inductive -----------------------------
(***************************************************************************)
(* The inductive strengthening of the promises that are proved for every   *)
(* value of the constants.  A promise about committed rows is kept by a    *)
(* commit only if it already held of the uncommitted versions the commit   *)
(* installs; the invariants below speak of both.                           *)
(***************************************************************************)
EXTENDS Promises

StorageSteps == {"countName", "reset", "countNameAgain", "insertStorage"}

(* What the place a request has reached says of its call and its locals.   *)
LocalFit(r) ==
  /\ pc[r] # "idle" => call[r] \in Calls
  /\ pc[r] \in StorageSteps => call[r].op = "createStorage"
  /\ \/ pc[r] \in {"subscribe", "countLabel", "reserve", "insert", "countNewName", "writeStorage"}
     \/ pc[r] = "begin" /\ call[r].op \in {"create", "directCreate"}
     => loc[r].storage \in StorageNames
  /\ pc[r] \in {"oldCapacity", "fit", "recharge", "setCapacity"} => \E i \in RowId : loc[r].vols = {i}
  /\ pc[r] = "tariff" => call[r].op \in {"create", "resize"}
  /\ pc[r] = "subscribe" => call[r].op = "create"
  /\ \A i \in loc[r].vols : volumes[i] # NoRow

LocalsFit == \A r \in Requests : LocalFit(r)

(* The steps of a request that has written volume rows.                    *)
WroteSteps == {"kubeCreate", "kubeDelete", "kubeUpdate", "unsubscribe", "unsubscribeAll", "commit"}

(* An uncommitted version belongs to a transaction past its last write; it *)
(* keeps the identity of the row and never revives it.                     *)
DirtyFits ==
  \A i \in RowId :
    /\ dirtyVolume[i].tx = NoTx => dirtyVolume[i].row = NoRow
    /\ dirtyVolume[i].tx # NoTx =>
         /\ dirtyVolume[i].row # NoRow
         /\ pc[dirtyVolume[i].tx] \in WroteSteps
         /\ volumes[i] # NoRow =>
              /\ SameLabel(volumes[i], dirtyVolume[i].row)
              /\ dirtyVolume[i].row.owner = volumes[i].owner
              /\ volumes[i].deleted => dirtyVolume[i].row.deleted

(* The row a request will insert does not exist before it inserts it.      *)
Uninserted(r) == pc[r] \notin {"kubeCreate", "commit", "done", "cut"}

RowsFresh ==
  \A r \in Requests :
    Uninserted(r) => volumes[r] = NoRow /\ dirtyVolume[r].tx = NoTx

(* No two rows have live versions, committed or not, with one label.       *)
UniqueVersions ==
  \A i, j \in RowId : i # j =>
    \A v \in {volumes[i], dirtyVolume[i].row}, w \in {volumes[j], dirtyVolume[j].row} :
      Live(v) /\ Live(w) => ~SameLabel(v, w)

IInv ==
  /\ TypeOK
  /\ LocalsFit
  /\ DirtyFits
  /\ RowsFresh
  /\ UniqueVersions

(* A version about to be committed as deleted is no longer charged for, or *)
(* its transaction has still to unsubscribe it.                            *)
DeletedUnsubscribed ==
  \A i \in RowId :
    dirtyVolume[i].tx # NoTx /\ dirtyVolume[i].row.deleted =>
      IF pc[dirtyVolume[i].tx] \in {"kubeDelete", "unsubscribe", "unsubscribeAll"}
      THEN i \in loc[dirtyVolume[i].tx].vols
      ELSE i \notin subs

BillingInv == NoBillingAfterDelete /\ DeletedUnsubscribed
=============================================================================
