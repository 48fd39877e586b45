--------------------------- MODULE MCVolumeManager ---------------------------
(***************************************************************************)
(* Small instances of VolumeManager for TLC: two storages, one namespace   *)
(* with two labels, a seed volume "l1" of capacity 1 on storage "s1".  The *)
(* sets of calls pick what the concurrent requests may ask.                *)
(***************************************************************************)
EXTENDS Accounting, Kubernetes, TLC

CONSTANTS r1, r2, r3, r4, seed1, seed2, n1, l1, l2, l3, u1, u2, s1, s2, s3, t1, t2

MCSeedStorages ==
  (seed1 :> [name |-> s1, size |-> 3, used |-> 1, deleted |-> FALSE]) @@
  (seed2 :> [name |-> s2, size |-> 1, used |-> 0, deleted |-> FALSE])

MCSeedVolumes ==
  (seed1 :> [ns |-> n1, label |-> l1, owner |-> u1, capacity |-> 1,
             storage |-> s1, deleted |-> FALSE]) @@
  (seed2 :> NoRow)

MCVolumeTariff ==
  (t1 :> [active |-> TRUE, public |-> TRUE, limit |-> 1]) @@
  (t2 :> [active |-> TRUE, public |-> FALSE, limit |-> 2])

MCNsVolumeSize == n1 :> 1

Symmetry == Permutations(Requests)

Request(op) ==
  [op |-> op, ns |-> n1, label |-> l1, owner |-> u1, storage |-> NoName, name |-> NoName,
   capacity |-> NoSize, tariff |-> FreeTariff, admin |-> FALSE]

Create(label, tariff, storage) ==
  [Request("create") EXCEPT !.label = label, !.tariff = tariff, !.storage = storage]

DirectCreate(label, capacity, storage) ==
  [Request("directCreate") EXCEPT !.label = label, !.capacity = capacity, !.storage = storage]

Import(label, capacity, storage, owner) ==
  [Request("import") EXCEPT !.label = label, !.capacity = capacity, !.storage = storage, !.owner = owner]

Delete(label) == [Request("delete") EXCEPT !.label = label]
DeleteUser == Request("deleteUser")
DeleteNs == Request("deleteNs")

AdminResize(label, capacity) == [Request("adminResize") EXCEPT !.label = label, !.capacity = capacity]

Resize(label, tariff, admin) ==
  [Request("resize") EXCEPT !.label = label, !.tariff = tariff, !.admin = admin]

CreateStorage(storage, size) == [Request("createStorage") EXCEPT !.storage = storage, !.capacity = size]

UpdateStorage(storage, name, size) ==
  [Request("updateStorage") EXCEPT !.storage = storage, !.name = name, !.capacity = size]

DeleteStorage(storage) == [Request("deleteStorage") EXCEPT !.storage = storage]

(* Everything at once, around the seed volume, its label and its storage.  *)
AllCalls ==
  {Create(l1, t1, NoName), DirectCreate(l3, 1, s1), Import(l2, 1, s1, NoName),
   Delete(l1), DeleteUser, DeleteNs, AdminResize(l1, 2), Resize(l1, t2, TRUE), Resize(l1, t2, FALSE),
   CreateStorage(s2, 2), CreateStorage(s3, 1),
   UpdateStorage(s1, s3, NoSize), DeleteStorage(s1)}

(* The same without second calls of one kind, for the run with failures;   *)
(* but the storage that may be renamed is created again, in two sizes.     *)
FailureCalls ==
  (AllCalls \ {Resize(l1, t2, FALSE), DeleteUser, CreateStorage(s2, 2)})
    \cup {CreateStorage(s1, 1), CreateStorage(s1, 2)}

(* What keeps the accounts when requests run one at a time: no delete-all, *)
(* no import, no creation of a storage that exists.                        *)
SerialCalls ==
  {Create(l2, t1, NoName), DirectCreate(l2, 2, s1), Create(l2, FreeTariff, s2),
   Delete(l1), Delete(l2), AdminResize(l1, 2), Resize(l2, t2, TRUE), Resize(l2, t1, FALSE),
   UpdateStorage(s1, NoName, 2), UpdateStorage(s1, s3, NoSize), DeleteStorage(s2)}

(* A volume is resized and deleted while others are created on its         *)
(* storage and the storage gets a new size.                                *)
OverlapCalls ==
  {Create(l2, t1, s1), DirectCreate(l2, 2, s1), Create(l3, FreeTariff, NoName),
   Delete(l1), AdminResize(l1, 2), Resize(l1, t2, TRUE), UpdateStorage(s1, NoName, 4)}

(* Requests that wait for each other's rows, labels and connections.       *)
WaitingCalls ==
  {Create(l1, t1, NoName), DirectCreate(l2, 1, s1), Delete(l1), DeleteNs, AdminResize(l1, 2),
   UpdateStorage(s1, s3, NoSize)}

(* Two creations that each fit the storage they have read.                 *)
RaceCreateCalls == {Create(l2, t1, s1), DirectCreate(l3, 2, s1)}

OnlyDeleteAllCalls == {DeleteNs, DeleteUser}

RaceDropCalls == {DeleteStorage(s2), DirectCreate(l2, 1, s2)}

=============================================================================
