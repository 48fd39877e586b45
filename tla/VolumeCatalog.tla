---------------------------- MODULE VolumeCatalog ----------------------------
(***************************************************************************)
(* What volume-manager promises to its clients, without transactions,      *)
(* locks or statements: a catalogue of volumes and storages on which every *)
(* request takes effect in one step, or is declined and leaves no trace.   *)
(* The methods are those of server.VolumeActions and StorageActions        *)
(* (pkg/server); "used" is not part of the promise.                        *)
(***************************************************************************)
EXTENDS Integers

CONSTANTS
  Requests, Rows, Calls, NoRow, NoCall, NoName, NoSize, ZeroUUID, Errors,
  MayLoseAnswers  \* a request that took effect may be answered with an error

VARIABLES
  volumes,   \* row -> volume or NoRow
  storages,  \* row -> [name, size, deleted] or NoRow
  asked,     \* what each request asks, NoCall before it is sent
  answer     \* "none", "ok", one of Errors, or "cut" by a crash

catalogue == <<volumes, storages>>

IsLive(row) == row # NoRow /\ ~row.deleted

Named(name) == {i \in Rows : storages[i] # NoRow /\ storages[i].name = name}

Labelled(ns, label) ==
  {i \in Rows : volumes[i] # NoRow /\ volumes[i].ns = ns /\ volumes[i].label = label}

-----------------------------------------------------------------------------
(* Effects, one disjunct per method.                                       *)

OwnerOf(c) == IF c.owner = NoName THEN ZeroUUID ELSE c.owner

(* A new volume: its label is free, its storage is known.                  *)
Creates(r, c) ==
  /\ c.op \in {"create", "directCreate", "import"}
  /\ volumes[r] = NoRow
  /\ \A i \in Labelled(c.ns, c.label) : volumes[i].deleted
  /\ volumes' = [volumes EXCEPT ![r] = volumes'[r]]
  /\ LET v == volumes'[r]
     IN  /\ IsLive(v)
         /\ v.ns = c.ns /\ v.label = c.label /\ v.owner = OwnerOf(c)
         /\ c.op # "create" => v.capacity = c.capacity
         /\ c.storage # NoName => v.storage = c.storage
         /\ Named(v.storage) # {}
  /\ UNCHANGED storages

Marks(I) == volumes' = [i \in Rows |-> IF i \in I THEN [volumes[i] EXCEPT !.deleted = TRUE]
                                                  ELSE volumes[i]]

(* One volume with the label goes, perhaps one that is already gone.       *)
Deletes(c) ==
  /\ c.op = "delete"
  /\ \E i \in Labelled(c.ns, c.label) : Marks({i})
  /\ UNCHANGED storages

(* Some volumes of the user or of the namespace go, and no others.         *)
DeletesAll(c) ==
  /\ c.op \in {"deleteUser", "deleteNs"}
  /\ \E I \in SUBSET {i \in Rows : /\ volumes[i] # NoRow
                                   /\ IF c.op = "deleteUser" THEN volumes[i].owner = c.owner
                                                             ELSE volumes[i].ns = c.ns} : Marks(I)
  /\ UNCHANGED storages

(* The capacity of one volume with the label changes, and nothing else.    *)
Resizes(c) ==
  /\ c.op \in {"resize", "adminResize"}
  /\ \E i \in Labelled(c.ns, c.label) :
       /\ volumes' = [volumes EXCEPT ![i].capacity = volumes'[i].capacity]
       /\ c.op = "adminResize" => volumes'[i].capacity = c.capacity
  /\ UNCHANGED storages

(* A storage is new, or has its size set and is brought back; or nothing   *)
(* happens, if the storage was renamed after it had been found.            *)
CreatesStorage(r, c) ==
  /\ c.op = "createStorage"
  /\ \/ /\ Named(c.storage) = {} /\ storages[r] = NoRow
        /\ storages' = [storages EXCEPT ![r] =
             [name |-> c.storage, size |-> c.capacity, deleted |-> FALSE]]
     \/ \E i \in Named(c.storage) :
          storages' = [storages EXCEPT ![i].size = c.capacity, ![i].deleted = FALSE]
     \/ UNCHANGED storages
  /\ UNCHANGED volumes

(* A storage takes a name nobody else has, and all its volumes follow in   *)
(* the same step.  Without a new size it gets one it had before.           *)
UpdatesStorage(c) ==
  LET name == IF c.name = NoName THEN c.storage ELSE c.name
  IN  /\ c.op = "updateStorage"
      /\ name = c.storage \/ Named(name) = {}
      /\ \E i \in Named(c.storage) :
           /\ storages' = [storages EXCEPT ![i].name = name, ![i].size = storages'[i].size]
           /\ c.capacity # NoSize => storages'[i].size = c.capacity
      /\ volumes' = [i \in Rows |->
           IF volumes[i] # NoRow /\ volumes[i].storage = c.storage
           THEN [volumes[i] EXCEPT !.storage = name] ELSE volumes[i]]

DropsStorage(c) ==
  /\ c.op = "deleteStorage"
  /\ \E i \in Named(c.storage) : storages' = [storages EXCEPT ![i].deleted = TRUE]
  /\ UNCHANGED volumes

TakesEffect(r, c) ==
  \/ Creates(r, c) \/ Deletes(c) \/ DeletesAll(c) \/ Resizes(c)
  \/ CreatesStorage(r, c) \/ UpdatesStorage(c) \/ DropsStorage(c)

-----------------------------------------------------------------------------
Ask(r) ==
  /\ asked[r] = NoCall
  /\ asked'[r] \in Calls
  /\ asked' = [asked EXCEPT ![r] = asked'[r]]
  /\ UNCHANGED <<catalogue, answer>>

Waiting(r) == asked[r] # NoCall /\ answer[r] = "none"

Answers(r, replies) ==
  /\ answer'[r] \in replies
  /\ answer' = [answer EXCEPT ![r] = answer'[r]]
  /\ UNCHANGED asked

Serve(r) ==
  /\ Waiting(r)
  /\ Answers(r, {"ok"} \cup IF MayLoseAnswers THEN Errors ELSE {})
  /\ TakesEffect(r, asked[r])

Decline(r) ==
  /\ Waiting(r)
  /\ Answers(r, Errors)
  /\ UNCHANGED catalogue

(* A crash cuts off the requests in progress: none of them takes effect.   *)
CutOff ==
  /\ answer' = [r \in Requests |-> IF Waiting(r) THEN "cut" ELSE answer[r]]
  /\ UNCHANGED <<catalogue, asked>>

Next ==
  \/ \E r \in Requests : Ask(r) \/ Serve(r) \/ Decline(r)
  \/ CutOff

Init ==
  /\ \A i \in Requests : volumes[i] = NoRow /\ storages[i] = NoRow
  /\ asked = [r \in Requests |-> NoCall]
  /\ answer = [r \in Requests |-> "none"]

Spec == Init /\ [][Next]_<<catalogue, asked, answer>>
=============================================================================
