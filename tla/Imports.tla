------------------------------ MODULE Imports ------------------------------
(***************************************************************************)
(* POST /import/volumes and POST /import/storages (pkg/router): the        *)
(* handler walks the elements of the body one after the other, each in a   *)
(* transaction of its own, goes on after a failure, and reports which      *)
(* elements were imported.  A client whose import was not a full success,  *)
(* or was cut off by a crash, may send the same body again.  Imports run   *)
(* next to each other and next to other requests of VolumeManager.         *)
(***************************************************************************)
EXTENDS Effects, Sequences

CONSTANTS
  Importers,     \* clients that import
  Body,          \* importer -> sequence of elements, each a call
  Slots,         \* importer -> attempt -> element -> the request it runs as
  MaxAttempts,   \* bound: importer -> times it sends its body
  OtherCalls     \* what the requests of other clients may ask

VARIABLE
  imports        \* importer -> [status, attempt, outcome]

importVars == <<imports, vars>>

ASSUME ImportsTyped ==
  /\ MaxAttempts \in [Importers -> Nat]
  /\ OtherCalls \subseteq Calls
  /\ \A m \in Importers :
       /\ Body[m] \in Seq({c \in Calls : c.op \in {"import", "createStorage"}})
       /\ Slots[m] \in [1..MaxAttempts[m] -> [1..Len(Body[m]) -> Requests]]

(* Every element runs as a request of its own whenever it is sent.         *)
ASSUME SlotsDistinct ==
  \A m, n \in Importers : \A a \in 1..MaxAttempts[m], b \in 1..MaxAttempts[n] :
    \A j \in 1..Len(Body[m]), k \in 1..Len(Body[n]) :
      Slots[m][a][j] = Slots[n][b][k] => m = n /\ a = b /\ j = k

SlotsOf(m) == UNION {{Slots[m][a][k] : k \in 1..Len(Body[m])} : a \in 1..MaxAttempts[m]}

(* Elements handled so far, and the request the next one runs as.          *)
Handled(m) == Len(imports[m].outcome)

Slot(m) == Slots[m][imports[m].attempt][Handled(m) + 1]

(* The errors of the elements that were not imported.                      *)
Failures(m) == {imports[m].outcome[k] : k \in DOMAIN imports[m].outcome} \ {"ok"}

-----------------------------------------------------------------------------
Send(m) ==
  /\ \/ imports[m].status \in {"waiting", "cut"}
     \/ imports[m].status = "reported" /\ Failures(m) # {}
  /\ imports[m].attempt < MaxAttempts[m]
  /\ imports' = [imports EXCEPT ![m] = [status |-> "running", attempt |-> @.attempt + 1, outcome |-> <<>>]]
  /\ UNCHANGED vars

StartElement(m) ==
  /\ imports[m].status = "running"
  /\ Handled(m) < Len(Body[m])
  /\ Start(Slot(m), Body[m][Handled(m) + 1])
  /\ UNCHANGED imports

(* Mutant: the error of an element is dropped.                             *)
MutantAllImported(m) ==
  /\ imports[m].status = "running"
  /\ Handled(m) < Len(Body[m])
  /\ pc[Slot(m)] = "done"
  /\ imports' = [imports EXCEPT ![m].outcome = Append(@, "ok")]
  /\ UNCHANGED vars

RecordElement(m) ==
  /\ imports[m].status = "running"
  /\ Handled(m) < Len(Body[m])
  /\ pc[Slot(m)] = "done"
  /\ imports' = [imports EXCEPT ![m].outcome = Append(@, reply[Slot(m)])]
  /\ UNCHANGED vars

(* Mutant: the handler stops at the first element that fails.              *)
MutantStopsEarly(m) ==
  /\ imports[m].status = "running"
  /\ Handled(m) = Len(Body[m]) \/ Failures(m) # {}
  /\ imports' = [imports EXCEPT ![m].status = "reported"]
  /\ UNCHANGED vars

Report(m) ==
  /\ imports[m].status = "running"
  /\ Handled(m) = Len(Body[m])
  /\ imports' = [imports EXCEPT ![m].status = "reported"]
  /\ UNCHANGED vars

Running == {m \in Importers : imports[m].status = "running"}

(* The process stops, perhaps between two elements: the elements that have *)
(* not been started never are.                                             *)
CrashImports ==
  /\ \/ Crash
     \/ "crash" \in Faults /\ Active = {} /\ Running # {} /\ UNCHANGED vars
  /\ imports' = [m \in Importers |->
       IF m \in Running THEN [imports[m] EXCEPT !.status = "cut"] ELSE imports[m]]

OtherRequests == Requests \ UNION {SlotsOf(m) : m \in Importers}

AllOver ==
  /\ Active = {} /\ Running = {}
  /\ UNCHANGED importVars

ImportsNext ==
  \/ \E m \in Importers : Send(m) \/ StartElement(m) \/ RecordElement(m) \/ Report(m)
  \/ \E r \in OtherRequests, c \in OtherCalls : Start(r, c) /\ UNCHANGED imports
  \/ \E r \in Requests : Step(r) /\ UNCHANGED imports
  \/ CrashImports
  \/ AllOver

ImportsInit ==
  /\ Init
  /\ imports = [m \in Importers |-> [status |-> "waiting", attempt |-> 0, outcome |-> <<>>]]

ImportsSpec == ImportsInit /\ [][ImportsNext]_importVars

-----------------------------------------------------------------------------
(* What an element asks for is in the tables.                              *)
Present(c) ==
  IF c.op = "import" THEN VolumesLabelled(volumes, c.ns, c.label) # {}
                     ELSE LiveStoragesNamed(storages, c.storage) # {}

(* Meanwhile nobody deletes anything, and nobody renames a storage from or *)
(* to a name that is being imported.                                       *)
Undisturbed ==
  /\ \A c \in Calls : c.op \notin {"delete", "deleteUser", "deleteNs", "deleteStorage"}
  /\ \A c, d \in Calls :
       c.op = "updateStorage" /\ NewName(c) # c.storage /\ d.op = "createStorage"
         => d.storage \notin {c.storage, NewName(c)}

(* A report tells the truth: what it lists as imported is there.           *)
ImportedIsThere ==
  \A m \in Importers : \A k \in DOMAIN imports[m].outcome :
    imports[m].outcome[k] = "ok" => Present(Body[m][k])

(* Sending a body again converges: once the only elements a report lists   *)
(* as failed are those that exist already, every element is there.  The    *)
(* commit of an element may have been reported as failed, or the process   *)
(* may have stopped between two elements.                                  *)
RetryConverges ==
  \A m \in Importers :
    imports[m].status = "reported" /\ Failures(m) \subseteq {"exists"}
      => \A k \in DOMAIN Body[m] : Present(Body[m][k])

-----------------------------------------------------------------------------
(* What the two rest on.  A request that was told "ok" or "exists" has     *)
(* what it asked for in the tables; one on its way to such an answer has   *)
(* found, or written, the storage it is about.                             *)
Truthful(r) ==
  LET c == call[r]
  IN  /\ pc[r] = "reset" => StoragesNamed(storages, c.storage) # {}
      /\ pc[r] = "countNameAgain" =>
           StoragesNamed(storages, c.storage) = LiveStoragesNamed(storages, c.storage)
      /\ pc[r] = "commit" /\ c.op = "createStorage" => \E k \in RowId : dirtyStorage[k].tx = r
      /\ reply[r] \in {"ok", "exists"} /\ c.op \in {"import", "createStorage"} => Present(c)

(* An importer has handled the elements up to the next one, each by the    *)
(* request that its slot names.                                            *)
ImportFit(m) ==
  LET i == imports[m]
  IN  /\ i \in [status : {"waiting", "running", "cut", "reported"}, attempt : 0..MaxAttempts[m],
                outcome : Seq(Replies)]
      /\ i.status = "running" => i.attempt >= 1
      /\ Len(i.outcome) <= Len(Body[m])
      /\ i.status = "reported" => Len(i.outcome) = Len(Body[m])
      /\ \A a \in 1..MaxAttempts[m], k \in 1..Len(Body[m]) : call[Slots[m][a][k]] \in {NoCall, Body[m][k]}

ImportsFit ==
  /\ imports = [m \in Importers |-> imports[m]]
  /\ \A m \in Importers : ImportFit(m)

ImportsInv ==
  /\ ImportsFit
  /\ \A r \in Requests : Truthful(r)
  /\ \A m \in Importers : \A k \in DOMAIN imports[m].outcome :
       imports[m].outcome[k] \in {"ok", "exists"} => Present(Body[m][k])
=============================================================================
