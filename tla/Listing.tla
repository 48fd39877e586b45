------------------------------- MODULE Listing -------------------------------
(***************************************************************************)
(* The requests that read volumes (GetVolume, GetNamespaceVolumes,         *)
(* GetUserVolumes, GetAllVolumes of pkg/server, the query filters, the     *)
(* pages), behind the gateway, while other requests change the table; and  *)
(* an administrator who walks through the table page by page.  No query    *)
(* has an ORDER BY: PostgreSQL returns rows in the order of its heap, where *)
(* an insert or an update puts a version of the row wherever there is room: *)
(* at the end, or in the place of a version that is no longer needed.      *)
(***************************************************************************)
EXTENDS Gateway, FiniteSets, SequencesExt

CONSTANTS
  Volume,           \* row -> [ns, owner] of the volume that may be created
  Incoming,         \* requests that may arrive
  NotANumber,       \* a query value that is no integer
  PageSize,         \* per_page of the walk
  MaxLimit,         \* orm.Pager: 1000
  MaxOffset,        \* orm.Pager: 1000000
  MaxPages          \* bound of the model: pages a client asks for

IsRequest(q) ==
  /\ q.route \in Routes
  /\ {q.role, q.id, q.ns} \subseteq STRING
  /\ q.granted \in Seq([id : STRING, access : STRING]) \cup {Absent, Unreadable}

ASSUME IncomingTyped == Absent \notin Incoming /\ \A q \in Incoming : IsRequest(q)

ASSUME PagesTyped == {PageSize, MaxLimit} \subseteq Nat \ {0} /\ {MaxOffset, MaxPages} \subseteq Nat

VARIABLES
  heap,    \* rows [id, ns, owner, deleted] in heap order
  last,    \* the last request, what the gateway said and what was shown
  walk     \* [page, seen, expected, writes]: the administrator's walk

vars == <<heap, last, walk>>

Rows == {heap[k] : k \in DOMAIN heap}

-----------------------------------------------------------------------------
(* Queries.  Each finds the positions of its rows in the heap.             *)

GreaterOf(m, n) == IF m > n THEN m ELSE n
LesserOf(m, n) == IF m < n THEN m ELSE n

StandardVolumeFilter == [notDeleted |-> TRUE, deleted |-> FALSE]

ParseVolumeFilter(filters) ==
  [notDeleted |-> "not_deleted" \in filters, deleted |-> "deleted" \in filters]

Matching(filter) ==
  {k \in DOMAIN heap : (filter.notDeleted => ~heap[k].deleted) /\ (filter.deleted => heap[k].deleted)}

(* orm.Pager with a limit above zero.                                      *)
GetLimit(perPage) == LesserOf(perPage, MaxLimit)

(* Mutant: the offset is computed from a limit without the cap.            *)
MutantSetPage(page, perPage) == (GreaterOf(page, 1) - 1) * perPage

(* The rows before a page.                                                 *)
SetPage(page, perPage) == (GreaterOf(page, 1) - 1) * GetLimit(perPage)

GetOffset(page, perPage) == LesserOf(SetPage(page, perPage), MaxOffset)

(* The rows that a query returns before the one at k.                      *)
Before(rows, k) == Cardinality({j \in rows : j < k})

(* Mutant: one row too many on a page.                                     *)
MutantOnPage(rows, k, page, perPage) ==
  /\ GetOffset(page, perPage) <= Before(rows, k)
  /\ Before(rows, k) <= GetOffset(page, perPage) + GetLimit(perPage)

(* Pager.Paginate: OFFSET and LIMIT count rows in the order of the heap.   *)
OnPage(rows, k, page, perPage) ==
  /\ GetOffset(page, perPage) <= Before(rows, k)
  /\ Before(rows, k) < GetOffset(page, perPage) + GetLimit(perPage)

(* VolumeFilter.Filter: a page size of zero or less takes every row.       *)
Filtered(filter, page, perPage) ==
  {k \in Matching(filter) : perPage > 0 => OnPage(Matching(filter), k, page, perPage)}

(* The filters of the request only decide whether there are any.           *)
AllVolumes(q) ==
  Filtered(IF q.filters # {} THEN ParseVolumeFilter({}) ELSE StandardVolumeFilter,
           q.page, IF q.perPage = Absent THEN 0 ELSE q.perPage)

LiveRows == Matching(StandardVolumeFilter)

NamespaceVolumes(ns) == {k \in LiveRows : heap[k].ns = ns}

VolumeByLabel(ns, label) == {k \in LiveRows : heap[k].ns = ns /\ heap[k].id = label}

UserVolumes(user) == {k \in LiveRows : heap[k].owner = user}

Found(q) ==
  CASE q.route = "getVolume" -> VolumeByLabel(q.ns, q.label)
    [] q.route = "getNamespaceVolumes" -> NamespaceVolumes(q.ns)
    [] q.route = "getUserVolumes" -> UserVolumes(ContextUser(q))
    [] q.route = "getAllVolumes" -> AllVolumes(q)
    [] OTHER -> {}

(* Volume.ToKube: an answer has the label of a volume, neither its owner   *)
(* nor its namespace, so masking it for a user changes nothing.            *)
ToKube(row) == row.id

(* getPaginationParams: a page size asks for a page.                       *)
PagesFit(q) ==
  q.route = "getAllVolumes" /\ q.perPage # Absent => q.page # NotANumber /\ q.perPage # NotANumber

Answer(q) ==
  CASE Gate(q) # "ok" -> Gate(q)
    [] Gate(q) = "ok" /\ ~PagesFit(q) -> "validation"
    [] Gate(q) = "ok" /\ q.route = "getVolume" /\ Found(q) = {} -> "notExists"
    [] OTHER -> "ok"

Answered(q) ==
  [request |-> q, gate |-> Gate(q), answer |-> Answer(q),
   shown |-> IF Answer(q) = "ok" THEN {ToKube(heap[k]) : k \in Found(q)} ELSE {}]

-----------------------------------------------------------------------------
NotSeen == [id \in DOMAIN Volume |-> 0]
NoWalk == [page |-> 0, seen |-> NotSeen, expected |-> {}, writes |-> {}]
Walking == walk.page > 0
Nobody == [request |-> Absent, gate |-> "ok", answer |-> "none", shown |-> {}]

Arrive(q) ==
  /\ ~Walking /\ last = Nobody
  /\ last' = Answered(q)
  /\ UNCHANGED <<heap, walk>>

Leave ==
  /\ last # Nobody
  /\ last' = Nobody
  /\ UNCHANGED <<heap, walk>>

(* The walk notes what was written meanwhile.                              *)
Noted(write) == IF Walking THEN [walk EXCEPT !.writes = @ \cup {write}] ELSE walk

(* The new row is the k-th from now on.                                    *)
InsertRow(id, k) ==
  /\ last = Nobody
  /\ id \notin {row.id : row \in Rows}
  /\ heap' = InsertAt(heap, k, [id |-> id, ns |-> Volume[id].ns, owner |-> Volume[id].owner, deleted |-> FALSE])
  /\ walk' = Noted("insert")
  /\ UNCHANGED last

(* An update, of the capacity or of deleted, writes a version of the row   *)
(* somewhere else, so a row that was the j-th becomes the k-th.            *)
UpdateRow(j, deleted, k) ==
  /\ last = Nobody
  /\ ~heap[j].deleted
  /\ heap' = InsertAt(RemoveAt(heap, j), k, [heap[j] EXCEPT !.deleted = deleted])
  /\ walk' = Noted("update")
  /\ UNCHANGED last

StartWalk ==
  /\ ~Walking /\ last = Nobody
  /\ walk' = [page |-> 1, seen |-> NotSeen, expected |-> {heap[k].id : k \in LiveRows}, writes |-> {}]
  /\ UNCHANGED <<heap, last>>

PageOf(n) == Filtered(StandardVolumeFilter, n, PageSize)

(* One GET /admin/volumes, until a page is empty.                          *)
NextPage ==
  /\ Walking /\ walk.page <= MaxPages
  /\ PageOf(walk.page) # {}
  /\ walk' = [walk EXCEPT !.page = @ + 1,
                !.seen = [id \in DOMAIN Volume |-> @[id] + Cardinality({k \in PageOf(walk.page) : heap[k].id = id})]]
  /\ UNCHANGED <<heap, last>>

WalkOver == Walking /\ PageOf(walk.page) = {}

(* The client has seen an empty page, or has had enough.                   *)
EndWalk ==
  /\ Walking
  /\ walk' = NoWalk
  /\ UNCHANGED <<heap, last>>

Next ==
  \/ \E q \in Incoming : Arrive(q)
  \/ Leave
  \/ \E id \in DOMAIN Volume, k \in 1..Len(heap) + 1 : InsertRow(id, k)
  \/ \E j, k \in DOMAIN heap, deleted \in BOOLEAN : UpdateRow(j, deleted, k)
  \/ StartWalk \/ NextPage \/ EndWalk

Init == heap = <<>> /\ last = Nobody /\ walk = NoWalk

Spec == Init /\ [][Next]_vars

-----------------------------------------------------------------------------
(* The chain of checks amounts to the policy: a request reaches its        *)
(* handler exactly if it is well formed and its role or the last grant on  *)
(* its namespace permits it.  (GET /volumes: see UserVolumesListed.)       *)
GatewayIsPolicy ==
  last.request # Absent /\ last.request.route # "getUserVolumes" =>
    (last.gate = "ok" <=> WellFormed(last.request) /\ Permitted(last.request))

(* Whatever the query parameters, an answer to a user shows live volumes   *)
(* only, of a namespace the user may read or of the user who asks.         *)
ShowsOnlyVisible ==
  last.request # Absent /\ last.request.role = "user" =>
    \A id \in last.shown : \E row \in Rows :
      /\ row.id = id /\ ~row.deleted
      /\ \/ last.request.route # "getUserVolumes" /\ row.ns = last.request.ns /\ MayAct(last.request, 1)
         \/ row.owner = last.request.id

(* A walk through all pages, up to an empty one, shows every volume that   *)
(* was there although others are created meanwhile, which may push rows to *)
(* later pages and show them again.  If nothing is written meanwhile, it   *)
(* shows every volume once and nothing else.  The largest offset does not  *)
(* cut a walk short: past it no page is empty.                             *)
WalkComplete ==
  WalkOver =>
    /\ "update" \notin walk.writes => \A id \in walk.expected : walk.seen[id] >= 1
    /\ walk.writes = {} =>
         \A id \in DOMAIN Volume : walk.seen[id] = IF id \in walk.expected THEN 1 ELSE 0

(* GET /volumes lists the volumes of the user who asks.                    *)
UserVolumesListed ==
  last.request # Absent /\ last.request.route = "getUserVolumes" /\ WellFormed(last.request)
    => last.answer = "ok"

-----------------------------------------------------------------------------
(* What these rest on.                                                     *)

Row ==
  [id : DOMAIN Volume, ns : {v.ns : v \in {Volume[id] : id \in DOMAIN Volume}},
   owner : {v.owner : v \in {Volume[id] : id \in DOMAIN Volume}}, deleted : BOOLEAN]

TypeOK ==
  /\ heap \in Seq(Row)
  /\ walk \in [page : Nat, seen : [DOMAIN Volume -> Nat], expected : SUBSET DOMAIN Volume,
              writes : SUBSET {"insert", "update"}]

IdsUnique == \A j, k \in DOMAIN heap : heap[j].id = heap[k].id => j = k

LastFits == last = Nobody \/ (IsRequest(last.request) /\ last = Answered(last.request))

(* No row is behind the largest offset.                                    *)
InReach == \A k \in LiveRows : Before(LiveRows, k) < MaxOffset

(* Next to creations, a volume that was there has been shown or is still   *)
(* ahead of the next page.                                                 *)
NoneMissed ==
  \A id \in walk.expected : \E k \in LiveRows :
    heap[k].id = id /\ (walk.seen[id] >= 1 \/ GetOffset(walk.page, PageSize) <= Before(LiveRows, k))

(* In a table that stands still the rows before the next page, and no      *)
(* others, have been shown, and once unless some are out of reach.         *)
NoneTwice ==
  /\ \A k \in LiveRows : heap[k].id \in walk.expected
  /\ \A id \in DOMAIN Volume \ walk.expected : walk.seen[id] = 0
  /\ InReach => \A k \in LiveRows :
       walk.seen[heap[k].id] = IF Before(LiveRows, k) < SetPage(walk.page, PageSize) THEN 1 ELSE 0

WalkFits ==
  Walking => /\ "update" \notin walk.writes => NoneMissed
             /\ walk.writes = {} => NoneTwice

(* The invariant that the proofs use.                                      *)
ListingInv == TypeOK /\ IdsUnique /\ LastFits /\ WalkFits
=============================================================================
