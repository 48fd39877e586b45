# A TLA+ model of volume-manager

This directory holds a specification of volume-manager, the service of
Containerum that keeps the persistent volumes of a cluster: TLA+ modules, TLC
configurations that model-check them on small instances, and theorems proved
with TLAPS for every value of the constants. `PROJECT.json` ties every
definition to the lines it stands for. Paths below are relative to the
repository (`src/`).

## 1. Inventory

| Component | Code | State | Operations |
|---|---|---|---|
| Database store | `pkg/database/postgres/{db,storage,volume}.go`, `pkg/models`, migrations 1 and 2 | tables `storages` (name, size, used, deleted) and `volumes` (id, ns, label, owner, capacity, storage, deleted), row locks of open transactions | queries; `CreateVolume`, `DeleteVolume`, `DeleteVolumes`, `UpdateVolume`, `CreateStorage`, `UpdateStorage`, `DeleteStorage`, each with the statements its ORM hook sends first; `Transactional` |
| Clients | `pkg/clients/{kube,billing}.go` | none here; the volumes kubernetes has, the subscriptions billing has | create, update, delete a volume; subscribe, unsubscribe one or many; tariff of a volume, of a namespace |
| Volume operations | `pkg/server/volumes.go`, `misc.go` | local variables of each request | `DirectCreateVolume`, `CreateVolume`, `ImportVolume`, `DeleteVolume`, `DeleteAllUserVolumes`, `DeleteAllNamespaceVolumes`, `AdminResizeVolume`, `ResizeVolume`; four queries |
| Storage operations | `pkg/server/storages.go` | local variables of each request | `CreateStorage`, `UpdateStorage`, `DeleteStorage`; one query |
| HTTP handlers | `pkg/router` | none | bind and validate a body, call one operation, answer; the two imports call one operation per element and report which succeeded |
| Access middleware | `pkg/router/middleware`, `router/types.go` | headers of the request | required and valid headers, substituted user, admin role, grants on a namespace |
| Listings and filters | `pkg/database/volfilter.go`, `postgres/volfilter.go`, queries of `pkg/server` | none | one volume, the volumes of a namespace, of a user, all; filter, page |
| Process lifecycle | `cmd/volume-manager` | flags, the process | configure, connect, build clients, listen, stop on SIGINT within five seconds |
| Migrations | `postgres/migrations`, go-pg/migrations | schema, table `migrations_volume` | four migrations at every start |
| Dummy clients | `pkg/clients` | none | answer without a service |
| Errors, validation | `pkg/errors`, `pkg/utils` | none | |
| Charts, static files, vendored code | `charts`, `static`, `vendor` | none | |

How they interact: gin runs every HTTP request in a goroutine of its own. The
handler calls one server operation, which sends statements to PostgreSQL
through go-pg's connection pool, most of them inside one transaction, and calls
kubernetes and billing over HTTP, some before and some inside the transaction.
There is no state shared in memory: requests meet only in the database, in
kubernetes, in billing and in the pool.

What is hard:

- **Stale reads.** Isolation is READ COMMITTED and no query locks what it
  reads. A check (room on a storage, old capacity, number of volumes on a
  storage, a label, a name) and the write that relies on it are separate
  statements.
- **Three stores, one transaction.** Kubernetes and billing are changed inside
  a database transaction that may still fail, or before it begins.
- **Answers that say too little.** A call may be carried out and its answer
  lost; an error body that is not JSON counts as success; a COMMIT may be
  carried out and reported as failed; the process may stop anywhere.
- **Waiting.** Row locks, the unique index, the foreign key and the pool make
  requests wait for each other; delete-all needs a second connection while it
  holds one.
- **Doing it again.** A client repeats an import of which some elements failed,
  were carried out and reported as failed, or were never reached.
- **Starting together.** Processes run the migrations of one database at the
  same time, without a lock or a transaction around them, and may stop anywhere
  in between.
- **Reading while others write.** Pages are cut from queries without an order,
  at offsets that the pager caps.

What makes the components correct:

- store: unique live labels, unique storage names, references that exist,
  deletions that are final;
- accounts: `used` is the capacity of the live volumes on the storage, never
  negative, never above `size`; a live volume is on a live storage; capacities
  never shrink;
- services: kubernetes has exactly the live volumes; a deleted volume is not
  billed; a paid one is;
- requests: each takes effect in one step or not at all, is answered, and the
  answer says which;
- imports: a report is true and repeating an import converges;
- start and stop: who serves has the complete schema, the recorded version is
  truthful, someone ends up serving, a process told to stop does;
- access: the chain of checks is one policy, and answers show only what it
  allows.

## 2. Modules

```
PgStore            the database: tables, locks, statements, constraints, commit
  Services         + kubernetes and billing, and how a call may end
    VolumeManager  + the requests: every operation, one action per statement/call
      Promises     what must hold whatever overlaps and fails
        (INSTANCE VolumeCatalog: the abstract service it implements)
        Inductive  the inductive strengthening for labels, deletions and billing
          Effects  what the requests in progress have done so far
            Kubernetes  the volumes kubernetes has against the rows
            Accounting  what must hold of space
            Imports     + the handlers that import, element by element, and retries
              MCVolumeManager   instances for TLC (extends Accounting and Kubernetes)
              MCImports         instances of Imports (extends MCVolumeManager)
Startup            processes that share one database: configure, migrate, serve, stop
  MCStartup        instance for TLC
Gateway            what a request passes before its handler runs (operators only)
  Listing          + the queries, the pages, a table that changes
    MCListing      instance for TLC

VolumeManagerProofs      lemmas about PgStore, theorems about Inductive
  EffectProofs           theorems about Effects: names, references, subscriptions
    CatalogueProofs      the refinement of VolumeCatalog
    AccountProofs        theorems about Accounting, sums over finite sets
      KubernetesProofs   theorems about Kubernetes, volumes deleted once
    ImportProofs         theorems about Imports
StartupProofs            theorems about Startup
ListingProofs            theorems about Gateway and Listing
```

### PgStore

`storages` and `volumes` are the committed tables, functions from row
identities to a row or `NoRow`. A row inserted by request `r` has identity `r`,
since a request inserts at most one row; rows present at the start have the
identities `SeedRows`. `dirtyStorage` and `dirtyVolume` hold for each row its
uncommitted version and the transaction that owns it, which is also the row
lock. A statement of transaction `t` sees `View(t, ...)`: the committed tables
at that moment, overlaid with `t`'s own writes. It is enabled only when the rows
it writes are `Unlocked`. Every UPDATE in the code is `SET column = expression`
on the current row, so it is applied to the row as it is once the lock is
obtained, not as the request read it; this is what PostgreSQL does under READ
COMMITTED for a condition on the primary key that no concurrent transaction
changes. (When a concurrent transaction renames a storage, the statement
re-evaluates its condition; in the model it is enabled after the other
transaction's end and looks for the name then, with the same result.)

Constraints: `LabelTaken`/`LabelUndecided` are the partial unique index of
migration 2, which makes an insert wait for an undecided row with its key;
`NameTaken`/`NameUndecided` the primary key of `storages`; `ReferencesExist`/
`ReferenceUndecided` the foreign key, `DEFERRABLE INITIALLY DEFERRED`, so
checked by the commit; `Cascade` its `ON UPDATE CASCADE`.

Abstracted: `tariff_id`, `access_mode`, timestamps; the order by name among
storages with equal `used` (an arbitrary one is taken); the order in which a
multi-row UPDATE locks its rows (all at once) and with it PostgreSQL's deadlock
detection: a cycle between two such statements is broken there by an error,
which the fault `db` stands for.

### Services

`kube` maps (namespace, label) to a capacity or `NoRow`, `subs` is the set of
subscribed volumes. `Outcomes` gives the ways a call may end (did it take
effect, did the client return nil) for the failures in `Faults`: `kube` and
`billing` (refused), `lost` (carried out, answer lost), `unreadable` (refused
with a body the client cannot decode: `resp.Error()` is nil and the client
returns nil), `unknown` (billing refuses to unsubscribe what is not
subscribed). `db`, `commitLost` and `crash` concern statements and the process.
Kubernetes refuses to create what exists and to update or delete what does not.

### VolumeManager

Each request has a `call` (what it asks), a `pc` (its next step), `loc` (its
local variables) and a `reply`. One action is one statement or one client call,
with the Go code up to the next one; so whatever the code has read stays in
`loc` while other requests move.

| Code | Steps |
|---|---|
| `CreateVolume` | `FetchTariff`, `PickStorage`, `Subscribe`, `Begin`, `CountLabel`, `ReserveSpace`, `InsertVolume`, `CreateInKube`, `Commit` |
| `DirectCreateVolume` | `PickStorage`, `Begin`, `CountLabel`, `ReserveSpace`, `InsertVolume`, `CreateInKube`, `Commit` |
| `ImportVolume` | `Begin`, `FindStorage`, `CountLabel`, `ReserveSpace`, `InsertVolume`, `Commit` |
| `DeleteVolume` | `Begin`, `SelectVolume`, `ReleaseSpace`, `MarkDeleted`, `DeleteFromKube`, `Unsubscribe`, `Commit` |
| `ResizeVolume`, `AdminResizeVolume` | (`FetchTariff`,) `Begin`, `SelectVolume`, `ReadOldCapacity`, `CheckFit`, `Recharge`, `SetCapacity`, `UpdateInKube`, `Commit` |
| `DeleteAllUserVolumes`, `DeleteAllNamespaceVolumes` | `Begin`, `ListVolumes` or `ListFails`, `MarkAllDeleted`, `UnsubscribeAll`, `Commit` |
| `CreateStorage` | `Begin`, `CountName`, then `ResetStorage` or `CountNameAgain`, `InsertStorage`, `Commit` |
| `UpdateStorage` | `Begin`, `FindStorage`, (`CountNewName`,) `WriteStorage`, `Commit` |
| `DeleteStorage` | `Begin`, `FindStorage`, `CountVolumes`, `DropStorage`, `Commit` |

`Refuse` is every error return: inside `Transactional` it rolls back.
`DbError`, `PoolTimeout` and `Crash` are the failures of the environment; after
a crash the requests not yet sent are served by the restarted process. A
transaction holds a connection from `Begin` to its end; `PickStorage` and
`ListVolumes` need a free one for their statement.

Simplifications: each element of an import is one request (it has a
transaction of its own), sent by any client here and in turn by one in
`Imports`; storages are imported as `CreateStorage` with a fixed size; the
bindings of the request types are the assumption `CallsBound`; `deleted: true`
in the body of `POST /storages` is not sent; a crash after a COMMIT and before
the answer looks to the client like `commitLost`.

### VolumeCatalog

The abstract specification: volumes and storages without `used`, without
transactions, locks or statements. A request is asked, then served in one step
that has its whole effect (`TakesEffect`, one disjunct per method) or declined
without any; a crash cuts off those that wait. `Serve` may answer with an error
only if the database may lose the answer of a commit (`MayLoseAnswers`); no
declined request is ever answered with `ok`, except where the code does:
`DeletesAll` may take any subset, the empty one included (a delete-all works on
a list read earlier and takes a failed list for an empty one), `Deletes` and
`Resizes` may find a row that is gone by then. `CreatesStorage` may also change
nothing and answer with success: the storage it has counted may be renamed
before its UPDATE, which then finds no row and reports no error
(`postgres/storage.go:22`); the proof of the refinement was stuck until the
specification said so.

`Promises` instantiates it with a refinement mapping: the committed tables with
`used` dropped (`Listed`), the calls, and the replies, where a request cut off
by a crash has the answer "cut". The commit of `VolumeManager` is `Serve`,
`Refuse`, `DbError` and `PoolTimeout` are `Decline`, every other statement is a
stutter. What this rules out: an effect before the commit or spread over two, a
trace left by a request that was declined, a volume whose label was taken or
whose storage was unknown at the moment it appears, a rename that leaves a
volume behind, an operation that touches rows it was not asked about.

### Inductive and Effects

Invariants only: what the requests in progress have read and written. `Inductive`
speaks of labels, identities and subscriptions, `Effects` relates every
uncommitted version to the committed row and to the call of its transaction
(`VolumeEffect`, `StorageEffect`), says which steps an operation passes
(`Route`), what its locals have to do with its call (`LocalsTold`) and which
rows it has written by the time it commits (`Wrote`). A commit installs the
uncommitted versions, so these say what a commit does. `PaidInv` is the same
for the subscriptions of paid creations.

### Kubernetes

`KubeAgrees` compares kubernetes with the rows when nothing is in progress.
In between kubernetes is ahead: a transaction calls it after its last
statement and commits afterwards. `Settled(i)` is the row as kubernetes was told, its
uncommitted version if the transaction that wrote it has made its call;
`KubeMatches` compares kubernetes with the settled rows at every moment.
`Orderly` is what the code needs for that and does not enforce: a transaction
that has called kubernetes does not break off, nothing is imported or deleted in
bulk, labels are not taken again by requests next to those that read the volume
deleted under them, storages are not renamed under a creation.

### Imports

`POST /import/volumes` and `POST /import/storages`: an importer sends its body,
the handler starts the requests of `VolumeManager` for its elements one after
the other (`StartElement`), notes each outcome, goes on after a failure
(`RecordElement`) and reports (`Report`). A client whose report lists failures,
or whose import was cut off by a crash, may send the same body again. Importers
run next to each other and to other requests; `Slots` names the request that
each element runs as, a new one for every time it is sent. `ImportsFit` says
that an importer has handled its elements in order, `Undisturbed` what the
properties need of other clients.

### Startup

`schema` holds the parts of the schema that exist, `version` the last row of
`migrations_volume`. A process is launched (`LoggerAccepts`), reads the version
(`Connect`), runs the statements of each later migration (`RunStatement`, or
`StatementRefused`, which ends it) and inserts the version (`RecordVersion`),
builds its clients (`ClientsFound`: a debug process without an address uses a
dummy, a release process ends), listens, subscribes to SIGINT, serves. SIGINT
lets it drain; after five seconds the requests left are cut off. `Die` is
everything else that ends a process. Tables are created from today's models, so
the first migration already brings the column of the third (`Brings`).

What the model shows of the code besides its properties: `ADD CONSTRAINT`
without `IF NOT EXISTS` acts as a lock, of several first starts only one passes
it and the others exit and are restarted; one that dies behind it, or first
starts that leave an older version in the last row, leave a database that no
start can migrate (`Stuck`); with the defaults of the image (release mode, no
billing address) a process migrates the database and then exits.

### Gateway and Listing

`Gateway` is the chain of checks as operators on a request: `Gate` is the
answer of the first check that fails. `WellFormed` and `Permitted` state the
policy it amounts to in their own terms: the middleware fills a map with the
grants in a loop (`FilledMap`), the policy asks for the last grant on a
namespace. `Listing` puts the four queries behind it; each finds the positions
of its rows in the heap, and a page takes those with enough, and not too many,
of the query's rows before them (`OnPage`), counted as `orm.Pager` does, with a
limit of at most `MaxLimit` (1000 in the code) and an offset of at most
`MaxOffset` (1000000). PostgreSQL returns rows in the order of its heap when a
query has no `ORDER BY`, and puts a new row, or the new version of an updated
one, wherever there is room: at the end, or in the place of a version that
nobody needs any more, which pruning and autovacuum set free. So `heap` is a
sequence, `InsertRow` puts a row at any place of it, and `UpdateRow` moves one
to any place. The order of the others does not change; that is an assumption
on the plan (every page a scan from the heap's start, without synchronized
scans) and leaves out `VACUUM FULL` and `CLUSTER`. Page numbers so large that
the offset overflows 64 bits are left out too. A walk counts how often it has
shown each identifier (`seen`) and notes what kinds of statement have run
meanwhile (`writes`). The filters
of a request are ignored as in the code (`server/volumes.go:286`). `ToKube`
leaves out the owner, so `MaskForNonAdmin` has nothing to hide.

### Promises and Accounting

Every property, with the behaviour it is about in the comment above it.
`Promises` holds under overlap and failures; `Accounting` holds what the code
keeps only in some settings, and what it does not keep. It also says what these
settings are (`Apart`, `Alone`, `LooselyApart`, `DeletesOnce`, `NoResets`,
`NoNegatives`) and what requests in progress have done to the accounts by then
(`ProgressInv`, `CoverInv`, `RoomInv`; see the proofs).

## 3. Runs

The runs of `MCVolumeManager` and `MCImports` share two storages (`s1` of size
3 with 1 used, `s2` of size 1), one or two spare names, one namespace, three
labels, two owners, two tariffs (public of 1, private of 2), one seed volume
`l1` of capacity 1 on `s1` with a subscription. The set of calls, the number of
requests, `MaxActive` (requests at one time), `PoolSize` and `Faults` are the
bounds. Requests are symmetric in safety runs.

| Run | Bounds | Shows |
|---|---|---|
| `failures` | 3 requests, `FailureCalls` (one call of each kind, the storage that may be renamed created again in two sizes), pool 4, every failure but `unreadable` | `IInv`, `BillingInv`, `EffectInv`, `ForeignKey`, `NoBillingAfterDelete`, `ImplementsCatalogue` |
| `concurrent` | 3 requests, all operations, pool 4, `kube`, `billing`, `unknown` | `TypeOK`, `UniqueStorageNames`, `UniqueLiveLabels`, `PaidVolumeIsBilled`, `PaidInv`, `DeletedForGood` |
| `serial` | 4 requests, one at a time, `kube`, `commitLost` | `ProgressInv`, `Accounted`, `RoomInv`, `NoOversubscription`, `LiveOnLiveStorage`, `KubeAgrees`, `CapacityNeverShrinks` |
| `overlap` | 3 overlapping creations, resizes to one size, a deletion whose label nobody takes again, a new size, `kube`, `commitLost` | `KubeAgrees`, `KubeInv`, `UsedCoversVolumes`, `CoverInv` |
| `imports` | 2 importers (1 and 2 elements, 1 and 2 attempts), 1 other request (a creation with a label of the body, or a renaming of its storage), 3 at a time, `db`, `commitLost`, `crash` | `ProgressInv`, `ImportedIsThere`, `RetryConverges`, `ImportsInv`, `UsedIsCharged` |
| `liveness` | 3 overlapping requests that wait for each other, pool 2, `kube` | `EveryRequestAnswered` |
| `startup` | 3 processes (chart, debug, image defaults), databases new, of version 2 with and without rows, of today; 1 request each (`MaxInflight`), 2 signals, crashes or failures (`MaxTrouble`) | `TypeOK`, `ServesCompleteSchema`, `VersionTruthful`, `StartsUnlessStuck`, `InterruptedStops` |
| `queries` | 3 volumes, 2 users, 2 namespaces, every route, about 1700 kinds of request; writes in any place; walks of at most 4 pages (`MaxPages`) with `PageSize` 2, `MaxLimit` 1, `MaxOffset` 2 | `GatewayIsPolicy`, `ShowsOnlyVisible`, `WalkComplete`, `ListingInv` |

Three requests are enough for the races the store decides: two contend, a third
changes what they contend for (renames or deletes the storage, deletes the
volume). The seed volume lets a deletion and a resize be the first request.
Four serial requests reach create, resize, delete and re-create of one label.
Capacities 1 to 3 on a storage of size 3 give both answers of every comparison.
Two elements in one body are the least that have a state between them, two
attempts the least that converge. Two troubles let a process die inside
migration 2 while another, restarted one is interrupted. In `queries` the page
size is above the cap of the limit, so pages counted by the wrong one of the two
miss rows; a walk over two rows ends with an empty page at the largest offset;
with a third row no page is empty any more, and every page from the third on
shows that row again. `MaxPages` stops walks after two such pages. That pages of
several rows, the last of them not full, fit together as well is left to the
proof.

Where a property is checked in a narrower setting, the wider one breaks it:

- `PaidVolumeIsBilled` fails when an answer is lost: an unsubscription took
  place and its row is rolled back.
- `KubeAgrees` fails after a refusal by billing, a lost answer, a failed
  commit, an import or a delete-all, when a label is taken again while a deletion
  of the volume before is under way, and when a storage is renamed under a
  creation: nothing in the code puts kubernetes right.
- `UsedIsCharged` (for requests one at a time a part of `Accounted`) fails when resizes overlap with resizes or deletions, when
  deletions of one volume overlap, and after a delete-all or the deletion of a
  storage with a creation under way.
- `UsedCoversVolumes`, which asks for less, fails when a resize overlaps a
  rename of its storage, when three resizes of one volume are to two sizes, and
  when two deletions of one volume both get past kubernetes, because an answer
  cannot be read or the label is taken again in between.
- `NoOversubscription` also fails when an existing storage is created again: its
  size is set whatever is on it (`postgres/storage.go:22`).
- `CapacityNeverShrinks` fails when two resizes of one volume overlap.
- `NoBillingAfterDelete` fails with `unreadable` answers: an unsubscription
  that billing refused counts as done.
- `WalkComplete` fails when a row is updated or deleted during the walk. Next to
  creations it promises that no volume is missed, not that none is shown twice:
  a row that comes in before the next page pushes one already shown onto it. It
  says nothing of walks that never come to an empty page, as in a table that is
  larger than the largest offset.
- `ImportedIsThere` speaks of bodies that nobody deletes from meanwhile.

### Disagreements

Four runs end in a violation. Each checks one statement that a message or the
API description makes of the program:

| Run | Property | What happens |
|---|---|---|
| `oversubscribed` | `NoOversubscription` | two creations read the same free space and both reserve it |
| `deleteallstarved` | `DeleteAllDeletes` | delete-alls hold all connections, find none for their list, report success |
| `droppedstorage` | `LiveOnLiveStorage` | a storage is deleted under a volume being created |
| `uservolumes` | `UserVolumesListed` | `GET /volumes` asks for access to a namespace it does not have |

### Mutants

The definitions named `Mutant...`, each placed before the definition it varies,
are plausible errors of the code (an index forgotten, a check dropped, an error
ignored, a cascade forgotten). Nothing uses them; replacing the definition
named in `PROJECT.json` by its mutant makes the run report the property
violated, so no property holds by the shape of the model alone.

### Fairness

`FairSpec` asks weak fairness of the steps of each request, `WF_vars(Step(r))`:
the Go scheduler runs every goroutine, PostgreSQL finishes every statement whose
locks are free, the pool gives up after its timeout, and a call to a service
returns. The last is an assumption about the network: the clients set no
timeout. No fairness is asked of clients, so a request may never be sent. Row
locks are not granted in order here; weak fairness suffices because a request
sends each statement once and the holders of the locks end.

`Startup!FairSpec` asks weak fairness of the start of each process (kubernetes
restarts a container that has ended, the runtime and the database go on) and of
the end of a shutdown (the timer of `context.WithTimeout`). It asks nothing of
clients or of the requests in progress: `InterruptedStops` holds although a
request may hang.

## 4. Proofs

Assumptions: those named in the modules. `IdsDistinct`, `SeedsTyped`,
`SeedsConsistent`, `ServicesTyped`, `SeedPaidLive`, `CallsTyped`, `CallsBound`,
`ListedDistinct`: the constants have their types and the blanks differ from
what they stand in for, the seed rows satisfy the constraints of the migrations,
calls satisfy the bindings. `ImportsTyped` and `SlotsDistinct`: every element
runs as a request of its own whenever it is sent. `DatabasesTyped` and
`BoundsTyped`: a database starts with what its version claims. `UsersNamed`,
`IncomingTyped`, `PagesTyped`: an empty header is no user, requests are
records of strings and lists of grants, a page and the capped limit are of one
row at least. The number of requests, storages, labels, importers, processes,
grants, volumes, rows per page and pages, the caps of the pager, the pool size, `MaxActive` and the failures are arbitrary, unless a theorem says otherwise.

### Labels, deletions, billing

| Theorem of `VolumeManagerProofs` | States |
|---|---|
| `Inductiveness` | `Spec => []IInv` |
| `TypesKept` | `Spec => []TypeOK` |
| `LabelsUnique` | `Spec => []UniqueLiveLabels` |
| `DeletionsFinal` | `Spec => DeletedForGood` |
| `BillingInvariant` | `Spec => []BillingInv`, if `"unreadable" \notin Faults` |
| `DeletedNotBilled` | `Spec => []NoBillingAfterDelete`, if `"unreadable" \notin Faults` |

The argument. Whether committed rows keep a promise at a commit depends on the
uncommitted versions the commit installs, so the invariant speaks of both.
`IInv` is the conjunction of

- `TypeOK`;
- `LocalsFit`: what the `pc` of a request says of its call and its locals (a
  step that names a storage has one, a resize is about one existing row);
- `DirtyFits`: an uncommitted version belongs to a transaction past its last
  write, keeps the label and owner of its row, and does not revive it;
- `RowsFresh`: the row a request will insert does not exist before;
- `UniqueVersions`: no two rows have live versions, committed or not, with one
  label. This is the strengthening that makes `UniqueLiveLabels` inductive:
  the insert waits for undecided versions, and so never writes a second one.

`VolumeManagerProofs` begins with what each statement does to the types of the
tables. It then has one lemma per part of the invariant
(`StepStoreTyped`, `StepLocalsFit`, `StepDirtyFits`, `StepRowsFresh`,
`StepUniqueVersions`), based on three facts about steps: which rows a step may
write (`StepRowOutcome`), that it leaves other requests alone (`StepShape`,
`OthersStay`), and that committed rows never disappear (`RowsStay`).
`DeletedForGood` follows from `DirtyFits` at a commit. `NoBillingAfterDelete`
needs `DeletedUnsubscribed` (together `BillingInv`): a version about to be
committed as deleted is unsubscribed, or its transaction is at a step before the
unsubscription and has the row in its list.

### Names, references, and the refinement

| Theorem | States |
|---|---|
| `EffectProofs!EffectInvariant` | `Spec => []EffectInv` |
| `EffectProofs!StorageNamesUnique` | `Spec => []UniqueStorageNames` |
| `EffectProofs!ReferencesHold` | `Spec => []ForeignKey` |
| `CatalogueProofs!CatalogueImplemented` | `Spec => ImplementsCatalogue` |

The argument. `UniqueNames` extends the names to uncommitted versions, as
`UniqueVersions` does for labels. The foreign key is deferred, so between two
statements of a renaming a volume may name a storage that is not there; it holds
of committed rows because the commit checks what it installs, and because a
renaming holds every volume of its storage until it commits (the last part of
`Wrote`: this is where `Cascade` is needed). The names of storages only change
by a commit, so rows that are not touched keep their reference.

For the refinement, `EffectInv` turns a commit into an effect of the catalogue:
the versions it installs are exactly those of its transaction (`Wrote`), each is
what the call makes of the committed row (`VolumeVersionsFit`,
`StorageVersionsFit`), and label and storage are free or known at that moment
(`UniqueVersions`, `UniqueNames`, `ReferencesExist`). One lemma per method shows
it (`CreationShows` and so on), a refusal is a `Decline`, a crash a `CutOff`,
and any other step leaves committed rows, calls and replies alone, a stutter.

### Subscriptions

| Theorem of `EffectProofs` | States, if `Reliable` |
|---|---|
| `PaidInvariant` | `Spec => []PaidInv` |
| `PaidStaysBilled` | `Spec => []PaidVolumeIsBilled` |

`Reliable`: no call loses its answer or is answered unreadably, no statement
fails for reasons of its own, no process stops (see `PaidVolumeIsBilled` in
section 3). `PaidInv` follows the subscription from the call of the creation to
that of the deletion; the deletion that unsubscribes holds the row, so no other
one can, and commits.

### The accounts of space

| Theorem of `AccountProofs` | States |
|---|---|
| `ProgressKept` | `Spec /\ []Apart => []ProgressInv` |
| `AccountsBalance` | `Spec /\ Accounted /\ []Apart => []Accounted`, without delete-alls, `RowId` finite |
| `FreeSpaceIsRight` | the same for `[]UsedIsCharged` |
| `UsedCovers` | `Spec /\ Covered /\ [](StoragesApart /\ LooselyApart /\ DeletesOnce /\ NothingOwed) => [](CoverInv /\ UsedCoversVolumes)`, `RowId` finite |
| `KubernetesProofs!DeletedOnce` | `Spec => []DeletesOnce`, if `Orderly` |
| `KubernetesProofs!UsedCoversOrderly` | `Spec /\ Covered /\ [](StoragesApart /\ LooselyApart) => [](CoverInv /\ UsedCoversVolumes)`, if `Orderly`, `RowId` finite |
| `VolumesOnLiveStorages` | `Spec /\ LiveOnLiveStorage /\ []StoragesApart => []LiveOnLiveStorage` |
| `VolumesNeverShrink` | `Spec /\ []VolumesApart => CapacityNeverShrinks` |
| `OneAtATime` | `Spec => []Alone`, if `MaxActive = 1`, `Requests` finite |
| `SerialAccounts` | `Spec /\ Accounted => [](Accounted /\ UsedIsCharged)`, if moreover there are no delete-alls |
| `SerialRoom` | `Spec /\ Fitting /\ [](NoResets /\ NoNegatives) => []RoomInv`, one at a time, neither delete-alls nor imports |
| `SerialFits` | `Spec /\ Accounted /\ Fitting /\ [](NoResets /\ NoNegatives) => []NoOversubscription`, likewise |
| `SerialVolumes` | `CapacityNeverShrinks`, and `LiveOnLiveStorage` if it holds at first, one at a time |

Failures and crashes are arbitrary, but where `Orderly` is assumed. The conditions are what the
code needs and does not enforce; section 3 has what happens without each:

- `VolumesApart`: a volume is handled by one deletion or resize at a time, and not
  while all volumes are deleted or a storage is renamed. Otherwise a capacity or a
  storage name read earlier is stale when "used" is moved by it.
- `StoragesApart`: a storage is not deleted while volumes are created or a storage is
  renamed, and not renamed under a creation, unless the old name is never used
  again. Otherwise a volume commits on a deleted storage, or the space is
  reserved under a name that has become that of another one.
- `LooselyApart`: no storage is renamed next to a deletion or resize, and of one
  volume resizes that overlap are to one size. `DeletesOnce`: a deletion past its call
  to kubernetes has the volume still alive.
- no delete-alls: they give no space back (`postgres/volume.go:137`).
- `NoResets`: `CreateStorage` for a known name sets its size without a look at
  what is used. `NoNegatives`: giving a volume back takes no space; the
  bindings (`models/volume.go:116`) and tariffs see to that.
  `NothingOwed`: that, or no delete-alls.
- `Accounted`, `Covered`, `Fitting`: the tables at the start are right.

Creations overlap freely with each other and with deletions and resizes of other
volumes, on one storage too. Run `serial` satisfies all of these conditions, run
`imports` satisfies `Apart` with requests that overlap, run `overlap` those of
`UsedCoversOrderly` with requests that handle one volume.

The argument. At a commit, "used" of one storage and one volume row change
together, in versions written by different statements. `ChargesOwn` says that a
transaction past its charge holds exactly the row of its storage and has moved
"used" by `Move`: the capacity it creates, the difference it resizes by, minus what
it deletes. For that it must know its volume (`KnowsVolume`: what it has read is still
so, which is where `VolumesApart` is needed) and its storage (`KeepsPlace`: the name it
has chosen is that of a live storage, or of none for good, in which case the
foreign key refuses the commit). `WritesCharged` relates the volume row it writes to
what it has charged, `DropsEmpty` says that a storage being dropped stays empty.

When requests about one volume overlap, what they have read is no longer so, but
it errs on one side (`RemembersVolume`): a deletion gives back no more than the volume
has, because resizes only make it larger; a resize asks for no less than the volume has,
and compares with no more than it had, so it charges too much rather than too little
(`MemoryInv` replaces `KnowledgeInv`; `ShareCovers` does the comparison at the commit). A
resize of a volume that is gone still charges something, which is on the safe
side. A second deletion would not be: that `DeletesOnce` holds is shown with
`KubeInv`, since kubernetes has a volume only while its row is settled as live, and
the deletion that has written the row keeps others from settling it.

The sum in `Charged` is the fold of the community modules. Induction over a finite
set is replaced by a smallest counterexample (`SmallestSubset`: the strict subsets
of a finite set are well-founded): the fold is unfolded into a table of the sums over
all subsets (`IsTally`), and the table is shown not to depend on the order in
which elements are taken out, to change by the difference when one number changes,
and to stay if all others do. Each commit then is one of: a row more, a row less, a row of
another capacity, all rows of a storage under a new name, or none.

For `SerialFits`, `RoomInv` says that the room a request has looked at (`HasRoom`,
`ResizeFits`, the comparison with the new size) is still there when it is taken;
only another request's commit could take it, and there is none.

### Kubernetes

| Theorem of `KubernetesProofs` | States, if `Orderly` |
|---|---|
| `KubeInvariant` | `Spec => []KubeInv` |
| `KubernetesAgrees` | `Spec => []KubeAgrees` |

The argument. Under `KubeInv` a call to kubernetes changes one settled row, its
own, and leaves there what it has told kubernetes (`TellsCapacity`); a commit
makes settled rows committed and changes none; any other step touches no settled
row. A deletion that finds its label in use by another volume would remove the
wrong one from kubernetes: `HoldsLabel` is why it cannot under `Orderly`. And
because a renaming could make a commit fail after the call, `KnowsStorage` and
its counterpart for uncommitted rows say that the references of a creation hold.

### Imports

| Theorem of `ImportProofs` | States |
|---|---|
| `ImportsStayFit` | `ImportsSpec => []ImportsFit` |
| `ImportsAreRequests` | `ImportsSpec => Spec` |
| `ImportsInvariant` | `ImportsSpec => []ImportsInv`, if `Undisturbed` |
| `ReportsTrue` | `ImportsSpec => []ImportedIsThere`, if `Undisturbed` |
| `RetriesConverge` | `ImportsSpec => []RetryConverges`, if `Undisturbed` |

`ImportsAreRequests` carries every theorem about `Spec` over to importers. A
report is true because an answer is (`Truthful`): `ok` comes from a commit that
has installed the row, `exists` from a step that has seen it, and under
`Undisturbed` no later step takes it away.

### Start

| Theorem of `StartupProofs` | States |
|---|---|
| `StartupTyped` | `Spec => []TypeOK` |
| `StartupInvariant` | `Spec => []StartupInv` |
| `VersionStaysTruthful` | `Spec => []VersionTruthful` |
| `CompleteWhenServing` | `Spec => []ServesCompleteSchema` |

The argument. Neither property is inductive: a process that inserts version `n`
knows nothing of the schema unless it remembers that its statements took place.
`StartupInv` therefore says, for the step of every process, which parts of the
schema are there (`Holds`): before statement `k` of migration `m`, those of the
earlier migrations and of the earlier statements (`Before`); when recording,
those of the migration; afterwards, all. A process that starts relies on
`VersionTruthful` for the migrations it skips. The schema only grows, so the
steps of one process keep what the others rely on, although versions go back.

### Gateway and listings

| Theorem of `ListingProofs` | States |
|---|---|
| `ListingInvariant` | `Spec => []ListingInv` |
| `GatewayInvariant` | `Spec => []GatewayIsPolicy` |
| `VisibleInvariant` | `Spec => []ShowsOnlyVisible` |
| `WalkInvariant` | `Spec => []WalkComplete` |

The argument for the gateway. The loop that fills the map is unfolded into a
table of the maps after each grant (`IsFilling`; a recursive function on an
interval is shown to exist by a smallest counterexample, `Smallest`, since
induction is out of the prover's reach), in which the last grant on a namespace is the
one that counts (`LastGrantCounts`). The chain of checks is then compared with
`WellFormed` and `Permitted` route by route (`GateIsPolicy`).

The argument for the walk. A row's rank is the number of live rows before it
(`Before`); a page takes the rows of the next `GetLimit(PageSize)` ranks, if the
offset is not cut (`NextOffset`, `NextPageFits`). An insert, wherever it puts
the new row, keeps the order of the others and only raises ranks
(`InsertedAt`, `BeforeGrows`), so a volume that has not been shown stays ahead
of the next page (`NoneMissed`). While nothing is written, the rows of a rank
below the next page have been shown and no others, and once each if no row is
out of reach (`NoneTwice`, `InReach`). When a page is empty there is no row of
the rank at which it begins, and, as ranks have no gaps (`NoGap`), none of a
higher one: every volume that was expected has been shown, and the table is
within reach. An empty page at the largest offset says the same of that offset,
which is why the cap cannot cut a walk short. An update may move a row to a
lower rank, and then `WalkFits` promises nothing; `IdsUnique`, which the
counting of shown rows needs, survives it (`RemovedAt`, `UpdateFits`).

`ShowsOnlyVisible` follows from `LastFits` (an answer is what the queries give on the
table, which stands still until it is read), the gateway's theorem, and the
fact that no filter a user's route uses lets deleted rows pass.

### Only model-checked

- `Accounted` and the others of its section without their conditions: they are
  false then, and four runs show the most telling cases.
- `EveryRequestAnswered`, `StartsUnlessStuck`, `InterruptedStops`: liveness under
  fairness and ENABLED are out of the prover's reach.

## 5. Not modelled

- `GetStorages`: one query without parameters; the storage listing has no
  filter, page or access rule beyond `RequireAdminRole`.
- Bindings and validation of bodies beyond what `CallsBound` says; status
  codes; texts of errors and their translation; `errors.go` is generated.
- `Rename` of the billing client, `IsAdmin` of the middleware and the down
  direction of the migrations: nothing calls them.
- What the dummy clients answer: constants.
- CORS, the status page, static files, logging.
- Charts, Dockerfile, vendored libraries, beyond what the server relies on.

## 6. Plan

1. done: the store, the services, the operations, their promises, the accounts,
   and the proofs of labels, deletions and billing;
2. done: `VolumeCatalog` and the refinement, `Imports`, `Startup` and its proofs,
   `Gateway` and `Listing`;
3. done: the proofs of names and references, of the refinement, of subscriptions,
   of kubernetes, of imports and of the accounts;
4. done: the proofs of the gateway, the listings and the walk, of the room
   that serial requests find;
5. done: the proof that space is not counted less than it is used when requests about
   one volume overlap;
6. left: `ConnPool`, the pool on its own, with its queue and timeouts, to bound how many
   delete-alls can starve each other.
