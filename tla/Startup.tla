------------------------------- MODULE Startup -------------------------------
(***************************************************************************)
(* The life of volume-manager processes that share one database (package   *)
(* main, postgres.Connect, pkg/database/postgres/migrations): configure,   *)
(* migrate, build the clients, listen, stop on a signal.  Kubernetes       *)
(* starts a process again when it has ended.  go-pg/migrations has neither *)
(* a transaction nor a lock: it reads the version once and then runs each  *)
(* later migration, statement by statement, and inserts its version.       *)
(***************************************************************************)
EXTENDS Naturals, Sequences

CONSTANTS
  Processes,
  Config,        \* process -> [mode, level, billing, kube]: flags, "" when an address is not set
  Databases,     \* what the database may hold at first: [schema, version, rows]
  MaxInflight,   \* bound: requests a process serves at one time
  MaxTrouble     \* bound: signals, crashes and failed statements

VARIABLES
  schema,        \* parts of the schema that exist
  version,       \* version in the last row of migrations_volume
  rows,          \* does the table storages have rows?
  process,       \* process -> its step and local variables
  trouble        \* signals, crashes and failures so far

database == <<schema, version, rows>>
vars == <<database, process, trouble>>

(* The migrations 1 to 4, as the statements of each.                       *)
Migrations ==
  <<<<"createStorages">>, <<"createVolumes", "addForeignKey", "addUniqueIndex">>,
    <<"addDeleted">>, <<"textNsId">>>>

Latest == Len(Migrations)

(* What a statement brings.  The tables are created from the models of     *)
(* today, which have the columns that migrations 3 and 4 bring to old ones.*)
Brings(s) ==
  CASE s = "createStorages" -> IF "storages" \in schema THEN {} ELSE {"storages", "deleted"}
    [] s = "createVolumes"  -> IF "volumes" \in schema THEN {} ELSE {"volumes", "textNsId"}
    [] s = "addForeignKey"  -> {"foreignKey"}
    [] s = "addUniqueIndex" -> {"uniqueIndex"}
    [] s = "addDeleted"     -> {"deleted"}
    [] s = "textNsId"       -> {"textNsId"}

(* What migration n and those before it leave behind.                      *)
Provided(n) ==
  LET parts == <<{"storages"}, {"volumes", "foreignKey", "uniqueIndex"}, {"deleted"}, {"textNsId"}>>
  IN  UNION {parts[k] : k \in 1..n}

(* Mutant: the column is added without IF NOT EXISTS.                      *)
MutantAddedTwice(s) ==
  \/ s = "addForeignKey" /\ "foreignKey" \in schema
  \/ s = "addUniqueIndex" /\ "uniqueIndex" \in schema
  \/ s = "addDeleted" /\ ("deleted" \in schema \/ rows)

(* ADD CONSTRAINT and CREATE INDEX have no IF NOT EXISTS, and a column     *)
(* NOT NULL without a default cannot be added to a table with rows.        *)
Impossible(s) ==
  \/ s = "addForeignKey" /\ "foreignKey" \in schema
  \/ s = "addUniqueIndex" /\ "uniqueIndex" \in schema
  \/ s = "addDeleted" /\ "deleted" \notin schema /\ rows

(* A database may be of any release, its schema and its version agree.     *)
ASSUME DatabasesTyped ==
  \A d \in Databases :
    /\ d.schema \subseteq Provided(Latest) /\ d.rows \in BOOLEAN
    /\ d.version \in 0..Latest /\ Provided(d.version) \subseteq d.schema

ASSUME BoundsTyped == MaxInflight \in Nat /\ MaxTrouble \in Nat

-----------------------------------------------------------------------------
Off == [pc |-> "off", migration |-> 0, statement |-> 0, subscribed |-> FALSE, inflight |-> 0]

TypeOK ==
  /\ schema \subseteq Provided(Latest)
  /\ version \in 0..Latest
  /\ rows \in BOOLEAN
  /\ trouble \in 0..MaxTrouble
  /\ process \in [Processes ->
       [pc : {"off", "connecting", "migrating", "recording", "building", "serving", "draining"},
        migration : 0..Latest, statement : 0..3, subscribed : BOOLEAN, inflight : 0..MaxInflight]]

At(p, step) == process[p].pc = step
Running(p) == ~At(p, "off")

Goto(p, step) == process' = [process EXCEPT ![p].pc = step]
Exit(p) == process' = [process EXCEPT ![p] = Off]

(* Mutant: one migration too many.                                         *)
MutantContinueOnce(p, n) ==
  process' = [process EXCEPT ![p] = [@ EXCEPT !.pc = "migrating", !.migration = n + 1, !.statement = 1]]

(* The next migration after version n, or none.                            *)
Continue(p, n) ==
  process' = [process EXCEPT ![p] = IF n < Latest
    THEN [@ EXCEPT !.pc = "migrating", !.migration = n + 1, !.statement = 1]
    ELSE [@ EXCEPT !.pc = "building", !.migration = 0, !.statement = 0]]

Statement(p) == Migrations[process[p].migration][process[p].statement]

-----------------------------------------------------------------------------
(* setupLogger: logrus knows the levels 0 (panic) to 5 (debug).            *)
LoggerAccepts(c) == c.mode = "debug" \/ (c.mode \in {"release", ""} /\ c.level \in 0..5)

(* setupBillingClient, setupKubeAPIClient                                  *)
Client(c, addr) ==
  IF addr # "" THEN "http" ELSE IF c.mode = "debug" THEN "dummy" ELSE "missing"

ClientsFound(c) == "missing" \notin {Client(c, c.billing), Client(c, c.kube)}

Launch(p) ==
  /\ At(p, "off")
  /\ LoggerAccepts(Config[p])
  /\ Goto(p, "connecting")
  /\ UNCHANGED <<database, trouble>>

Connect(p) ==
  /\ At(p, "connecting")
  /\ Continue(p, version)
  /\ UNCHANGED <<database, trouble>>

(* Mutant: the error of the migrations is logged and not returned.         *)
MutantErrorIgnored(p) ==
  /\ At(p, "migrating")
  /\ Impossible(Statement(p))
  /\ Goto(p, "building")
  /\ UNCHANGED <<database, trouble>>

StatementRefused(p) ==
  /\ At(p, "migrating")
  /\ Impossible(Statement(p))
  /\ Exit(p)
  /\ UNCHANGED <<database, trouble>>

RunStatement(p) ==
  /\ At(p, "migrating")
  /\ ~Impossible(Statement(p))
  /\ schema' = schema \cup Brings(Statement(p))
  /\ process' = [process EXCEPT ![p] = IF @.statement < Len(Migrations[@.migration])
       THEN [@ EXCEPT !.statement = process[p].statement + 1] ELSE [@ EXCEPT !.pc = "recording"]]
  /\ UNCHANGED <<version, rows, trouble>>

(* Mutant: every process records that it is up to date.                    *)
MutantRecordLatest(p) ==
  /\ At(p, "recording")
  /\ version' = Latest
  /\ Continue(p, process[p].migration)
  /\ UNCHANGED <<schema, rows, trouble>>

(* An INSERT: the version may go back when processes start together.       *)
RecordVersion(p) ==
  /\ At(p, "recording")
  /\ version' = process[p].migration
  /\ Continue(p, process[p].migration)
  /\ UNCHANGED <<schema, rows, trouble>>

(* The clients are set up after the database.                              *)
BuildServer(p) ==
  /\ At(p, "building")
  /\ IF ClientsFound(Config[p]) THEN Goto(p, "serving") ELSE Exit(p)
  /\ UNCHANGED <<database, trouble>>

(* signal.Notify runs next to the goroutine that listens.                  *)
SubscribeSignal(p) ==
  /\ At(p, "serving")
  /\ ~process[p].subscribed
  /\ process' = [process EXCEPT ![p].subscribed = TRUE]
  /\ UNCHANGED <<database, trouble>>

-----------------------------------------------------------------------------
Accept(p) ==
  /\ At(p, "serving")
  /\ process[p].inflight < MaxInflight
  /\ process' = [process EXCEPT ![p].inflight = @ + 1]
  /\ rows' \in {rows, TRUE}
  /\ UNCHANGED <<schema, version, trouble>>

FinishRequest(p) ==
  /\ process[p].inflight > 0
  /\ process' = [process EXCEPT ![p].inflight = @ - 1]
  /\ UNCHANGED <<database, trouble>>

(* SIGINT: Shutdown, once it is subscribed to.                             *)
Interrupt(p) ==
  /\ Running(p) /\ ~At(p, "draining")
  /\ trouble < MaxTrouble /\ trouble' = trouble + 1
  /\ IF process[p].subscribed THEN Goto(p, "draining") ELSE Exit(p)
  /\ UNCHANGED database

Drained(p) ==
  /\ At(p, "draining")
  /\ process[p].inflight = 0
  /\ Exit(p)
  /\ UNCHANGED <<database, trouble>>

(* Mutant: Shutdown without a deadline.                                    *)
MutantDrainForever(p) ==
  /\ At(p, "draining")
  /\ process[p].inflight = 0
  /\ Exit(p)
  /\ UNCHANGED <<database, trouble>>

(* Five seconds are over: the requests in progress are cut off.            *)
DrainTimeout(p) ==
  /\ At(p, "draining")
  /\ process[p].inflight > 0
  /\ Exit(p)
  /\ UNCHANGED <<database, trouble>>

(* SIGTERM, a crash, a statement that fails or a port that is taken.       *)
Die(p) ==
  /\ Running(p)
  /\ trouble < MaxTrouble /\ trouble' = trouble + 1
  /\ Exit(p)
  /\ UNCHANGED database

Start(p) ==
  \/ Launch(p) \/ Connect(p) \/ StatementRefused(p) \/ RunStatement(p)
  \/ RecordVersion(p) \/ BuildServer(p) \/ SubscribeSignal(p)

Stop(p) == Drained(p) \/ DrainTimeout(p)

Next == \E p \in Processes :
  Start(p) \/ Stop(p) \/ Accept(p) \/ FinishRequest(p) \/ Interrupt(p) \/ Die(p)

Init ==
  /\ \E d \in Databases : schema = d.schema /\ version = d.version /\ rows = d.rows
  /\ process = [p \in Processes |-> Off]
  /\ trouble = 0

Spec == Init /\ [][Next]_vars

(* Kubernetes restarts, the runtime and the database go on, the timer runs *)
(* out; nothing makes a client send or a request end.                      *)
FairSpec == Spec /\ \A p \in Processes : WF_vars(Start(p)) /\ WF_vars(Stop(p))

-----------------------------------------------------------------------------
(* A process only serves on the schema its statements are written for,     *)
(* whatever the others that migrate the same database did before or fail   *)
(* to do now: Connect returns the error of migrations.Run.                 *)
ServesCompleteSchema ==
  \A p \in Processes : At(p, "serving") \/ At(p, "draining") => Provided(Latest) \subseteq schema

(* The recorded version never claims a migration that is not there: it is  *)
(* inserted after the statements, and may go back but not run ahead.       *)
VersionTruthful == Provided(version) \subseteq schema

(* Nobody is past the foreign key of migration 2 and will record it.       *)
Passed(p) ==
  \/ process[p].migration > 2
  \/ process[p].migration = 2 /\ (process[p].statement = 3 \/ At(p, "recording"))

(* The two ways a database is beyond these migrations: the foreign key is  *)
(* there and migration 2 is not recorded; a version 2 with rows.           *)
Stuck ==
  \/ version < 2 /\ "foreignKey" \in schema /\ \A p \in Processes : ~Passed(p)
  \/ version = 2 /\ "deleted" \notin schema /\ rows

(* Processes that are stopped at any point and start together on one       *)
(* database end with one of them serving, or else with a database that no  *)
(* start can migrate; nothing in between.                                  *)
StartsUnlessStuck == <>[]Stuck \/ []<>(\E p \in Processes : At(p, "serving"))

(* A process told to stop does, though calls to kubernetes and billing     *)
(* have no timeout and a request may hang for ever.                        *)
InterruptedStops == \A p \in Processes : At(p, "draining") ~> At(p, "off")
=============================================================================
