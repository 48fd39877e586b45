---------------------------- MODULE StartupProofs ----------------------------
(***************************************************************************)
(* Whatever number of processes start, stop and fail on one database: the  *)
(* recorded version is truthful and who serves has the complete schema.    *)
(* The invariant says what a process that migrates can rely on.            *)
(***************************************************************************)
EXTENDS Startup, TLAPS

(* Parts that are there before statement k of migration m runs.            *)
Before(m, k) ==
  Provided(m - 1) \cup (IF m = 2 /\ k > 1 THEN {"volumes"} ELSE {})
                  \cup (IF m = 2 /\ k > 2 THEN {"foreignKey"} ELSE {})

Places == {<<1, 1>>, <<2, 1>>, <<2, 2>>, <<2, 3>>, <<3, 1>>, <<4, 1>>}

(* What the step of a process says of the schema.                          *)
Holds(s) ==
  /\ s.pc = "migrating" =>
       /\ <<s.migration, s.statement>> \in Places
       /\ Before(s.migration, s.statement) \subseteq schema
  /\ s.pc = "recording" => s.migration \in 1..4 /\ Provided(s.migration) \subseteq schema
  /\ s.pc \in {"building", "serving", "draining"} => Provided(4) \subseteq schema
  /\ s.subscribed => s.pc \in {"serving", "draining"}

States == [pc : {"off", "connecting", "migrating", "recording", "building", "serving", "draining"},
           migration : Nat, statement : Nat, subscribed : BOOLEAN, inflight : Nat]

StartupInv ==
  /\ process \in [Processes -> States]
  /\ version \in 0..4
  /\ VersionTruthful
  /\ \A p \in Processes : Holds(process[p])

-----------------------------------------------------------------------------
LEMMA ProvidedParts ==
  /\ Provided(0) = {}
  /\ Provided(1) = {"storages"}
  /\ Provided(2) = {"storages", "volumes", "foreignKey", "uniqueIndex"}
  /\ Provided(3) = {"storages", "volumes", "foreignKey", "uniqueIndex", "deleted"}
  /\ Provided(4) = {"storages", "volumes", "foreignKey", "uniqueIndex", "deleted", "textNsId"}
<1> DEFINE parts == <<{"storages"}, {"volumes", "foreignKey", "uniqueIndex"}, {"deleted"}, {"textNsId"}>>
<1>0. /\ parts[1] = {"storages"} /\ parts[2] = {"volumes", "foreignKey", "uniqueIndex"}
      /\ parts[3] = {"deleted"} /\ parts[4] = {"textNsId"}
  OBVIOUS
<1>1. /\ 1..0 = {} /\ 1..1 = {1} /\ 1..2 = {1, 2} /\ 1..3 = {1, 2, 3} /\ 1..4 = {1, 2, 3, 4}
  OBVIOUS
<1>2. \A n : Provided(n) = UNION {parts[k] : k \in 1..n}
  BY DEF Provided
<1> HIDE DEF parts
<1>3. Provided(0) = {}
  BY <1>1, <1>2
<1>4. Provided(1) = parts[1]
  BY <1>1, <1>2
<1>5. Provided(2) = parts[1] \cup parts[2]
  BY <1>1, <1>2
<1>6. Provided(3) = parts[1] \cup parts[2] \cup parts[3]
  BY <1>1, <1>2
<1>7. Provided(4) = parts[1] \cup parts[2] \cup parts[3] \cup parts[4]
  BY <1>1, <1>2
<1> QED BY <1>0, <1>3, <1>4, <1>5, <1>6, <1>7

LEMMA MigrationShape ==
  /\ Latest = 4
  /\ Len(Migrations[1]) = 1 /\ Len(Migrations[2]) = 3 /\ Len(Migrations[3]) = 1 /\ Len(Migrations[4]) = 1
  /\ Migrations[1][1] = "createStorages" /\ Migrations[2][1] = "createVolumes"
  /\ Migrations[2][2] = "addForeignKey" /\ Migrations[2][3] = "addUniqueIndex"
  /\ Migrations[3][1] = "addDeleted" /\ Migrations[4][1] = "textNsId"
BY DEF Migrations, Latest

(* A statement at its place completes what the next place relies on.       *)
LEMMA StatementDone ==
  ASSUME NEW m, NEW k, <<m, k>> \in Places, Before(m, k) \subseteq schema
  PROVE  LET after == schema \cup Brings(Migrations[m][k])
         IN  IF k < Len(Migrations[m])
             THEN <<m, k + 1>> \in Places /\ Before(m, k + 1) \subseteq after
             ELSE m \in 1..4 /\ Provided(m) \subseteq after
<1>1. CASE <<m, k>> = <<1, 1>>
  BY <1>1, ProvidedParts, MigrationShape DEF Places, Before, Brings
<1>2. CASE <<m, k>> = <<2, 1>>
  BY <1>2, ProvidedParts, MigrationShape DEF Places, Before, Brings
<1>3. CASE <<m, k>> = <<2, 2>>
  BY <1>3, ProvidedParts, MigrationShape DEF Places, Before, Brings
<1>4. CASE <<m, k>> = <<2, 3>>
  BY <1>4, ProvidedParts, MigrationShape DEF Places, Before, Brings
<1>5. CASE <<m, k>> = <<3, 1>>
  BY <1>5, ProvidedParts, MigrationShape DEF Places, Before, Brings
<1>6. CASE <<m, k>> = <<4, 1>>
  BY <1>6, ProvidedParts, MigrationShape DEF Places, Before, Brings
<1> QED BY <1>1, <1>2, <1>3, <1>4, <1>5, <1>6 DEF Places

LEMMA ProvidedGrows ==
  ASSUME NEW m \in 1..4, NEW n \in 0..m
  PROVE  Provided(n) \subseteq Provided(m)
BY ProvidedParts

(* The place after migration n, or the end.                                *)
LEMMA ContinueHolds ==
  ASSUME StartupInv, NEW p \in Processes, NEW n \in 0..4, Provided(n) \subseteq schema,
         Continue(p, n), schema' = schema, ~process[p].subscribed
  PROVE  /\ process' \in [Processes -> States]
         /\ \A q \in Processes : Holds(process[q])'
<1>1. process[p] \in States
  BY DEF StartupInv
<1>2. CASE n < 4
  <2>1. process' = [process EXCEPT ![p] =
          [process[p] EXCEPT !.pc = "migrating", !.migration = n + 1, !.statement = 1]]
    BY <1>2, MigrationShape DEF Continue, StartupInv
  <2>2. <<n + 1, 1>> \in Places /\ Before(n + 1, 1) = Provided(n)
    BY <1>2 DEF Places, Before
  <2>3. process'[p] \in States /\ Holds(process[p])'
    <3>1. process'[p] = [process[p] EXCEPT !.pc = "migrating", !.migration = n + 1, !.statement = 1]
      BY <2>1 DEF StartupInv
    <3>2. /\ process'[p].pc = "migrating" /\ process'[p].migration = n + 1
          /\ process'[p].statement = 1 /\ ~process'[p].subscribed
      BY <1>1, <3>1 DEF States
    <3>3. process'[p] = [pc |-> "migrating", migration |-> n + 1, statement |-> 1,
                         subscribed |-> process[p].subscribed, inflight |-> process[p].inflight]
      BY <1>1, <3>1 DEF States
    <3>4. process'[p] \in States
      BY <1>1, <3>3 DEF States
    <3> QED BY <2>2, <3>2, <3>4 DEF Holds
  <2> QED BY <2>1, <2>3 DEF StartupInv, Holds
<1>3. CASE n = 4
  <2>1. process' = [process EXCEPT ![p] =
          [process[p] EXCEPT !.pc = "building", !.migration = 0, !.statement = 0]]
    BY <1>3, MigrationShape DEF Continue, StartupInv
  <2>2. process'[p] \in States /\ Holds(process[p])'
    <3>1. process'[p] = [process[p] EXCEPT !.pc = "building", !.migration = 0, !.statement = 0]
      BY <2>1 DEF StartupInv
    <3>2. process'[p].pc = "building" /\ ~process'[p].subscribed
      BY <1>1, <3>1 DEF States
    <3>3. process'[p] = [pc |-> "building", migration |-> 0, statement |-> 0,
                         subscribed |-> process[p].subscribed, inflight |-> process[p].inflight]
      BY <1>1, <3>1 DEF States
    <3>4. process'[p] \in States
      BY <1>1, <3>3 DEF States
    <3> QED BY <1>3, <3>2, <3>4 DEF Holds
  <2> QED BY <2>1, <2>2 DEF StartupInv, Holds
<1> QED BY <1>2, <1>3

LEMMA ExitHolds ==
  ASSUME StartupInv, NEW p \in Processes, Exit(p), schema' = schema
  PROVE  /\ process' \in [Processes -> States]
         /\ \A q \in Processes : Holds(process[q])'
BY DEF StartupInv, Exit, Off, States, Holds

(* Starting.                                                               *)
LEMMA StartKeeps ==
  ASSUME StartupInv, NEW p \in Processes, Start(p)
  PROVE  StartupInv'
<1> USE DEF At, database
<1>0. process[p] \in States /\ Holds(process[p])
  BY DEF StartupInv
<1>1. CASE Launch(p)
  BY <1>1, <1>0 DEF Launch, Goto, StartupInv, VersionTruthful, States, Holds
<1>2. CASE Connect(p)
  BY <1>2, <1>0, ContinueHolds DEF Connect, StartupInv, VersionTruthful, Holds
<1>3. CASE StatementRefused(p)
  BY <1>3, ExitHolds DEF StatementRefused, StartupInv, VersionTruthful
<1>4. CASE RunStatement(p)
  <2> DEFINE m == process[p].migration
             k == process[p].statement
             s == process[p]
  <2>1. /\ <<m, k>> \in Places /\ Before(m, k) \subseteq schema
        /\ schema' = schema \cup Brings(Migrations[m][k])
    BY <1>4, <1>0 DEF RunStatement, Holds, Statement
  <2>2. process' = [process EXCEPT ![p] = IF k < Len(Migrations[m])
          THEN [s EXCEPT !.statement = k + 1] ELSE [s EXCEPT !.pc = "recording"]]
    BY <1>4 DEF RunStatement, StartupInv
  <2>3. schema \subseteq schema'
    BY <2>1
  <2>4. m \in Nat /\ k \in Nat /\ s.pc = "migrating"
    BY <1>4, <1>0 DEF RunStatement, States
  <2>5. process'[p] \in States /\ Holds(process[p])'
    <3>1. CASE k < Len(Migrations[m])
      <4>1. process'[p] = [s EXCEPT !.statement = k + 1]
        BY <2>2, <3>1 DEF StartupInv
      <4>2. <<m, k + 1>> \in Places /\ Before(m, k + 1) \subseteq schema'
        BY <2>1, <3>1, StatementDone
      <4>3. process'[p].migration = m /\ process'[p].statement = k + 1
            /\ process'[p].pc = "migrating" /\ ~process'[p].subscribed
        BY <1>0, <2>4, <4>1 DEF States, Holds
      <4>4. process'[p] \in States
        BY <1>0, <2>4, <4>1 DEF States
      <4> QED BY <4>2, <4>3, <4>4 DEF Holds, Before
    <3>2. CASE ~(k < Len(Migrations[m]))
      <4>1. process'[p] = [s EXCEPT !.pc = "recording"]
        BY <2>2, <3>2 DEF StartupInv
      <4>2. m \in 1..4 /\ Provided(m) \subseteq schema'
        BY <2>1, <3>2, StatementDone
      <4>3. process'[p].migration = m /\ process'[p].pc = "recording" /\ ~process'[p].subscribed
        BY <1>0, <2>4, <4>1 DEF States, Holds
      <4>4. process'[p] \in States
        BY <1>0, <2>4, <4>1 DEF States
      <4> QED BY <4>2, <4>3, <4>4 DEF Holds
    <3> QED BY <3>1, <3>2
  <2>6. \A q \in Processes \ {p} : process'[q] = process[q]
    BY <2>2 DEF StartupInv
  <2>7. process' \in [Processes -> States]
    BY <2>2, <2>5, <2>6 DEF StartupInv
  <2>8. \A q \in Processes : Holds(process[q])'
    BY <2>3, <2>5, <2>6 DEF StartupInv, Holds
  <2>9. version' = version
    BY <1>4 DEF RunStatement
  <2> QED BY <2>3, <2>7, <2>8, <2>9 DEF StartupInv, VersionTruthful
<1>5. CASE RecordVersion(p)
  <2>1. process[p].migration \in 1..4 /\ Provided(process[p].migration) \subseteq schema
        /\ ~process[p].subscribed
    BY <1>5, <1>0 DEF RecordVersion, Holds
  <2> QED BY <2>1, <1>5, ContinueHolds DEF RecordVersion, StartupInv, VersionTruthful
<1>6. CASE BuildServer(p)
  <2>1. CASE Exit(p)
    BY <2>1, <1>6, ExitHolds DEF BuildServer, StartupInv, VersionTruthful
  <2>2. CASE Goto(p, "serving")
    BY <2>2, <1>6, <1>0 DEF BuildServer, Goto, StartupInv, VersionTruthful, States, Holds
  <2> QED BY <2>1, <2>2, <1>6 DEF BuildServer
<1>7. CASE SubscribeSignal(p)
  BY <1>7, <1>0 DEF SubscribeSignal, StartupInv, VersionTruthful, States, Holds
<1> QED BY <1>1, <1>2, <1>3, <1>4, <1>5, <1>6, <1>7 DEF Start

(* Serving and stopping.                                                   *)
LEMMA OthersKeep ==
  ASSUME StartupInv, NEW p \in Processes,
         Stop(p) \/ Accept(p) \/ FinishRequest(p) \/ Interrupt(p) \/ Die(p)
  PROVE  StartupInv'
<1> USE DEF At, database
<1>0. process[p] \in States /\ Holds(process[p])
  BY DEF StartupInv
<1>1. CASE Exit(p) /\ UNCHANGED database
  BY <1>1, ExitHolds DEF StartupInv, VersionTruthful
<1>2. CASE Accept(p)
  BY <1>2, <1>0 DEF Accept, StartupInv, VersionTruthful, States, Holds
<1>3. CASE FinishRequest(p)
  BY <1>3, <1>0 DEF FinishRequest, StartupInv, VersionTruthful, States, Holds
<1>4. CASE Interrupt(p)
  <2>1. CASE process[p].subscribed
    BY <2>1, <1>4, <1>0 DEF Interrupt, Goto, StartupInv, VersionTruthful, States, Holds
  <2> QED BY <2>1, <1>1, <1>4 DEF Interrupt
<1> QED BY <1>1, <1>2, <1>3, <1>4 DEF Stop, Drained, DrainTimeout, Die

THEOREM StartupInvariant == Spec => []StartupInv
<1>1. Init => StartupInv
  BY DatabasesTyped, MigrationShape DEF Init, StartupInv, VersionTruthful, Off, States, Holds
<1>2. StartupInv /\ [Next]_vars => StartupInv'
  <2> SUFFICES ASSUME StartupInv, [Next]_vars PROVE StartupInv'
    OBVIOUS
  <2>1. CASE UNCHANGED vars
    BY <2>1 DEF vars, database, StartupInv, VersionTruthful, Holds
  <2> QED BY <2>1, StartKeeps, OthersKeep DEF Next
<1> QED BY <1>1, <1>2, PTL DEF Spec

(* The recorded version never claims a migration that is not there, for    *)
(* any number of processes, signals, crashes and failed statements.        *)
THEOREM VersionStaysTruthful == Spec => []VersionTruthful
<1>1. StartupInv => VersionTruthful
  BY DEF StartupInv
<1> QED BY <1>1, StartupInvariant, PTL

(* Who serves has the complete schema, for any number of processes.        *)
THEOREM CompleteWhenServing == Spec => []ServesCompleteSchema
<1>1. StartupInv => ServesCompleteSchema
  BY MigrationShape DEF StartupInv, Holds, ServesCompleteSchema, At
<1> QED BY <1>1, StartupInvariant, PTL

-----------------------------------------------------------------------------
(* The types rest on the invariant: a migration and a statement number     *)
(* only stay in range because the process is at a place of the list.       *)
LEMMA StepTyped ==
  ASSUME StartupInv, TypeOK, NEW p \in Processes,
         Start(p) \/ Stop(p) \/ Accept(p) \/ FinishRequest(p) \/ Interrupt(p) \/ Die(p)
  PROVE  TypeOK'
<1> DEFINE Pcs == {"off", "connecting", "migrating", "recording", "building", "serving", "draining"}
           Local == [pc : Pcs, migration : 0..4, statement : 0..3, subscribed : BOOLEAN, inflight : 0..MaxInflight]
           s == process[p]
<1> USE DEF At, database
<1>0. /\ process \in [Processes -> Local] /\ s \in Local /\ Holds(s)
      /\ schema \subseteq Provided(4) /\ version \in 0..4 /\ rows \in BOOLEAN /\ trouble \in 0..MaxTrouble
      /\ MaxTrouble \in Nat /\ MaxInflight \in Nat
  BY MigrationShape, BoundsTyped DEF StartupInv, TypeOK
<1>1. SUFFICES /\ process' \in [Processes -> Local]
               /\ schema' \subseteq Provided(4) /\ version' \in 0..4 /\ rows' \in BOOLEAN
               /\ trouble' \in 0..MaxTrouble
  BY MigrationShape DEF TypeOK
<1>2. ASSUME NEW l \in Local, process' = [process EXCEPT ![p] = l]
      PROVE  process' \in [Processes -> Local]
  BY <1>0, <1>2
<1>3. Exit(p) => process' \in [Processes -> Local]
  <2>1. Off \in Local
    BY <1>0 DEF Off
  <2> HIDE DEF Local
  <2> QED BY <1>2, <2>1 DEF Exit
<1>4. \A step \in Pcs : Goto(p, step) => process' \in [Processes -> Local]
  BY <1>0 DEF Goto
<1>5. \A n \in 0..4 : Continue(p, n) => process' \in [Processes -> Local]
  <2>1. SUFFICES ASSUME NEW n \in 0..4, Continue(p, n)
                 PROVE  process' \in [Processes -> Local]
    OBVIOUS
  <2> DEFINE l == IF n < 4 THEN [s EXCEPT !.pc = "migrating", !.migration = n + 1, !.statement = 1]
                           ELSE [s EXCEPT !.pc = "building", !.migration = 0, !.statement = 0]
  <2>2. l \in Local
    <3>1. \A m \in 0..4, k \in 0..3, step \in Pcs : \A t \in Local :
            [pc |-> step, migration |-> m, statement |-> k,
             subscribed |-> t.subscribed, inflight |-> t.inflight] \in Local
      OBVIOUS
    <3>3. n \in 0..4 /\ (n < 4 => n + 1 \in 0..4)
      BY <2>1
    <3>4. {"migrating", "building"} \subseteq Pcs /\ 0 \in 0..4 /\ 0 \in 0..3 /\ 1 \in 0..3
      OBVIOUS
    <3>5. CASE n < 4
      <4>1. l = [pc |-> "migrating", migration |-> n + 1, statement |-> 1,
                 subscribed |-> s.subscribed, inflight |-> s.inflight]
        BY <1>0, <3>5
      <4> HIDE DEF Local, Pcs, l
      <4> QED BY <1>0, <3>1, <3>3, <3>4, <3>5, <4>1
    <3>6. CASE ~(n < 4)
      <4>1. l = [pc |-> "building", migration |-> 0, statement |-> 0,
                 subscribed |-> s.subscribed, inflight |-> s.inflight]
        BY <1>0, <3>6
      <4> HIDE DEF Local, Pcs, l
      <4> QED BY <1>0, <3>1, <3>4, <4>1
    <3> QED BY <3>5, <3>6
  <2>3. process' = [process EXCEPT ![p] = l]
    BY <1>0, <2>1, MigrationShape DEF Continue
  <2> HIDE DEF l, Local
  <2> QED BY <1>2, <2>2, <2>3
<1>6. CASE UNCHANGED <<database, trouble>> /\ (Exit(p) \/ \E step \in Pcs : Goto(p, step))
  BY <1>0, <1>3, <1>4, <1>6
<1>7. CASE Connect(p)
  BY <1>0, <1>5, <1>7 DEF Connect
<1>8. CASE RunStatement(p)
  <2>1. <<s.migration, s.statement>> \in Places
    BY <1>0, <1>8 DEF RunStatement, Holds
  <2>2. Brings(Statement(p)) \subseteq Provided(4)
    BY <2>1, MigrationShape, ProvidedParts DEF Places, Statement, Brings
  <2>3. s.statement < Len(Migrations[s.migration]) => s.statement + 1 \in 0..3
    <3>1. Before(s.migration, s.statement) \subseteq schema
      BY <1>0, <1>8 DEF RunStatement, Holds
    <3>2. \A m, k : <<m, k>> \in Places => k \in 0..3
      BY DEF Places
    <3> QED BY <2>1, <3>1, <3>2, StatementDone
  <2>4. [s EXCEPT !.statement = s.statement + 1] \in Local \/ ~(s.statement < Len(Migrations[s.migration]))
    BY <1>0, <2>3
  <2>5. [s EXCEPT !.pc = "recording"] \in Local
    BY <1>0
  <2>6. process' = [process EXCEPT ![p] = IF s.statement < Len(Migrations[s.migration])
          THEN [s EXCEPT !.statement = s.statement + 1] ELSE [s EXCEPT !.pc = "recording"]]
    BY <1>0, <1>8 DEF RunStatement
  <2> HIDE DEF Local
  <2>7. process' \in [Processes -> Local]
    BY <1>2, <2>4, <2>5, <2>6
  <2> QED BY <1>0, <1>8, <2>2, <2>7 DEF RunStatement
<1>9. CASE RecordVersion(p)
  <2>1. s.migration \in 1..4
    BY <1>0, <1>9 DEF RecordVersion, Holds
  <2> HIDE DEF Local
  <2> QED BY <1>0, <1>5, <1>9, <2>1 DEF RecordVersion
<1>10. CASE SubscribeSignal(p)
  BY <1>0, <1>10 DEF SubscribeSignal
<1>11. CASE Accept(p)
  <2>1. s.inflight + 1 \in 0..MaxInflight
    BY <1>0, <1>11 DEF Accept
  <2>2. [s EXCEPT !.inflight = s.inflight + 1] \in Local
    BY <1>0, <2>1
  <2>3. process' = [process EXCEPT ![p] = [s EXCEPT !.inflight = s.inflight + 1]]
    BY <1>0, <1>11 DEF Accept
  <2> HIDE DEF Local
  <2>4. process' \in [Processes -> Local]
    BY <1>2, <2>2, <2>3
  <2> QED BY <1>0, <1>11, <2>4 DEF Accept
<1>12. CASE FinishRequest(p)
  BY <1>0, <1>12 DEF FinishRequest
<1>13. CASE Interrupt(p) \/ Die(p)
  <2>1. trouble' \in 0..MaxTrouble /\ UNCHANGED database
    BY <1>0, <1>13 DEF Interrupt, Die
  <2>2. process' \in [Processes -> Local]
    BY <1>3, <1>4, <1>13 DEF Interrupt, Die
  <2> QED BY <1>0, <2>1, <2>2
<1> QED BY <1>6, <1>7, <1>8, <1>9, <1>10, <1>11, <1>12, <1>13
    DEF Start, Stop, Launch, StatementRefused, BuildServer, Drained, DrainTimeout

(* Every process is at a step of the program with numbers in range, for    *)
(* any number of processes and any database a release has left.            *)
THEOREM StartupTyped == Spec => []TypeOK
<1>1. Init => TypeOK
  BY DatabasesTyped, BoundsTyped, MigrationShape DEF Init, TypeOK, Off
<1>2. StartupInv /\ TypeOK /\ [Next]_vars => TypeOK'
  <2>1. CASE UNCHANGED vars
    BY <2>1 DEF vars, database, TypeOK
  <2> QED BY <2>1, StepTyped DEF Next
<1> QED BY <1>1, <1>2, StartupInvariant, PTL DEF Spec
=============================================================================
