------------------------ MODULE V2Migration_proofs --------------------------
(***************************************************************************)
(* Proofs about V2Migration, for every number of attempts and faults, all  *)
(* tables, and every content of the source.                                *)
(***************************************************************************)
EXTENDS V2Migration, FiniteSetTheorems, WellFoundedInduction, TLAPS

-----------------------------------------------------------------------------
(* COALESCE(MAX(id), 1) is above every id of a table.                      *)
LEMMA MaxExists ==
  ASSUME NEW S \in SUBSET Nat, IsFiniteSet(S), S # {}
  PROVE  \E i \in S : \A j \in S : j <= i
<1> DEFINE above(i) == { j \in S : i < j }
           family == { above(i) : i \in S }
<1>1. \A i \in S : above(i) \in FiniteSubsetsOf(S)
  <2> SUFFICES ASSUME NEW i \in S PROVE above(i) \in FiniteSubsetsOf(S)
    OBVIOUS
  <2>1. IsFiniteSet(above(i))
    BY FS_Subset
  <2>2. QED BY <2>1 DEF FiniteSubsetsOf
<1>2. family \subseteq FiniteSubsetsOf(S) /\ family # {}
  BY <1>1
<1>3. PICK x \in family : \A y \in family : <<y, x>> \notin StrictSubsetOrdering(S)
  <2> HIDE DEF family
  <2>1. IsWellFoundedOn(StrictSubsetOrdering(S), FiniteSubsetsOf(S))
    BY FS_StrictSubsetOrderingWellFounded
  <2>2. QED BY <1>2, <2>1, WFMin
<1>4. PICK i \in S : x = above(i)
  BY <1>3
<1>5. ASSUME NEW j \in S, i < j PROVE FALSE
  <2>1. above(j) \subseteq above(i) /\ above(j) # above(i)
    <3>1. j \in above(i) /\ j \notin above(j)
      BY <1>5
    <3>2. \A k \in above(j) : k \in above(i)
      BY <1>5
    <3>3. QED BY <3>1, <3>2
  <2>2. <<above(j), x>> \in StrictSubsetOrdering(S)
    BY <2>1, <1>4 DEF StrictSubsetOrdering
  <2>3. QED BY <2>2, <1>3
<1>6. QED BY <1>5

LEMMA NextIdAbove ==
  ASSUME NEW rows \in SUBSET Ids
  PROVE  NextId(rows) \in Nat \ {0} /\ \A i \in rows : i < NextId(rows)
<1>1. CASE rows = {}
  BY <1>1 DEF NextId
<1>2. CASE rows # {}
  <2>1. rows \in SUBSET Nat /\ IsFiniteSet(rows)
    BY MigrationAssumption, FS_Subset
  <2>2. MaxId(rows) \in rows /\ \A j \in rows : j <= MaxId(rows)
    BY <1>2, <2>1, MaxExists DEF MaxId
  <2>3. MaxId(rows) \in Nat /\ \A j \in rows : j \in Nat
    BY <2>1, <2>2
  <2>4. NextId(rows) = MaxId(rows) + 1
    BY <1>2 DEF NextId
  <2>5. QED BY <2>2, <2>3, <2>4
<1>3. QED BY <1>1, <1>2

-----------------------------------------------------------------------------
(* The strengthening.  Before its transaction an attempt has copied        *)
(* nothing; within it, the tables before the current one are complete and  *)
(* those after it untouched; from the receipt on, the transaction is the   *)
(* whole source.  Only one transaction is live, so the target does not     *)
(* change under it, and it commits to a target without receipt.            *)
Live(a) == tx[a].state \in {"open", "sent"}

Before == {"idle", "schema", "lookup", "inspect", "scan", "migrations"}
Copying == {"copy", "validate", "identity", "receipt", "release"}

PhaseInv(a) ==
  /\ at[a] \in Before => tx[a] = NoTx /\ plan[a] = 1 /\ scanned[a] = {}
  /\ at[a] \in Copying => tx[a].state = "open"
  /\ tx[a].state = "open" => at[a] \in Copying \cup {"ended"}
  /\ tx[a].state = "sent" => at[a] \in {"committing", "verifying", "ended"}

(* The tables before the i-th are copied, the i-th has the rows scanned.   *)
CopiedUpTo(a) ==
  \A i \in DOMAIN Plans :
    tx[a].rows[Plans[i]] = IF i < plan[a] THEN source.rows[Plans[i]]
                           ELSE IF i = plan[a] THEN scanned[a] ELSE {}

CopyInv(a) ==
  /\ at[a] \in {"copy", "validate"} => CopiedUpTo(a)
  /\ at[a] = "copy" => scanned[a] \subseteq source.rows[Plans[plan[a]]]
  /\ at[a] = "validate" => scanned[a] = source.rows[Plans[plan[a]]]
  /\ at[a] \in {"identity", "receipt", "release"} \/ tx[a].state = "sent"
       => tx[a].rows = source.rows

ReceiptInv(a) ==
  /\ at[a] = "release" \/ tx[a].state = "sent"
       => tx[a].receipt = "this" /\ target.receipt = "none"
  /\ tx[a].state = "committed" => target.receipt = "this"
  /\ at[a] \in {"receipt", "release"} \/ tx[a].state = "sent"
       => \A t \in Identity : \A i \in tx[a].rows[t] : i < tx[a].next[t]

ReportInv(a) ==
  /\ report[a] # NoReport => at[a] = "ended"
  /\ report[a] = MigrationCompleted => target.receipt = "this"
  /\ report[a][2] => tx[a].state \notin {"sent", "committed"}

AttemptInv(a) == PhaseInv(a) /\ CopyInv(a) /\ ReceiptInv(a) /\ ReportInv(a)

OneIsLive == \A a, b \in Attempts : Live(a) /\ Live(b) => a = b

MigrationInv ==
  /\ TypeOK
  /\ RowsMatchReceipt
  /\ CopiedOnce
  /\ NextIdIsFree
  /\ OneIsLive
  /\ \A a \in Attempts : AttemptInv(a)

LEMMA PlansFacts ==
  /\ Len(Plans) \in Nat \ {0}
  /\ DOMAIN Plans = 1..Len(Plans)
  /\ \A i \in DOMAIN Plans : Plans[i] \in Tables
  /\ \A t \in Tables : \E i \in DOMAIN Plans : t = Plans[i]
<1>1. Plans \in Seq(STRING) /\ Plans # <<>>
  BY MigrationAssumption
<1>2. Len(Plans) \in Nat \ {0} /\ DOMAIN Plans = 1..Len(Plans)
  BY <1>1
<1>3. QED BY <1>2 DEF Tables

LEMMA MigrationInit == Init => MigrationInv
<1> SUFFICES ASSUME Init PROVE MigrationInv
  OBVIOUS
<1> USE DEF Init
<1>1. NoRows \in Rows /\ AllOne \in [Tables -> Nat \ {0}]
  BY DEF NoRows, AllOne, Rows
<1>2. TypeOK
  BY <1>1, PlansFacts, MigrationAssumption
     DEF TypeOK, Database, Tx, NoTx, Step, Report, NoReport
<1>3. RowsMatchReceipt
  BY DEF RowsMatchReceipt
<1>4. \A a \in Attempts : tx[a].state = "none"
  BY DEF NoTx
<1>5. CopiedOnce /\ OneIsLive
  BY <1>4 DEF CopiedOnce, OneIsLive, Live
<1>6. NextIdIsFree
  BY MigrationAssumption DEF NextIdIsFree, NoRows
<1>7. \A a \in Attempts : AttemptInv(a)
  BY <1>4 DEF AttemptInv, PhaseInv, CopyInv, ReceiptInv, ReportInv, Before, Copying,
              NoReport, MigrationCompleted
<1>8. QED BY <1>2, <1>3, <1>5, <1>6, <1>7 DEF MigrationInv

(* What one attempt does without the server leaves the others and the      *)
(* target alone.                                                           *)
LEMMA LocalStep ==
  ASSUME MigrationInv, NEW a \in Attempts,
         UNCHANGED <<source, target>>,
         \A b \in Attempts : b # a => /\ at'[b] = at[b]
                                     /\ tx'[b] = tx[b]
                                     /\ plan'[b] = plan[b]
                                     /\ scanned'[b] = scanned[b]
                                     /\ report'[b] = report[b],
         TypeOK', AttemptInv(a)',
         Live(a)' => Live(a) \/ \A b \in Attempts : ~Live(b),
         tx'[a].state = "committed" => tx[a].state = "committed"
  PROVE  MigrationInv'
<1>1. RowsMatchReceipt' /\ NextIdIsFree'
  BY DEF MigrationInv, RowsMatchReceipt, NextIdIsFree
<1>2. CopiedOnce'
  BY DEF MigrationInv, CopiedOnce
<1>3. OneIsLive'
  BY DEF MigrationInv, OneIsLive, Live
<1>4. ASSUME NEW b \in Attempts PROVE AttemptInv(b)'
  <2>1. CASE b = a
    BY <2>1
  <2>2. CASE b # a
    <3>1. AttemptInv(b)
      BY DEF MigrationInv
    <3>2. QED
      BY <2>2, <3>1 DEF AttemptInv, PhaseInv, CopyInv, CopiedUpTo, ReceiptInv, ReportInv
  <2>3. QED BY <2>1, <2>2
<1>5. QED BY <1>1, <1>2, <1>3, <1>4 DEF MigrationInv

(* An attempt ends with a report that is true, and its transaction is as   *)
(* it was or rolled back.                                                  *)
LEMMA EndStep ==
  ASSUME MigrationInv, NEW a \in Attempts, NEW outcome \in Report,
         End(a, outcome),
         \/ UNCHANGED tx
         \/ tx[a].state = "open" /\ tx' = [tx EXCEPT ![a].state = "aborted"],
         UNCHANGED <<source, target, locals>>, faults' \in 0..MaxFaults,
         outcome = MigrationCompleted => target.receipt = "this",
         outcome[2] => tx[a].state \notin {"sent", "committed"}
  PROVE  MigrationInv'
<1> USE DEF End, GoTo, locals
<1>1. TypeOK /\ AttemptInv(a)
  BY DEF MigrationInv
<1>2. at'[a] = "ended" /\ report'[a] = outcome
  BY <1>1 DEF TypeOK
<1>3. /\ tx'[a].rows = tx[a].rows
      /\ tx'[a].receipt = tx[a].receipt
      /\ tx'[a].next = tx[a].next
      /\ \/ tx'[a].state = tx[a].state
         \/ tx[a].state = "open" /\ tx'[a].state = "aborted"
  BY <1>1 DEF TypeOK, Tx
<1>4. TypeOK'
  <2>1. tx' \in [Attempts -> Tx]
    <3>1. CASE UNCHANGED tx
      BY <1>1, <3>1 DEF TypeOK
    <3>2. CASE tx' = [tx EXCEPT ![a].state = "aborted"]
      <4>1. tx \in [Attempts -> Tx]
        BY <1>1 DEF TypeOK
      <4>2. [tx[a] EXCEPT !.state = "aborted"] \in Tx
        BY <4>1 DEF Tx
      <4>3. QED BY <3>2, <4>1, <4>2
    <3>3. QED BY <3>1, <3>2
  <2>2. at' \in [Attempts -> Step] /\ report' \in [Attempts -> Report]
    BY <1>1 DEF TypeOK, Step
  <2>3. QED BY <1>1, <2>1, <2>2 DEF TypeOK
<1>5. AttemptInv(a)'
  BY <1>1, <1>2, <1>3
     DEF AttemptInv, PhaseInv, CopyInv, ReceiptInv, ReportInv, Before, Copying
<1>6. Live(a)' => Live(a)
  BY <1>3 DEF Live
<1>7. \A b \in Attempts : b # a => at'[b] = at[b] /\ tx'[b] = tx[b] /\ report'[b] = report[b]
  BY <1>1 DEF TypeOK
<1>8. QED BY <1>3, <1>4, <1>5, <1>6, <1>7, LocalStep

(* A failure before COMMIT was sent.                                       *)
LEMMA FailStep ==
  ASSUME MigrationInv, NEW a \in Attempts, Fail(a),
         at[a] \in Before \cup Copying,
         UNCHANGED <<source, target, locals>>, faults' \in 0..MaxFaults
  PROVE  MigrationInv'
<1>1. AttemptInv(a)
  BY DEF MigrationInv
<1>2. tx[a].state \notin {"sent", "committed"}
  BY <1>1 DEF AttemptInv, PhaseInv, NoTx
<1>3. FailedBeforeCommit(TRUE) \in Report /\ FailedBeforeCommit(TRUE) # MigrationCompleted
  BY DEF Report, FailedBeforeCommit, MigrationCompleted
<1>4. QED BY <1>2, <1>3, EndStep DEF Fail

(* An attempt moves on before its transaction begins.                      *)
LEMMA MoveStep ==
  ASSUME MigrationInv, NEW a \in Attempts, NEW step \in Before,
         at[a] \in Before, GoTo(a, step),
         UNCHANGED <<source, target, tx, locals, report, faults>>
  PROVE  MigrationInv'
<1>1. TypeOK /\ AttemptInv(a)
  BY DEF MigrationInv
<1>2. at'[a] = step /\ \A b \in Attempts : b # a => at'[b] = at[b]
  BY <1>1 DEF TypeOK, GoTo
<1>3. TypeOK'
  BY <1>1 DEF TypeOK, GoTo, Before, Step, locals
<1>4. tx[a].state = "none" /\ report[a] = NoReport
  BY <1>1 DEF AttemptInv, PhaseInv, ReportInv, NoTx, Before
<1>5. AttemptInv(a)'
  BY <1>1, <1>2, <1>4
     DEF AttemptInv, PhaseInv, CopyInv, ReceiptInv, ReportInv, Before, Copying, locals,
         NoReport, MigrationCompleted
<1>6. QED BY <1>1, <1>2, <1>3, <1>5, LocalStep DEF locals, Live

-----------------------------------------------------------------------------
LEMMA StartStep ==
  ASSUME MigrationInv, NEW a \in Attempts, Start(a)
  PROVE  MigrationInv'
BY MoveStep DEF Start, Before

LEMMA CheckSchemaStep ==
  ASSUME MigrationInv, NEW a \in Attempts, CheckSchema(a)
  PROVE  MigrationInv'
<1> USE DEF CheckSchema
<1>1. CASE source.schemaIsPublic
  BY <1>1, MoveStep DEF Before
<1>2. CASE ~source.schemaIsPublic
  <2>1. /\ FailedBeforeCommit(FALSE) \in Report
        /\ FailedBeforeCommit(FALSE) # MigrationCompleted
        /\ FailedBeforeCommit(FALSE)[2] = FALSE
    BY DEF Report, FailedBeforeCommit, MigrationCompleted
  <2>2. faults' \in 0..MaxFaults
    BY DEF MigrationInv, TypeOK
  <2>3. QED BY <1>2, <2>1, <2>2, EndStep
<1>3. QED BY <1>1, <1>2

(* The reports that promise nothing.                                       *)
LEMMA SilentReports ==
  /\ NoReport \in Report /\ NoReport # MigrationCompleted /\ NoReport[2] = FALSE
  /\ CommitUnknown \in Report /\ CommitUnknown # MigrationCompleted /\ CommitUnknown[2] = FALSE
  /\ MigrationCompleted \in Report /\ MigrationCompleted[2] = FALSE
BY DEF Report, NoReport, CommitUnknown, MigrationCompleted

LEMMA FindCompletedMigrationStep ==
  ASSUME MigrationInv, NEW a \in Attempts, FindCompletedMigration(a)
  PROVE  MigrationInv'
<1> USE DEF FindCompletedMigration
<1>1. CASE target.exists
  <2>1. PICK outcome \in {NoReport, CommitUnknown, MigrationCompleted} :
           /\ End(a, outcome)
           /\ outcome = MigrationCompleted => target.receipt = "this"
    BY <1>1, SilentReports DEF MigrationInv
  <2>2. faults' \in 0..MaxFaults
    BY DEF MigrationInv, TypeOK
  <2>3. QED BY <2>1, <2>2, SilentReports, EndStep
<1>2. CASE ~target.exists
  BY <1>2, MoveStep DEF Before
<1>3. QED BY <1>1, <1>2

LEMMA FaultIsCounted ==
  ASSUME TypeOK, Fault
  PROVE  faults' \in 0..MaxFaults
BY MigrationAssumption DEF TypeOK, Fault

LEMMA LookupFailsStep ==
  ASSUME MigrationInv, NEW a \in Attempts, LookupFails(a)
  PROVE  MigrationInv'
<1>1. faults' \in 0..MaxFaults
  BY FaultIsCounted DEF LookupFails, MigrationInv
<1>2. QED BY <1>1, SilentReports, EndStep DEF LookupFails

LEMMA InspectSourceStep ==
  ASSUME MigrationInv, NEW a \in Attempts, InspectSource(a)
  PROVE  MigrationInv'
<1> USE DEF InspectSource
<1>1. faults' \in 0..MaxFaults
  BY DEF MigrationInv, TypeOK
<1>2. CASE Fail(a) /\ UNCHANGED <<source, target, locals>>
  BY <1>1, <1>2, FailStep DEF Before
<1>3. CASE /\ GoTo(a, "scan") \/ GoTo(a, "migrations")
           /\ UNCHANGED <<source, target, tx, locals, report, faults>>
  BY <1>3, MoveStep DEF Before
<1>4. QED BY <1>2, <1>3

LEMMA ScanSourceStep ==
  ASSUME MigrationInv, NEW a \in Attempts, ScanSource(a)
  PROVE  MigrationInv'
<1> USE DEF ScanSource
<1>1. DryRunCompleted \in Report /\ DryRunCompleted # MigrationCompleted
  BY DEF Report, DryRunCompleted, MigrationCompleted
<1>2. tx[a].state = "none" /\ faults' \in 0..MaxFaults
  BY DEF MigrationInv, TypeOK, AttemptInv, PhaseInv, Before, NoTx
<1>3. QED BY <1>1, <1>2, EndStep

(* BEGIN and the schema: the transaction is the only live one.             *)
LEMMA RunMigrationsStep ==
  ASSUME MigrationInv, NEW a \in Attempts, RunMigrations(a)
  PROVE  MigrationInv'
<1> USE DEF RunMigrations
<1>1. CASE Fail(a)
  <2>1. faults' \in 0..MaxFaults
    BY DEF MigrationInv, TypeOK
  <2>2. QED BY <1>1, <2>1, FailStep DEF Before
<1>2. CASE GoTo(a, "copy") /\ tx' = [tx EXCEPT ![a].state = "open"] /\ UNCHANGED report
  <2>1. TypeOK /\ AttemptInv(a)
    BY DEF MigrationInv
  <2>2. tx[a] = NoTx /\ plan[a] = 1 /\ scanned[a] = {} /\ report[a] = NoReport
    BY <2>1 DEF AttemptInv, PhaseInv, ReportInv, Before
  <2>3. /\ at'[a] = "copy" /\ tx'[a] = [NoTx EXCEPT !.state = "open"]
        /\ \A b \in Attempts : b # a => at'[b] = at[b] /\ tx'[b] = tx[b]
    BY <1>2, <2>1, <2>2 DEF TypeOK, GoTo
  <2>4. tx'[a].state = "open" /\ tx'[a].rows = NoRows
    BY <2>3 DEF NoTx
  <2>5. TypeOK'
    <3>1. tx' \in [Attempts -> Tx]
      <4>1. tx \in [Attempts -> Tx]
        BY <2>1 DEF TypeOK
      <4>2. [tx[a] EXCEPT !.state = "open"] \in Tx
        BY <4>1 DEF Tx
      <4>3. QED BY <1>2, <4>1, <4>2
    <3>2. QED BY <1>2, <2>1, <3>1 DEF TypeOK, GoTo, Step, locals
  <2>6. CopiedUpTo(a)'
    BY <2>2, <2>4, PlansFacts DEF CopiedUpTo, NoRows, locals
  <2>7. AttemptInv(a)'
    BY <1>2, <2>2, <2>3, <2>4, <2>6
       DEF AttemptInv, PhaseInv, CopyInv, ReceiptInv, ReportInv, Before, Copying, locals,
           NoReport, MigrationCompleted
  <2>8. \A b \in Attempts : ~Live(b)
    BY DEF Live
  <2>9. QED BY <1>2, <2>3, <2>4, <2>5, <2>7, <2>8, LocalStep DEF locals
<1>3. QED BY <1>1, <1>2

-----------------------------------------------------------------------------
(* A step within the transaction that leaves it open.                      *)
LEMMA OpenStep ==
  ASSUME MigrationInv, NEW a \in Attempts, NEW step \in Copying,
         at[a] \in Copying, GoTo(a, step),
         UNCHANGED <<source, target, options, report, faults>>,
         TypeOK', tx'[a].state = "open",
         \A b \in Attempts : b # a => /\ tx'[b] = tx[b]
                                     /\ plan'[b] = plan[b]
                                     /\ scanned'[b] = scanned[b],
         CopyInv(a)', ReceiptInv(a)'
  PROVE  MigrationInv'
<1>1. TypeOK /\ AttemptInv(a)
  BY DEF MigrationInv
<1>2. at'[a] = step /\ \A b \in Attempts : b # a => at'[b] = at[b]
  BY <1>1 DEF TypeOK, GoTo
<1>3. tx[a].state = "open" /\ report[a] = NoReport
  BY <1>1 DEF AttemptInv, PhaseInv, ReportInv, Copying
<1>4. AttemptInv(a)'
  BY <1>2, <1>3
     DEF AttemptInv, PhaseInv, ReportInv, Before, Copying, NoReport, MigrationCompleted
<1>5. Live(a)
  BY <1>3 DEF Live
<1>6. QED BY <1>2, <1>4, <1>5, LocalStep

(* The rows scanned so far grow by the next batch; the batch that is not   *)
(* full is the last.                                                       *)
LEMMA CopyBatchStep ==
  ASSUME MigrationInv, NEW a \in Attempts, CopyBatch(a)
  PROVE  MigrationInv'
<1> USE DEF CopyBatch
<1>1. CASE Fail(a) /\ UNCHANGED scanned
  <2>1. faults' \in 0..MaxFaults
    BY DEF MigrationInv, TypeOK
  <2>2. UNCHANGED <<source, target, locals>>
    BY <1>1 DEF locals
  <2>3. QED BY <1>1, <2>1, <2>2, FailStep DEF Copying
<1> DEFINE t == Plans[plan[a]]
           left == source.rows[t] \ scanned[a]
<1>2. ASSUME NEW batch \in SUBSET left,
             IsFetch(batch, left),
             scanned' = [scanned EXCEPT ![a] = @ \cup batch],
             tx' = [tx EXCEPT ![a].rows[t] = @ \cup batch],
             GoTo(a, IF Cardinality(batch) < BatchSize THEN "validate" ELSE "copy"),
             UNCHANGED report
      PROVE  MigrationInv'
  <2>1. TypeOK /\ AttemptInv(a) /\ at[a] = "copy"
    BY DEF MigrationInv
  <2>2. plan[a] \in DOMAIN Plans /\ t \in Tables /\ scanned[a] \in SUBSET Ids
    BY <2>1, PlansFacts DEF TypeOK
  <2>3. source.rows \in Rows /\ tx[a] \in Tx
    BY <2>1 DEF TypeOK
  <2>4. tx[a].rows \in Rows /\ batch \in SUBSET Ids
    BY <2>2, <2>3 DEF Tx, Rows
  <2>5. tx'[a] = [tx[a] EXCEPT !.rows = [tx[a].rows EXCEPT ![t] = @ \cup batch]]
    BY <1>2, <2>1 DEF TypeOK
  <2>6. /\ tx'[a].state = tx[a].state
        /\ tx'[a].rows = [tx[a].rows EXCEPT ![t] = @ \cup batch]
    BY <2>3, <2>5 DEF Tx
  <2>7. /\ \A b \in Attempts : b # a => tx'[b] = tx[b] /\ scanned'[b] = scanned[b]
        /\ scanned'[a] = scanned[a] \cup batch
        /\ at'[a] = IF Cardinality(batch) < BatchSize THEN "validate" ELSE "copy"
    BY <1>2, <2>1 DEF TypeOK, GoTo
  <2>8. TypeOK'
    <3>1. [tx[a] EXCEPT !.rows = [tx[a].rows EXCEPT ![t] = @ \cup batch]] \in Tx
      BY <2>2, <2>3, <2>4 DEF Tx, Rows
    <3>2. tx' \in [Attempts -> Tx]
      BY <1>2, <2>1, <2>5, <2>7, <3>1 DEF TypeOK
    <3>3. scanned' \in [Attempts -> SUBSET Ids]
      BY <1>2, <2>1, <2>4 DEF TypeOK
    <3>4. QED BY <1>2, <2>1, <3>2, <3>3 DEF TypeOK, GoTo, Step
  <2>9. CopiedUpTo(a)'
    <3>1. CopiedUpTo(a)
      BY <2>1 DEF AttemptInv, CopyInv
    <3>2. \A i \in DOMAIN Plans : i # plan[a] => Plans[i] # t
      BY <2>2, MigrationAssumption
    <3>3. \A i \in DOMAIN Plans : i # plan[a] => tx'[a].rows[Plans[i]] = tx[a].rows[Plans[i]]
      BY <2>2, <2>4, <2>6, <3>2, PlansFacts DEF Rows
    <3>4. tx'[a].rows[t] = tx[a].rows[t] \cup batch
      BY <2>2, <2>4, <2>6 DEF Rows
    <3>5. plan[a] \in Nat
      BY <2>2, PlansFacts
    <3>6. tx[a].rows[t] = scanned[a]
      BY <2>2, <3>1, <3>5 DEF CopiedUpTo
    <3>7. \A i \in DOMAIN Plans :
            tx'[a].rows[Plans[i]] = IF i < plan[a] THEN source.rows[Plans[i]]
                                    ELSE IF i = plan[a] THEN scanned'[a] ELSE {}
      <4> SUFFICES ASSUME NEW i \in DOMAIN Plans
                   PROVE  tx'[a].rows[Plans[i]] = IF i < plan[a] THEN source.rows[Plans[i]]
                                    ELSE IF i = plan[a] THEN scanned'[a] ELSE {}
        OBVIOUS
      <4>1. CASE i = plan[a]
        <5>1. ~(i < plan[a])
          BY <3>5, <4>1
        <5>2. tx'[a].rows[Plans[i]] = scanned'[a]
          BY <2>7, <3>4, <3>6, <4>1
        <5>3. QED BY <4>1, <5>1, <5>2
      <4>2. CASE i # plan[a]
        BY <3>1, <3>3, <4>2 DEF CopiedUpTo
      <4>3. QED BY <4>1, <4>2
    <3>8. QED BY <3>7 DEF CopiedUpTo
  <2>10. scanned'[a] \subseteq source.rows[t]
    BY <2>1, <2>7 DEF AttemptInv, CopyInv
  <2>11. Cardinality(batch) < BatchSize => scanned'[a] = source.rows[t]
    BY <1>2, <2>7, <2>10 DEF IsFetch
  <2>12. tx'[a].state = "open"
    BY <2>1, <2>6 DEF AttemptInv, PhaseInv, Copying
  <2>13. CopyInv(a)' /\ ReceiptInv(a)'
    BY <2>7, <2>9, <2>10, <2>11, <2>12 DEF CopyInv, ReceiptInv
  <2>14. QED BY <1>2, <2>1, <2>7, <2>8, <2>12, <2>13, OpenStep DEF Copying
<1>3. QED BY <1>1, <1>2

(* A validated table is complete; after the last one so is the copy.       *)
LEMMA ValidateTableStep ==
  ASSUME MigrationInv, NEW a \in Attempts, ValidateTable(a)
  PROVE  MigrationInv'
<1> USE DEF ValidateTable
<1>1. CASE Fail(a) /\ UNCHANGED <<plan, scanned>>
  <2>1. faults' \in 0..MaxFaults
    BY DEF MigrationInv, TypeOK
  <2>2. UNCHANGED <<source, target, locals>>
    BY <1>1 DEF locals
  <2>3. QED BY <1>1, <2>1, <2>2, FailStep DEF Copying
<1>2. TypeOK /\ AttemptInv(a) /\ at[a] = "validate"
  BY DEF MigrationInv
<1>3. plan[a] \in DOMAIN Plans /\ tx[a].state = "open" /\ tx[a] \in Tx /\ source.rows \in Rows
  BY <1>2 DEF AttemptInv, PhaseInv, TypeOK, Copying
<1>4. \A i \in DOMAIN Plans :
        tx[a].rows[Plans[i]] = IF i <= plan[a] THEN source.rows[Plans[i]] ELSE {}
  <2>1. CopiedUpTo(a) /\ scanned[a] = source.rows[Plans[plan[a]]]
    BY <1>2 DEF AttemptInv, CopyInv
  <2>2. QED BY <1>3, <2>1, PlansFacts DEF CopiedUpTo
<1>5. CASE /\ scanned' = [scanned EXCEPT ![a] = {}]
           /\ plan[a] = Len(Plans) /\ GoTo(a, "identity") /\ UNCHANGED <<plan, tx, report>>
  <2>1. TypeOK'
    BY <1>2, <1>5 DEF TypeOK, GoTo, Step
  <2>2. at'[a] = "identity" /\ \A b \in Attempts : b # a => scanned'[b] = scanned[b]
    BY <1>2, <1>5 DEF TypeOK, GoTo
  <2>3. tx[a].rows = source.rows
    <3>1. \A u \in Tables : tx[a].rows[u] = source.rows[u]
      BY <1>3, <1>4, <1>5, PlansFacts
    <3>2. QED BY <1>3, <3>1 DEF Tx, Rows
  <2>4. CopyInv(a)' /\ ReceiptInv(a)'
    BY <1>3, <1>5, <2>2, <2>3 DEF CopyInv, ReceiptInv
  <2>5. QED BY <1>2, <1>3, <1>5, <2>1, <2>2, <2>4, OpenStep DEF Copying
<1>6. CASE /\ scanned' = [scanned EXCEPT ![a] = {}]
           /\ plan[a] # Len(Plans) /\ GoTo(a, "copy")
           /\ plan' = [plan EXCEPT ![a] = @ + 1] /\ UNCHANGED <<tx, report>>
  <2>1. plan[a] + 1 \in DOMAIN Plans /\ plan[a] \in Nat
    BY <1>3, <1>6, PlansFacts
  <2>2. TypeOK'
    BY <1>2, <1>6, <2>1 DEF TypeOK, GoTo, Step
  <2>3. /\ at'[a] = "copy" /\ plan'[a] = plan[a] + 1 /\ scanned'[a] = {}
        /\ \A b \in Attempts : b # a => plan'[b] = plan[b] /\ scanned'[b] = scanned[b]
    BY <1>2, <1>6 DEF TypeOK, GoTo
  <2>4. CopiedUpTo(a)'
    <3>1. \A i \in DOMAIN Plans :
            tx'[a].rows[Plans[i]] = IF i < plan'[a] THEN source.rows[Plans[i]]
                                    ELSE IF i = plan'[a] THEN scanned'[a] ELSE {}
      <4> SUFFICES ASSUME NEW i \in DOMAIN Plans
                   PROVE  tx[a].rows[Plans[i]] = IF i < plan[a] + 1 THEN source.rows[Plans[i]]
                                                 ELSE {}
        BY <1>6, <2>3
      <4>1. i \in Nat /\ (i < plan[a] + 1 <=> i <= plan[a])
        BY <2>1, PlansFacts
      <4>2. QED BY <1>4, <4>1
    <3>2. QED BY <1>6, <3>1 DEF CopiedUpTo
  <2>5. CopyInv(a)' /\ ReceiptInv(a)'
    BY <1>3, <1>6, <2>3, <2>4 DEF CopyInv, ReceiptInv
  <2>6. QED BY <1>2, <1>3, <1>6, <2>2, <2>3, <2>5, OpenStep DEF Copying
<1>7. QED BY <1>1, <1>5, <1>6

LEMMA ResetIdentitiesStep ==
  ASSUME MigrationInv, NEW a \in Attempts, ResetIdentities(a)
  PROVE  MigrationInv'
<1> DEFINE new == [t \in Tables |-> IF t \in Identity
                                     THEN NextId(tx[a].rows[t] \cup target.rows[t])
                                     ELSE tx[a].next[t]]
<1>1. TypeOK /\ AttemptInv(a) /\ at[a] = "identity"
  BY DEF MigrationInv, ResetIdentities
<1>2. tx[a] \in Tx /\ tx[a].state = "open" /\ tx[a].rows = source.rows /\ target.rows \in Rows
  BY <1>1 DEF AttemptInv, PhaseInv, CopyInv, TypeOK, Database, Copying
<1>3. \A t \in Tables :
        /\ NextId(tx[a].rows[t] \cup target.rows[t]) \in Nat \ {0}
        /\ \A i \in tx[a].rows[t] : i < NextId(tx[a].rows[t] \cup target.rows[t])
  BY <1>2, NextIdAbove DEF Tx, Rows
<1>4. new \in [Tables -> Nat \ {0}]
  BY <1>2, <1>3 DEF Tx
<1>5. tx' = [tx EXCEPT ![a] = [tx[a] EXCEPT !.next = new]]
  BY <1>1 DEF ResetIdentities, TypeOK
<1> HIDE DEF new
<1>6. tx'[a] = [tx[a] EXCEPT !.next = new] /\ \A b \in Attempts : b # a => tx'[b] = tx[b]
  BY <1>1, <1>5 DEF TypeOK
<1>7. [tx[a] EXCEPT !.next = new] \in Tx
  BY <1>2, <1>4 DEF Tx
<1>8. tx'[a].state = "open" /\ tx'[a].rows = source.rows /\ tx'[a].next = new
  BY <1>2, <1>6 DEF Tx
<1>9. TypeOK'
  <2>1. tx' \in [Attempts -> Tx]
    BY <1>1, <1>5, <1>7 DEF TypeOK
  <2>2. QED BY <1>1, <2>1 DEF TypeOK, ResetIdentities, GoTo, Step, locals
<1>10. at'[a] = "receipt"
  BY <1>1 DEF TypeOK, ResetIdentities, GoTo
<1>11. \A t \in Identity : \A i \in tx'[a].rows[t] : i < tx'[a].next[t]
  BY <1>2, <1>3, <1>8, MigrationAssumption DEF new
<1>12. CopyInv(a)' /\ ReceiptInv(a)'
  BY <1>8, <1>10, <1>11 DEF CopyInv, ReceiptInv, ResetIdentities
<1>13. QED
  BY <1>1, <1>6, <1>8, <1>9, <1>12, OpenStep DEF Copying, ResetIdentities, locals

LEMMA StoreReceiptStep ==
  ASSUME MigrationInv, NEW a \in Attempts, StoreReceipt(a)
  PROVE  MigrationInv'
<1> USE DEF StoreReceipt
<1>1. CASE Fail(a)
  <2>1. faults' \in 0..MaxFaults
    BY DEF MigrationInv, TypeOK
  <2>2. QED BY <1>1, <2>1, FailStep DEF Copying
<1>2. CASE /\ target.receipt = "none" /\ tx' = [tx EXCEPT ![a].receipt = "this"]
           /\ GoTo(a, "release") /\ UNCHANGED report
  <2>1. TypeOK /\ AttemptInv(a) /\ at[a] = "receipt" /\ tx[a] \in Tx
    BY DEF MigrationInv, TypeOK
  <2>2. tx[a].state = "open" /\ tx[a].rows = source.rows
    BY <2>1 DEF AttemptInv, PhaseInv, CopyInv, Copying
  <2>3. /\ tx'[a] = [tx[a] EXCEPT !.receipt = "this"] /\ at'[a] = "release"
        /\ \A b \in Attempts : b # a => tx'[b] = tx[b]
    BY <1>2, <2>1 DEF TypeOK, GoTo
  <2>4. /\ tx'[a].state = "open" /\ tx'[a].rows = tx[a].rows
        /\ tx'[a].next = tx[a].next /\ tx'[a].receipt = "this"
    BY <2>1, <2>2, <2>3 DEF Tx
  <2>5. TypeOK'
    <3>1. [tx[a] EXCEPT !.receipt = "this"] \in Tx
      BY <2>1 DEF Tx
    <3>2. tx' \in [Attempts -> Tx]
      BY <1>2, <2>1, <3>1 DEF TypeOK
    <3>3. QED BY <1>2, <2>1, <3>2 DEF TypeOK, GoTo, Step, locals
  <2>6. CopyInv(a)' /\ ReceiptInv(a)'
    BY <1>2, <2>1, <2>2, <2>3, <2>4 DEF AttemptInv, CopyInv, ReceiptInv
  <2>7. QED BY <1>2, <2>1, <2>3, <2>4, <2>5, <2>6, OpenStep DEF Copying, locals
<1>3. QED
  <2>1. target.receipt \in {"none", "this", "other"}
    BY DEF MigrationInv, TypeOK, Database
  <2>2. QED BY <1>1, <1>2, <2>1

LEMMA SendCommitStep ==
  ASSUME MigrationInv, NEW a \in Attempts, SendCommit(a)
  PROVE  MigrationInv'
<1> USE DEF SendCommit
<1>1. TypeOK /\ AttemptInv(a) /\ at[a] = "release" /\ tx[a] \in Tx
  BY DEF MigrationInv, TypeOK
<1>2. /\ tx[a].state = "open" /\ tx[a].rows = source.rows /\ tx[a].receipt = "this"
      /\ target.receipt = "none" /\ report[a] = NoReport
      /\ \A t \in Identity : \A i \in tx[a].rows[t] : i < tx[a].next[t]
  BY <1>1 DEF AttemptInv, PhaseInv, CopyInv, ReceiptInv, ReportInv, Copying
<1>3. /\ tx'[a] = [tx[a] EXCEPT !.state = "sent"] /\ at'[a] = "committing"
      /\ \A b \in Attempts : b # a => tx'[b] = tx[b] /\ at'[b] = at[b]
  BY <1>1 DEF TypeOK, GoTo
<1>4. /\ tx'[a].state = "sent" /\ tx'[a].rows = tx[a].rows
      /\ tx'[a].next = tx[a].next /\ tx'[a].receipt = "this"
  BY <1>1, <1>2, <1>3 DEF Tx
<1>5. TypeOK'
  <2>1. [tx[a] EXCEPT !.state = "sent"] \in Tx
    BY <1>1 DEF Tx
  <2>2. tx' \in [Attempts -> Tx]
    BY <1>1, <2>1 DEF TypeOK
  <2>3. QED BY <1>1, <2>2 DEF TypeOK, GoTo, Step, locals
<1>6. AttemptInv(a)'
  BY <1>2, <1>3, <1>4
     DEF AttemptInv, PhaseInv, CopyInv, ReceiptInv, ReportInv, Before, Copying,
         NoReport, MigrationCompleted
<1>7. Live(a)
  BY <1>2 DEF Live
<1>8. QED BY <1>3, <1>4, <1>5, <1>6, <1>7, LocalStep DEF locals

-----------------------------------------------------------------------------
LEMMA CommitAcknowledgedStep ==
  ASSUME MigrationInv, NEW a \in Attempts, CommitAcknowledged(a)
  PROVE  MigrationInv'
<1>1. target.receipt = "this"
  BY DEF CommitAcknowledged, MigrationInv, AttemptInv, ReceiptInv
<1>2. faults' \in 0..MaxFaults
  BY DEF CommitAcknowledged, MigrationInv, TypeOK
<1>3. QED BY <1>1, <1>2, SilentReports, EndStep DEF CommitAcknowledged

(* The attempt goes on to look for the receipt, or dies.                   *)
LEMMA LeaveStep ==
  ASSUME MigrationInv, NEW a \in Attempts,
         \/ at[a] = "committing" /\ GoTo(a, "verifying")
         \/ GoTo(a, "ended"),
         UNCHANGED <<source, target, tx, locals, report>>, faults' \in 0..MaxFaults
  PROVE  MigrationInv'
<1>1. TypeOK /\ AttemptInv(a)
  BY DEF MigrationInv
<1>2. /\ at'[a] = "ended" \/ (at[a] = "committing" /\ at'[a] = "verifying")
      /\ \A b \in Attempts : b # a => at'[b] = at[b]
  BY <1>1 DEF TypeOK, GoTo
<1>3. TypeOK'
  BY <1>1 DEF TypeOK, GoTo, Step, locals
<1>4. AttemptInv(a)'
  BY <1>1, <1>2
     DEF AttemptInv, PhaseInv, CopyInv, ReceiptInv, ReportInv, Before, Copying, locals,
         NoReport, MigrationCompleted
<1>5. QED BY <1>2, <1>3, <1>4, LocalStep DEF locals, Live

LEMMA CommitFailsStep ==
  ASSUME MigrationInv, NEW a \in Attempts, CommitFails(a)
  PROVE  MigrationInv'
<1>1. faults' \in 0..MaxFaults
  BY FaultIsCounted DEF CommitFails, MigrationInv, TypeOK
<1>2. QED BY <1>1, LeaveStep DEF CommitFails

LEMMA VerifyCommitStep ==
  ASSUME MigrationInv, NEW a \in Attempts, VerifyCommit(a)
  PROVE  MigrationInv'
<1>1. faults' \in 0..MaxFaults
  BY DEF VerifyCommit, MigrationInv, TypeOK
<1>2. CASE target.receipt = "this"
  BY <1>1, <1>2, SilentReports, EndStep DEF VerifyCommit
<1>3. CASE target.receipt # "this"
  BY <1>1, <1>3, SilentReports, EndStep DEF VerifyCommit
<1>4. QED BY <1>2, <1>3

LEMMA VerifyFailsStep ==
  ASSUME MigrationInv, NEW a \in Attempts, VerifyFails(a)
  PROVE  MigrationInv'
<1>1. faults' \in 0..MaxFaults
  BY FaultIsCounted DEF VerifyFails, MigrationInv
<1>2. QED BY <1>1, SilentReports, EndStep DEF VerifyFails

LEMMA StatementFailsStep ==
  ASSUME MigrationInv, NEW a \in Attempts, StatementFails(a)
  PROVE  MigrationInv'
<1>1. faults' \in 0..MaxFaults
  BY FaultIsCounted DEF StatementFails, MigrationInv
<1>2. at[a] \in Before \cup Copying
  BY DEF StatementFails, Step, Before, Copying
<1>3. QED BY <1>1, <1>2, FailStep DEF StatementFails

LEMMA CrashStep ==
  ASSUME MigrationInv, NEW a \in Attempts, Crash(a)
  PROVE  MigrationInv'
<1>1. faults' \in 0..MaxFaults
  BY FaultIsCounted DEF Crash, MigrationInv
<1>2. QED BY <1>1, LeaveStep DEF Crash

-----------------------------------------------------------------------------
(* The one live transaction commits the whole source to a target without   *)
(* a receipt, whoever still waits for it.                                  *)
LEMMA ServerCommitsStep ==
  ASSUME MigrationInv, NEW a \in Attempts, ServerCommits(a)
  PROVE  MigrationInv'
<1> USE DEF ServerCommits
<1>1. TypeOK /\ AttemptInv(a) /\ tx[a].state = "sent" /\ tx[a] \in Tx
  BY DEF MigrationInv, TypeOK
<1>2. /\ tx[a].rows = source.rows /\ tx[a].receipt = "this" /\ target.receipt = "none"
      /\ \A t \in Identity : \A i \in tx[a].rows[t] : i < tx[a].next[t]
  BY <1>1 DEF AttemptInv, CopyInv, ReceiptInv
<1>3. source.rows \in Rows /\ target.rows = NoRows
  BY <1>1, <1>2 DEF MigrationInv, RowsMatchReceipt, TypeOK
<1>4. /\ target'.exists = TRUE
      /\ target'.receipt = "this"
      /\ target'.next = tx[a].next
      /\ target'.rows = source.rows
  <2>1. [t \in Tables |-> target.rows[t] \cup tx[a].rows[t]] = source.rows
    BY <1>2, <1>3 DEF NoRows, Rows
  <2>2. QED BY <1>2, <2>1
<1>5. /\ tx'[a] = [tx[a] EXCEPT !.state = "committed"]
      /\ \A b \in Attempts : b # a => tx'[b] = tx[b]
  BY <1>1 DEF TypeOK
<1>6. tx'[a].state = "committed"
  BY <1>1, <1>5 DEF Tx
<1>7. TypeOK'
  <2>1. [tx[a] EXCEPT !.state = "committed"] \in Tx
    BY <1>1 DEF Tx
  <2>2. tx' \in [Attempts -> Tx]
    BY <1>1, <2>1 DEF TypeOK
  <2>3. tx[a].next \in [Tables -> Nat \ {0}]
    BY <1>1 DEF Tx
  <2>4. target' = [exists |-> TRUE, rows |-> source.rows, next |-> tx[a].next, receipt |-> "this"]
    BY <1>2, <1>4
  <2>5. target' \in Database
    <3>1. [exists |-> TRUE, rows |-> source.rows, next |-> tx[a].next, receipt |-> "this"]
            \in [exists : BOOLEAN, rows : Rows, next : [Tables -> Nat \ {0}],
                 receipt : {"none", "this", "other"}]
      BY <1>3, <2>3, Zenon
    <3>2. QED BY <2>4, <3>1, Zenon DEF Database
  <2>6. QED BY <1>1, <2>2, <2>5 DEF TypeOK, locals
<1>8. RowsMatchReceipt' /\ NextIdIsFree'
  BY <1>2, <1>4 DEF RowsMatchReceipt, NextIdIsFree
<1>9. \A b \in Attempts : tx[b].state # "committed"
  BY <1>2 DEF MigrationInv, AttemptInv, ReceiptInv
<1>10. CopiedOnce'
  BY <1>5, <1>9 DEF CopiedOnce
<1>11. \A b \in Attempts : b # a => ~Live(b)
  BY <1>1 DEF MigrationInv, OneIsLive, Live
<1>12. OneIsLive'
  BY <1>5, <1>6, <1>11 DEF OneIsLive, Live
<1>13. ASSUME NEW b \in Attempts PROVE AttemptInv(b)'
  <2>1. AttemptInv(b)
    BY DEF MigrationInv
  <2>2. CASE b = a
    <3>1. at[a] \in {"committing", "verifying", "ended"} /\ ~report[a][2]
      BY <1>1 DEF AttemptInv, PhaseInv, ReportInv
    <3>2. QED
      BY <1>1, <1>4, <1>6, <2>2, <3>1
         DEF AttemptInv, PhaseInv, CopyInv, ReceiptInv, ReportInv, Before, Copying, locals
  <2>3. CASE b # a
    <3>1. tx'[b] = tx[b] /\ tx[b].state \notin {"open", "sent"}
      BY <1>5, <1>11, <2>3 DEF Live
    <3>2. at[b] \notin Copying
      BY <2>1, <3>1 DEF AttemptInv, PhaseInv
    <3>3. QED
      BY <1>4, <2>1, <3>1, <3>2
         DEF AttemptInv, PhaseInv, CopyInv, ReceiptInv, ReportInv, Before, Copying, locals
  <2>4. QED BY <2>2, <2>3
<1>14. QED BY <1>7, <1>8, <1>10, <1>12, <1>13 DEF MigrationInv

LEMMA ServerAbortsStep ==
  ASSUME MigrationInv, NEW a \in Attempts, ServerAborts(a)
  PROVE  MigrationInv'
<1> USE DEF ServerAborts
<1>1. TypeOK /\ AttemptInv(a) /\ tx[a].state \in {"open", "sent"} /\ tx[a] \in Tx
  BY DEF MigrationInv, TypeOK
<1>2. at[a] \in {"committing", "verifying", "ended"}
  BY <1>1 DEF AttemptInv, PhaseInv
<1>3. /\ tx'[a] = [tx[a] EXCEPT !.state = "aborted"]
      /\ \A b \in Attempts : b # a => tx'[b] = tx[b]
  BY <1>1 DEF TypeOK
<1>4. tx'[a].state = "aborted"
  BY <1>1, <1>3 DEF Tx
<1>5. TypeOK'
  <2>1. [tx[a] EXCEPT !.state = "aborted"] \in Tx
    BY <1>1 DEF Tx
  <2>2. tx' \in [Attempts -> Tx]
    BY <1>1, <2>1 DEF TypeOK
  <2>3. faults' \in 0..MaxFaults
    BY <1>1, FaultIsCounted DEF TypeOK
  <2>4. QED BY <1>1, <2>2, <2>3 DEF TypeOK, locals
<1>6. AttemptInv(a)'
  BY <1>1, <1>2, <1>4
     DEF AttemptInv, PhaseInv, CopyInv, ReceiptInv, ReportInv, Before, Copying, locals
<1>7. ~Live(a)'
  BY <1>4 DEF Live
<1>8. QED BY <1>3, <1>4, <1>5, <1>6, <1>7, LocalStep DEF locals

LEMMA MigrationNext == MigrationInv /\ [Next]_vars => MigrationInv'
<1> SUFFICES ASSUME MigrationInv, [Next]_vars PROVE MigrationInv'
  OBVIOUS
<1>1. CASE UNCHANGED vars
  <2>1. TypeOK' /\ RowsMatchReceipt' /\ CopiedOnce' /\ NextIdIsFree'
    BY <1>1 DEF MigrationInv, TypeOK, RowsMatchReceipt, CopiedOnce, NextIdIsFree,
                vars, locals
  <2>2. OneIsLive'
    BY <1>1 DEF MigrationInv, OneIsLive, Live, vars
  <2>3. \A a \in Attempts : AttemptInv(a)'
    BY <1>1 DEF MigrationInv, AttemptInv, PhaseInv, CopyInv, CopiedUpTo, ReceiptInv,
                ReportInv, vars, locals
  <2>4. QED BY <2>1, <2>2, <2>3 DEF MigrationInv
<1>2. ASSUME NEW a \in Attempts, Start(a) \/ Migrate(a) PROVE MigrationInv'
  BY <1>2, StartStep, CheckSchemaStep, FindCompletedMigrationStep, InspectSourceStep,
     ScanSourceStep, RunMigrationsStep, CopyBatchStep, ValidateTableStep,
     ResetIdentitiesStep, StoreReceiptStep, SendCommitStep, CommitAcknowledgedStep,
     CommitFailsStep, VerifyCommitStep DEF Migrate
<1>3. ASSUME NEW a \in Attempts,
             \/ LookupFails(a) \/ StatementFails(a) \/ VerifyFails(a) \/ Crash(a)
             \/ Server(a)
      PROVE  MigrationInv'
  BY <1>3, LookupFailsStep, StatementFailsStep, VerifyFailsStep, CrashStep,
     ServerCommitsStep, ServerAbortsStep DEF Server
<1>4. QED BY <1>1, <1>2, <1>3 DEF Next

-----------------------------------------------------------------------------
(* The strengthened invariant holds in every behaviour of the command.     *)
THEOREM MigrationInvariant == Spec => []MigrationInv
BY MigrationInit, MigrationNext, PTL DEF Spec

(* Every reachable state has the types TypeOK states.                      *)
THEOREM MigrationTypes == Spec => []TypeOK
<1>1. MigrationInv => TypeOK
  BY DEF MigrationInv
<1>2. QED BY <1>1, MigrationInvariant, PTL

(* However many attempts overlap, crash or lose their COMMIT, the target   *)
(* holds the whole source with the receipt, or nothing, and at most one    *)
(* attempt ever commits.                                                   *)
THEOREM MigrationIsAllOrNothing == Spec => []TargetIsAllOrNothing
<1>1. MigrationInv => TargetIsAllOrNothing
  BY DEF MigrationInv, TargetIsAllOrNothing
<1>2. QED BY <1>1, MigrationInvariant, PTL

(* A reported success is in the target, and "safe to retry" means that the *)
(* attempt has not committed and will not.                                 *)
THEOREM MigrationReportsTruly == Spec => []ReportsAreTrue
<1>1. MigrationInv => ReportsAreTrue
  BY DEF MigrationInv, AttemptInv, ReportInv, ReportsAreTrue
<1>2. QED BY <1>1, MigrationInvariant, PTL

(* The ids v3 hands out next are above all copied ones.                    *)
THEOREM MigratedIdsAreFree == Spec => []NextIdIsFree
<1>1. MigrationInv => NextIdIsFree
  BY DEF MigrationInv
<1>2. QED BY <1>1, MigrationInvariant, PTL
=============================================================================
