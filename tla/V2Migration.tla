---------------------------- MODULE V2Migration -----------------------------
(***************************************************************************)
(* The copy of a v2 PostgreSQL database into an empty v3 database, run as  *)
(* a command: one target transaction that creates the schema, copies and   *)
(* validates every table, sets the identity sequences and stores a         *)
(* receipt; a COMMIT whose acknowledgement may be lost; and a second       *)
(* connection that then looks for the receipt.  An operator may start the  *)
(* command again at any time, also while an earlier attempt is still       *)
(* running or its session lingers in the server.                           *)
(*                                                                         *)
(* The v2 writers are stopped (--confirm-v2-stopped), so the source does   *)
(* not change.  A row is its key; a checksum is the set of rows scanned.   *)
(***************************************************************************)
EXTENDS Naturals, Sequences, FiniteSets

CONSTANTS
  Attempts,   \* the times the command is started
  Plans,      \* the tables in the order they are copied
  Identity,   \* the tables with an identity column
  Ids,        \* keys of rows
  BatchSize,  \* --batch-size
  MaxFaults   \* bound: failed statements, lost connections, crashes

Tables == { Plans[i] : i \in DOMAIN Plans }

ASSUME MigrationAssumption ==
  /\ Plans \in Seq(STRING)
  /\ Plans # <<>>
  /\ \A i, j \in DOMAIN Plans : Plans[i] = Plans[j] => i = j
  /\ Identity \subseteq Tables
  /\ Ids \subseteq Nat \ {0}
  /\ IsFiniteSet(Ids)
  /\ BatchSize \in Nat \ {0}
  /\ MaxFaults \in Nat

VARIABLES
  source,     \* [schemaIsPublic, legacy, rows], the v2 database
  target,     \* the committed state of the target database
  tx,         \* [Attempts -> Tx], each attempt's target transaction
  at,         \* [Attempts -> Step], where the command awaits
  options,    \* [Attempts -> [dryRun, allowLegacy]]
  plan,       \* [Attempts -> DOMAIN Plans], the table being copied
  scanned,    \* [Attempts -> SUBSET Ids], its source rows scanned so far
  report,     \* [Attempts -> Report]
  faults

locals == <<options, plan, scanned>>
vars == <<source, target, tx, at, locals, report, faults>>

-----------------------------------------------------------------------------
Step == {"idle", "schema", "lookup", "inspect", "scan", "migrations", "copy", "validate",
         "identity", "receipt", "release", "committing", "verifying", "ended"}

Rows == [Tables -> SUBSET Ids]

(* What a database holds: relations, rows, the next value of each identity *)
(* sequence, and whose receipt.                                            *)
Database == [exists : BOOLEAN, rows : Rows, next : [Tables -> Nat \ {0}],
             receipt : {"none", "this", "other"}]

(* "open" until COMMIT is sent, "sent" until the server acts on it.        *)
Tx == [state : {"none", "open", "sent", "committed", "aborted"}, rows : Rows,
       next : [Tables -> Nat \ {0}], receipt : {"none", "this"}]

NoRows == [t \in Tables |-> {}]
AllOne == [t \in Tables |-> 1]
NoTx == [state |-> "none", rows |-> NoRows, next |-> AllOne, receipt |-> "none"]

(* status and retrySafe of a report.                                       *)
NoReport == <<"none", FALSE>>
DryRunCompleted == <<"dry_run_completed", TRUE>>
MigrationCompleted == <<"migration_completed", FALSE>>
FailedBeforeCommit(retrySafe) == <<"failed_before_target_commit", retrySafe>>
CommitUnknown == <<"target_commit_unknown", FALSE>>
Report == {NoReport, DryRunCompleted, MigrationCompleted, CommitUnknown}
            \cup { FailedBeforeCommit(safe) : safe \in BOOLEAN }

TypeOK ==
  /\ source \in [schemaIsPublic : BOOLEAN, legacy : BOOLEAN, rows : Rows]
  /\ target \in Database
  /\ tx \in [Attempts -> Tx]
  /\ at \in [Attempts -> Step]
  /\ options \in [Attempts -> [dryRun : BOOLEAN, allowLegacy : BOOLEAN]]
  /\ plan \in [Attempts -> DOMAIN Plans]
  /\ scanned \in [Attempts -> SUBSET Ids]
  /\ report \in [Attempts -> Report]
  /\ faults \in 0..MaxFaults

(* The target is empty, a database of something else, or the target of     *)
(* another migration.                                                      *)
Init ==
  /\ source \in [schemaIsPublic : BOOLEAN, legacy : BOOLEAN, rows : Rows]
  /\ \E used \in BOOLEAN, receipt \in {"none", "other"} :
       /\ receipt = "other" => used
       /\ target = [exists |-> used, rows |-> NoRows, next |-> AllOne, receipt |-> receipt]
  /\ tx = [a \in Attempts |-> NoTx]
  /\ at = [a \in Attempts |-> "idle"]
  /\ options \in [Attempts -> [dryRun : BOOLEAN, allowLegacy : BOOLEAN]]
  /\ plan = [a \in Attempts |-> 1]
  /\ scanned = [a \in Attempts |-> {}]
  /\ report = [a \in Attempts |-> NoReport]
  /\ faults = 0

-----------------------------------------------------------------------------
Fault == faults < MaxFaults /\ faults' = faults + 1

GoTo(a, step) == at' = [at EXCEPT ![a] = step]

End(a, outcome) == GoTo(a, "ended") /\ report' = [report EXCEPT ![a] = outcome]

(* The catch block before COMMIT was sent: the transaction is rolled back, *)
(* unless its connection is lost and the server has yet to notice.         *)
Fail(a) ==
  /\ End(a, FailedBeforeCommit(TRUE))
  /\ \/ UNCHANGED tx
     \/ tx[a].state = "open" /\ tx' = [tx EXCEPT ![a].state = "aborted"]

Start(a) ==
  /\ at[a] = "idle"
  /\ GoTo(a, "schema")
  /\ UNCHANGED <<source, target, tx, locals, report, faults>>

(* assertStandardSourceSchema                                              *)
CheckSchema(a) ==
  /\ at[a] = "schema"
  /\ IF source.schemaIsPublic
       THEN GoTo(a, "lookup") /\ UNCHANGED report
       ELSE End(a, FailedBeforeCommit(FALSE))
  /\ UNCHANGED <<source, target, tx, locals, faults>>

(* findCompletedMigration: an empty target lets the migration begin, a     *)
(* receipt with the same labels ends it.  One with other labels makes the  *)
(* outcome unknown, and any other relation throws without a report.        *)
FindCompletedMigration(a) ==
  /\ at[a] = "lookup"
  /\ IF target.exists
       THEN End(a, CASE target.receipt = "this"  -> MigrationCompleted
                     [] target.receipt = "other" -> CommitUnknown
                     [] OTHER                    -> NoReport)
       ELSE GoTo(a, "inspect") /\ UNCHANGED report
  /\ UNCHANGED <<source, target, tx, locals, faults>>

LookupFails(a) ==
  /\ at[a] = "lookup"
  /\ Fault
  /\ End(a, CommitUnknown)
  /\ UNCHANGED <<source, target, tx, locals>>

(* The source snapshot is opened and inspected.                            *)
InspectSource(a) ==
  /\ at[a] = "inspect"
  /\ IF options[a].dryRun
       THEN GoTo(a, "scan") /\ UNCHANGED <<tx, report>>
       ELSE IF source.legacy /\ ~options[a].allowLegacy
         THEN Fail(a)
         ELSE GoTo(a, "migrations") /\ UNCHANGED <<tx, report>>
  /\ UNCHANGED <<source, target, locals, faults>>

(* A dry run scans the source and ends.                                    *)
ScanSource(a) ==
  /\ at[a] = "scan"
  /\ End(a, DryRunCompleted)
  /\ UNCHANGED <<source, target, tx, locals, faults>>

(* BEGIN and runMigrations: CREATE TABLE waits for every transaction that  *)
(* has created the same table, and may fail when that one has committed.   *)
RunMigrations(a) ==
  /\ at[a] = "migrations"
  /\ \A b \in Attempts : tx[b].state \notin {"open", "sent"}
  /\ \/ GoTo(a, "copy") /\ tx' = [tx EXCEPT ![a].state = "open"] /\ UNCHANGED report
     \/ target.exists /\ Fail(a)
  /\ UNCHANGED <<source, target, locals, faults>>

-----------------------------------------------------------------------------
(* FETCH FORWARD: the next rows in the order of the key, BatchSize of them *)
(* unless fewer are left.                                                  *)
IsFetch(batch, rows) ==
  /\ \A i \in batch, j \in rows \ batch : i < j
  /\ Cardinality(batch) <= BatchSize
  /\ Cardinality(batch) < BatchSize => batch = rows

(* Fault: a full batch is taken for the last one.                          *)
CopyBatchShort(a) ==
  LET t == Plans[plan[a]]
      left == source.rows[t] \ scanned[a]
  IN
  /\ at[a] = "copy"
  /\ \E batch \in SUBSET left :
       /\ IsFetch(batch, left)
       /\ IF batch \cap target.rows[t] # {}
            THEN Fail(a) /\ UNCHANGED scanned
            ELSE /\ scanned' = [scanned EXCEPT ![a] = @ \cup batch]
                 /\ tx' = [tx EXCEPT ![a].rows[t] = @ \cup batch]
                 /\ GoTo(a, IF Cardinality(batch) <= BatchSize THEN "validate" ELSE "copy")
                 /\ UNCHANGED report
  /\ UNCHANGED <<source, target, options, plan, faults>>

(* scanTable with insertRows: one batch is fetched and inserted.  A row    *)
(* that was committed meanwhile violates the primary key.                  *)
CopyBatch(a) ==
  LET t == Plans[plan[a]]
      left == source.rows[t] \ scanned[a]
  IN
  /\ at[a] = "copy"
  /\ \E batch \in SUBSET left :
       /\ IsFetch(batch, left)
       /\ IF batch \cap target.rows[t] # {}
            THEN Fail(a) /\ UNCHANGED scanned
            ELSE /\ scanned' = [scanned EXCEPT ![a] = @ \cup batch]
                 /\ tx' = [tx EXCEPT ![a].rows[t] = @ \cup batch]
                 /\ GoTo(a, IF Cardinality(batch) < BatchSize THEN "validate" ELSE "copy")
                 /\ UNCHANGED report
  /\ UNCHANGED <<source, target, options, plan, faults>>

(* The target is scanned in turn: its rows must be those of the source.    *)
ValidateTable(a) ==
  LET t == Plans[plan[a]] IN
  /\ at[a] = "validate"
  /\ IF tx[a].rows[t] \cup target.rows[t] # scanned[a]
       THEN Fail(a) /\ UNCHANGED <<plan, scanned>>
       ELSE /\ scanned' = [scanned EXCEPT ![a] = {}]
            /\ IF plan[a] = Len(Plans)
                 THEN GoTo(a, "identity") /\ UNCHANGED plan
                 ELSE GoTo(a, "copy") /\ plan' = [plan EXCEPT ![a] = @ + 1]
            /\ UNCHANGED <<tx, report>>
  /\ UNCHANGED <<source, target, options, faults>>

MaxId(rows) == CHOOSE i \in rows : \A j \in rows : j <= i

(* Fault: the sequence is told that MAX(id) was not used.                  *)
NextIdUncalled(rows) == IF rows = {} THEN 1 ELSE MaxId(rows)

(* setval(..., COALESCE(MAX(id), 1), COUNT( * ) > 0).  setval is not undone *)
(* by a rollback; the sequences it ran on are.                             *)
NextId(rows) == IF rows = {} THEN 1 ELSE MaxId(rows) + 1

ResetIdentities(a) ==
  /\ at[a] = "identity"
  /\ tx' = [tx EXCEPT ![a].next =
              [t \in Tables |-> IF t \in Identity
                                  THEN NextId(tx[a].rows[t] \cup target.rows[t])
                                  ELSE @[t]]]
  /\ GoTo(a, "receipt")
  /\ UNCHANGED <<source, target, locals, report, faults>>

(* storeMigrationReceipt: CREATE TABLE fails where a receipt exists.       *)
StoreReceipt(a) ==
  /\ at[a] = "receipt"
  /\ IF target.receipt # "none"
       THEN Fail(a)
       ELSE /\ tx' = [tx EXCEPT ![a].receipt = "this"]
            /\ GoTo(a, "release")
            /\ UNCHANGED report
  /\ UNCHANGED <<source, target, locals, faults>>

(* The source snapshot is closed, and COMMIT is sent without another wait: *)
(* the outcome is unknown from here on.                                    *)
SendCommit(a) ==
  /\ at[a] = "release"
  /\ GoTo(a, "committing")
  /\ tx' = [tx EXCEPT ![a].state = "sent"]
  /\ UNCHANGED <<source, target, locals, report, faults>>

CommitAcknowledged(a) ==
  /\ at[a] = "committing"
  /\ tx[a].state = "committed"
  /\ End(a, MigrationCompleted)
  /\ UNCHANGED <<source, target, tx, locals, faults>>

(* Fault: a failed COMMIT is taken for a failure before it.                *)
CommitFailsBefore(a) ==
  /\ at[a] = "committing"
  /\ \/ tx[a].state = "aborted" /\ UNCHANGED faults
     \/ Fault
  /\ End(a, FailedBeforeCommit(TRUE))
  /\ UNCHANGED <<source, target, tx, locals>>

(* COMMIT is refused, or its connection is lost before the answer.         *)
CommitFails(a) ==
  /\ at[a] = "committing"
  /\ \/ tx[a].state = "aborted" /\ UNCHANGED faults
     \/ Fault
  /\ GoTo(a, "verifying")
  /\ UNCHANGED <<source, target, tx, locals, report>>

(* Fault: the verifier waits for the receipt to appear.                    *)
VerifyUntilFound(a) ==
  /\ at[a] = "verifying"
  /\ target.receipt = "this"
  /\ End(a, MigrationCompleted)
  /\ UNCHANGED <<source, target, tx, locals, faults>>

(* The verifier sees the receipt, or cannot tell.                          *)
VerifyCommit(a) ==
  /\ at[a] = "verifying"
  /\ End(a, IF target.receipt = "this" THEN MigrationCompleted ELSE CommitUnknown)
  /\ UNCHANGED <<source, target, tx, locals, faults>>

VerifyFails(a) ==
  /\ at[a] = "verifying"
  /\ Fault
  /\ End(a, CommitUnknown)
  /\ UNCHANGED <<source, target, tx, locals>>

(* Any other statement fails.                                              *)
StatementFails(a) ==
  /\ at[a] \in Step \ {"idle", "lookup", "committing", "verifying", "ended"}
  /\ Fault
  /\ Fail(a)
  /\ UNCHANGED <<source, target, locals>>

(* The command is killed.                                                  *)
Crash(a) ==
  /\ at[a] \notin {"idle", "ended"}
  /\ Fault
  /\ GoTo(a, "ended")
  /\ UNCHANGED <<source, target, tx, locals, report>>

-----------------------------------------------------------------------------
(* The target's server                                                     *)

(* COMMIT takes effect, whether or not anybody still waits for it.         *)
ServerCommits(a) ==
  /\ tx[a].state = "sent"
  /\ tx' = [tx EXCEPT ![a].state = "committed"]
  /\ target' = [exists  |-> TRUE,
                rows    |-> [t \in Tables |-> target.rows[t] \cup tx[a].rows[t]],
                next    |-> tx[a].next,
                receipt |-> tx[a].receipt]
  /\ UNCHANGED <<source, at, locals, report, faults>>

(* A transaction whose client is gone is aborted; so is one whose COMMIT   *)
(* fails in the server.                                                    *)
ServerAborts(a) ==
  /\ tx[a].state \in {"open", "sent"}
  /\ \/ at[a] \in {"verifying", "ended"} /\ UNCHANGED faults
     \/ tx[a].state = "sent" /\ Fault
  /\ tx' = [tx EXCEPT ![a].state = "aborted"]
  /\ UNCHANGED <<source, target, at, locals, report>>

-----------------------------------------------------------------------------
Migrate(a) ==
  \/ CheckSchema(a) \/ FindCompletedMigration(a) \/ InspectSource(a) \/ ScanSource(a)
  \/ RunMigrations(a) \/ CopyBatch(a) \/ ValidateTable(a) \/ ResetIdentities(a)
  \/ StoreReceipt(a) \/ SendCommit(a) \/ CommitAcknowledged(a)
  \/ CommitFails(a) \/ VerifyCommit(a)

Server(a) == ServerCommits(a) \/ ServerAborts(a)

Next ==
  \E a \in Attempts :
    \/ Start(a) \/ Migrate(a) \/ Server(a)
    \/ LookupFails(a) \/ StatementFails(a) \/ VerifyFails(a) \/ Crash(a)

Spec == Init /\ [][Next]_vars

(* Every statement ends, and the server acts on what it received and on    *)
(* sessions whose client is gone.                                          *)
Fairness == \A a \in Attempts : WF_vars(Migrate(a)) /\ WF_vars(Server(a))

FairSpec == Spec /\ Fairness

-----------------------------------------------------------------------------
(* The receipt stands for all rows of the source, and without it there is  *)
(* none of them.                                                           *)
RowsMatchReceipt ==
  target.rows = IF target.receipt = "this" THEN source.rows ELSE NoRows

(* No attempt copies over another one, not even if the operator ignores    *)
(* the advice of a report.                                                 *)
CopiedOnce ==
  \A a, b \in Attempts : tx[a].state = "committed" /\ tx[b].state = "committed" => a = b

(* "A receipt [is stored] as part of the same transaction as the copied    *)
(* data" (README.md:95): whatever failed, and however attempts overlapped, *)
(* the target is one attempt's whole copy with its receipt, or nothing.    *)
TargetIsAllOrNothing == RowsMatchReceipt /\ CopiedOnce

(* A report of success means that the copy is there, and "it is safe to    *)
(* retry" that this attempt has not committed and never will.              *)
ReportsAreTrue ==
  \A a \in Attempts :
    /\ report[a] = MigrationCompleted => target.receipt = "this"
    /\ report[a][2] => tx[a].state \notin {"sent", "committed"}

(* The rows v3 adds will not collide with the copied ones.                 *)
NextIdIsFree ==
  \A t \in Identity : \A i \in target.rows[t] : i < target.next[t]

(* Every attempt ends, also when it waits for one whose client is gone.    *)
AttemptEnds == \A a \in Attempts : at[a] # "idle" ~> at[a] = "ended"
=============================================================================
