----------------------------- MODULE Migrations -----------------------------
(***************************************************************************)
(* One migration on the nodes of a migration_cluster: Migration.apply,     *)
(* Migration.unapply and the MigrationRecorder (patch/migrations.py), as   *)
(* "manage.py migrate" runs them on each node.                             *)
(*                                                                         *)
(* An operation creates one table: of a model with a cluster, by DDL on    *)
(* every node, or of any other model, on the node that migrates.  Nothing  *)
(* spans the steps of a migration: the plan is read from the records, the  *)
(* cluster is asked, the operations run, the outcome is recorded, and the  *)
(* other nodes may act, or the process die, between any two of them.       *)
(***************************************************************************)
EXTENDS Integers

CONSTANTS
    Node,
    Operations,  \* how many operations the migration has
    OnCluster,   \* those on a model with a cluster
    Rounds,      \* every node migrates in one direction before any turns back
    MaxCrashes   \* bound on the processes that die

ASSUME MigrationAssumption ==
    /\ Operations \in Nat /\ OnCluster \subseteq 1..Operations
    /\ Rounds \in BOOLEAN
    /\ MaxCrashes \in Nat

VARIABLES
    shared,     \* distributed_migrations: all nodes see one set of records
    together,   \* nodes migrate at the same time
    records,    \* the states (by "deleted") of the rows each node has or sees
    tables,     \* <<operation, node>>: the table exists there
    pc,         \* where the migrate of each node is
    direction,  \* apply or unapply
    onRemote,   \* applied_on_remote or unapplied_on_remote
    at,         \* the operation that comes next
    found,      \* record_applied() found a row
    round,      \* the direction of the round
    crashes

settings == <<shared, together>>
vars ==
    <<settings, records, tables, pc, direction, onRemote, at, found, round, crashes>>

Direction == {"apply", "unapply"}
Row == {"applied", "unapplied"}

Init ==
    /\ shared \in BOOLEAN /\ together \in BOOLEAN
    /\ records = [n \in Node |-> {}]
    /\ tables = {}
    /\ pc = [n \in Node |-> "idle"]
    /\ direction = [n \in Node |-> "apply"]
    /\ onRemote = [n \in Node |-> FALSE]
    /\ at = [n \in Node |-> 1]
    /\ found = [n \in Node |-> FALSE]
    /\ round = "apply"
    /\ crashes = 0

\* migration_qs sees a row that is not deleted.
Applied(n) == "applied" \in records[n]

\* The nodes whose records a node writes.
Sharers(n) == IF shared THEN Node ELSE {n}

\* The row the clusterAllReplicas() query of apply() or unapply() looks for.
Sought(d) == IF d = "apply" THEN "applied" ELSE "unapplied"

\* The nodes an operation executed on node n changes.
Where(op, n) == IF op \in OnCluster THEN Node ELSE {n}

\* An operation on a model with a cluster that another node has executed.
SkippedAll(n) == onRemote[n]
SkippedNever(n) == FALSE
Skipped(n) == at[n] \in OnCluster /\ onRemote[n]

\* An operation is left.
Pending(n) == pc[n] = "running" /\ at[n] \in 1..Operations

-----------------------------------------------------------------------------
(* One run of migrate.                                                     *)

\* The plan of Django's executor: apply if not applied, unapply if applied.
Migrate(n, d) ==
    /\ pc[n] = "idle"
    /\ together \/ \A m \in Node : pc[m] = "idle"
    /\ Rounds => d = round
    /\ (d = "apply") = ~Applied(n)
    /\ pc' = [pc EXCEPT ![n] = "planned"]
    /\ direction' = [direction EXCEPT ![n] = d]
    /\ UNCHANGED <<settings, records, tables, onRemote, at, found, round, crashes>>

\* apply() and unapply() ask the cluster once, before the first operation.
Ask(n) ==
    /\ pc[n] = "planned"
    /\ pc' = [pc EXCEPT ![n] = "running"]
    /\ onRemote' = [onRemote EXCEPT ![n] =
                      \E m \in Node : Sought(direction[n]) \in records[m]]
    /\ at' = [at EXCEPT ![n] = IF direction[n] = "apply" THEN 1 ELSE Operations]
    /\ UNCHANGED <<settings, records, tables, direction, found, round, crashes>>

\* The operations in order, or in reverse.
Advance(n) ==
    /\ at' = [at EXCEPT ![n] = IF direction[n] = "apply" THEN @ + 1 ELSE @ - 1]
    /\ UNCHANGED <<settings, records, pc, direction, onRemote, found, round, crashes>>

Skip(n) ==
    /\ Pending(n) /\ Skipped(n)
    /\ Advance(n)
    /\ UNCHANGED tables

\* CREATE TABLE without IF NOT EXISTS.
Forwards(n) ==
    /\ Pending(n) /\ ~Skipped(n) /\ direction[n] = "apply"
    /\ tables \cap ({at[n]} \X Where(at[n], n)) = {}
    /\ tables' = tables \cup ({at[n]} \X Where(at[n], n))
    /\ Advance(n)

\* DROP TABLE without IF EXISTS.
Backwards(n) ==
    /\ Pending(n) /\ ~Skipped(n) /\ direction[n] = "unapply"
    /\ {at[n]} \X Where(at[n], n) \subseteq tables
    /\ tables' = tables \ ({at[n]} \X Where(at[n], n))
    /\ Advance(n)

\* The server refuses the statement; what ran before it stays.
Fail(n) ==
    /\ Pending(n) /\ ~Skipped(n)
    /\ \E m \in Where(at[n], n) : (direction[n] = "apply") = (<<at[n], m>> \in tables)
    /\ pc' = [pc EXCEPT ![n] = "failed"]
    /\ UNCHANGED <<settings, records, tables, direction, onRemote, at, found, round, crashes>>

\* record_applied() looks for a row, deleted or not; record_unapplied() does not.
Find(n) ==
    /\ pc[n] = "running" /\ ~Pending(n)
    /\ pc' = [pc EXCEPT ![n] = "recording"]
    /\ found' = [found EXCEPT ![n] = records[n] # {}]
    /\ UNCHANGED <<settings, records, tables, direction, onRemote, at, round, crashes>>

\* The rows after create(), update(deleted=False) or update(deleted=True).
RecordedAsNew(n, rows) ==
    IF direction[n] = "unapply" THEN {"unapplied" : row \in rows}
    ELSE rows \cup {"applied"}
Recorded(n, rows) ==
    IF direction[n] = "unapply" THEN {"unapplied" : row \in rows}
    ELSE IF found[n] THEN {"applied" : row \in rows}
    ELSE rows \cup {"applied"}

Record(n) ==
    /\ pc[n] = "recording"
    /\ pc' = [pc EXCEPT ![n] = "done"]
    /\ records' = [m \in Node |-> IF m \in Sharers(n) THEN Recorded(n, records[m])
                                                      ELSE records[m]]
    /\ UNCHANGED <<settings, tables, direction, onRemote, at, found, round, crashes>>

Leave(n) ==
    /\ pc[n] \in {"done", "failed"}
    /\ pc' = [pc EXCEPT ![n] = "idle"]
    /\ UNCHANGED <<settings, records, tables, direction, onRemote, at, found, round, crashes>>

Crash(n) ==
    /\ pc[n] \in {"planned", "running", "recording"} /\ crashes < MaxCrashes
    /\ crashes' = crashes + 1
    /\ pc' = [pc EXCEPT ![n] = "idle"]
    /\ UNCHANGED <<settings, records, tables, direction, onRemote, at, found, round>>

\* The operators turn back once every node is where the round takes it.
TurnBack ==
    /\ Rounds
    /\ \A n \in Node : pc[n] = "idle" /\ Applied(n) = (round = "apply")
    /\ round' = IF round = "apply" THEN "unapply" ELSE "apply"
    /\ UNCHANGED <<settings, records, tables, pc, direction, onRemote, at, found, crashes>>

Operate(n) == Skip(n) \/ Forwards(n) \/ Backwards(n) \/ Fail(n)

Next ==
    \/ \E n \in Node :
          \/ \E d \in Direction : Migrate(n, d)
          \/ Ask(n) \/ Operate(n) \/ Find(n) \/ Record(n)
          \/ Leave(n) \/ Crash(n)
    \/ TurnBack

Spec == Init /\ [][Next]_vars

-----------------------------------------------------------------------------
\* Every variable stays in its type; shared records are the same everywhere.
TypeOK ==
    /\ shared \in BOOLEAN /\ together \in BOOLEAN
    /\ records \in [Node -> SUBSET Row]
    /\ tables \subseteq (1..Operations) \X Node
    /\ pc \in [Node -> {"idle", "planned", "running", "recording", "done", "failed"}]
    /\ direction \in [Node -> Direction]
    /\ onRemote \in [Node -> BOOLEAN] /\ found \in [Node -> BOOLEAN]
    /\ at \in [Node -> 0..(Operations + 1)]
    /\ round \in Direction
    /\ crashes \in 0..MaxCrashes
    /\ shared => \A m, n \in Node : records[m] = records[n]

\* The tables node n has to have when the migration is applied there.
TablesOn(n) == {t \in (1..Operations) \X Node :
                  t[2] = n /\ (shared => t[1] \in OnCluster)}
ClusterTables == OnCluster \X Node

(***************************************************************************)
(* "Distributed table will be created on all nodes as long as any node has *)
(* applied the migrations" (README.md:612): where a round of applies has   *)
(* recorded the migration, its cluster tables are on every node, and its   *)
(* own tables on that node, whoever ran the statements and whatever died.  *)
(***************************************************************************)
AppliedHasTables ==
    \A n \in Node : Applied(n) /\ round = "apply"
                      => ClusterTables \cup TablesOn(n) \subseteq tables

(***************************************************************************)
(* Where a round of unapplies has recorded the migration as unapplied, no  *)
(* cluster table is left anywhere and no other table on that node.         *)
(***************************************************************************)
UnappliedHasNone ==
    \A n \in Node : ~Applied(n) /\ round = "unapply"
                      => (ClusterTables \cup TablesOn(n)) \cap tables = {}

(***************************************************************************)
(* "Ensure queries on cluster are only executed once"                      *)
(* (patch/migrations.py:307): nodes that keep their own records and        *)
(* migrate in turn never run into a table another node has created or      *)
(* dropped on the cluster, unless a process has died.                      *)
(***************************************************************************)
OnClusterOnce ==
    ~together /\ ~shared /\ crashes = 0 => \A n \in Node : pc[n] # "failed"
=============================================================================
