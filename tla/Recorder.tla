------------------------------ MODULE Recorder ------------------------------
(***************************************************************************)
(* MigrationRecorder.has_table() and ensure_schema() as patched in         *)
(* patch/migrations.py: the tables that hold the records which Migrations  *)
(* takes for granted.                                                      *)
(*                                                                         *)
(* Several processes migrate, on the nodes of a cluster or on one.  Each   *)
(* looks for the tables on its own node and then creates those it missed,  *)
(* without IF NOT EXISTS.  A statement ON CLUSTER is an entry of a queue   *)
(* that every node executes in order, each at its own pace; the process    *)
(* waits for all of them, and gets an error if one refused.                *)
(***************************************************************************)
EXTENDS Integers, Sequences

CONSTANTS
    Process,
    Node,
    NodeOf,     \* the node each process is connected to
    MaxFaults   \* bound on the processes that die or wait too long

ASSUME RecorderAssumption ==
    /\ NodeOf \in [Process -> Node]
    /\ MaxFaults \in Nat

VARIABLES
    mode,       \* neither option, migration_cluster, or distributed_migrations too
    together,   \* processes migrate at the same time
    tables,     \* the tables of the recorder on each node
    deleted,    \* the nodes whose django_migrations has that column
    ddl,        \* the tables created ON CLUSTER, in order
    executed,   \* how many of these each node has come to
    refused,    \* those some node had already
    pc,
    waits,      \* the entry of ddl a process waits for
    faults

settings == <<mode, together>>
vars == <<settings, tables, deleted, ddl, executed, refused, pc, waits, faults>>

\* _migration_table, and the table the recorder reads and writes.
Local == "django_migrations"
Distributed == "distributed_django_migrations"
RecorderTable == IF mode = "distributed" THEN Distributed ELSE Local

Init ==
    /\ mode \in {"plain", "cluster", "distributed"} /\ together \in BOOLEAN
    /\ \/ tables = [n \in Node |-> {}] /\ deleted = {}
       \/ tables = [n \in Node |-> {Local}] /\ deleted \in SUBSET Node
    /\ ddl = <<>> /\ executed = [n \in Node |-> 0] /\ refused = {}
    /\ pc = [p \in Process |-> "start"]
    /\ waits = [p \in Process |-> 0]
    /\ faults = 0

Go(p, next) == pc' = [pc EXCEPT ![p] = next]
UnchangedServer == UNCHANGED <<tables, deleted, ddl, executed, refused>>

-----------------------------------------------------------------------------
\* has_table() asks for the tables of the node, if it has not seen its own.
FoundLocal(p) == Local \in tables[NodeOf[p]]
FoundDistributed(p) == Distributed \in tables[NodeOf[p]]
Found(p) == RecorderTable \in tables[NodeOf[p]]
Look(p) ==
    /\ pc[p] = "start"
    /\ together \/ \A q \in Process \ {p} : pc[q] \in {"start", "failed", "ensured"}
    /\ Go(p, IF Found(p) THEN "column"
             ELSE IF mode = "distributed" THEN "local" ELSE "create")
    /\ UnchangedServer /\ UNCHANGED <<settings, waits, faults>>

\* has_table() adds the column to the table of an older release.
AddColumn(p) ==
    /\ pc[p] = "column"
    /\ deleted' = IF mode = "distributed" THEN deleted ELSE deleted \cup {NodeOf[p]}
    /\ Go(p, "ensured")
    /\ UNCHANGED <<settings, tables, ddl, executed, refused, waits, faults>>

\* ensure_schema() asks for the local table.
AfterLocalNever(p) == "create local"
AfterLocalAlways(p) == "create"
AfterLocal(p) == IF Local \in tables[NodeOf[p]] THEN "create" ELSE "create local"
LookLocal(p) ==
    /\ pc[p] = "local"
    /\ Go(p, AfterLocal(p))
    /\ UnchangedServer /\ UNCHANGED <<settings, waits, faults>>

\* What is left to do when a table is there.
After(p) == IF pc[p] \in {"create local", "wait local"} THEN "create" ELSE "ensured"

Table(p) == IF pc[p] \in {"create local", "wait local"} THEN Local ELSE RecorderTable
Creating(p) == pc[p] \in {"create local", "create"}

\* Node n executes CREATE TABLE.
Have(n, table) ==
    /\ tables' = [tables EXCEPT ![n] = @ \cup {table}]
    /\ deleted' = IF table = Local /\ Local \notin tables[n] THEN deleted \cup {n} ELSE deleted

\* create_model() on the node; DatabaseError becomes MigrationSchemaMissing.
CreateHere(p) ==
    /\ Creating(p) /\ mode = "plain"
    /\ IF Table(p) \in tables[NodeOf[p]]
       THEN Go(p, "failed") /\ UNCHANGED <<tables, deleted>>
       ELSE Go(p, After(p)) /\ Have(NodeOf[p], Table(p))
    /\ UNCHANGED <<settings, ddl, executed, refused, waits, faults>>

\* create_model() of a model with a cluster.
CreateOnCluster(p) ==
    /\ Creating(p) /\ mode # "plain"
    /\ ddl' = Append(ddl, Table(p))
    /\ waits' = [waits EXCEPT ![p] = Len(ddl) + 1]
    /\ Go(p, IF pc[p] = "create local" THEN "wait local" ELSE "wait")
    /\ UNCHANGED <<settings, tables, deleted, executed, refused, faults>>

Execute(n) ==
    /\ executed[n] < Len(ddl)
    /\ LET entry == executed[n] + 1 IN
         /\ executed' = [executed EXCEPT ![n] = entry]
         /\ IF ddl[entry] \in tables[n]
            THEN refused' = refused \cup {entry} /\ UNCHANGED <<tables, deleted>>
            ELSE UNCHANGED refused /\ Have(n, ddl[entry])
    /\ UNCHANGED <<settings, ddl, pc, waits, faults>>

Answer(p) ==
    /\ pc[p] \in {"wait local", "wait"}
    /\ \A n \in Node : executed[n] >= waits[p]
    /\ Go(p, IF waits[p] \in refused THEN "failed" ELSE After(p))
    /\ UnchangedServer /\ UNCHANGED <<settings, waits, faults>>

\* distributed_ddl_task_timeout, or the process dies; the queue goes on.
GiveUp(p) ==
    /\ pc[p] \notin {"start", "failed", "ensured"} /\ faults < MaxFaults
    /\ faults' = faults + 1
    /\ Go(p, "failed")
    /\ UnchangedServer /\ UNCHANGED <<settings, waits>>

\* migrate is run again.
Rerun(p) ==
    /\ pc[p] = "failed"
    /\ together \/ \A q \in Process \ {p} : pc[q] \in {"start", "failed", "ensured"}
    /\ Go(p, "start")
    /\ UnchangedServer /\ UNCHANGED <<settings, waits, faults>>

EnsureSchema(p) ==
    \/ Look(p) \/ AddColumn(p) \/ LookLocal(p)
    \/ CreateHere(p) \/ CreateOnCluster(p) \/ Answer(p) \/ Rerun(p)

Next ==
    \/ \E p \in Process : EnsureSchema(p) \/ GiveUp(p)
    \/ \E n \in Node : Execute(n)

Fairness ==
    /\ \A p \in Process : WF_vars(EnsureSchema(p))
    /\ \A n \in Node : WF_vars(Execute(n))

Spec == Init /\ [][Next]_vars /\ Fairness

-----------------------------------------------------------------------------
\* Every variable stays in its type.
TypeOK ==
    /\ mode \in {"plain", "cluster", "distributed"} /\ together \in BOOLEAN
    /\ tables \in [Node -> SUBSET {Local, Distributed}]
    /\ deleted \subseteq Node
    /\ ddl \in Seq({Local, Distributed})
    /\ executed \in [Node -> 0..Len(ddl)]
    /\ refused \subseteq 1..Len(ddl)
    /\ pc \in [Process -> {"start", "column", "local", "create local", "wait local",
                           "create", "wait", "ensured", "failed"}]
    /\ waits \in [Process -> 0..Len(ddl)]
    /\ faults \in 0..MaxFaults

(***************************************************************************)
(* Where ensure_schema() returns, the node of the process has the table    *)
(* the recorder uses, and a table that is no Distributed one has the       *)
(* column "deleted", whichever of the processes created what and whichever *)
(* died between the statements (patch/migrations.py:163-214).              *)
(***************************************************************************)
EnsuredUsable ==
    \A p \in Process : pc[p] = "ensured" =>
        /\ RecorderTable \in tables[NodeOf[p]]
        /\ mode # "distributed" => NodeOf[p] \in deleted

(***************************************************************************)
(* "We need to ensure the local model exists first and then create the     *)
(* distributed model" (patch/migrations.py:194): no node has the           *)
(* distributed table without the local one it reads, however the creations *)
(* of several processes interleave.                                        *)
(***************************************************************************)
LocalFirst == \A n \in Node : Distributed \in tables[n] => Local \in tables[n]

(***************************************************************************)
(* Processes that migrate in turn, as long as none dies, never meet a      *)
(* table another one created on the cluster: MigrationSchemaMissing comes  *)
(* from a race only.                                                       *)
(***************************************************************************)
InTurnNeverFails ==
    ~together /\ faults = 0 => \A p \in Process : pc[p] # "failed"

(***************************************************************************)
(* A race that was lost, or a creation given up between the two tables, is *)
(* overcome by running migrate again.                                      *)
(***************************************************************************)
EventuallyEnsured == <>(\A p \in Process : pc[p] = "ensured")
=============================================================================
