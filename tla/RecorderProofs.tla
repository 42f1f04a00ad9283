--------------------------- MODULE RecorderProofs ---------------------------
(***************************************************************************)
(* That the tables of the migration recorder are usable where              *)
(* ensure_schema() returns, and never the distributed one without the      *)
(* local one it reads: for any processes and nodes, any interleaving of    *)
(* the creations, and any number of processes that die or wait too long.   *)
(*                                                                         *)
(* LocalFirst is not inductive: a statement ON CLUSTER takes effect on a   *)
(* node long after it was queued.  QueueOrdered says that the queue holds  *)
(* the local table before the distributed one, unless all nodes have it,   *)
(* and LocalQueued that a process which goes on to the distributed table   *)
(* has reason to.                                                          *)
(***************************************************************************)
EXTENDS Recorder, TLAPS

USE DEF settings, UnchangedServer, Go

AllLocal == \A n \in Node : Local \in tables[n]
LocalInQueue == \E e \in 1..Len(ddl) : ddl[e] = Local

\* A node has the tables of the statements it has come to.
Executed ==
    \A n \in Node : \A e \in 1..executed[n] :
       /\ ddl[e] \in tables[n]
       /\ ddl[e] = Local /\ e \notin refused => n \in deleted

\* On a cluster, a local table is on all nodes from the start or was queued.
LocalKnown ==
    mode # "plain" /\ (\E n \in Node : Local \in tables[n]) => AllLocal \/ LocalInQueue

QueueOrdered ==
    \A d \in 1..Len(ddl) :
       ddl[d] = Distributed => AllLocal \/ \E e \in 1..Len(ddl) : e < d /\ ddl[e] = Local

\* What a process knows of the server at each point of ensure_schema().
LocalQueued(p) == pc[p] = "create" /\ mode = "distributed" => AllLocal \/ LocalInQueue
WaitsFor(p, table) == waits[p] \in 1..Len(ddl) /\ ddl[waits[p]] = table
Usable(p) == /\ RecorderTable \in tables[NodeOf[p]]
             /\ mode # "distributed" => NodeOf[p] \in deleted

ProcessOK(p) ==
    /\ pc[p] \in {"local", "create local", "wait local"} => mode = "distributed"
    /\ pc[p] = "wait local" => WaitsFor(p, Local)
    /\ pc[p] = "wait" => mode # "plain" /\ WaitsFor(p, RecorderTable)
    /\ pc[p] = "column" => RecorderTable \in tables[NodeOf[p]]
    /\ pc[p] = "ensured" => Usable(p)
    /\ LocalQueued(p)

RecorderInv ==
    /\ TypeOK /\ Executed /\ LocalKnown /\ QueueOrdered /\ LocalFirst
    /\ \A p \in Process : ProcessOK(p)

-----------------------------------------------------------------------------
\* The two tables have different names.
LEMMA TwoTables == Local # Distributed /\ RecorderTable \in {Local, Distributed}
BY DEF Local, Distributed, RecorderTable

LEMMA TableType ==
    ASSUME NEW p \in Process PROVE Table(p) \in {Local, Distributed}
BY TwoTables DEF Table

\* CREATE TABLE adds one table to one node.
LEMMA HaveEffect ==
    ASSUME TypeOK, NEW n \in Node, NEW table \in {Local, Distributed}, Have(n, table)
    PROVE  /\ tables' \in [Node -> SUBSET {Local, Distributed}]
           /\ deleted' \in SUBSET Node
           /\ \A m \in Node : tables[m] \subseteq tables'[m]
           /\ \A m \in Node : m # n => tables'[m] = tables[m]
           /\ tables'[n] = tables[n] \cup {table}
           /\ deleted \subseteq deleted'
           /\ table = Local /\ Local \notin tables[n] => n \in deleted'
BY DEF Have, TypeOK

(***************************************************************************)
(* Type correctness of has_table() and ensure_schema()                     *)
(* (patch/migrations.py:163-214) and of the cluster's queue.               *)
(***************************************************************************)
LEMMA TypeStep == TypeOK /\ [Next]_vars => TypeOK'
<1> SUFFICES ASSUME TypeOK, [Next]_vars PROVE TypeOK'
  OBVIOUS
<1> USE RecorderAssumption
<1>1. ASSUME NEW p \in Process, Look(p) PROVE TypeOK'
  BY <1>1 DEF Look, TypeOK
<1>2. ASSUME NEW p \in Process, AddColumn(p) PROVE TypeOK'
  BY <1>2 DEF AddColumn, TypeOK
<1>3. ASSUME NEW p \in Process, LookLocal(p) PROVE TypeOK'
  BY <1>3 DEF LookLocal, AfterLocal, TypeOK
<1>4. ASSUME NEW p \in Process, CreateHere(p) PROVE TypeOK'
  <2>1. CASE Table(p) \in tables[NodeOf[p]]
    BY <1>4, <2>1 DEF CreateHere, TypeOK
  <2>2. CASE Table(p) \notin tables[NodeOf[p]]
    <3>1. Have(NodeOf[p], Table(p)) /\ NodeOf[p] \in Node
      BY <1>4, <2>2 DEF CreateHere
    <3>2. tables' \in [Node -> SUBSET {Local, Distributed}] /\ deleted' \in SUBSET Node
      BY <3>1, TableType, HaveEffect
    <3> QED
      BY <1>4, <2>2, <3>2 DEF CreateHere, After, TypeOK
  <2> QED
    BY <2>1, <2>2
<1>5. ASSUME NEW p \in Process, CreateOnCluster(p) PROVE TypeOK'
  <2>1. ddl \in Seq({Local, Distributed}) /\ ddl' = Append(ddl, Table(p))
    BY <1>5 DEF CreateOnCluster, TypeOK
  <2>2. ddl' \in Seq({Local, Distributed}) /\ Len(ddl') = Len(ddl) + 1 /\ Len(ddl) \in Nat
    BY <2>1, TableType
  <2>3. 0..Len(ddl) \subseteq 0..Len(ddl') /\ 1..Len(ddl) \subseteq 1..Len(ddl')
        /\ Len(ddl) + 1 \in 0..Len(ddl')
    BY <2>2
  <2>4. waits' \in [Process -> 0..Len(ddl')]
    <3>1. waits' = [waits EXCEPT ![p] = Len(ddl) + 1] /\ waits \in [Process -> 0..Len(ddl)]
      BY <1>5 DEF CreateOnCluster, TypeOK
    <3> QED
      BY <2>3, <3>1
  <2>5. executed' \in [Node -> 0..Len(ddl')]
    <3>1. executed' = executed /\ executed \in [Node -> 0..Len(ddl)]
      BY <1>5 DEF CreateOnCluster, TypeOK
    <3> QED
      BY <2>3, <3>1
  <2>6. refused' \in SUBSET (1..Len(ddl'))
    <3>1. refused' = refused /\ refused \in SUBSET (1..Len(ddl))
      BY <1>5 DEF CreateOnCluster, TypeOK
    <3> QED
      BY <2>3, <3>1
  <2> QED
    BY <1>5, <2>2, <2>4, <2>5, <2>6 DEF CreateOnCluster, TypeOK
<1>6. ASSUME NEW n \in Node, Execute(n) PROVE TypeOK'
  <2>01. ddl \in Seq({Local, Distributed}) /\ executed \in [Node -> 0..Len(ddl)]
    BY DEF TypeOK
  <2>02. Len(ddl) \in Nat /\ executed[n] \in 0..Len(ddl)
    BY <2>01
  <2>03. executed[n] + 1 \in 1..Len(ddl)
    BY <1>6, <2>02 DEF Execute
  <2>1. executed' \in [Node -> 0..Len(ddl)] /\ refused' \in SUBSET (1..Len(ddl))
    <3>1. executed' = [executed EXCEPT ![n] = executed[n] + 1]
      BY <1>6 DEF Execute
    <3>2. refused' \in {refused, refused \cup {executed[n] + 1}}
      BY <1>6 DEF Execute
    <3>3. executed \in [Node -> 0..Len(ddl)] /\ refused \subseteq 1..Len(ddl)
      BY DEF TypeOK
    <3>4. executed[n] + 1 \in 0..Len(ddl)
      BY <2>02, <2>03
    <3> QED
      BY <3>1, <3>2, <3>3, <3>4, <2>03
  <2>2. ddl[executed[n] + 1] \in {Local, Distributed}
    BY <2>01, <2>03
  <2>3. tables' \in [Node -> SUBSET {Local, Distributed}] /\ deleted' \in SUBSET Node
    <3>1. CASE ddl[executed[n] + 1] \in tables[n]
      BY <1>6, <3>1 DEF Execute, TypeOK
    <3>2. CASE ddl[executed[n] + 1] \notin tables[n]
      BY <1>6, <2>2, <3>2, HaveEffect DEF Execute
    <3> QED
      BY <3>1, <3>2
  <2> QED
    BY <1>6, <2>1, <2>3 DEF Execute, TypeOK
<1>7. ASSUME NEW p \in Process, Answer(p) PROVE TypeOK'
  BY <1>7 DEF Answer, After, TypeOK
<1>8. ASSUME NEW p \in Process, GiveUp(p) PROVE TypeOK'
  <2>1. faults' \in 0..MaxFaults
    <3>1. faults \in 0..MaxFaults /\ MaxFaults \in Nat
      BY DEF TypeOK, RecorderAssumption
    <3>2. faults < MaxFaults /\ faults' = faults + 1
      BY <1>8 DEF GiveUp
    <3> QED
      BY <3>1, <3>2
  <2>2. pc' = [pc EXCEPT ![p] = "failed"]
    BY <1>8 DEF GiveUp
  <2> QED
    BY <1>8, <2>1, <2>2 DEF GiveUp, TypeOK
<1>9. ASSUME NEW p \in Process, Rerun(p) PROVE TypeOK'
  BY <1>9 DEF Rerun, TypeOK
<1>10. CASE UNCHANGED vars
  BY <1>10 DEF vars, TypeOK
<1>11. Next => \/ \E p \in Process : \/ Look(p) \/ AddColumn(p) \/ LookLocal(p) \/ CreateHere(p)
                                     \/ CreateOnCluster(p) \/ Answer(p) \/ Rerun(p) \/ GiveUp(p)
               \/ \E n \in Node : Execute(n)
  BY DEF Next, EnsureSchema
<1> QED
  BY <1>1, <1>2, <1>3, <1>4, <1>5, <1>6, <1>7, <1>8, <1>9, <1>10, <1>11

LEMMA RecorderInit == Init => RecorderInv
<1> SUFFICES ASSUME Init PROVE RecorderInv
  OBVIOUS
<1>1. TypeOK
  BY RecorderAssumption DEF Init, TypeOK
<1>2. LocalFirst /\ (AllLocal \/ \A n \in Node : Local \notin tables[n])
  BY TwoTables DEF Init, LocalFirst, AllLocal
<1>3. Executed /\ QueueOrdered
  BY DEF Init, Executed, QueueOrdered
<1>4. \A p \in Process : ProcessOK(p)
  BY DEF Init, ProcessOK, LocalQueued
<1> QED
  BY <1>1, <1>2, <1>3, <1>4 DEF RecorderInv, LocalKnown

-----------------------------------------------------------------------------
\* Nothing is taken back: tables, columns, the queue and what became of it.
Grown ==
    /\ mode' = mode
    /\ \A n \in Node : tables[n] \subseteq tables'[n]
    /\ deleted \subseteq deleted'
    /\ Len(ddl) <= Len(ddl') /\ Len(ddl) \in Nat /\ Len(ddl') \in Nat
    /\ \A e \in 1..Len(ddl) : ddl'[e] = ddl[e]

ServerInv == Executed /\ LocalKnown /\ QueueOrdered /\ LocalFirst

\* What one process knows is not undone by the steps of others.
LEMMA OthersKnow ==
    ASSUME TypeOK, Grown, NEW p \in Process, ProcessOK(p),
           pc'[p] = pc[p], waits'[p] = waits[p]
    PROVE  ProcessOK(p)'
<1>1. RecorderTable' = RecorderTable /\ Local' = Local /\ NodeOf[p] \in Node
  BY RecorderAssumption DEF Grown, RecorderTable, Local, Distributed
<1>2. ASSUME NEW table, WaitsFor(p, table) PROVE waits'[p] \in 1..Len(ddl') /\ ddl'[waits'[p]] = table
  BY <1>2 DEF WaitsFor, Grown
<1>3. AllLocal \/ LocalInQueue => AllLocal' \/ LocalInQueue'
  BY <1>1 DEF AllLocal, LocalInQueue, Grown
<1>4. LocalQueued(p)'
  BY <1>3 DEF LocalQueued, ProcessOK, Grown
<1>5. Usable(p) => Usable(p)'
  BY <1>1 DEF Usable, Grown
<1>6. pc[p] = "column" => RecorderTable' \in tables'[NodeOf[p]]
  BY <1>1 DEF ProcessOK, Grown
<1>7. pc[p] = "wait local" => WaitsFor(p, Local)'
  BY <1>1, <1>2 DEF ProcessOK, WaitsFor
<1>8. pc[p] = "wait" => WaitsFor(p, RecorderTable)'
  BY <1>1, <1>2 DEF ProcessOK, WaitsFor
<1> QED
  BY <1>1, <1>4, <1>5, <1>6, <1>7, <1>8 DEF ProcessOK, Grown

\* A process that only looks or waits leaves what the server has as it is.
LEMMA ServerKept ==
    ASSUME ServerInv, UNCHANGED <<mode, tables, ddl, executed, refused>>, deleted \subseteq deleted'
    PROVE  ServerInv'
<1>1. Executed'
  BY DEF ServerInv, Executed, Local
<1>2. LocalKnown' /\ QueueOrdered' /\ LocalFirst'
  BY DEF ServerInv, LocalKnown, QueueOrdered, LocalFirst, AllLocal, LocalInQueue, Local, Distributed
<1> QED
  BY <1>1, <1>2 DEF ServerInv

LEMMA GrownWhenUnchanged ==
    ASSUME TypeOK, UNCHANGED <<mode, tables, ddl>>, deleted \subseteq deleted'
    PROVE  Grown
<1>1. ddl \in Seq({Local, Distributed}) /\ tables' = tables /\ ddl' = ddl /\ mode' = mode
  BY DEF TypeOK
<1>2. Len(ddl) \in Nat
  BY <1>1
<1> QED
  BY <1>1, <1>2 DEF Grown

\* A step of one process keeps the invariant if it keeps what the server has in
\* order and leaves that process where it may be.
LEMMA StepOf ==
    ASSUME RecorderInv, TypeOK', ServerInv', Grown, NEW p \in Process,
           \A q \in Process \ {p} : pc'[q] = pc[q] /\ waits'[q] = waits[q],
           ProcessOK(p)'
    PROVE  RecorderInv'
<1>1. \A q \in Process \ {p} : ProcessOK(q)'
  BY OthersKnow DEF RecorderInv
<1> QED
  BY <1>1 DEF RecorderInv, ServerInv

\* has_table() and the second look of ensure_schema().
LEMMA LookStep ==
    ASSUME RecorderInv, TypeOK', NEW p \in Process, Look(p) \/ LookLocal(p)
    PROVE  RecorderInv'
<1>1. UNCHANGED <<mode, tables, deleted, ddl, executed, refused, waits>>
  BY DEF Look, LookLocal
<1>2. ServerInv' /\ Grown
  BY <1>1, ServerKept, GrownWhenUnchanged DEF RecorderInv, ServerInv
<1>3. \E next : pc' = [pc EXCEPT ![p] = next]
  BY DEF Look, LookLocal
<1>4. \A q \in Process \ {p} : pc'[q] = pc[q] /\ waits'[q] = waits[q]
  BY <1>1, <1>3 DEF RecorderInv, TypeOK
<1>5. p \in DOMAIN pc /\ NodeOf[p] \in Node
  BY RecorderAssumption DEF RecorderInv, TypeOK
<1>6. RecorderTable' = RecorderTable /\ Local' = Local
  BY <1>1 DEF RecorderTable, Local, Distributed
<1>7. ASSUME Look(p) PROVE ProcessOK(p)'
  <2>1. CASE Found(p)
    BY <1>1, <1>5, <1>6, <1>7, <2>1 DEF Look, Found, ProcessOK, LocalQueued
  <2>2. CASE ~Found(p) /\ mode = "distributed"
    BY <1>1, <1>5, <1>6, <1>7, <2>2 DEF Look, ProcessOK, LocalQueued
  <2>3. CASE ~Found(p) /\ mode # "distributed"
    BY <1>1, <1>5, <1>6, <1>7, <2>3 DEF Look, ProcessOK, LocalQueued
  <2> QED
    BY <2>1, <2>2, <2>3
<1>8. ASSUME LookLocal(p) PROVE ProcessOK(p)'
  <2>1. mode = "distributed"
    BY <1>8 DEF LookLocal, RecorderInv, ProcessOK
  <2>2. CASE Local \in tables[NodeOf[p]]
    <3>1. AllLocal \/ LocalInQueue
      BY <1>5, <2>1, <2>2 DEF RecorderInv, LocalKnown
    <3>2. (AllLocal \/ LocalInQueue)'
      BY <1>1, <1>6, <3>1 DEF AllLocal, LocalInQueue
    <3> QED
      BY <1>5, <1>8, <2>2, <3>2 DEF LookLocal, AfterLocal, ProcessOK, LocalQueued
  <2>3. CASE Local \notin tables[NodeOf[p]]
    BY <1>1, <1>5, <1>8, <2>1, <2>3 DEF LookLocal, AfterLocal, ProcessOK, LocalQueued
  <2> QED
    BY <2>2, <2>3
<1> QED
  BY <1>2, <1>4, <1>7, <1>8, StepOf

\* The column is added to a table that is there.
LEMMA AddColumnStep ==
    ASSUME RecorderInv, TypeOK', NEW p \in Process, AddColumn(p)
    PROVE  RecorderInv'
<1>1. UNCHANGED <<mode, tables, ddl, executed, refused, waits>> /\ deleted \subseteq deleted'
  BY DEF AddColumn
<1>2. ServerInv' /\ Grown
  BY <1>1, ServerKept, GrownWhenUnchanged DEF RecorderInv, ServerInv
<1>3. pc[p] = "column" /\ pc' = [pc EXCEPT ![p] = "ensured"] /\ p \in DOMAIN pc
  BY DEF AddColumn, RecorderInv, TypeOK
<1>4. \A q \in Process \ {p} : pc'[q] = pc[q] /\ waits'[q] = waits[q]
  BY <1>1, <1>3 DEF RecorderInv, TypeOK
<1>5. RecorderTable' = RecorderTable
  BY <1>1 DEF RecorderTable, Local, Distributed
<1>6. Usable(p)'
  <2>1. RecorderTable \in tables[NodeOf[p]]
    BY <1>3 DEF RecorderInv, ProcessOK
  <2>2. mode # "distributed" => NodeOf[p] \in deleted'
    BY DEF AddColumn
  <2> QED
    BY <1>1, <1>5, <2>1, <2>2 DEF Usable
<1>7. ProcessOK(p)'
  BY <1>3, <1>6 DEF ProcessOK, LocalQueued
<1> QED
  BY <1>2, <1>4, <1>7, StepOf

\* A process fails, or is run again.
LEMMA IdleStep ==
    ASSUME RecorderInv, TypeOK', NEW p \in Process, GiveUp(p) \/ Rerun(p)
    PROVE  RecorderInv'
<1>1. UNCHANGED <<mode, tables, deleted, ddl, executed, refused, waits>>
  BY DEF GiveUp, Rerun
<1>2. ServerInv' /\ Grown
  BY <1>1, ServerKept, GrownWhenUnchanged DEF RecorderInv, ServerInv
<1>3. \/ pc' = [pc EXCEPT ![p] = "failed"]
      \/ pc' = [pc EXCEPT ![p] = "start"]
  BY DEF GiveUp, Rerun
<1>4. \A q \in Process \ {p} : pc'[q] = pc[q] /\ waits'[q] = waits[q]
  BY <1>1, <1>3 DEF RecorderInv, TypeOK
<1>5. pc'[p] \in {"failed", "start"}
  BY <1>3 DEF RecorderInv, TypeOK
<1>6. ProcessOK(p)'
  BY <1>5 DEF ProcessOK, LocalQueued
<1> QED
  BY <1>2, <1>4, <1>6, StepOf

\* A process whose statement ON CLUSTER all nodes have come to.
LEMMA AnswerStep ==
    ASSUME RecorderInv, TypeOK', NEW p \in Process, Answer(p)
    PROVE  RecorderInv'
<1>1. UNCHANGED <<mode, tables, deleted, ddl, executed, refused, waits>>
  BY DEF Answer
<1>2. ServerInv' /\ Grown
  BY <1>1, ServerKept, GrownWhenUnchanged DEF RecorderInv, ServerInv
<1>3. pc' = [pc EXCEPT ![p] = IF waits[p] \in refused THEN "failed" ELSE After(p)] /\ p \in DOMAIN pc
  BY DEF Answer, RecorderInv, TypeOK
<1>4. \A q \in Process \ {p} : pc'[q] = pc[q] /\ waits'[q] = waits[q]
  BY <1>1, <1>3 DEF RecorderInv, TypeOK
<1>5. RecorderTable' = RecorderTable /\ Local' = Local /\ NodeOf[p] \in Node
  BY <1>1, RecorderAssumption DEF RecorderTable, Local, Distributed
<1>6. CASE waits[p] \in refused
  <2>1. ProcessOK(p)'
    BY <1>3, <1>6 DEF ProcessOK, LocalQueued
  <2> QED
    BY <1>2, <1>4, <2>1, StepOf
<1>7. CASE waits[p] \notin refused /\ pc[p] = "wait local"
  <2>1. mode = "distributed" /\ WaitsFor(p, Local) /\ pc'[p] = "create"
    BY <1>3, <1>7 DEF RecorderInv, ProcessOK, After
  <2>2. LocalInQueue'
    BY <1>1, <1>5, <2>1 DEF LocalInQueue, WaitsFor
  <2>3. ProcessOK(p)'
    BY <2>1, <2>2 DEF ProcessOK, LocalQueued
  <2> QED
    BY <1>2, <1>4, <2>3, StepOf
<1>8. CASE waits[p] \notin refused /\ pc[p] = "wait"
  <2>1. WaitsFor(p, RecorderTable) /\ pc'[p] = "ensured"
    BY <1>3, <1>8 DEF RecorderInv, ProcessOK, After
  <2>2. executed[NodeOf[p]] \in Nat /\ executed[NodeOf[p]] >= waits[p] /\ waits[p] \in Nat /\ waits[p] >= 1
    <3>1. executed[NodeOf[p]] >= waits[p]
      BY <1>5 DEF Answer
    <3>2. ddl \in Seq({Local, Distributed}) /\ executed[NodeOf[p]] \in 0..Len(ddl)
      BY <1>5 DEF RecorderInv, TypeOK
    <3>3. waits[p] \in 1..Len(ddl) /\ Len(ddl) \in Nat
      BY <2>1, <3>2 DEF WaitsFor
    <3> QED
      BY <3>1, <3>2, <3>3
  <2>3. waits[p] \in 1..executed[NodeOf[p]]
    BY <2>2
  <2>4. /\ RecorderTable \in tables[NodeOf[p]]
        /\ RecorderTable = Local => NodeOf[p] \in deleted
    BY <1>5, <1>8, <2>1, <2>3 DEF RecorderInv, Executed, WaitsFor
  <2>5. Usable(p)'
    BY <1>1, <1>5, <2>4 DEF Usable, RecorderTable
  <2>6. ProcessOK(p)'
    BY <2>1, <2>5 DEF ProcessOK, LocalQueued
  <2> QED
    BY <1>2, <1>4, <2>6, StepOf
<1> QED
  BY <1>6, <1>7, <1>8 DEF Answer

\* CREATE TABLE without a cluster.
LEMMA CreateHereStep ==
    ASSUME RecorderInv, TypeOK', NEW p \in Process, CreateHere(p)
    PROVE  RecorderInv'
<1>1. mode = "plain" /\ pc[p] = "create" /\ RecorderTable = Local /\ Table(p) = Local
  BY DEF CreateHere, Creating, RecorderInv, ProcessOK, RecorderTable, Table
<1>2. UNCHANGED <<mode, ddl, executed, refused, waits>> /\ NodeOf[p] \in Node
  BY RecorderAssumption DEF CreateHere
<1>3. RecorderTable' = RecorderTable /\ Local' = Local /\ Distributed' = Distributed
  BY <1>2 DEF RecorderTable, Local, Distributed
<1>4. CASE Local \in tables[NodeOf[p]]
  <2>1. UNCHANGED <<tables, deleted>> /\ pc' = [pc EXCEPT ![p] = "failed"]
    BY <1>1, <1>4 DEF CreateHere
  <2>2. ServerInv' /\ Grown
    BY <1>2, <2>1, ServerKept, GrownWhenUnchanged DEF RecorderInv, ServerInv
  <2>3. \A q \in Process \ {p} : pc'[q] = pc[q] /\ waits'[q] = waits[q]
    BY <1>2, <2>1 DEF RecorderInv, TypeOK
  <2>4. ProcessOK(p)'
    BY <2>1 DEF ProcessOK, LocalQueued, RecorderInv, TypeOK
  <2> QED
    BY <2>2, <2>3, <2>4, StepOf
<1>5. CASE Local \notin tables[NodeOf[p]]
  <2>1. Have(NodeOf[p], Local) /\ pc' = [pc EXCEPT ![p] = "ensured"]
    BY <1>1, <1>5 DEF CreateHere, After
  <2>2. /\ \A m \in Node : tables[m] \subseteq tables'[m]
        /\ \A m \in Node : m # NodeOf[p] => tables'[m] = tables[m]
        /\ tables'[NodeOf[p]] = tables[NodeOf[p]] \cup {Local}
        /\ deleted \subseteq deleted'
        /\ NodeOf[p] \in deleted'
    BY <1>2, <1>5, <2>1, TwoTables, HaveEffect DEF RecorderInv
  <2>3. Len(ddl) \in Nat
    <3>1. ddl \in Seq({Local, Distributed})
      BY DEF RecorderInv, TypeOK
    <3> QED
      BY <3>1
  <2>4. Grown
    BY <1>2, <2>2, <2>3 DEF Grown
  <2>5. Executed'
    BY <1>2, <1>3, <2>2 DEF RecorderInv, Executed
  <2>6. LocalFirst'
    BY <1>3, <2>2, TwoTables DEF RecorderInv, LocalFirst
  <2>7. LocalKnown'
    BY <1>1, <1>2 DEF LocalKnown
  <2>8. QueueOrdered'
    BY <1>2, <1>3, <2>2 DEF RecorderInv, QueueOrdered, AllLocal
  <2>9. \A q \in Process \ {p} : pc'[q] = pc[q] /\ waits'[q] = waits[q]
    BY <1>2, <2>1 DEF RecorderInv, TypeOK
  <2>10. ProcessOK(p)'
    <3>1. Usable(p)'
      BY <1>1, <1>2, <1>3, <2>2 DEF Usable
    <3>2. pc'[p] = "ensured"
      BY <2>1 DEF RecorderInv, TypeOK
    <3> QED
      BY <3>1, <3>2 DEF ProcessOK, LocalQueued
  <2> QED
    BY <2>4, <2>5, <2>6, <2>7, <2>8, <2>9, <2>10, StepOf DEF ServerInv
<1> QED
  BY <1>4, <1>5

\* CREATE TABLE ... ON CLUSTER is queued.
LEMMA CreateOnClusterStep ==
    ASSUME RecorderInv, TypeOK', NEW p \in Process, CreateOnCluster(p)
    PROVE  RecorderInv'
<1>1. UNCHANGED <<mode, tables, deleted, executed, refused>> /\ ddl' = Append(ddl, Table(p))
  BY DEF CreateOnCluster
<1>2. ddl \in Seq({Local, Distributed}) /\ Table(p) \in {Local, Distributed}
  BY TableType DEF RecorderInv, TypeOK
<1>3. /\ Len(ddl) \in Nat /\ Len(ddl') = Len(ddl) + 1
      /\ ddl'[Len(ddl) + 1] = Table(p)
      /\ \A e \in 1..Len(ddl) : ddl'[e] = ddl[e]
  BY <1>1, <1>2
<1>4. RecorderTable' = RecorderTable /\ Local' = Local /\ Distributed' = Distributed
  BY <1>1 DEF RecorderTable, Local, Distributed
<1>5. Grown
  BY <1>1, <1>3 DEF Grown
<1>6. Executed'
  <2>1. ASSUME NEW n \in Node, NEW e \in 1..executed[n] PROVE e \in 1..Len(ddl)
    <3>1. executed[n] \in 0..Len(ddl)
      BY DEF RecorderInv, TypeOK
    <3> QED
      BY <1>3, <2>1, <3>1
  <2> QED
    BY <1>1, <1>3, <1>4, <2>1 DEF RecorderInv, Executed
<1>7. AllLocal \/ LocalInQueue => (AllLocal \/ LocalInQueue)'
  BY <1>1, <1>3, <1>4 DEF AllLocal, LocalInQueue
<1>8. LocalKnown' /\ LocalFirst'
  BY <1>1, <1>4, <1>7 DEF RecorderInv, LocalKnown, LocalFirst
<1>9. QueueOrdered'
  <2>1. ASSUME NEW d \in 1..Len(ddl'), ddl'[d] = Distributed
        PROVE  AllLocal' \/ \E e \in 1..Len(ddl') : e < d /\ ddl'[e] = Local
    <3>1. CASE d \in 1..Len(ddl)
      BY <1>1, <1>3, <1>4, <2>1, <3>1 DEF RecorderInv, QueueOrdered, AllLocal
    <3>2. CASE d = Len(ddl) + 1
      <4>1. pc[p] = "create" /\ mode = "distributed"
        BY <1>3, <2>1, <3>2, TwoTables DEF CreateOnCluster, Creating, Table, RecorderTable
      <4>2. AllLocal \/ LocalInQueue
        BY <4>1 DEF RecorderInv, ProcessOK, LocalQueued
      <4> QED
        BY <1>1, <1>3, <1>4, <3>2, <4>2 DEF AllLocal, LocalInQueue
    <3> QED
      BY <1>3, <2>1, <3>1, <3>2
  <2> QED
    BY <1>4, <2>1 DEF QueueOrdered
<1>10. /\ pc' = [pc EXCEPT ![p] = IF pc[p] = "create local" THEN "wait local" ELSE "wait"]
       /\ waits' = [waits EXCEPT ![p] = Len(ddl) + 1]
       /\ p \in DOMAIN pc /\ p \in DOMAIN waits
  BY DEF CreateOnCluster, RecorderInv, TypeOK
<1>11. \A q \in Process \ {p} : pc'[q] = pc[q] /\ waits'[q] = waits[q]
  BY <1>10 DEF RecorderInv, TypeOK
<1>12. ProcessOK(p)'
  <2>1. waits'[p] \in 1..Len(ddl') /\ ddl'[waits'[p]] = Table(p)
    <3>1. waits'[p] = Len(ddl) + 1
      BY <1>10, Zenon
    <3>2. Len(ddl) + 1 \in 1..Len(ddl')
      BY <1>3
    <3> QED
      BY <1>3, <3>1, <3>2
  <2>2. pc[p] = "create local" => mode = "distributed" /\ Table(p) = Local
    BY DEF RecorderInv, ProcessOK, Table
  <2>3. pc[p] # "create local" => mode # "plain" /\ Table(p) = RecorderTable
    BY DEF CreateOnCluster, Creating, Table
  <2> QED
    BY <1>1, <1>4, <1>10, <2>1, <2>2, <2>3 DEF ProcessOK, LocalQueued, WaitsFor
<1> QED
  BY <1>5, <1>6, <1>8, <1>9, <1>11, <1>12, StepOf DEF ServerInv

\* A node comes to the next statement of the queue.
LEMMA ExecuteStep ==
    ASSUME RecorderInv, TypeOK', NEW n \in Node, Execute(n)
    PROVE  RecorderInv'
<1> DEFINE entry == executed[n] + 1
<1>1. UNCHANGED <<mode, ddl, pc, waits>> /\ executed' = [executed EXCEPT ![n] = entry]
  BY DEF Execute
<1>2. /\ ddl \in Seq({Local, Distributed}) /\ executed \in [Node -> 0..Len(ddl)]
      /\ executed[n] < Len(ddl)
  BY DEF RecorderInv, TypeOK, Execute
<1>3. Len(ddl) \in Nat /\ executed[n] \in Nat /\ entry \in 1..Len(ddl)
  BY <1>2
<1>4. ddl[entry] \in {Local, Distributed}
  BY <1>2, <1>3
<1>5. Local' = Local /\ Distributed' = Distributed
  BY DEF Local, Distributed
<1>6. /\ \A m \in Node : tables[m] \subseteq tables'[m]
      /\ \A m \in Node : m # n => tables'[m] = tables[m]
      /\ tables'[n] = tables[n] \cup {ddl[entry]}
      /\ deleted \subseteq deleted' /\ refused \subseteq refused'
      /\ ddl[entry] = Local => entry \in refused' \/ n \in deleted'
  <2>1. CASE ddl[entry] \in tables[n]
    <3>1. refused' = refused \cup {entry} /\ UNCHANGED <<tables, deleted>>
      BY <2>1 DEF Execute
    <3> QED
      BY <2>1, <3>1
  <2>2. CASE ddl[entry] \notin tables[n]
    <3>1. refused' = refused /\ Have(n, ddl[entry])
      BY <2>2 DEF Execute
    <3> QED
      BY <1>4, <2>2, <3>1, HaveEffect DEF RecorderInv
  <2> QED
    BY <2>1, <2>2
<1>7. Grown
  BY <1>1, <1>3, <1>6 DEF Grown
<1>8. Executed'
  <2>1. ASSUME NEW m \in Node, NEW e \in 1..executed'[m]
        PROVE  /\ ddl[e] \in tables'[m]
               /\ ddl[e] = Local /\ e \notin refused' => m \in deleted'
    <3>1. CASE e \in 1..executed[m]
      BY <1>6, <3>1 DEF RecorderInv, Executed
    <3>2. CASE e \notin 1..executed[m]
      <4>1. m = n /\ e = entry
        BY <1>1, <1>2, <1>3, <2>1, <3>2
      <4> QED
        BY <1>6, <4>1
    <3> QED
      BY <3>1, <3>2
  <2> QED
    BY <1>1, <1>5, <2>1 DEF Executed
<1>9. LocalKnown'
  <2>1. CASE ddl[entry] = Local
    BY <1>1, <1>3, <1>5, <2>1 DEF LocalKnown, LocalInQueue
  <2>2. CASE ddl[entry] # Local
    <3>1. \A m \in Node : Local \in tables'[m] <=> Local \in tables[m]
      BY <1>6, <2>2
    <3> QED
      BY <1>1, <1>5, <3>1 DEF RecorderInv, LocalKnown, AllLocal, LocalInQueue
  <2> QED
    BY <2>1, <2>2
<1>10. QueueOrdered'
  BY <1>1, <1>5, <1>6 DEF RecorderInv, QueueOrdered, AllLocal
<1>11. LocalFirst'
  <2>1. ddl[entry] = Distributed => Local \in tables'[n]
    <3>1. ASSUME ddl[entry] = Distributed, ~AllLocal PROVE Local \in tables[n]
      <4>1. PICK e \in 1..Len(ddl) : e < entry /\ ddl[e] = Local
        BY <1>3, <3>1 DEF RecorderInv, QueueOrdered
      <4>2. e \in 1..executed[n]
        BY <1>3, <4>1
      <4> QED
        BY <4>1, <4>2 DEF RecorderInv, Executed
    <3> QED
      BY <1>6, <3>1 DEF AllLocal
  <2> QED
    BY <1>5, <1>6, <2>1, TwoTables DEF RecorderInv, LocalFirst
<1>12. \A p \in Process : ProcessOK(p)'
  BY <1>1, <1>7, OthersKnow DEF RecorderInv
<1> QED
  BY <1>8, <1>9, <1>10, <1>11, <1>12 DEF RecorderInv

LEMMA RecorderStep == RecorderInv /\ [Next]_vars => RecorderInv'
<1> SUFFICES ASSUME RecorderInv, [Next]_vars PROVE RecorderInv'
  OBVIOUS
<1>1. TypeOK'
  BY TypeStep DEF RecorderInv
<1>2. CASE UNCHANGED vars
  <2>1. UNCHANGED <<mode, tables, deleted, ddl, executed, refused, pc, waits>>
    BY <1>2 DEF vars
  <2>2. ServerInv' /\ Grown
    BY <2>1, ServerKept, GrownWhenUnchanged DEF RecorderInv, ServerInv
  <2>3. \A p \in Process : ProcessOK(p)'
    BY <2>1, <2>2, OthersKnow DEF RecorderInv
  <2> QED
    BY <1>1, <2>2, <2>3 DEF RecorderInv, ServerInv
<1>3. CASE Next
  <2>1. \/ \E p \in Process : \/ Look(p) \/ LookLocal(p) \/ AddColumn(p) \/ CreateHere(p)
                              \/ CreateOnCluster(p) \/ Answer(p) \/ Rerun(p) \/ GiveUp(p)
        \/ \E n \in Node : Execute(n)
    BY <1>3 DEF Next, EnsureSchema
  <2> QED
    BY <1>1, <2>1, LookStep, AddColumnStep, IdleStep, AnswerStep, CreateHereStep,
       CreateOnClusterStep, ExecuteStep
<1> QED
  BY <1>2, <1>3

-----------------------------------------------------------------------------
(* Processes that take turns, as long as none dies or waits too long.      *)

Working(p) == pc[p] \notin {"start", "failed", "ensured"}
Waiting(p) == pc[p] \in {"wait local", "wait"}

\* All nodes are alike, but for the statement a process waits for.
TurnServer ==
    /\ refused = {}
    /\ \A n \in Node : executed[n] = Len(ddl) \/ executed[n] + 1 = Len(ddl)
    /\ (\A p \in Process : ~Waiting(p)) => \A n \in Node : executed[n] = Len(ddl)
    /\ mode # "plain" => \A n, m \in Node :
          /\ executed[n] = executed[m] => tables[n] = tables[m]
          /\ executed[n] < executed[m] => tables[m] = tables[n] \cup {ddl[Len(ddl)]}

\* Whoever works is alone, and what it is about to create is nowhere.
TurnProcess(p) ==
    /\ pc[p] # "failed"
    /\ Working(p) => \A q \in Process \ {p} : ~Working(q)
    /\ pc[p] \in {"local", "create local", "wait local", "create"}
         => RecorderTable \notin tables[NodeOf[p]]
    /\ pc[p] = "create local" => Local \notin tables[NodeOf[p]]
    /\ Waiting(p) => /\ waits[p] = Len(ddl)
                     /\ \A n \in Node : executed[n] < Len(ddl) => ddl[Len(ddl)] \notin tables[n]

TurnInv == ~together /\ faults = 0 => TurnServer /\ \A p \in Process : TurnProcess(p)

\* What a step of the working process keeps, while the server stays as it is.
LEMMA TurnOf ==
    ASSUME TypeOK, TurnServer, \A q \in Process : TurnProcess(q), NEW p \in Process,
           \A q \in Process \ {p} : ~Working(q) /\ pc'[q] = pc[q],
           UNCHANGED <<mode, tables, ddl, executed, refused>>,
           \A n \in Node : executed[n] = Len(ddl),
           pc'[p] \notin {"failed", "wait local", "wait"},
           pc'[p] \in {"local", "create local", "create"} => RecorderTable \notin tables[NodeOf[p]],
           pc'[p] = "create local" => Local \notin tables[NodeOf[p]]
    PROVE  (TurnServer /\ \A q \in Process : TurnProcess(q))'
<1>1. RecorderTable' = RecorderTable /\ Local' = Local
  BY DEF RecorderTable, Local, Distributed
<1>2. TurnServer'
  BY DEF TurnServer
<1>3. TurnProcess(p)'
  BY <1>1 DEF TurnProcess, Working, Waiting
<1>4. ASSUME NEW q \in Process \ {p} PROVE TurnProcess(q)'
  BY <1>1, <1>4 DEF TurnProcess, Working, Waiting
<1> QED
  BY <1>2, <1>3, <1>4

LEMMA TurnStep == RecorderInv /\ TurnInv /\ [Next]_vars => TurnInv'
<1> SUFFICES ASSUME RecorderInv, TurnInv, [Next]_vars, ~together', faults' = 0
             PROVE  (TurnServer /\ \A p \in Process : TurnProcess(p))'
  BY DEF TurnInv
<1>1. together' = together /\ faults \in Nat /\ (faults' = faults \/ faults' = faults + 1)
  <2>1. faults \in Nat
    <3>1. faults \in 0..MaxFaults
      BY DEF RecorderInv, TypeOK
    <3>2. MaxFaults \in Nat
      BY RecorderAssumption
    <3> QED
      BY <3>1, <3>2
  <2>2. ASSUME NEW p \in Process, EnsureSchema(p) PROVE together' = together /\ faults' = faults
    BY <2>2 DEF EnsureSchema, Look, AddColumn, LookLocal, CreateHere, CreateOnCluster, Answer, Rerun
  <2>3. ASSUME NEW p \in Process, GiveUp(p) PROVE together' = together /\ faults' = faults + 1
    BY <2>3 DEF GiveUp
  <2>4. ASSUME NEW n \in Node, Execute(n) PROVE together' = together /\ faults' = faults
    BY <2>4 DEF Execute
  <2>5. ASSUME UNCHANGED vars PROVE together' = together /\ faults' = faults
    BY <2>5 DEF vars
  <2> QED
    BY <2>1, <2>2, <2>3, <2>4, <2>5 DEF Next
<1>2. TurnServer /\ \A p \in Process : TurnProcess(p)
  BY <1>1 DEF TurnInv
<1>0. ddl \in Seq({Local, Distributed})
  BY DEF RecorderInv, TypeOK
<1>3. /\ TypeOK /\ Len(ddl) \in Nat
      /\ \A n \in Node : executed[n] \in 0..Len(ddl)
      /\ \A p \in Process : p \in DOMAIN pc /\ p \in DOMAIN waits /\ NodeOf[p] \in Node
  <2>1. Len(ddl) \in Nat
    BY <1>0
  <2>2. \A n \in Node : executed[n] \in 0..Len(ddl)
    BY DEF RecorderInv, TypeOK
  <2>3. DOMAIN pc = Process /\ DOMAIN waits = Process
    BY DEF RecorderInv, TypeOK
  <2>4. \A p \in Process : NodeOf[p] \in Node
    BY RecorderAssumption
  <2> QED
    BY <2>1, <2>2, <2>3, <2>4 DEF RecorderInv
<1>4. ASSUME NEW p \in Process, Look(p) \/ (Working(p) /\ ~Waiting(p))
      PROVE  /\ \A q \in Process \ {p} : ~Working(q)
             /\ \A n \in Node : executed[n] = Len(ddl)
  <2>1. \A q \in Process \ {p} : ~Working(q)
    BY <1>1, <1>2, <1>4 DEF Look, TurnProcess, Working
  <2>2. \A q \in Process : ~Waiting(q)
    BY <1>4, <2>1 DEF Look, Working, Waiting
  <2> QED
    BY <1>2, <2>1, <2>2 DEF TurnServer
<1>5. ASSUME NEW p \in Process, Look(p) PROVE (TurnServer /\ \A q \in Process : TurnProcess(q))'
  <2>1. /\ UNCHANGED <<mode, tables, ddl, executed, refused>>
        /\ pc' = [pc EXCEPT ![p] = IF Found(p) THEN "column"
                                     ELSE IF mode = "distributed" THEN "local" ELSE "create"]
    BY <1>5 DEF Look
  <2>2. \A q \in Process \ {p} : pc'[q] = pc[q]
    BY <2>1 DEF RecorderInv, TypeOK
  <2>3. pc'[p] \in {"column", "local", "create"} /\ (pc'[p] # "column" => ~Found(p))
    <3>1. CASE Found(p)
      <4>1. pc' = [pc EXCEPT ![p] = "column"]
        BY <2>1, <3>1
      <4> QED
        BY <1>3, <4>1, <3>1
    <3>2. CASE ~Found(p) /\ mode = "distributed"
      <4>1. pc' = [pc EXCEPT ![p] = "local"]
        BY <2>1, <3>2
      <4> QED
        BY <1>3, <4>1, <3>2
    <3>3. CASE ~Found(p) /\ mode # "distributed"
      <4>1. pc' = [pc EXCEPT ![p] = "create"]
        BY <2>1, <3>3
      <4> QED
        BY <1>3, <4>1, <3>3
    <3> QED
      BY <3>1, <3>2, <3>3
  <2>4. /\ \A q \in Process \ {p} : ~Working(q)
        /\ \A n \in Node : executed[n] = Len(ddl)
    BY <1>4, <1>5
  <2>5. /\ pc'[p] \notin {"failed", "wait local", "wait"}
        /\ pc'[p] \in {"local", "create local", "create"} => RecorderTable \notin tables[NodeOf[p]]
        /\ pc'[p] # "create local"
    BY <2>3 DEF Found
  <2> QED
    BY <1>2, <1>3, <2>1, <2>2, <2>4, <2>5, TurnOf
<1>6. ASSUME NEW p \in Process, AddColumn(p) PROVE (TurnServer /\ \A q \in Process : TurnProcess(q))'
  <2>1. /\ UNCHANGED <<mode, tables, ddl, executed, refused>> /\ Working(p) /\ ~Waiting(p)
        /\ pc' = [pc EXCEPT ![p] = "ensured"]
    BY <1>6 DEF AddColumn, Working, Waiting
  <2>2. pc'[p] = "ensured" /\ \A q \in Process \ {p} : pc'[q] = pc[q]
    BY <1>3, <2>1 DEF RecorderInv, TypeOK
  <2> QED
    BY <1>2, <1>3, <1>4, <2>1, <2>2, TurnOf
<1>7. ASSUME NEW p \in Process, LookLocal(p) PROVE (TurnServer /\ \A q \in Process : TurnProcess(q))'
  <2>1. /\ UNCHANGED <<mode, tables, ddl, executed, refused>> /\ Working(p) /\ ~Waiting(p)
        /\ pc' = [pc EXCEPT ![p] = AfterLocal(p)] /\ pc[p] = "local"
    BY <1>7 DEF LookLocal, Working, Waiting
  <2>2. \A q \in Process \ {p} : pc'[q] = pc[q]
    BY <2>1 DEF RecorderInv, TypeOK
  <2>3. /\ pc'[p] \in {"create", "create local"}
        /\ pc'[p] = "create local" => Local \notin tables[NodeOf[p]]
        /\ RecorderTable \notin tables[NodeOf[p]]
    BY <1>2, <1>3, <2>1 DEF AfterLocal, TurnProcess
  <2> QED
    BY <1>2, <1>3, <1>4, <2>1, <2>2, <2>3, TurnOf
<1>8. ASSUME NEW p \in Process, Answer(p) PROVE (TurnServer /\ \A q \in Process : TurnProcess(q))'
  <2>1. /\ UNCHANGED <<mode, tables, ddl, executed, refused>> /\ Working(p) /\ Waiting(p)
        /\ pc' = [pc EXCEPT ![p] = After(p)]
    BY <1>2, <1>8 DEF Answer, TurnServer, Working, Waiting
  <2>2. \A q \in Process \ {p} : ~Working(q) /\ pc'[q] = pc[q]
    BY <1>2, <2>1 DEF RecorderInv, TypeOK, TurnProcess
  <2>3. \A n \in Node : executed[n] = Len(ddl)
    <3>1. waits[p] = Len(ddl) /\ \A n \in Node : executed[n] >= waits[p]
      BY <1>2, <1>8, <2>1 DEF Answer, TurnProcess
    <3> QED
      BY <1>3, <3>1
  <2>4. pc'[p] \in {"create", "ensured"} /\ (pc'[p] = "create" => RecorderTable \notin tables[NodeOf[p]])
    BY <1>2, <1>3, <1>8, <2>1 DEF Answer, After, TurnProcess
  <2> QED
    BY <1>2, <1>3, <2>1, <2>2, <2>3, <2>4, TurnOf
<1>9. ASSUME NEW p \in Process, CreateHere(p) PROVE (TurnServer /\ \A q \in Process : TurnProcess(q))'
  <2>1. mode = "plain" /\ pc[p] = "create" /\ Table(p) = RecorderTable
    BY <1>9 DEF CreateHere, Creating, RecorderInv, ProcessOK, Table
  <2>2. Table(p) \notin tables[NodeOf[p]]
    BY <1>2, <2>1 DEF TurnProcess
  <2>3. pc' = [pc EXCEPT ![p] = "ensured"] /\ UNCHANGED <<mode, ddl, executed, refused, waits>>
    BY <1>9, <2>1, <2>2 DEF CreateHere, After
  <2>4. /\ \A q \in Process \ {p} : ~Working(q) /\ pc'[q] = pc[q]
        /\ pc'[p] = "ensured"
        /\ \A n \in Node : executed[n] = Len(ddl)
    BY <1>3, <1>4, <2>1, <2>3 DEF RecorderInv, TypeOK, Working, Waiting
  <2>5. \A q \in Process : TurnProcess(q)'
    BY <1>2, <2>4 DEF TurnProcess, Working, Waiting
  <2>6. TurnServer'
    BY <1>2, <2>1, <2>3, <2>4 DEF TurnServer
  <2> QED
    BY <2>5, <2>6
<1>10. ASSUME NEW p \in Process, CreateOnCluster(p)
       PROVE  (TurnServer /\ \A q \in Process : TurnProcess(q))'
  <2>1. /\ UNCHANGED <<mode, tables, executed, refused>> /\ mode # "plain"
        /\ ddl' = Append(ddl, Table(p)) /\ waits' = [waits EXCEPT ![p] = Len(ddl) + 1]
        /\ Working(p) /\ ~Waiting(p)
        /\ pc' = [pc EXCEPT ![p] = IF pc[p] = "create local" THEN "wait local" ELSE "wait"]
    BY <1>10 DEF CreateOnCluster, Creating, Working, Waiting
  <2>2. Len(ddl') = Len(ddl) + 1 /\ ddl'[Len(ddl')] = Table(p)
    <3>1. ddl' = Append(ddl, Table(p))
      BY <2>1
    <3>2. Table(p) \in {Local, Distributed}
      BY TableType
    <3>3. Len(ddl') = Len(ddl) + 1
      BY <1>0, <3>1, <3>2
    <3>4. Append(ddl, Table(p))[Len(ddl) + 1] = Table(p)
      BY <1>0, <3>2
    <3> QED
      BY <3>1, <3>3, <3>4
  <2>3. /\ \A q \in Process \ {p} : ~Working(q) /\ pc'[q] = pc[q]
        /\ \A n \in Node : executed[n] = Len(ddl)
    BY <1>4, <2>1 DEF RecorderInv, TypeOK
  <2>4. pc'[p] \in {"wait local", "wait"} /\ (pc'[p] = "wait local" => pc[p] = "create local")
    BY <1>3, <2>1
  <2>5. waits'[p] = Len(ddl')
    <3>1. waits'[p] = Len(ddl) + 1
      BY <1>3, <2>1, Zenon
    <3> QED
      BY <2>2, <3>1
  <2>6. \A n \in Node : tables[n] = tables[NodeOf[p]]
    <3>1. ASSUME NEW n \in Node PROVE executed[n] = executed[NodeOf[p]]
      BY <1>3, <2>3
    <3> QED
      BY <1>2, <1>3, <2>1, <3>1 DEF TurnServer
  <2>7. Table(p) \notin tables[NodeOf[p]]
    BY <1>2, <1>10 DEF TurnProcess, CreateOnCluster, Creating, Table
  <2>8. RecorderTable' = RecorderTable /\ Local' = Local
    BY <2>1 DEF RecorderTable, Local, Distributed
  <2>9. TurnServer'
    <3>1. \A n \in Node : executed'[n] + 1 = Len(ddl')
      BY <2>1, <2>2, <2>3
    <3>2. ~(\A q \in Process : ~Waiting(q)')
      BY <2>4 DEF Waiting
    <3>3. \A n, m \in Node : tables'[n] = tables'[m] /\ ~(executed'[n] < executed'[m])
      <4>1. \A n, m \in Node : tables[n] = tables[m]
        BY <2>6
      <4>2. \A n, m \in Node : ~(executed[n] < executed[m])
        BY <1>3, <2>3
      <4> QED
        BY <2>1, <4>1, <4>2
    <3> QED
      BY <1>2, <2>1, <3>1, <3>2, <3>3 DEF TurnServer
  <2>10. TurnProcess(p)'
    <3>1. pc'[p] = "wait local" => RecorderTable \notin tables[NodeOf[p]]
      BY <1>2, <2>4 DEF TurnProcess
    <3>2. \A n \in Node : ddl'[Len(ddl')] \notin tables'[n]
      BY <2>1, <2>2, <2>6, <2>7
    <3>3. \A q \in Process \ {p} : pc'[q] \in {"start", "failed", "ensured"}
      BY <2>3 DEF Working
    <3> QED
      BY <2>1, <2>4, <2>5, <2>8, <3>1, <3>2, <3>3 DEF TurnProcess, Working, Waiting
  <2>11. ASSUME NEW q \in Process \ {p} PROVE TurnProcess(q)'
    BY <1>2, <2>3, <2>11 DEF TurnProcess, Working, Waiting
  <2> QED
    BY <2>9, <2>10, <2>11
<1>11. ASSUME NEW n \in Node, Execute(n) PROVE (TurnServer /\ \A q \in Process : TurnProcess(q))'
  <2>1. /\ UNCHANGED <<mode, ddl, pc, waits>> /\ executed[n] < Len(ddl)
        /\ executed' = [executed EXCEPT ![n] = executed[n] + 1]
    BY <1>11 DEF Execute
  <2>2. executed[n] + 1 = Len(ddl) /\ Len(ddl) \in 1..Len(ddl)
    BY <1>2, <1>3, <2>1 DEF TurnServer
  <2>3. PICK p \in Process : Waiting(p)
    BY <1>2, <1>3, <2>1 DEF TurnServer
  <2>4. ddl[Len(ddl)] \notin tables[n] /\ ddl[Len(ddl)] \in {Local, Distributed}
    <3>1. ddl[Len(ddl)] \notin tables[n]
      BY <1>2, <2>1, <2>3 DEF TurnProcess
    <3> QED
      BY <1>0, <2>2, <3>1
  <2>5. refused' = refused /\ Have(n, ddl[Len(ddl)])
    BY <1>11, <2>2, <2>4 DEF Execute
  <2>6. tables'[n] = tables[n] \cup {ddl[Len(ddl)]} /\ \A m \in Node : m # n => tables'[m] = tables[m]
    BY <1>3, <2>4, <2>5, HaveEffect
  <2>7. executed'[n] = Len(ddl) /\ \A m \in Node : m # n => executed'[m] = executed[m]
    BY <2>1, <2>2 DEF RecorderInv, TypeOK
  <2>8. mode # "plain"
    BY <2>3 DEF Waiting, RecorderInv, ProcessOK
  <2>9. TurnServer'
    <3>1. \A m \in Node : executed'[m] = Len(ddl) \/ executed'[m] + 1 = Len(ddl)
      BY <1>2, <2>7 DEF TurnServer
    <3>2. ~(\A q \in Process : ~Waiting(q)')
      BY <2>1, <2>3 DEF Waiting
    <3>3. ASSUME NEW l \in Node, NEW m \in Node
          PROVE  /\ executed'[l] = executed'[m] => tables'[l] = tables'[m]
                 /\ executed'[l] < executed'[m] => tables'[m] = tables'[l] \cup {ddl[Len(ddl)]}
      <4>1. CASE l # n /\ m # n
        BY <1>2, <2>6, <2>7, <2>8, <4>1 DEF TurnServer
      <4>2. CASE l = n /\ m = n
        BY <1>3, <2>7, <4>2
      <4>3. CASE l = n /\ m # n
        <5>1. executed[m] = Len(ddl) => tables[m] = tables[n] \cup {ddl[Len(ddl)]}
          BY <1>2, <2>1, <2>8 DEF TurnServer
        <5>2. executed'[m] = executed[m] /\ ~(Len(ddl) < executed[m])
          BY <1>3, <2>7, <4>3
        <5> QED
          BY <2>6, <2>7, <4>3, <5>1, <5>2
      <4>4. CASE l # n /\ m = n
        <5>1. executed[l] = Len(ddl) => tables[l] = tables[n] \cup {ddl[Len(ddl)]}
          BY <1>2, <2>1, <2>8 DEF TurnServer
        <5>2. executed[l] # Len(ddl) => tables[l] = tables[n]
          <6>1. executed[l] # Len(ddl) => executed[l] = executed[n]
            BY <1>2, <1>3, <2>2 DEF TurnServer
          <6> QED
            BY <1>2, <2>8, <6>1 DEF TurnServer
        <5>3. executed[l] = Len(ddl) => ~(executed[l] < Len(ddl))
          BY <1>3
        <5>4. executed'[l] = executed[l] /\ executed'[m] = Len(ddl)
          BY <2>7, <4>4
        <5> QED
          BY <2>6, <4>4, <5>1, <5>2, <5>3, <5>4
      <4> QED
        BY <4>1, <4>2, <4>3, <4>4
    <3> QED
      BY <1>2, <2>1, <2>5, <3>1, <3>2, <3>3 DEF TurnServer
  <2>10. RecorderTable' = RecorderTable /\ Local' = Local
    BY <2>1 DEF RecorderTable, Local, Distributed
  <2>11. TurnProcess(p)'
    <3>1. pc[p] = "wait local" => RecorderTable # ddl[Len(ddl)]
      BY <1>2, <2>3, TwoTables DEF RecorderInv, ProcessOK, WaitsFor, TurnProcess, RecorderTable
    <3>2. pc[p] = "wait local" => RecorderTable \notin tables'[NodeOf[p]]
      BY <1>2, <1>3, <2>6, <3>1 DEF TurnProcess
    <3>3. \A m \in Node : executed'[m] < Len(ddl) => ddl[Len(ddl)] \notin tables'[m]
      <4>1. ASSUME NEW m \in Node, executed'[m] < Len(ddl) PROVE ddl[Len(ddl)] \notin tables'[m]
        <5>1. m # n
          BY <1>3, <2>7, <4>1
        <5> QED
          BY <1>2, <2>3, <2>6, <2>7, <4>1, <5>1 DEF TurnProcess
      <4> QED
        BY <4>1
    <3> QED
      BY <1>2, <2>1, <2>3, <2>10, <3>2, <3>3 DEF TurnProcess, Working, Waiting
  <2>12. ASSUME NEW q \in Process \ {p} PROVE TurnProcess(q)'
    <3>1. ~Working(q)
      BY <1>2, <2>3 DEF TurnProcess, Working, Waiting
    <3> QED
      BY <1>2, <2>1, <3>1 DEF TurnProcess, Working, Waiting
  <2> QED
    BY <2>9, <2>11, <2>12
<1>12. ASSUME NEW p \in Process, GiveUp(p) \/ Rerun(p) PROVE FALSE
  <2>1. CASE GiveUp(p)
    <3>1. faults' = faults + 1 /\ faults' = 0
      BY <2>1 DEF GiveUp
    <3> QED
      BY <1>1, <3>1
  <2>2. CASE Rerun(p)
    BY <1>2, <2>2 DEF Rerun, TurnProcess
  <2> QED
    BY <1>12, <2>1, <2>2
<1>13. ASSUME UNCHANGED vars PROVE (TurnServer /\ \A q \in Process : TurnProcess(q))'
  <2>1. UNCHANGED <<mode, tables, ddl, executed, refused, pc, waits>>
    BY <1>13 DEF vars
  <2>2. RecorderTable' = RecorderTable /\ Local' = Local
    BY <2>1 DEF RecorderTable, Local, Distributed
  <2> QED
    BY <1>2, <2>1, <2>2 DEF TurnServer, TurnProcess, Working, Waiting
<1>14. \/ \E p \in Process : \/ Look(p) \/ LookLocal(p) \/ AddColumn(p) \/ CreateHere(p)
                             \/ CreateOnCluster(p) \/ Answer(p) \/ Rerun(p) \/ GiveUp(p)
       \/ \E n \in Node : Execute(n)
       \/ UNCHANGED vars
  BY DEF Next, EnsureSchema
<1> QED
  BY <1>5, <1>6, <1>7, <1>8, <1>9, <1>10, <1>11, <1>12, <1>13, <1>14

LEMMA TurnInit == Init => TurnInv
<1> SUFFICES ASSUME Init PROVE TurnServer /\ \A p \in Process : TurnProcess(p)
  BY DEF TurnInv
<1>1. ddl = <<>> /\ Len(ddl) = 0 /\ refused = {} /\ \A n \in Node : executed[n] = 0
  BY DEF Init
<1>2. \A n, m \in Node : tables[n] = tables[m]
  BY DEF Init
<1>3. TurnServer
  BY <1>1, <1>2 DEF TurnServer
<1>4. \A p \in Process : pc[p] = "start"
  BY DEF Init
<1> QED
  BY <1>3, <1>4 DEF TurnProcess, Working, Waiting

-----------------------------------------------------------------------------
(***************************************************************************)
(* Every variable of the recorder keeps its type                           *)
(* (patch/migrations.py:163-214).                                          *)
(***************************************************************************)
THEOREM TypeCorrect == Spec => []TypeOK
<1>1. Init => TypeOK
  BY RecorderInit DEF RecorderInv
<1> QED
  BY <1>1, TypeStep, PTL DEF Spec

LEMMA RecorderInvariant == Spec => []RecorderInv
BY RecorderInit, RecorderStep, PTL DEF Spec

(***************************************************************************)
(* No node ever has the distributed table without the local one            *)
(* (patch/migrations.py:194-210), for any processes, nodes and faults.     *)
(***************************************************************************)
THEOREM LocalFirstAlways == Spec => []LocalFirst
<1>1. RecorderInv => LocalFirst
  BY DEF RecorderInv
<1> QED
  BY <1>1, RecorderInvariant, PTL

(***************************************************************************)
(* Where ensure_schema() has returned the recorder's table is there, with  *)
(* its column (patch/migrations.py:163-214).                               *)
(***************************************************************************)
THEOREM EnsuredAlwaysUsable == Spec => []EnsuredUsable
<1>1. RecorderInv => EnsuredUsable
  BY DEF RecorderInv, ProcessOK, Usable, EnsuredUsable
<1> QED
  BY <1>1, RecorderInvariant, PTL

(***************************************************************************)
(* Processes that migrate in turn never meet a table of another, as long   *)
(* as none dies (patch/migrations.py:187-214).                             *)
(***************************************************************************)
THEOREM InTurnNeverFailsAlways == Spec => []InTurnNeverFails
<1>1. TurnInv => InTurnNeverFails
  BY DEF TurnInv, TurnProcess, InTurnNeverFails
<1> QED
  BY <1>1, TurnInit, TurnStep, RecorderInvariant, PTL DEF Spec
=============================================================================
