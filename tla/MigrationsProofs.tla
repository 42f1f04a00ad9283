-------------------------- MODULE MigrationsProofs --------------------------
(***************************************************************************)
(* That a migration recorded as applied has its tables, that one recorded  *)
(* as unapplied has none, for any nodes, operations and crashes, when the  *)
(* nodes migrate in rounds; and that without crashes no node that migrates *)
(* in its turn fails.                                                      *)
(*                                                                         *)
(* None is inductive: a node that skips an operation because of what the   *)
(* cluster answered, and a node that records what it did, rely on facts    *)
(* established several steps earlier.  Progress, Retreat and Turn state    *)
(* them for every point of a migrate.                                      *)
(***************************************************************************)
EXTENDS Migrations, TLAPS

USE DEF settings

Busy(n) == pc[n] \in {"planned", "running", "recording"}

\* All the tables operation op makes when node n applies the migration.
Made(op, n) == {op} \X Where(op, n)

\* What holds for node n in a round of applies.
Progress(n) ==
    /\ pc[n] \in {"running", "recording"} /\ onRemote[n] => ClusterTables \subseteq tables
    /\ pc[n] \in {"running", "recording"} =>
          \A op \in 1..Operations : op < at[n] => Made(op, n) \subseteq tables
    /\ pc[n] = "recording" => at[n] = Operations + 1
    /\ pc[n] = "running" => at[n] >= 1
    /\ Applied(n) => ClusterTables \cup TablesOn(n) \subseteq tables

RoundInv ==
    /\ TypeOK
    /\ \A n \in Node : Busy(n) => direction[n] = round
    /\ round = "apply" => \A n \in Node : Progress(n)

-----------------------------------------------------------------------------
\* What a migrate records is made of the two states a row can have.
LEMMA RecordedType ==
    ASSUME NEW n \in Node, NEW rows \in SUBSET Row
    PROVE  Recorded(n, rows) \in SUBSET Row
BY DEF Recorded, Row

\* The tables of an operation of the migration are tables of the migration.
LEMMA WhereType ==
    ASSUME NEW n \in Node, NEW op \in 1..Operations
    PROVE  {op} \X Where(op, n) \subseteq (1..Operations) \X Node
BY DEF Where

(***************************************************************************)
(* Type correctness: of every step of migrate (patch/migrations.py), with  *)
(* the sharing of the records under distributed_migrations.                *)
(***************************************************************************)
LEMMA TypeStep == TypeOK /\ [Next]_vars => TypeOK'
<1> SUFFICES ASSUME TypeOK, [Next]_vars PROVE TypeOK'
  OBVIOUS
<1> USE MigrationAssumption
<1>1. ASSUME NEW n \in Node, NEW d \in Direction, Migrate(n, d) PROVE TypeOK'
  BY <1>1 DEF Migrate, TypeOK
<1>2. ASSUME NEW n \in Node, Ask(n) PROVE TypeOK'
  <2>1. onRemote' \in [Node -> BOOLEAN]
    BY <1>2, Zenon DEF Ask, TypeOK
  <2>2. at' \in [Node -> 0..(Operations + 1)]
    BY <1>2 DEF Ask, TypeOK
  <2> QED
    BY <1>2, <2>1, <2>2 DEF Ask, TypeOK
<1>3. ASSUME NEW n \in Node, Pending(n), Advance(n) PROVE at' \in [Node -> 0..(Operations + 1)]
  BY <1>3 DEF Pending, Advance, TypeOK
<1>4. ASSUME NEW n \in Node, Skip(n) PROVE TypeOK'
  <2>1. Pending(n) /\ Advance(n) /\ UNCHANGED tables
    BY <1>4 DEF Skip
  <2> QED
    BY <1>3, <2>1 DEF Advance, TypeOK
<1>5. ASSUME NEW n \in Node, Forwards(n) PROVE TypeOK'
  <2>1. Pending(n) /\ Advance(n)
    BY <1>5 DEF Forwards
  <2>2. {at[n]} \X Where(at[n], n) \subseteq (1..Operations) \X Node
    BY <2>1, WhereType DEF Pending
  <2>3. tables' \subseteq (1..Operations) \X Node
    BY <1>5, <2>2 DEF Forwards, TypeOK
  <2> QED
    BY <1>3, <2>1, <2>3 DEF Advance, TypeOK
<1>6. ASSUME NEW n \in Node, Backwards(n) PROVE TypeOK'
  <2>1. Pending(n) /\ Advance(n)
    BY <1>6 DEF Backwards
  <2>2. tables' \subseteq (1..Operations) \X Node
    BY <1>6 DEF Backwards, TypeOK
  <2> QED
    BY <1>3, <2>1, <2>2 DEF Advance, TypeOK
<1>7. ASSUME NEW n \in Node, Fail(n) PROVE TypeOK'
  BY <1>7 DEF Fail, TypeOK
<1>8. ASSUME NEW n \in Node, Find(n) PROVE TypeOK'
  <2>1. found' \in [Node -> BOOLEAN]
    BY <1>8, Zenon DEF Find, TypeOK
  <2> QED
    BY <1>8, <2>1 DEF Find, TypeOK
<1>9. ASSUME NEW n \in Node, Record(n) PROVE TypeOK'
  <2>1. records' \in [Node -> SUBSET Row]
    BY <1>9, RecordedType DEF Record, TypeOK
  <2>2. shared => \A m, k \in Node : records'[m] = records'[k]
    <3> SUFFICES ASSUME shared, NEW m \in Node, NEW k \in Node
                 PROVE  records'[m] = records'[k]
      OBVIOUS
    <3>1. records[m] = records[k]
      BY DEF TypeOK
    <3>2. records'[m] = Recorded(n, records[m]) /\ records'[k] = Recorded(n, records[k])
      BY <1>9 DEF Record, Sharers
    <3> QED
      BY <3>1, <3>2
  <2> QED
    BY <1>9, <2>1, <2>2 DEF Record, TypeOK
<1>10. ASSUME NEW n \in Node, Leave(n) PROVE TypeOK'
  BY <1>10 DEF Leave, TypeOK
<1>11. ASSUME NEW n \in Node, Crash(n) PROVE TypeOK'
  BY <1>11 DEF Crash, TypeOK
<1>12. CASE TurnBack
  BY <1>12 DEF TurnBack, TypeOK, Direction
<1>13. CASE UNCHANGED vars
  BY <1>13 DEF vars, TypeOK
<1> QED
  BY <1>1, <1>2, <1>4, <1>5, <1>6, <1>7, <1>8, <1>9, <1>10, <1>11, <1>12, <1>13
     DEF Next, Operate

\* The initial state is well typed.
LEMMA TypeInit == Init => TypeOK
BY MigrationAssumption DEF Init, TypeOK, Row, Direction

(***************************************************************************)
(* Every variable of the migrations keeps its type, and the nodes that     *)
(* share their records see the same ones (patch/migrations.py).            *)
(***************************************************************************)
THEOREM TypeCorrect == Spec => []TypeOK
BY TypeInit, TypeStep, PTL DEF Spec

-----------------------------------------------------------------------------
\* A round turns only while every node is idle: whoever is busy goes its way.
LEMMA DirectionStep ==
    ASSUME Rounds, TypeOK, [Next]_vars,
           \A n \in Node : Busy(n) => direction[n] = round
    PROVE  \A n \in Node : Busy(n)' => direction'[n] = round'
<1> SUFFICES ASSUME NEW m \in Node, Busy(m)' PROVE direction'[m] = round'
  OBVIOUS
<1> USE DEF Busy
<1>1. ASSUME NEW n \in Node, NEW d \in Direction, Migrate(n, d) PROVE direction'[m] = round'
  BY <1>1 DEF Migrate, TypeOK
<1>2. ASSUME NEW n \in Node, Ask(n) \/ Find(n) \/ Record(n) \/ Leave(n) \/ Crash(n) \/ Fail(n)
      PROVE  direction'[m] = round'
  BY <1>2 DEF Ask, Find, Record, Leave, Crash, Fail, TypeOK
<1>3. ASSUME NEW n \in Node, Advance(n) PROVE direction'[m] = round'
  BY <1>3 DEF Advance
<1>4. CASE TurnBack
  BY <1>4 DEF TurnBack
<1>5. CASE UNCHANGED vars
  BY <1>5 DEF vars
<1> QED
  BY <1>1, <1>2, <1>3, <1>4, <1>5 DEF Next, Operate, Skip, Forwards, Backwards

\* Once the cluster tables are made, one operation on the cluster is made.
LEMMA ClusterMade ==
    ASSUME NEW n \in Node, NEW op \in OnCluster, ClusterTables \subseteq tables
    PROVE  Made(op, n) \subseteq tables
BY DEF ClusterTables, Made, Where

\* A node that has gone through every operation has every table it needs.
LEMMA AllMade ==
    ASSUME NEW n \in Node, \A op \in 1..Operations : Made(op, n) \subseteq tables
    PROVE  ClusterTables \cup TablesOn(n) \subseteq tables
<1>1. ClusterTables \subseteq tables
  BY MigrationAssumption DEF ClusterTables, Made, Where
<1>2. TablesOn(n) \subseteq tables
  <2> SUFFICES ASSUME NEW op \in 1..Operations, NEW m \in Node, m = n
               PROVE  <<op, m>> \in tables
    BY DEF TablesOn
  <2>1. n \in Where(op, n)
    BY DEF Where
  <2> QED
    BY <2>1 DEF Made
<1> QED
  BY <1>1, <1>2

\* Without a table made or a record written elsewhere, progress lasts.
LEMMA ProgressKept ==
    ASSUME NEW m \in Node, Progress(m), tables \subseteq tables',
           pc'[m] = pc[m], at'[m] = at[m], onRemote'[m] = onRemote[m],
           records'[m] = records[m], shared' = shared
    PROVE  Progress(m)'
BY DEF Progress, Applied, Made, Where, TablesOn, ClusterTables

\* One step of migrate in a round of applies keeps the progress of each node.
LEMMA ProgressStep ==
    ASSUME Rounds, RoundInv, [Next]_vars, round' = "apply"
    PROVE  \A m \in Node : Progress(m)'
<1> SUFFICES ASSUME NEW m \in Node PROVE Progress(m)'
  OBVIOUS
<1> USE MigrationAssumption
<1>0. TypeOK
  BY DEF RoundInv
<1>1. CASE TurnBack
  BY <1>1 DEF TurnBack, Progress, Applied
<1>2. CASE round = "apply"
  <2>1. \A n \in Node : Progress(n)
    BY <1>2 DEF RoundInv
  <2>2. \A n \in Node : Busy(n) => direction[n] = "apply"
    BY <1>2 DEF RoundInv
  <2>3. ASSUME NEW n \in Node, NEW d \in Direction, Migrate(n, d) PROVE Progress(m)'
    <3>1. UNCHANGED <<settings, tables, at, onRemote, records>> /\ pc' = [pc EXCEPT ![n] = "planned"]
      BY <2>3 DEF Migrate
    <3>2. CASE m = n
      <4>1. pc'[m] = "planned"
        BY <1>0, <3>1, <3>2 DEF TypeOK
      <4> QED
        BY <2>1, <3>1, <4>1 DEF Progress, Applied, ClusterTables, TablesOn
    <3>3. CASE m # n
      BY <1>0, <2>1, <3>1, <3>3, ProgressKept DEF TypeOK
    <3> QED
      BY <3>2, <3>3
  <2>4. ASSUME NEW n \in Node, Ask(n) PROVE Progress(m)'
    <3>1. CASE m = n
      <4>1. direction[n] = "apply"
        BY <2>2, <2>4 DEF Ask, Busy
      <4>2. pc'[n] = "running" /\ at'[n] = 1 /\ UNCHANGED <<settings, tables, records>>
        BY <1>0, <2>4, <4>1 DEF Ask, TypeOK
      <4>3. onRemote'[n] => \E k \in Node : Applied(k)
        BY <1>0, <2>4, <4>1 DEF Ask, TypeOK, Sought, Applied
      <4>4. onRemote'[n] => ClusterTables \subseteq tables
        BY <2>1, <4>3 DEF Progress
      <4> QED
        BY <2>1, <3>1, <4>2, <4>4 DEF Progress, Applied, ClusterTables, TablesOn
    <3>2. CASE m # n
      BY <1>0, <2>1, <2>4, <3>2, ProgressKept DEF Ask, TypeOK
    <3> QED
      BY <3>1, <3>2
  <2>5. ASSUME NEW n \in Node, Pending(n), Advance(n), tables \subseteq tables',
               Made(at[n], n) \subseteq tables'
        PROVE  Progress(m)'
    <3>1. CASE m = n
      <4>1. pc[n] = "running" /\ direction[n] = "apply" /\ at[n] \in 1..Operations
        BY <2>2, <2>5 DEF Pending, Busy
      <4>2. at'[n] = at[n] + 1 /\ pc'[n] = "running" /\ UNCHANGED <<settings, onRemote, records>>
        BY <1>0, <2>5, <4>1 DEF Advance, TypeOK
      <4>3. ASSUME NEW op \in 1..Operations, op < at'[n] PROVE Made(op, n) \subseteq tables'
        <5>1. CASE op = at[n]
          BY <2>5, <5>1
        <5>2. CASE op < at[n]
          BY <2>1, <2>5, <4>1, <5>2 DEF Progress
        <5> QED
          BY <1>0, <4>2, <4>3, <5>1, <5>2 DEF TypeOK
      <4>4. \A op \in 1..Operations : Made(op, n)' = Made(op, n)
        BY DEF Made, Where
      <4>5. onRemote[n] => ClusterTables \subseteq tables
        BY <2>1, <4>1 DEF Progress
      <4>6. Applied(n) => ClusterTables \cup TablesOn(n) \subseteq tables
        BY <2>1 DEF Progress
      <4>7. Applied(n)' = Applied(n) /\ ClusterTables' = ClusterTables
            /\ TablesOn(n)' = TablesOn(n)
        BY <4>2 DEF Applied, ClusterTables, TablesOn
      <4> QED
        BY <2>5, <3>1, <4>1, <4>2, <4>3, <4>4, <4>5, <4>6, <4>7 DEF Progress
    <3>2. CASE m # n
      BY <1>0, <2>1, <2>5, <3>2, ProgressKept DEF Advance, TypeOK
    <3> QED
      BY <3>1, <3>2
  <2>6. ASSUME NEW n \in Node, Skip(n) PROVE Progress(m)'
    <3>1. pc[n] = "running" /\ onRemote[n] /\ at[n] \in OnCluster /\ UNCHANGED tables
      BY <2>6 DEF Skip, Skipped, Pending
    <3>2. Made(at[n], n) \subseteq tables
      BY <2>1, <3>1, ClusterMade DEF Progress
    <3> QED
      BY <2>5, <2>6, <3>1, <3>2 DEF Skip
  <2>7. ASSUME NEW n \in Node, Forwards(n) PROVE Progress(m)'
    BY <2>5, <2>7 DEF Forwards, Made
  <2>8. ASSUME NEW n \in Node, Backwards(n) PROVE Progress(m)'
    BY <2>2, <2>8 DEF Backwards, Pending, Busy
  <2>9. ASSUME NEW n \in Node, Fail(n) \/ Leave(n) \/ Crash(n) PROVE Progress(m)'
    <3>1. UNCHANGED <<settings, tables, at, onRemote, records>>
      BY <2>9 DEF Fail, Leave, Crash
    <3>2. pc'[m] = pc[m] \/ pc'[m] \in {"failed", "idle"}
      BY <1>0, <2>9 DEF Fail, Leave, Crash, TypeOK
    <3> QED
      BY <2>1, <3>1, <3>2 DEF Progress, Applied, Made, Where, ClusterTables, TablesOn
  <2>10. ASSUME NEW n \in Node, Find(n) PROVE Progress(m)'
    <3>1. CASE m = n
      <4>1. at[n] = Operations + 1 /\ pc[n] = "running"
        BY <1>0, <2>1, <2>10 DEF Find, Pending, Progress, TypeOK
      <4>2. pc'[n] = "recording" /\ UNCHANGED <<settings, tables, at, onRemote, records>>
        BY <1>0, <2>10 DEF Find, TypeOK
      <4> QED
        BY <2>1, <3>1, <4>1, <4>2
           DEF Progress, Applied, Made, Where, ClusterTables, TablesOn
    <3>2. CASE m # n
      BY <1>0, <2>1, <2>10, <3>2, ProgressKept DEF Find, TypeOK
    <3> QED
      BY <3>1, <3>2
  <2>11. ASSUME NEW n \in Node, Record(n) PROVE Progress(m)'
    <3>1. pc[n] = "recording" /\ at[n] = Operations + 1
      BY <2>1, <2>11 DEF Record, Progress
    <3>2. ClusterTables \cup TablesOn(n) \subseteq tables
      <4>1. \A op \in 1..Operations : Made(op, n) \subseteq tables
        BY <2>1, <3>1 DEF Progress
      <4> QED
        BY <4>1, AllMade
    <3>3. UNCHANGED <<settings, tables, at, onRemote>>
      BY <2>11 DEF Record
    <3>4. pc'[m] = pc[m] \/ pc'[m] = "done"
      BY <1>0, <2>11 DEF Record, TypeOK
    <3>5. Applied(m)' => ClusterTables \cup TablesOn(m) \subseteq tables
      <4>1. CASE m = n
        BY <3>2, <4>1
      <4>2. CASE m # n /\ shared
        BY <3>2, <4>2 DEF TablesOn, ClusterTables
      <4>3. CASE m # n /\ ~shared
        BY <2>1, <2>11, <4>3 DEF Record, Sharers, Applied, Progress
      <4> QED
        BY <4>1, <4>2, <4>3
    <3> QED
      BY <2>1, <3>3, <3>4, <3>5 DEF Progress, Made, Where, ClusterTables, TablesOn
  <2>12. CASE UNCHANGED vars
    BY <2>1, <2>12, ProgressKept DEF vars
  <2> QED
    BY <1>1, <2>3, <2>4, <2>6, <2>7, <2>8, <2>9, <2>10, <2>11, <2>12 DEF Next, Operate
<1> QED
  <2>1. round = "apply" \/ TurnBack
    BY DEF Next, Operate, Migrate, Ask, Skip, Forwards, Backwards, Advance, Fail,
           Find, Record, Leave, Crash, vars
  <2> QED
    BY <1>1, <1>2, <2>1

(***************************************************************************)
(* Where a round of applies has recorded a migration, its cluster tables   *)
(* are on every node and its own tables on that node (README.md:612), for  *)
(* any nodes and operations: whichever of the nodes that migrate at the    *)
(* same time runs the statements on the cluster, and whichever dies.       *)
(***************************************************************************)
THEOREM AppliedCorrect ==
    ASSUME Rounds
    PROVE  Spec => []AppliedHasTables
<1>1. Init => RoundInv
  BY TypeInit DEF Init, RoundInv, Busy, Progress, Applied
<1>2. RoundInv /\ [Next]_vars => RoundInv'
  BY TypeStep, DirectionStep, ProgressStep DEF RoundInv
<1>3. RoundInv => AppliedHasTables
  BY DEF RoundInv, AppliedHasTables, Progress
<1> QED
  BY <1>1, <1>2, <1>3, PTL DEF Spec

-----------------------------------------------------------------------------
(* Rounds of unapplies.  UnappliedHasNone rests on more: that a record is  *)
(* not in two states, and that nobody turns back without one (RowsInv).    *)

\* What holds for node n in a round of unapplies.
Retreat(n) ==
    /\ pc[n] \in {"running", "recording"} /\ onRemote[n] => ClusterTables \cap tables = {}
    /\ pc[n] \in {"running", "recording"} =>
          \A op \in 1..Operations : op > at[n] => Made(op, n) \cap tables = {}
    /\ pc[n] = "recording" => at[n] = 0
    /\ pc[n] = "running" => at[n] <= Operations
    /\ ~Applied(n) => (ClusterTables \cup TablesOn(n)) \cap tables = {}

\* All rows a node sees have one state, and whoever turns back has a row.
RowsInv ==
    /\ \A n \in Node : "applied" \in records[n] => "unapplied" \notin records[n]
    /\ round = "unapply" => \A n \in Node : records[n] # {}
    /\ \A n \in Node : pc[n] = "recording" /\ direction[n] = "apply" /\ ~found[n]
                         => "unapplied" \notin records[n]

BackInv ==
    /\ TypeOK /\ RowsInv
    /\ \A n \in Node : Busy(n) => direction[n] = round
    /\ round = "unapply" => \A n \in Node : Retreat(n)

\* What a migrate records is in one state.
LEMMA RowsRecorded ==
    ASSUME Rounds, TypeOK, RowsInv, \A k \in Node : Busy(k) => direction[k] = round,
           NEW n \in Node, Record(n)
    PROVE  RowsInv'
<1>1. /\ UNCHANGED <<shared, direction, found, round>>
      /\ \A m \in Node : records'[m] = IF m \in Sharers(n) THEN Recorded(n, records[m])
                                                           ELSE records[m]
      /\ \A m \in Node : pc'[m] = "recording" => m # n /\ pc[m] = "recording"
      /\ pc[n] = "recording" /\ direction[n] = round
  BY DEF Record, TypeOK, Busy
<1>2. ASSUME NEW m \in Node, m \in Sharers(n)
      PROVE  /\ records[m] = records[n]
             /\ direction[n] = "apply" => "unapplied" \notin records'[m]
             /\ direction[n] = "unapply" => "applied" \notin records'[m]
             /\ records[m] # {} => records'[m] # {}
  <2>1. records[m] = records[n]
    BY <1>2 DEF Sharers, TypeOK
  <2>2. records'[m] = Recorded(n, records[m])
    BY <1>1, <1>2
  <2>3. CASE direction[n] = "unapply"
    BY <2>1, <2>2, <2>3 DEF Recorded
  <2>4. CASE direction[n] # "unapply" /\ found[n]
    BY <2>1, <2>2, <2>4 DEF Recorded
  <2>5. CASE direction[n] # "unapply" /\ ~found[n]
    <3>1. direction[n] = "apply"
      BY <2>5 DEF TypeOK, Direction
    <3>2. "unapplied" \notin records[m]
      BY <1>1, <2>1, <2>5, <3>1 DEF RowsInv
    <3>3. records'[m] = records[m] \cup {"applied"}
      BY <2>2, <2>5 DEF Recorded
    <3> QED
      BY <2>1, <3>1, <3>2, <3>3
  <2> QED
    BY <2>3, <2>4, <2>5
<1>3. \A m \in Node : m \notin Sharers(n) => records'[m] = records[m]
  BY <1>1
<1>4. direction[n] \in {"apply", "unapply"}
  BY DEF TypeOK, Direction
<1>5. \A m \in Node : "applied" \in records'[m] => "unapplied" \notin records'[m]
  BY <1>2, <1>3, <1>4 DEF RowsInv
<1>6. round' = "unapply" => \A m \in Node : records'[m] # {}
  BY <1>1, <1>2, <1>3 DEF RowsInv
<1>7. ASSUME NEW m \in Node, pc'[m] = "recording", direction'[m] = "apply", ~found'[m]
      PROVE  "unapplied" \notin records'[m]
  <2>1. pc[m] = "recording" /\ direction[m] = round /\ direction[m] = "apply" /\ ~found[m]
    BY <1>1, <1>7 DEF Busy
  <2>2. direction[n] = "apply" /\ "unapplied" \notin records[m]
    BY <1>1, <2>1 DEF RowsInv
  <2> QED
    BY <1>2, <1>3, <2>2
<1> QED
  BY <1>5, <1>6, <1>7 DEF RowsInv

LEMMA RowsStep ==
    ASSUME Rounds, TypeOK, RowsInv, \A k \in Node : Busy(k) => direction[k] = round,
           [Next]_vars
    PROVE  RowsInv'
<1>1. ASSUME UNCHANGED <<records, round>>,
             \A m \in Node : pc'[m] = "recording" /\ direction'[m] = "apply" /\ ~found'[m]
                => pc[m] = "recording" /\ direction[m] = "apply" /\ ~found[m]
      PROVE  RowsInv'
  BY <1>1 DEF RowsInv
<1>2. ASSUME NEW n \in Node, NEW d \in Direction, Migrate(n, d) PROVE RowsInv'
  BY <1>1, <1>2 DEF Migrate, TypeOK
<1>3. ASSUME NEW n \in Node, Ask(n) \/ Fail(n) \/ Leave(n) \/ Crash(n) PROVE RowsInv'
  BY <1>1, <1>3 DEF Ask, Fail, Leave, Crash, TypeOK
<1>4. ASSUME NEW n \in Node, Advance(n) PROVE RowsInv'
  BY <1>1, <1>4 DEF Advance
<1>5. ASSUME NEW n \in Node, Find(n) PROVE RowsInv'
  <2>1. /\ UNCHANGED <<records, round, direction>>
        /\ pc' = [pc EXCEPT ![n] = "recording"]
        /\ found' = [found EXCEPT ![n] = (records[n] # {})]
    BY <1>5 DEF Find
  <2>2. ASSUME NEW m \in Node, pc'[m] = "recording", direction'[m] = "apply", ~found'[m]
        PROVE  "unapplied" \notin records'[m]
    <3>1. CASE m = n
      BY <2>1, <2>2, <3>1 DEF TypeOK
    <3>2. CASE m # n
      BY <2>1, <2>2, <3>2 DEF TypeOK, RowsInv
    <3> QED
      BY <3>1, <3>2
  <2> QED
    BY <2>1, <2>2 DEF RowsInv
<1>6. CASE TurnBack
  BY <1>6 DEF TurnBack, RowsInv, Applied
<1>7. CASE UNCHANGED vars
  BY <1>7 DEF vars, RowsInv
<1> QED
  BY <1>2, <1>3, <1>4, <1>5, <1>6, <1>7, RowsRecorded
     DEF Next, Operate, Skip, Forwards, Backwards

\* Without a table made or a record written elsewhere, a retreat lasts.
LEMMA RetreatKept ==
    ASSUME NEW m \in Node, Retreat(m), tables' \subseteq tables,
           pc'[m] = pc[m], at'[m] = at[m], onRemote'[m] = onRemote[m],
           records'[m] = records[m], shared' = shared
    PROVE  Retreat(m)'
<1>1. /\ ClusterTables' = ClusterTables /\ TablesOn(m)' = TablesOn(m)
      /\ Applied(m)' = Applied(m)
      /\ \A op \in 1..Operations : Made(op, m)' = Made(op, m)
  BY DEF Applied, Made, Where, TablesOn, ClusterTables
<1> QED
  BY <1>1 DEF Retreat

\* A node that has gone back through every operation has no table left.
LEMMA NoneMade ==
    ASSUME NEW n \in Node, \A op \in 1..Operations : Made(op, n) \cap tables = {}
    PROVE  (ClusterTables \cup TablesOn(n)) \cap tables = {}
<1>1. ASSUME NEW op \in OnCluster, NEW m \in Node PROVE <<op, m>> \notin tables
  <2>1. op \in 1..Operations /\ <<op, m>> \in Made(op, n)
    BY MigrationAssumption DEF Made, Where
  <2> QED
    BY <2>1
<1>2. ASSUME NEW op \in 1..Operations PROVE <<op, n>> \notin tables
  <2>1. <<op, n>> \in Made(op, n)
    BY DEF Made, Where
  <2> QED
    BY <2>1
<1> QED
  BY <1>1, <1>2 DEF ClusterTables, TablesOn

\* One step of migrate in a round of unapplies keeps the retreat of each node.
LEMMA RetreatStep ==
    ASSUME Rounds, BackInv, [Next]_vars, round' = "unapply"
    PROVE  \A m \in Node : Retreat(m)'
<1> SUFFICES ASSUME NEW m \in Node PROVE Retreat(m)'
  OBVIOUS
<1> USE MigrationAssumption
<1>0. TypeOK
  BY DEF BackInv
<1>1. CASE TurnBack
  BY <1>1 DEF TurnBack, Retreat, Applied
<1>2. CASE round = "unapply"
  <2>1. \A n \in Node : Retreat(n)
    BY <1>2 DEF BackInv
  <2>2. \A n \in Node : Busy(n) => direction[n] = "unapply"
    BY <1>2 DEF BackInv
  <2>3. ASSUME NEW n \in Node, NEW d \in Direction, Migrate(n, d) PROVE Retreat(m)'
    <3>1. UNCHANGED <<settings, tables, at, onRemote, records>> /\ pc' = [pc EXCEPT ![n] = "planned"]
      BY <2>3 DEF Migrate
    <3>2. CASE m = n
      <4>1. pc'[m] = "planned"
        BY <1>0, <3>1, <3>2 DEF TypeOK
      <4> QED
        BY <2>1, <3>1, <4>1 DEF Retreat, Applied, ClusterTables, TablesOn
    <3>3. CASE m # n
      BY <1>0, <2>1, <3>1, <3>3, RetreatKept DEF TypeOK
    <3> QED
      BY <3>2, <3>3
  <2>4. ASSUME NEW n \in Node, Ask(n) PROVE Retreat(m)'
    <3>1. CASE m = n
      <4>1. direction[n] = "unapply"
        BY <2>2, <2>4 DEF Ask, Busy
      <4>2. pc'[n] = "running" /\ at'[n] = Operations /\ UNCHANGED <<settings, tables, records>>
        BY <1>0, <2>4, <4>1 DEF Ask, TypeOK
      <4>3. onRemote'[n] => \E k \in Node : ~Applied(k)
        <5>1. onRemote'[n] = (\E k \in Node : Sought(direction[n]) \in records[k])
          BY <1>0, <2>4, Zenon DEF Ask, TypeOK
        <5>2. Sought(direction[n]) = "unapplied"
          BY <4>1 DEF Sought
        <5> QED
          BY <5>1, <5>2 DEF BackInv, RowsInv, Applied
      <4>4. onRemote'[n] => ClusterTables \cap tables = {}
        BY <2>1, <4>3 DEF Retreat
      <4> QED
        BY <2>1, <3>1, <4>2, <4>4 DEF Retreat, Applied, ClusterTables, TablesOn
    <3>2. CASE m # n
      BY <1>0, <2>1, <2>4, <3>2, RetreatKept DEF Ask, TypeOK
    <3> QED
      BY <3>1, <3>2
  <2>5. ASSUME NEW n \in Node, Pending(n), Advance(n), tables' \subseteq tables,
               Made(at[n], n) \cap tables' = {}
        PROVE  Retreat(m)'
    <3>1. CASE m = n
      <4>1. pc[n] = "running" /\ direction[n] = "unapply" /\ at[n] \in 1..Operations
        BY <2>2, <2>5 DEF Pending, Busy
      <4>2. at'[n] = at[n] - 1 /\ pc'[n] = "running" /\ UNCHANGED <<settings, onRemote, records>>
        BY <1>0, <2>5, <4>1 DEF Advance, TypeOK
      <4>3. ASSUME NEW op \in 1..Operations, op > at'[n] PROVE Made(op, n) \cap tables' = {}
        <5>1. CASE op = at[n]
          BY <2>5, <5>1
        <5>2. CASE op > at[n]
          BY <2>1, <2>5, <4>1, <5>2 DEF Retreat
        <5>3. op = at[n] \/ op > at[n]
          BY <4>1, <4>2, <4>3
        <5> QED
          BY <5>1, <5>2, <5>3
      <4>4. \A op \in 1..Operations : Made(op, n)' = Made(op, n)
        BY DEF Made, Where
      <4>5. onRemote[n] => ClusterTables \cap tables = {}
        BY <2>1, <4>1 DEF Retreat
      <4>6. ~Applied(n) => (ClusterTables \cup TablesOn(n)) \cap tables = {}
        BY <2>1 DEF Retreat
      <4>7. Applied(n)' = Applied(n) /\ ClusterTables' = ClusterTables
            /\ TablesOn(n)' = TablesOn(n)
        BY <4>2 DEF Applied, ClusterTables, TablesOn
      <4>8. at'[n] <= Operations
        BY <4>1, <4>2
      <4> QED
        BY <2>5, <3>1, <4>1, <4>2, <4>3, <4>4, <4>5, <4>6, <4>7, <4>8 DEF Retreat
    <3>2. CASE m # n
      BY <1>0, <2>1, <2>5, <3>2, RetreatKept DEF Advance, TypeOK
    <3> QED
      BY <3>1, <3>2
  <2>6. ASSUME NEW n \in Node, Skip(n) PROVE Retreat(m)'
    <3>1. pc[n] = "running" /\ onRemote[n] /\ at[n] \in OnCluster /\ UNCHANGED tables
      BY <2>6 DEF Skip, Skipped, Pending
    <3>2. Made(at[n], n) \subseteq ClusterTables
      BY <3>1 DEF Made, Where, ClusterTables
    <3>3. Made(at[n], n) \cap tables' = {}
      BY <2>1, <3>1, <3>2 DEF Retreat
    <3> QED
      BY <2>5, <2>6, <3>1, <3>3 DEF Skip
  <2>7. ASSUME NEW n \in Node, Backwards(n) PROVE Retreat(m)'
    BY <2>5, <2>7 DEF Backwards, Made
  <2>8. ASSUME NEW n \in Node, Forwards(n) PROVE Retreat(m)'
    BY <2>2, <2>8 DEF Forwards, Pending, Busy
  <2>9. ASSUME NEW n \in Node, Fail(n) \/ Leave(n) \/ Crash(n) PROVE Retreat(m)'
    <3>1. UNCHANGED <<settings, tables, at, onRemote, records>>
      BY <2>9 DEF Fail, Leave, Crash
    <3>2. pc'[m] = pc[m] \/ pc'[m] \in {"failed", "idle"}
      BY <1>0, <2>9 DEF Fail, Leave, Crash, TypeOK
    <3> QED
      BY <2>1, <3>1, <3>2 DEF Retreat, Applied, Made, Where, ClusterTables, TablesOn
  <2>10. ASSUME NEW n \in Node, Find(n) PROVE Retreat(m)'
    <3>1. CASE m = n
      <4>1. at[n] = 0 /\ pc[n] = "running"
        BY <1>0, <2>1, <2>10 DEF Find, Pending, Retreat, TypeOK
      <4>2. pc'[n] = "recording" /\ UNCHANGED <<settings, tables, at, onRemote, records>>
        BY <1>0, <2>10 DEF Find, TypeOK
      <4> QED
        BY <2>1, <3>1, <4>1, <4>2
           DEF Retreat, Applied, Made, Where, ClusterTables, TablesOn
    <3>2. CASE m # n
      BY <1>0, <2>1, <2>10, <3>2, RetreatKept DEF Find, TypeOK
    <3> QED
      BY <3>1, <3>2
  <2>11. ASSUME NEW n \in Node, Record(n) PROVE Retreat(m)'
    <3>1. pc[n] = "recording" /\ at[n] = 0
      BY <2>1, <2>11 DEF Record, Retreat
    <3>2. (ClusterTables \cup TablesOn(n)) \cap tables = {}
      <4>1. \A op \in 1..Operations : Made(op, n) \cap tables = {}
        BY <2>1, <3>1 DEF Retreat
      <4> QED
        BY <4>1, NoneMade
    <3>3. UNCHANGED <<settings, tables, at, onRemote>>
      BY <2>11 DEF Record
    <3>4. pc'[m] = pc[m] \/ pc'[m] = "done"
      BY <1>0, <2>11 DEF Record, TypeOK
    <3>5. ~Applied(m)' => (ClusterTables \cup TablesOn(m)) \cap tables = {}
      <4>1. CASE m = n
        BY <3>2, <4>1
      <4>2. CASE m # n /\ shared
        BY <3>2, <4>2 DEF TablesOn, ClusterTables
      <4>3. CASE m # n /\ ~shared
        BY <2>1, <2>11, <4>3 DEF Record, Sharers, Applied, Retreat
      <4> QED
        BY <4>1, <4>2, <4>3
    <3> QED
      BY <2>1, <3>3, <3>4, <3>5 DEF Retreat, Made, Where, ClusterTables, TablesOn
  <2>12. CASE UNCHANGED vars
    BY <2>1, <2>12, RetreatKept DEF vars
  <2> QED
    BY <1>1, <2>3, <2>4, <2>6, <2>7, <2>8, <2>9, <2>10, <2>11, <2>12 DEF Next, Operate
<1> QED
  <2>1. round = "unapply" \/ TurnBack
    BY DEF Next, Operate, Migrate, Ask, Skip, Forwards, Backwards, Advance, Fail,
           Find, Record, Leave, Crash, vars
  <2> QED
    BY <1>1, <1>2, <2>1

LEMMA BackInvariant == ASSUME Rounds PROVE Spec => []BackInv
<1>1. Init => BackInv
  BY TypeInit DEF Init, BackInv, RowsInv, Busy
<1>2. BackInv /\ [Next]_vars => BackInv'
  BY TypeStep, DirectionStep, RowsStep, RetreatStep DEF BackInv
<1> QED
  BY <1>1, <1>2, PTL DEF Spec

(***************************************************************************)
(* Where a round of unapplies has recorded a migration as unapplied, no    *)
(* cluster table is left anywhere and no other table on that node          *)
(* (patch/migrations.py:329-407), for any nodes, operations and crashes.   *)
(***************************************************************************)
THEOREM UnappliedCorrect ==
    ASSUME Rounds
    PROVE  Spec => []UnappliedHasNone
<1>1. BackInv => UnappliedHasNone
  BY DEF BackInv, UnappliedHasNone, Retreat
<1> QED
  BY <1>1, BackInvariant, PTL

-----------------------------------------------------------------------------
(* Nodes that migrate in turn, with records of their own.  OnClusterOnce   *)
(* needs that the tables are exactly those of the records, but for what    *)
(* the one node that is operating has made or dropped so far (Turn).       *)

Operating(n) == pc[n] \in {"running", "recording"}

\* Node n has its table of an operation, by how far it is.
Through(n, op) == IF direction[n] = "apply" THEN op < at[n] ELSE op <= at[n]
Has(n, op) == IF Operating(n) THEN Through(n, op) ELSE Applied(n)

\* The cluster has its tables: the first node that applies makes them, the
\* first that unapplies drops them.
Settled == IF round = "apply" THEN \E n \in Node : Applied(n)
                              ELSE \A n \in Node : Applied(n)

TurnTables ==
    /\ \A n \in Node : \A op \in (1..Operations) \ OnCluster :
          <<op, n>> \in tables <=> Has(n, op)
    /\ \A n \in Node : Operating(n) /\ ~onRemote[n] =>
          \A op \in OnCluster : \A k \in Node : <<op, k>> \in tables <=> Through(n, op)
    /\ (\A n \in Node : Operating(n) => onRemote[n]) =>
          \A op \in OnCluster : \A k \in Node : <<op, k>> \in tables <=> Settled

TurnNode(n) ==
    /\ pc[n] # "failed"
    /\ pc[n] # "idle" => \A m \in Node \ {n} : pc[m] = "idle"
    /\ Busy(n) => (direction[n] = "apply") = ~Applied(n)
    /\ pc[n] = "recording" => at[n] = IF direction[n] = "apply" THEN Operations + 1 ELSE 0
    /\ pc[n] = "running" => IF direction[n] = "apply" THEN at[n] >= 1 ELSE at[n] <= Operations
    /\ Operating(n) /\ onRemote[n] => Settled = (direction[n] = "apply")
    /\ pc[n] = "recording" /\ found[n] => records[n] # {}

Turn == TurnTables /\ \A n \in Node : TurnNode(n)
TurnInv == ~together /\ ~shared /\ crashes = 0 => Turn

\* The node that acts is the only one that is not idle.
LEMMA ActsAlone ==
    ASSUME TypeOK, Turn, ~together, NEW n \in Node,
           \/ pc[n] # "idle" /\ \A m \in Node \ {n} : pc'[m] = pc[m]
           \/ \E d \in Direction : Migrate(n, d)
    PROVE  \A m \in Node \ {n} : /\ pc[m] = "idle" /\ pc'[m] = "idle"
                                 /\ ~Operating(m) /\ ~Operating(m)'
<1>1. CASE pc[n] # "idle" /\ \A m \in Node \ {n} : pc'[m] = pc[m]
  BY <1>1 DEF Turn, TurnNode, Operating
<1>2. CASE \E d \in Direction : Migrate(n, d)
  <2>1. \A m \in Node : pc[m] = "idle"
    BY <1>2 DEF Migrate
  <2>2. pc' = [pc EXCEPT ![n] = "planned"]
    BY <1>2 DEF Migrate
  <2> QED
    BY <2>1, <2>2 DEF TypeOK, Operating
<1> QED
  BY <1>1, <1>2

\* The others are idle and keep what they have to.
LEMMA TurnOf ==
    ASSUME Turn, NEW n \in Node, TurnNode(n)', TurnTables',
           \A m \in Node \ {n} : pc[m] = "idle" /\ pc'[m] = "idle"
    PROVE  Turn'
<1>1. ASSUME NEW m \in Node \ {n} PROVE TurnNode(m)'
  <2>1. pc'[m] = "idle"
    BY <1>1
  <2> QED
    BY <2>1 DEF TurnNode, Busy, Operating
<1> QED
  BY <1>1 DEF Turn

LEMMA TurnMigrate ==
    ASSUME BackInv, Turn, ~together, NEW n \in Node, NEW d \in Direction, Migrate(n, d)
    PROVE  Turn'
<1>1. /\ UNCHANGED <<settings, tables, at, onRemote, records, found, round>>
      /\ pc[n] = "idle" /\ pc'[n] = "planned" /\ direction'[n] = d
      /\ (d = "apply") = ~Applied(n)
  BY DEF Migrate, BackInv, TypeOK
<1>2. \A m \in Node \ {n} : pc[m] = "idle" /\ pc'[m] = "idle" /\ ~Operating(m) /\ ~Operating(m)'
  BY ActsAlone DEF BackInv
<1>3. ~Operating(n) /\ ~Operating(n)'
  BY <1>1 DEF Operating
<1>4. \A m \in Node : Applied(m)' = Applied(m)
  BY <1>1 DEF Applied
<1>5. TurnTables'
  BY <1>1, <1>2, <1>3, <1>4 DEF Turn, TurnTables, Has, Settled
<1>6. TurnNode(n)'
  BY <1>1, <1>2, <1>3, <1>4 DEF TurnNode, Busy
<1> QED
  BY <1>2, <1>5, <1>6, TurnOf

LEMMA TurnAsk ==
    ASSUME BackInv, Turn, ~together, NEW n \in Node, Ask(n) PROVE Turn'
<1> USE MigrationAssumption
<1>0. TypeOK
  BY DEF BackInv
<1>1. /\ UNCHANGED <<settings, tables, direction, records, found, round>>
      /\ pc[n] = "planned" /\ pc'[n] = "running" /\ direction[n] = round
      /\ \A m \in Node \ {n} : pc'[m] = pc[m]
      /\ at'[n] = IF direction[n] = "apply" THEN 1 ELSE Operations
  BY DEF Ask, BackInv, TypeOK, Busy
<1>2. \A m \in Node \ {n} : pc[m] = "idle" /\ pc'[m] = "idle" /\ ~Operating(m) /\ ~Operating(m)'
  BY <1>0, <1>1, ActsAlone
<1>3. ~Operating(n) /\ Operating(n)'
  BY <1>1 DEF Operating
<1>4. \A m \in Node : Applied(m)' = Applied(m)
  BY <1>1 DEF Applied
<1>5. Settled' = Settled
  BY <1>1, <1>4 DEF Settled
<1>6. (direction[n] = "apply") = ~Applied(n)
  BY <1>1 DEF Turn, TurnNode, Busy
<1>7. onRemote'[n] = (Settled = (direction[n] = "apply"))
  <2>1. onRemote'[n] = (\E m \in Node : Sought(direction[n]) \in records[m])
    BY <1>0, Zenon DEF Ask, TypeOK
  <2>2. CASE direction[n] = "apply"
    BY <1>1, <2>1, <2>2 DEF Sought, Settled, Applied
  <2>3. CASE direction[n] = "unapply"
    <3>1. \A m \in Node : "unapplied" \in records[m] <=> ~Applied(m)
      <4>1. \A m \in Node : records[m] # {} /\ records[m] \subseteq {"applied", "unapplied"}
        BY <1>0, <1>1, <2>3 DEF BackInv, RowsInv, TypeOK, Row
      <4> QED
        BY <4>1 DEF BackInv, RowsInv, Applied
    <3> QED
      BY <1>1, <2>1, <2>3, <3>1 DEF Sought, Settled
  <2> QED
    BY <1>0, <2>2, <2>3 DEF TypeOK, Direction
<1>8. \A op \in 1..Operations : Through(n, op)' <=> direction[n] # "apply"
  BY <1>1 DEF Through
<1>9. TurnTables
  BY DEF Turn
<1>10. TurnTables'
  <2>1. \A op \in (1..Operations) \ OnCluster : <<op, n>> \in tables' <=> Has(n, op)'
    BY <1>1, <1>3, <1>6, <1>8, <1>9 DEF TurnTables, Has
  <2>2. \A m \in Node \ {n} : \A op \in (1..Operations) \ OnCluster :
           <<op, m>> \in tables' <=> Applied(m)'
    BY <1>1, <1>2, <1>4, <1>9 DEF TurnTables, Has
  <2>3. \A op \in OnCluster : \A k \in Node : <<op, k>> \in tables' <=> Settled
    BY <1>1, <1>2, <1>3, <1>9 DEF TurnTables
  <2>4. ~onRemote'[n] =>
           \A op \in OnCluster : \A k \in Node : <<op, k>> \in tables' <=> Through(n, op)'
    BY <1>7, <1>8, <2>3 DEF Settled
  <2> QED
    BY <1>2, <1>3, <1>5, <2>1, <2>2, <2>3, <2>4 DEF TurnTables, Has
<1>11. TurnNode(n)'
  <2>1. Operating(n)' /\ onRemote'[n] => Settled' = (direction'[n] = "apply")
    BY <1>1, <1>5, <1>7
  <2>2. pc'[n] = "running" => IF direction'[n] = "apply" THEN at'[n] >= 1
                                                       ELSE at'[n] <= Operations
    BY <1>1
  <2>3. (direction'[n] = "apply") = ~Applied(n)'
    BY <1>1, <1>4, <1>6
  <2> QED
    BY <1>1, <1>2, <2>1, <2>2, <2>3 DEF TurnNode
<1> QED
  BY <1>2, <1>10, <1>11, TurnOf

\* The operation a node is at is the one it goes through next.
LEMMA ThroughNext ==
    ASSUME BackInv, Turn, ~together, NEW n \in Node, Pending(n), Advance(n)
    PROVE  /\ UNCHANGED <<settings, records, pc, direction, onRemote, found, round>>
           /\ \A m \in Node \ {n} : pc[m] = "idle" /\ pc'[m] = "idle"
                                    /\ ~Operating(m) /\ ~Operating(m)'
           /\ Operating(n) /\ Operating(n)' /\ at[n] \in 1..Operations /\ TurnNode(n)'
           /\ Settled' = Settled /\ \A m \in Node : Applied(m)' = Applied(m)
           /\ \A op \in 1..Operations : op # at[n] => (Through(n, op)' <=> Through(n, op))
           /\ \A op \in 1..Operations : op = at[n] =>
                 (Through(n, op) <=> direction[n] # "apply")
           /\ \A op \in 1..Operations : op = at[n] =>
                 (Through(n, op)' <=> direction[n] = "apply")
<1> USE MigrationAssumption
<1>0. TypeOK
  BY DEF BackInv
<1>1. /\ UNCHANGED <<settings, records, pc, direction, onRemote, found, round>>
      /\ pc[n] = "running" /\ at[n] \in 1..Operations
      /\ at'[n] = IF direction[n] = "apply" THEN at[n] + 1 ELSE at[n] - 1
  BY <1>0 DEF Advance, Pending, TypeOK
<1>2. \A m \in Node \ {n} : pc[m] = "idle" /\ pc'[m] = "idle" /\ ~Operating(m) /\ ~Operating(m)'
  BY <1>0, <1>1, ActsAlone
<1>3. Settled' = Settled /\ \A m \in Node : Applied(m)' = Applied(m)
  BY <1>1 DEF Settled, Applied
<1>4. Operating(n) /\ Operating(n)'
  BY <1>1 DEF Operating
<1>5. TurnNode(n)'
  <2>1. TurnNode(n)
    BY DEF Turn
  <2>2. IF direction[n] = "apply" THEN at'[n] >= 1 ELSE at'[n] <= Operations
    BY <1>1
  <2> QED
    BY <1>1, <1>2, <1>3, <1>4, <2>1, <2>2 DEF TurnNode, Busy
<1>6. \A op \in 1..Operations : op # at[n] => (Through(n, op)' <=> Through(n, op))
  BY <1>1 DEF Through
<1>7. \A op \in 1..Operations : op = at[n] => (Through(n, op) <=> direction[n] # "apply")
  BY <1>1 DEF Through
<1>8. \A op \in 1..Operations : op = at[n] => (Through(n, op)' <=> direction[n] = "apply")
  BY <1>1 DEF Through
<1> QED
  BY <1>1, <1>2, <1>3, <1>4, <1>5, <1>6, <1>7, <1>8

\* A node that went through an operation as the cluster did.
LEMMA TurnSkip ==
    ASSUME BackInv, Turn, ~together, NEW n \in Node, Skip(n) PROVE Turn'
<1> USE MigrationAssumption
<1>1. Pending(n) /\ Advance(n) /\ UNCHANGED tables /\ onRemote[n] /\ at[n] \in OnCluster
  BY DEF Skip, Skipped
<1>2. /\ UNCHANGED <<records, direction, onRemote, round>>
      /\ \A m \in Node \ {n} : /\ pc[m] = "idle" /\ pc'[m] = "idle"
                               /\ ~Operating(m) /\ ~Operating(m)'
      /\ Operating(n) /\ Operating(n)' /\ TurnNode(n)'
      /\ Settled' = Settled /\ \A m \in Node : Applied(m)' = Applied(m)
      /\ \A op \in 1..Operations : op # at[n] => (Through(n, op)' <=> Through(n, op))
  BY <1>1, ThroughNext
<1>3. \A op \in (1..Operations) \ OnCluster : Through(n, op)' <=> Through(n, op)
  BY <1>1, <1>2
<1>4. TurnTables
  BY DEF Turn
<1>5. TurnTables'
  <2>1. \A op \in (1..Operations) \ OnCluster : <<op, n>> \in tables' <=> Has(n, op)'
    BY <1>1, <1>2, <1>3, <1>4 DEF TurnTables, Has
  <2>2. \A m \in Node \ {n} : \A op \in (1..Operations) \ OnCluster :
           <<op, m>> \in tables' <=> Applied(m)'
    BY <1>1, <1>2, <1>4 DEF TurnTables, Has
  <2>3. \A op \in OnCluster : \A k \in Node : <<op, k>> \in tables' <=> Settled'
    BY <1>1, <1>2, <1>4 DEF TurnTables
  <2> QED
    BY <1>1, <1>2, <2>1, <2>2, <2>3 DEF TurnTables, Has
<1> QED
  BY <1>2, <1>5, TurnOf

\* A statement of an operation adds or takes its tables where it is executed.
LEMMA TurnOperation ==
    ASSUME BackInv, Turn, ~together, NEW n \in Node, Forwards(n) \/ Backwards(n)
    PROVE  Turn'
<1> USE MigrationAssumption
<1>0. TypeOK
  BY DEF BackInv
<1>1. /\ Pending(n) /\ Advance(n) /\ (at[n] \in OnCluster => ~onRemote[n])
      /\ \A op \in 1..Operations : \A k \in Node :
            <<op, k>> \in tables' <=>
               IF op = at[n] /\ k \in Where(at[n], n) THEN direction[n] = "apply"
                                                      ELSE <<op, k>> \in tables
  BY DEF Forwards, Backwards, Skipped
<1>2. /\ UNCHANGED <<records, direction, onRemote, round>>
      /\ \A m \in Node \ {n} : /\ pc[m] = "idle" /\ pc'[m] = "idle"
                               /\ ~Operating(m) /\ ~Operating(m)'
      /\ Operating(n) /\ Operating(n)' /\ TurnNode(n)'
      /\ Settled' = Settled /\ \A m \in Node : Applied(m)' = Applied(m)
      /\ \A op \in 1..Operations : op # at[n] => (Through(n, op)' <=> Through(n, op))
      /\ \A op \in 1..Operations : op = at[n] => (Through(n, op)' <=> direction[n] = "apply")
  BY <1>1, ThroughNext
<1>3. TurnTables
  BY DEF Turn
<1>4. \A op \in OnCluster : Where(op, n) = Node
  BY DEF Where
<1>5. \A op \in (1..Operations) \ OnCluster : Where(op, n) = {n}
  BY DEF Where
<1>6. TurnTables'
  <2>1. ASSUME NEW op \in (1..Operations) \ OnCluster
        PROVE  <<op, n>> \in tables' <=> Has(n, op)'
    <3>1. <<op, n>> \in tables <=> Through(n, op)
      BY <1>2, <1>3 DEF TurnTables, Has
    <3>2. <<op, n>> \in tables' <=> Through(n, op)'
      <4>1. CASE op = at[n]
        BY <1>1, <1>2, <1>5, <4>1
      <4>2. CASE op # at[n]
        BY <1>1, <1>2, <3>1, <4>2
      <4> QED
        BY <4>1, <4>2
    <3> QED
      BY <1>2, <3>2 DEF Has
  <2>2. ASSUME NEW m \in Node \ {n}, NEW op \in (1..Operations) \ OnCluster
        PROVE  <<op, m>> \in tables' <=> Applied(m)'
    <3>1. <<op, m>> \in tables <=> Applied(m)
      BY <1>2, <1>3 DEF TurnTables, Has
    <3>2. <<op, m>> \in tables' <=> <<op, m>> \in tables
      BY <1>1, <1>5
    <3> QED
      BY <1>2, <3>1, <3>2
  <2>3. ASSUME ~onRemote[n], NEW op \in OnCluster, NEW k \in Node
        PROVE  <<op, k>> \in tables' <=> Through(n, op)'
    <3>1. <<op, k>> \in tables <=> Through(n, op)
      BY <1>2, <1>3, <2>3 DEF TurnTables
    <3>2. op \in 1..Operations
      OBVIOUS
    <3>3. CASE op = at[n]
      BY <1>1, <1>2, <1>4, <3>2, <3>3
    <3>4. CASE op # at[n]
      BY <1>1, <1>2, <3>1, <3>2, <3>4
    <3> QED
      BY <3>3, <3>4
  <2>4. ASSUME onRemote[n], NEW op \in OnCluster, NEW k \in Node
        PROVE  <<op, k>> \in tables' <=> Settled'
    <3>1. op # at[n] /\ op \in 1..Operations
      BY <1>1, <2>4
    <3>2. <<op, k>> \in tables <=> Settled
      BY <1>2, <1>3, <2>4 DEF TurnTables
    <3> QED
      BY <1>1, <1>2, <3>1, <3>2
  <2> QED
    BY <1>2, <2>1, <2>2, <2>3, <2>4 DEF TurnTables, Has
<1> QED
  BY <1>2, <1>6, TurnOf

\* The server has no reason to refuse a statement.
LEMMA TurnFail ==
    ASSUME BackInv, Turn, ~together, NEW n \in Node, Fail(n) PROVE FALSE
<1> USE MigrationAssumption
<1>0. TypeOK
  BY DEF BackInv
<1>1. PICK k \in Where(at[n], n) : (direction[n] = "apply") = (<<at[n], k>> \in tables)
  BY DEF Fail
<1>2. /\ pc[n] = "running" /\ at[n] \in 1..Operations
      /\ (at[n] \in OnCluster => ~onRemote[n]) /\ Operating(n) /\ k \in Node
  BY <1>1 DEF Fail, Pending, Skipped, Operating, Where
<1>3. Through(n, at[n]) <=> direction[n] # "apply"
  BY <1>0, <1>2 DEF Through, TypeOK
<1>4. <<at[n], k>> \in tables <=> Through(n, at[n])
  <2>1. CASE at[n] \in OnCluster
    BY <1>2, <2>1 DEF Turn, TurnTables
  <2>2. CASE at[n] \notin OnCluster
    <3>1. k = n
      BY <1>1, <2>2 DEF Where
    <3> QED
      BY <1>2, <2>2, <3>1 DEF Turn, TurnTables, Has
  <2> QED
    BY <2>1, <2>2
<1> QED
  BY <1>1, <1>3, <1>4

LEMMA TurnFind ==
    ASSUME BackInv, Turn, ~together, NEW n \in Node, Find(n) PROVE Turn'
<1> USE MigrationAssumption
<1>0. TypeOK
  BY DEF BackInv
<1>1. /\ UNCHANGED <<tables, direction, records, onRemote, at, round>>
      /\ pc[n] = "running" /\ pc'[n] = "recording" /\ at[n] \notin 1..Operations
      /\ \A m \in Node \ {n} : pc'[m] = pc[m]
      /\ found'[n] <=> records[n] # {}
  BY <1>0 DEF Find, Pending, TypeOK
<1>2. \A m \in Node \ {n} : pc[m] = "idle" /\ pc'[m] = "idle" /\ ~Operating(m) /\ ~Operating(m)'
  BY <1>0, <1>1, ActsAlone
<1>3. Operating(n) /\ Operating(n)' /\ TurnNode(n) /\ TurnTables
  BY <1>1 DEF Operating, Turn
<1>4. (\A m \in Node : Applied(m)' = Applied(m)) /\ Settled' = Settled
  BY <1>1 DEF Applied, Settled
<1>5. \A op \in 1..Operations : Through(n, op)' = Through(n, op)
  BY <1>1 DEF Through
<1>6. TurnTables'
  BY <1>1, <1>2, <1>3, <1>4, <1>5 DEF TurnTables, Has
<1>7. at[n] = IF direction[n] = "apply" THEN Operations + 1 ELSE 0
  BY <1>0, <1>1, <1>3 DEF TurnNode, TypeOK
<1>8. TurnNode(n)'
  BY <1>1, <1>2, <1>3, <1>4, <1>7 DEF TurnNode, Busy
<1> QED
  BY <1>2, <1>6, <1>8, TurnOf

\* What the node has done is what its record says, and the cluster follows.
LEMMA TurnRecord ==
    ASSUME BackInv, Turn, ~together, ~shared, NEW n \in Node, Record(n) PROVE Turn'
<1> USE MigrationAssumption
<1>0. TypeOK
  BY DEF BackInv
<1>1. /\ UNCHANGED <<tables, direction, onRemote, at, round>>
      /\ pc[n] = "recording" /\ pc'[n] = "done" /\ direction[n] = round
      /\ \A m \in Node \ {n} : pc'[m] = pc[m] /\ records'[m] = records[m]
      /\ records'[n] = Recorded(n, records[n])
  BY <1>0 DEF Record, TypeOK, BackInv, Busy, Sharers
<1>2. \A m \in Node \ {n} : pc[m] = "idle" /\ pc'[m] = "idle" /\ ~Operating(m) /\ ~Operating(m)'
  BY <1>0, <1>1, ActsAlone
<1>3. Operating(n) /\ ~Operating(n)' /\ TurnNode(n) /\ TurnTables
  BY <1>1 DEF Operating, Turn
<1>4. direction[n] \in {"apply", "unapply"}
  BY <1>0 DEF TypeOK, Direction
<1>5. Applied(n)' <=> direction[n] = "apply"
  <2>1. found[n] => records[n] # {}
    BY <1>1, <1>3 DEF TurnNode
  <2>2. CASE direction[n] = "unapply"
    BY <1>1, <2>2 DEF Applied, Recorded
  <2>3. CASE direction[n] = "apply"
    BY <1>1, <2>1, <2>3 DEF Applied, Recorded
  <2> QED
    BY <1>4, <2>2, <2>3
<1>6. \A m \in Node \ {n} : Applied(m)' <=> Applied(m)
  BY <1>1 DEF Applied
<1>7. \A op \in 1..Operations : Through(n, op) <=> direction[n] = "apply"
  <2>1. at[n] = IF direction[n] = "apply" THEN Operations + 1 ELSE 0
    BY <1>1, <1>3 DEF TurnNode
  <2> QED
    BY <2>1 DEF Through
<1>8. Settled' <=> direction[n] = "apply"
  BY <1>1, <1>4, <1>5 DEF Settled
<1>9. onRemote[n] => (Settled <=> direction[n] = "apply")
  BY <1>1, <1>3 DEF TurnNode
<1>10. TurnTables'
  <2>1. \A op \in (1..Operations) \ OnCluster : <<op, n>> \in tables' <=> Applied(n)'
    BY <1>1, <1>3, <1>5, <1>7 DEF TurnTables, Has
  <2>2. \A m \in Node \ {n} : \A op \in (1..Operations) \ OnCluster :
           <<op, m>> \in tables' <=> Applied(m)'
    BY <1>1, <1>2, <1>3, <1>6 DEF TurnTables, Has
  <2>3. ASSUME NEW op \in OnCluster, NEW k \in Node PROVE <<op, k>> \in tables' <=> Settled'
    <3>1. <<op, k>> \in tables <=> IF onRemote[n] THEN Settled ELSE Through(n, op)
      BY <1>2, <1>3 DEF TurnTables
    <3>2. op \in 1..Operations
      OBVIOUS
    <3> QED
      BY <1>1, <1>7, <1>8, <1>9, <3>1, <3>2
  <2> QED
    BY <1>2, <1>3, <2>1, <2>2, <2>3 DEF TurnTables, Has
<1>11. TurnNode(n)'
  BY <1>1, <1>3 DEF TurnNode, Busy
<1> QED
  BY <1>2, <1>10, <1>11, TurnOf

LEMMA TurnLeave ==
    ASSUME BackInv, Turn, ~together, NEW n \in Node, Leave(n) PROVE Turn'
<1>0. TypeOK
  BY DEF BackInv
<1>1. /\ UNCHANGED <<tables, direction, records, onRemote, at, found, round>>
      /\ pc[n] \notin {"idle", "running", "recording"} /\ pc'[n] = "idle"
      /\ \A m \in Node \ {n} : pc'[m] = pc[m]
  BY <1>0 DEF Leave, TypeOK
<1>2. \A m \in Node \ {n} : pc[m] = "idle" /\ pc'[m] = "idle" /\ ~Operating(m) /\ ~Operating(m)'
  BY <1>0, <1>1, ActsAlone
<1>3. ~Operating(n) /\ ~Operating(n)' /\ TurnTables
  BY <1>1 DEF Operating, Turn
<1>4. (\A m \in Node : Applied(m)' = Applied(m)) /\ Settled' = Settled
  BY <1>1 DEF Applied, Settled
<1>5. TurnTables'
  BY <1>1, <1>2, <1>3, <1>4 DEF TurnTables, Has
<1>6. TurnNode(n)'
  BY <1>1, <1>3 DEF TurnNode, Busy
<1> QED
  BY <1>2, <1>5, <1>6, TurnOf

\* Once every node is where the round takes it, the cluster is too.
LEMMA TurnRound ==
    ASSUME BackInv, Turn, TurnBack PROVE Turn'
<1>1. /\ UNCHANGED <<tables, direction, records, onRemote, at, found, pc>>
      /\ \A m \in Node : pc[m] = "idle" /\ (Applied(m) <=> round = "apply")
      /\ round' = IF round = "apply" THEN "unapply" ELSE "apply"
      /\ round \in {"apply", "unapply"}
  BY DEF TurnBack, BackInv, TypeOK, Direction
<1>2. \A m \in Node : ~Operating(m) /\ ~Operating(m)'
  BY <1>1 DEF Operating
<1>3. \A m \in Node : Applied(m)' = Applied(m)
  BY <1>1 DEF Applied
<1>4. ASSUME NEW k \in Node PROVE Settled' <=> Settled
  BY <1>1, <1>3 DEF Settled
<1>5. TurnTables'
  BY <1>1, <1>2, <1>3, <1>4 DEF Turn, TurnTables, Has
<1>6. \A m \in Node : TurnNode(m)'
  BY <1>1 DEF TurnNode, Busy, Operating
<1> QED
  BY <1>5, <1>6 DEF Turn

LEMMA TurnKept ==
    ASSUME BackInv, Turn, UNCHANGED vars PROVE Turn'
<1>1. /\ \A m \in Node : /\ Applied(m)' = Applied(m) /\ Operating(m)' = Operating(m)
                          /\ Busy(m)' = Busy(m)
                          /\ \A op \in 1..Operations : Through(m, op)' = Through(m, op)
      /\ Settled' = Settled
  BY DEF vars, Applied, Operating, Busy, Through, Settled
<1>2. TurnTables'
  BY <1>1, MigrationAssumption DEF vars, Turn, TurnTables, Has
<1>3. \A m \in Node : TurnNode(m)'
  BY <1>1 DEF vars, Turn, TurnNode
<1> QED
  BY <1>2, <1>3 DEF Turn

LEMMA TurnStep ==
    ASSUME Rounds, BackInv, TurnInv, [Next]_vars PROVE TurnInv'
<1> SUFFICES ASSUME ~together', ~shared', crashes' = 0 PROVE Turn'
  BY DEF TurnInv
<1>1. ~together /\ ~shared
  BY DEF Next, Operate, Migrate, Ask, Skip, Forwards, Backwards, Advance, Fail,
         Find, Record, Leave, Crash, TurnBack, vars, settings
<1>2. crashes = 0 /\ \A n \in Node : ~Crash(n)
  <2>1. crashes \in Nat
    BY MigrationAssumption DEF BackInv, TypeOK
  <2>2. \A n \in Node : ~Crash(n)
    BY <2>1 DEF Crash
  <2> QED
    BY <2>2 DEF Next, Operate, Migrate, Ask, Skip, Forwards, Backwards, Advance, Fail,
                Find, Record, Leave, TurnBack, vars
<1>3. Turn
  BY <1>1, <1>2 DEF TurnInv
<1> QED
  BY <1>1, <1>2, <1>3, TurnMigrate, TurnAsk, TurnSkip, TurnOperation, TurnFail, TurnFind,
     TurnRecord, TurnLeave, TurnRound, TurnKept DEF Next, Operate

(***************************************************************************)
(* Statements on the cluster are executed once (patch/migrations.py:307):  *)
(* nodes that keep records of their own and migrate in turn never run into *)
(* a table that another has made or dropped, however many they are, with   *)
(* any operations, unless a process has died.                              *)
(***************************************************************************)
THEOREM OnClusterOnceCorrect ==
    ASSUME Rounds
    PROVE  Spec => []OnClusterOnce
<1>1. Init => TurnInv
  <2>1. ASSUME Init PROVE Turn
    <3>1. /\ tables = {} /\ \A n \in Node : pc[n] = "idle" /\ ~Applied(n)
          /\ round = "apply"
      BY <2>1 DEF Init, Applied
    <3> QED
      BY <3>1 DEF Turn, TurnTables, TurnNode, Has, Operating, Settled, Busy
  <2> QED
    BY <2>1 DEF TurnInv
<1>2. BackInv /\ TurnInv /\ [Next]_vars => TurnInv'
  BY TurnStep
<1>3. TurnInv => OnClusterOnce
  BY DEF TurnInv, Turn, TurnNode, OnClusterOnce
<1> QED
  BY <1>1, <1>2, <1>3, BackInvariant, PTL DEF Spec
=============================================================================
