------------------------- MODULE SchemaEditorProofs --------------------------
(***************************************************************************)
(* What a migration keeps, for any fields, names, nodes, operations and    *)
(* failures.  In the middle of a session the table is neither what the     *)
(* model was nor what it is: both invariants are about the statements to   *)
(* come.                                                                   *)
(*                                                                         *)
(* SchemaInv is about the values that programs store, the defaults of new  *)
(* columns, the deferred statements and the column of a related model.     *)
(* Each statement fits the table (Fits); if the column is not the one of   *)
(* the model, one of them makes it so (Columns); a zero in the column is   *)
(* about to be replaced (Filling), and nothing that a program stored is    *)
(* (Keeping); the related column has its type, or is about to (Related).   *)
(* An operation begins only with statements for which this holds (Sound,   *)
(* OperateKeeps); executing one of them takes it from those to come and    *)
(* does what it is there for (ExecuteKeeps).                               *)
(*                                                                         *)
(* DeclaredInv is about the definition of the table.  The statements to    *)
(* come run, one after the other, and lead to the table that the model     *)
(* says (Runs, Meets, Leads); rows matter to them only where a column      *)
(* becomes NOT NULL (Guarded), so that they are run on a table without     *)
(* rows (Bare).  An alteration that broke has left the column somewhere    *)
(* between the old field and the new one (Amid), from where the whole of   *)
(* it runs again (AlterRuns, AlteringBetween).                             *)
(***************************************************************************)
EXTENDS SchemaEditor, FiniteSetTheorems, TLAPS

-----------------------------------------------------------------------------
(* What a removal leaves of the deferred statements.                        *)

\* A set of numbers with 0, and with the successor of each of its members, has
\* all of them: else the numbers up to a missing one map into fewer.
LEMMA NatSet ==
    ASSUME NEW S, 0 \in S, \A n \in Nat : n \in S => n + 1 \in S
    PROVE  \A n \in Nat : n \in S
<1> SUFFICES ASSUME NEW n \in Nat, n \notin S PROVE FALSE
  OBVIOUS
<1> DEFINE T == {i \in 0..n : i \in S}
           f == [i \in T |-> i + 1]
<1>1. IsFiniteSet(T)
  <2>1. IsFiniteSet(0..n)
    BY FS_Interval
  <2>2. T \subseteq 0..n
    OBVIOUS
  <2> HIDE DEF T
  <2> QED
    BY <2>1, <2>2, FS_Subset
<1>2. 0 \in T
  OBVIOUS
<1>3. IsFiniteSet(T \ {0}) /\ Cardinality(T \ {0}) = Cardinality(T) - 1
  BY <1>1, <1>2, FS_RemoveElement
<1>4. f \in Injection(T, T \ {0})
  <2>1. \A i \in T : i + 1 \in T \ {0}
    OBVIOUS
  <2> QED
    BY <2>1 DEF Injection, IsInjective
<1>5. Cardinality(T) <= Cardinality(T \ {0})
  BY <1>3, <1>4, FS_Injection
<1>6. Cardinality(T) \in Nat
  BY <1>1, FS_CardinalityType
<1> QED
  BY <1>3, <1>5, <1>6

\* The recursive function of Unreferenced, up to n.
Step(q, n, g) == [i \in 0..n |-> IF i = 0 THEN <<>>
                                 ELSE IF Tracked(q[i]) THEN g[i - 1]
                                 ELSE Append(g[i - 1], q[i])]

\* The recursion of Unreferenced has a solution, for any sequence.
LEMMA RestExists ==
    ASSUME NEW q
    PROVE  \A n \in Nat : \E g : g = Step(q, n, g)
<1> DEFINE N == {n \in Nat : \E g : g = Step(q, n, g)}
<1>1. 0 \in N
  <2> DEFINE g == [i \in 0..0 |-> <<>>]
  <2>1. g = Step(q, 0, g)
    BY DEF Step
  <2> HIDE DEF g
  <2> QED
    BY <2>1
<1>2. ASSUME NEW n \in Nat, n \in N PROVE n + 1 \in N
  <2>1. PICK g : g = Step(q, n, g)
    BY <1>2
  <2> DEFINE h == [i \in 0..(n + 1) |->
                     IF i <= n THEN g[i]
                     ELSE IF Tracked(q[i]) THEN g[n] ELSE Append(g[n], q[i])]
  <2>2. \A i \in 0..(n + 1) : i # 0 => h[i - 1] = g[i - 1]
    OBVIOUS
  <2>3. \A i \in 0..n : g[i] = IF i = 0 THEN <<>>
                               ELSE IF Tracked(q[i]) THEN g[i - 1]
                               ELSE Append(g[i - 1], q[i])
    BY <2>1 DEF Step
  <2>4. ASSUME NEW i \in 0..(n + 1)
        PROVE  h[i] = IF i = 0 THEN <<>> ELSE IF Tracked(q[i]) THEN h[i - 1]
                      ELSE Append(h[i - 1], q[i])
    <3>1. CASE i <= n
      <4>1. h[i] = g[i] /\ i \in 0..n
        BY <3>1
      <4> HIDE DEF h
      <4> QED
        BY <4>1, <2>2, <2>3
    <3>2. CASE i = n + 1
      <4>1. h[i] = IF Tracked(q[i]) THEN g[n] ELSE Append(g[n], q[i])
        BY <3>2
      <4>2. i - 1 = n /\ i # 0 /\ h[i - 1] = g[n]
        BY <3>2
      <4> HIDE DEF h
      <4> QED
        BY <4>1, <4>2
    <3> QED
      BY <3>1, <3>2
  <2>5. h = Step(q, n + 1, h)
    BY <2>4 DEF Step
  <2> HIDE DEF h
  <2> QED
    BY <2>5
<1> HIDE DEF N
<1>3. \A n \in Nat : n \in N
  BY <1>1, <1>2, NatSet
<1> QED
  BY <1>3 DEF N

\* What delete_model and remove_field leave in deferred_sql has no statement
\* that can be found again.
LEMMA UnreferencedRest ==
    ASSUME NEW S, NEW q \in Seq(S)
    PROVE  /\ Unreferenced(q) \in Seq(S)
           /\ \A i \in DOMAIN Unreferenced(q) : ~Tracked(Unreferenced(q)[i])
<1> DEFINE rest == CHOOSE g : g = Step(q, Len(q), g)
           R == {s \in Seq(S) : \A i \in DOMAIN s : ~Tracked(s[i])}
           N == {n \in Nat : n <= Len(q) => rest[n] \in R}
<1>1. Unreferenced(q) = rest[Len(q)]
  BY DEF Unreferenced, Step
<1>2. rest = Step(q, Len(q), rest)
  <2>1. Len(q) \in Nat
    OBVIOUS
  <2>2. \E g : g = Step(q, Len(q), g)
    BY <2>1, RestExists
  <2> QED
    BY <2>2
<1> HIDE DEF rest
<1>3. \A i \in 0..Len(q) : rest[i] = IF i = 0 THEN <<>>
                                     ELSE IF Tracked(q[i]) THEN rest[i - 1]
                                     ELSE Append(rest[i - 1], q[i])
  BY <1>2 DEF Step
<1>4. 0 \in N
  <2>1. rest[0] = <<>>
    <3>1. 0 \in 0..Len(q)
      OBVIOUS
    <3> QED
      BY <1>3, <3>1
  <2>2. <<>> \in R
    OBVIOUS
  <2> HIDE DEF R
  <2> QED
    BY <2>1, <2>2
<1>5. ASSUME NEW n \in Nat, n \in N PROVE n + 1 \in N
  <2> SUFFICES ASSUME n + 1 <= Len(q) PROVE rest[n + 1] \in R
    OBVIOUS
  <2>1. rest[n] \in R /\ n + 1 \in 0..Len(q) /\ n + 1 # 0 /\ (n + 1) - 1 = n /\ q[n + 1] \in S
    BY <1>5
  <2>2. rest[n + 1] = IF Tracked(q[n + 1]) THEN rest[n] ELSE Append(rest[n], q[n + 1])
    BY <1>3, <2>1
  <2>3. ASSUME NEW s \in R, NEW e \in S, ~Tracked(e) PROVE Append(s, e) \in R
    <3>1. s \in Seq(S) /\ \A i \in 1..Len(s) : ~Tracked(s[i])
      OBVIOUS
    <3>2. /\ Append(s, e) \in Seq(S) /\ DOMAIN Append(s, e) = 1..(Len(s) + 1)
          /\ \A i \in 1..(Len(s) + 1) : Append(s, e)[i] = IF i <= Len(s) THEN s[i] ELSE e
      BY <3>1
    <3>3. \A i \in 1..(Len(s) + 1) : ~Tracked(Append(s, e)[i])
      BY <2>3, <3>1, <3>2
    <3> QED
      BY <3>2, <3>3
  <2> HIDE DEF R
  <2> QED
    BY <2>1, <2>2, <2>3
<1>6. Len(q) \in N
  <2> HIDE DEF N
  <2>1. \A n \in Nat : n \in N
    BY <1>4, <1>5, NatSet
  <2> QED
    BY <2>1
<1> QED
  BY <1>1, <1>6

\* A sequence, of whatever statements.
IsSeq(s) == s \in Seq(Range(s))

\* The statements of two sequences one after the other.
LEMMA Joined ==
    ASSUME NEW s, NEW t, IsSeq(s), IsSeq(t)
    PROVE  IsSeq(s \o t) /\ Range(s \o t) = Range(s) \cup Range(t)
<1> DEFINE r == s \o t
<1>0. /\ Len(s) \in Nat /\ DOMAIN s = 1..Len(s) /\ Len(t) \in Nat /\ DOMAIN t = 1..Len(t)
  BY DEF IsSeq
<1>1. /\ DOMAIN r = 1..(Len(s) + Len(t)) /\ Len(r) = Len(s) + Len(t)
      /\ \A i \in 1..(Len(s) + Len(t)) : r[i] = IF i <= Len(s) THEN s[i] ELSE t[i - Len(s)]
      /\ r \in Seq(Range(s) \cup Range(t))
  BY DEF IsSeq
<1> HIDE DEF r
<1>2. Range(s) \subseteq Range(r)
  <2>1. \A i \in DOMAIN s : i \in DOMAIN r /\ r[i] = s[i]
    BY <1>0, <1>1
  <2> QED
    BY <2>1 DEF Range
<1>3. Range(t) \subseteq Range(r)
  <2>1. \A i \in DOMAIN t : i + Len(s) \in DOMAIN r /\ r[i + Len(s)] = t[i]
    BY <1>0, <1>1
  <2> QED
    BY <2>1 DEF Range
<1>4. Range(r) \subseteq Range(s) \cup Range(t)
  BY <1>1 DEF Range
<1>5. IsSeq(r)
  <2>1. \A i \in 1..Len(r) : r[i] \in Range(r)
    BY <1>1 DEF Range
  <2> QED
    BY <1>1, <2>1 DEF IsSeq
<1> QED
  BY <1>2, <1>3, <1>4, <1>5 DEF r

\* What remains once the first statement is executed.
LEMMA Shorter ==
    ASSUME NEW s, IsSeq(s), s # <<>>
    PROVE  /\ IsSeq(Tail(s)) /\ Range(s) = {Head(s)} \cup Range(Tail(s))
           /\ \A i \in DOMAIN Tail(s) : i + 1 \in DOMAIN s /\ Tail(s)[i] = s[i + 1] /\ i \in Nat /\ i >= 1
           /\ Head(s) = s[1] /\ 1 \in DOMAIN s
           /\ Tail(s) = <<>> <=> ~(Len(s) > 1)
<1> DEFINE t == Tail(s)
<1>1. Len(s) \in Nat /\ DOMAIN s = 1..Len(s) /\ Len(s) # 0
  BY DEF IsSeq
<1>2. /\ DOMAIN t = 1..(Len(s) - 1) /\ Len(t) = Len(s) - 1
      /\ \A i \in 1..(Len(s) - 1) : t[i] = s[i + 1]
      /\ t \in Seq(Range(s)) /\ Head(s) = s[1]
  BY <1>1 DEF IsSeq
<1>3. \A i \in DOMAIN s : i = 1 \/ (i - 1 \in DOMAIN t /\ s[i] = t[i - 1])
  BY <1>1, <1>2
<1>4. \A i \in DOMAIN t : i + 1 \in DOMAIN s /\ t[i] = s[i + 1] /\ i \in Nat /\ i >= 1
  BY <1>1, <1>2
<1>7. t = <<>> <=> Len(t) = 0
  BY <1>2
<1>8. 1 \in DOMAIN s
  BY <1>1
<1> HIDE DEF t
<1>5. Range(s) = {Head(s)} \cup Range(t)
  <2>1. ASSUME NEW x \in Range(s) PROVE x = Head(s) \/ x \in Range(t)
    BY <1>2, <1>3 DEF Range
  <2>2. ASSUME NEW x \in Range(t) PROVE x \in Range(s)
    BY <1>4 DEF Range
  <2>3. Head(s) \in Range(s)
    BY <1>2, <1>8 DEF Range
  <2> QED
    BY <2>1, <2>2, <2>3
<1>6. IsSeq(t)
  <2>1. \A i \in 1..Len(t) : t[i] \in Range(t)
    BY <1>2 DEF Range
  <2>2. t \in Seq(Range(s)) /\ Len(t) \in Nat
    BY <1>1, <1>2
  <2> QED
    BY <2>1, <2>2 DEF IsSeq
<1> QED
  BY <1>1, <1>2, <1>4, <1>5, <1>6, <1>7, <1>8 DEF t

\* A statement that is issued on a condition.
LEMMA WhenRange ==
    ASSUME NEW c \in BOOLEAN, NEW x
    PROVE  IsSeq(When(c, <<x>>)) /\ Range(When(c, <<x>>)) = IF c THEN {x} ELSE {}
<1>1. IsSeq(<<>>) /\ Range(<<>>) = {}
  BY DEF IsSeq, Range
<1>2. Range(<<x>>) = {x} /\ IsSeq(<<x>>)
  <2>1. Range(<<x>>) = {x}
    BY DEF Range
  <2> QED
    BY <2>1 DEF IsSeq
<1> QED
  BY <1>1, <1>2 DEF When

\* The columns, the values and the rows of a table, which may not exist.
ColumnsOf(t) == IF t = NoTable THEN {} ELSE DOMAIN t.columns
ValuesOf(t) == IF t = NoTable THEN {} ELSE t.values
RowsOf(t) == t # NoTable /\ t.rows

\* A table that exists.
IsTable(t) ==
    DOMAIN t = {"table", "rows", "values", "checks", "index", "constraint", "columns"}

\* Statements that make or unmake columns, and those that do not.
Structural == {"create", "drop", "add column", "drop column", "rename column"}
Others == {"raise", "rename", "alter", "fill", "add check", "drop check", "add index",
           "drop index", "add constraint", "drop constraint"}

\* What UPDATE makes of the values of a column.
Filled(values, s) ==
    IF values = {} THEN {}
    ELSE IF s.all THEN {s.value}
    ELSE IF "null" \in values THEN (values \ {"null"}) \cup {s.value}
    ELSE values

\* A table that exists is not the missing one.
LEMMA TableIsOne ==
    ASSUME NEW t, IsTable(t)
    PROVE  t # NoTable
<1>1. DOMAIN NoTable = {"table"} /\ "rows" \in DOMAIN t
  BY DEF NoTable, IsTable
<1> QED
  BY <1>1

\* What a legal statement makes of a table.
LEMMA AfterTable ==
    ASSUME NEW t, NEW s, t = NoTable \/ IsTable(t), Legal(t, s),
           s.op \in Structural \cup Others, s.table \in Table, NEW a, a = After(t, s)
    PROVE  /\ s.op # "raise"
           /\ IF s.op = "create" THEN t = NoTable ELSE IsTable(t)
           /\ IF s.op = "drop" THEN a = NoTable ELSE IsTable(a)
           /\ RowsOf(a) => RowsOf(t)
           /\ s.op = "create" => ColumnsOf(a) = IF s.columns = <<>> THEN {} ELSE {s.columns[1]}
           /\ s.op = "drop" => ColumnsOf(a) = {}
           /\ s.op = "add column" => /\ ColumnsOf(a) = ColumnsOf(t) \cup {s.column}
                                     /\ s.column \notin ColumnsOf(t)
                                     /\ ValuesOf(a) = Initial(t, s.definition)
           /\ s.op = "drop column" => ColumnsOf(a) = ColumnsOf(t) \ {s.column}
           /\ s.op = "rename column" => /\ ColumnsOf(a) = (ColumnsOf(t) \ {s.column}) \cup {s.to}
                                        /\ s.column \in ColumnsOf(t) /\ s.to \notin ColumnsOf(t)
           /\ s.op \in Others => ColumnsOf(a) = ColumnsOf(t)
           /\ s.op \in {"create", "drop", "drop column"} => ValuesOf(a) = {}
           /\ s.op = "fill" => ValuesOf(a) = Filled(ValuesOf(t), s)
           /\ s.op \in (Others \ {"fill"}) \cup {"rename column"} => ValuesOf(a) = ValuesOf(t)
<1>1. CASE s.op = "raise"
  BY <1>1 DEF Legal
<1>2. CASE s.op = "create"
  <2>1. t = NoTable
    BY <1>2 DEF Legal
  <2>2. a = [table |-> s.table, rows |-> FALSE, values |-> {}, checks |-> s.checks,
             index |-> "none", constraint |-> s.constraint,
             columns |-> IF s.columns = <<>> THEN <<>>
                         ELSE [c \in {s.columns[1]} |-> s.columns[2]]]
    BY <1>2 DEF After
  <2>3. IsTable(a) /\ a.values = {} /\ ~a.rows
        /\ DOMAIN a.columns = IF s.columns = <<>> THEN {} ELSE {s.columns[1]}
    BY <2>2 DEF IsTable
  <2>7. a # NoTable
    BY <2>3, TableIsOne
  <2>8. ColumnsOf(a) = IF s.columns = <<>> THEN {} ELSE {s.columns[1]}
    BY <2>3, <2>7 DEF ColumnsOf
  <2>9. ValuesOf(a) = {} /\ (RowsOf(a) => RowsOf(t))
    BY <2>3, <2>7 DEF ValuesOf, RowsOf
  <2> QED
    BY <2>1, <2>3, <1>2, <2>8, <2>9 DEF Structural, Others
<1>3. ASSUME s.op \notin {"raise", "create"} PROVE IsTable(t) /\ t # NoTable
  <2>1. t.table = s.table
    BY <1>3 DEF Legal
  <2>2. NoTable.table = "none" /\ "none" \notin Table
    BY SchemaAssumption DEF NoTable
  <2> QED
    BY <2>1, <2>2
<1>4. CASE s.op = "drop"
  <2>1. a = NoTable
    BY <1>4 DEF After
  <2> QED
    BY <1>3, <1>4, <2>1 DEF ColumnsOf, ValuesOf, RowsOf, Structural, Others
<1>5. CASE s.op = "add column"
  <2>1. a = [t EXCEPT !.columns = [c \in DOMAIN t.columns \cup {s.column} |->
                                    IF c = s.column THEN s.definition ELSE t.columns[c]],
                      !.values = Initial(t, s.definition)]
    BY <1>5 DEF After
  <2>2. IsTable(a) /\ a.values = Initial(t, s.definition) /\ a.rows = t.rows
        /\ DOMAIN a.columns = DOMAIN t.columns \cup {s.column}
    BY <1>3, <1>5, <2>1 DEF IsTable
  <2>3. s.column \notin DOMAIN t.columns
    BY <1>5 DEF Legal
  <2>7. a # NoTable
    BY <2>2, <2>3, TableIsOne
  <2>8. ColumnsOf(a) = ColumnsOf(t) \cup {s.column} /\ s.column \notin ColumnsOf(t)
    BY <1>3, <1>5, <2>2, <2>3, <2>7 DEF ColumnsOf
  <2>9. ValuesOf(a) = Initial(t, s.definition) /\ (RowsOf(a) => RowsOf(t))
    BY <1>3, <1>5, <2>2, <2>3, <2>7 DEF ValuesOf, RowsOf
  <2> QED
    BY <1>3, <2>2, <1>5, <2>8, <2>9 DEF Structural, Others
<1>6. CASE s.op = "drop column"
  <2>1. a = [t EXCEPT !.columns = [c \in DOMAIN t.columns \ {s.column} |-> t.columns[c]],
                      !.values = {}]
    BY <1>6 DEF After
  <2>2. IsTable(a) /\ a.values = {} /\ a.rows = t.rows
        /\ DOMAIN a.columns = DOMAIN t.columns \ {s.column}
    BY <1>3, <1>6, <2>1 DEF IsTable
  <2>7. a # NoTable
    BY <2>2, TableIsOne
  <2>8. ColumnsOf(a) = ColumnsOf(t) \ {s.column}
    BY <1>3, <1>6, <2>2, <2>7 DEF ColumnsOf
  <2>9. ValuesOf(a) = {} /\ (RowsOf(a) => RowsOf(t))
    BY <1>3, <1>6, <2>2, <2>7 DEF ValuesOf, RowsOf
  <2> QED
    BY <1>3, <2>2, <1>6, <2>8, <2>9 DEF Structural, Others
<1>7. CASE s.op = "rename column"
  <2>1. a = [t EXCEPT !.columns = Renamed(@, s.column, s.to),
                      !.index = IF @ = s.column THEN s.to ELSE @]
    BY <1>7 DEF After
  <2>2. IsTable(a) /\ a.values = t.values /\ a.rows = t.rows
        /\ DOMAIN a.columns = (DOMAIN t.columns \ {s.column}) \cup {s.to}
    BY <1>3, <1>7, <2>1 DEF IsTable, Renamed
  <2>3. s.column \in DOMAIN t.columns /\ s.to \notin DOMAIN t.columns
    BY <1>7 DEF Legal
  <2>7. a # NoTable
    BY <2>2, <2>3, TableIsOne
  <2>8. ColumnsOf(a) = (ColumnsOf(t) \ {s.column}) \cup {s.to} /\ s.column \in ColumnsOf(t) /\ s.to \notin ColumnsOf(t)
    BY <1>3, <1>7, <2>2, <2>3, <2>7 DEF ColumnsOf
  <2>9. ValuesOf(a) = ValuesOf(t) /\ (RowsOf(a) => RowsOf(t))
    BY <1>3, <1>7, <2>2, <2>3, <2>7 DEF ValuesOf, RowsOf
  <2> QED
    BY <1>3, <2>2, <1>7, <2>8, <2>9 DEF Structural, Others
<1>8. CASE s.op = "alter"
  <2>1. a = [t EXCEPT !.columns = [t.columns EXCEPT ![s.column] = ChangedBy(@, s.changes)]]
    BY <1>8 DEF After
  <2>2. IsTable(a) /\ a.values = t.values /\ a.rows = t.rows
        /\ DOMAIN a.columns = DOMAIN t.columns
    BY <1>3, <1>8, <2>1 DEF IsTable
  <2>7. a # NoTable
    BY <2>2, TableIsOne
  <2>8. ColumnsOf(a) = ColumnsOf(t)
    BY <1>3, <1>8, <2>2, <2>7 DEF ColumnsOf
  <2>9. ValuesOf(a) = ValuesOf(t) /\ (RowsOf(a) => RowsOf(t))
    BY <1>3, <1>8, <2>2, <2>7 DEF ValuesOf, RowsOf
  <2> QED
    BY <1>3, <2>2, <1>8, <2>8, <2>9 DEF Structural, Others
<1>9. CASE s.op = "fill"
  <2>1. a = [t EXCEPT !.values = Filled(t.values, s)]
    BY <1>9 DEF After, Filled
  <2>2. IsTable(a) /\ a.columns = t.columns /\ a.rows = t.rows
    BY <1>3, <1>9, <2>1 DEF IsTable
  <2>3. a.values = Filled(t.values, s)
    BY <1>3, <1>9, <2>1 DEF IsTable
  <2>7. a # NoTable
    BY <2>2, <2>3, TableIsOne
  <2>8. ColumnsOf(a) = ColumnsOf(t)
    BY <1>3, <1>9, <2>2, <2>3, <2>7 DEF ColumnsOf
  <2>9. ValuesOf(a) = Filled(ValuesOf(t), s) /\ (RowsOf(a) => RowsOf(t))
    BY <1>3, <1>9, <2>2, <2>3, <2>7 DEF ValuesOf, RowsOf
  <2> QED
    BY <1>3, <2>2, <1>9, <2>8, <2>9 DEF Structural, Others
<1>10. CASE s.op \in {"rename", "add check", "drop check", "add index", "drop index",
                      "add constraint", "drop constraint"}
  <2>1. \/ a = [t EXCEPT !.table = s.to]
        \/ a = [t EXCEPT !.checks = @ \cup {s.column}]
        \/ a = [t EXCEPT !.checks = @ \ {s.column}]
        \/ \E i : a = [t EXCEPT !.index = i]
        \/ \E c \in BOOLEAN : a = [t EXCEPT !.constraint = c]
    BY <1>10 DEF After
  <2>2. IsTable(a) /\ a.columns = t.columns /\ a.values = t.values /\ a.rows = t.rows
    BY <1>3, <1>10, <2>1 DEF IsTable
  <2>7. a # NoTable
    BY <2>2, TableIsOne
  <2>8. ColumnsOf(a) = ColumnsOf(t)
    BY <1>3, <1>10, <2>2, <2>7 DEF ColumnsOf
  <2>9. ValuesOf(a) = ValuesOf(t) /\ (RowsOf(a) => RowsOf(t))
    BY <1>3, <1>10, <2>2, <2>7 DEF ValuesOf, RowsOf
  <2> QED
    BY <1>3, <2>2, <1>10, <2>8, <2>9 DEF Structural, Others
<1> QED
  BY <1>1, <1>2, <1>4, <1>5, <1>6, <1>7, <1>8, <1>9, <1>10 DEF Structural, Others

\* The parts of the statements.
LEMMA OnColumnParts ==
    ASSUME NEW name, NEW t, NEW c
    PROVE  /\ OnColumn(name, t, c).op = name /\ OnColumn(name, t, c).on = cluster
           /\ OnColumn(name, t, c).table = t /\ OnColumn(name, t, c).column = c
BY DEF OnColumn

\* The parts of an alteration.
LEMMA AlterParts ==
    ASSUME NEW t, NEW c, NEW x
    PROVE  Alter(t, c, x).op = "alter" /\ Alter(t, c, x).on = cluster /\ Alter(t, c, x).table = t
BY DEF Alter

\* The parts of an UPDATE.
LEMMA FillParts ==
    ASSUME NEW t, NEW c, NEW x, NEW all
    PROVE  /\ Fill(t, c, x, all).op = "fill" /\ Fill(t, c, x, all).on = cluster
           /\ Fill(t, c, x, all).table = t /\ Fill(t, c, x, all).value = x
           /\ Fill(t, c, x, all).all = all
BY DEF Fill

\* A sequence of one statement.
LEMMA Single ==
    ASSUME NEW x
    PROVE  IsSeq(<<x>>) /\ Range(<<x>>) = {x}
<1>1. Range(<<x>>) = {x}
  BY DEF Range
<1> QED
  BY <1>1 DEF IsSeq

\* Each operation says these statements, in this order where it counts.
LEMMA CreateModelSays ==
    ASSUME NEW m \in Model
    PROVE  /\ IsSeq(CreateModelSql(m)) /\ Create(m) \in Range(CreateModelSql(m))
           /\ \A s \in Range(CreateModelSql(m)) : s = Create(m) \/ s = On("raise", m.table)
<1> DEFINE c == m.index /\ engine # "MergeTree"
<1>1. c \in BOOLEAN
  OBVIOUS
<1> HIDE DEF c
<1>2. IsSeq(When(c, <<On("raise", m.table)>>))
      /\ Range(When(c, <<On("raise", m.table)>>)) \subseteq {On("raise", m.table)}
  BY <1>1, WhenRange
<1>3. IsSeq(<<Create(m)>>) /\ Range(<<Create(m)>>) = {Create(m)}
  BY Single
<1>4. CreateModelSql(m) = <<Create(m)>> \o When(c, <<On("raise", m.table)>>)
  BY DEF CreateModelSql, c
<1> QED
  BY <1>2, <1>3, <1>4, Joined

\* What follows the first statement is of the rest.
LEMMA AfterFirst ==
    ASSUME NEW x, NEW w, IsSeq(w), NEW q, q = <<x>> \o w, NEW i \in DOMAIN q, i # 1
    PROVE  q[i] \in Range(w)
<1>1. w \in Seq(Range(w))
  BY DEF IsSeq
<1>2. Len(w) \in Nat /\ DOMAIN w = 1..Len(w)
  BY <1>1
<1>3. i \in 1..(Len(w) + 1) /\ q[i] = w[i - 1]
  BY <1>1, <1>2
<1>4. i - 1 \in DOMAIN w
  BY <1>2, <1>3
<1> QED
  BY <1>3, <1>4 DEF Range

\* The statement that add_field begins with.
AddColumn(t, f) == [op |-> "add column", on |-> cluster, table |-> t, column |-> f.column,
                    definition |-> ColumnOf(f)]

\* add_field adds the column first, and fills it only where the column has no
\* default of its own.
LEMMA AddFieldSays ==
    ASSUME NEW t, NEW f \in Field
    PROVE  /\ IsSeq(AddFieldSql(t, f)) /\ AddColumn(t, f) \in Range(AddFieldSql(t, f))
           /\ \A s \in Range(AddFieldSql(t, f)) :
                s = AddColumn(t, f) \/ s = Fill(t, f.column, f.default, TRUE)
           /\ \A i \in DOMAIN AddFieldSql(t, f) : AddFieldSql(t, f)[i].op = "add column" => i = 1
           /\ f.db_default = "none" /\ f.default # "none" /\ ~Distributed
                => Fill(t, f.column, f.default, TRUE) \in Range(AddFieldSql(t, f))
<1> DEFINE q == AddFieldSql(t, f)
           add == AddColumn(t, f)
           c == f.db_default = "none" /\ f.default # "none" /\ ~Distributed
           fill == Fill(t, f.column, f.default, TRUE)
           w == When(c, <<fill>>)
<1>1. c \in BOOLEAN
  OBVIOUS
<1>0. fill.op = "fill"
  BY DEF Fill
<1>2. IsSeq(w) /\ Range(w) = IF c THEN {fill} ELSE {}
  <2> HIDE DEF c, fill
  <2> QED
    BY <1>1, WhenRange
<1>3. IsSeq(<<add>>) /\ Range(<<add>>) = {add}
  BY Single
<1>4. q = <<add>> \o w
  BY DEF AddFieldSql, AddColumn, ColumnOf
<1> HIDE DEF q, add
<1>5. ASSUME NEW i \in DOMAIN q, i # 1 PROVE q[i] \in Range(w)
  <2> HIDE DEF w
  <2> QED
    BY <1>2, <1>4, <1>5, AfterFirst
<1> HIDE DEF w, fill, c
<1>6. IsSeq(q) /\ Range(q) = {add} \cup Range(w)
  <2>1. IsSeq(<<add>> \o w) /\ Range(<<add>> \o w) = Range(<<add>>) \cup Range(w)
    BY <1>2, <1>3, Joined
  <2> QED
    BY <2>1, <1>3, <1>4
<1>7. \A i \in DOMAIN q : q[i].op = "add column" => i = 1
  BY <1>0, <1>2, <1>5
<1>8. /\ IsSeq(q) /\ add \in Range(q) /\ \A s \in Range(q) : s = add \/ s = fill
      /\ \A i \in DOMAIN q : q[i].op = "add column" => i = 1
      /\ c => fill \in Range(q)
  <2>1. CASE c
    <3>1. Range(w) = {fill}
      BY <1>2, <2>1
    <3> QED
      BY <1>6, <1>7, <3>1
  <2>2. CASE ~c
    <3>1. Range(w) = {}
      BY <1>2, <2>2
    <3> QED
      BY <1>6, <1>7, <2>2, <3>1
  <2> QED
    BY <2>1, <2>2
<1> QED
  BY <1>8 DEF fill, q, add, c

\* remove_field drops the column, and may drop its check.
LEMMA RemoveFieldSays ==
    ASSUME NEW t, NEW f \in Field, NEW q, q = RemoveFieldSql(t, f)
    PROVE  /\ IsSeq(q) /\ OnColumn("drop column", t, f.column) \in Range(q)
           /\ \A s \in Range(q) : \/ s = OnColumn("drop column", t, f.column)
                                  \/ s = OnColumn("drop check", t, f.column)
<1> DEFINE drop == OnColumn("drop column", t, f.column)
           check == OnColumn("drop check", t, f.column)
<1>1. f.check \in BOOLEAN
  BY SchemaAssumption DEF Field
<1>2. q = <<drop>> \o When(f.check, <<check>>)
  BY DEF RemoveFieldSql
<1> HIDE DEF drop, check
<1>3. IsSeq(When(f.check, <<check>>)) /\ Range(When(f.check, <<check>>)) \subseteq {check}
  BY <1>1, WhenRange
<1>4. IsSeq(<<drop>>) /\ Range(<<drop>>) = {drop}
  BY Single
<1> DEFINE w == When(f.check, <<check>>)
<1>5. IsSeq(w) /\ Range(w) \subseteq {check} /\ q = <<drop>> \o w
  BY <1>2, <1>3
<1> HIDE DEF w
<1>6. IsSeq(<<drop>> \o w) /\ Range(<<drop>> \o w) = Range(<<drop>>) \cup Range(w)
  BY <1>4, <1>5, Joined
<1>7. IsSeq(q) /\ Range(q) = {drop} \cup Range(w)
  BY <1>4, <1>5, <1>6
<1> QED
  BY <1>5, <1>7 DEF drop, check

\* Joining keeps what the parts say.
LEMMA Join ==
    ASSUME NEW S, NEW s, NEW t, IsSeq(s), Range(s) \subseteq S, IsSeq(t), Range(t) \subseteq S
    PROVE  /\ IsSeq(s \o t) /\ Range(s \o t) \subseteq S
           /\ Range(s) \subseteq Range(s \o t) /\ Range(t) \subseteq Range(s \o t)
BY Joined

\* What an alteration of a field may say, in which the columns that remain are
\* the ones of the new field.
Alters(q, t, old, new) ==
    /\ IsSeq(q)
    /\ \A s \in Range(q) :
         /\ s.op \in {"drop check", "rename column", "alter", "fill", "alter related", "add check"}
         /\ s.on = cluster
         /\ s.op # "alter related" => s.table = t
         /\ s.op = "rename column" => /\ s.column = old.column /\ s.to = new.column
                                      /\ old.column # new.column
         /\ s.op = "fill" => ~s.all /\ s.value \in {new.default, new.db_default}
         /\ s.op = "alter related" => s.type = new.type
    /\ new.primary_key /\ (~old.primary_key \/ ColumnType(old) # ColumnType(new))
         => \E s \in Range(q) : s.op = "alter related"
    /\ old.column # new.column => \E s \in Range(q) : s.op = "rename column"

\* alter_field says that, and alters the related column if it must.
LEMMA AlterFieldSays ==
    ASSUME NEW t, NEW old \in Field, NEW new \in Field
    PROVE  Alters(AlterFieldSql(t, old, new), t, old, new)
<1> DEFINE q == AlterFieldSql(t, old, new)
           c == new.column
           moved == old.column # c
           value == IF new.db_default = "none" THEN new.default ELSE new.db_default
           S == { s \in {OnColumn("drop check", t, old.column),
                         [op |-> "rename column", on |-> cluster, table |-> t,
                           column |-> old.column, to |-> c],
                         Alter(t, c, FirstChanges(old, new)),
                         Fill(t, c, value, FALSE),
                         Alter(t, c, << <<"type", ColumnType(new)>> >>),
                         Alter(t, c, << <<"comment", new.comment>> >>),
                         [op |-> "alter related", on |-> cluster, type |-> new.type],
                         OnColumn("add check", t, c),
                         Alter(t, c, << <<"remove default">> >>)} :
                   s.op = "rename column" => moved }
           q1 == When(old.check /\ (moved \/ ~new.check), <<OnColumn("drop check", t, old.column)>>)
           q2 == When(moved, << [op |-> "rename column", on |-> cluster, table |-> t,
                                 column |-> old.column, to |-> c] >>)
           q3 == When(FirstChanges(old, new) # <<>>, <<Alter(t, c, FirstChanges(old, new))>>)
           q4 == When(FourWay(old, new) /\ ~Distributed, <<Fill(t, c, value, FALSE)>>)
           q5 == When(FourWay(old, new), <<Alter(t, c, << <<"type", ColumnType(new)>> >>)>>)
           q6 == When(old.comment # new.comment, <<Alter(t, c, << <<"comment", new.comment>> >>)>>)
           q7 == RelatedSql(old, new)
           q8 == When(new.check /\ (moved \/ ~old.check), <<OnColumn("add check", t, c)>>)
           q9 == When(NeedsDatabaseDefault(old, new), <<Alter(t, c, << <<"remove default">> >>)>>)
<1>0. /\ old.check \in BOOLEAN /\ new.check \in BOOLEAN /\ old.null \in BOOLEAN /\ new.null \in BOOLEAN
      /\ old.primary_key \in BOOLEAN /\ new.primary_key \in BOOLEAN
  BY SchemaAssumption DEF Field
<1>1. q = q1 \o q2 \o q3 \o q4 \o q5 \o q6 \o q7 \o q8 \o q9
  BY DEF AlterFieldSql
<1> HIDE DEF q
<1>2. IsSeq(q1) /\ Range(q1) \subseteq S
  <2>1. OnColumn("drop check", t, old.column) \in S
    BY DEF OnColumn
  <2>2. (old.check /\ (moved \/ ~new.check)) \in BOOLEAN
    OBVIOUS
  <2> HIDE DEF S
  <2> QED
    BY <2>1, <2>2, WhenRange
<1>3. /\ IsSeq(q2) /\ Range(q2) \subseteq S
      /\ moved => \E s \in Range(q2) : s.op = "rename column"
  <2> DEFINE x == [op |-> "rename column", on |-> cluster, table |-> t,
                   column |-> old.column, to |-> c]
  <2>1. moved => x \in S
    OBVIOUS
  <2>2. moved \in BOOLEAN
    OBVIOUS
  <2>3. q2 = When(moved, <<x>>)
    OBVIOUS
  <2>4. x.op = "rename column"
    OBVIOUS
  <2> HIDE DEF S, x, q2, moved
  <2>5. IsSeq(q2) /\ Range(q2) = IF moved THEN {x} ELSE {}
    BY <2>2, <2>3, WhenRange
  <2> QED
    BY <2>1, <2>4, <2>5
<1>4. IsSeq(q3) /\ Range(q3) \subseteq S
  <2>1. Alter(t, c, FirstChanges(old, new)) \in S
    BY DEF Alter
  <2>2. (FirstChanges(old, new) # <<>>) \in BOOLEAN
    OBVIOUS
  <2> HIDE DEF S
  <2> QED
    BY <2>1, <2>2, WhenRange
<1>5. IsSeq(q4) /\ Range(q4) \subseteq S
  <2>1. Fill(t, c, value, FALSE) \in S
    BY DEF Fill
  <2>2. (FourWay(old, new) /\ ~Distributed) \in BOOLEAN
    OBVIOUS
  <2> HIDE DEF S
  <2> QED
    BY <2>1, <2>2, WhenRange
<1>6. IsSeq(q5) /\ Range(q5) \subseteq S
  <2>1. Alter(t, c, << <<"type", ColumnType(new)>> >>) \in S
    BY DEF Alter
  <2>2. FourWay(old, new) \in BOOLEAN
    BY DEF FourWay
  <2> HIDE DEF S
  <2> QED
    BY <2>1, <2>2, WhenRange
<1>7. IsSeq(q6) /\ Range(q6) \subseteq S
  <2>1. Alter(t, c, << <<"comment", new.comment>> >>) \in S
    BY DEF Alter
  <2>2. (old.comment # new.comment) \in BOOLEAN
    OBVIOUS
  <2> HIDE DEF S
  <2> QED
    BY <2>1, <2>2, WhenRange
<1>8. /\ IsSeq(q7) /\ Range(q7) \subseteq S
      /\ new.primary_key /\ (~old.primary_key \/ ColumnType(old) # ColumnType(new))
            => \E s \in Range(q7) : s.op = "alter related"
  <2> DEFINE x == [op |-> "alter related", on |-> cluster, type |-> new.type]
             w == new.primary_key /\ (~old.primary_key \/ ColumnType(old) # ColumnType(new))
  <2>1. x \in S /\ x.op = "alter related"
    OBVIOUS
  <2>2. w \in BOOLEAN
    OBVIOUS
  <2>3. q7 = When(w, <<x>>)
    BY DEF RelatedSql
  <2> HIDE DEF S, x, q7, w
  <2>4. IsSeq(q7) /\ Range(q7) = IF w THEN {x} ELSE {}
    BY <2>2, <2>3, WhenRange
  <2> QED
    BY <2>1, <2>4 DEF w
<1>9. IsSeq(q8) /\ Range(q8) \subseteq S
  <2>1. OnColumn("add check", t, c) \in S
    BY DEF OnColumn
  <2>2. (new.check /\ (moved \/ ~old.check)) \in BOOLEAN
    OBVIOUS
  <2> HIDE DEF S
  <2> QED
    BY <2>1, <2>2, WhenRange
<1>10. IsSeq(q9) /\ Range(q9) \subseteq S
  <2>1. Alter(t, c, << <<"remove default">> >>) \in S
    BY DEF Alter
  <2>2. NeedsDatabaseDefault(old, new) \in BOOLEAN
    BY DEF NeedsDatabaseDefault
  <2> HIDE DEF S
  <2> QED
    BY <2>1, <2>2, WhenRange
<1>11. /\ IsSeq(q) /\ Range(q) \subseteq S
       /\ Range(q2) \subseteq Range(q) /\ Range(q7) \subseteq Range(q)
  <2> HIDE DEF S, q1, q2, q3, q4, q5, q6, q7, q8, q9
  <2>1. /\ IsSeq(q1 \o q2)
        /\ Range(q1 \o q2) \subseteq S
        /\ Range(q2) \subseteq Range(q1 \o q2)
    BY <1>2, <1>3, Join
  <2>2. /\ IsSeq(q1 \o q2 \o q3)
        /\ Range(q1 \o q2 \o q3) \subseteq S
        /\ Range(q2) \subseteq Range(q1 \o q2 \o q3)
    BY <2>1, <1>4, Join
  <2>3. /\ IsSeq(q1 \o q2 \o q3 \o q4)
        /\ Range(q1 \o q2 \o q3 \o q4) \subseteq S
        /\ Range(q2) \subseteq Range(q1 \o q2 \o q3 \o q4)
    BY <2>2, <1>5, Join
  <2>4. /\ IsSeq(q1 \o q2 \o q3 \o q4 \o q5)
        /\ Range(q1 \o q2 \o q3 \o q4 \o q5) \subseteq S
        /\ Range(q2) \subseteq Range(q1 \o q2 \o q3 \o q4 \o q5)
    BY <2>3, <1>6, Join
  <2>5. /\ IsSeq(q1 \o q2 \o q3 \o q4 \o q5 \o q6)
        /\ Range(q1 \o q2 \o q3 \o q4 \o q5 \o q6) \subseteq S
        /\ Range(q2) \subseteq Range(q1 \o q2 \o q3 \o q4 \o q5 \o q6)
    BY <2>4, <1>7, Join
  <2>6. /\ IsSeq(q1 \o q2 \o q3 \o q4 \o q5 \o q6 \o q7)
        /\ Range(q1 \o q2 \o q3 \o q4 \o q5 \o q6 \o q7) \subseteq S
        /\ Range(q2) \subseteq Range(q1 \o q2 \o q3 \o q4 \o q5 \o q6 \o q7)
        /\ Range(q7) \subseteq Range(q1 \o q2 \o q3 \o q4 \o q5 \o q6 \o q7)
    BY <2>5, <1>8, Join
  <2>7. /\ IsSeq(q1 \o q2 \o q3 \o q4 \o q5 \o q6 \o q7 \o q8)
        /\ Range(q1 \o q2 \o q3 \o q4 \o q5 \o q6 \o q7 \o q8) \subseteq S
        /\ Range(q2) \subseteq Range(q1 \o q2 \o q3 \o q4 \o q5 \o q6 \o q7 \o q8)
        /\ Range(q7) \subseteq Range(q1 \o q2 \o q3 \o q4 \o q5 \o q6 \o q7 \o q8)
    BY <2>6, <1>9, Join
  <2> QED
    BY <2>7, <1>1, <1>10, Join
<1>12. ASSUME NEW s \in S
       PROVE  /\ s.op \in {"drop check", "rename column", "alter", "fill", "alter related", "add check"}
              /\ s.on = cluster
              /\ s.op # "alter related" => s.table = t
              /\ s.op = "rename column" => /\ s.column = old.column /\ s.to = new.column
                                           /\ old.column # new.column
              /\ s.op = "fill" => ~s.all /\ s.value \in {new.default, new.db_default}
              /\ s.op = "alter related" => s.type = new.type
  <2>7. \/ s = OnColumn("drop check", t, old.column) \/ s = OnColumn("add check", t, c)
        \/ s = Alter(t, c, FirstChanges(old, new)) \/ s = Alter(t, c, << <<"type", ColumnType(new)>> >>)
        \/ s = Alter(t, c, << <<"comment", new.comment>> >>) \/ s = Alter(t, c, << <<"remove default">> >>)
        \/ s = Fill(t, c, value, FALSE)
        \/ s = [op |-> "alter related", on |-> cluster, type |-> new.type]
        \/ s = [op |-> "rename column", on |-> cluster, table |-> t, column |-> old.column, to |-> c]
    OBVIOUS
  <2>8. s.op = "rename column" => old.column # c
    OBVIOUS
  <2> HIDE DEF S
  <2> DEFINE related_ == [op |-> "alter related", on |-> cluster, type |-> new.type]
             rename == [op |-> "rename column", on |-> cluster, table |-> t,
                        column |-> old.column, to |-> c]
  <2>1. /\ related_.op = "alter related" /\ related_.on = cluster /\ related_.type = new.type
        /\ rename.op = "rename column" /\ rename.on = cluster /\ rename.table = t
        /\ rename.column = old.column /\ rename.to = c
    OBVIOUS
  <2>2. \/ s = OnColumn("drop check", t, old.column) \/ s = OnColumn("add check", t, c)
        \/ s = Alter(t, c, FirstChanges(old, new)) \/ s = Alter(t, c, << <<"type", ColumnType(new)>> >>)
        \/ s = Alter(t, c, << <<"comment", new.comment>> >>) \/ s = Alter(t, c, << <<"remove default">> >>)
        \/ s = Fill(t, c, value, FALSE)
        \/ s = related_ \/ s = rename
    BY <2>7
  <2>4. value \in {new.default, new.db_default}
    OBVIOUS
  <2> HIDE DEF value, rename, related_
  <2>5. ASSUME NEW name, NEW x, s = OnColumn(name, t, x)
        PROVE  s.op = name /\ s.on = cluster /\ s.table = t
    BY <2>5, OnColumnParts
  <2>6. ASSUME NEW x, s = Alter(t, c, x)
        PROVE  s.op = "alter" /\ s.on = cluster /\ s.table = t
    BY <2>6, AlterParts
  <2>3. ASSUME NEW x, NEW all, s = Fill(t, c, x, all)
        PROVE  s.op = "fill" /\ s.on = cluster /\ s.table = t /\ s.all = all /\ s.value = x
    BY <2>3, FillParts
  <2>9. s = Fill(t, c, value, FALSE)
          => s.op = "fill" /\ s.on = cluster /\ s.table = t /\ s.all = FALSE /\ s.value = value
    BY <2>3, Zenon
  <2>10. ASSUME s = related_ \/ s = rename
         PROVE  \/ s.op = "alter related" /\ s.on = cluster /\ s.type = new.type
                \/ /\ s.op = "rename column" /\ s.on = cluster /\ s.table = t
                   /\ s.column = old.column /\ s.to = c
    BY <2>1, <2>10
  <2>11. \/ s.op \in {"drop check", "add check", "alter"} /\ s.on = cluster /\ s.table = t
         \/ s.op = "fill" /\ s.on = cluster /\ s.table = t /\ s.all = FALSE /\ s.value = value
         \/ s.op = "alter related" /\ s.on = cluster /\ s.type = new.type
         \/ /\ s.op = "rename column" /\ s.on = cluster /\ s.table = t
            /\ s.column = old.column /\ s.to = c
    <3>1. CASE s = OnColumn("drop check", t, old.column)
      BY <2>5, <3>1, Zenon
    <3>2. CASE s = OnColumn("add check", t, c)
      BY <2>5, <3>2, Zenon
    <3> QED
      BY <2>2, <2>6, <2>9, <2>10, <3>1, <3>2
  <2> QED
    BY <2>4, <2>8, <2>11
<1> HIDE DEF S, q2, q7
<1> QED
  BY <1>3, <1>8, <1>11, <1>12 DEF q, Alters

\* The column that a model declares.
ColumnIn(m) == IF m.field = NoField THEN {} ELSE {m.field.column}
\* An UPDATE of every row.
FillsAll(s) == s.op = "fill" /\ s.all

\* What a statement has to do with the model, the columns and the operation.
FitsIn(s, model, columns, operation) ==
    /\ s.op \in Structural \cup Others \cup {"alter related"}
    /\ s.op # "alter related" => s.table \in Table
    /\ s.op = "create" =>
         ColumnIn(model) = (IF s.columns = <<>> THEN {} ELSE {s.columns[1]})
    /\ s.op \in {"drop", "drop column"} => ColumnIn(model) = {}
    /\ s.op = "drop column" => columns \subseteq {s.column}
    /\ s.op = "add column" => ColumnIn(model) = {s.column} /\ s.definition.default # "zero"
    /\ s.op = "rename column" => ColumnIn(model) = {s.to} /\ columns \subseteq {s.column, s.to}
    /\ s.op = "fill" => s.value # "zero"
    /\ s.op = "alter related" =>
         s.on = cluster /\ (operation[1] = "alter field" => s.type = operation[3].type)
Fits(s) == FitsIn(s, project, ColumnsOf(server[Here]), last)

\* What may wait in deferred_sql.
DeferredStatement ==
    [op : {"add index", "add check"}, on : BOOLEAN, table : Table, column : Column]

\* The statements to come are of those, and there are some as long as the session
\* runs them.
Statements ==
    /\ IsSeq(todo) /\ \A s \in Range(todo) : Fits(s)
    /\ deferred \in Seq(DeferredStatement)
    /\ pc \in {"closed", "open", "running", "leaving", "refused", "broken"}
    /\ pc \in {"closed", "open"} => todo = <<>>
    /\ pc \in {"closed", "leaving"} => deferred = <<>>
    /\ pc \in {"running", "leaving"} => todo # <<>>

\* A model, with an index only on a field, and without a field once deleted.
IsModel(m) == m \in Model /\ (m.table = "none" => m.field = NoField) /\ (m.index => m.field # NoField)

\* The models of the migrations.
Projects == cluster \in BOOLEAN /\ IsModel(project) /\ IsModel(before)

\* The table at hand: it has values in a column only, and no rows when Distributed.
Tables ==
    /\ Here \in DOMAIN server
    /\ server[Here] = NoTable \/ IsTable(server[Here])
    /\ ColumnsOf(server[Here]) = {} => ValuesOf(server[Here]) = {}
    /\ Distributed => ~RowsOf(server[Here])

\* The statements to come make the columns what the model has.
Columns ==
    /\ \A i \in DOMAIN todo : todo[i].op = "add column" => i = 1 /\ ColumnsOf(server[Here]) = {}
    /\ pc # "closed" =>
         /\ \/ ColumnsOf(server[Here]) = ColumnIn(project)
            \/ \E s \in Range(todo) : s.op \in Structural
         /\ ~touched => ColumnsOf(server[Here]) = ColumnIn(before)
         /\ Repeatable(last) =>
              /\ ColumnIn(before) = ColumnIn(project)
              /\ \A s \in Range(todo) : s.op \notin Structural /\ ~FillsAll(s)
    /\ pc = "closed" /\ ("broken" \notin excuses \/ Repeatable(last))
         => ColumnsOf(server[Here]) = ColumnIn(project)

\* No statement to come replaces a value that a program stored.
Keeping ==
    kept => /\ "kept" \in ValuesOf(server[Here])
            /\ ColumnsOf(server[Here]) # {}
            /\ \A s \in Range(todo) : s.op # "add column" /\ ~FillsAll(s)

\* A zero is replaced, unless its operation broke and is not run again.
Filling ==
    /\ "zero" \in ValuesOf(server[Here]) =>
         \/ bare
         \/ touched /\ \E s \in Range(todo) : FillsAll(s)
         \/ pc = "closed" /\ "broken" \in excuses /\ ~Repeatable(last)
    /\ \A s \in Range(todo) :
         s.op = "add column" =>
           \/ bare \/ Distributed
           \/ s.definition.default # "none" \/ s.definition.type[2]
           \/ \E r \in Range(todo) : FillsAll(r)

\* An alteration that the related column must follow, and that it has followed.
Due(operation) ==
    /\ operation[1] = "alter field" /\ operation[3].primary_key
    /\ (~operation[2].primary_key \/ ColumnType(operation[2]) # ColumnType(operation[3]))
    /\ cluster = relCluster
Followed(type) == \A n \in Node : related[n] \in {"absent", type}

\* The related column follows, or its alteration is to come.
Related ==
    /\ ~relCluster => \A n \in Node \ {Here} : related[n] = "absent"
    /\ last[1] = "alter field" =>
         /\ pc # "closed" => deferred = <<>> /\ project.field = last[3]
         /\ ~FieldShouldBeAltered(last[2], last[3]) => ~touched /\ todo = <<>>
    /\ pc # "closed" /\ Due(last) /\ FieldShouldBeAltered(last[2], last[3]) =>
         \/ Followed(last[3].type)
         \/ \E s \in Range(todo) : s.op = "alter related"
    /\ pc = "closed" /\ excuses = {} /\ touched =>
         /\ last[1] = "alter field" => project.field = last[3]
         /\ Due(last) => Followed(last[3].type)
    /\ "broken" \in excuses => pc = "closed" /\ touched

\* The inductive invariant.
SchemaInv ==
    Statements /\ Projects /\ Tables /\ Columns /\ Keeping /\ Filling /\ Related /\ DeferredCurrent

-----------------------------------------------------------------------------
(* What the operations say to the server, and that it is sound.             *)

\* A field is not the missing one.
LEMMA FieldIsOne ==
    ASSUME NEW f \in Field
    PROVE  f # NoField /\ f.column \in Column
<1>1. f.column \in Column
  BY DEF Field
<1>2. NoField.column = "none" /\ "none" \notin Column
  BY SchemaAssumption DEF NoField
<1> QED
  BY <1>1, <1>2

\* The zero of a type is no default.
LEMMA NoZero ==
    ASSUME NEW f \in Field
    PROVE  f.default # "zero" /\ f.db_default # "zero"
BY SchemaAssumption DEF Field

\* CREATE TABLE makes the column that the model declares.
LEMMA CreatesColumn ==
    ASSUME NEW m \in Model
    PROVE  /\ Create(m).op = "create" /\ Create(m).table = m.table
           /\ ColumnIn(m) = (IF Create(m).columns = <<>> THEN {} ELSE {Create(m).columns[1]})
<1>1. Create(m).op = "create" /\ Create(m).table = m.table
      /\ Create(m).columns = IF m.field = NoField THEN <<>> ELSE <<m.field.column, ColumnOf(m.field)>>
  BY DEF Create
<1>2. CASE m.field = NoField
  BY <1>1, <1>2 DEF ColumnIn
<1>3. CASE m.field # NoField
  <2>1. Create(m).columns = <<m.field.column, ColumnOf(m.field)>>
    BY <1>1, <1>3
  <2>2. Create(m).columns # <<>> /\ Create(m).columns[1] = m.field.column
    BY <2>1
  <2> QED
    BY <1>1, <1>3, <2>2 DEF ColumnIn
<1> QED
  BY <1>2, <1>3

\* What an operation has to say, for the invariant to hold while it runs.
Sound(op, q, m, later) ==
    /\ IsModel(m)
    /\ IsSeq(q) /\ \A s \in Range(q) : FitsIn(s, m, ColumnsOf(server[Here]), op)
    /\ later \in Seq(DeferredStatement)
    /\ \A i \in DOMAIN later :
         Tracked(later[i]) => /\ m.field # NoField /\ later[i].table = m.table
                              /\ later[i].column = m.field.column
    /\ \A i \in DOMAIN q : q[i].op = "add column" => i = 1 /\ ColumnsOf(server[Here]) = {}
    /\ ColumnIn(m) = ColumnIn(project) \/ \E s \in Range(q) : s.op \in Structural
    /\ Repeatable(op) =>
         /\ ColumnIn(m) = ColumnIn(project)
         /\ \A s \in Range(q) : s.op \notin Structural /\ ~FillsAll(s)
    /\ \A s \in Range(q) : s.op = "add column" \/ FillsAll(s) => ColumnsOf(server[Here]) = {}
    /\ op[1] = "alter field" =>
         /\ deferred = <<>> => later = <<>>
         /\ m.field = op[3]
         /\ ~FieldShouldBeAltered(op[2], op[3]) => q = <<>>
         /\ Due(op) /\ FieldShouldBeAltered(op[2], op[3]) =>
              \E s \in Range(q) : s.op = "alter related"

\* Between operations the columns are the model's.
LEMMA Ready ==
    ASSUME SchemaInv, NEW op, NEW q, NEW m, NEW later, NEW why,
           Operate(op, q, m, later, why)
    PROVE  /\ ColumnsOf(server[Here]) = ColumnIn(project)
           /\ "zero" \in ValuesOf(server[Here]) => bare
           /\ todo = <<>>
<1>1. pc \in {"closed", "open"} /\ todo = <<>> /\ Range(todo) = {}
  BY DEF SchemaInv, Statements, Operate, Range
<1>2. pc = "closed" => "broken" \notin excuses \/ Repeatable(last)
  BY DEF Operate, Retry
<1> QED
  BY <1>1, <1>2 DEF SchemaInv, Columns, Filling

\* Beginning an operation with sound statements keeps the invariant.
LEMMA OperateKeeps ==
    ASSUME SchemaInv, NEW op, NEW q, NEW m, NEW later, NEW why,
           Operate(op, q, m, later, why), "broken" \notin why, Sound(op, q, m, later),
           "zero" \in ValuesOf(server[Here]) => bare',
           \A s \in Range(q) :
             s.op = "add column" =>
               \/ bare' \/ Distributed
               \/ s.definition.default # "none" \/ s.definition.type[2]
               \/ \E r \in Range(q) : FillsAll(r)
    PROVE  SchemaInv'
<1>1. /\ pc \in {"closed", "open"} /\ todo' = q /\ project' = m /\ deferred' = later
      /\ last' = (IF pc = "closed" THEN op ELSE NoOp)
      /\ before' = (IF pc = "closed" THEN project ELSE before)
      /\ pc' = (IF q = <<>> THEN "open" ELSE "running")
      /\ cluster' = cluster /\ relCluster' = relCluster /\ engine' = engine
      /\ server' = server /\ related' = related /\ kept' = kept
  BY DEF Operate, settings
<1>2. touched' = (Retry(op) \/ (pc = "open" /\ touched))
  BY DEF Operate
<1>3. NoOp[1] = "none"
  BY DEF NoOp
<1>4. Statements'
  <2>1. ASSUME NEW s \in Range(q) PROVE Fits(s)'
    <3>1. FitsIn(s, m, ColumnsOf(server[Here]), op)
      BY DEF Sound
    <3>2. FitsIn(s, m, ColumnsOf(server[Here]), NoOp)
      BY <3>1, <1>3 DEF FitsIn
    <3>3. FitsIn(s, m, ColumnsOf(server[Here]), last')
      BY <1>1, <3>1, <3>2
    <3> QED
      BY <1>1, <3>3 DEF Fits, FitsIn
  <2>2. IsSeq(q) /\ later \in Seq(DeferredStatement)
    BY DEF Sound
  <2> QED
    BY <1>1, <2>1, <2>2 DEF Statements, IsSeq
<1>5. Projects'
  BY <1>1 DEF SchemaInv, Projects, Sound, IsModel
<1>6. Tables'
  BY <1>1 DEF SchemaInv, Tables, Distributed
<1>7. Columns'
  <2>1. ColumnsOf(server[Here]) = ColumnIn(project)
    BY Ready
  <2>2. ColumnsOf(server[Here]) = ColumnIn(m) \/ \E s \in Range(q) : s.op \in Structural
    BY <2>1 DEF Sound
  <2>3. ~touched' => ColumnsOf(server[Here]) = ColumnIn(before')
    BY <1>1, <1>2, <2>1 DEF SchemaInv, Columns
  <2>4. ~Repeatable(NoOp)
    BY <1>3 DEF Repeatable
  <2>5. Repeatable(last') => last' = op /\ Repeatable(op) /\ before' = project
    BY <1>1, <2>4
  <2>6. Repeatable(last') => /\ ColumnIn(before') = ColumnIn(m)
                             /\ \A s \in Range(q) : s.op \notin Structural /\ ~FillsAll(s)
    BY <2>5 DEF Sound
  <2>7. \A i \in DOMAIN q : q[i].op = "add column" => i = 1 /\ ColumnsOf(server[Here]) = {}
    BY DEF Sound
  <2>8. pc' # "closed"
    BY <1>1
  <2>9. Repeatable(last)' <=> Repeatable(last')
    BY DEF Repeatable
  <2> QED
    BY <1>1, <2>2, <2>3, <2>6, <2>7, <2>8, <2>9 DEF Columns
<1>8. Keeping'
  BY <1>1 DEF SchemaInv, Keeping, Sound
<1>9. Filling'
  BY <1>1 DEF Filling, Distributed
<1>10. Related'
  <2>1. ASSUME last'[1] = "alter field"
        PROVE  last' = op /\ pc = "closed" /\ deferred = <<>> /\ later = <<>> /\ m.field = op[3]
    <3>1. last' = op /\ pc = "closed"
      BY <1>1, <1>3, <2>1
    <3>2. deferred = <<>>
      BY <3>1 DEF SchemaInv, Statements
    <3> QED
      BY <2>1, <3>1, <3>2 DEF Sound
  <2>2. ASSUME last'[1] = "alter field", ~FieldShouldBeAltered(op[2], op[3])
        PROVE  ~touched' /\ q = <<>>
    <3>1. last' = op /\ pc = "closed"
      BY <2>1, <2>2
    <3>2. q = <<>>
      BY <2>2, <3>1 DEF Sound
    <3>3. ~Retry(op)
      <4> SUFFICES ASSUME Retry(op) PROVE FALSE
        OBVIOUS
      <4>1. op = last /\ pc = "closed" /\ "broken" \in excuses
        BY DEF Retry
      <4>2. touched
        BY <4>1 DEF SchemaInv, Related
      <4> QED
        BY <2>2, <3>1, <4>1, <4>2 DEF SchemaInv, Related
    <3> QED
      BY <1>2, <3>1, <3>2, <3>3
  <2>3. ASSUME Due(last)', FieldShouldBeAltered(last'[2], last'[3])
        PROVE  \E s \in Range(q) : s.op = "alter related"
    <3>1. last'[1] = "alter field"
      BY <2>3 DEF Due
    <3>2. last' = op
      BY <2>1, <3>1
    <3>3. Due(op)
      BY <1>1, <2>3, <3>2 DEF Due
    <3> QED
      BY <2>3, <3>1, <3>2, <3>3 DEF Sound
  <2>4. pc' # "closed"
    BY <1>1
  <2>5. ~relCluster => \A n \in Node \ {Here} : related[n] = "absent"
    BY DEF SchemaInv, Related
  <2>7. "broken" \notin excuses'
    <3>1. excuses' \subseteq (IF pc = "closed" THEN {"check"} ELSE excuses) \cup why \cup {"check"}
      BY DEF Operate
    <3>2. pc # "closed" => "broken" \notin excuses
      BY DEF SchemaInv, Related
    <3> QED
      BY <3>1, <3>2
  <2>6. FieldShouldBeAltered(last[2], last[3])' <=> FieldShouldBeAltered(last'[2], last'[3])
    BY DEF FieldShouldBeAltered, InDatabase, Enum
  <2> QED
    BY <1>1, <2>1, <2>2, <2>3, <2>4, <2>5, <2>6, <2>7 DEF Related
<1>11. DeferredCurrent'
  BY <1>1 DEF DeferredCurrent, Sound, HasField
<1> QED
  BY <1>4, <1>5, <1>6, <1>7, <1>8, <1>9, <1>10, <1>11 DEF SchemaInv

\* Nothing that is tracked remains without the field it is for.
LEMMA DeferredOf ==
    ASSUME SchemaInv, NEW i \in DOMAIN deferred, Tracked(deferred[i])
    PROVE  HasField /\ deferred[i].table = project.table /\ deferred[i].column = project.field.column
BY DEF SchemaInv, DeferredCurrent

\* Only alterations are repeated, and only those of fields have a related column.
LEMMA NotAlteration ==
    ASSUME NEW op, op[1] # "alter field"
    PROVE  ~Repeatable(op) /\ ~Due(op)
BY DEF Repeatable, Due

\* create_model keeps the invariant.
LEMMA CreateModelKeeps ==
    ASSUME SchemaInv, NEW m \in Model, m.table \in Table, m.index => m.field # NoField, CreateModel(m)
    PROVE  SchemaInv'
<1> DEFINE op == <<"create model", m>>
           q == CreateModelSql(m)
           add == OnColumn("add index", m.table, m.field.column)
           later == IF m.index /\ engine = "MergeTree" THEN Append(deferred, add) ELSE deferred
<1>1. /\ project.table = "none" /\ Operate(op, q, m, later, {}) /\ bare' = FALSE
  BY DEF CreateModel
<1>2. ColumnsOf(server[Here]) = ColumnIn(project) /\ project.field = NoField
  BY <1>1, Ready DEF SchemaInv, Projects, IsModel
<1>3. ColumnsOf(server[Here]) = {} /\ ValuesOf(server[Here]) = {}
  BY <1>2 DEF SchemaInv, Tables, ColumnIn
<1>4. op[1] = "create model"
  OBVIOUS
<1>5. /\ IsSeq(q) /\ Create(m) \in Range(q)
      /\ \A s \in Range(q) : s = Create(m) \/ s = On("raise", m.table)
  BY CreateModelSays
<1>6. /\ On("raise", m.table).op = "raise" /\ On("raise", m.table).table = m.table
  BY DEF On
<1>7. /\ Create(m).op = "create" /\ Create(m).table = m.table
      /\ ColumnIn(m) = (IF Create(m).columns = <<>> THEN {} ELSE {Create(m).columns[1]})
  BY CreatesColumn
<1>8. ASSUME NEW i \in DOMAIN deferred PROVE ~Tracked(deferred[i])
  BY <1>2, DeferredOf DEF HasField
<1>9. /\ later \in Seq(DeferredStatement)
      /\ \A i \in DOMAIN later :
           Tracked(later[i]) => /\ m.field # NoField /\ later[i].table = m.table
                                /\ later[i].column = m.field.column
  <2>1. deferred \in Seq(DeferredStatement)
    BY DEF SchemaInv, Statements
  <2>2. CASE m.index /\ engine = "MergeTree"
    <3>1. m.field \in Field
      BY <2>2 DEF Model
    <3>2. /\ add \in DeferredStatement /\ add.table = m.table /\ add.column = m.field.column
      <4>1. cluster \in BOOLEAN
        BY DEF SchemaInv, Projects
      <4> QED
        BY <3>1, <4>1, FieldIsOne DEF DeferredStatement, OnColumn
    <3>3. later = Append(deferred, add)
      BY <2>2
    <3> HIDE DEF add, later
    <3>4. /\ later \in Seq(DeferredStatement)
          /\ \A i \in DOMAIN later : (i \in DOMAIN deferred /\ later[i] = deferred[i]) \/ later[i] = add
      BY <2>1, <3>2, <3>3
    <3> QED
      BY <2>2, <3>2, <3>4, <1>8
  <2>3. CASE ~(m.index /\ engine = "MergeTree")
    BY <2>1, <2>3, <1>8
  <2> QED
    BY <2>2, <2>3
<1> HIDE DEF op, q, later
<1>10. ~Repeatable(op) /\ ~Due(op)
  BY <1>4, NotAlteration
<1>11. m.table # "none"
  BY SchemaAssumption
<1>12. \A s \in Range(q) : s.op # "add column" /\ s.op # "alter related" /\ s.op # "fill"
                           /\ FitsIn(s, m, ColumnsOf(server[Here]), op)
  BY <1>5, <1>6, <1>7 DEF FitsIn, Structural, Others
<1>13. \A i \in DOMAIN q : q[i] \in Range(q)
  BY DEF Range
<1>14. Sound(op, q, m, later)
  BY <1>3, <1>4, <1>5, <1>7, <1>9, <1>10, <1>11, <1>12, <1>13 DEF Sound, IsModel, FillsAll, Structural
<1> QED
  BY <1>1, <1>3, <1>12, <1>14, OperateKeeps

\* delete_model drops the index statements deferred for the table.
LEMMA DeleteModelKeeps ==
    ASSUME SchemaInv, DeleteModel
    PROVE  SchemaInv'
<1> DEFINE op == <<"delete model">>
           q == <<On("drop", project.table)>>
           m == [table |-> "none", field |-> NoField, index |-> FALSE, constraint |-> FALSE]
           later == Unreferenced(deferred)
<1>1. /\ project.table # "none" /\ Operate(op, q, m, later, {}) /\ bare' = bare
  BY DEF DeleteModel
<1>2. m.field = NoField /\ IsModel(m) /\ ColumnIn(m) = {}
  BY DEF Model, IsModel, ColumnIn
<1>3. op[1] = "delete model"
  OBVIOUS
<1>4. IsSeq(q) /\ Range(q) = {On("drop", project.table)}
  BY Single
<1>5. On("drop", project.table).op = "drop" /\ On("drop", project.table).table = project.table
  BY DEF On
<1>6. project.table \in Table
  BY <1>1 DEF SchemaInv, Projects, IsModel, Model
<1>7. later \in Seq(DeferredStatement) /\ \A i \in DOMAIN later : ~Tracked(later[i])
  <2>1. deferred \in Seq(DeferredStatement)
    BY DEF SchemaInv, Statements
  <2> QED
    BY <2>1, UnreferencedRest
<1> HIDE DEF op, q, later, m
<1>8. ~Repeatable(op) /\ ~Due(op)
  BY <1>3, NotAlteration
<1>9. \A s \in Range(q) : s.op = "drop" /\ FitsIn(s, m, ColumnsOf(server[Here]), op)
  BY <1>2, <1>4, <1>5, <1>6 DEF FitsIn, Structural
<1>10. \A i \in DOMAIN q : q[i] \in Range(q)
  BY DEF Range
<1>11. Sound(op, q, m, later)
  BY <1>2, <1>3, <1>4, <1>5, <1>7, <1>8, <1>9, <1>10 DEF Sound, FillsAll, Structural
<1>12. "zero" \in ValuesOf(server[Here]) => bare'
  BY <1>1, Ready
<1> QED
  BY <1>1, <1>9, <1>11, <1>12, OperateKeeps

\* add_field keeps it: a fill follows the new column where there are rows.
LEMMA AddFieldKeeps ==
    ASSUME SchemaInv, NEW f \in Field, AddField(f)
    PROVE  SchemaInv'
<1> DEFINE op == <<"add field", f>>
           q == AddFieldSql(project.table, f)
           m == [project EXCEPT !.field = f]
           check == OnColumn("add check", project.table, f.column)
           later == IF f.check THEN Append(deferred, check) ELSE deferred
           add == AddColumn(project.table, f)
           fill == Fill(project.table, f.column, f.default, TRUE)
<1>1. /\ project.table # "none" /\ ~HasField /\ Operate(op, q, m, later, {})
      /\ bare' = (f.default = "none")
  BY DEF AddField
<1>2. ColumnsOf(server[Here]) = {} /\ ColumnIn(project) = {}
  BY <1>1, Ready DEF HasField, ColumnIn
<1>3. ValuesOf(server[Here]) = {}
  BY <1>2 DEF SchemaInv, Tables
<1>4. op[1] = "add field"
  OBVIOUS
<1>5. f # NoField /\ f.column \in Column
  BY FieldIsOne
<1>6. /\ project \in Model /\ project.table \in Table /\ cluster \in BOOLEAN
  BY <1>1 DEF SchemaInv, Projects, IsModel, Model
<1>7. /\ m \in Model /\ m.field = f /\ m.table = project.table
  BY <1>6 DEF Model
<1>8. IsModel(m) /\ ColumnIn(m) = {f.column}
  <2> HIDE DEF m
  <2> QED
    BY <1>1, <1>5, <1>7 DEF IsModel, ColumnIn
<1>9. /\ IsSeq(q) /\ add \in Range(q)
      /\ \A s \in Range(q) : s = add \/ s = fill
      /\ \A i \in DOMAIN q : q[i].op = "add column" => i = 1
      /\ f.db_default = "none" /\ f.default # "none" /\ ~Distributed => fill \in Range(q)
  BY AddFieldSays
<1>10. /\ add.op = "add column" /\ add.table = project.table /\ add.column = f.column
       /\ add.definition.default = f.db_default
       /\ fill.op = "fill" /\ fill.table = project.table /\ fill.value = f.default /\ fill.all = TRUE
  BY DEF AddColumn, ColumnOf, Fill
<1>11. ASSUME NEW i \in DOMAIN deferred PROVE ~Tracked(deferred[i])
  BY <1>1, DeferredOf
<1>12. /\ later \in Seq(DeferredStatement)
       /\ \A i \in DOMAIN later : ~Tracked(later[i])
  <2>1. deferred \in Seq(DeferredStatement)
    BY DEF SchemaInv, Statements
  <2>2. CASE f.check
    <3>1. check \in DeferredStatement /\ ~Tracked(check)
      BY <1>5, <1>6 DEF DeferredStatement, OnColumn, Tracked
    <3>2. later = Append(deferred, check)
      BY <2>2
    <3> HIDE DEF check, later
    <3>3. /\ later \in Seq(DeferredStatement)
          /\ \A i \in DOMAIN later : (i \in DOMAIN deferred /\ later[i] = deferred[i]) \/ later[i] = check
      BY <2>1, <3>1, <3>2
    <3> QED
      BY <3>1, <3>3, <1>11
  <2>3. CASE ~f.check
    BY <2>1, <2>3, <1>11
  <2> QED
    BY <2>2, <2>3
<1> HIDE DEF op, q, m, later, add, fill
<1>13. ~Repeatable(op) /\ ~Due(op)
  BY <1>4, NotAlteration
<1>14. \A s \in Range(q) : FitsIn(s, m, ColumnsOf(server[Here]), op)
  BY <1>2, <1>6, <1>8, <1>9, <1>10, NoZero DEF FitsIn, Structural, Others
<1>15. Sound(op, q, m, later)
  BY <1>2, <1>4, <1>8, <1>9, <1>10, <1>12, <1>13, <1>14 DEF Sound, Structural
<1>16. ASSUME NEW s \in Range(q), s.op = "add column"
       PROVE  \/ bare' \/ Distributed \/ s.definition.default # "none"
              \/ \E r \in Range(q) : FillsAll(r)
  <2>1. s = add
    BY <1>9, <1>10, <1>16
  <2> QED
    BY <2>1, <1>1, <1>9, <1>10 DEF FillsAll
<1> QED
  BY <1>1, <1>3, <1>15, <1>16, OperateKeeps

\* remove_field drops the index statements deferred for the column.
LEMMA RemoveFieldKeeps ==
    ASSUME SchemaInv, RemoveField
    PROVE  SchemaInv'
<1> DEFINE op == <<"remove field">>
           f == project.field
           q == RemoveFieldSql(project.table, f)
           m == [project EXCEPT !.field = NoField, !.index = FALSE]
           later == Unreferenced(deferred)
           drop == OnColumn("drop column", project.table, f.column)
           check == OnColumn("drop check", project.table, f.column)
<1>1. /\ HasField /\ Operate(op, q, m, later, {}) /\ bare' = bare
  BY DEF RemoveField
<1>2. /\ project \in Model /\ f \in Field /\ project.table # "none" /\ project.table \in Table
  BY <1>1 DEF SchemaInv, Projects, IsModel, Model, HasField
<1>3. m.field = NoField /\ IsModel(m) /\ ColumnIn(m) = {}
  BY <1>2 DEF Model, IsModel, ColumnIn
<1>4. op[1] = "remove field"
  OBVIOUS
<1>5. /\ IsSeq(q) /\ drop \in Range(q)
      /\ \A s \in Range(q) : s = drop \/ s = check
  BY <1>2, RemoveFieldSays
<1>6. /\ drop.op = "drop column" /\ drop.table = project.table /\ drop.column = f.column
      /\ check.op = "drop check" /\ check.table = project.table
  BY DEF OnColumn
<1>7. later \in Seq(DeferredStatement) /\ \A i \in DOMAIN later : ~Tracked(later[i])
  <2>1. deferred \in Seq(DeferredStatement)
    BY DEF SchemaInv, Statements
  <2> QED
    BY <2>1, UnreferencedRest
<1>8. ColumnsOf(server[Here]) = {f.column}
  BY <1>1, Ready DEF HasField, ColumnIn
<1> HIDE DEF op, q, later, m, f, drop, check
<1>9. ~Repeatable(op) /\ ~Due(op)
  BY <1>4, NotAlteration
<1>10. \A s \in Range(q) : s.op \notin {"add column", "fill"} /\ FitsIn(s, m, ColumnsOf(server[Here]), op)
  BY <1>2, <1>3, <1>5, <1>6, <1>8 DEF FitsIn, Structural, Others
<1>11. \A i \in DOMAIN q : q[i] \in Range(q)
  BY DEF Range
<1>12. Sound(op, q, m, later)
  BY <1>3, <1>4, <1>5, <1>6, <1>7, <1>9, <1>10, <1>11 DEF Sound, FillsAll, Structural
<1>13. "zero" \in ValuesOf(server[Here]) => bare'
  BY <1>1, Ready
<1> QED
  BY <1>1, <1>10, <1>12, <1>13, OperateKeeps

\* alter_field renames the column in the index statements that are deferred.
LEMMA AlterFieldKeeps ==
    ASSUME SchemaInv, NEW f \in Field, AlterField(f)
    PROVE  SchemaInv'
<1> DEFINE old == project.field
           op == <<"alter field", old, f>>
           q == When(FieldShouldBeAltered(old, f), AlterFieldSql(project.table, old, f))
           m == [project EXCEPT !.field = f]
           later == [i \in DOMAIN deferred |-> ColumnRenamed(deferred[i], old.column, f.column)]
           why == (IF old.null /\ ~f.null /\ ~FourWay(old, f) THEN {"null"} ELSE {})
                  \cup (IF f.primary_key /\ cluster # relCluster THEN {"cluster"} ELSE {})
<1>1. /\ HasField /\ bare' = bare
      /\ Operate(op, q, m, later, why)
  BY DEF AlterField
<1>0. "broken" \notin why
  OBVIOUS
<1> HIDE DEF why
<1>2. /\ project \in Model /\ old \in Field /\ project.table # "none" /\ project.table \in Table
  BY <1>1 DEF SchemaInv, Projects, IsModel, Model, HasField
<1>3. /\ m \in Model /\ m.field = f /\ m.table = project.table
  BY <1>2 DEF Model
<1>4. f # NoField /\ f.column \in Column /\ old # NoField
  BY <1>2, FieldIsOne
<1>5. IsModel(m) /\ ColumnIn(m) = {f.column} /\ ColumnIn(project) = {old.column}
  <2> HIDE DEF m
  <2> QED
    BY <1>2, <1>3, <1>4 DEF IsModel, ColumnIn
<1>6. op[1] = "alter field" /\ op[2] = old /\ op[3] = f
  OBVIOUS
<1>7. ColumnsOf(server[Here]) = {old.column}
  BY <1>1, <1>5, Ready
<1> DEFINE sql == AlterFieldSql(project.table, old, f)
<1>8. /\ IsSeq(sql)
      /\ \A s \in Range(sql) :
           /\ s.op \in {"drop check", "rename column", "alter", "fill", "alter related", "add check"}
           /\ s.on = cluster
           /\ s.op # "alter related" => s.table = project.table
           /\ s.op = "rename column" => /\ s.column = old.column /\ s.to = f.column
                                        /\ old.column # f.column
           /\ s.op = "fill" => ~s.all /\ s.value \in {f.default, f.db_default}
           /\ s.op = "alter related" => s.type = f.type
      /\ f.primary_key /\ (~old.primary_key \/ ColumnType(old) # ColumnType(f))
           => \E s \in Range(sql) : s.op = "alter related"
      /\ old.column # f.column => \E s \in Range(sql) : s.op = "rename column"
  <2>1. Alters(sql, project.table, old, f)
    BY <1>2, AlterFieldSays
  <2> HIDE DEF sql, old
  <2> QED
    BY <2>1 DEF Alters
<1>9. q = IF FieldShouldBeAltered(old, f) THEN sql ELSE <<>>
  BY DEF When
<1>10. IsSeq(<<>>) /\ Range(<<>>) = {}
  BY DEF IsSeq, Range
<1>11. /\ later \in Seq(DeferredStatement)
       /\ \A i \in DOMAIN later :
            Tracked(later[i]) => later[i].table = m.table /\ later[i].column = f.column
       /\ deferred = <<>> => later = <<>>
  <2>1. deferred \in Seq(DeferredStatement)
    BY DEF SchemaInv, Statements
  <2>2. ASSUME NEW i \in DOMAIN deferred
        PROVE  /\ ColumnRenamed(deferred[i], old.column, f.column) \in DeferredStatement
               /\ Tracked(ColumnRenamed(deferred[i], old.column, f.column))
                    => /\ ColumnRenamed(deferred[i], old.column, f.column).table = project.table
                       /\ ColumnRenamed(deferred[i], old.column, f.column).column = f.column
    <3>1. deferred[i] \in DeferredStatement
      BY <2>1
    <3>2. CASE Tracked(deferred[i])
      <4>1. deferred[i].table = project.table /\ deferred[i].column = old.column
        BY <3>2, DeferredOf
      <4>2. ColumnRenamed(deferred[i], old.column, f.column) = [deferred[i] EXCEPT !.column = f.column]
        BY <3>2, <4>1 DEF ColumnRenamed
      <4> QED
        BY <1>4, <3>1, <4>1, <4>2 DEF DeferredStatement
    <3>3. CASE ~Tracked(deferred[i])
      BY <3>1, <3>3 DEF ColumnRenamed
    <3> QED
      BY <3>2, <3>3
  <2>3. Len(deferred) \in Nat /\ DOMAIN deferred = 1..Len(deferred)
    BY <2>1
  <2>4. \A i \in DOMAIN later : i \in DOMAIN deferred /\ later[i] = ColumnRenamed(deferred[i], old.column, f.column)
    OBVIOUS
  <2>5. DOMAIN later = 1..Len(deferred) /\ later = [i \in 1..Len(deferred) |-> later[i]]
    BY <2>3
  <2> HIDE DEF later, old
  <2>6. later \in Seq(DeferredStatement)
    BY <2>2, <2>3, <2>4, <2>5
  <2>7. deferred = <<>> => later = <<>>
    BY <2>3, <2>5, <2>6
  <2> QED
    BY <1>3, <2>2, <2>4, <2>6, <2>7
<1> HIDE DEF q, later, m, sql
<1>12. /\ IsSeq(q) /\ Range(q) \subseteq Range(sql)
       /\ FieldShouldBeAltered(old, f) => q = sql
       /\ ~FieldShouldBeAltered(old, f) => q = <<>>
  BY <1>8, <1>9, <1>10
<1>13. ASSUME NEW s \in Range(q)
       PROVE  s.op \notin Structural \ {"rename column"} /\ ~FillsAll(s) /\ FitsIn(s, m, ColumnsOf(server[Here]), op)
  <2>1. s \in Range(sql)
    BY <1>12
  <2>2. s.op = "fill" => s.value # "zero" /\ ~s.all
    BY <1>8, <2>1, NoZero
  <2> HIDE DEF op, old
  <2> QED
    BY <1>2, <1>5, <1>6, <1>7, <1>8, <2>1, <2>2 DEF FitsIn, Structural, Others, FillsAll
<1>14. Repeatable(op) => old.column = f.column
  BY <1>6 DEF Repeatable
<1>15. ~FieldShouldBeAltered(old, f) => old.column = f.column
  <2>1. ASSUME old.column # f.column PROVE InDatabase(old) # InDatabase(f)
    <3>1. InDatabase(old).column = old.column /\ InDatabase(f).column = f.column
      BY <1>2 DEF InDatabase, Field
    <3> QED
      BY <2>1, <3>1
  <2> QED
    BY <2>1 DEF FieldShouldBeAltered
<1>16. old.column # f.column => \E s \in Range(q) : s.op = "rename column"
  BY <1>8, <1>12, <1>15
<1>17. \A i \in DOMAIN q : q[i] \in Range(q)
  BY DEF Range
<1>18. Sound(op, q, m, later)
  <2>1. Due(op) /\ FieldShouldBeAltered(old, f) => \E s \in Range(q) : s.op = "alter related"
    BY <1>6, <1>8, <1>12 DEF Due
  <2>2. ColumnIn(m) = ColumnIn(project) \/ \E s \in Range(q) : s.op \in Structural
    BY <1>5, <1>16 DEF Structural
  <2>3. Repeatable(op) =>
          /\ ColumnIn(m) = ColumnIn(project)
          /\ \A s \in Range(q) : s.op \notin Structural /\ ~FillsAll(s)
    BY <1>5, <1>8, <1>12, <1>13, <1>14
  <2>4. \A s \in Range(q) : s.op # "add column" /\ ~FillsAll(s)
    BY <1>13 DEF Structural
  <2>5. \A i \in DOMAIN later :
         Tracked(later[i]) => /\ m.field # NoField /\ later[i].table = m.table
                              /\ later[i].column = m.field.column
    BY <1>3, <1>4, <1>11
  <2> HIDE DEF op, old
  <2> QED
    BY <1>3, <1>5, <1>6, <1>11, <1>12, <1>13, <1>17, <2>1, <2>2, <2>3, <2>4, <2>5 DEF Sound
<1>19. "zero" \in ValuesOf(server[Here]) => bare'
  BY <1>1, Ready
<1>20. \A s \in Range(q) : s.op # "add column"
  BY <1>13 DEF Structural
<1> HIDE DEF op, old
<1> QED
  BY <1>0, <1>1, <1>18, <1>19, <1>20, OperateKeeps

\* alter_db_table renames the table in them.
LEMMA AlterTableKeeps ==
    ASSUME SchemaInv, NEW t \in Table, AlterTable(t)
    PROVE  SchemaInv'
<1> DEFINE op == <<"alter table", t>>
           rename == [op |-> "rename", on |-> cluster, table |-> project.table, to |-> t]
           q == <<rename>>
           m == [project EXCEPT !.table = t]
           later == [i \in DOMAIN deferred |-> TableRenamed(deferred[i], t)]
<1>1. /\ project.table # "none" /\ Operate(op, q, m, later, {}) /\ bare' = bare
  BY DEF AlterTable
<1>2. project \in Model /\ project.table \in Table /\ IsModel(project)
  BY <1>1 DEF SchemaInv, Projects, IsModel, Model
<1>3. t # "none"
  BY SchemaAssumption
<1>4. m.table = t /\ m.field = project.field /\ m.index = project.index /\ m \in Model
  BY <1>2 DEF Model
<1>5. IsModel(m) /\ ColumnIn(m) = ColumnIn(project)
  <2> HIDE DEF m
  <2> QED
    BY <1>2, <1>3, <1>4 DEF IsModel, ColumnIn
<1>6. op[1] = "alter table"
  OBVIOUS
<1>7. IsSeq(q) /\ Range(q) = {rename}
  BY Single
<1>8. rename.op = "rename" /\ rename.table = project.table
  OBVIOUS
<1>9. /\ later \in Seq(DeferredStatement)
      /\ \A i \in DOMAIN later :
           Tracked(later[i]) => /\ m.field # NoField /\ later[i].table = m.table
                                /\ later[i].column = m.field.column
  <2>1. deferred \in Seq(DeferredStatement)
    BY DEF SchemaInv, Statements
  <2>2. ASSUME NEW i \in DOMAIN deferred
        PROVE  /\ TableRenamed(deferred[i], t) \in DeferredStatement
               /\ Tracked(TableRenamed(deferred[i], t))
                    => /\ project.field # NoField /\ TableRenamed(deferred[i], t).table = t
                       /\ TableRenamed(deferred[i], t).column = project.field.column
    <3>1. deferred[i] \in DeferredStatement
      BY <2>1
    <3>2. CASE Tracked(deferred[i])
      <4>1. HasField /\ deferred[i].column = project.field.column
        BY <3>2, DeferredOf
      <4>2. TableRenamed(deferred[i], t) = [deferred[i] EXCEPT !.table = t]
        BY <3>2 DEF TableRenamed
      <4> QED
        BY <3>1, <4>1, <4>2 DEF DeferredStatement, HasField
    <3>3. CASE ~Tracked(deferred[i])
      BY <3>1, <3>3 DEF TableRenamed
    <3> QED
      BY <3>2, <3>3
  <2>3. Len(deferred) \in Nat /\ DOMAIN deferred = 1..Len(deferred)
    BY <2>1
  <2>4. \A i \in DOMAIN later : i \in DOMAIN deferred /\ later[i] = TableRenamed(deferred[i], t)
    OBVIOUS
  <2>5. DOMAIN later = 1..Len(deferred) /\ later = [i \in 1..Len(deferred) |-> later[i]]
    BY <2>3
  <2> HIDE DEF later, m
  <2>6. later \in Seq(DeferredStatement)
    BY <2>2, <2>3, <2>4, <2>5
  <2> QED
    BY <1>4, <2>2, <2>4, <2>6
<1> HIDE DEF op, q, m, later, rename
<1>10. ~Repeatable(op) /\ ~Due(op)
  BY <1>6, NotAlteration
<1>11. \A s \in Range(q) : s.op = "rename" /\ FitsIn(s, m, ColumnsOf(server[Here]), op)
  BY <1>2, <1>7, <1>8 DEF FitsIn, Others
<1>12. \A i \in DOMAIN q : q[i] \in Range(q)
  BY DEF Range
<1>13. Sound(op, q, m, later)
  BY <1>5, <1>6, <1>7, <1>9, <1>10, <1>11, <1>12 DEF Sound, FillsAll
<1>14. "zero" \in ValuesOf(server[Here]) => bare'
  BY <1>1, Ready
<1> QED
  BY <1>1, <1>11, <1>13, <1>14, OperateKeeps

\* An operation with one statement that leaves the columns alone.
LEMMA OneStatementKeeps ==
    ASSUME SchemaInv, NEW op, NEW s, NEW m, Operate(op, <<s>>, m, deferred, {}), bare' = bare,
           op[1] # "alter field", s.op \in Others \ {"fill"}, s.table \in Table,
           IsModel(m), m.field = project.field, m.table = project.table
    PROVE  SchemaInv'
<1> DEFINE q == <<s>>
<1>1. IsSeq(q) /\ Range(q) = {s}
  BY Single
<1>2. ~Repeatable(op) /\ ~Due(op)
  BY NotAlteration
<1> HIDE DEF q
<1>3. \A r \in Range(q) : r.op \in Others \ {"fill"} /\ FitsIn(r, m, ColumnsOf(server[Here]), op)
  BY <1>1 DEF FitsIn, Others
<1>4. \A i \in DOMAIN q : q[i] \in Range(q)
  BY DEF Range
<1>5. ColumnIn(m) = ColumnIn(project)
  BY DEF ColumnIn
<1>6. deferred \in Seq(DeferredStatement)
  BY DEF SchemaInv, Statements
<1>7. \A r \in Range(q) : r.op # "add column" /\ ~FillsAll(r)
  BY <1>3 DEF FillsAll, Others
<1>8. Sound(op, q, m, deferred)
  BY <1>1, <1>2, <1>3, <1>4, <1>5, <1>6, <1>7, DeferredOf DEF Sound, HasField
<1>9. "zero" \in ValuesOf(server[Here]) => bare'
  BY Ready
<1>10. Operate(op, q, m, deferred, {})
  BY DEF q
<1> QED
  BY <1>7, <1>8, <1>9, <1>10, OperateKeeps

\* add_index keeps the invariant.
LEMMA AddIndexKeeps ==
    ASSUME SchemaInv, AddIndex
    PROVE  SchemaInv'
<1> DEFINE op == <<"add index">>
           s == OnColumn("add index", project.table, project.field.column)
           m == [project EXCEPT !.index = TRUE]
<1>1. HasField /\ Operate(op, <<s>>, m, deferred, {}) /\ bare' = bare
  BY DEF AddIndex
<1>2. project \in Model /\ project.table \in Table
  BY <1>1 DEF SchemaInv, Projects, IsModel, Model, HasField
<1>3. m.table = project.table /\ m.field = project.field /\ m \in Model
  BY <1>2 DEF Model
<1>4. IsModel(m)
  BY <1>1, <1>2, <1>3 DEF IsModel, HasField, SchemaInv, Projects
<1>5. op[1] = "add index" /\ s.op = "add index" /\ s.table = project.table
  BY DEF OnColumn
<1> HIDE DEF op, s, m
<1> QED
  BY <1>1, <1>2, <1>3, <1>4, <1>5, OneStatementKeeps DEF Others

\* remove_index keeps it.
LEMMA RemoveIndexKeeps ==
    ASSUME SchemaInv, RemoveIndex
    PROVE  SchemaInv'
<1> DEFINE op == <<"remove index">>
           s == On("drop index", project.table)
           m == [project EXCEPT !.index = FALSE]
<1>1. project.index /\ Operate(op, <<s>>, m, deferred, {}) /\ bare' = bare
  BY DEF RemoveIndex
<1>2. project \in Model /\ project.table \in Table
  BY <1>1 DEF SchemaInv, Projects, IsModel, Model
<1>3. m.table = project.table /\ m.field = project.field /\ m \in Model /\ m.index = FALSE
  BY <1>2 DEF Model
<1>4. IsModel(m)
  BY <1>2, <1>3 DEF IsModel, SchemaInv, Projects
<1>5. op[1] = "remove index" /\ s.op = "drop index" /\ s.table = project.table
  BY DEF On
<1> HIDE DEF op, s, m
<1> QED
  BY <1>1, <1>2, <1>3, <1>4, <1>5, OneStatementKeeps DEF Others

\* add_constraint and remove_constraint keep it.
LEMMA SwitchConstraintKeeps ==
    ASSUME SchemaInv, SwitchConstraint
    PROVE  SchemaInv'
<1> DEFINE op == <<"switch constraint">>
           name == IF Distributed THEN "raise"
                   ELSE IF project.constraint THEN "drop constraint" ELSE "add constraint"
           s == On(name, project.table)
           m == [project EXCEPT !.constraint = ~@]
<1>1. project.table # "none" /\ Operate(op, <<s>>, m, deferred, {}) /\ bare' = bare
  BY DEF SwitchConstraint
<1>2. project \in Model /\ project.table \in Table
  BY <1>1 DEF SchemaInv, Projects, IsModel, Model
<1>3. /\ m.table = project.table /\ m.field = project.field /\ m \in Model
      /\ m.index = project.index
  BY <1>2 DEF Model
<1>4. IsModel(m)
  BY <1>2, <1>3 DEF IsModel, SchemaInv, Projects
<1>5. op[1] = "switch constraint" /\ s.op \in Others \ {"fill"} /\ s.table = project.table
  BY DEF On, Others
<1> HIDE DEF op, s, m
<1> QED
  BY <1>1, <1>2, <1>3, <1>4, <1>5, OneStatementKeeps

\* Nothing to execute.
LEMMA EmptyRange == IsSeq(<<>>) /\ Range(<<>>) = {} /\ DOMAIN <<>> = {}
BY DEF IsSeq, Range

\* Any model, created, with any rows, satisfies the invariant.
LEMMA InitSchema ==
    ASSUME Init
    PROVE  SchemaInv
<1>1. /\ project \in Model /\ project.index = FALSE /\ (project.table = "none" => project.field = NoField)
  BY DEF Init, Model
<1>2. IsModel(project) /\ before = project
  BY <1>1 DEF Init, IsModel
<1>3. /\ pc = "closed" /\ todo = <<>> /\ deferred = <<>> /\ last = NoOp /\ excuses = {}
      /\ touched = FALSE /\ kept = FALSE /\ bare = FALSE /\ cluster \in BOOLEAN
  BY DEF Init
<1>4. NoOp[1] = "none"
  BY DEF NoOp
<1>5. Here \in Node /\ Here \in Holding
  BY SchemaAssumption DEF Holding
<1>6. /\ DOMAIN server = Node
      /\ server[Here] = IF project.table = "none" THEN NoTable ELSE After(NoTable, Create(project))
  BY <1>5 DEF Init
<1>7. /\ server[Here] = NoTable \/ IsTable(server[Here])
      /\ ColumnsOf(server[Here]) = ColumnIn(project)
      /\ ValuesOf(server[Here]) = {} /\ ~RowsOf(server[Here])
  <2>1. CASE project.table = "none"
    BY <1>1, <1>6, <2>1 DEF ColumnsOf, ValuesOf, RowsOf, ColumnIn
  <2>2. CASE project.table # "none"
    <3> DEFINE s == Create(project)
    <3>1. /\ s.op = "create" /\ s.table = project.table
          /\ ColumnIn(project) = (IF s.columns = <<>> THEN {} ELSE {s.columns[1]})
      BY <1>1, CreatesColumn
    <3>2. project.table \in Table
      BY <1>1, <2>2 DEF Model
    <3> HIDE DEF s
    <3>3. Legal(NoTable, s) /\ s.op \in Structural
      BY <3>1 DEF Legal, Structural
    <3>4. server[Here] = After(NoTable, s)
      BY <1>6, <2>2 DEF s
    <3>5. /\ IsTable(server[Here])
          /\ RowsOf(server[Here]) => RowsOf(NoTable)
          /\ ColumnsOf(server[Here]) = (IF s.columns = <<>> THEN {} ELSE {s.columns[1]})
          /\ ValuesOf(server[Here]) = {}
      BY <3>1, <3>2, <3>3, <3>4, AfterTable
    <3> QED
      BY <3>1, <3>5 DEF RowsOf
  <2> QED
    BY <2>1, <2>2
<1>8. Statements
  BY <1>3, EmptyRange DEF Statements
<1>9. Projects /\ Tables
  BY <1>2, <1>3, <1>5, <1>6, <1>7 DEF Projects, Tables
<1>10. Columns
  BY <1>3, <1>7, EmptyRange DEF Columns
<1>11. Keeping /\ Filling
  BY <1>3, <1>7, EmptyRange DEF Keeping, Filling
<1>12. Related
  <2>1. ~relCluster => \A n \in Node \ {Here} : related[n] = "absent"
    BY DEF Init
  <2> QED
    BY <1>3, <1>4, <2>1 DEF Related
<1>13. DeferredCurrent
  BY <1>3, EmptyRange DEF DeferredCurrent
<1> QED
  BY <1>8, <1>9, <1>10, <1>11, <1>12, <1>13 DEF SchemaInv

\* Statements that were deferred fit whatever the session has made.
LEMMA DeferredFits ==
    ASSUME SchemaInv, NEW s \in Range(deferred)
    PROVE  Fits(s) /\ s.op \notin Structural /\ ~FillsAll(s) /\ s.op # "alter related"
<1>1. deferred \in Seq(DeferredStatement)
  BY DEF SchemaInv, Statements
<1>2. s \in DeferredStatement
  BY <1>1 DEF Range
<1>3. s.op \in {"add index", "add check"} /\ s.table \in Table
  BY <1>2 DEF DeferredStatement
<1> QED
  BY <1>3 DEF Fits, FitsIn, Structural, Others, FillsAll

\* The end of a session keeps the invariant, and executes what was deferred.
LEMMA LeaveKeeps ==
    ASSUME SchemaInv, Leave
    PROVE  SchemaInv'
<1>1. /\ pc = "open" /\ todo' = deferred /\ deferred' = <<>>
      /\ pc' = IF deferred = <<>> THEN "closed" ELSE "leaving"
      /\ cluster' = cluster /\ relCluster' = relCluster /\ engine' = engine
      /\ server' = server /\ related' = related /\ project' = project /\ before' = before
      /\ last' = last /\ excuses' = excuses /\ touched' = touched /\ kept' = kept /\ bare' = bare
  BY DEF Leave, settings, history
<1>2. todo = <<>> /\ deferred \in Seq(DeferredStatement)
  BY <1>1 DEF SchemaInv, Statements
<1>3. ColumnsOf(server[Here]) = ColumnIn(project)
  BY <1>1, <1>2, EmptyRange DEF SchemaInv, Columns
<1>4. "zero" \in ValuesOf(server[Here]) => bare
  BY <1>1, <1>2, EmptyRange DEF SchemaInv, Filling
<1>5. IsSeq(deferred)
  BY <1>2 DEF IsSeq, Range
<1>6. \A s \in Range(deferred) : /\ Fits(s)' /\ s.op \notin Structural /\ ~FillsAll(s)
                                 /\ s.op # "alter related"
  BY <1>1, DeferredFits DEF Fits, FitsIn
<1>7. \A i \in DOMAIN deferred : deferred[i] \in Range(deferred)
  BY DEF Range
<1>8. Statements'
  <2>1. IsSeq(todo)' /\ Range(todo)' = Range(deferred)
    BY <1>1, <1>5 DEF IsSeq, Range
  <2>2. deferred' \in Seq(DeferredStatement)
    BY <1>1
  <2>3. \A s \in Range(todo)' : Fits(s)'
    BY <1>6, <2>1
  <2> QED
    BY <1>1, <2>1, <2>2, <2>3 DEF Statements
<1>9. Projects' /\ Tables'
  BY <1>1 DEF SchemaInv, Projects, IsModel, Tables, Distributed
<1>10. Columns'
  <2>1. ~touched => ColumnsOf(server[Here]) = ColumnIn(before)
    BY <1>1 DEF SchemaInv, Columns
  <2>2. Repeatable(last) => ColumnIn(before) = ColumnIn(project)
    BY <1>1 DEF SchemaInv, Columns
  <2>3. Repeatable(last)' <=> Repeatable(last)
    BY <1>1 DEF Repeatable
  <2> QED
    BY <1>1, <1>3, <1>6, <1>7, <2>1, <2>2, <2>3 DEF Columns, Structural
<1>11. Keeping' /\ Filling'
  BY <1>1, <1>4, <1>6 DEF SchemaInv, Keeping, Filling, Structural
<1>12. Related'
  <2>1. /\ ~relCluster => \A n \in Node \ {Here} : related[n] = "absent"
        /\ last[1] = "alter field" =>
             /\ deferred = <<>> /\ project.field = last[3]
             /\ ~FieldShouldBeAltered(last[2], last[3]) => ~touched
        /\ Due(last) /\ FieldShouldBeAltered(last[2], last[3]) => Followed(last[3].type)
    BY <1>1, <1>2, EmptyRange DEF SchemaInv, Related
  <2>2. Due(last) => last[1] = "alter field"
    BY DEF Due
  <2>3. "broken" \notin excuses
    BY <1>1 DEF SchemaInv, Related
  <2>4. Due(last)' <=> Due(last)
    BY <1>1 DEF Due
  <2>5. FieldShouldBeAltered(last[2], last[3])' <=> FieldShouldBeAltered(last[2], last[3])
    BY <1>1 DEF FieldShouldBeAltered, InDatabase, Enum
  <2>6. Followed(last[3].type)' <=> Followed(last[3].type)
    BY <1>1 DEF Followed
  <2> QED
    BY <1>1, <2>1, <2>2, <2>3, <2>4, <2>5, <2>6 DEF Related
<1>13. DeferredCurrent'
  BY <1>1, EmptyRange DEF DeferredCurrent
<1> QED
  BY <1>8, <1>9, <1>10, <1>11, <1>12, <1>13 DEF SchemaInv

\* The value of a new column in rows that are there.
LEMMA InitialValues ==
    ASSUME NEW t, NEW d, "zero" \in Initial(t, d), d.default # "zero"
    PROVE  t.rows /\ d.default = "none" /\ ~d.type[2]
BY DEF Initial

\* An UPDATE changes nothing that it does not replace.
LEMMA FilledValues ==
    ASSUME NEW values, NEW s
    PROVE  /\ values = {} => Filled(values, s) = {}
           /\ "zero" \in Filled(values, s) /\ s.value # "zero" => "zero" \in values /\ ~s.all
           /\ "kept" \in values /\ ~s.all => "kept" \in Filled(values, s)
BY DEF Filled

\* A statement that changes the table.
LEMMA ExecuteEffect ==
    ASSUME SchemaInv, Execute, Head(todo).op # "alter related"
    PROVE  LET s == Head(todo) IN
           /\ server[Here] = NoTable \/ IsTable(server[Here])
           /\ Legal(server[Here], s) /\ server'[Here] = After(server[Here], s)
           /\ s.op \in Structural \cup Others /\ s.table \in Table
           /\ related' = related
<1> DEFINE s == Head(todo)
<1>1. IsSeq(todo) /\ todo # <<>>
  BY DEF SchemaInv, Statements, Execute
<1>2. s \in Range(todo)
  BY <1>1, Shorter
<1>3. Fits(s)
  BY <1>2 DEF SchemaInv, Statements
<1>4. Here \in Node /\ Here \in NodesOf(s)
  BY SchemaAssumption DEF NodesOf
<1>5. Possible(s) /\ related' = related
      /\ server' = [n \in Node |-> IF n \in NodesOf(s) THEN After(server[n], s) ELSE server[n]]
  BY DEF Execute
<1>6. Legal(server[Here], s)
  BY <1>4, <1>5 DEF Possible
<1>7. server'[Here] = After(server[Here], s)
  BY <1>4, <1>5
<1>8. s.op \in Structural \cup Others /\ s.table \in Table
  BY <1>3 DEF Fits, FitsIn
<1> QED
  BY <1>5, <1>6, <1>7, <1>8 DEF SchemaInv, Tables

\* A statement on the related table.
LEMMA ExecuteRelated ==
    ASSUME SchemaInv, Execute, Head(todo).op = "alter related"
    PROVE  /\ server' = server
           /\ ~relCluster => \A n \in Node \ {Here} : related'[n] = "absent"
           /\ Due(last) => Followed(last[3].type)'
<1> DEFINE s == Head(todo)
<1>1. IsSeq(todo) /\ todo # <<>>
  BY DEF SchemaInv, Statements, Execute
<1>2. s \in Range(todo)
  BY <1>1, Shorter
<1>3. Fits(s)
  BY <1>2 DEF SchemaInv, Statements
<1>4. s.on = cluster /\ (last[1] = "alter field" => s.type = last[3].type) /\ cluster \in BOOLEAN
  BY <1>3 DEF Fits, FitsIn, SchemaInv, Projects
<1>5. /\ server' = server /\ last' = last
      /\ related' = [n \in Node |-> IF n \in NodesOf(s) THEN s.type ELSE related[n]]
      /\ \A n \in NodesOf(s) : related[n] # "absent"
  BY DEF Execute, Possible
<1>6. ~relCluster => \A n \in Node \ {Here} : related[n] = "absent"
  BY DEF SchemaInv, Related
<1>7. NodesOf(s) = IF cluster THEN Node ELSE {Here}
  BY <1>4 DEF NodesOf
<1> HIDE DEF s
<1>8. ~relCluster => \A n \in Node \ {Here} : related'[n] = "absent"
  BY <1>5, <1>6
<1>9. ASSUME Due(last) PROVE Followed(last[3].type)'
  <2>1. s.type = last[3].type /\ cluster = relCluster
    BY <1>4, <1>9 DEF Due
  <2>2. \A n \in Node : related'[n] \in {"absent", s.type}
    <3>1. CASE cluster
      BY <1>5, <1>7, <3>1
    <3>2. CASE ~cluster
      <4>1. ASSUME NEW n \in Node PROVE related'[n] \in {"absent", s.type}
        <5>1. CASE n = Here
          BY <1>5, <1>7, <3>2, <5>1
        <5>2. CASE n # Here
          <6>1. ~relCluster
            BY <2>1, <3>2, Zenon
          <6>2. related'[n] = "absent"
            BY <1>8, <5>2, <6>1
          <6> QED
            BY <6>2
        <5> QED
          BY <5>1, <5>2
      <4> QED
        BY <4>1
    <3> QED
      BY <1>4, <3>1, <3>2
  <2> QED
    BY <1>5, <2>1, <2>2 DEF Followed
<1> QED
  BY <1>5, <1>8, <1>9

\* What a statement leaves of the table, with the model it fits.
LEMMA ExecuteTable ==
    ASSUME SchemaInv, Execute
    PROVE  LET s == Head(todo) IN
           /\ server'[Here] = NoTable \/ IsTable(server'[Here])
           /\ Here \in DOMAIN server'
           /\ ColumnsOf(server'[Here]) = {} => ValuesOf(server'[Here]) = {}
           /\ RowsOf(server'[Here]) => RowsOf(server[Here])
           /\ s.op \in Structural => ColumnsOf(server'[Here]) = ColumnIn(project)
           /\ s.op \notin Structural => ColumnsOf(server'[Here]) = ColumnsOf(server[Here])
<1> DEFINE s == Head(todo)
           t == server[Here]
           a == server'[Here]
<1>1. CASE s.op = "alter related"
  <2>1. server' = server
    BY <1>1, ExecuteRelated
  <2> QED
    BY <1>1, <2>1 DEF SchemaInv, Tables, Structural
<1>2. CASE s.op # "alter related"
  <2>1. /\ t = NoTable \/ IsTable(t)
        /\ Legal(t, s) /\ a = After(t, s)
        /\ s.op \in Structural \cup Others /\ s.table \in Table
    BY <1>2, ExecuteEffect
  <2>2. IsSeq(todo) /\ todo # <<>>
    BY DEF SchemaInv, Statements, Execute
  <2>3. Fits(s)
    BY <2>2, Shorter DEF SchemaInv, Statements
  <2>4. ColumnsOf(t) = {} => ValuesOf(t) = {}
    BY DEF SchemaInv, Tables
  <2>5. Here \in DOMAIN server'
    BY <1>2, SchemaAssumption DEF Execute
  <2>6. ASSUME s.op = "add column" PROVE ColumnsOf(t) = {}
    <3>1. todo[1] = s /\ 1 \in DOMAIN todo
      BY <2>2, Shorter
    <3> QED
      BY <2>6, <3>1 DEF SchemaInv, Columns
  <2> HIDE DEF s, t, a
  <2>7. /\ IF s.op = "drop" THEN a = NoTable ELSE IsTable(a)
        /\ RowsOf(a) => RowsOf(t)
    BY <2>1, AfterTable
  <2>8. /\ s.op = "create" => ColumnsOf(a) = IF s.columns = <<>> THEN {} ELSE {s.columns[1]}
        /\ s.op = "drop" => ColumnsOf(a) = {}
        /\ s.op = "add column" => ColumnsOf(a) = ColumnsOf(t) \cup {s.column}
        /\ s.op = "drop column" => ColumnsOf(a) = ColumnsOf(t) \ {s.column}
        /\ s.op = "rename column" => /\ ColumnsOf(a) = (ColumnsOf(t) \ {s.column}) \cup {s.to}
                                     /\ s.column \in ColumnsOf(t) /\ s.to \notin ColumnsOf(t)
        /\ s.op \in Others => ColumnsOf(a) = ColumnsOf(t)
    BY <2>1, AfterTable
  <2>9. /\ s.op \in {"create", "drop", "drop column"} => ValuesOf(a) = {}
        /\ s.op = "fill" => ValuesOf(a) = Filled(ValuesOf(t), s)
        /\ s.op \in (Others \ {"fill"}) \cup {"rename column"} => ValuesOf(a) = ValuesOf(t)
    BY <2>1, AfterTable
  <2>10. s.op \in Structural => ColumnsOf(a) = ColumnIn(project)
    BY <2>3, <2>6, <2>8 DEF Structural, Fits, FitsIn, t
  <2>11. s.op \notin Structural => ColumnsOf(a) = ColumnsOf(t)
    BY <2>1, <2>8
  <2>12. ColumnsOf(a) = {} => ValuesOf(a) = {}
    BY <2>1, <2>4, <2>8, <2>9, FilledValues DEF Structural, Others
  <2> QED
    BY <2>5, <2>7, <2>10, <2>11, <2>12 DEF s, t, a
<1> QED
  BY <1>1, <1>2

\* A statement keeps the values that programs stored.
LEMMA ExecuteKept ==
    ASSUME SchemaInv, Execute, kept'
    PROVE  "kept" \in ValuesOf(server'[Here]) /\ ColumnsOf(server'[Here]) # {}
<1> DEFINE s == Head(todo)
           t == server[Here]
           a == server'[Here]
<1>1. kept /\ s.op \notin {"drop", "drop column"}
  BY DEF Execute
<1>2. /\ "kept" \in ValuesOf(t) /\ ColumnsOf(t) # {}
      /\ \A r \in Range(todo) : r.op # "add column" /\ ~FillsAll(r)
  BY <1>1 DEF SchemaInv, Keeping
<1>3. IsSeq(todo) /\ todo # <<>>
  BY DEF SchemaInv, Statements, Execute
<1>4. s.op # "add column" /\ ~FillsAll(s)
  BY <1>2, <1>3, Shorter
<1>5. CASE s.op = "alter related"
  BY <1>2, <1>5, ExecuteRelated
<1>6. CASE s.op # "alter related"
  <2>1. /\ t = NoTable \/ IsTable(t)
        /\ Legal(t, s) /\ a = After(t, s)
        /\ s.op \in Structural \cup Others /\ s.table \in Table
    BY <1>6, ExecuteEffect
  <2> HIDE DEF s, t, a
  <2>2. /\ s.op = "create" => t = NoTable
        /\ s.op = "fill" => ValuesOf(a) = Filled(ValuesOf(t), s)
        /\ s.op \in (Others \ {"fill"}) \cup {"rename column"} => ValuesOf(a) = ValuesOf(t)
    BY <2>1, AfterTable
  <2>3. s.op # "create"
    BY <1>2, <2>2 DEF ColumnsOf
  <2>4. "kept" \in ValuesOf(a)
    <3>1. s.op = "fill" \/ s.op \in (Others \ {"fill"}) \cup {"rename column"}
      BY <1>1, <1>4, <2>1, <2>3 DEF Structural
    <3>2. CASE s.op = "fill"
      BY <1>2, <1>4, <2>2, <3>2, FilledValues DEF FillsAll
    <3>3. CASE s.op \in (Others \ {"fill"}) \cup {"rename column"}
      BY <1>2, <2>2, <3>3
    <3> QED
      BY <3>1, <3>2, <3>3
  <2>5. /\ s.op = "rename column" => ColumnsOf(a) = (ColumnsOf(t) \ {s.column}) \cup {s.to}
        /\ s.op \in Others => ColumnsOf(a) = ColumnsOf(t)
    BY <2>1, AfterTable
  <2>6. ColumnsOf(a) # {}
    BY <1>1, <1>2, <1>4, <2>1, <2>3, <2>5 DEF Structural
  <2> QED
    BY <2>4, <2>6 DEF a
<1> QED
  BY <1>5, <1>6

\* A statement leaves a zero only where one is to be replaced.
LEMMA ExecuteZero ==
    ASSUME SchemaInv, Execute, "zero" \in ValuesOf(server'[Here])
    PROVE  bare \/ \E r \in Range(Tail(todo)) : FillsAll(r)
<1> DEFINE s == Head(todo)
           t == server[Here]
           a == server'[Here]
<1>1. IsSeq(todo) /\ todo # <<>> /\ pc # "closed"
  BY DEF SchemaInv, Statements, Execute
<1>2. s \in Range(todo) /\ Range(todo) = {s} \cup Range(Tail(todo))
  BY <1>1, Shorter
<1>3. Fits(s)
  BY <1>2 DEF SchemaInv, Statements
<1>4. "zero" \in ValuesOf(t) => bare \/ \E r \in Range(todo) : FillsAll(r)
  BY <1>1 DEF SchemaInv, Filling
<1>5. ASSUME "zero" \in ValuesOf(t), ~FillsAll(s)
      PROVE  bare \/ \E r \in Range(Tail(todo)) : FillsAll(r)
  BY <1>2, <1>4, <1>5
<1>6. CASE s.op = "alter related"
  <2>1. server' = server /\ ~FillsAll(s)
    BY <1>6, ExecuteRelated DEF FillsAll
  <2> QED
    BY <1>5, <2>1
<1>7. CASE s.op # "alter related"
  <2>1. /\ t = NoTable \/ IsTable(t)
        /\ Legal(t, s) /\ a = After(t, s)
        /\ s.op \in Structural \cup Others /\ s.table \in Table
    BY <1>7, ExecuteEffect
  <2>2. "zero" \in ValuesOf(a)
    OBVIOUS
  <2>3. Distributed => ~RowsOf(t)
    BY DEF SchemaInv, Tables
  <2>4. ASSUME s.op = "add column"
        PROVE  /\ \/ bare \/ Distributed
                  \/ s.definition.default # "none" \/ s.definition.type[2]
                  \/ \E r \in Range(todo) : FillsAll(r)
               /\ s.definition.default # "zero"
    BY <1>2, <1>3, <2>4 DEF SchemaInv, Filling, Fits, FitsIn
  <2> HIDE DEF s, t, a
  <2>5. /\ s.op \in {"create", "drop", "drop column"} => ValuesOf(a) = {}
        /\ s.op = "fill" => ValuesOf(a) = Filled(ValuesOf(t), s)
        /\ s.op \in (Others \ {"fill"}) \cup {"rename column"} => ValuesOf(a) = ValuesOf(t)
    BY ONLY <2>1, AfterTable
  <2>9. s.op = "add column" => ValuesOf(a) = Initial(t, s.definition)
    BY ONLY <2>1, AfterTable
  <2>6. CASE s.op = "add column"
    <3>1. t.rows /\ s.definition.default = "none" /\ ~s.definition.type[2]
      BY <2>2, <2>4, <2>9, <2>6, InitialValues
    <3>2. IsTable(t)
      BY <2>1, <2>6, AfterTable
    <3>3. RowsOf(t)
      BY <3>1, <3>2, TableIsOne DEF RowsOf
    <3>4. ~FillsAll(s)
      BY <2>6 DEF FillsAll
    <3> QED
      BY <1>2, <2>3, <2>4, <2>6, <3>1, <3>3, <3>4
  <2>7. CASE s.op = "fill"
    <3>1. "zero" \in ValuesOf(t) /\ ~s.all
      BY <1>3, <2>2, <2>5, <2>7, FilledValues DEF Fits, FitsIn
    <3> QED
      BY <1>5, <3>1 DEF FillsAll
  <2>8. CASE s.op \notin {"add column", "fill"}
    <3>1. "zero" \in ValuesOf(t)
      BY <2>1, <2>2, <2>5, <2>8 DEF Structural
    <3> QED
      BY <1>5, <2>8, <3>1 DEF FillsAll
  <2> QED
    BY <2>6, <2>7, <2>8
<1> QED
  BY <1>6, <1>7

\* Executing a statement keeps the invariant.
LEMMA ExecuteKeeps ==
    ASSUME SchemaInv, Execute
    PROVE  SchemaInv'
<1> DEFINE s == Head(todo)
           rest == Tail(todo)
<1>1. /\ pc \in {"running", "leaving"} /\ todo' = rest /\ touched' = TRUE
      /\ pc' = IF Len(todo) > 1 THEN pc ELSE IF pc = "running" THEN "open" ELSE "closed"
      /\ cluster' = cluster /\ relCluster' = relCluster /\ engine' = engine
      /\ project' = project /\ before' = before /\ deferred' = deferred /\ last' = last
      /\ excuses' = excuses /\ bare' = bare /\ (kept' => kept)
  BY DEF Execute, settings
<1>2. IsSeq(todo) /\ todo # <<>>
  BY <1>1 DEF SchemaInv, Statements
<1>3. /\ IsSeq(rest) /\ Range(todo) = {s} \cup Range(rest)
      /\ rest = <<>> <=> ~(Len(todo) > 1)
      /\ s = todo[1] /\ 1 \in DOMAIN todo
  BY <1>2, Shorter
<1>4. ASSUME NEW r \in Range(rest) PROVE r.op # "add column"
  <2>1. PICK i \in DOMAIN rest : r = rest[i]
    BY DEF Range
  <2>2. i + 1 \in DOMAIN todo /\ r = todo[i + 1] /\ i + 1 # 1
    BY <1>2, <2>1, Shorter
  <2> QED
    BY <2>2 DEF SchemaInv, Columns
<1> HIDE DEF rest
<1>5. /\ s.op \in Structural => ColumnsOf(server'[Here]) = ColumnIn(project)
      /\ s.op \notin Structural => ColumnsOf(server'[Here]) = ColumnsOf(server[Here])
  BY ExecuteTable
<1>6. \A r \in Range(rest) : r \in Range(todo) /\ Fits(r)
  BY <1>3 DEF SchemaInv, Statements
<1>7. Statements'
  <2>1. ASSUME NEW r \in Range(rest) PROVE Fits(r)'
    <3>1. FitsIn(r, project, ColumnsOf(server[Here]), last)
      BY <1>6 DEF Fits
    <3>2. FitsIn(r, project, ColumnsOf(server'[Here]), last)
      <4>1. CASE s.op \in Structural
        BY <1>5, <3>1, <4>1 DEF FitsIn
      <4>2. CASE s.op \notin Structural
        BY <1>5, <3>1, <4>2
      <4> QED
        BY <4>1, <4>2
    <3> QED
      BY <1>1, <3>2 DEF Fits, FitsIn
  <2>2. IsSeq(todo)' /\ Range(todo)' = Range(rest)
    BY <1>1, <1>3 DEF IsSeq, Range
  <2>3. \A r \in Range(todo)' : Fits(r)'
    BY <2>1, <2>2
  <2>4. /\ deferred' \in Seq(DeferredStatement)
        /\ pc \in {"closed", "leaving"} => deferred = <<>>
    BY <1>1 DEF SchemaInv, Statements
  <2>5. /\ pc' \in {"closed", "open"} => rest = <<>>
        /\ pc' \in {"running", "leaving"} => rest # <<>>
        /\ pc' \in {"closed", "open", "running", "leaving", "refused", "broken"}
        /\ pc' \in {"closed", "leaving"} => pc = "leaving"
    BY <1>1, <1>3
  <2> QED
    BY <1>1, <2>2, <2>3, <2>4, <2>5 DEF Statements
<1>8. Projects'
  BY <1>1 DEF SchemaInv, Projects, IsModel
<1>9. Tables'
  BY <1>1, ExecuteTable DEF SchemaInv, Tables, Distributed
<1>10. Columns'
  <2>1. /\ \/ ColumnsOf(server[Here]) = ColumnIn(project)
           \/ \E r \in Range(todo) : r.op \in Structural
        /\ Repeatable(last) =>
             /\ ColumnIn(before) = ColumnIn(project)
             /\ \A r \in Range(todo) : r.op \notin Structural /\ ~FillsAll(r)
    BY <1>1 DEF SchemaInv, Columns
  <2>2. \/ ColumnsOf(server'[Here]) = ColumnIn(project)
        \/ \E r \in Range(rest) : r.op \in Structural
    BY <1>3, <1>5, <2>1
  <2>3. Repeatable(last) => \A r \in Range(rest) : r.op \notin Structural /\ ~FillsAll(r)
    BY <1>3, <2>1
  <2>4. \A i \in DOMAIN rest : rest[i] \in Range(rest)
    BY DEF Range
  <2>5. pc' = "closed" => rest = <<>> /\ Range(rest) = {}
    BY <1>1, <1>3, EmptyRange
  <2>6. Repeatable(last)' <=> Repeatable(last)
    BY <1>1 DEF Repeatable
  <2> QED
    BY <1>1, <1>4, <2>1, <2>2, <2>3, <2>4, <2>5, <2>6 DEF Columns
<1>11. Keeping'
  <2>1. ASSUME kept' PROVE \A r \in Range(rest) : r.op # "add column" /\ ~FillsAll(r)
    BY <1>1, <1>6, <2>1 DEF SchemaInv, Keeping
  <2> QED
    BY <1>1, <2>1, ExecuteKept DEF Keeping
<1>12. Filling'
  <2>1. "zero" \in ValuesOf(server'[Here]) => bare \/ \E r \in Range(rest) : FillsAll(r)
    BY ExecuteZero DEF rest
  <2> QED
    BY <1>1, <1>4, <2>1 DEF Filling
<1>13. Related'
  <2>1. /\ ~relCluster => \A n \in Node \ {Here} : related[n] = "absent"
        /\ last[1] = "alter field" =>
             /\ deferred = <<>> /\ project.field = last[3]
             /\ FieldShouldBeAltered(last[2], last[3])
        /\ Due(last) /\ FieldShouldBeAltered(last[2], last[3]) =>
             \/ Followed(last[3].type)
             \/ \E r \in Range(todo) : r.op = "alter related"
        /\ "broken" \notin excuses
    BY <1>1, <1>2 DEF SchemaInv, Related
  <2>2. ~relCluster => \A n \in Node \ {Here} : related'[n] = "absent"
    BY <2>1, ExecuteRelated, ExecuteEffect
  <2>3. Due(last) => last[1] = "alter field"
    BY DEF Due
  <2>4. Due(last)' <=> Due(last)
    BY <1>1 DEF Due
  <2>5. FieldShouldBeAltered(last[2], last[3])' <=> FieldShouldBeAltered(last[2], last[3])
    BY <1>1 DEF FieldShouldBeAltered, InDatabase, Enum
  <2>6. Due(last) => Followed(last[3].type)' \/ \E r \in Range(rest) : r.op = "alter related"
    <3>1. CASE s.op = "alter related"
      BY <3>1, ExecuteRelated
    <3>2. CASE s.op # "alter related"
      <4>1. related' = related
        BY <3>2, ExecuteEffect
      <4>2. Followed(last[3].type) => Followed(last[3].type)'
        BY <1>1, <4>1 DEF Followed
      <4> QED
        BY <1>3, <2>1, <2>3, <3>2, <4>2
    <3> QED
      BY <3>1, <3>2
  <2>7. pc' = "closed" => Range(rest) = {}
    BY <1>1, <1>3, EmptyRange
  <2>8. Followed(last[3].type)' <=> \A n \in Node : related'[n] \in {"absent", last'[3].type}
    BY DEF Followed
  <2> QED
    BY <1>1, <2>1, <2>2, <2>3, <2>4, <2>5, <2>6, <2>7, <2>8 DEF Related
<1>14. DeferredCurrent'
  BY <1>1 DEF SchemaInv, DeferredCurrent, HasField
<1> QED
  BY <1>7, <1>8, <1>9, <1>10, <1>11, <1>12, <1>13, <1>14 DEF SchemaInv

\* Definitions that depend on variables a step leaves alone.
LEMMA Unchanged ==
    ASSUME engine' = engine, cluster' = cluster, relCluster' = relCluster, last' = last,
           related' = related
    PROVE  /\ Distributed' <=> Distributed
           /\ Repeatable(last)' <=> Repeatable(last)
           /\ Due(last)' <=> Due(last)
           /\ FieldShouldBeAltered(last[2], last[3])' <=> FieldShouldBeAltered(last[2], last[3])
           /\ Followed(last[3].type)' <=> Followed(last[3].type)
<1>1. Distributed' <=> Distributed
  BY DEF Distributed
<1>2. Repeatable(last)' <=> Repeatable(last)
  BY DEF Repeatable
<1>3. Due(last)' <=> Due(last)
  BY DEF Due
<1>4. FieldShouldBeAltered(last[2], last[3])' <=> FieldShouldBeAltered(last[2], last[3])
  BY DEF FieldShouldBeAltered, InDatabase, Enum
<1>5. Followed(last[3].type)' <=> Followed(last[3].type)
  BY DEF Followed
<1> QED
  BY <1>1, <1>2, <1>3, <1>4, <1>5

\* A statement that is refused or that fails keeps it: nothing has changed yet.
LEMMA StoppedKeeps ==
    ASSUME SchemaInv, Refuse \/ Break
    PROVE  SchemaInv'
<1>1. /\ pc \in {"running", "leaving"} /\ pc' \in {"refused", "broken"}
      /\ engine' = engine /\ cluster' = cluster /\ relCluster' = relCluster
      /\ server' = server /\ related' = related /\ project' = project /\ before' = before
      /\ todo' = todo /\ deferred' = deferred /\ last' = last
      /\ excuses' = excuses /\ touched' = touched /\ kept' = kept /\ bare' = bare
  BY DEF Refuse, Break, settings, history
<1>2. Statements'
  <2>1. \A s \in Range(todo) : Fits(s)' <=> Fits(s)
    BY <1>1 DEF Fits, FitsIn
  <2>2. IsSeq(todo)' <=> IsSeq(todo)
    BY <1>1 DEF IsSeq
  <2> QED
    BY <1>1, <2>1, <2>2 DEF SchemaInv, Statements
<1>3. Projects' /\ Tables'
  BY <1>1, Unchanged DEF SchemaInv, Projects, IsModel, Tables
<1>4. Columns'
  BY <1>1, Unchanged DEF SchemaInv, Columns
<1>5. Keeping' /\ Filling'
  BY <1>1, Unchanged DEF SchemaInv, Keeping, Filling
<1>6. Related'
  BY <1>1, Unchanged DEF SchemaInv, Related
<1>7. DeferredCurrent'
  BY <1>1 DEF SchemaInv, DeferredCurrent, HasField
<1> QED
  BY <1>2, <1>3, <1>4, <1>5, <1>6, <1>7 DEF SchemaInv

\* A session that ends by an error keeps it, with what it had done.
LEMMA AbandonKeeps ==
    ASSUME SchemaInv, Abandon
    PROVE  SchemaInv'
<1>1. /\ pc \in {"refused", "broken"} /\ pc' = "closed"
      /\ todo' = <<>> /\ deferred' = <<>> /\ project' = before
      /\ excuses' = IF touched THEN excuses \cup {"broken"} ELSE excuses \cap {"check"}
      /\ engine' = engine /\ cluster' = cluster /\ relCluster' = relCluster
      /\ server' = server /\ related' = related /\ before' = before
      /\ last' = last /\ touched' = touched /\ kept' = kept /\ bare' = bare
  BY DEF Abandon, settings
<1>2. Statements'
  BY <1>1, EmptyRange DEF Statements, IsSeq
<1>3. Projects' /\ Tables'
  BY <1>1, Unchanged DEF SchemaInv, Projects, IsModel, Tables
<1>4. Columns'
  <2>1. ~touched => ColumnsOf(server[Here]) = ColumnIn(before)
    BY <1>1 DEF SchemaInv, Columns
  <2>2. Repeatable(last) => ColumnsOf(server[Here]) = ColumnIn(before)
    BY <1>1 DEF SchemaInv, Columns
  <2>3. "broken" \notin excuses' => ~touched
    BY <1>1
  <2> QED
    BY <1>1, <2>1, <2>2, <2>3, EmptyRange, Unchanged DEF Columns
<1>5. Keeping' /\ Filling'
  <2>1. "zero" \in ValuesOf(server[Here]) => bare \/ (touched /\ \E s \in Range(todo) : FillsAll(s))
    BY <1>1 DEF SchemaInv, Filling
  <2>2. touched => "broken" \in excuses'
    BY <1>1
  <2>3. Repeatable(last) => \A s \in Range(todo) : ~FillsAll(s)
    BY <1>1 DEF SchemaInv, Columns
  <2> QED
    BY <1>1, <2>1, <2>2, <2>3, EmptyRange, Unchanged DEF SchemaInv, Keeping, Filling
<1>6. Related'
  <2>1. excuses' = {} => ~touched
    BY <1>1
  <2>2. "broken" \in excuses' => touched
    BY <1>1
  <2> QED
    BY <1>1, <2>1, <2>2, EmptyRange, Unchanged DEF SchemaInv, Related
<1>7. DeferredCurrent'
  BY <1>1, EmptyRange DEF DeferredCurrent
<1> QED
  BY <1>2, <1>3, <1>4, <1>5, <1>6, <1>7 DEF SchemaInv

\* A row that a program inserts keeps it: the row has a value of its own, which
\* no statement to come replaces.
LEMMA InsertKeeps ==
    ASSUME SchemaInv, NEW v \in {"kept", "null"}, Insert(v)
    PROVE  SchemaInv'
<1> DEFINE t == server[Here]
           a == server'[Here]
           late == \E i \in DOMAIN todo : todo[i].op = "fill" /\ todo[i].all
<1>1. /\ ~Distributed /\ t # NoTable
      /\ server' = [server EXCEPT ![Here].rows = TRUE,
                                  ![Here].values = IF DOMAIN t.columns = {} THEN {} ELSE @ \cup {v}]
      /\ kept' = (kept \/ (v = "kept" /\ DOMAIN t.columns # {} /\ ~late))
      /\ excuses' = IF v = "null" /\ pc = "running" THEN excuses \cup {"null"} ELSE excuses
      /\ engine' = engine /\ cluster' = cluster /\ relCluster' = relCluster
      /\ related' = related /\ project' = project /\ before' = before
      /\ pc' = pc /\ todo' = todo /\ deferred' = deferred /\ last' = last
      /\ touched' = touched /\ bare' = bare
  BY DEF Insert, settings
<1>2. IsTable(t) /\ Here \in DOMAIN server
  BY <1>1 DEF SchemaInv, Tables
<1>3. a = [t EXCEPT !.rows = TRUE, !.values = IF DOMAIN t.columns = {} THEN {} ELSE @ \cup {v}]
      /\ Here \in DOMAIN server'
  BY <1>1, <1>2
<1>4. IsTable(a) /\ a.columns = t.columns
      /\ a.values = IF DOMAIN t.columns = {} THEN {} ELSE t.values \cup {v}
  <2> HIDE DEF a, t
  <2> QED
    BY <1>2, <1>3 DEF IsTable
<1>5. /\ ColumnsOf(a) = ColumnsOf(t)
      /\ ValuesOf(a) = IF ColumnsOf(t) = {} THEN {} ELSE ValuesOf(t) \cup {v}
  <2> HIDE DEF a, t
  <2> QED
    BY <1>1, <1>4, TableIsOne DEF ColumnsOf, ValuesOf
<1>6. (\E s \in Range(todo) : FillsAll(s)) => late
  BY DEF Range, FillsAll
<1>7. /\ "broken" \in excuses' <=> "broken" \in excuses
      /\ excuses' = {} => excuses = {}
  BY <1>1
<1>8. Statements'
  <2>1. \A s \in Range(todo) : Fits(s)' <=> Fits(s)
    BY <1>1, <1>5 DEF Fits, FitsIn
  <2>2. IsSeq(todo)' <=> IsSeq(todo)
    BY <1>1 DEF IsSeq
  <2> QED
    BY <1>1, <2>1, <2>2 DEF SchemaInv, Statements
<1>9. Projects'
  BY <1>1 DEF SchemaInv, Projects, IsModel
<1>10. Tables'
  BY <1>1, <1>3, <1>4, <1>5, Unchanged DEF Tables
<1>11. Columns'
  BY <1>1, <1>5, <1>7, Unchanged DEF SchemaInv, Columns
<1>12. Keeping'
  <2>1. CASE kept
    <3>1. /\ "kept" \in ValuesOf(t) /\ ColumnsOf(t) # {}
          /\ \A s \in Range(todo) : s.op # "add column" /\ ~FillsAll(s)
      BY <2>1 DEF SchemaInv, Keeping
    <3>2. "kept" \in ValuesOf(a) /\ ColumnsOf(a) # {}
      BY <1>5, <3>1
    <3> HIDE DEF a, t
    <3>3. "kept" \in ValuesOf(server[Here])' /\ ColumnsOf(server[Here])' # {}
      BY <3>2 DEF a, ColumnsOf, ValuesOf
    <3>4. \A s \in Range(todo') : s.op # "add column" /\ ~FillsAll(s)
      BY <1>1, <3>1
    <3> QED
      BY <3>3, <3>4 DEF Keeping, FillsAll
  <2>2. CASE ~kept /\ kept'
    <3>1. v = "kept" /\ ColumnsOf(t) # {} /\ ~late
      BY <1>1, <2>2 DEF ColumnsOf
    <3>2. \A i \in DOMAIN todo : todo[i].op # "add column"
      BY <3>1 DEF SchemaInv, Columns
    <3>3. \A s \in Range(todo) : s.op # "add column"
      BY <3>2 DEF Range
    <3>4. "kept" \in ValuesOf(a) /\ ColumnsOf(a) # {}
      BY <1>5, <3>1
    <3>5. \A s \in Range(todo) : s.op # "add column" /\ ~FillsAll(s)
      <4> HIDE DEF late
      <4> QED
        BY <1>6, <3>1, <3>3
    <3> HIDE DEF a, t, late
    <3>6. "kept" \in ValuesOf(server[Here])' /\ ColumnsOf(server[Here])' # {}
      BY <3>4 DEF a, ColumnsOf, ValuesOf
    <3>7. \A s \in Range(todo') : s.op # "add column" /\ ~FillsAll(s)
      BY <1>1, <3>5
    <3> QED
      BY <3>6, <3>7 DEF Keeping, FillsAll
  <2>3. CASE ~kept'
    BY <2>3 DEF Keeping
  <2> QED
    BY <2>1, <2>2, <2>3
<1>13. Filling'
  <2>1. "zero" \in ValuesOf(a) => "zero" \in ValuesOf(t)
    BY <1>5
  <2> HIDE DEF a, t
  <2>2. "zero" \in ValuesOf(server'[Here]) => "zero" \in ValuesOf(server[Here])
    BY <2>1 DEF a, t
  <2> QED
    BY <1>1, <1>7, <2>2, Unchanged DEF SchemaInv, Filling
<1>14. Related'
  BY <1>1, <1>7, Unchanged DEF SchemaInv, Related
<1>15. DeferredCurrent'
  BY <1>1 DEF SchemaInv, DeferredCurrent, HasField
<1> QED
  BY <1>8, <1>9, <1>10, <1>11, <1>12, <1>13, <1>14, <1>15 DEF SchemaInv

\* So does a step that changes nothing.
LEMMA StutterKeeps ==
    ASSUME SchemaInv, UNCHANGED vars
    PROVE  SchemaInv'
<1>1. /\ engine' = engine /\ cluster' = cluster /\ relCluster' = relCluster
      /\ server' = server /\ related' = related /\ project' = project /\ before' = before
      /\ pc' = pc /\ todo' = todo /\ deferred' = deferred /\ last' = last
      /\ excuses' = excuses /\ touched' = touched /\ kept' = kept /\ bare' = bare
  BY DEF vars, settings, history
<1>2. Statements'
  <2>1. \A s \in Range(todo) : Fits(s)' <=> Fits(s)
    BY <1>1 DEF Fits, FitsIn
  <2>2. IsSeq(todo)' <=> IsSeq(todo)
    BY <1>1 DEF IsSeq
  <2> QED
    BY <1>1, <2>1, <2>2 DEF SchemaInv, Statements
<1>3. Projects' /\ Tables'
  BY <1>1, Unchanged DEF SchemaInv, Projects, IsModel, Tables
<1>4. Columns'
  BY <1>1, Unchanged DEF SchemaInv, Columns
<1>5. Keeping' /\ Filling'
  BY <1>1, Unchanged DEF SchemaInv, Keeping, Filling
<1>6. Related'
  BY <1>1, Unchanged DEF SchemaInv, Related
<1>7. DeferredCurrent'
  BY <1>1 DEF SchemaInv, DeferredCurrent, HasField
<1> QED
  BY <1>2, <1>3, <1>4, <1>5, <1>6, <1>7 DEF SchemaInv

(***************************************************************************)
(* In every state of every migration, whatever the fields, however many    *)
(* operations and failures, and with programs that insert rows at any time: the *)
(* statements to come fit the table, make its column the model's, fill what is *)
(* to be filled and leave what programs stored.                            *)
(***************************************************************************)
THEOREM SchemaInvAlways == Spec => []SchemaInv
<1>1. Init => SchemaInv
  BY InitSchema
<1>2. ASSUME SchemaInv, [Next]_vars PROVE SchemaInv'
  <2>1. ASSUME NEW t \in Table, NEW f \in Field \cup {NoField}, NEW i \in BOOLEAN, NEW c \in BOOLEAN,
               i => f # NoField,
               CreateModel([table |-> t, field |-> f, index |-> i, constraint |-> c])
        PROVE  SchemaInv'
    <3> DEFINE m == [table |-> t, field |-> f, index |-> i, constraint |-> c]
    <3>1. m \in Model /\ m.table \in Table /\ (m.index => m.field # NoField)
      BY <2>1 DEF Model
    <3>2. CreateModel(m)
      BY <2>1
    <3> HIDE DEF m
    <3> QED
      BY <1>2, <3>1, <3>2, CreateModelKeeps
  <2>2. ASSUME NEW f \in Field, AddField(f) \/ AlterField(f) PROVE SchemaInv'
    BY <1>2, <2>2, AddFieldKeeps, AlterFieldKeeps
  <2>3. ASSUME NEW t \in Table, AlterTable(t) PROVE SchemaInv'
    BY <1>2, <2>3, AlterTableKeeps
  <2>4. CASE DeleteModel
    BY <1>2, <2>4, DeleteModelKeeps
  <2>5. CASE RemoveField
    BY <1>2, <2>5, RemoveFieldKeeps
  <2>6. CASE AddIndex
    BY <1>2, <2>6, AddIndexKeeps
  <2>7. CASE RemoveIndex
    BY <1>2, <2>7, RemoveIndexKeeps
  <2>8. CASE SwitchConstraint
    BY <1>2, <2>8, SwitchConstraintKeeps
  <2>9. CASE Leave
    BY <1>2, <2>9, LeaveKeeps
  <2>10. CASE Execute
    BY <1>2, <2>10, ExecuteKeeps
  <2>11. CASE Refuse \/ Break
    BY <1>2, <2>11, StoppedKeeps
  <2>12. CASE Abandon
    BY <1>2, <2>12, AbandonKeeps
  <2>13. ASSUME NEW v \in {"kept", "null"}, Insert(v) PROVE SchemaInv'
    BY <1>2, <2>13, InsertKeeps
  <2>14. CASE UNCHANGED vars
    BY <1>2, <2>14, StutterKeeps
  <2> QED
    BY <1>2, <2>1, <2>2, <2>3, <2>4, <2>5, <2>6, <2>7, <2>8, <2>9, <2>10, <2>11, <2>12, <2>13, <2>14
       DEF Next
<1> QED
  BY <1>1, <1>2, PTL DEF Spec

(***************************************************************************)
(* A statement that waits in deferred_sql and that can be found again names the *)
(* table and the column that the model has now, after any renaming and removal *)
(* (rename_table_references, rename_column_references, remove_field and    *)
(* delete_model of the schema editor).                                     *)
(***************************************************************************)
THEOREM DeferredCurrentAlways == Spec => []DeferredCurrent
<1>1. SchemaInv => DeferredCurrent
  BY DEF SchemaInv
<1> QED
  BY <1>1, SchemaInvAlways, PTL

(***************************************************************************)
(* No operation loses a value that a program stored, as long as the column is *)
(* there: not the UPDATE of _alter_column_null_sql nor the one of add_field, and *)
(* not the operation that runs again after one that failed.                *)
(***************************************************************************)
THEOREM ValuesKeptAlways == Spec => []ValuesKept
<1>1. SchemaInv => ValuesKept
  BY DEF SchemaInv, Keeping, ValuesKept, ValuesOf
<1> QED
  BY <1>1, SchemaInvAlways, PTL

(***************************************************************************)
(* Once a session is complete the rows from before a field have its default and *)
(* not the zero of its type, unless the column was added without a default *)
(* (add_field of the schema editor).                                       *)
(***************************************************************************)
THEOREM BackfilledAlways == Spec => []Backfilled
<1>1. ASSUME SchemaInv PROVE Backfilled
  <2>1. pc = "closed" => Range(todo) = {}
    BY <1>1, EmptyRange DEF SchemaInv, Statements
  <2> QED
    BY <1>1, <2>1 DEF SchemaInv, Filling, Backfilled, ValuesOf
<1> QED
  BY <1>1, SchemaInvAlways, PTL

(***************************************************************************)
(* Once an alteration of a primary key is complete, the column of the related *)
(* model has its type on every node (rels_to_update of _alter_field).      *)
(***************************************************************************)
THEOREM RelatedFollowsAlways == Spec => []RelatedFollows
<1>1. ASSUME SchemaInv PROVE RelatedFollows
  <2> SUFFICES ASSUME pc = "closed", excuses = {}, cluster = relCluster, last[1] = "alter field",
                      touched, project.field.primary_key,
                      ~last[2].primary_key \/ ColumnType(last[2]) # ColumnType(last[3])
               PROVE  \A n \in Node : related[n] \in {"absent", project.field.type}
    BY DEF RelatedFollows
  <2>1. last[3].primary_key
    BY <1>1 DEF SchemaInv, Related
  <2>2. Due(last)
    BY <2>1 DEF Due
  <2>3. Followed(last[3].type) /\ project.field = last[3]
    BY <1>1, <2>2 DEF SchemaInv, Related
  <2> QED
    BY <2>3 DEF Followed
<1> QED
  BY <1>1, SchemaInvAlways, PTL

-----------------------------------------------------------------------------
(* What the statements to come make of a table, one after the other.       *)

\* A table without its rows: what the statements need and change of it, but for
\* the NULLs in it.
Bare(t) == IF t = NoTable THEN NoTable ELSE [t EXCEPT !.rows = FALSE, !.values = {}]

\* Statements that leave the table alone: one of them never executes.
Aside(s) == s.op \in {"raise", "alter related"}
Fine(t, s) == Aside(s) \/ Legal(t, s)
Made(t, s) == IF Aside(s) THEN t ELSE After(t, s)

\* The statements q, one after the other, make u of t.
Runs(t, q, u) ==
    \E f : /\ f[1] = t /\ f[Len(q) + 1] = u
           /\ \A i \in 1..Len(q) : Fine(f[i], q[i]) /\ f[i + 1] = Made(f[i], q[i])

\* No statement makes nothing.
LEMMA RunsNone ==
    ASSUME NEW t, NEW u
    PROVE  Runs(t, <<>>, u) <=> u = t
<1>1. ASSUME Runs(t, <<>>, u) PROVE u = t
  BY <1>1 DEF Runs
<1>2. ASSUME u = t PROVE Runs(t, <<>>, u)
  <2> DEFINE f == [i \in 1..1 |-> t]
  <2>1. /\ f[1] = t /\ f[Len(<<>>) + 1] = u
        /\ \A i \in 1..Len(<<>>) : Fine(f[i], <<>>[i]) /\ f[i + 1] = Made(f[i], <<>>[i])
    BY <1>2
  <2> HIDE DEF f
  <2> QED
    BY <2>1 DEF Runs
<1> QED
  BY <1>1, <1>2

\* One statement.
LEMMA RunsOne ==
    ASSUME NEW t, NEW s, Fine(t, s)
    PROVE  Runs(t, <<s>>, Made(t, s))
<1> DEFINE f == [i \in 1..2 |-> IF i = 1 THEN t ELSE Made(t, s)]
<1>1. /\ f[1] = t /\ f[Len(<<s>>) + 1] = Made(t, s)
      /\ \A i \in 1..Len(<<s>>) : Fine(f[i], <<s>>[i]) /\ f[i + 1] = Made(f[i], <<s>>[i])
  BY DEF Fine, Made
<1> HIDE DEF f
<1> QED
  BY <1>1 DEF Runs

\* Some statements and then others.
LEMMA RunsThen ==
    ASSUME NEW t, NEW p, NEW u, NEW q, NEW v, IsSeq(p), IsSeq(q), Runs(t, p, u), Runs(u, q, v)
    PROVE  Runs(t, p \o q, v)
<1>1. PICK g : /\ g[1] = t /\ g[Len(p) + 1] = u
               /\ \A i \in 1..Len(p) : Fine(g[i], p[i]) /\ g[i + 1] = Made(g[i], p[i])
  BY DEF Runs
<1>2. PICK h : /\ h[1] = u /\ h[Len(q) + 1] = v
               /\ \A i \in 1..Len(q) : Fine(h[i], q[i]) /\ h[i + 1] = Made(h[i], q[i])
  BY DEF Runs
<1> DEFINE m == Len(p)
           n == Len(q)
           r == p \o q
           f == [i \in 1..(m + n + 1) |-> IF i <= m + 1 THEN g[i] ELSE h[i - m]]
<1>3. m \in Nat /\ n \in Nat
  BY DEF IsSeq
<1>4. Len(r) = m + n /\ \A i \in 1..(m + n) : r[i] = IF i <= m THEN p[i] ELSE q[i - m]
  BY <1>3 DEF IsSeq
<1> HIDE DEF r, m, n
<1>5. f[1] = t
  BY <1>1, <1>3
<1>6. f[m + n + 1] = v
  <2>1. CASE n = 0
    BY <1>1, <1>2, <1>3, <2>1 DEF m, n
  <2>2. CASE n # 0
    <3>1. m + n + 1 \in 1..(m + n + 1) /\ ~(m + n + 1 <= m + 1) /\ (m + n + 1) - m = n + 1
      BY <1>3, <2>2
    <3>2. f[m + n + 1] = h[(m + n + 1) - m]
      BY <3>1
    <3> QED
      BY <1>2, <3>1, <3>2 DEF n
  <2> QED
    BY <2>1, <2>2
<1>7. ASSUME NEW i \in 1..(m + n) PROVE Fine(f[i], r[i]) /\ f[i + 1] = Made(f[i], r[i])
  <2>1. CASE i <= m
    <3>1. f[i] = g[i] /\ f[i + 1] = g[i + 1] /\ r[i] = p[i] /\ i \in 1..m
      BY <1>3, <1>4, <2>1
    <3> HIDE DEF f
    <3> QED
      BY <1>1, <3>1 DEF m
  <2>2. CASE i > m
    <3>1. i - m \in 1..n /\ r[i] = q[i - m]
      BY <1>3, <1>4, <2>2
    <3>2. f[i] = h[i - m]
      <4>1. CASE i = m + 1
        <5>1. f[i] = g[m + 1] /\ i - m = 1
          BY <1>3, <4>1
        <5> HIDE DEF f
        <5> QED
          BY <1>1, <1>2, <5>1 DEF m
      <4>2. CASE i # m + 1
        BY <1>3, <2>2, <4>2
      <4> QED
        BY <4>1, <4>2
    <3>3. f[i + 1] = h[(i - m) + 1]
      <4>1. i + 1 \in 1..(m + n + 1) /\ ~(i + 1 <= m + 1) /\ (i + 1) - m = (i - m) + 1
        BY <1>3, <2>2
      <4>2. f[i + 1] = h[(i + 1) - m]
        BY <4>1
      <4> HIDE DEF f
      <4> QED
        BY <4>1, <4>2
    <3> HIDE DEF f
    <3> QED
      BY <1>2, <3>1, <3>2, <3>3 DEF n
  <2> QED
    BY <1>3, <2>1, <2>2
<1> HIDE DEF f
<1> QED
  BY <1>4, <1>5, <1>6, <1>7 DEF Runs, r

\* A statement that is issued on a condition.
LEMMA RunsWhen ==
    ASSUME NEW t, NEW c \in BOOLEAN, NEW s, c => Fine(t, s)
    PROVE  Runs(t, When(c, <<s>>), IF c THEN Made(t, s) ELSE t)
<1>1. CASE c
  BY <1>1, RunsOne DEF When
<1>2. CASE ~c
  <2>1. Runs(t, <<>>, t)
    BY RunsNone
  <2> QED
    BY <1>2, <2>1 DEF When
<1> QED
  BY <1>1, <1>2

\* The first statement, and the rest.
LEMMA RunsStep ==
    ASSUME NEW t, NEW q, NEW u, IsSeq(q), q # <<>>, Runs(t, q, u)
    PROVE  Fine(t, Head(q)) /\ Runs(Made(t, Head(q)), Tail(q), u)
<1>1. PICK g : /\ g[1] = t /\ g[Len(q) + 1] = u
               /\ \A i \in 1..Len(q) : Fine(g[i], q[i]) /\ g[i + 1] = Made(g[i], q[i])
  BY DEF Runs
<1> DEFINE m == Len(q)
           r == Tail(q)
           f == [i \in 1..m |-> g[i + 1]]
<1>2. m \in Nat /\ m # 0 /\ 1 \in 1..m
  BY DEF IsSeq
<1>3. Len(r) = m - 1 /\ Head(q) = q[1] /\ \A i \in 1..(m - 1) : r[i] = q[i + 1]
  BY <1>2 DEF IsSeq
<1> HIDE DEF r, m
<1>4. Fine(t, Head(q)) /\ g[2] = Made(t, Head(q))
  <2>1. Fine(g[1], q[1]) /\ g[1 + 1] = Made(g[1], q[1])
    BY <1>1, <1>2 DEF m
  <2>2. 1 + 1 = 2
    OBVIOUS
  <2> QED
    BY <1>1, <1>3, <2>1, <2>2
<1>5. f[1] = Made(t, Head(q)) /\ f[(m - 1) + 1] = u
  <2>1. f[1] = g[1 + 1] /\ f[(m - 1) + 1] = g[m + 1]
    BY <1>2
  <2> QED
    BY <1>1, <1>4, <2>1 DEF m
<1>6. ASSUME NEW i \in 1..(m - 1) PROVE Fine(f[i], r[i]) /\ f[i + 1] = Made(f[i], r[i])
  <2>1. f[i] = g[i + 1] /\ f[i + 1] = g[(i + 1) + 1] /\ i + 1 \in 1..m /\ r[i] = q[i + 1]
    BY <1>2, <1>3
  <2> HIDE DEF f
  <2> QED
    BY <1>1, <2>1 DEF m
<1> HIDE DEF f
<1> QED
  BY <1>3, <1>4, <1>5, <1>6 DEF Runs, r

-----------------------------------------------------------------------------
(* What the changes of an ALTER TABLE make of a column.                    *)

\* The recursive function of ChangedBy, up to n.
ChangeStep(c, q, n, g) == [i \in 0..n |-> IF i = 0 THEN c ELSE Changed(g[i - 1], q[i])]

\* The recursion of ChangedBy has a solution, for any column and changes.
LEMMA ChangesExist ==
    ASSUME NEW c, NEW q
    PROVE  \A n \in Nat : \E g : g = ChangeStep(c, q, n, g)
<1> DEFINE N == {n \in Nat : \E g : g = ChangeStep(c, q, n, g)}
<1>1. 0 \in N
  <2> DEFINE g == [i \in 0..0 |-> c]
  <2>1. g = ChangeStep(c, q, 0, g)
    BY DEF ChangeStep
  <2> HIDE DEF g
  <2> QED
    BY <2>1
<1>2. ASSUME NEW n \in Nat, n \in N PROVE n + 1 \in N
  <2>1. PICK g : g = ChangeStep(c, q, n, g)
    BY <1>2
  <2> DEFINE h == [i \in 0..(n + 1) |-> IF i <= n THEN g[i] ELSE Changed(g[n], q[i])]
  <2>2. \A i \in 0..(n + 1) : i # 0 => h[i - 1] = g[i - 1]
    OBVIOUS
  <2>3. \A i \in 0..n : g[i] = IF i = 0 THEN c ELSE Changed(g[i - 1], q[i])
    BY <2>1 DEF ChangeStep
  <2>4. ASSUME NEW i \in 0..(n + 1)
        PROVE  h[i] = IF i = 0 THEN c ELSE Changed(h[i - 1], q[i])
    <3>1. CASE i <= n
      <4>1. h[i] = g[i] /\ i \in 0..n
        BY <3>1
      <4> HIDE DEF h
      <4> QED
        BY <4>1, <2>2, <2>3
    <3>2. CASE i = n + 1
      <4>1. h[i] = Changed(g[n], q[i])
        BY <3>2
      <4>2. i - 1 = n /\ i # 0 /\ h[i - 1] = g[n]
        BY <3>2
      <4> HIDE DEF h
      <4> QED
        BY <4>1, <4>2
    <3> QED
      BY <3>1, <3>2
  <2>5. h = ChangeStep(c, q, n + 1, h)
    BY <2>4 DEF ChangeStep
  <2> HIDE DEF h
  <2> QED
    BY <2>5
<1> HIDE DEF N
<1>3. \A n \in Nat : n \in N
  BY <1>1, <1>2, NatSet
<1> QED
  BY <1>3 DEF N

\* What the changes make of the column, one after the other.
Steps(c, q, g) ==
    /\ ChangedBy(c, q) = g[Len(q)] /\ g[0] = c
    /\ \A i \in 1..Len(q) : g[i] = Changed(g[i - 1], q[i])

\* ChangedBy comes to that.
LEMMA ChangesDone ==
    ASSUME NEW c, NEW q, IsSeq(q)
    PROVE  \E g : Steps(c, q, g)
<1> DEFINE g == CHOOSE g : g = ChangeStep(c, q, Len(q), g)
<1>1. ChangedBy(c, q) = g[Len(q)]
  BY DEF ChangedBy, ChangeStep
<1>2. Len(q) \in Nat
  BY DEF IsSeq
<1>3. g = ChangeStep(c, q, Len(q), g)
  <2>1. \E h : h = ChangeStep(c, q, Len(q), h)
    BY <1>2, ChangesExist
  <2> QED
    BY <2>1
<1> HIDE DEF g
<1>4. \A i \in 0..Len(q) : g[i] = IF i = 0 THEN c ELSE Changed(g[i - 1], q[i])
  BY <1>3 DEF ChangeStep
<1>5. g[0] = c
  BY <1>2, <1>4
<1>6. \A i \in 1..Len(q) : g[i] = Changed(g[i - 1], q[i])
  BY <1>2, <1>4
<1> QED
  BY <1>1, <1>5, <1>6 DEF Steps

\* No change leaves the column as it is.
LEMMA ChangedByNone ==
    ASSUME NEW c
    PROVE  ChangedBy(c, <<>>) = c
<1>1. IsSeq(<<>>) /\ Len(<<>>) = 0
  BY DEF IsSeq
<1> QED
  BY <1>1, ChangesDone DEF Steps

\* One change more is made of what the others have made.
LEMMA ChangedByThen ==
    ASSUME NEW c, NEW q, NEW x, IsSeq(q)
    PROVE  ChangedBy(c, q \o <<x>>) = Changed(ChangedBy(c, q), x)
<1>5. PICK f : Steps(c, q, f)
  BY ChangesDone
<1> DEFINE r == q \o <<x>>
           n == Len(q)
<1>1. n \in Nat
  BY DEF IsSeq
<1>2. IsSeq(<<x>>)
  BY DEF IsSeq, Range
<1>3. IsSeq(r)
  BY <1>2, Joined
<1>4. Len(r) = n + 1 /\ r[n + 1] = x /\ \A i \in 1..n : r[i] = q[i]
  BY <1>1 DEF IsSeq
<1> HIDE DEF r
<1>6. PICK h : Steps(c, r, h)
  BY <1>3, ChangesDone
<1> DEFINE N == {i \in Nat : i <= n => f[i] = h[i]}
<1>11. /\ ChangedBy(c, q) = f[n] /\ f[0] = c
       /\ \A i \in 1..n : f[i] = Changed(f[i - 1], q[i])
  BY <1>5 DEF Steps
<1> HIDE DEF n
<1>12. /\ ChangedBy(c, r) = h[n + 1] /\ h[0] = c
       /\ \A i \in 1..(n + 1) : h[i] = Changed(h[i - 1], r[i])
  BY <1>4, <1>6 DEF Steps
<1>7. 0 \in N
  BY <1>11, <1>12
<1>8. ASSUME NEW i \in Nat, i \in N PROVE i + 1 \in N
  <2> SUFFICES ASSUME i + 1 <= n PROVE f[i + 1] = h[i + 1]
    OBVIOUS
  <2>1. f[i] = h[i] /\ i + 1 \in 1..n /\ (i + 1) - 1 = i /\ i + 1 \in 1..(n + 1)
    BY <1>1, <1>8
  <2>2. f[i + 1] = Changed(f[i], q[i + 1])
    BY <1>11, <2>1
  <2>3. h[i + 1] = Changed(h[i], r[i + 1])
    BY <1>4, <1>12, <2>1
  <2> QED
    BY <1>4, <2>1, <2>2, <2>3
<1>9. f[n] = h[n]
  <2> HIDE DEF N
  <2>1. \A i \in Nat : i \in N
    BY <1>7, <1>8, NatSet
  <2>2. n \in N
    BY <1>1, <2>1
  <2> QED
    BY <1>1, <2>2 DEF N
<1>10. h[n + 1] = Changed(h[n], x)
  <2>1. n + 1 \in 1..(n + 1) /\ (n + 1) - 1 = n
    BY <1>1
  <2> QED
    BY <1>4, <1>12, <2>1
<1> QED
  BY <1>11, <1>12, <1>9, <1>10 DEF r

\* The same for a change that is made on a condition.
LEMMA ChangedByWhen ==
    ASSUME NEW c, NEW q, NEW b \in BOOLEAN, NEW x, IsSeq(q)
    PROVE  /\ IsSeq(q \o When(b, <<x>>))
           /\ ChangedBy(c, q \o When(b, <<x>>))
                = IF b THEN Changed(ChangedBy(c, q), x) ELSE ChangedBy(c, q)
<1>1. IsSeq(q \o When(b, <<x>>))
  BY WhenRange, Joined
<1>2. CASE b
  BY <1>1, <1>2, ChangedByThen DEF When
<1>3. CASE ~b
  <2>1. q \o <<>> = q
    BY DEF IsSeq
  <2> QED
    BY <1>1, <1>3, <2>1 DEF When
<1> QED
  BY <1>2, <1>3

\* A column, and the kinds of changes to it.
IsColumn(d) == d = [type |-> d.type, default |-> d.default, comment |-> d.comment]
Kinds == {"type", "default", "remove default", "comment"}

\* What one change makes of a column.
LEMMA ChangedParts ==
    ASSUME NEW d, IsColumn(d), NEW x, x[1] \in Kinds
    PROVE  /\ IsColumn(Changed(d, x))
           /\ Changed(d, x).type = IF x[1] = "type" THEN x[2] ELSE d.type
           /\ Changed(d, x).default = IF x[1] = "default" THEN x[2]
                                      ELSE IF x[1] = "remove default" THEN "none" ELSE d.default
           /\ Changed(d, x).comment = IF x[1] = "comment" THEN x[2] ELSE d.comment
<1>0. DOMAIN d = {"type", "default", "comment"}
  BY DEF IsColumn
<1>1. CASE x[1] = "type"
  <2>1. Changed(d, x) = [d EXCEPT !.type = x[2]]
    BY <1>1 DEF Changed
  <2> QED
    BY <1>0, <1>1, <2>1 DEF IsColumn
<1>2. CASE x[1] = "default"
  <2>1. Changed(d, x) = [d EXCEPT !.default = x[2]]
    BY <1>2 DEF Changed
  <2> QED
    BY <1>0, <1>2, <2>1 DEF IsColumn
<1>3. CASE x[1] = "remove default"
  <2>1. Changed(d, x) = [d EXCEPT !.default = "none"]
    BY <1>3 DEF Changed
  <2> QED
    BY <1>0, <1>3, <2>1 DEF IsColumn
<1>4. CASE x[1] = "comment"
  <2>1. Changed(d, x) = [d EXCEPT !.comment = x[2]]
    BY <1>4 DEF Changed
  <2> QED
    BY <1>0, <1>4, <2>1 DEF IsColumn
<1> QED
  BY <1>1, <1>2, <1>3, <1>4 DEF Kinds

\* All changes make a column of a column, with a type that it had or was given.
LEMMA ChangedByParts ==
    ASSUME NEW d, IsColumn(d), NEW q, IsSeq(q), \A i \in DOMAIN q : q[i][1] \in Kinds
    PROVE  /\ IsColumn(ChangedBy(d, q))
           /\ \/ ChangedBy(d, q).type = d.type
              \/ \E i \in DOMAIN q : q[i][1] = "type" /\ ChangedBy(d, q).type = q[i][2]
<1>1. PICK g : Steps(d, q, g)
  BY ChangesDone
<1> DEFINE n == Len(q)
           Good(x) == /\ IsColumn(x)
                      /\ \/ x.type = d.type
                         \/ \E i \in DOMAIN q : q[i][1] = "type" /\ x.type = q[i][2]
           N == {i \in Nat : i <= n => Good(g[i])}
<1>2. n \in Nat /\ DOMAIN q = 1..n
  BY DEF IsSeq
<1>6. /\ ChangedBy(d, q) = g[n] /\ g[0] = d
      /\ \A i \in 1..n : g[i] = Changed(g[i - 1], q[i])
  BY <1>1 DEF Steps
<1> HIDE DEF n
<1>3. 0 \in N
  BY <1>6
<1>4. ASSUME NEW i \in Nat, i \in N PROVE i + 1 \in N
  <2> SUFFICES ASSUME i + 1 <= n PROVE Good(g[i + 1])
    OBVIOUS
  <2>1. Good(g[i]) /\ i + 1 \in 1..n /\ (i + 1) - 1 = i
    BY <1>2, <1>4
  <2>2. g[i + 1] = Changed(g[i], q[i + 1]) /\ q[i + 1][1] \in Kinds
    BY <1>6, <1>2, <2>1
  <2>3. /\ IsColumn(g[i + 1])
        /\ g[i + 1].type = IF q[i + 1][1] = "type" THEN q[i + 1][2] ELSE g[i].type
    <3>1. ASSUME NEW x, IsColumn(x), NEW y, y[1] \in Kinds
          PROVE  /\ IsColumn(Changed(x, y))
                 /\ Changed(x, y).type = IF y[1] = "type" THEN y[2] ELSE x.type
      BY <3>1, ChangedParts, Zenon
    <3>2. IsColumn(g[i])
      BY <2>1
    <3> QED
      BY <2>2, <3>1, <3>2
  <2> QED
    BY <1>2, <2>1, <2>3
<1>5. n \in N
  <2> HIDE DEF N
  <2>1. \A i \in Nat : i \in N
    BY <1>3, <1>4, NatSet
  <2> QED
    BY <1>2, <2>1
<1> QED
  BY <1>6, <1>2, <1>5

-----------------------------------------------------------------------------
(* Tables by their parts.                                                  *)

\* A table of these parts.
Tab(name, rows, values, checks, index, constraint, columns) ==
    [table |-> name, rows |-> rows, values |-> values, checks |-> checks, index |-> index,
     constraint |-> constraint, columns |-> columns]

\* It is one, of these parts.
LEMMA TabParts ==
    ASSUME NEW n, NEW r, NEW v, NEW k, NEW i, NEW c, NEW d
    PROVE  /\ IsTable(Tab(n, r, v, k, i, c, d))
           /\ Tab(n, r, v, k, i, c, d).table = n /\ Tab(n, r, v, k, i, c, d).rows = r
           /\ Tab(n, r, v, k, i, c, d).values = v /\ Tab(n, r, v, k, i, c, d).checks = k
           /\ Tab(n, r, v, k, i, c, d).index = i /\ Tab(n, r, v, k, i, c, d).constraint = c
           /\ Tab(n, r, v, k, i, c, d).columns = d
BY DEF Tab, IsTable

\* What a legal statement other than CREATE and DROP makes of the parts of a table.
LEMMA AfterTab ==
    ASSUME NEW t, IsTable(t), NEW s
    PROVE  /\ s.op = "rename" =>
                After(t, s) = Tab(s.to, t.rows, t.values, t.checks, t.index, t.constraint, t.columns)
           /\ s.op = "add column" =>
                After(t, s) = Tab(t.table, t.rows, Initial(t, s.definition), t.checks, t.index, t.constraint,
                                  [c \in DOMAIN t.columns \cup {s.column} |->
                                     IF c = s.column THEN s.definition ELSE t.columns[c]])
           /\ s.op = "drop column" =>
                After(t, s) = Tab(t.table, t.rows, {}, t.checks, t.index, t.constraint,
                                  [c \in DOMAIN t.columns \ {s.column} |-> t.columns[c]])
           /\ s.op = "rename column" =>
                After(t, s) = Tab(t.table, t.rows, t.values, t.checks,
                                  IF t.index = s.column THEN s.to ELSE t.index, t.constraint,
                                  Renamed(t.columns, s.column, s.to))
           /\ s.op = "alter" =>
                After(t, s) = Tab(t.table, t.rows, t.values, t.checks, t.index, t.constraint,
                                  [t.columns EXCEPT ![s.column] = ChangedBy(@, s.changes)])
           /\ s.op = "fill" =>
                After(t, s) = Tab(t.table, t.rows, Filled(t.values, s), t.checks, t.index, t.constraint,
                                  t.columns)
           /\ s.op = "add check" =>
                After(t, s) = Tab(t.table, t.rows, t.values, t.checks \cup {s.column}, t.index,
                                  t.constraint, t.columns)
           /\ s.op = "drop check" =>
                After(t, s) = Tab(t.table, t.rows, t.values, t.checks \ {s.column}, t.index,
                                  t.constraint, t.columns)
           /\ s.op = "add index" =>
                After(t, s) = Tab(t.table, t.rows, t.values, t.checks, s.column, t.constraint, t.columns)
           /\ s.op = "drop index" =>
                After(t, s) = Tab(t.table, t.rows, t.values, t.checks, "none", t.constraint, t.columns)
           /\ s.op = "add constraint" =>
                After(t, s) = Tab(t.table, t.rows, t.values, t.checks, t.index, TRUE, t.columns)
           /\ s.op = "drop constraint" =>
                After(t, s) = Tab(t.table, t.rows, t.values, t.checks, t.index, FALSE, t.columns)
<1>1. CASE s.op = "rename"
  <2>1. After(t, s) = [t EXCEPT !.table = s.to]
    BY <1>1 DEF After
  <2> QED
    BY <1>1, <2>1 DEF IsTable, Tab
<1>2. CASE s.op = "add column"
  <2> DEFINE cols == [c \in DOMAIN t.columns \cup {s.column} |->
                        IF c = s.column THEN s.definition ELSE t.columns[c]]
             init == Initial(t, s.definition)
  <2>1. After(t, s) = [t EXCEPT !.columns = cols, !.values = init]
    BY <1>2 DEF After
  <2> HIDE DEF cols, init
  <2>2. After(t, s) = Tab(t.table, t.rows, init, t.checks, t.index, t.constraint, cols)
    BY <1>2, <2>1 DEF IsTable, Tab
  <2> QED
    BY <1>2, <2>2 DEF cols, init
<1>3. CASE s.op = "drop column"
  <2> DEFINE cols == [c \in DOMAIN t.columns \ {s.column} |-> t.columns[c]]
  <2>1. After(t, s) = [t EXCEPT !.columns = cols, !.values = {}]
    BY <1>3 DEF After
  <2> HIDE DEF cols
  <2>2. After(t, s) = Tab(t.table, t.rows, {}, t.checks, t.index, t.constraint, cols)
    BY <1>3, <2>1 DEF IsTable, Tab
  <2> QED
    BY <1>3, <2>2 DEF cols
<1>4. CASE s.op = "rename column"
  <2>1. After(t, s) = [t EXCEPT !.columns = Renamed(@, s.column, s.to),
                                !.index = IF @ = s.column THEN s.to ELSE @]
    BY <1>4 DEF After
  <2> QED
    BY <1>4, <2>1 DEF IsTable, Tab
<1>5. CASE s.op = "alter"
  <2> DEFINE cols == [t.columns EXCEPT ![s.column] = ChangedBy(@, s.changes)]
  <2>1. After(t, s) = [t EXCEPT !.columns = cols]
    BY <1>5 DEF After
  <2> HIDE DEF cols
  <2>2. After(t, s) = Tab(t.table, t.rows, t.values, t.checks, t.index, t.constraint, cols)
    BY <1>5, <2>1 DEF IsTable, Tab
  <2> QED
    BY <1>5, <2>2 DEF cols
<1>6. CASE s.op = "fill"
  <2>1. After(t, s) = [t EXCEPT !.values = Filled(t.values, s)]
    BY <1>6 DEF After, Filled
  <2> QED
    BY <1>6, <2>1 DEF IsTable, Tab
<1>7. CASE s.op = "add check"
  <2>1. After(t, s) = [t EXCEPT !.checks = @ \cup {s.column}]
    BY <1>7 DEF After
  <2> QED
    BY <1>7, <2>1 DEF IsTable, Tab
<1>8. CASE s.op = "drop check"
  <2>1. After(t, s) = [t EXCEPT !.checks = @ \ {s.column}]
    BY <1>8 DEF After
  <2> QED
    BY <1>8, <2>1 DEF IsTable, Tab
<1>9. CASE s.op = "add index"
  <2>1. After(t, s) = [t EXCEPT !.index = s.column]
    BY <1>9 DEF After
  <2> QED
    BY <1>9, <2>1 DEF IsTable, Tab
<1>10. CASE s.op = "drop index"
  <2>1. After(t, s) = [t EXCEPT !.index = "none"]
    BY <1>10 DEF After
  <2> QED
    BY <1>10, <2>1 DEF IsTable, Tab
<1>11. CASE s.op = "add constraint"
  <2>1. After(t, s) = [t EXCEPT !.constraint = TRUE]
    BY <1>11 DEF After
  <2> QED
    BY <1>11, <2>1 DEF IsTable, Tab
<1>12. CASE s.op = "drop constraint"
  <2>1. After(t, s) = [t EXCEPT !.constraint = FALSE]
    BY <1>12 DEF After
  <2> QED
    BY <1>12, <2>1 DEF IsTable, Tab
<1> QED
  BY <1>1, <1>2, <1>3, <1>4, <1>5, <1>6, <1>7, <1>8, <1>9, <1>10, <1>11, <1>12

\* The bare table has the same parts, but no rows.
LEMMA BareParts ==
    ASSUME NEW t, IsTable(t)
    PROVE  /\ Bare(t) = Tab(t.table, FALSE, {}, t.checks, t.index, t.constraint, t.columns)
           /\ IsTable(Bare(t)) /\ Bare(t) # NoTable /\ t # NoTable
           /\ Bare(t).table = t.table /\ Bare(t).checks = t.checks /\ Bare(t).index = t.index
           /\ Bare(t).constraint = t.constraint /\ Bare(t).columns = t.columns
           /\ Bare(t).rows = FALSE /\ Bare(t).values = {}
<1>1. t # NoTable
  BY TableIsOne
<1>2. Bare(t) = [t EXCEPT !.rows = FALSE, !.values = {}]
  BY <1>1 DEF Bare
<1>3. Bare(t) = Tab(t.table, FALSE, {}, t.checks, t.index, t.constraint, t.columns)
  BY <1>2 DEF IsTable, Tab
<1> DEFINE b == Bare(t)
<1>4. /\ IsTable(b)
      /\ b.table = t.table /\ b.checks = t.checks /\ b.index = t.index
      /\ b.constraint = t.constraint /\ b.columns = t.columns
      /\ b.rows = FALSE /\ b.values = {}
  <2>1. b = Tab(t.table, FALSE, {}, t.checks, t.index, t.constraint, t.columns)
    BY <1>3
  <2> HIDE DEF b
  <2> QED
    BY <2>1 DEF IsTable, Tab
<1> HIDE DEF b
<1>5. b # NoTable
  BY <1>4, TableIsOne
<1> QED
  BY <1>1, <1>3, <1>4, <1>5 DEF b

\* A table of these parts without rows.
Rowless(name, checks, index, constraint, columns) ==
    Tab(name, FALSE, {}, checks, index, constraint, columns)

\* The bare table of a table of these parts.
LEMMA BareTab ==
    ASSUME NEW n, NEW r, NEW v, NEW k, NEW i, NEW c, NEW d
    PROVE  Bare(Tab(n, r, v, k, i, c, d)) = Rowless(n, k, i, c, d)
<1> DEFINE t == Tab(n, r, v, k, i, c, d)
<1>1. /\ IsTable(t) /\ t.table = n /\ t.checks = k /\ t.index = i /\ t.constraint = c /\ t.columns = d
  BY TabParts
<1>2. Bare(t) = Tab(t.table, FALSE, {}, t.checks, t.index, t.constraint, t.columns)
  BY <1>1, BareParts
<1> HIDE DEF t
<1>3. Bare(t) = Tab(n, FALSE, {}, k, i, c, d)
  BY <1>1, <1>2
<1> QED
  BY <1>3 DEF t, Rowless

\* What a statement makes of the bare table is what it makes of the table, bare.
LEMMA BareAfter ==
    ASSUME NEW t, t = NoTable \/ IsTable(t), NEW s, s.op \in Structural \cup Others, s.op # "raise",
           Legal(t, s), s.table \in Table
    PROVE  Bare(After(t, s)) = After(Bare(t), s)
<1>1. CASE s.op = "create"
  <2>1. t = NoTable
    BY <1>1 DEF Legal
  <2> DEFINE cols == IF s.columns = <<>> THEN <<>> ELSE [c \in {s.columns[1]} |-> s.columns[2]]
             no == FALSE
  <2>2. \A u : After(u, s) = Tab(s.table, no, {}, s.checks, "none", s.constraint, cols)
    BY <1>1 DEF After, Tab
  <2>3. Bare(t) = NoTable
    BY <2>1 DEF Bare
  <2> HIDE DEF cols, no
  <2>4. After(t, s) = Tab(s.table, no, {}, s.checks, "none", s.constraint, cols)
    BY <2>2
  <2>5. After(Bare(t), s) = Rowless(s.table, s.checks, "none", s.constraint, cols)
    BY <2>2 DEF Rowless, no
  <2>6. Bare(After(t, s)) = Rowless(s.table, s.checks, "none", s.constraint, cols)
    BY <2>4, BareTab
  <2> QED
    BY <2>5, <2>6
<1>2. CASE s.op = "drop"
  <2>1. \A u : After(u, s) = NoTable
    BY <1>2 DEF After
  <2> QED
    BY <2>1 DEF Bare
<1>3. CASE s.op \notin {"create", "drop"}
  <2>1. t.table = s.table
    BY <1>3 DEF Legal
  <2>2. NoTable.table = "none" /\ "none" \notin Table
    BY SchemaAssumption DEF NoTable
  <2>3. IsTable(t)
    BY <2>1, <2>2
  <2> DEFINE b == Bare(t)
  <2>4. /\ IsTable(b) /\ b.table = t.table /\ b.checks = t.checks /\ b.index = t.index
        /\ b.constraint = t.constraint /\ b.columns = t.columns /\ b.rows = FALSE /\ b.values = {}
    BY <2>3, BareParts
  <2>5. Initial(b, s.definition) = {} /\ Filled(b.values, s) = {}
    BY <2>4 DEF Initial, Filled
  <2> HIDE DEF b
  <2> SUFFICES Bare(After(t, s)) = After(b, s)
    BY DEF b
  <2>6. CASE s.op = "rename"
    <3>1. After(t, s) = Tab(s.to, t.rows, t.values, t.checks, t.index,
                            t.constraint, t.columns)
      BY <2>3, <2>6, AfterTab
    <3>2. After(b, s) = Tab(s.to, b.rows, b.values, b.checks, b.index,
                            b.constraint, b.columns)
      BY <2>4, <2>6, AfterTab
    <3>3. After(b, s) = Rowless(s.to, t.checks, t.index,
                            t.constraint, t.columns)
      BY <2>4, <2>5, <3>2 DEF Rowless
    <3>4. Bare(After(t, s)) = Rowless(s.to, t.checks, t.index,
                                  t.constraint, t.columns)
      BY <3>1, BareTab
    <3> QED
      BY <3>3, <3>4
  <2>7. CASE s.op = "add column"
    <3>1. After(t, s) = Tab(t.table, t.rows, Initial(t, s.definition), t.checks, t.index,
                            t.constraint, [c \in DOMAIN t.columns \cup {s.column} |->
                             IF c = s.column THEN s.definition ELSE t.columns[c]])
      BY <2>3, <2>7, AfterTab
    <3>2. After(b, s) = Tab(b.table, b.rows, Initial(b, s.definition), b.checks, b.index,
                            b.constraint, [c \in DOMAIN b.columns \cup {s.column} |->
                             IF c = s.column THEN s.definition ELSE b.columns[c]])
      BY <2>4, <2>7, AfterTab
    <3>3. After(b, s) = Rowless(t.table, t.checks, t.index,
                            t.constraint, [c \in DOMAIN t.columns \cup {s.column} |->
                             IF c = s.column THEN s.definition ELSE t.columns[c]])
      BY <2>4, <2>5, <3>2 DEF Rowless
    <3>4. Bare(After(t, s)) = Rowless(t.table, t.checks, t.index,
                                  t.constraint, [c \in DOMAIN t.columns \cup {s.column} |->
                                   IF c = s.column THEN s.definition ELSE t.columns[c]])
      BY <3>1, BareTab
    <3> QED
      BY <3>3, <3>4
  <2>8. CASE s.op = "drop column"
    <3>1. After(t, s) = Tab(t.table, t.rows, {}, t.checks, t.index,
                            t.constraint, [c \in DOMAIN t.columns \ {s.column} |-> t.columns[c]])
      BY <2>3, <2>8, AfterTab
    <3>2. After(b, s) = Tab(b.table, b.rows, {}, b.checks, b.index,
                            b.constraint, [c \in DOMAIN b.columns \ {s.column} |-> b.columns[c]])
      BY <2>4, <2>8, AfterTab
    <3>3. After(b, s) = Rowless(t.table, t.checks, t.index,
                            t.constraint, [c \in DOMAIN t.columns \ {s.column} |-> t.columns[c]])
      BY <2>4, <2>5, <3>2 DEF Rowless
    <3>4. Bare(After(t, s)) = Rowless(t.table, t.checks, t.index,
                                  t.constraint, [c \in DOMAIN t.columns \ {s.column} |-> t.columns[c]])
      BY <3>1, BareTab
    <3> QED
      BY <3>3, <3>4
  <2>9. CASE s.op = "rename column"
    <3>1. After(t, s) = Tab(t.table, t.rows, t.values, t.checks, IF t.index = s.column THEN s.to ELSE t.index,
                            t.constraint, Renamed(t.columns, s.column, s.to))
      BY <2>3, <2>9, AfterTab
    <3>2. After(b, s) = Tab(b.table, b.rows, b.values, b.checks, IF b.index = s.column THEN s.to ELSE b.index,
                            b.constraint, Renamed(b.columns, s.column, s.to))
      BY <2>4, <2>9, AfterTab
    <3>3. After(b, s) = Rowless(t.table, t.checks, IF t.index = s.column THEN s.to ELSE t.index,
                            t.constraint, Renamed(t.columns, s.column, s.to))
      BY <2>4, <2>5, <3>2 DEF Rowless
    <3>4. Bare(After(t, s)) = Rowless(t.table, t.checks, IF t.index = s.column THEN s.to ELSE t.index,
                                  t.constraint, Renamed(t.columns, s.column, s.to))
      BY <3>1, BareTab
    <3> QED
      BY <3>3, <3>4
  <2>10. CASE s.op = "alter"
    <3>1. After(t, s) = Tab(t.table, t.rows, t.values, t.checks, t.index,
                            t.constraint, [t.columns EXCEPT ![s.column] = ChangedBy(@, s.changes)])
      BY <2>3, <2>10, AfterTab
    <3>2. After(b, s) = Tab(b.table, b.rows, b.values, b.checks, b.index,
                            b.constraint, [b.columns EXCEPT ![s.column] = ChangedBy(@, s.changes)])
      BY <2>4, <2>10, AfterTab
    <3>3. After(b, s) = Rowless(t.table, t.checks, t.index,
                            t.constraint, [t.columns EXCEPT ![s.column] = ChangedBy(@, s.changes)])
      BY <2>4, <2>5, <3>2 DEF Rowless
    <3>4. Bare(After(t, s)) = Rowless(t.table, t.checks, t.index,
                                  t.constraint, [t.columns EXCEPT ![s.column] = ChangedBy(@, s.changes)])
      BY <3>1, BareTab
    <3> QED
      BY <3>3, <3>4
  <2>11. CASE s.op = "fill"
    <3>1. After(t, s) = Tab(t.table, t.rows, Filled(t.values, s), t.checks, t.index,
                            t.constraint, t.columns)
      BY <2>3, <2>11, AfterTab
    <3>2. After(b, s) = Tab(b.table, b.rows, Filled(b.values, s), b.checks, b.index,
                            b.constraint, b.columns)
      BY <2>4, <2>11, AfterTab
    <3>3. After(b, s) = Rowless(t.table, t.checks, t.index,
                            t.constraint, t.columns)
      BY <2>4, <2>5, <3>2 DEF Rowless
    <3>4. Bare(After(t, s)) = Rowless(t.table, t.checks, t.index,
                                  t.constraint, t.columns)
      BY <3>1, BareTab
    <3> QED
      BY <3>3, <3>4
  <2>12. CASE s.op = "add check"
    <3>1. After(t, s) = Tab(t.table, t.rows, t.values, t.checks \cup {s.column}, t.index,
                            t.constraint, t.columns)
      BY <2>3, <2>12, AfterTab
    <3>2. After(b, s) = Tab(b.table, b.rows, b.values, b.checks \cup {s.column}, b.index,
                            b.constraint, b.columns)
      BY <2>4, <2>12, AfterTab
    <3>3. After(b, s) = Rowless(t.table, t.checks \cup {s.column}, t.index,
                            t.constraint, t.columns)
      BY <2>4, <2>5, <3>2 DEF Rowless
    <3>4. Bare(After(t, s)) = Rowless(t.table, t.checks \cup {s.column}, t.index,
                                  t.constraint, t.columns)
      BY <3>1, BareTab
    <3> QED
      BY <3>3, <3>4
  <2>13. CASE s.op = "drop check"
    <3>1. After(t, s) = Tab(t.table, t.rows, t.values, t.checks \ {s.column}, t.index,
                            t.constraint, t.columns)
      BY <2>3, <2>13, AfterTab
    <3>2. After(b, s) = Tab(b.table, b.rows, b.values, b.checks \ {s.column}, b.index,
                            b.constraint, b.columns)
      BY <2>4, <2>13, AfterTab
    <3>3. After(b, s) = Rowless(t.table, t.checks \ {s.column}, t.index,
                            t.constraint, t.columns)
      BY <2>4, <2>5, <3>2 DEF Rowless
    <3>4. Bare(After(t, s)) = Rowless(t.table, t.checks \ {s.column}, t.index,
                                  t.constraint, t.columns)
      BY <3>1, BareTab
    <3> QED
      BY <3>3, <3>4
  <2>14. CASE s.op = "add index"
    <3>1. After(t, s) = Tab(t.table, t.rows, t.values, t.checks, s.column,
                            t.constraint, t.columns)
      BY <2>3, <2>14, AfterTab
    <3>2. After(b, s) = Tab(b.table, b.rows, b.values, b.checks, s.column,
                            b.constraint, b.columns)
      BY <2>4, <2>14, AfterTab
    <3>3. After(b, s) = Rowless(t.table, t.checks, s.column,
                            t.constraint, t.columns)
      BY <2>4, <2>5, <3>2 DEF Rowless
    <3>4. Bare(After(t, s)) = Rowless(t.table, t.checks, s.column,
                                  t.constraint, t.columns)
      BY <3>1, BareTab
    <3> QED
      BY <3>3, <3>4
  <2>15. CASE s.op = "drop index"
    <3>1. After(t, s) = Tab(t.table, t.rows, t.values, t.checks, "none",
                            t.constraint, t.columns)
      BY <2>3, <2>15, AfterTab
    <3>2. After(b, s) = Tab(b.table, b.rows, b.values, b.checks, "none",
                            b.constraint, b.columns)
      BY <2>4, <2>15, AfterTab
    <3>3. After(b, s) = Rowless(t.table, t.checks, "none",
                            t.constraint, t.columns)
      BY <2>4, <2>5, <3>2 DEF Rowless
    <3>4. Bare(After(t, s)) = Rowless(t.table, t.checks, "none",
                                  t.constraint, t.columns)
      BY <3>1, BareTab
    <3> QED
      BY <3>3, <3>4
  <2>16. CASE s.op = "add constraint"
    <3> DEFINE value == TRUE
    <3>1. After(t, s) = Tab(t.table, t.rows, t.values, t.checks, t.index,
                            value, t.columns)
      BY <2>3, <2>16, AfterTab
    <3>2. After(b, s) = Tab(b.table, b.rows, b.values, b.checks, b.index,
                            value, b.columns)
      BY <2>4, <2>16, AfterTab
    <3>3. After(b, s) = Rowless(t.table, t.checks, t.index,
                            value, t.columns)
      BY <2>4, <2>5, <3>2 DEF Rowless
    <3> HIDE DEF value
    <3>4. Bare(After(t, s)) = Rowless(t.table, t.checks, t.index,
                                  value, t.columns)
      BY <3>1, BareTab
    <3> QED
      BY <3>3, <3>4
  <2>17. CASE s.op = "drop constraint"
    <3> DEFINE value == FALSE
    <3>1. After(t, s) = Tab(t.table, t.rows, t.values, t.checks, t.index,
                            value, t.columns)
      BY <2>3, <2>17, AfterTab
    <3>2. After(b, s) = Tab(b.table, b.rows, b.values, b.checks, b.index,
                            value, b.columns)
      BY <2>4, <2>17, AfterTab
    <3>3. After(b, s) = Rowless(t.table, t.checks, t.index,
                            value, t.columns)
      BY <2>4, <2>5, <3>2 DEF Rowless
    <3> HIDE DEF value
    <3>4. Bare(After(t, s)) = Rowless(t.table, t.checks, t.index,
                                  value, t.columns)
      BY <3>1, BareTab
    <3> QED
      BY <3>3, <3>4
  <2> QED
    BY <1>3, <2>6, <2>7, <2>8, <2>9, <2>10, <2>11, <2>12, <2>13, <2>14, <2>15, <2>16, <2>17 DEF Structural, Others
<1> QED
  BY <1>1, <1>2, <1>3

\* An alteration that no NULL survives.
Narrows(s) ==
    s.op = "alter" /\ \E i \in DOMAIN s.changes : s.changes[i][1] = "type" /\ ~s.changes[i][2][2]

\* A statement that the bare table allows, the table refuses only for its NULLs.
LEMMA BareLegal ==
    ASSUME NEW t, t = NoTable \/ IsTable(t), NEW s, s.op \in Structural \cup Others,
           Legal(Bare(t), s), Narrows(s) => "null" \notin ValuesOf(t)
    PROVE  Legal(t, s)
<1>1. CASE t = NoTable
  BY <1>1 DEF Bare
<1>2. CASE IsTable(t)
  <2> DEFINE b == Bare(t)
  <2>1. /\ b.table = t.table /\ b.checks = t.checks /\ b.index = t.index /\ b # NoTable /\ t # NoTable
        /\ b.constraint = t.constraint /\ b.columns = t.columns /\ b.rows = FALSE /\ b.values = {}
    BY <1>2, BareParts
  <2>2. Legal(b, s)
    OBVIOUS
  <2> HIDE DEF b
  <2>3. s.op # "raise" /\ s.op # "create"
    BY <2>1, <2>2 DEF Legal
  <2>4. ASSUME s.op = "alter", NEW i \in DOMAIN s.changes PROVE ChangeLegal(t, s.column, s.changes[i])
    <3>1. ChangeLegal(b, s.column, s.changes[i])
      BY <2>2, <2>4 DEF Legal
    <3>2. s.changes[i][1] = "type" => s.changes[i][2][2] \/ "null" \notin t.values
      BY <2>1, <2>4 DEF Narrows, ValuesOf
    <3>3. s.changes[i][1] = "remove default" => t.columns[s.column].default # "none"
      BY <2>1, <3>1 DEF ChangeLegal
    <3> QED
      BY <3>2, <3>3 DEF ChangeLegal
  <2> QED
    BY <2>1, <2>2, <2>3, <2>4 DEF Legal
<1> QED
  BY <1>1, <1>2

\* A statement that the table allows, the bare table allows.
LEMMA LegalBare ==
    ASSUME NEW t, t = NoTable \/ IsTable(t), NEW s, Legal(t, s)
    PROVE  Legal(Bare(t), s)
<1>1. CASE t = NoTable
  BY <1>1 DEF Bare
<1>2. CASE IsTable(t)
  <2> DEFINE b == Bare(t)
  <2>1. /\ b.table = t.table /\ b.checks = t.checks /\ b.index = t.index /\ b # NoTable /\ t # NoTable
        /\ b.constraint = t.constraint /\ b.columns = t.columns /\ b.rows = FALSE /\ b.values = {}
    BY <1>2, BareParts
  <2> HIDE DEF b
  <2> SUFFICES Legal(b, s)
    BY DEF b
  <2>3. s.op # "raise" /\ s.op # "create"
    BY <2>1 DEF Legal
  <2>4. ASSUME s.op = "alter", NEW i \in DOMAIN s.changes PROVE ChangeLegal(b, s.column, s.changes[i])
    <3>1. ChangeLegal(t, s.column, s.changes[i])
      BY <2>4 DEF Legal
    <3> QED
      BY <2>1, <3>1 DEF ChangeLegal
  <2> QED
    BY <2>1, <2>3, <2>4 DEF Legal
<1> QED
  BY <1>1, <1>2

-----------------------------------------------------------------------------
(* What a statement needs and makes of a table with one column.            *)

\* One column, with its definition.
One(c, d) == [x \in {c} |-> d]

\* A table with one column, without its rows.
Narrow(n, k, i, r, c, d) == Rowless(n, k, i, r, One(c, d))

\* The parts of such a table.
IsNarrow(t, n, k, i, r, c, d) ==
    /\ IsTable(t) /\ t.table = n /\ t.rows = FALSE /\ t.values = {} /\ t.checks = k
    /\ t.index = i /\ t.constraint = r /\ t.columns = One(c, d)
    /\ DOMAIN t.columns = {c} /\ t.columns[c] = d

\* It has them.
LEMMA NarrowParts ==
    ASSUME NEW n, NEW k, NEW i, NEW r, NEW c, NEW d
    PROVE  IsNarrow(Narrow(n, k, i, r, c, d), n, k, i, r, c, d)
<1> DEFINE t == Narrow(n, k, i, r, c, d)
<1>1. t = Tab(n, FALSE, {}, k, i, r, One(c, d))
  BY DEF Narrow, Rowless
<1>2. DOMAIN One(c, d) = {c} /\ One(c, d)[c] = d
  BY DEF One
<1>3. /\ IsTable(t) /\ t.table = n /\ t.rows = FALSE /\ t.values = {} /\ t.checks = k
      /\ t.index = i /\ t.constraint = r /\ t.columns = One(c, d)
  <2> HIDE DEF t
  <2> QED
    BY <1>1 DEF Tab, IsTable
<1> HIDE DEF t
<1>4. IsNarrow(t, n, k, i, r, c, d)
  BY <1>2, <1>3 DEF IsNarrow
<1> QED
  BY <1>4 DEF t

\* A statement that executes, and what it makes of the table.
Makes(t, s, u) == Fine(t, s) /\ Made(t, s) = u

\* Changes of the column, of which only the removal of a default needs anything.
LEMMA AlterNarrow ==
    ASSUME NEW n, NEW k, NEW i, NEW r, NEW c, NEW d, NEW q,
           \A j \in DOMAIN q : q[j][1] = "remove default" => d.default # "none"
    PROVE  Makes(Narrow(n, k, i, r, c, d), Alter(n, c, q), Narrow(n, k, i, r, c, ChangedBy(d, q)))
<1> DEFINE t == Narrow(n, k, i, r, c, d)
           s == Alter(n, c, q)
           e == ChangedBy(d, q)
<1>1. /\ IsTable(t) /\ t.table = n /\ t.rows = FALSE /\ t.values = {} /\ t.checks = k
      /\ t.index = i /\ t.constraint = r /\ t.columns = One(c, d)
      /\ DOMAIN t.columns = {c} /\ t.columns[c] = d
  <2>1. IsNarrow(t, n, k, i, r, c, d)
    BY NarrowParts
  <2> HIDE DEF t
  <2> QED
    BY <2>1 DEF IsNarrow
<1>2. s.op = "alter" /\ s.table = n /\ s.column = c /\ s.changes = q
  BY DEF Alter
<1> HIDE DEF t, s
<1>3. ASSUME NEW j \in DOMAIN s.changes PROVE ChangeLegal(t, s.column, s.changes[j])
  <2>1. s.changes[j] = q[j] /\ j \in DOMAIN q
    BY <1>2, <1>3
  <2> QED
    BY <1>1, <1>2, <2>1 DEF ChangeLegal
<1>4. Legal(t, s)
  BY <1>1, <1>2, <1>3 DEF Legal
<1>5. After(t, s) = Tab(t.table, t.rows, t.values, t.checks, t.index, t.constraint,
                        [t.columns EXCEPT ![s.column] = ChangedBy(@, s.changes)])
  BY <1>1, <1>2, AfterTab
<1>6. [t.columns EXCEPT ![s.column] = ChangedBy(@, s.changes)] = One(c, e)
  <2>1. t.columns[c] = d /\ s.changes = q /\ s.column = c
    BY <1>1, <1>2
  <2>2. [t.columns EXCEPT ![c] = e] = One(c, e)
    <3> HIDE DEF e
    <3> QED
      BY <1>1 DEF One
  <2>3. ChangedBy(t.columns[s.column], s.changes) = e
    BY <2>1
  <2> QED
    BY <2>1, <2>2, <2>3
<1> HIDE DEF e
<1>7. After(t, s) = Narrow(n, k, i, r, c, e)
  BY <1>1, <1>5, <1>6 DEF Narrow, Rowless
<1>8. Fine(t, s) /\ Made(t, s) = Narrow(n, k, i, r, c, e)
  BY <1>2, <1>4, <1>7 DEF Fine, Made, Aside
<1> QED
  BY <1>8 DEF Makes, t, s, e

\* UPDATE leaves the definitions alone.
LEMMA FillNarrow ==
    ASSUME NEW n, NEW k, NEW i, NEW r, NEW c, NEW d, NEW v, NEW all
    PROVE  Makes(Narrow(n, k, i, r, c, d), Fill(n, c, v, all), Narrow(n, k, i, r, c, d))
<1> DEFINE t == Narrow(n, k, i, r, c, d)
           s == Fill(n, c, v, all)
<1>1. /\ IsTable(t) /\ t.table = n /\ t.rows = FALSE /\ t.values = {} /\ t.checks = k
      /\ t.index = i /\ t.constraint = r /\ t.columns = One(c, d)
      /\ DOMAIN t.columns = {c} /\ t.columns[c] = d
  <2>1. IsNarrow(t, n, k, i, r, c, d)
    BY NarrowParts
  <2> HIDE DEF t
  <2> QED
    BY <2>1 DEF IsNarrow
<1>2. s.op = "fill" /\ s.table = n /\ s.column = c
  BY DEF Fill
<1> HIDE DEF s
<1>3. t = Narrow(n, k, i, r, c, d)
  OBVIOUS
<1> HIDE DEF t
<1>4. Legal(t, s)
  BY <1>1, <1>2 DEF Legal
<1>5. After(t, s) = Tab(t.table, t.rows, Filled(t.values, s), t.checks, t.index, t.constraint, t.columns)
  BY <1>1, <1>2, AfterTab
<1>6. Filled(t.values, s) = {}
  BY <1>1 DEF Filled
<1>7. After(t, s) = t
  BY <1>1, <1>3, <1>5, <1>6 DEF Narrow, Rowless
<1>8. Fine(t, s) /\ Made(t, s) = t
  BY <1>2, <1>4, <1>7 DEF Fine, Made, Aside
<1> QED
  BY <1>8 DEF Makes, t, s

\* RENAME COLUMN takes the index along.
LEMMA RenameNarrow ==
    ASSUME NEW n, NEW k, NEW i, NEW r, NEW c, NEW d, NEW s,
           s.op = "rename column", s.table = n, s.column = c, s.to # c
    PROVE  Makes(Narrow(n, k, i, r, c, d), s, Narrow(n, k, IF i = c THEN s.to ELSE i, r, s.to, d))
<1> DEFINE t == Narrow(n, k, i, r, c, d)
<1>1. /\ IsTable(t) /\ t.table = n /\ t.rows = FALSE /\ t.values = {} /\ t.checks = k
      /\ t.index = i /\ t.constraint = r /\ t.columns = One(c, d)
      /\ DOMAIN t.columns = {c} /\ t.columns[c] = d
  <2>1. IsNarrow(t, n, k, i, r, c, d)
    BY NarrowParts
  <2> HIDE DEF t
  <2> QED
    BY <2>1 DEF IsNarrow
<1> HIDE DEF t
<1>4. Legal(t, s)
  BY <1>1 DEF Legal
<1>5. After(t, s) = Tab(t.table, t.rows, t.values, t.checks,
                        IF t.index = s.column THEN s.to ELSE t.index, t.constraint,
                        Renamed(t.columns, s.column, s.to))
  BY <1>1, AfterTab
<1>6. Renamed(t.columns, s.column, s.to) = One(s.to, d)
  BY <1>1 DEF Renamed, One
<1>7. After(t, s) = Narrow(n, k, IF i = c THEN s.to ELSE i, r, s.to, d)
  BY <1>1, <1>5, <1>6 DEF Narrow, Rowless
<1>8. Fine(t, s) /\ Made(t, s) = Narrow(n, k, IF i = c THEN s.to ELSE i, r, s.to, d)
  BY <1>4, <1>7 DEF Fine, Made, Aside
<1> QED
  BY <1>8 DEF Makes, t

\* A column check is added where there is none.
LEMMA AddCheckNarrow ==
    ASSUME NEW n, NEW k, NEW i, NEW r, NEW c, NEW d, c \notin k
    PROVE  Makes(Narrow(n, k, i, r, c, d), OnColumn("add check", n, c), Narrow(n, k \cup {c}, i, r, c, d))
<1> DEFINE t == Narrow(n, k, i, r, c, d)
           s == OnColumn("add check", n, c)
<1>1. /\ IsTable(t) /\ t.table = n /\ t.rows = FALSE /\ t.values = {} /\ t.checks = k
      /\ t.index = i /\ t.constraint = r /\ t.columns = One(c, d)
      /\ DOMAIN t.columns = {c} /\ t.columns[c] = d
  <2>1. IsNarrow(t, n, k, i, r, c, d)
    BY NarrowParts
  <2> HIDE DEF t
  <2> QED
    BY <2>1 DEF IsNarrow
<1>2. s.op = "add check" /\ s.table = n /\ s.column = c
  BY DEF OnColumn, On
<1> HIDE DEF t, s
<1>3. Legal(t, s)
  BY <1>1, <1>2 DEF Legal
<1>4. After(t, s) = Tab(t.table, t.rows, t.values, t.checks \cup {s.column}, t.index, t.constraint, t.columns)
  BY <1>1, <1>2, AfterTab
<1>5. After(t, s) = Narrow(n, k \cup {c}, i, r, c, d)
  BY <1>1, <1>2, <1>4 DEF Narrow, Rowless
<1> QED
  BY <1>2, <1>3, <1>5 DEF Makes, Fine, Made, Aside, t, s

\* It is dropped where there is one.
LEMMA DropCheckNarrow ==
    ASSUME NEW n, NEW k, NEW i, NEW r, NEW c, NEW d, c \in k
    PROVE  Makes(Narrow(n, k, i, r, c, d), OnColumn("drop check", n, c), Narrow(n, k \ {c}, i, r, c, d))
<1> DEFINE t == Narrow(n, k, i, r, c, d)
           s == OnColumn("drop check", n, c)
<1>1. /\ IsTable(t) /\ t.table = n /\ t.rows = FALSE /\ t.values = {} /\ t.checks = k
      /\ t.index = i /\ t.constraint = r /\ t.columns = One(c, d)
      /\ DOMAIN t.columns = {c} /\ t.columns[c] = d
  <2>1. IsNarrow(t, n, k, i, r, c, d)
    BY NarrowParts
  <2> HIDE DEF t
  <2> QED
    BY <2>1 DEF IsNarrow
<1>2. s.op = "drop check" /\ s.table = n /\ s.column = c
  BY DEF OnColumn, On
<1> HIDE DEF t, s
<1>3. Legal(t, s)
  BY <1>1, <1>2 DEF Legal
<1>4. After(t, s) = Tab(t.table, t.rows, t.values, t.checks \ {s.column}, t.index, t.constraint, t.columns)
  BY <1>1, <1>2, AfterTab
<1>5. After(t, s) = Narrow(n, k \ {c}, i, r, c, d)
  BY <1>1, <1>2, <1>4 DEF Narrow, Rowless
<1> QED
  BY <1>2, <1>3, <1>5 DEF Makes, Fine, Made, Aside, t, s

\* An index is added where there is none.
LEMMA AddIndexNarrow ==
    ASSUME NEW n, NEW k, NEW i, NEW r, NEW c, NEW d, i = "none"
    PROVE  Makes(Narrow(n, k, i, r, c, d), OnColumn("add index", n, c), Narrow(n, k, c, r, c, d))
<1> DEFINE t == Narrow(n, k, i, r, c, d)
           s == OnColumn("add index", n, c)
<1>1. /\ IsTable(t) /\ t.table = n /\ t.rows = FALSE /\ t.values = {} /\ t.checks = k
      /\ t.index = i /\ t.constraint = r /\ t.columns = One(c, d)
      /\ DOMAIN t.columns = {c} /\ t.columns[c] = d
  <2>1. IsNarrow(t, n, k, i, r, c, d)
    BY NarrowParts
  <2> HIDE DEF t
  <2> QED
    BY <2>1 DEF IsNarrow
<1>2. s.op = "add index" /\ s.table = n /\ s.column = c
  BY DEF OnColumn, On
<1> HIDE DEF t, s
<1>3. Legal(t, s)
  BY <1>1, <1>2 DEF Legal
<1>4. After(t, s) = Tab(t.table, t.rows, t.values, t.checks, s.column, t.constraint, t.columns)
  BY <1>1, <1>2, AfterTab
<1>5. After(t, s) = Narrow(n, k, c, r, c, d)
  BY <1>1, <1>2, <1>4 DEF Narrow, Rowless
<1> QED
  BY <1>2, <1>3, <1>5 DEF Makes, Fine, Made, Aside, t, s

\* It is dropped where there is one.
LEMMA DropIndexNarrow ==
    ASSUME NEW n, NEW k, NEW i, NEW r, NEW c, NEW d, i # "none"
    PROVE  Makes(Narrow(n, k, i, r, c, d), On("drop index", n), Narrow(n, k, "none", r, c, d))
<1> DEFINE t == Narrow(n, k, i, r, c, d)
           s == On("drop index", n)
<1>1. /\ IsTable(t) /\ t.table = n /\ t.rows = FALSE /\ t.values = {} /\ t.checks = k
      /\ t.index = i /\ t.constraint = r /\ t.columns = One(c, d)
      /\ DOMAIN t.columns = {c} /\ t.columns[c] = d
  <2>1. IsNarrow(t, n, k, i, r, c, d)
    BY NarrowParts
  <2> HIDE DEF t
  <2> QED
    BY <2>1 DEF IsNarrow
<1>2. s.op = "drop index" /\ s.table = n
  BY DEF OnColumn, On
<1> HIDE DEF t, s
<1>3. Legal(t, s)
  BY <1>1, <1>2 DEF Legal
<1>4. After(t, s) = Tab(t.table, t.rows, t.values, t.checks, "none", t.constraint, t.columns)
  BY <1>1, <1>2, AfterTab
<1>5. After(t, s) = Narrow(n, k, "none", r, c, d)
  BY <1>1, <1>2, <1>4 DEF Narrow, Rowless
<1> QED
  BY <1>2, <1>3, <1>5 DEF Makes, Fine, Made, Aside, t, s

\* A statement that is issued on a condition, which nothing has to be done without.
LEMMA MakesWhen ==
    ASSUME NEW t, NEW s, NEW u, NEW b \in BOOLEAN, b => Makes(t, s, u), ~b => u = t
    PROVE  Runs(t, When(b, <<s>>), u)
<1>1. CASE b
  <2>1. Runs(t, <<s>>, Made(t, s)) /\ Made(t, s) = u
    BY <1>1, RunsOne DEF Makes
  <2> QED
    BY <1>1, <2>1 DEF When
<1>2. CASE ~b
  BY <1>2, RunsNone DEF When
<1> QED
  BY <1>1, <1>2

-----------------------------------------------------------------------------
(* An alteration of a field makes the column of the new field of the one    *)
(* of the old, from wherever an earlier attempt has stopped.                *)

\* One change.
LEMMA ChangedByOne ==
    ASSUME NEW d, NEW x
    PROVE  ChangedBy(d, <<x>>) = Changed(d, x)
<1>1. IsSeq(<<>>) /\ <<>> \o <<x>> = <<x>>
  BY DEF IsSeq
<1>2. ChangedBy(d, <<>> \o <<x>>) = Changed(ChangedBy(d, <<>>), x)
  BY <1>1, ChangedByThen
<1> QED
  BY <1>1, <1>2, ChangedByNone

\* A column on the way from the old field to the new one.
Amid(d, old, new) ==
    /\ IsColumn(d)
    /\ ColumnType(old) = ColumnType(new) /\ old.comment = new.comment => d.type = ColumnType(new)
    /\ d.type[2] => old.null \/ new.null
    /\ new.db_default = old.db_default /\ ~NeedsDatabaseDefault(old, new) => d.default = new.db_default
    /\ new.db_default = "none" /\ old.db_default # "none" => d.default # "none"
    /\ old.comment = new.comment => d.comment = new.comment

\* The first changes set the type and the default.
LEMMA FirstChangesMake ==
    ASSUME NEW d, IsColumn(d), NEW old, NEW new, NEW e, e = ChangedBy(d, FirstChanges(old, new))
    PROVE  /\ IsColumn(e) /\ e.comment = d.comment
           /\ e.type = IF ColumnType(old) # ColumnType(new) \/ old.comment # new.comment
                       THEN EarlyType(old, new) ELSE d.type
           /\ e.default = IF NeedsDatabaseDefault(old, new) THEN new.default
                          ELSE IF new.db_default = "none" /\ old.db_default # "none" THEN "none"
                          ELSE IF new.db_default \notin {"none", old.db_default} THEN new.db_default
                          ELSE d.default
<1> DEFINE b1 == ColumnType(old) # ColumnType(new) \/ old.comment # new.comment
           b2 == new.db_default \notin {"none", old.db_default}
           b3 == new.db_default = "none" /\ old.db_default # "none"
           b4 == NeedsDatabaseDefault(old, new)
           x1 == <<"type", EarlyType(old, new)>>
           x2 == <<"default", new.db_default>>
           x3 == <<"remove default">>
           x4 == <<"default", new.default>>
           w1 == When(b1, <<x1>>)
           w2 == w1 \o When(b2, <<x2>>)
           w3 == w2 \o When(b3, <<x3>>)
           w4 == w3 \o When(b4, <<x4>>)
           d1 == IF b1 THEN Changed(d, x1) ELSE d
           d2 == IF b2 THEN Changed(d1, x2) ELSE d1
           d3 == IF b3 THEN Changed(d2, x3) ELSE d2
           d4 == IF b4 THEN Changed(d3, x4) ELSE d3
<1>0. b1 \in BOOLEAN /\ b2 \in BOOLEAN /\ b3 \in BOOLEAN /\ b4 \in BOOLEAN
  BY DEF NeedsDatabaseDefault
<1>1. FirstChanges(old, new) = w4
  BY DEF FirstChanges
<1>2. /\ x1[1] = "type" /\ x1[2] = EarlyType(old, new) /\ x2[1] = "default" /\ x2[2] = new.db_default
      /\ x3[1] = "remove default" /\ x4[1] = "default" /\ x4[2] = new.default
  OBVIOUS
<1> HIDE DEF b1, b2, b3, b4, x1, x2, x3, x4
<1>3. IsSeq(w1) /\ ChangedBy(d, w1) = d1
  <2>1. CASE b1
    BY <1>0, <2>1, WhenRange, ChangedByOne DEF When
  <2>2. CASE ~b1
    BY <1>0, <2>2, WhenRange, ChangedByNone DEF When
  <2> QED
    BY <2>1, <2>2
<1> HIDE DEF w1, d1
<1>4. IsSeq(w2) /\ ChangedBy(d, w2) = d2
  <2>1. /\ IsSeq(w1 \o When(b2, <<x2>>))
        /\ ChangedBy(d, w1 \o When(b2, <<x2>>))
             = IF b2 THEN Changed(ChangedBy(d, w1), x2) ELSE ChangedBy(d, w1)
    BY <1>0, <1>3, ChangedByWhen
  <2> QED
    BY <1>3, <2>1
<1> HIDE DEF w2, d2
<1>5. IsSeq(w3) /\ ChangedBy(d, w3) = d3
  <2>1. /\ IsSeq(w2 \o When(b3, <<x3>>))
        /\ ChangedBy(d, w2 \o When(b3, <<x3>>))
             = IF b3 THEN Changed(ChangedBy(d, w2), x3) ELSE ChangedBy(d, w2)
    BY <1>0, <1>4, ChangedByWhen
  <2> QED
    BY <1>4, <2>1
<1> HIDE DEF w3, d3
<1>6. IsSeq(w4) /\ ChangedBy(d, w4) = d4
  <2>1. /\ IsSeq(w3 \o When(b4, <<x4>>))
        /\ ChangedBy(d, w3 \o When(b4, <<x4>>))
             = IF b4 THEN Changed(ChangedBy(d, w3), x4) ELSE ChangedBy(d, w3)
    BY <1>0, <1>5, ChangedByWhen
  <2> QED
    BY <1>5, <2>1
<1> HIDE DEF w4
<1>7. /\ IsColumn(d1) /\ d1.comment = d.comment /\ d1.default = d.default
      /\ d1.type = IF b1 THEN EarlyType(old, new) ELSE d.type
  <2>1. x1[1] \in Kinds
    BY <1>2 DEF Kinds
  <2> QED
    BY <1>2, <2>1, ChangedParts DEF d1
<1>8. /\ IsColumn(d2) /\ d2.comment = d.comment /\ d2.type = d1.type
      /\ d2.default = IF b2 THEN new.db_default ELSE d.default
  <2>1. x2[1] \in Kinds
    BY <1>2 DEF Kinds
  <2> QED
    BY <1>2, <1>7, <2>1, ChangedParts DEF d2
<1>9. /\ IsColumn(d3) /\ d3.comment = d.comment /\ d3.type = d1.type
      /\ d3.default = IF b3 THEN "none" ELSE d2.default
  <2>1. x3[1] \in Kinds
    BY <1>2 DEF Kinds
  <2> QED
    BY <1>2, <1>8, <2>1, ChangedParts DEF d3
<1>10. /\ IsColumn(d4) /\ d4.comment = d.comment /\ d4.type = d1.type
       /\ d4.default = IF b4 THEN new.default ELSE d3.default
  <2>1. x4[1] \in Kinds
    BY <1>2 DEF Kinds
  <2> QED
    BY <1>2, <1>9, <2>1, ChangedParts DEF d4
<1>11. e = d4
  BY <1>1, <1>6
<1> HIDE DEF d4
<1> QED
  BY <1>7, <1>8, <1>9, <1>10, <1>11 DEF b1, b2, b3, b4

\* What the first changes are.
LEMMA FirstChangesAre ==
    ASSUME NEW old, NEW new
    PROVE  /\ IsSeq(FirstChanges(old, new))
           /\ \A i \in DOMAIN FirstChanges(old, new) :
                LET x == FirstChanges(old, new)[i] IN
                /\ x[1] \in Kinds \ {"comment"}
                /\ x[1] = "type" => x[2] = EarlyType(old, new)
                /\ x[1] = "remove default" => new.db_default = "none" /\ old.db_default # "none"
<1> DEFINE b1 == ColumnType(old) # ColumnType(new) \/ old.comment # new.comment
           b2 == new.db_default \notin {"none", old.db_default}
           b3 == new.db_default = "none" /\ old.db_default # "none"
           b4 == NeedsDatabaseDefault(old, new)
           x1 == <<"type", EarlyType(old, new)>>
           x2 == <<"default", new.db_default>>
           x3 == <<"remove default">>
           x4 == <<"default", new.default>>
           w1 == When(b1, <<x1>>)
           w2 == When(b2, <<x2>>)
           w3 == When(b3, <<x3>>)
           w4 == When(b4, <<x4>>)
           q == FirstChanges(old, new)
           Good(x) == /\ x[1] \in Kinds \ {"comment"}
                      /\ x[1] = "type" => x[2] = EarlyType(old, new)
                      /\ x[1] = "remove default" => b3
<1>0. b1 \in BOOLEAN /\ b2 \in BOOLEAN /\ b3 \in BOOLEAN /\ b4 \in BOOLEAN
  BY DEF NeedsDatabaseDefault
<1>1. q = w1 \o w2 \o w3 \o w4
  BY DEF FirstChanges
<1>2. Good(x1) /\ Good(x2) /\ (b3 => Good(x3)) /\ Good(x4)
  BY DEF Kinds
<1> HIDE DEF b1, b2, b3, b4, x1, x2, x3, x4, q, Good
<1>3. /\ IsSeq(w1) /\ Range(w1) \subseteq {x1} /\ IsSeq(w2) /\ Range(w2) \subseteq {x2}
      /\ IsSeq(w3) /\ Range(w3) = (IF b3 THEN {x3} ELSE {})
      /\ IsSeq(w4) /\ Range(w4) \subseteq {x4}
  BY <1>0, WhenRange
<1> HIDE DEF w1, w2, w3, w4
<1>4. IsSeq(w1 \o w2) /\ Range(w1 \o w2) \subseteq {x1, x2}
  BY <1>3, Joined
<1>5. IsSeq(w1 \o w2 \o w3) /\ Range(w1 \o w2 \o w3) \subseteq {x1, x2} \cup (IF b3 THEN {x3} ELSE {})
  BY <1>3, <1>4, Joined
<1>6. IsSeq(q) /\ Range(q) \subseteq {x1, x2, x4} \cup (IF b3 THEN {x3} ELSE {})
  BY <1>1, <1>3, <1>5, Joined
<1>7. \A i \in DOMAIN q : q[i] \in Range(q)
  BY DEF Range
<1>8. \A i \in DOMAIN q : Good(q[i])
  <2>1. \A x \in Range(q) : Good(x)
    BY <1>2, <1>6
  <2> QED
    BY <1>7, <2>1
<1> QED
  BY <1>6, <1>8 DEF q, Good, b3

\* DROP of the column check, where there is one to drop.
LEMMA DropCheckRuns ==
    ASSUME NEW n, NEW k, NEW i, NEW r, NEW c, NEW d, NEW m, NEW b \in BOOLEAN,
           b => c \in k /\ m = k \ {c}, ~b => m = k
    PROVE  Runs(Narrow(n, k, i, r, c, d), When(b, <<OnColumn("drop check", n, c)>>),
                Narrow(n, m, i, r, c, d))
<1>1. b => Makes(Narrow(n, k, i, r, c, d), OnColumn("drop check", n, c), Narrow(n, m, i, r, c, d))
  <2> SUFFICES ASSUME b PROVE Makes(Narrow(n, k, i, r, c, d), OnColumn("drop check", n, c), Narrow(n, m, i, r, c, d))
    OBVIOUS
  <2>1. c \in k /\ m = k \ {c}
    OBVIOUS
  <2>2. Makes(Narrow(n, k, i, r, c, d), OnColumn("drop check", n, c), Narrow(n, k \ {c}, i, r, c, d))
    BY <2>1, DropCheckNarrow
  <2> QED
    BY <2>1, <2>2
<1>2. ~b => Narrow(n, m, i, r, c, d) = Narrow(n, k, i, r, c, d)
  OBVIOUS
<1> QED
  BY <1>1, <1>2, MakesWhen

\* ADD of the column check, where there is none.
LEMMA AddCheckRuns ==
    ASSUME NEW n, NEW k, NEW i, NEW r, NEW c, NEW d, NEW m, NEW b \in BOOLEAN,
           b => c \notin k /\ m = k \cup {c}, ~b => m = k
    PROVE  Runs(Narrow(n, k, i, r, c, d), When(b, <<OnColumn("add check", n, c)>>),
                Narrow(n, m, i, r, c, d))
<1>1. b => Makes(Narrow(n, k, i, r, c, d), OnColumn("add check", n, c), Narrow(n, m, i, r, c, d))
  <2> SUFFICES ASSUME b PROVE Makes(Narrow(n, k, i, r, c, d), OnColumn("add check", n, c), Narrow(n, m, i, r, c, d))
    OBVIOUS
  <2>1. c \notin k /\ m = k \cup {c}
    OBVIOUS
  <2>2. Makes(Narrow(n, k, i, r, c, d), OnColumn("add check", n, c), Narrow(n, k \cup {c}, i, r, c, d))
    BY <2>1, AddCheckNarrow
  <2> QED
    BY <2>1, <2>2
<1>2. ~b => Narrow(n, m, i, r, c, d) = Narrow(n, k, i, r, c, d)
  OBVIOUS
<1> QED
  BY <1>1, <1>2, MakesWhen

\* RENAME COLUMN, where the name is another.
LEMMA RenameRuns ==
    ASSUME NEW n, NEW k, NEW i, NEW r, NEW c, NEW d, NEW to, NEW j, NEW s, NEW b \in BOOLEAN,
           s.op = "rename column", s.table = n, s.column = c, s.to = to,
           b => to # c /\ j = (IF i = c THEN to ELSE i), ~b => to = c /\ j = i
    PROVE  Runs(Narrow(n, k, i, r, c, d), When(b, <<s>>), Narrow(n, k, j, r, to, d))
<1>1. b => Makes(Narrow(n, k, i, r, c, d), s, Narrow(n, k, j, r, to, d))
  <2> SUFFICES ASSUME b PROVE Makes(Narrow(n, k, i, r, c, d), s, Narrow(n, k, j, r, to, d))
    OBVIOUS
  <2>1. s.to # c /\ j = (IF i = c THEN to ELSE i)
    OBVIOUS
  <2>2. Makes(Narrow(n, k, i, r, c, d), s, Narrow(n, k, IF i = c THEN s.to ELSE i, r, s.to, d))
    BY <2>1, RenameNarrow
  <2> QED
    BY <2>1, <2>2
<1>2. ~b => Narrow(n, k, j, r, to, d) = Narrow(n, k, i, r, c, d)
  OBVIOUS
<1> QED
  BY <1>1, <1>2, MakesWhen

\* Changes of the column, if there are any.
LEMMA ChangesRun ==
    ASSUME NEW n, NEW k, NEW i, NEW r, NEW c, NEW d, NEW q, NEW e, NEW b \in BOOLEAN,
           b => e = ChangedBy(d, q), ~b => e = d,
           b => \A j \in DOMAIN q : q[j][1] = "remove default" => d.default # "none"
    PROVE  Runs(Narrow(n, k, i, r, c, d), When(b, <<Alter(n, c, q)>>), Narrow(n, k, i, r, c, e))
<1>1. b => Makes(Narrow(n, k, i, r, c, d), Alter(n, c, q), Narrow(n, k, i, r, c, e))
  <2> SUFFICES ASSUME b PROVE Makes(Narrow(n, k, i, r, c, d), Alter(n, c, q), Narrow(n, k, i, r, c, e))
    OBVIOUS
  <2>1. \A j \in DOMAIN q : q[j][1] = "remove default" => d.default # "none"
    OBVIOUS
  <2>2. Makes(Narrow(n, k, i, r, c, d), Alter(n, c, q), Narrow(n, k, i, r, c, ChangedBy(d, q)))
    BY <2>1, AlterNarrow
  <2> QED
    BY <2>2
<1>2. ~b => Narrow(n, k, i, r, c, e) = Narrow(n, k, i, r, c, d)
  OBVIOUS
<1> QED
  BY <1>1, <1>2, MakesWhen

\* What one change, if there is one, makes of a column.
ChangesTo(d, b, x, e) ==
    /\ IsColumn(e)
    /\ e.type = IF b /\ x[1] = "type" THEN x[2] ELSE d.type
    /\ e.default = IF b /\ x[1] = "default" THEN x[2]
                   ELSE IF b /\ x[1] = "remove default" THEN "none" ELSE d.default
    /\ e.comment = IF b /\ x[1] = "comment" THEN x[2] ELSE d.comment

\* One change of the column, if there is one.
LEMMA ChangeRuns ==
    ASSUME NEW n, NEW k, NEW i, NEW r, NEW c, NEW d, IsColumn(d), NEW x, x[1] \in Kinds, NEW e,
           NEW b \in BOOLEAN, e = IF b THEN Changed(d, x) ELSE d,
           b /\ x[1] = "remove default" => d.default # "none"
    PROVE  /\ Runs(Narrow(n, k, i, r, c, d), When(b, <<Alter(n, c, <<x>>)>>), Narrow(n, k, i, r, c, e))
           /\ ChangesTo(d, b, x, e)
<1> DEFINE q == <<x>>
<1>1. \A j \in DOMAIN q : q[j] = x
  <2>1. Range(q) = {x}
    BY Single
  <2> HIDE DEF q
  <2>2. \A j \in DOMAIN q : q[j] \in Range(q)
    BY DEF Range
  <2> QED
    BY <2>1, <2>2
<1>2. ChangedBy(d, q) = Changed(d, x)
  BY ChangedByOne
<1> HIDE DEF q
<1>3. /\ b => e = ChangedBy(d, q)
      /\ ~b => e = d
      /\ b => \A j \in DOMAIN q : q[j][1] = "remove default" => d.default # "none"
  BY <1>1, <1>2
<1>4. Runs(Narrow(n, k, i, r, c, d), When(b, <<Alter(n, c, q)>>), Narrow(n, k, i, r, c, e))
  BY <1>3, ChangesRun
<1>6. /\ IsColumn(e)
      /\ e.type = IF b /\ x[1] = "type" THEN x[2] ELSE d.type
      /\ e.default = IF b /\ x[1] = "default" THEN x[2]
                     ELSE IF b /\ x[1] = "remove default" THEN "none" ELSE d.default
      /\ e.comment = IF b /\ x[1] = "comment" THEN x[2] ELSE d.comment
  <2>1. CASE b
    <3>1. e = Changed(d, x)
      BY <2>1
    <3>2. /\ IsColumn(Changed(d, x))
          /\ Changed(d, x).type = IF x[1] = "type" THEN x[2] ELSE d.type
          /\ Changed(d, x).default = IF x[1] = "default" THEN x[2]
                                     ELSE IF x[1] = "remove default" THEN "none" ELSE d.default
          /\ Changed(d, x).comment = IF x[1] = "comment" THEN x[2] ELSE d.comment
      BY ChangedParts, Zenon
    <3> QED
      BY <2>1, <3>1, <3>2
  <2>2. CASE ~b
    BY <2>2
  <2> QED
    BY <2>1, <2>2
<1> QED
  BY <1>4, <1>6 DEF ChangesTo, q

\* A statement that leaves the table as it is.
LEMMA SameRuns ==
    ASSUME NEW t, NEW s, NEW b \in BOOLEAN, Makes(t, s, t)
    PROVE  Runs(t, When(b, <<s>>), t)
BY MakesWhen

\* The statements of an alteration make the table of the new field.
LEMMA AlterRuns ==
    ASSUME NEW n, NEW i, NEW r, NEW d, NEW old \in Field, NEW new \in Field, Amid(d, old, new),
           i \in {"none", old.column}
    PROVE  Runs(Narrow(n, IF old.check THEN {old.column} ELSE {}, i, r, old.column, d),
                AlterFieldSql(n, old, new),
                Narrow(n, IF new.check THEN {new.column} ELSE {},
                       IF i = "none" THEN "none" ELSE new.column, r, new.column, ColumnOf(new)))
<1> DEFINE c0 == old.column
           c == new.column
           moved == old.column # new.column
           value == IF new.db_default = "none" THEN new.default ELSE new.db_default
           b1 == old.check /\ (moved \/ ~new.check)
           b3 == FirstChanges(old, new) # <<>>
           b4 == FourWay(old, new) /\ ~Distributed
           b5 == FourWay(old, new)
           b6 == old.comment # new.comment
           b7 == new.primary_key /\ (~old.primary_key \/ ColumnType(old) # ColumnType(new))
           b8 == new.check /\ (moved \/ ~old.check)
           b9 == NeedsDatabaseDefault(old, new)
           x5 == <<"type", ColumnType(new)>>
           x6 == <<"comment", new.comment>>
           x9 == <<"remove default">>
           s1 == OnColumn("drop check", n, old.column)
           s2 == [op |-> "rename column", on |-> cluster, table |-> n, column |-> old.column, to |-> c]
           s3 == Alter(n, c, FirstChanges(old, new))
           s4 == Fill(n, c, value, FALSE)
           s5 == Alter(n, c, <<x5>>)
           s6 == Alter(n, c, <<x6>>)
           s7 == [op |-> "alter related", on |-> cluster, type |-> new.type]
           s8 == OnColumn("add check", n, c)
           s9 == Alter(n, c, <<x9>>)
           k0 == IF old.check THEN {c0} ELSE {}
           k1 == IF old.check /\ ~moved /\ new.check THEN {c} ELSE {}
           k8 == IF new.check THEN {c} ELSE {}
           j == IF i = "none" THEN "none" ELSE c
           d3 == ChangedBy(d, FirstChanges(old, new))
           d5 == IF b5 THEN Changed(d3, x5) ELSE d3
           d6 == IF b6 THEN Changed(d5, x6) ELSE d5
           d9 == IF b9 THEN Changed(d6, x9) ELSE d6
           t0 == Narrow(n, k0, i, r, c0, d)
           t1 == Narrow(n, k1, i, r, c0, d)
           t2 == Narrow(n, k1, j, r, c, d)
           t3 == Narrow(n, k1, j, r, c, d3)
           t5 == Narrow(n, k1, j, r, c, d5)
           t6 == Narrow(n, k1, j, r, c, d6)
           t8 == Narrow(n, k8, j, r, c, d6)
           t9 == Narrow(n, k8, j, r, c, d9)
           q1 == When(b1, <<s1>>)
           q2 == When(moved, <<s2>>)
           q3 == When(b3, <<s3>>)
           q4 == When(b4, <<s4>>)
           q5 == When(b5, <<s5>>)
           q6 == When(b6, <<s6>>)
           q7 == When(b7, <<s7>>)
           q8 == When(b8, <<s8>>)
           q9 == When(b9, <<s9>>)
<1>0. /\ old.check \in BOOLEAN /\ new.check \in BOOLEAN /\ old.null \in BOOLEAN /\ new.null \in BOOLEAN
      /\ old.primary_key \in BOOLEAN /\ new.primary_key \in BOOLEAN
      /\ c0 \in Column /\ c \in Column /\ c0 # "none" /\ c # "none"
  BY SchemaAssumption DEF Field
<1>1. AlterFieldSql(n, old, new) = q1 \o q2 \o q3 \o q4 \o q5 \o q6 \o q7 \o q8 \o q9
  BY DEF AlterFieldSql, RelatedSql
<1>2. /\ b1 \in BOOLEAN /\ moved \in BOOLEAN /\ b3 \in BOOLEAN /\ b4 \in BOOLEAN /\ b5 \in BOOLEAN
      /\ b6 \in BOOLEAN /\ b7 \in BOOLEAN /\ b8 \in BOOLEAN /\ b9 \in BOOLEAN
  BY <1>0 DEF FourWay, NeedsDatabaseDefault, Distributed
<1>2a. /\ x5[1] = "type" /\ x5[2] = ColumnType(new) /\ x6[1] = "comment" /\ x6[2] = new.comment
       /\ x9[1] = "remove default"
  OBVIOUS
<1>3. Runs(t0, q1, t1)
  <2>1. (b1 => c0 \in k0 /\ k1 = k0 \ {c0}) /\ (~b1 => k1 = k0)
    BY <1>0
  <2> HIDE DEF k0, k1, b1, c0
  <2>2. Runs(t0, When(b1, <<OnColumn("drop check", n, c0)>>), t1)
    BY <1>2, <2>1, DropCheckRuns
  <2> QED
    BY <2>2 DEF c0
<1>4. Runs(t1, q2, t2)
  <2>1. s2.op = "rename column" /\ s2.table = n /\ s2.column = c0 /\ s2.to = c
    OBVIOUS
  <2>2. (moved => c # c0 /\ j = (IF i = c0 THEN c ELSE i)) /\ (~moved => c = c0 /\ j = i)
    BY <1>0
  <2> HIDE DEF k1, s2, c, c0, j, moved
  <2> QED
    BY <1>2, <2>1, <2>2, RenameRuns
<1>5. Runs(t2, q3, t3)
  <2> DEFINE q == FirstChanges(old, new)
  <2>1. \A m \in DOMAIN q : q[m][1] = "remove default" => d.default # "none"
    <3>1. \A m \in DOMAIN q : q[m][1] = "remove default" => new.db_default = "none" /\ old.db_default # "none"
      BY FirstChangesAre
    <3>2. new.db_default = "none" /\ old.db_default # "none" => d.default # "none"
      BY DEF Amid
    <3> QED
      BY <3>1, <3>2
  <2>2. ~b3 => d3 = d
    BY ChangedByNone
  <2>3. b3 => d3 = ChangedBy(d, q)
    OBVIOUS
  <2>4. q3 = When(b3, <<Alter(n, c, q)>>)
    OBVIOUS
  <2> HIDE DEF k1, j, c, b3, q, d3, q3
  <2>5. Runs(t2, When(b3, <<Alter(n, c, q)>>), t3)
    BY <1>2, <2>1, <2>2, <2>3, ChangesRun
  <2> QED
    BY <2>4, <2>5
<1> DEFINE e == d3
<1>6. /\ IsColumn(d3) /\ d3.comment = d.comment
      /\ d3.type = IF ColumnType(old) # ColumnType(new) \/ old.comment # new.comment
                   THEN EarlyType(old, new) ELSE d.type
      /\ d3.default = IF b9 THEN new.default
                      ELSE IF new.db_default = "none" /\ old.db_default # "none" THEN "none"
                      ELSE IF new.db_default \notin {"none", old.db_default} THEN new.db_default
                      ELSE d.default
  <2>1. IsColumn(d)
    BY DEF Amid
  <2> HIDE DEF e
  <2>2. e = ChangedBy(d, FirstChanges(old, new))
    BY DEF e
  <2>3. /\ IsColumn(e) /\ e.comment = d.comment
        /\ e.type = IF ColumnType(old) # ColumnType(new) \/ old.comment # new.comment
                    THEN EarlyType(old, new) ELSE d.type
        /\ e.default = IF NeedsDatabaseDefault(old, new) THEN new.default
                       ELSE IF new.db_default = "none" /\ old.db_default # "none" THEN "none"
                       ELSE IF new.db_default \notin {"none", old.db_default} THEN new.db_default
                       ELSE d.default
    BY <2>1, <2>2, FirstChangesMake
  <2> QED
    BY <2>3 DEF e
<1> HIDE DEF d3
<1>7. Runs(t3, q4, t3)
  <2> DEFINE no == FALSE
  <2>1. q4 = When(b4, <<Fill(n, c, value, no)>>)
    OBVIOUS
  <2> HIDE DEF k1, j, c, value, no, b4, q4
  <2>2. Makes(t3, Fill(n, c, value, no), t3)
    BY FillNarrow
  <2> HIDE DEF t3
  <2>3. Runs(t3, When(b4, <<Fill(n, c, value, no)>>), t3)
    BY <1>2, <2>2, SameRuns
  <2> QED
    BY <2>1, <2>3
<1>8. /\ Runs(t3, q5, t5) /\ IsColumn(d5)
      /\ d5.comment = d3.comment /\ d5.default = d3.default
      /\ d5.type = IF b5 THEN ColumnType(new) ELSE d3.type
  <2>1. /\ d5 = IF b5 THEN Changed(d3, x5) ELSE d3
        /\ b5 /\ x5[1] = "remove default" => d3.default # "none"
    BY <1>2a
  <2>2. q5 = When(b5, <<Alter(n, c, <<x5>>)>>)
    OBVIOUS
  <2>3. x5[1] \in Kinds
    BY <1>2a DEF Kinds
  <2> HIDE DEF k1, j, c, b5, x5, d5, q5
  <2>4. /\ Runs(t3, When(b5, <<Alter(n, c, <<x5>>)>>), t5)
        /\ ChangesTo(d3, b5, x5, d5)
    BY <1>2, <2>1, <2>3, <1>6, ChangeRuns
  <2> QED
    BY <1>2a, <2>2, <2>4 DEF ChangesTo
<1> HIDE DEF d5
<1>9. /\ Runs(t5, q6, t6) /\ IsColumn(d6)
      /\ d6.type = d5.type /\ d6.default = d5.default
      /\ d6.comment = IF b6 THEN new.comment ELSE d5.comment
  <2>1. /\ d6 = IF b6 THEN Changed(d5, x6) ELSE d5
        /\ b6 /\ x6[1] = "remove default" => d5.default # "none"
    BY <1>2a
  <2>2. q6 = When(b6, <<Alter(n, c, <<x6>>)>>)
    OBVIOUS
  <2>3. x6[1] \in Kinds
    BY <1>2a DEF Kinds
  <2> HIDE DEF k1, j, c, b6, x6, d6, q6
  <2>4. /\ Runs(t5, When(b6, <<Alter(n, c, <<x6>>)>>), t6)
        /\ ChangesTo(d5, b6, x6, d6)
    BY <1>2, <2>1, <2>3, <1>8, ChangeRuns
  <2> QED
    BY <1>2a, <2>2, <2>4 DEF ChangesTo
<1> HIDE DEF d6
<1>10. Runs(t6, q7, t6)
  <2>1. Makes(t6, s7, t6)
    BY DEF Makes, Fine, Made, Aside
  <2> HIDE DEF t6, s7, b7
  <2> QED
    BY <1>2, <2>1, SameRuns
<1>11. Runs(t6, q8, t8)
  <2>1. (b8 => c \notin k1 /\ k8 = k1 \cup {c}) /\ (~b8 => k8 = k1)
    BY <1>0
  <2>2. q8 = When(b8, <<OnColumn("add check", n, c)>>)
    OBVIOUS
  <2> HIDE DEF k1, k8, b8, c, j, q8
  <2>3. Runs(t6, When(b8, <<OnColumn("add check", n, c)>>), t8)
    BY <1>2, <2>1, AddCheckRuns
  <2> QED
    BY <2>2, <2>3
<1>11a. b9 => d6.default # "none"
  BY <1>6, <1>8, <1>9 DEF NeedsDatabaseDefault
<1>12. /\ Runs(t8, q9, t9) /\ IsColumn(d9)
       /\ d9.type = d6.type /\ d9.comment = d6.comment
       /\ d9.default = IF b9 THEN "none" ELSE d6.default
  <2>1. /\ d9 = IF b9 THEN Changed(d6, x9) ELSE d6
        /\ b9 /\ x9[1] = "remove default" => d6.default # "none"
    BY <1>2a, <1>11a
  <2>2. q9 = When(b9, <<Alter(n, c, <<x9>>)>>)
    OBVIOUS
  <2>3. x9[1] \in Kinds
    BY <1>2a DEF Kinds
  <2> HIDE DEF k8, j, c, b9, x9, d9, q9
  <2>4. /\ Runs(t8, When(b9, <<Alter(n, c, <<x9>>)>>), t9)
        /\ ChangesTo(d6, b9, x9, d9)
    BY <1>2, <2>1, <2>3, <1>9, ChangeRuns
  <2> QED
    BY <1>2a, <2>2, <2>4 DEF ChangesTo
<1> HIDE DEF d9
<1>13. d9 = ColumnOf(new)
  <2>1. d9.type = ColumnType(new)
    <3>1. FourWay(old, new) => old.null /\ ~new.null
      BY DEF FourWay
    <3>2. ~FourWay(old, new) => EarlyType(old, new) = ColumnType(new)
      <4>1. ColumnType(new) = <<new.type, new.null, IF Enum(new) THEN new.choices ELSE "none">>
        BY DEF ColumnType
      <4> HIDE DEF e
      <4>2. ~FourWay(old, new) => [ColumnType(new) EXCEPT ![2] = @ \/ FourWay(old, new)] = ColumnType(new)
        <5> SUFFICES ASSUME ~FourWay(old, new)
                     PROVE  [ColumnType(new) EXCEPT ![2] = @ \/ FourWay(old, new)] = ColumnType(new)
          OBVIOUS
        <5>1. (ColumnType(new)[2] \/ FourWay(old, new)) = ColumnType(new)[2]
          BY <1>0, <4>1
        <5> QED
          BY <4>1, <5>1
      <4> QED
        BY <4>2 DEF EarlyType
    <3>3. FourWay(old, new) => ColumnType(old) # ColumnType(new)
      BY <1>0, <3>1 DEF ColumnType
    <3>4. ColumnType(old) = ColumnType(new) /\ old.comment = new.comment => d.type = ColumnType(new)
      BY DEF Amid
    <3> QED
      BY <1>6, <1>8, <1>9, <1>12, <3>2, <3>3, <3>4
  <2>2. d9.default = new.db_default
    BY <1>6, <1>8, <1>9, <1>12 DEF Amid, NeedsDatabaseDefault
  <2>3. d9.comment = new.comment
    BY <1>6, <1>8, <1>9, <1>12 DEF Amid
  <2>4. d9 = [type |-> d9.type, default |-> d9.default, comment |-> d9.comment]
    BY <1>12 DEF IsColumn
  <2> QED
    BY <2>1, <2>2, <2>3, <2>4 DEF ColumnOf
<1>14. /\ IsSeq(q1) /\ IsSeq(q2) /\ IsSeq(q3) /\ IsSeq(q4) /\ IsSeq(q5) /\ IsSeq(q6) /\ IsSeq(q7)
       /\ IsSeq(q8) /\ IsSeq(q9)
  <2> HIDE DEF b1, moved, b3, b4, b5, b6, b7, b8, b9, s1, s2, s3, s4, s5, s6, s7, s8, s9
  <2> QED
    BY <1>2, WhenRange
<1> HIDE DEF q1, q2, q3, q4, q5, q6, q7, q8, q9, t0, t1, t2, t3, t5, t6, t8, t9
<1>15. IsSeq(q1 \o q2) /\ Runs(t0, q1 \o q2, t2)
  BY <1>3, <1>4, <1>14, Joined, RunsThen
<1>16. IsSeq(q1 \o q2 \o q3) /\ Runs(t0, q1 \o q2 \o q3, t3)
  BY <1>5, <1>14, <1>15, Joined, RunsThen
<1>17. IsSeq(q1 \o q2 \o q3 \o q4) /\ Runs(t0, q1 \o q2 \o q3 \o q4, t3)
  BY <1>7, <1>14, <1>16, Joined, RunsThen
<1>18. IsSeq(q1 \o q2 \o q3 \o q4 \o q5) /\ Runs(t0, q1 \o q2 \o q3 \o q4 \o q5, t5)
  BY <1>8, <1>14, <1>17, Joined, RunsThen
<1>19. IsSeq(q1 \o q2 \o q3 \o q4 \o q5 \o q6) /\ Runs(t0, q1 \o q2 \o q3 \o q4 \o q5 \o q6, t6)
  BY <1>9, <1>14, <1>18, Joined, RunsThen
<1>20. /\ IsSeq(q1 \o q2 \o q3 \o q4 \o q5 \o q6 \o q7)
       /\ Runs(t0, q1 \o q2 \o q3 \o q4 \o q5 \o q6 \o q7, t6)
  BY <1>10, <1>14, <1>19, Joined, RunsThen
<1>21. /\ IsSeq(q1 \o q2 \o q3 \o q4 \o q5 \o q6 \o q7 \o q8)
       /\ Runs(t0, q1 \o q2 \o q3 \o q4 \o q5 \o q6 \o q7 \o q8, t8)
  BY <1>11, <1>14, <1>20, Joined, RunsThen
<1>22. Runs(t0, AlterFieldSql(n, old, new), t9)
  BY <1>1, <1>12, <1>14, <1>21, RunsThen
<1> QED
  BY <1>13, <1>22 DEF t0, t9

\* The value that takes the place of NULLs.
Replacement(new) == IF new.db_default = "none" THEN new.default ELSE new.db_default

\* The statements of an alteration, each where it is issued.
Altering(s, t, old, new) ==
    \/ old.check /\ (old.column # new.column \/ ~new.check) /\ s = OnColumn("drop check", t, old.column)
    \/ old.column # new.column /\ s = [op |-> "rename column", on |-> cluster, table |-> t,
                                       column |-> old.column, to |-> new.column]
    \/ s = Alter(t, new.column, FirstChanges(old, new))
    \/ FourWay(old, new) /\ ~Distributed /\ s = Fill(t, new.column, Replacement(new), FALSE)
    \/ FourWay(old, new) /\ s = Alter(t, new.column, << <<"type", ColumnType(new)>> >>)
    \/ old.comment # new.comment /\ s = Alter(t, new.column, << <<"comment", new.comment>> >>)
    \/ new.primary_key /\ s = [op |-> "alter related", on |-> cluster, type |-> new.type]
    \/ new.check /\ (old.column # new.column \/ ~old.check) /\ s = OnColumn("add check", t, new.column)
    \/ NeedsDatabaseDefault(old, new) /\ s = Alter(t, new.column, << <<"remove default">> >>)

\* Among the statements q, one updates rows, and only x alters a column before.
FillSplits(q, x) ==
    \E p, f, r : /\ q = p \o <<f>> \o r
                 /\ IsSeq(p) /\ IsSeq(r) /\ f.op = "fill"
                 /\ \A s \in Range(p) : s.op = "alter" => s = x

\* Some that are issued on a condition are among the statements that may be.
LEMMA WhenAmong ==
    ASSUME NEW b \in BOOLEAN, NEW s, NEW S, b => s \in S
    PROVE  IsSeq(When(b, <<s>>)) /\ Range(When(b, <<s>>)) \subseteq S
<1>1. IsSeq(When(b, <<s>>)) /\ Range(When(b, <<s>>)) = IF b THEN {s} ELSE {}
  BY WhenRange
<1> QED
  BY <1>1

\* Sequences are joined in any grouping.
LEMMA Regroup ==
    ASSUME NEW u, NEW v, NEW w, IsSeq(u), IsSeq(v), IsSeq(w)
    PROVE  (u \o v) \o w = u \o (v \o w)
BY DEF IsSeq

\* The statements of an alteration, in two parts: before the UPDATE of the NULLs,
\* and from it on.
LEMMA AlterFieldIs ==
    ASSUME NEW t, NEW old \in Field, NEW new \in Field
    PROVE  /\ IsSeq(AlterFieldSql(t, old, new))
           /\ \A s \in Range(AlterFieldSql(t, old, new)) : Altering(s, t, old, new)
           /\ FourWay(old, new) /\ ~Distributed =>
                FillSplits(AlterFieldSql(t, old, new), Alter(t, new.column, FirstChanges(old, new)))
<1> DEFINE c == new.column
           moved == old.column # c
           value == IF new.db_default = "none" THEN new.default ELSE new.db_default
           b1 == old.check /\ (moved \/ ~new.check)
           b3 == FirstChanges(old, new) # <<>>
           b4 == FourWay(old, new) /\ ~Distributed
           b5 == FourWay(old, new)
           b6 == old.comment # new.comment
           b7 == new.primary_key /\ (~old.primary_key \/ ColumnType(old) # ColumnType(new))
           b8 == new.check /\ (moved \/ ~old.check)
           b9 == NeedsDatabaseDefault(old, new)
           s1 == OnColumn("drop check", t, old.column)
           s2 == [op |-> "rename column", on |-> cluster, table |-> t, column |-> old.column, to |-> c]
           s3 == Alter(t, c, FirstChanges(old, new))
           s4 == Fill(t, c, value, FALSE)
           s5 == Alter(t, c, << <<"type", ColumnType(new)>> >>)
           s6 == Alter(t, c, << <<"comment", new.comment>> >>)
           s7 == [op |-> "alter related", on |-> cluster, type |-> new.type]
           s8 == OnColumn("add check", t, c)
           s9 == Alter(t, c, << <<"remove default">> >>)
           q1 == When(b1, <<s1>>)
           q2 == When(moved, <<s2>>)
           q3 == When(b3, <<s3>>)
           q4 == When(b4, <<s4>>)
           q5 == When(b5, <<s5>>)
           q6 == When(b6, <<s6>>)
           q7 == When(b7, <<s7>>)
           q8 == When(b8, <<s8>>)
           q9 == When(b9, <<s9>>)
           S == {s \in {s1, s2, s3, s4, s5, s6, s7, s8, s9} : Altering(s, t, old, new)}
           p == q1 \o q2 \o q3
<1>0. old.check \in BOOLEAN /\ new.check \in BOOLEAN /\ old.primary_key \in BOOLEAN /\ new.primary_key \in BOOLEAN
  BY SchemaAssumption DEF Field
<1>1. AlterFieldSql(t, old, new) = p \o q4 \o q5 \o q6 \o q7 \o q8 \o q9
  BY DEF AlterFieldSql, RelatedSql
<1>2. /\ b1 \in BOOLEAN /\ moved \in BOOLEAN /\ b3 \in BOOLEAN /\ b4 \in BOOLEAN /\ b5 \in BOOLEAN
      /\ b6 \in BOOLEAN /\ b7 \in BOOLEAN /\ b8 \in BOOLEAN /\ b9 \in BOOLEAN
  BY <1>0 DEF FourWay, NeedsDatabaseDefault, Distributed
<1>3. /\ b1 => s1 \in S
      /\ moved => s2 \in S
      /\ b3 => s3 \in S
      /\ b4 => s4 \in S
      /\ b5 => s5 \in S
      /\ b6 => s6 \in S
      /\ b7 => s7 \in S
      /\ b8 => s8 \in S
      /\ b9 => s9 \in S
  BY DEF Altering, Replacement
<1>4. s4.op = "fill" /\ s3.op = "alter" /\ s1.op = "drop check" /\ s2.op = "rename column"
  BY DEF Fill, Alter, OnColumn
<1>5. \A s \in S : Altering(s, t, old, new)
  OBVIOUS
<1> HIDE DEF S, s1, s2, s3, s4, s5, s6, s7, s8, s9, b1, moved, b3, b4, b5, b6, b7, b8, b9
<1>6. /\ IsSeq(q1) /\ Range(q1) \subseteq S /\ IsSeq(q2) /\ Range(q2) \subseteq S
      /\ IsSeq(q3) /\ Range(q3) \subseteq S /\ IsSeq(q4) /\ Range(q4) \subseteq S
      /\ IsSeq(q5) /\ Range(q5) \subseteq S /\ IsSeq(q6) /\ Range(q6) \subseteq S
      /\ IsSeq(q7) /\ Range(q7) \subseteq S /\ IsSeq(q8) /\ Range(q8) \subseteq S
      /\ IsSeq(q9) /\ Range(q9) \subseteq S
  BY <1>2, <1>3, WhenAmong
<1>7. Range(q1) \subseteq {s1} /\ Range(q2) \subseteq {s2} /\ Range(q3) \subseteq {s3}
  BY <1>2, WhenRange
<1>8. b4 => q4 = <<s4>>
  BY DEF When
<1> HIDE DEF q1, q2, q3, q4, q5, q6, q7, q8, q9
<1>9. IsSeq(p) /\ Range(p) \subseteq S /\ Range(p) \subseteq {s1, s2, s3}
  <2>1. IsSeq(q1 \o q2) /\ Range(q1 \o q2) \subseteq S /\ Range(q1 \o q2) \subseteq {s1, s2}
    BY <1>6, <1>7, Joined
  <2> QED
    BY <1>6, <1>7, <2>1, Joined
<1> HIDE DEF p
<1>10. IsSeq(p \o q4) /\ Range(p \o q4) \subseteq S
  BY <1>6, <1>9, Joined
<1>11. IsSeq(p \o q4 \o q5) /\ Range(p \o q4 \o q5) \subseteq S
  BY <1>6, <1>10, Joined
<1>12. IsSeq(p \o q4 \o q5 \o q6) /\ Range(p \o q4 \o q5 \o q6) \subseteq S
  BY <1>6, <1>11, Joined
<1>13. IsSeq(p \o q4 \o q5 \o q6 \o q7) /\ Range(p \o q4 \o q5 \o q6 \o q7) \subseteq S
  BY <1>6, <1>12, Joined
<1>14. IsSeq(p \o q4 \o q5 \o q6 \o q7 \o q8) /\ Range(p \o q4 \o q5 \o q6 \o q7 \o q8) \subseteq S
  BY <1>6, <1>13, Joined
<1>15. IsSeq(AlterFieldSql(t, old, new)) /\ Range(AlterFieldSql(t, old, new)) \subseteq S
  BY <1>1, <1>6, <1>14, Joined
<1>16. ASSUME b4
       PROVE  FillSplits(AlterFieldSql(t, old, new), s3)
  <2> DEFINE r5 == q5 \o q6
             r6 == r5 \o q7
             r7 == r6 \o q8
             r8 == r7 \o q9
             h == p \o q4
  <2>1. IsSeq(r5)
    BY <1>6, Joined
  <2>2. IsSeq(r6)
    <3> HIDE DEF r5
    <3> QED
      BY <1>6, <2>1, Joined
  <2>3. IsSeq(r7)
    <3> HIDE DEF r6
    <3> QED
      BY <1>6, <2>2, Joined
  <2>4. IsSeq(r8)
    <3> HIDE DEF r7
    <3> QED
      BY <1>6, <2>3, Joined
  <2> HIDE DEF h
  <2>6. IsSeq(h)
    BY <1>10 DEF h
  <2>7. (h \o q5) \o q6 = h \o r5
    <3>1. IsSeq(h) /\ IsSeq(q5) /\ IsSeq(q6) /\ r5 = q5 \o q6
      BY <1>6, <2>6
    <3> HIDE DEF r5
    <3> QED
      BY <3>1, Regroup
  <2> HIDE DEF r5
  <2>8. (h \o r5) \o q7 = h \o r6
    <3>1. IsSeq(h) /\ IsSeq(r5) /\ IsSeq(q7) /\ r6 = r5 \o q7
      BY <1>6, <2>1, <2>6
    <3> HIDE DEF r6
    <3> QED
      BY <3>1, Regroup
  <2> HIDE DEF r6
  <2>9. (h \o r6) \o q8 = h \o r7
    <3>1. IsSeq(h) /\ IsSeq(r6) /\ IsSeq(q8) /\ r7 = r6 \o q8
      BY <1>6, <2>2, <2>6
    <3> HIDE DEF r7
    <3> QED
      BY <3>1, Regroup
  <2> HIDE DEF r7
  <2>10. (h \o r7) \o q9 = h \o r8
    <3>1. IsSeq(h) /\ IsSeq(r7) /\ IsSeq(q9) /\ r8 = r7 \o q9
      BY <1>6, <2>3, <2>6
    <3> HIDE DEF r8
    <3> QED
      BY <3>1, Regroup
  <2> HIDE DEF r8
  <2>11. AlterFieldSql(t, old, new) = h \o r8
    BY <1>1, <2>7, <2>8, <2>9, <2>10 DEF h
  <2>12. AlterFieldSql(t, old, new) = p \o <<s4>> \o r8
    BY <1>8, <1>16, <2>11 DEF h
  <2>13. \A s \in Range(p) : s.op = "alter" => s = s3
    BY <1>4, <1>9
  <2> QED
    BY <1>4, <1>9, <2>4, <2>12, <2>13 DEF FillSplits
<1> QED
  BY <1>5, <1>15, <1>16 DEF b4, s3

-----------------------------------------------------------------------------
(* What the other statements make of a table, with a column or without.    *)

\* A table without a column, and without rows.
IsColumnless(t, n, k, r) ==
    /\ IsTable(t) /\ t.table = n /\ t.rows = FALSE /\ t.values = {} /\ t.checks = k
    /\ t.index = "none" /\ t.constraint = r /\ DOMAIN t.columns = {}

\* RENAME of a table with a column.
LEMMA RenameTableNarrow ==
    ASSUME NEW n, NEW k, NEW i, NEW r, NEW c, NEW d, NEW s,
           s.op = "rename", s.table = n
    PROVE  Makes(Narrow(n, k, i, r, c, d), s, Narrow(s.to, k, i, r, c, d))
<1> DEFINE t == Narrow(n, k, i, r, c, d)
<1>1. /\ IsTable(t) /\ t.table = n /\ t.rows = FALSE /\ t.values = {} /\ t.checks = k
      /\ t.index = i /\ t.constraint = r /\ t.columns = One(c, d)
      /\ DOMAIN t.columns = {c} /\ t.columns[c] = d
  <2>1. IsNarrow(t, n, k, i, r, c, d)
    BY NarrowParts
  <2> HIDE DEF t
  <2> QED
    BY <2>1 DEF IsNarrow
<1> HIDE DEF t
<1>2. Legal(t, s)
  BY <1>1 DEF Legal
<1>3. After(t, s) = Tab(s.to, t.rows, t.values, t.checks, t.index, t.constraint, t.columns)
  BY <1>1, AfterTab
<1>4. After(t, s) = Narrow(s.to, k, i, r, c, d)
  BY <1>1, <1>3 DEF Narrow, Rowless
<1> QED
  BY <1>2, <1>4 DEF Makes, Fine, Made, Aside, t

\* ADD CONSTRAINT to one.
LEMMA AddConstraintNarrow ==
    ASSUME NEW n, NEW k, NEW i, NEW r, NEW c, NEW d, NEW s,
           NEW w, w = TRUE, r = FALSE, s.op = "add constraint", s.table = n
    PROVE  Makes(Narrow(n, k, i, r, c, d), s, Narrow(n, k, i, w, c, d))
<1> DEFINE t == Narrow(n, k, i, r, c, d)
<1>1. /\ IsTable(t) /\ t.table = n /\ t.rows = FALSE /\ t.values = {} /\ t.checks = k
      /\ t.index = i /\ t.constraint = r /\ t.columns = One(c, d)
      /\ DOMAIN t.columns = {c} /\ t.columns[c] = d
  <2>1. IsNarrow(t, n, k, i, r, c, d)
    BY NarrowParts
  <2> HIDE DEF t
  <2> QED
    BY <2>1 DEF IsNarrow
<1> HIDE DEF t
<1>2. Legal(t, s)
  BY <1>1 DEF Legal
<1>3. After(t, s) = Tab(t.table, t.rows, t.values, t.checks, t.index, w, t.columns)
  BY <1>1, AfterTab
<1>4. After(t, s) = Narrow(n, k, i, w, c, d)
  BY <1>1, <1>3 DEF Narrow, Rowless
<1> QED
  BY <1>2, <1>4 DEF Makes, Fine, Made, Aside, t

\* DROP CONSTRAINT of one.
LEMMA DropConstraintNarrow ==
    ASSUME NEW n, NEW k, NEW i, NEW r, NEW c, NEW d, NEW s,
           NEW w, w = FALSE, r = TRUE, s.op = "drop constraint", s.table = n
    PROVE  Makes(Narrow(n, k, i, r, c, d), s, Narrow(n, k, i, w, c, d))
<1> DEFINE t == Narrow(n, k, i, r, c, d)
<1>1. /\ IsTable(t) /\ t.table = n /\ t.rows = FALSE /\ t.values = {} /\ t.checks = k
      /\ t.index = i /\ t.constraint = r /\ t.columns = One(c, d)
      /\ DOMAIN t.columns = {c} /\ t.columns[c] = d
  <2>1. IsNarrow(t, n, k, i, r, c, d)
    BY NarrowParts
  <2> HIDE DEF t
  <2> QED
    BY <2>1 DEF IsNarrow
<1> HIDE DEF t
<1>2. Legal(t, s)
  BY <1>1 DEF Legal
<1>3. After(t, s) = Tab(t.table, t.rows, t.values, t.checks, t.index, w, t.columns)
  BY <1>1, AfterTab
<1>4. After(t, s) = Narrow(n, k, i, w, c, d)
  BY <1>1, <1>3 DEF Narrow, Rowless
<1> QED
  BY <1>2, <1>4 DEF Makes, Fine, Made, Aside, t

\* DROP COLUMN of one without an index leaves the checks.
LEMMA DropColumnNarrow ==
    ASSUME NEW n, NEW k, NEW r, NEW c, NEW d, NEW s, s.op = "drop column", s.table = n, s.column = c
    PROVE  \E u : Makes(Narrow(n, k, "none", r, c, d), s, u) /\ IsColumnless(u, n, k, r)
<1> DEFINE i == "none"
<1>0. i = "none"
  OBVIOUS
<1> HIDE DEF i
<1> DEFINE t == Narrow(n, k, i, r, c, d)
<1>1. /\ IsTable(t) /\ t.table = n /\ t.rows = FALSE /\ t.values = {} /\ t.checks = k
      /\ t.index = i /\ t.constraint = r /\ t.columns = One(c, d)
      /\ DOMAIN t.columns = {c} /\ t.columns[c] = d
  <2>1. IsNarrow(t, n, k, i, r, c, d)
    BY NarrowParts
  <2> HIDE DEF t
  <2> QED
    BY <2>1 DEF IsNarrow
<1> HIDE DEF t
<1>2. Legal(t, s)
  BY <1>1 DEF Legal
<1> DEFINE e == [x \in DOMAIN t.columns \ {s.column} |-> t.columns[x]]
           u == Tab(t.table, t.rows, {}, t.checks, t.index, t.constraint, e)
<1>3. After(t, s) = u
  BY <1>1, AfterTab
<1>4. DOMAIN e = {}
  BY <1>1
<1> HIDE DEF e
<1>5. IsTable(u) /\ u.table = t.table /\ u.rows = t.rows /\ u.values = {} /\ u.checks = t.checks
      /\ u.index = t.index /\ u.constraint = t.constraint /\ u.columns = e
  BY DEF Tab, IsTable
<1> HIDE DEF u
<1>6. IsColumnless(u, n, k, r)
  BY <1>0, <1>1, <1>4, <1>5 DEF IsColumnless
<1>7. Makes(t, s, u)
  BY <1>2, <1>3 DEF Makes, Fine, Made, Aside
<1> QED
  BY <1>0, <1>6, <1>7 DEF t

\* The check of a column that is gone can be dropped.
LEMMA DropCheckColumnless ==
    ASSUME NEW t, NEW n, NEW k, NEW r, IsColumnless(t, n, k, r), NEW s,
           s.op = "drop check", s.table = n, s.column \in k
    PROVE  \E u : Makes(t, s, u) /\ IsColumnless(u, n, k \ {s.column}, r)
<1>1. /\ IsTable(t) /\ t.table = n /\ t.rows = FALSE /\ t.values = {} /\ t.checks = k
      /\ t.index = "none" /\ t.constraint = r /\ DOMAIN t.columns = {}
  BY DEF IsColumnless
<1> DEFINE u == Tab(t.table, t.rows, t.values, t.checks \ {s.column}, t.index, t.constraint, t.columns)
<1>2. Legal(t, s)
  BY <1>1 DEF Legal
<1>3. After(t, s) = u
  BY <1>1, AfterTab
<1>4. IsColumnless(u, n, k \ {s.column}, r)
  BY <1>1 DEF IsColumnless, Tab, IsTable
<1> HIDE DEF u
<1>5. Makes(t, s, u)
  BY <1>2, <1>3 DEF Makes, Fine, Made, Aside
<1> QED
  BY <1>4, <1>5

\* RENAME of a table without a column.
LEMMA RenameTableColumnless ==
    ASSUME NEW t, NEW n, NEW k, NEW r, IsColumnless(t, n, k, r), NEW s,
           s.op = "rename", s.table = n
    PROVE  \E u : Makes(t, s, u) /\ IsColumnless(u, s.to, k, r)
<1>1. /\ IsTable(t) /\ t.table = n /\ t.rows = FALSE /\ t.values = {} /\ t.checks = k
      /\ t.index = "none" /\ t.constraint = r /\ DOMAIN t.columns = {}
  BY DEF IsColumnless
<1> DEFINE u == Tab(s.to, t.rows, t.values, t.checks, t.index, t.constraint, t.columns)
<1>2. Legal(t, s)
  BY <1>1 DEF Legal
<1>3. After(t, s) = u
  BY <1>1, AfterTab
<1>4. IsColumnless(u, s.to, k, r)
  BY <1>1 DEF IsColumnless, Tab, IsTable
<1> HIDE DEF u
<1>5. Makes(t, s, u)
  BY <1>2, <1>3 DEF Makes, Fine, Made, Aside
<1> QED
  BY <1>4, <1>5

\* ADD CONSTRAINT to one.
LEMMA AddConstraintColumnless ==
    ASSUME NEW t, NEW n, NEW k, NEW r, IsColumnless(t, n, k, r), NEW s,
           NEW w, w = TRUE, r = FALSE, s.op = "add constraint", s.table = n
    PROVE  \E u : Makes(t, s, u) /\ IsColumnless(u, n, k, w)
<1>1. /\ IsTable(t) /\ t.table = n /\ t.rows = FALSE /\ t.values = {} /\ t.checks = k
      /\ t.index = "none" /\ t.constraint = r /\ DOMAIN t.columns = {}
  BY DEF IsColumnless
<1> DEFINE u == Tab(t.table, t.rows, t.values, t.checks, t.index, w, t.columns)
<1>2. Legal(t, s)
  BY <1>1 DEF Legal
<1>3. After(t, s) = u
  BY <1>1, AfterTab
<1>4. IsColumnless(u, n, k, w)
  BY <1>1 DEF IsColumnless, Tab, IsTable
<1> HIDE DEF u
<1>5. Makes(t, s, u)
  BY <1>2, <1>3 DEF Makes, Fine, Made, Aside
<1> QED
  BY <1>4, <1>5

\* DROP CONSTRAINT of one.
LEMMA DropConstraintColumnless ==
    ASSUME NEW t, NEW n, NEW k, NEW r, IsColumnless(t, n, k, r), NEW s,
           NEW w, w = FALSE, r = TRUE, s.op = "drop constraint", s.table = n
    PROVE  \E u : Makes(t, s, u) /\ IsColumnless(u, n, k, w)
<1>1. /\ IsTable(t) /\ t.table = n /\ t.rows = FALSE /\ t.values = {} /\ t.checks = k
      /\ t.index = "none" /\ t.constraint = r /\ DOMAIN t.columns = {}
  BY DEF IsColumnless
<1> DEFINE u == Tab(t.table, t.rows, t.values, t.checks, t.index, w, t.columns)
<1>2. Legal(t, s)
  BY <1>1 DEF Legal
<1>3. After(t, s) = u
  BY <1>1, AfterTab
<1>4. IsColumnless(u, n, k, w)
  BY <1>1 DEF IsColumnless, Tab, IsTable
<1> HIDE DEF u
<1>5. Makes(t, s, u)
  BY <1>2, <1>3 DEF Makes, Fine, Made, Aside
<1> QED
  BY <1>4, <1>5

\* ADD COLUMN makes the column of one without.
LEMMA AddColumnColumnless ==
    ASSUME NEW t, NEW n, NEW k, NEW r, IsColumnless(t, n, k, r), NEW s,
           s.op = "add column", s.table = n
    PROVE  Makes(t, s, Narrow(n, k, "none", r, s.column, s.definition))
<1>1. /\ IsTable(t) /\ t.table = n /\ t.rows = FALSE /\ t.values = {} /\ t.checks = k
      /\ t.index = "none" /\ t.constraint = r /\ DOMAIN t.columns = {}
  BY DEF IsColumnless
<1>2. Legal(t, s)
  BY <1>1 DEF Legal
<1> DEFINE e == [x \in DOMAIN t.columns \cup {s.column} |->
                   IF x = s.column THEN s.definition ELSE t.columns[x]]
<1>3. After(t, s) = Tab(t.table, t.rows, Initial(t, s.definition), t.checks, t.index, t.constraint, e)
  BY <1>1, AfterTab
<1>4. e = One(s.column, s.definition)
  BY <1>1 DEF One
<1>5. Initial(t, s.definition) = {}
  BY <1>1 DEF Initial
<1> HIDE DEF e
<1>6. After(t, s) = Narrow(n, k, "none", r, s.column, s.definition)
  BY <1>1, <1>3, <1>4, <1>5 DEF Narrow, Rowless
<1> QED
  BY <1>2, <1>6 DEF Makes, Fine, Made, Aside

\* DROP TABLE, of any table.
LEMMA DropMakes ==
    ASSUME NEW t, NEW s, s.op = "drop", s.table = t.table
    PROVE  Makes(t, s, NoTable)
<1>1. Legal(t, s)
  BY DEF Legal
<1>2. After(t, s) = NoTable
  BY DEF After
<1> QED
  BY <1>1, <1>2 DEF Makes, Fine, Made, Aside

\* CREATE TABLE makes the table that the model says.
LEMMA CreateMakes ==
    ASSUME NEW m \in Model
    PROVE  /\ m.field = NoField =>
                \E u : Makes(NoTable, Create(m), u) /\ IsColumnless(u, m.table, {}, m.constraint)
           /\ m.field # NoField =>
                Makes(NoTable, Create(m),
                      Narrow(m.table, IF m.field.check THEN {m.field.column} ELSE {}, "none", m.constraint,
                             m.field.column, ColumnOf(m.field)))
<1> DEFINE s == Create(m)
           no == FALSE
           cols == IF s.columns = <<>> THEN <<>> ELSE [c \in {s.columns[1]} |-> s.columns[2]]
           a == Tab(s.table, no, {}, s.checks, "none", s.constraint, cols)
<1>1. /\ s.op = "create" /\ s.table = m.table /\ s.constraint = m.constraint
      /\ s.columns = (IF m.field = NoField THEN <<>> ELSE <<m.field.column, ColumnOf(m.field)>>)
      /\ s.checks = IF m.field # NoField /\ m.field.check THEN {m.field.column} ELSE {}
  BY DEF Create
<1> HIDE DEF s
<1>2. After(NoTable, s) = a
  BY <1>1 DEF After, Tab
<1>3. Legal(NoTable, s)
  BY <1>1 DEF Legal
<1>4. Makes(NoTable, s, a)
  BY <1>1, <1>2, <1>3 DEF Makes, Fine, Made, Aside
<1>5. ASSUME m.field = NoField PROVE IsColumnless(a, m.table, {}, m.constraint)
  <2>1. s.columns = <<>> /\ s.checks = {}
    BY <1>1, <1>5
  <2>2. DOMAIN cols = {}
    BY <2>1
  <2> HIDE DEF cols
  <2>3. /\ IsTable(a) /\ a.table = s.table /\ a.rows = no /\ a.values = {} /\ a.checks = s.checks
        /\ a.index = "none" /\ a.constraint = s.constraint /\ a.columns = cols
    BY DEF Tab, IsTable
  <2> HIDE DEF a
  <2> QED
    BY <1>1, <2>1, <2>2, <2>3 DEF IsColumnless
<1>6. ASSUME m.field # NoField
      PROVE  a = Narrow(m.table, IF m.field.check THEN {m.field.column} ELSE {}, "none", m.constraint,
                        m.field.column, ColumnOf(m.field))
  <2> DEFINE f == m.field
             d == ColumnOf(f)
  <2>1. s.columns = <<f.column, d>> /\ s.checks = IF f.check THEN {f.column} ELSE {}
    BY <1>1, <1>6
  <2> HIDE DEF d
  <2>2. s.columns # <<>> /\ s.columns[1] = f.column /\ s.columns[2] = d
    BY <2>1
  <2>3. cols = One(f.column, d)
    BY <2>2 DEF One
  <2> HIDE DEF cols
  <2> QED
    BY <1>1, <2>1, <2>3 DEF Narrow, Rowless, d
<1> HIDE DEF a
<1> QED
  BY <1>4, <1>5, <1>6 DEF s

-----------------------------------------------------------------------------
(* The table that a model says, and where the statements of an operation    *)
(* lead.                                                                    *)

\* The checks and the index of a model with a field.
ChecksOf(m) == IF m.field.check THEN {m.field.column} ELSE {}
IndexOf(m) == IF m.index THEN m.field.column ELSE "none"
AddIndexSql(m) == OnColumn("add index", m.table, m.field.column)
AddCheckSql(m) == OnColumn("add check", m.table, m.field.column)

\* The checks k and the index i are those of the model, but for one that is deferred.
Pending(m, k, i, later) ==
    \/ later = <<>> /\ k = ChecksOf(m) /\ i = IndexOf(m)
    \/ later = <<AddIndexSql(m)>> /\ m.index /\ k = ChecksOf(m) /\ i = "none"
    \/ later = <<AddCheckSql(m)>> /\ m.field.check /\ k = {} /\ i = IndexOf(m)

\* The bare table is as the model says, but for what is deferred.
Meets(t, m, later) ==
    \/ m.table = "none" /\ t = NoTable /\ later = <<>>
    \/ /\ m.table # "none" /\ m.field = NoField
       /\ IsColumnless(t, m.table, {}, m.constraint) /\ later = <<>>
    \/ /\ m.table # "none" /\ m.field # NoField
       /\ \E k, i : /\ t = Narrow(m.table, k, i, m.constraint, m.field.column, ColumnOf(m.field))
                    /\ Pending(m, k, i, later)

\* The statements make it so, unless one of them raises an error.
Leads(t, q, m, later) ==
    \E u : Runs(t, q, u) /\ (Meets(u, m, later) \/ \E s \in Range(q) : s.op = "raise")

\* A single statement.
LEMMA MakesRuns ==
    ASSUME NEW t, NEW s, NEW u, Makes(t, s, u)
    PROVE  Runs(t, <<s>>, u)
<1>1. Runs(t, <<s>>, Made(t, s)) /\ Made(t, s) = u
  BY RunsOne DEF Makes
<1> QED
  BY <1>1

\* A statement that is left aside.
LEMMA AsideMakes ==
    ASSUME NEW t, NEW s, Aside(s)
    PROVE  Makes(t, s, t)
BY DEF Makes, Fine, Made, Aside

\* It leads to what it makes.
LEMMA MakesLeads ==
    ASSUME NEW t, NEW s, NEW u, Makes(t, s, u), NEW m, NEW later, Meets(u, m, later)
    PROVE  Leads(t, <<s>>, m, later)
<1>1. Runs(t, <<s>>, u)
  BY MakesRuns
<1> QED
  BY <1>1 DEF Leads

\* The only member of a sequence.
LEMMA OnlyOne ==
    ASSUME NEW x
    PROVE  /\ \A j \in DOMAIN <<x>> : <<x>>[j] = x
           /\ \E j \in DOMAIN <<x>> : <<x>>[j] = x
<1>1. Range(<<x>>) = {x}
  BY Single
<1> DEFINE q == <<x>>
<1> HIDE DEF q
<1>2. \A j \in DOMAIN q : q[j] \in Range(q)
  BY DEF Range
<1>3. x \in Range(q) => \E j \in DOMAIN q : q[j] = x
  BY DEF Range
<1> QED
  BY <1>1, <1>2, <1>3 DEF q

\* Where all that is deferred can be found again, no check is.
LEMMA NoCheckPending ==
    ASSUME NEW m, NEW k, NEW i, NEW later, Pending(m, k, i, later),
           \A j \in DOMAIN later : Tracked(later[j])
    PROVE  /\ k = ChecksOf(m)
           /\ \/ later = <<>> /\ i = IndexOf(m)
              \/ later = <<AddIndexSql(m)>> /\ m.index /\ i = "none"
<1>1. later # <<AddCheckSql(m)>>
  <2>1. AddCheckSql(m).op = "add check"
    BY DEF AddCheckSql, OnColumn
  <2>2. \E j \in DOMAIN <<AddCheckSql(m)>> : <<AddCheckSql(m)>>[j] = AddCheckSql(m)
    BY OnlyOne
  <2> QED
    BY <2>1, <2>2 DEF Tracked
<1> QED
  BY <1>1 DEF Pending

\* Where nothing that is deferred can be found again, no index is.
LEMMA NoIndexPending ==
    ASSUME NEW m, NEW k, NEW i, NEW later, Pending(m, k, i, later),
           \A j \in DOMAIN later : ~Tracked(later[j])
    PROVE  /\ i = IndexOf(m)
           /\ \/ later = <<>> /\ k = ChecksOf(m)
              \/ later = <<AddCheckSql(m)>> /\ m.field.check /\ k = {}
<1>1. later # <<AddIndexSql(m)>>
  <2>1. AddIndexSql(m).op = "add index"
    BY DEF AddIndexSql, OnColumn
  <2>2. \E j \in DOMAIN <<AddIndexSql(m)>> : <<AddIndexSql(m)>>[j] = AddIndexSql(m)
    BY OnlyOne
  <2> QED
    BY <2>1, <2>2 DEF Tracked
<1> QED
  BY <1>1 DEF Pending

\* create_model makes the table of the model.
LEMMA CreateModelLeads ==
    ASSUME NEW m \in Model, m.table # "none", m.index => m.field # NoField
    PROVE  Leads(NoTable, CreateModelSql(m), m,
                 IF m.index /\ engine = "MergeTree" THEN <<AddIndexSql(m)>> ELSE <<>>)
<1> DEFINE c == m.index /\ engine # "MergeTree"
           s == Create(m)
           e == On("raise", m.table)
           q == CreateModelSql(m)
           later == IF m.index /\ engine = "MergeTree" THEN <<AddIndexSql(m)>> ELSE <<>>
<1>1. c \in BOOLEAN /\ m.index \in BOOLEAN
  BY DEF Model
<1>2. q = <<s>> \o When(c, <<e>>)
  BY DEF CreateModelSql
<1>3. e.op = "raise"
  BY DEF On
<1>4. \E u : Makes(NoTable, s, u) /\ (c \/ Meets(u, m, later))
  <2>1. CASE m.field = NoField
    <3>1. PICK u : Makes(NoTable, s, u) /\ IsColumnless(u, m.table, {}, m.constraint)
      BY <2>1, CreateMakes
    <3>2. later = <<>>
      BY <2>1
    <3> HIDE DEF later, s
    <3>3. Meets(u, m, later)
      BY <2>1, <3>1, <3>2 DEF Meets
    <3> QED
      BY <3>1, <3>3
  <2>2. CASE m.field # NoField
    <3> DEFINE u == Narrow(m.table, ChecksOf(m), "none", m.constraint, m.field.column, ColumnOf(m.field))
    <3>1. Makes(NoTable, s, u)
      BY <2>2, CreateMakes DEF ChecksOf
    <3>2. c \/ Pending(m, ChecksOf(m), "none", later)
      BY <1>1 DEF Pending, IndexOf
    <3>3. c \/ Meets(u, m, later)
      <4> HIDE DEF c, later
      <4> QED
        BY <2>2, <3>2 DEF Meets
    <3> HIDE DEF u
    <3> QED
      BY <3>1, <3>3
  <2> QED
    BY <2>1, <2>2
<1> HIDE DEF c, s, e, later
<1>5. PICK u : Makes(NoTable, s, u) /\ (c \/ Meets(u, m, later))
  BY <1>4
<1>6. Runs(NoTable, <<s>>, u)
  BY <1>5, MakesRuns
<1>7. Runs(u, When(c, <<e>>), u)
  <2>1. Aside(e)
    BY <1>3 DEF Aside
  <2>2. Makes(u, e, u)
    BY <2>1, AsideMakes
  <2> QED
    BY <1>1, <2>2, SameRuns
<1>8. /\ IsSeq(<<s>>) /\ IsSeq(When(c, <<e>>)) /\ Range(When(c, <<e>>)) = IF c THEN {e} ELSE {}
      /\ Range(<<s>> \o When(c, <<e>>)) = Range(<<s>>) \cup Range(When(c, <<e>>))
  BY <1>1, Single, WhenRange, Joined
<1>9. Runs(NoTable, q, u)
  BY <1>2, <1>6, <1>7, <1>8, RunsThen
<1>10. c => e \in Range(q)
  BY <1>2, <1>8
<1> HIDE DEF q
<1>11. Leads(NoTable, q, m, later)
  BY <1>3, <1>5, <1>9, <1>10 DEF Leads
<1> QED
  BY <1>11 DEF q, later

\* delete_model drops it.
LEMMA DeleteModelLeads ==
    ASSUME NEW t, NEW m, NEW later, Meets(t, m, later), m.table # "none", NEW w, w.table = "none"
    PROVE  Leads(t, <<On("drop", m.table)>>, w, <<>>)
<1>1. t.table = m.table
  <2>1. CASE m.field = NoField
    BY <2>1 DEF Meets, IsColumnless
  <2>2. CASE m.field # NoField
    <3>1. PICK k, i : t = Narrow(m.table, k, i, m.constraint, m.field.column, ColumnOf(m.field))
      BY <2>2 DEF Meets
    <3>2. IsNarrow(t, m.table, k, i, m.constraint, m.field.column, ColumnOf(m.field))
      BY <3>1, NarrowParts
    <3> QED
      BY <3>2 DEF IsNarrow
  <2> QED
    BY <2>1, <2>2
<1>2. On("drop", m.table).op = "drop" /\ On("drop", m.table).table = m.table
  BY DEF On
<1>3. Makes(t, On("drop", m.table), NoTable)
  BY <1>1, <1>2, DropMakes
<1>4. Meets(NoTable, w, <<>>)
  BY DEF Meets
<1> QED
  BY <1>3, <1>4, MakesLeads

\* A table with the column of the model.
LEMMA NarrowMeets ==
    ASSUME NEW m, m.table # "none", m.field # NoField, NEW k, NEW i, NEW later, Pending(m, k, i, later)
    PROVE  Meets(Narrow(m.table, k, i, m.constraint, m.field.column, ColumnOf(m.field)), m, later)
BY DEF Meets

\* The same statement in the place of another.
LEMMA MapOne ==
    ASSUME NEW x, NEW y, NEW q, DOMAIN q = DOMAIN <<x>>, IsSeq(q) \/ q = [j \in DOMAIN q |-> q[j]],
           \A j \in DOMAIN q : q[j] = y
    PROVE  q = <<y>>
<1>1. DOMAIN q = DOMAIN <<y>>
  OBVIOUS
<1>2. \A j \in DOMAIN q : q[j] = <<y>>[j]
  BY <1>1, OnlyOne
<1>3. q = [j \in DOMAIN q |-> q[j]]
  BY DEF IsSeq
<1>4. <<y>> = [j \in DOMAIN <<y>> |-> <<y>>[j]]
  OBVIOUS
<1> DEFINE p == <<y>>
<1>5. DOMAIN q = DOMAIN p /\ (\A j \in DOMAIN q : q[j] = p[j]) /\ p = [j \in DOMAIN p |-> p[j]]
  BY <1>1, <1>2, <1>4
<1> HIDE DEF p
<1>6. q = p
  BY <1>3, <1>5
<1> QED
  BY <1>6 DEF p

\* Without a field nothing is deferred.
LEMMA NothingLater ==
    ASSUME NEW t, NEW m, NEW later, Meets(t, m, later), m.field = NoField
    PROVE  later = <<>>
BY DEF Meets

\* A field has a check or none.
LEMMA FieldChecks ==
    ASSUME NEW f \in Field
    PROVE  f.check \in BOOLEAN
BY SchemaAssumption DEF Field

\* add_field makes the column, and may defer the check.
LEMMA AddFieldLeads ==
    ASSUME NEW t, NEW m, NEW later, Meets(t, m, later), m.table # "none", m.field = NoField, m.index = FALSE,
           NEW f \in Field, NEW w, w.table = m.table, w.field = f, w.index = FALSE, w.constraint = m.constraint,
           NEW next, next = IF f.check THEN <<OnColumn("add check", m.table, f.column)>> ELSE <<>>
    PROVE  Leads(t, AddFieldSql(m.table, f), w, next)
<1> DEFINE n == m.table
           yes == TRUE
           c == f.db_default = "none" /\ f.default # "none" /\ ~Distributed
           s == AddColumn(n, f)
           e == Fill(n, f.column, f.default, yes)
           u == Narrow(n, {}, "none", m.constraint, f.column, ColumnOf(f))
<1>1. later = <<>> /\ IsColumnless(t, n, {}, m.constraint)
  BY DEF Meets
<1>2. s.op = "add column" /\ s.table = n /\ s.column = f.column /\ s.definition = ColumnOf(f)
  BY DEF AddColumn
<1>3. AddFieldSql(n, f) = <<s>> \o When(c, <<e>>)
  BY DEF AddFieldSql, AddColumn
<1>4. c \in BOOLEAN
  BY DEF Distributed
<1>5. f # NoField /\ f.check \in BOOLEAN
  BY FieldIsOne, FieldChecks
<1>6. Pending(w, {}, "none", next)
  BY <1>5 DEF Pending, ChecksOf, IndexOf, AddCheckSql
<1> HIDE DEF c, s, yes, n
<1>7. Makes(t, s, u)
  <2>1. Makes(t, s, Narrow(n, {}, "none", m.constraint, s.column, s.definition))
    BY <1>1, <1>2, AddColumnColumnless
  <2> QED
    BY <1>2, <2>1
<1>8. Makes(u, e, u)
  BY FillNarrow
<1>9. Meets(u, w, next)
  <2>1. w.table = n
    BY DEF n
  <2>2. Meets(Narrow(w.table, {}, "none", w.constraint, w.field.column, ColumnOf(w.field)), w, next)
    BY <1>5, <1>6, NarrowMeets
  <2> QED
    BY <2>1, <2>2
<1> HIDE DEF u, e
<1>10. Runs(t, <<s>>, u)
  BY <1>7, MakesRuns
<1>11. Runs(u, When(c, <<e>>), u)
  BY <1>4, <1>8, SameRuns
<1>12. IsSeq(<<s>>) /\ IsSeq(When(c, <<e>>))
  BY <1>4, Single, WhenRange
<1>13. Runs(t, <<s>> \o When(c, <<e>>), u)
  BY <1>10, <1>11, <1>12, RunsThen
<1>14. Leads(t, AddFieldSql(n, f), w, next)
  BY <1>3, <1>9, <1>13 DEF Leads
<1> QED
  BY <1>14 DEF n

\* remove_field drops it, and its check.
LEMMA RemoveFieldLeads ==
    ASSUME NEW t, NEW m, NEW later, Meets(t, m, later), m.table # "none", m.field \in Field,
           \A j \in DOMAIN later : Tracked(later[j]), m.index => later # <<>>,
           NEW w, w.table = m.table, w.field = NoField, w.constraint = m.constraint
    PROVE  Leads(t, RemoveFieldSql(m.table, m.field), w, <<>>)
<1> DEFINE n == m.table
           f == m.field
           c == f.column
           b == f.check
           s == OnColumn("drop column", n, c)
           e == OnColumn("drop check", n, c)
<1>1. f # NoField /\ b \in BOOLEAN
  BY FieldIsOne, SchemaAssumption DEF Field
<1>2. PICK k, i : t = Narrow(n, k, i, m.constraint, c, ColumnOf(f)) /\ Pending(m, k, i, later)
  BY <1>1 DEF Meets
<1>3. k = ChecksOf(m) /\ ((later = <<>> /\ i = IndexOf(m)) \/ i = "none")
  BY <1>2, NoCheckPending
<1>4. i = "none" /\ (b => c \in k /\ k \ {c} = {}) /\ (~b => k = {})
  BY <1>3 DEF IndexOf, ChecksOf
<1>5. /\ s.op = "drop column" /\ s.table = n /\ s.column = c
      /\ e.op = "drop check" /\ e.table = n /\ e.column = c
  BY DEF OnColumn
<1>6. RemoveFieldSql(n, f) = <<s>> \o When(b, <<e>>)
  BY DEF RemoveFieldSql
<1> HIDE DEF n, b, s, e
<1>7. PICK u : Makes(t, s, u) /\ IsColumnless(u, n, k, m.constraint)
  <2> HIDE DEF f, c
  <2> DEFINE d == ColumnOf(f)
             r == m.constraint
  <2> HIDE DEF d, r
  <2>1. \E u : Makes(Narrow(n, k, "none", r, c, d), s, u) /\ IsColumnless(u, n, k, r)
    BY <1>5, DropColumnNarrow
  <2> QED
    BY <1>2, <1>4, <2>1 DEF d, r
<1>8. PICK v : Runs(u, When(b, <<e>>), v) /\ IsColumnless(v, n, {}, m.constraint)
  <2>1. CASE b
    <3>1. PICK v : Makes(u, e, v) /\ IsColumnless(v, n, k \ {e.column}, m.constraint)
      BY <1>4, <1>5, <1>7, <2>1, DropCheckColumnless
    <3>2. Runs(u, <<e>>, v)
      BY <3>1, MakesRuns
    <3>3. k \ {e.column} = {}
      BY <1>4, <1>5, <2>1
    <3>4. IsColumnless(v, n, {}, m.constraint)
      BY <3>1, <3>3
    <3>5. Runs(u, When(b, <<e>>), v)
      BY <2>1, <3>2 DEF When
    <3> QED
      BY <3>4, <3>5
  <2>2. CASE ~b
    <3>1. Runs(u, <<>>, u)
      BY RunsNone
    <3>2. Runs(u, When(b, <<e>>), u)
      BY <2>2, <3>1 DEF When
    <3>3. IsColumnless(u, n, {}, m.constraint)
      BY <1>4, <1>7, <2>2
    <3> QED
      BY <3>2, <3>3
  <2> QED
    BY <1>1, <2>1, <2>2 DEF b
<1>9. Runs(t, <<s>>, u)
  BY <1>7, MakesRuns
<1>10. IsSeq(<<s>>) /\ IsSeq(When(b, <<e>>))
  <2>1. b \in BOOLEAN
    BY <1>1 DEF b
  <2> QED
    BY <2>1, Single, WhenRange
<1>11. Runs(t, <<s>> \o When(b, <<e>>), v)
  BY <1>8, <1>9, <1>10, RunsThen
<1>12. Meets(v, w, <<>>)
  BY <1>8 DEF Meets, n
<1>13. Leads(t, RemoveFieldSql(n, f), w, <<>>)
  BY <1>6, <1>11, <1>12 DEF Leads
<1> QED
  BY <1>13 DEF n

\* add_index makes the index, where it is not deferred.
LEMMA AddIndexLeads ==
    ASSUME NEW t, NEW m, NEW later, Meets(t, m, later), m.table # "none", m.field # NoField, m.index = FALSE,
           NEW w, w.table = m.table, w.field = m.field, w.index = TRUE, w.constraint = m.constraint
    PROVE  Leads(t, <<OnColumn("add index", m.table, m.field.column)>>, w, later)
<1> DEFINE n == m.table
           c == m.field.column
           s == OnColumn("add index", n, c)
           d == ColumnOf(m.field)
           r == m.constraint
<1>1. PICK k, i : t = Narrow(n, k, i, r, c, d) /\ Pending(m, k, i, later)
  BY DEF Meets
<1>2. i = "none" /\ Pending(w, k, c, later)
  BY <1>1 DEF Pending, IndexOf, ChecksOf, AddCheckSql
<1>3. Meets(Narrow(n, k, c, r, c, d), w, later)
  <2>1. Meets(Narrow(w.table, k, c, w.constraint, w.field.column, ColumnOf(w.field)), w, later)
    BY <1>2, NarrowMeets
  <2> QED
    BY <2>1
<1>4. Makes(t, s, Narrow(n, k, c, r, c, d))
  <2> HIDE DEF n, c, d, r
  <2> QED
    BY <1>1, <1>2, AddIndexNarrow
<1> QED
  BY <1>3, <1>4, MakesLeads

\* remove_index drops it, where it was not deferred.
LEMMA RemoveIndexLeads ==
    ASSUME NEW t, NEW m, NEW later, Meets(t, m, later), m.table # "none", m.field \in Field, m.index = TRUE,
           \A j \in DOMAIN later : ~Tracked(later[j]),
           NEW w, w.table = m.table, w.field = m.field, w.index = FALSE, w.constraint = m.constraint
    PROVE  Leads(t, <<On("drop index", m.table)>>, w, later)
<1> DEFINE n == m.table
           c == m.field.column
           s == On("drop index", n)
           d == ColumnOf(m.field)
           r == m.constraint
<1>0. m.field # NoField /\ c # "none"
  BY FieldIsOne, SchemaAssumption
<1>1. PICK k, i : t = Narrow(n, k, i, r, c, d) /\ Pending(m, k, i, later)
  BY <1>0 DEF Meets
<1>2. i # "none" /\ Pending(w, k, "none", later)
  <2>1. /\ i = IndexOf(m)
        /\ \/ later = <<>> /\ k = ChecksOf(m)
           \/ later = <<AddCheckSql(m)>> /\ m.field.check /\ k = {}
    BY <1>1, NoIndexPending
  <2> QED
    BY <1>0, <2>1 DEF Pending, IndexOf, ChecksOf, AddCheckSql
<1>3. Meets(Narrow(n, k, "none", r, c, d), w, later)
  <2>1. Meets(Narrow(w.table, k, "none", w.constraint, w.field.column, ColumnOf(w.field)), w, later)
    BY <1>0, <1>2, NarrowMeets
  <2> QED
    BY <2>1
<1>4. Makes(t, s, Narrow(n, k, "none", r, c, d))
  <2> HIDE DEF n, c, d, r
  <2> QED
    BY <1>1, <1>2, DropIndexNarrow
<1> QED
  BY <1>3, <1>4, MakesLeads

\* The end of a session makes what was deferred.
LEMMA LeaveLeads ==
    ASSUME NEW t, NEW m, NEW later, Meets(t, m, later)
    PROVE  Leads(t, later, m, <<>>)
<1>1. CASE later = <<>>
  <2>1. Runs(t, <<>>, t)
    BY RunsNone
  <2> QED
    BY <1>1, <2>1 DEF Leads
<1>2. CASE later # <<>>
  <2> DEFINE n == m.table
             c == m.field.column
             d == ColumnOf(m.field)
             r == m.constraint
  <2>1. n # "none" /\ m.field # NoField
    BY <1>2 DEF Meets
  <2>2. PICK k, i : t = Narrow(n, k, i, r, c, d) /\ Pending(m, k, i, later)
    BY <2>1 DEF Meets
  <2>3. CASE later = <<AddIndexSql(m)>> /\ m.index /\ k = ChecksOf(m) /\ i = "none"
    <3>1. Meets(Narrow(n, k, c, r, c, d), m, <<>>)
      <4>1. Pending(m, k, c, <<>>)
        BY <2>3 DEF Pending, IndexOf
      <4> QED
        BY <2>1, <4>1, NarrowMeets
    <3>2. Makes(t, OnColumn("add index", n, c), Narrow(n, k, c, r, c, d))
      <4> HIDE DEF n, c, d, r
      <4> QED
        BY <2>2, <2>3, AddIndexNarrow
    <3>3. AddIndexSql(m) = OnColumn("add index", n, c)
      BY DEF AddIndexSql
    <3> QED
      BY <2>3, <3>1, <3>2, <3>3, MakesLeads
  <2>4. CASE later = <<AddCheckSql(m)>> /\ m.field.check /\ k = {} /\ i = IndexOf(m)
    <3>1. Meets(Narrow(n, k \cup {c}, i, r, c, d), m, <<>>)
      <4>1. Pending(m, k \cup {c}, i, <<>>)
        BY <2>4 DEF Pending, ChecksOf
      <4> QED
        BY <2>1, <4>1, NarrowMeets
    <3>2. Makes(t, OnColumn("add check", n, c), Narrow(n, k \cup {c}, i, r, c, d))
      <4>1. c \notin k
        BY <2>4
      <4> HIDE DEF n, c, d, r
      <4> QED
        BY <2>2, <4>1, AddCheckNarrow
    <3>3. AddCheckSql(m) = OnColumn("add check", n, c)
      BY DEF AddCheckSql
    <3> QED
      BY <2>4, <3>1, <3>2, <3>3, MakesLeads
  <2> QED
    BY <1>2, <2>2, <2>3, <2>4 DEF Pending
<1> QED
  BY <1>1, <1>2

\* The same for each of no statements.
LEMMA MapNone ==
    ASSUME NEW q, DOMAIN q = {}, q = [j \in DOMAIN q |-> q[j]]
    PROVE  q = <<>>
<1> DEFINE p == <<>>
<1>1. DOMAIN p = {} /\ p = [j \in DOMAIN p |-> p[j]]
  OBVIOUS
<1> HIDE DEF p
<1>2. q = p
  BY <1>1
<1> QED
  BY <1>2 DEF p

\* The deferred index follows its table.
LEMMA RenamedLater ==
    ASSUME NEW m, NEW to, NEW w, w.table = to, w.field = m.field
    PROVE  TableRenamed(AddIndexSql(m), to) = AddIndexSql(w)
<1> DEFINE c == m.field.column
           s == OnColumn("add index", m.table, c)
<1>1. s.op = "add index" /\ s = [op |-> "add index", on |-> cluster, table |-> m.table, column |-> c]
  BY DEF OnColumn
<1>2. [s EXCEPT !.table = to] = [op |-> "add index", on |-> cluster, table |-> to, column |-> c]
  <2> DEFINE o == cluster
             a == m.table
             p == "add index"
  <2>1. s = [op |-> p, on |-> o, table |-> a, column |-> c]
    BY DEF OnColumn
  <2> HIDE DEF s, c, o, a, p
  <2>2. [s EXCEPT !.table = to] = [op |-> p, on |-> o, table |-> to, column |-> c]
    BY <2>1
  <2> QED
    BY <2>2 DEF o, p
<1>3. AddIndexSql(w) = [op |-> "add index", on |-> cluster, table |-> to, column |-> c]
  BY DEF AddIndexSql, OnColumn
<1>4. AddIndexSql(m) = s
  BY DEF AddIndexSql
<1> HIDE DEF s, c
<1> QED
  BY <1>1, <1>2, <1>3, <1>4 DEF TableRenamed, Tracked

\* alter_db_table renames the table, and in what is deferred.
LEMMA AlterTableLeads ==
    ASSUME NEW t, NEW m, NEW later, Meets(t, m, later), m.table # "none",
           \A j \in DOMAIN later : Tracked(later[j]),
           NEW s, s.op = "rename", s.table = m.table, s.to # "none",
           NEW w, w.table = s.to, w.field = m.field, w.index = m.index, w.constraint = m.constraint
    PROVE  Leads(t, <<s>>, w, [i \in DOMAIN later |-> TableRenamed(later[i], s.to)])
<1> DEFINE n == m.table
           c == m.field.column
           d == ColumnOf(m.field)
           r == m.constraint
           next == [i \in DOMAIN later |-> TableRenamed(later[i], s.to)]
<1>1. later = <<>> => next = <<>>
  <2> SUFFICES ASSUME later = <<>> PROVE next = <<>>
    OBVIOUS
  <2>1. DOMAIN next = {} /\ next = [j \in DOMAIN next |-> next[j]]
    BY EmptyRange
  <2> HIDE DEF next
  <2> QED
    BY <2>1, MapNone
<1>2. later = <<AddIndexSql(m)>> => next = <<AddIndexSql(w)>>
  <2> SUFFICES ASSUME later = <<AddIndexSql(m)>> PROVE next = <<AddIndexSql(w)>>
    OBVIOUS
  <2> DEFINE x == AddIndexSql(m)
             y == AddIndexSql(w)
  <2>1. \A j \in DOMAIN later : later[j] = x
    BY OnlyOne
  <2>2. TableRenamed(x, s.to) = y
    BY RenamedLater
  <2>3. DOMAIN later = DOMAIN <<x>>
    OBVIOUS
  <2> HIDE DEF x, y
  <2>4. /\ DOMAIN next = DOMAIN <<x>> /\ next = [j \in DOMAIN next |-> next[j]]
        /\ \A j \in DOMAIN next : next[j] = y
    BY <2>1, <2>2, <2>3
  <2> HIDE DEF next
  <2>5. next = <<y>>
    BY <2>4, MapOne
  <2> QED
    BY <2>5 DEF y
<1> HIDE DEF next
<1>3. CASE m.field = NoField
  <2>1. IsColumnless(t, n, {}, r) /\ later = <<>>
    BY <1>3 DEF Meets
  <2>2. PICK u : Makes(t, s, u) /\ IsColumnless(u, s.to, {}, r)
    BY <2>1, RenameTableColumnless
  <2>3. Meets(u, w, next)
    BY <1>1, <1>3, <2>1, <2>2 DEF Meets
  <2> QED
    BY <2>2, <2>3, MakesLeads DEF next
<1>4. CASE m.field # NoField
  <2>1. PICK k, i : t = Narrow(n, k, i, r, c, d) /\ Pending(m, k, i, later)
    BY <1>4 DEF Meets
  <2>2. /\ k = ChecksOf(m)
        /\ \/ later = <<>> /\ i = IndexOf(m)
           \/ later = <<AddIndexSql(m)>> /\ m.index /\ i = "none"
    BY <2>1, NoCheckPending
  <2>3. ChecksOf(w) = ChecksOf(m) /\ IndexOf(w) = IndexOf(m)
    BY DEF ChecksOf, IndexOf
  <2>4. Pending(w, k, i, next)
    BY <1>1, <1>2, <2>2, <2>3 DEF Pending
  <2>5. Makes(t, s, Narrow(s.to, k, i, r, c, d))
    <3>1. s.table = n
      OBVIOUS
    <3> HIDE DEF n, c, d, r
    <3>2. Makes(Narrow(n, k, i, r, c, d), s, Narrow(s.to, k, i, r, c, d))
      BY <3>1, RenameTableNarrow
    <3> QED
      BY <2>1, <3>2
  <2>6. Meets(Narrow(s.to, k, i, r, c, d), w, next)
    <3>1. Meets(Narrow(w.table, k, i, w.constraint, w.field.column, ColumnOf(w.field)), w, next)
      BY <1>4, <2>4, NarrowMeets
    <3> QED
      BY <3>1
  <2> QED
    BY <2>5, <2>6, MakesLeads DEF next
<1> QED
  BY <1>3, <1>4

\* A statement that raises an error leads anywhere.
LEMMA RaiseLeads ==
    ASSUME NEW t, NEW s, s.op = "raise", NEW m, NEW later
    PROVE  Leads(t, <<s>>, m, later)
<1>1. Runs(t, <<s>>, t)
  <2>1. Aside(s)
    BY DEF Aside
  <2> QED
    BY <2>1, AsideMakes, MakesRuns
<1>2. s \in Range(<<s>>)
  BY Single
<1> DEFINE q == <<s>>
<1> HIDE DEF q
<1>3. Leads(t, q, m, later)
  BY <1>1, <1>2 DEF Leads, q
<1> QED
  BY <1>3 DEF q

\* add_constraint and remove_constraint, where they do not raise an error.
LEMMA SwitchConstraintLeads ==
    ASSUME NEW t, NEW m, NEW later, Meets(t, m, later), m.table # "none", m.constraint \in BOOLEAN,
           NEW s, s.table = m.table,
           s.op = "raise" \/ s.op = (IF m.constraint THEN "drop constraint" ELSE "add constraint"),
           NEW w, w.table = m.table, w.field = m.field, w.index = m.index, w.constraint = ~m.constraint
    PROVE  Leads(t, <<s>>, w, later)
<1> DEFINE n == m.table
           c == m.field.column
           d == ColumnOf(m.field)
           r == m.constraint
           v == w.constraint
<1>1. CASE s.op = "raise"
  BY <1>1, RaiseLeads
<1>2. CASE s.op # "raise"
  <2>1. \/ r = TRUE /\ v = FALSE /\ s.op = "drop constraint"
        \/ r = FALSE /\ v = TRUE /\ s.op = "add constraint"
    BY <1>2
  <2>2. CASE m.field = NoField
    <3>1. IsColumnless(t, n, {}, r) /\ later = <<>>
      BY <2>2 DEF Meets
    <3>2. PICK u : Makes(t, s, u) /\ IsColumnless(u, n, {}, v)
      <4>1. s.table = n
        OBVIOUS
      <4> HIDE DEF r, v, n
      <4> QED
        BY <2>1, <3>1, <4>1, AddConstraintColumnless, DropConstraintColumnless
    <3>3. Meets(u, w, later)
      BY <2>2, <3>1, <3>2 DEF Meets
    <3> QED
      BY <3>2, <3>3, MakesLeads
  <2>3. CASE m.field # NoField
    <3>1. PICK k, i : t = Narrow(n, k, i, r, c, d) /\ Pending(m, k, i, later)
      BY <2>3 DEF Meets
    <3>2. Pending(w, k, i, later)
      BY <3>1 DEF Pending, ChecksOf, IndexOf, AddIndexSql, AddCheckSql
    <3>3. Makes(t, s, Narrow(n, k, i, v, c, d))
      <4>1. s.table = n
        OBVIOUS
      <4> HIDE DEF n, c, d, r, v
      <4>2. Makes(Narrow(n, k, i, r, c, d), s, Narrow(n, k, i, v, c, d))
        BY <2>1, <4>1, AddConstraintNarrow, DropConstraintNarrow
      <4> QED
        BY <3>1, <4>2
    <3>4. Meets(Narrow(n, k, i, v, c, d), w, later)
      <4>1. Meets(Narrow(w.table, k, i, w.constraint, w.field.column, ColumnOf(w.field)), w, later)
        BY <2>3, <3>2, NarrowMeets
      <4> QED
        BY <4>1
    <3> QED
      BY <3>3, <3>4, MakesLeads
  <2> QED
    BY <2>2, <2>3
<1> QED
  BY <1>1, <1>2

-----------------------------------------------------------------------------
(* Alterations of a field, from the column of the old field or from where   *)
(* an earlier attempt has stopped.                                          *)

\* The column is on the way from the old field to the new one, and the index may
\* be deferred.
Starting(t, m, old, new, later) ==
    /\ m.table # "none" /\ m.field = old
    /\ \E d, i : /\ Amid(d, old, new)
                 /\ t = Narrow(m.table, ChecksOf(m), i, m.constraint, old.column, d)
                 /\ \/ later = <<>> /\ i = IndexOf(m)
                    \/ later = <<AddIndexSql(m)>> /\ m.index /\ i = "none"

\* The column is on the way from the old field to the new one, and has its index.
Between(t, m, old, new) ==
    /\ m.table # "none" /\ m.field = old
    /\ \E d : /\ Amid(d, old, new)
              /\ t = Narrow(m.table, ChecksOf(m), IndexOf(m), m.constraint, old.column, d)

\* An alteration starts from the column of the old field.
LEMMA AmidOld ==
    ASSUME NEW old, NEW new
    PROVE  Amid(ColumnOf(old), old, new)
<1> DEFINE d == ColumnOf(old)
<1>1. d = [type |-> ColumnType(old), default |-> old.db_default, comment |-> old.comment]
  BY DEF ColumnOf
<1>2. d.type = ColumnType(old) /\ d.default = old.db_default /\ d.comment = old.comment
  BY <1>1
<1>3. IsColumn(d)
  BY <1>1, <1>2 DEF IsColumn
<1>4. ColumnType(old)[2] = old.null
  BY DEF ColumnType
<1> HIDE DEF d
<1>5. Amid(d, old, new)
  BY <1>2, <1>3, <1>4 DEF Amid
<1> QED
  BY <1>5 DEF d

\* The table is as the model says.
LEMMA MeetsStarting ==
    ASSUME NEW t, NEW m, NEW later, Meets(t, m, later), m.table # "none", m.field \in Field, NEW new,
           \A j \in DOMAIN later : Tracked(later[j])
    PROVE  Starting(t, m, m.field, new, later)
<1> DEFINE c == m.field.column
           d == ColumnOf(m.field)
<1>1. m.field # NoField
  BY FieldIsOne
<1>2. PICK k, i : t = Narrow(m.table, k, i, m.constraint, c, d) /\ Pending(m, k, i, later)
  BY <1>1 DEF Meets
<1>3. /\ k = ChecksOf(m)
      /\ \/ later = <<>> /\ i = IndexOf(m)
         \/ later = <<AddIndexSql(m)>> /\ m.index /\ i = "none"
  BY <1>2, NoCheckPending
<1>4. Amid(d, m.field, new)
  BY AmidOld
<1> HIDE DEF d
<1> QED
  BY <1>2, <1>3, <1>4 DEF Starting

\* An earlier attempt has stopped on the way.
LEMMA BetweenStarting ==
    ASSUME NEW t, NEW m, NEW old, NEW new, Between(t, m, old, new)
    PROVE  Starting(t, m, old, new, <<>>)
BY DEF Between, Starting

\* An alteration has begun.
LEMMA StartingBetween ==
    ASSUME NEW t, NEW m, NEW old, NEW new, NEW later, Starting(t, m, old, new, later), later = <<>>
    PROVE  Between(t, m, old, new)
<1>1. later # <<AddIndexSql(m)>>
  <2>1. DOMAIN <<>> = {} /\ \E j \in DOMAIN <<AddIndexSql(m)>> : TRUE
    BY OnlyOne
  <2> QED
    BY <2>1
<1> QED
  BY <1>1 DEF Between, Starting

\* The deferred index follows its column.
LEMMA RenamedColumnLater ==
    ASSUME NEW m, NEW to, NEW w, w.table = m.table, w.field.column = to
    PROVE  ColumnRenamed(AddIndexSql(m), m.field.column, to) = AddIndexSql(w)
<1> DEFINE c == m.field.column
           a == m.table
           s == OnColumn("add index", a, c)
<1>1. s.op = "add index" /\ s.column = c
  BY DEF OnColumn
<1>2. [s EXCEPT !.column = to] = [op |-> "add index", on |-> cluster, table |-> a, column |-> to]
  <2> DEFINE o == cluster
             p == "add index"
  <2>1. s = [op |-> p, on |-> o, table |-> a, column |-> c]
    BY DEF OnColumn
  <2> HIDE DEF s, c, o, a, p
  <2>2. [s EXCEPT !.column = to] = [op |-> p, on |-> o, table |-> a, column |-> to]
    BY <2>1
  <2> QED
    BY <2>2 DEF o, p
<1>3. AddIndexSql(w) = [op |-> "add index", on |-> cluster, table |-> a, column |-> to]
  BY DEF AddIndexSql, OnColumn
<1>4. AddIndexSql(m) = s
  BY DEF AddIndexSql
<1> HIDE DEF s, c, a
<1> QED
  BY <1>1, <1>2, <1>3, <1>4 DEF ColumnRenamed, Tracked, c

\* Fields that are the same in the database have the same column.
LEMMA SameInDatabase ==
    ASSUME NEW old \in Field, NEW new \in Field, ~FieldShouldBeAltered(old, new)
    PROVE  /\ old.column = new.column /\ old.check = new.check
           /\ ColumnType(old) = ColumnType(new) /\ old.comment = new.comment
           /\ old.db_default = new.db_default /\ old.null = new.null
<1> DEFINE a == InDatabase(old)
           b == InDatabase(new)
<1>1. a = b
  BY DEF FieldShouldBeAltered
<1>2. ASSUME NEW f \in Field
      PROVE  /\ InDatabase(f).column = f.column /\ InDatabase(f).check = f.check
             /\ InDatabase(f).type = f.type /\ InDatabase(f).null = f.null
             /\ InDatabase(f).comment = f.comment /\ InDatabase(f).db_default = f.db_default
             /\ Enum(f) => InDatabase(f).choices = f.choices
  BY DEF InDatabase, Field
<1>3. Enum(old) <=> Enum(new)
  BY <1>1, <1>2 DEF Enum
<1>4. Enum(old) => old.choices = new.choices
  BY <1>1, <1>2, <1>3
<1> QED
  BY <1>1, <1>2, <1>3, <1>4 DEF ColumnType

\* alter_field makes the column of the new field, and renames it in what is deferred.
LEMMA AlterFieldLeads ==
    ASSUME NEW t, NEW m, NEW old \in Field, NEW new \in Field, NEW later, Starting(t, m, old, new, later),
           NEW w, w.table = m.table, w.field = new, w.index = m.index, w.constraint = m.constraint
    PROVE  Leads(t, When(FieldShouldBeAltered(old, new), AlterFieldSql(m.table, old, new)), w,
                 [i \in DOMAIN later |-> ColumnRenamed(later[i], old.column, new.column)])
<1> DEFINE n == m.table
           r == m.constraint
           c == old.column
           e == ColumnOf(new)
           next == [i \in DOMAIN later |-> ColumnRenamed(later[i], old.column, new.column)]
           q == When(FieldShouldBeAltered(old, new), AlterFieldSql(m.table, old, new))
<1>0. m.field = old /\ n # "none" /\ new # NoField /\ c # "none" /\ new.column # "none"
  BY FieldIsOne, SchemaAssumption DEF Starting
<1>1. PICK d, i : /\ Amid(d, old, new)
                  /\ t = Narrow(n, ChecksOf(m), i, r, c, d)
                  /\ \/ later = <<>> /\ i = IndexOf(m)
                     \/ later = <<AddIndexSql(m)>> /\ m.index /\ i = "none"
  BY DEF Starting
<1>2. later = <<>> => next = <<>>
  <2> SUFFICES ASSUME later = <<>> PROVE next = <<>>
    OBVIOUS
  <2>1. DOMAIN next = {} /\ next = [j \in DOMAIN next |-> next[j]]
    BY EmptyRange
  <2> HIDE DEF next
  <2> QED
    BY <2>1, MapNone
<1>3. later = <<AddIndexSql(m)>> => next = <<AddIndexSql(w)>>
  <2> SUFFICES ASSUME later = <<AddIndexSql(m)>> PROVE next = <<AddIndexSql(w)>>
    OBVIOUS
  <2> DEFINE x == AddIndexSql(m)
             y == AddIndexSql(w)
             to == new.column
             from == old.column
  <2>1. \A j \in DOMAIN later : later[j] = x
    BY OnlyOne
  <2>2. ColumnRenamed(x, from, to) = y
    <3>1. w.table = m.table /\ w.field.column = to /\ m.field.column = from
      BY <1>0
    <3>2. ColumnRenamed(AddIndexSql(m), m.field.column, to) = AddIndexSql(w)
      BY <3>1, RenamedColumnLater
    <3> QED
      BY <3>1, <3>2
  <2>3. DOMAIN later = DOMAIN <<x>>
    OBVIOUS
  <2> HIDE DEF x, y
  <2>4. /\ DOMAIN next = DOMAIN <<x>> /\ next = [j \in DOMAIN next |-> next[j]]
        /\ \A j \in DOMAIN next : next[j] = y
    BY <2>1, <2>2, <2>3
  <2> HIDE DEF next
  <2>5. next = <<y>>
    BY <2>4, MapOne
  <2> QED
    BY <2>5 DEF y
<1> HIDE DEF next
<1> DEFINE j == IF i = "none" THEN "none" ELSE new.column
<1>4. Pending(w, ChecksOf(w), j, next)
  BY <1>0, <1>1, <1>2, <1>3 DEF Pending, IndexOf
<1>5. Meets(Narrow(n, ChecksOf(w), j, r, new.column, e), w, next)
  <2>1. Meets(Narrow(w.table, ChecksOf(w), j, w.constraint, w.field.column, ColumnOf(w.field)), w, next)
    <3> HIDE DEF j
    <3> QED
      BY <1>0, <1>4, NarrowMeets
  <2> QED
    BY <2>1
<1>6. Runs(t, q, Narrow(n, ChecksOf(w), j, r, new.column, e))
  <2>1. CASE FieldShouldBeAltered(old, new)
    <3>1. i \in {"none", old.column}
      BY <1>0, <1>1 DEF IndexOf
    <3>2. Runs(Narrow(n, IF old.check THEN {old.column} ELSE {}, i, r, old.column, d),
               AlterFieldSql(n, old, new),
               Narrow(n, IF new.check THEN {new.column} ELSE {},
                      IF i = "none" THEN "none" ELSE new.column, r, new.column, ColumnOf(new)))
      <4> HIDE DEF n, r
      <4> QED
        BY <1>1, <3>1, AlterRuns
    <3>3. ChecksOf(m) = (IF old.check THEN {old.column} ELSE {}) /\ ChecksOf(w) = (IF new.check THEN {new.column} ELSE {})
      BY <1>0 DEF ChecksOf
    <3>4. q = AlterFieldSql(n, old, new)
      BY <2>1 DEF When
    <3> QED
      BY <1>1, <3>2, <3>3, <3>4
  <2>2. CASE ~FieldShouldBeAltered(old, new)
    <3>1. /\ old.column = new.column /\ old.check = new.check
          /\ ColumnType(old) = ColumnType(new) /\ old.comment = new.comment
          /\ old.db_default = new.db_default /\ old.null = new.null
      BY <2>2, SameInDatabase
    <3>2. ~NeedsDatabaseDefault(old, new)
      BY <3>1 DEF NeedsDatabaseDefault
    <3>3. d = e
      BY <1>1, <3>1, <3>2 DEF Amid, IsColumn, ColumnOf
    <3>4. j = i
      BY <1>0, <1>1, <3>1 DEF IndexOf
    <3>5. ChecksOf(w) = ChecksOf(m)
      BY <1>0, <3>1 DEF ChecksOf
    <3>6. t = Narrow(n, ChecksOf(w), j, r, new.column, e)
      <4> HIDE DEF j, e
      <4> QED
        BY <1>1, <3>1, <3>3, <3>4, <3>5
    <3>7. q = <<>>
      BY <2>2 DEF When
    <3> QED
      BY <3>6, <3>7, RunsNone
  <2> QED
    BY <2>1, <2>2
<1> HIDE DEF q, j, e
<1>7. Leads(t, q, w, next)
  BY <1>5, <1>6 DEF Leads
<1> QED
  BY <1>7 DEF q, next

\* A single change of the column on the way.
LEMMA ChangeBetween ==
    ASSUME NEW t, NEW m, NEW old, NEW new, Between(t, m, old, new), old.column = new.column,
           NEW x, x[1] \in Kinds, NEW s, s = Alter(m.table, new.column, <<x>>), Fine(t, s),
           \A d, e : Amid(d, old, new) /\ ChangesTo(d, TRUE, x, e) => Amid(e, old, new)
    PROVE  Between(Made(t, s), m, old, new)
<1> DEFINE n == m.table
           k == ChecksOf(m)
           i == IndexOf(m)
           r == m.constraint
           c == old.column
           q == <<x>>
<1>1. PICK d : Amid(d, old, new) /\ t = Narrow(n, k, i, r, c, d)
  BY DEF Between
<1>2. \A j \in DOMAIN q : q[j] = x
  BY OnlyOne
<1>3. \E j \in DOMAIN q : q[j] = x
  BY OnlyOne
<1>4. s.op = "alter" /\ s.changes = q /\ s.column = c /\ s.table = n
  BY DEF Alter
<1>5. x[1] = "remove default" => d.default # "none"
  <2> SUFFICES ASSUME x[1] = "remove default" PROVE d.default # "none"
    OBVIOUS
  <2>1. t.columns[c] = d
    <3>1. IsNarrow(t, n, k, i, r, c, d)
      BY <1>1, NarrowParts
    <3> QED
      BY <3>1 DEF IsNarrow
  <2> HIDE DEF q, c
  <2>2. Legal(t, s)
    BY <1>4 DEF Fine, Aside
  <2>3. PICK j \in DOMAIN s.changes : s.changes[j] = x
    BY <1>3, <1>4
  <2>4. ChangeLegal(t, s.column, s.changes[j])
    BY <1>4, <2>2 DEF Legal
  <2> QED
    BY <1>4, <2>1, <2>3, <2>4 DEF ChangeLegal
<1> DEFINE e == Changed(d, x)
<1>6. ChangedBy(d, q) = e
  BY ChangedByOne
<1>7. ChangesTo(d, TRUE, x, e)
  <2>1. IsColumn(d)
    BY <1>1 DEF Amid
  <2>2. /\ IsColumn(Changed(d, x))
        /\ Changed(d, x).type = IF x[1] = "type" THEN x[2] ELSE d.type
        /\ Changed(d, x).default = IF x[1] = "default" THEN x[2]
                                   ELSE IF x[1] = "remove default" THEN "none" ELSE d.default
        /\ Changed(d, x).comment = IF x[1] = "comment" THEN x[2] ELSE d.comment
    BY <2>1, ChangedParts, Zenon
  <2> QED
    BY <2>2 DEF ChangesTo
<1>8. Amid(e, old, new)
  BY <1>1, <1>7
<1>9. s = Alter(n, c, q)
  OBVIOUS
<1> HIDE DEF n, k, i, r, c, q, e
<1>10. \A j \in DOMAIN q : q[j][1] = "remove default" => d.default # "none"
  BY <1>2, <1>5
<1>11. Makes(Narrow(n, k, i, r, c, d), Alter(n, c, q), Narrow(n, k, i, r, c, ChangedBy(d, q)))
  BY <1>10, AlterNarrow
<1>12. Made(t, s) = Narrow(n, k, i, r, c, e)
  BY <1>1, <1>6, <1>9, <1>11 DEF Makes
<1> QED
  BY <1>8, <1>12 DEF Between, n, k, i, r, c

\* The early type is nullable where the type is, and between NULL and NOT NULL.
LEMMA EarlyTypeNull ==
    ASSUME NEW old, NEW new
    PROVE  EarlyType(old, new)[2] <=> new.null \/ FourWay(old, new)
<1> DEFINE y == ColumnType(new)
           v == y[2] \/ FourWay(old, new)
<1>1. 2 \in DOMAIN y /\ y[2] = new.null
  BY DEF ColumnType
<1>2. EarlyType(old, new) = [y EXCEPT ![2] = v]
  BY DEF EarlyType
<1> HIDE DEF y
<1>3. [y EXCEPT ![2] = v][2] = v
  <2> HIDE DEF v
  <2> QED
    BY <1>1
<1> QED
  BY <1>1, <1>2, <1>3

\* The first changes of the column on the way.
LEMMA FirstChangesBetween ==
    ASSUME NEW t, NEW m, NEW old, NEW new, Between(t, m, old, new), old.column = new.column,
           new.db_default # "none" \/ old.db_default = "none",
           NEW s, s = Alter(m.table, new.column, FirstChanges(old, new))
    PROVE  Between(Made(t, s), m, old, new)
<1> DEFINE n == m.table
           k == ChecksOf(m)
           i == IndexOf(m)
           r == m.constraint
           c == old.column
           q == FirstChanges(old, new)
<1>1. PICK d : Amid(d, old, new) /\ t = Narrow(n, k, i, r, c, d)
  BY DEF Between
<1> DEFINE e == ChangedBy(d, q)
<1>2. IsColumn(d)
  BY <1>1 DEF Amid
<1>3. /\ IsColumn(e) /\ e.comment = d.comment
      /\ e.type = IF ColumnType(old) # ColumnType(new) \/ old.comment # new.comment
                  THEN EarlyType(old, new) ELSE d.type
      /\ e.default = IF NeedsDatabaseDefault(old, new) THEN new.default
                     ELSE IF new.db_default = "none" /\ old.db_default # "none" THEN "none"
                     ELSE IF new.db_default \notin {"none", old.db_default} THEN new.db_default
                     ELSE d.default
  BY <1>2, FirstChangesMake
<1>4. EarlyType(old, new)[2] => old.null \/ new.null
  BY EarlyTypeNull DEF FourWay
<1>5. ColumnType(old) = ColumnType(new) /\ old.comment = new.comment => e.type = d.type
  BY <1>3
<1>6. Amid(e, old, new)
  <2> HIDE DEF e
  <2> QED
    BY <1>1, <1>3, <1>4, <1>5 DEF Amid
<1>7. \A j \in DOMAIN q : q[j][1] # "remove default"
  BY FirstChangesAre
<1>8. s = Alter(n, c, q)
  OBVIOUS
<1> HIDE DEF n, k, i, r, c, q, e
<1>9. Makes(Narrow(n, k, i, r, c, d), Alter(n, c, q), Narrow(n, k, i, r, c, ChangedBy(d, q)))
  BY <1>7, AlterNarrow
<1>10. Made(t, s) = Narrow(n, k, i, r, c, e)
  BY <1>1, <1>8, <1>9 DEF Makes, e
<1> QED
  BY <1>6, <1>10 DEF Between, n, k, i, r, c

\* The statements of an alteration that can be repeated keep the column on the way.
LEMMA AlteringBetween ==
    ASSUME NEW t, NEW m, NEW old \in Field, NEW new \in Field, Between(t, m, old, new),
           old.column = new.column, old.check = new.check,
           new.db_default # "none" \/ old.db_default = "none",
           NEW s, Altering(s, m.table, old, new), Fine(t, s)
    PROVE  Between(Made(t, s), m, old, new)
<1>0. old.check \in BOOLEAN /\ new.check \in BOOLEAN
  BY SchemaAssumption DEF Field
<1>1. CASE s = Alter(m.table, new.column, FirstChanges(old, new))
  BY <1>1, FirstChangesBetween
<1>2. CASE FourWay(old, new) /\ ~Distributed /\ s = Fill(m.table, new.column, Replacement(new), FALSE)
  <2> DEFINE n == m.table
             k == ChecksOf(m)
             i == IndexOf(m)
             r == m.constraint
             c == old.column
             v == Replacement(new)
             no == FALSE
  <2>1. PICK d : Amid(d, old, new) /\ t = Narrow(n, k, i, r, c, d)
    BY DEF Between
  <2>2. s = Fill(n, c, v, no)
    BY <1>2
  <2>3. Made(t, s) = t
    <3> HIDE DEF n, k, i, r, c, v, no
    <3>1. Makes(Narrow(n, k, i, r, c, d), Fill(n, c, v, no), Narrow(n, k, i, r, c, d))
      BY FillNarrow
    <3> QED
      BY <2>1, <2>2, <3>1 DEF Makes
  <2> QED
    BY <2>3
<1>3. CASE s = Alter(m.table, new.column, << <<"type", ColumnType(new)>> >>)
  <2> DEFINE x == <<"type", ColumnType(new)>>
  <2>1. x[1] = "type" /\ x[2] = ColumnType(new) /\ x[1] \in Kinds
    BY DEF Kinds
  <2>2. s = Alter(m.table, new.column, <<x>>)
    BY <1>3
  <2>3. ColumnType(new)[2] = new.null
    BY DEF ColumnType
  <2> HIDE DEF x
  <2>4. \A d, e : Amid(d, old, new) /\ ChangesTo(d, TRUE, x, e) => Amid(e, old, new)
    BY <2>1, <2>3 DEF Amid, ChangesTo
  <2> QED
    BY <2>1, <2>2, <2>4, ChangeBetween
<1>4. CASE old.comment # new.comment /\ s = Alter(m.table, new.column, << <<"comment", new.comment>> >>)
  <2> DEFINE x == <<"comment", new.comment>>
  <2>1. x[1] = "comment" /\ x[2] = new.comment /\ x[1] \in Kinds
    BY DEF Kinds
  <2>2. s = Alter(m.table, new.column, <<x>>)
    BY <1>4
  <2> HIDE DEF x
  <2>4. \A d, e : Amid(d, old, new) /\ ChangesTo(d, TRUE, x, e) => Amid(e, old, new)
    BY <2>1 DEF Amid, ChangesTo
  <2> QED
    BY <2>1, <2>2, <2>4, ChangeBetween
<1>5. CASE s = [op |-> "alter related", on |-> cluster, type |-> new.type]
  <2>1. s.op = "alter related"
    BY <1>5
  <2> QED
    BY <2>1 DEF Made, Aside
<1>6. CASE NeedsDatabaseDefault(old, new) /\ s = Alter(m.table, new.column, << <<"remove default">> >>)
  <2> DEFINE x == <<"remove default">>
  <2>1. x[1] = "remove default" /\ x[1] \in Kinds
    BY DEF Kinds
  <2>2. s = Alter(m.table, new.column, <<x>>)
    BY <1>6
  <2> HIDE DEF x
  <2>4. \A d, e : Amid(d, old, new) /\ ChangesTo(d, TRUE, x, e) => Amid(e, old, new)
    BY <1>6, <2>1 DEF Amid, ChangesTo
  <2> QED
    BY <2>1, <2>2, <2>4, ChangeBetween
<1> QED
  BY <1>0, <1>1, <1>2, <1>3, <1>4, <1>5, <1>6 DEF Altering

-----------------------------------------------------------------------------
(* NULLs: which columns may have them, and which statements bring them in.  *)

\* At most one column, with NULLs only if its type is nullable, and values only in
\* rows.
Neat(t) ==
    /\ \A c, e \in ColumnsOf(t) : c = e
    /\ \A c \in ColumnsOf(t) : /\ IsColumn(t.columns[c])
                               /\ "null" \in ValuesOf(t) => t.columns[c].type[2]
    /\ ~RowsOf(t) => ValuesOf(t) = {}

\* What a statement says is complete, and no field has NULL as its default unless
\* it is nullable.
WellFormed(s) ==
    /\ s.on = cluster
    /\ s.op = "create" => s.columns = <<>> \/ IsColumn(s.columns[2])
    /\ s.op = "add column" => /\ IsColumn(s.definition)
                              /\ s.definition.default = "null" => s.definition.type[2]
    /\ s.op = "alter" => IsSeq(s.changes) /\ \A i \in DOMAIN s.changes : s.changes[i][1] \in Kinds
    /\ s.op = "fill" => s.value # "null"
    /\ s.op = "alter related" => s.type # "absent"

\* A table with the same rows is as neat.
LEMMA SameNeat ==
    ASSUME NEW t, IsTable(t), Neat(t), NEW a, IsTable(a), a.rows = t.rows, a.values = t.values,
           a.columns = t.columns
    PROVE  Neat(a)
<1>1. t # NoTable /\ a # NoTable
  BY TableIsOne
<1> QED
  BY <1>1 DEF Neat, ColumnsOf, ValuesOf, RowsOf

\* What is inside a table of given parts.
Inside(a, r, v, d) == IsTable(a) /\ a # NoTable /\ a.rows = r /\ a.values = v /\ a.columns = d

\* It is inside.
LEMMA TabInside ==
    ASSUME NEW n, NEW r, NEW v, NEW k, NEW i, NEW c, NEW d, NEW a, a = Tab(n, r, v, k, i, c, d)
    PROVE  Inside(a, r, v, d)
<1>1. IsTable(a) /\ a.rows = r /\ a.values = v /\ a.columns = d
  BY TabParts
<1>2. a # NoTable
  BY <1>1, TableIsOne
<1> QED
  BY <1>1, <1>2 DEF Inside

\* Statements that change neither columns nor rows.
Plain == {"rename", "add check", "drop check", "add index", "drop index",
          "add constraint", "drop constraint"}

\* Such a statement keeps the table neat.
LEMMA OtherNeat ==
    ASSUME NEW t, IsTable(t), Neat(t), NEW s,
           s.op \in Plain, NEW a, a = After(t, s)
    PROVE  Neat(a) /\ ValuesOf(a) = ValuesOf(t)
<1> DEFINE yes == TRUE
           no == FALSE
           none == "none"
<1>1. /\ s.op = "rename" =>
           a = Tab(s.to, t.rows, t.values, t.checks, t.index, t.constraint, t.columns)
      /\ s.op = "add check" =>
           a = Tab(t.table, t.rows, t.values, t.checks \cup {s.column}, t.index, t.constraint, t.columns)
      /\ s.op = "drop check" =>
           a = Tab(t.table, t.rows, t.values, t.checks \ {s.column}, t.index, t.constraint, t.columns)
      /\ s.op = "add index" =>
           a = Tab(t.table, t.rows, t.values, t.checks, s.column, t.constraint, t.columns)
      /\ s.op = "drop index" =>
           a = Tab(t.table, t.rows, t.values, t.checks, none, t.constraint, t.columns)
      /\ s.op = "add constraint" =>
           a = Tab(t.table, t.rows, t.values, t.checks, t.index, yes, t.columns)
      /\ s.op = "drop constraint" =>
           a = Tab(t.table, t.rows, t.values, t.checks, t.index, no, t.columns)
  BY AfterTab
<1> HIDE DEF yes, no, none
<1>2. \E n, k, i, r : a = Tab(n, t.rows, t.values, k, i, r, t.columns)
  BY <1>1 DEF Plain
<1>3. IsTable(a) /\ a.rows = t.rows /\ a.values = t.values /\ a.columns = t.columns
  <2> DEFINE w == t.rows
             v == t.values
             d == t.columns
  <2> HIDE DEF w, v, d
  <2>1. \E n, k, i, r : a = Tab(n, w, v, k, i, r, d)
    BY <1>2 DEF w, v, d
  <2>2. Inside(a, w, v, d)
    BY <2>1, TabInside
  <2> QED
    BY <2>2 DEF Inside, w, v, d
<1>4. t # NoTable /\ a # NoTable
  BY <1>3, TableIsOne
<1> QED
  BY <1>3, <1>4, SameNeat DEF ValuesOf

\* A statement keeps a table neat; only a new column brings NULLs in, and UPDATE
\* takes them out.
LEMMA AfterNeat ==
    ASSUME NEW t, t = NoTable \/ IsTable(t), Neat(t), NEW s, s.op \in Structural \cup Others,
           s.table \in Table, Legal(t, s), WellFormed(s),
           s.op = "add column" => ColumnsOf(t) = {},
           NEW a, a = After(t, s)
    PROVE  /\ Neat(a)
           /\ "null" \in ValuesOf(a) => s.op = "add column" \/ ("null" \in ValuesOf(t) /\ s.op # "fill")
<1>1. CASE s.op = "create"
  <2> DEFINE cols == IF s.columns = <<>> THEN <<>> ELSE [c \in {s.columns[1]} |-> s.columns[2]]
             no == FALSE
  <2>1. a = Tab(s.table, no, {}, s.checks, "none", s.constraint, cols)
    BY <1>1 DEF After, Tab
  <2>2. s.columns = <<>> => DOMAIN cols = {}
    BY EmptyRange
  <2>3. s.columns # <<>> => DOMAIN cols = {s.columns[1]} /\ cols[s.columns[1]] = s.columns[2]
    OBVIOUS
  <2> HIDE DEF cols
  <2>4. IsTable(a) /\ a.rows = FALSE /\ a.values = {} /\ a.columns = cols
    <3> DEFINE w == FALSE
               y == {}
               z == cols
    <3> HIDE DEF w, y, z
    <3>1. \E n, k, i, r : a = Tab(n, w, y, k, i, r, z)
      BY <2>1 DEF w, y, z
    <3>2. Inside(a, w, y, z)
      BY <3>1, TabInside
    <3> QED
      BY <3>2 DEF Inside, w, y, z
  <2>5. a # NoTable
    BY <2>4, TableIsOne
  <2>6. s.columns # <<>> => IsColumn(s.columns[2])
    BY <1>1 DEF WellFormed
  <2>7. \A c \in DOMAIN cols : IsColumn(cols[c]) /\ \A e \in DOMAIN cols : c = e
    BY <2>2, <2>3, <2>6
  <2> QED
    BY <2>4, <2>5, <2>7 DEF Neat, ColumnsOf, ValuesOf, RowsOf
<1>2. CASE s.op = "drop"
  <2>1. a = NoTable
    BY <1>2 DEF After
  <2> QED
    BY <2>1 DEF Neat, ColumnsOf, ValuesOf, RowsOf
<1>3. s.op \notin {"create", "drop"} => IsTable(t) /\ s.op # "raise"
  BY AfterTable
<1>4. CASE s.op = "add column"
  <2> DEFINE d == s.definition
             cols == [c \in DOMAIN t.columns \cup {s.column} |-> IF c = s.column THEN d ELSE t.columns[c]]
             v == Initial(t, d)
  <2>0. IsTable(t)
    BY <1>3, <1>4
  <2>1. a = Tab(t.table, t.rows, v, t.checks, t.index, t.constraint, cols)
    BY <1>4, <2>0, AfterTab
  <2>2. DOMAIN t.columns = {} /\ t # NoTable
    BY <1>4, <2>0, TableIsOne DEF ColumnsOf
  <2>3. DOMAIN cols = {s.column} /\ cols[s.column] = d
    BY <2>2
  <2>4. "null" \in v => d.type[2]
    BY <1>4 DEF Initial, WellFormed
  <2>5. ~t.rows => v = {}
    BY DEF Initial
  <2>6. IsColumn(d)
    BY <1>4 DEF WellFormed
  <2> HIDE DEF cols, v, d
  <2>7. IsTable(a) /\ a.rows = t.rows /\ a.values = v /\ a.columns = cols
    <3> DEFINE w == t.rows
               y == v
               z == cols
    <3> HIDE DEF w, y, z
    <3>1. \E n, k, i, r : a = Tab(n, w, y, k, i, r, z)
      BY <2>1 DEF w, y, z
    <3>2. Inside(a, w, y, z)
      BY <3>1, TabInside
    <3> QED
      BY <3>2 DEF Inside, w, y, z
  <2>8. a # NoTable
    BY <2>7, TableIsOne
  <2> QED
    BY <1>4, <2>3, <2>4, <2>5, <2>6, <2>7, <2>8 DEF Neat, ColumnsOf, ValuesOf, RowsOf
<1>5. CASE s.op = "drop column"
  <2> DEFINE cols == [c \in DOMAIN t.columns \ {s.column} |-> t.columns[c]]
  <2>0. IsTable(t)
    BY <1>3, <1>5
  <2>1. a = Tab(t.table, t.rows, {}, t.checks, t.index, t.constraint, cols)
    BY <1>5, <2>0, AfterTab
  <2>2. \A c \in DOMAIN cols : c \in DOMAIN t.columns /\ cols[c] = t.columns[c]
    OBVIOUS
  <2> HIDE DEF cols
  <2>3. IsTable(a) /\ a.values = {} /\ a.columns = cols
    <3> DEFINE w == t.rows
               y == {}
               z == cols
    <3> HIDE DEF w, y, z
    <3>1. \E n, k, i, r : a = Tab(n, w, y, k, i, r, z)
      BY <2>1 DEF w, y, z
    <3>2. Inside(a, w, y, z)
      BY <3>1, TabInside
    <3> QED
      BY <3>2 DEF Inside, w, y, z
  <2>4. a # NoTable /\ t # NoTable
    BY <2>0, <2>3, TableIsOne
  <2> QED
    BY <2>2, <2>3, <2>4 DEF Neat, ColumnsOf, ValuesOf, RowsOf
<1>6. CASE s.op = "rename column"
  <2> DEFINE cols == Renamed(t.columns, s.column, s.to)
             j == IF t.index = s.column THEN s.to ELSE t.index
  <2>0. IsTable(t)
    BY <1>3, <1>6
  <2>1. a = Tab(t.table, t.rows, t.values, t.checks, j, t.constraint, cols)
    BY <1>6, <2>0, AfterTab
  <2>2. s.column \in DOMAIN t.columns /\ t # NoTable
    BY <1>6, <2>0, TableIsOne DEF Legal
  <2>3. DOMAIN t.columns = {s.column}
    BY <2>2 DEF Neat, ColumnsOf
  <2>4. DOMAIN cols = {s.to} /\ cols[s.to] = t.columns[s.column]
    BY <2>3 DEF Renamed
  <2> HIDE DEF cols, j
  <2>5. IsTable(a) /\ a.rows = t.rows /\ a.values = t.values /\ a.columns = cols
    <3> DEFINE w == t.rows
               y == t.values
               z == cols
    <3> HIDE DEF w, y, z
    <3>1. \E n, k, i, r : a = Tab(n, w, y, k, i, r, z)
      BY <2>1 DEF w, y, z
    <3>2. Inside(a, w, y, z)
      BY <3>1, TabInside
    <3> QED
      BY <3>2 DEF Inside, w, y, z
  <2>6. a # NoTable
    BY <2>5, TableIsOne
  <2> QED
    BY <1>6, <2>2, <2>4, <2>5, <2>6 DEF Neat, ColumnsOf, ValuesOf, RowsOf
<1>7. CASE s.op = "alter"
  <2> DEFINE c == s.column
             d == t.columns[c]
             e == ChangedBy(d, s.changes)
             cols == [t.columns EXCEPT ![s.column] = ChangedBy(@, s.changes)]
  <2>0. IsTable(t)
    BY <1>3, <1>7
  <2>1. a = Tab(t.table, t.rows, t.values, t.checks, t.index, t.constraint, cols)
    BY <1>7, <2>0, AfterTab
  <2>2. c \in DOMAIN t.columns /\ t # NoTable
    BY <1>7, <2>0, TableIsOne DEF Legal
  <2>3. DOMAIN t.columns = {c}
    BY <2>2 DEF Neat, ColumnsOf
  <2>4. DOMAIN cols = {c} /\ cols[c] = e
    <3> HIDE DEF e
    <3>1. cols = [t.columns EXCEPT ![c] = e]
      BY DEF e
    <3> HIDE DEF cols, c
    <3> QED
      BY <2>3, <3>1
  <2>5. IsColumn(d) /\ ("null" \in t.values => d.type[2])
    BY <2>2 DEF Neat, ColumnsOf, ValuesOf
  <2>6. IsSeq(s.changes) /\ \A i \in DOMAIN s.changes : s.changes[i][1] \in Kinds
    BY <1>7 DEF WellFormed
  <2>7. \A i \in DOMAIN s.changes : s.changes[i][1] = "type" /\ "null" \in t.values => s.changes[i][2][2]
    BY <1>7 DEF Legal, ChangeLegal
  <2>8. /\ IsColumn(e)
        /\ \/ e.type = d.type
           \/ \E i \in DOMAIN s.changes : s.changes[i][1] = "type" /\ e.type = s.changes[i][2]
    <3> HIDE DEF d
    <3> QED
      BY <2>5, <2>6, ChangedByParts
  <2> HIDE DEF cols, e, d
  <2>9. "null" \in t.values => e.type[2]
    BY <2>5, <2>7, <2>8
  <2>10. IsTable(a) /\ a.rows = t.rows /\ a.values = t.values /\ a.columns = cols
    <3> DEFINE w == t.rows
               y == t.values
               z == cols
    <3> HIDE DEF w, y, z
    <3>1. \E n, k, i, r : a = Tab(n, w, y, k, i, r, z)
      BY <2>1 DEF w, y, z
    <3>2. Inside(a, w, y, z)
      BY <3>1, TabInside
    <3> QED
      BY <3>2 DEF Inside, w, y, z
  <2>11. a # NoTable
    BY <2>10, TableIsOne
  <2> QED
    BY <1>7, <2>2, <2>4, <2>8, <2>9, <2>10, <2>11 DEF Neat, ColumnsOf, ValuesOf, RowsOf
<1>8. CASE s.op = "fill"
  <2> DEFINE v == Filled(t.values, s)
  <2>0. IsTable(t)
    BY <1>3, <1>8
  <2>1. a = Tab(t.table, t.rows, v, t.checks, t.index, t.constraint, t.columns)
    BY <1>8, <2>0, AfterTab
  <2>2. s.value # "null"
    BY <1>8 DEF WellFormed
  <2>3. "null" \notin v /\ (t.values = {} => v = {})
    BY <2>2 DEF Filled
  <2> HIDE DEF v
  <2>4. IsTable(a) /\ a.rows = t.rows /\ a.values = v /\ a.columns = t.columns
    <3> DEFINE w == t.rows
               y == v
               z == t.columns
    <3> HIDE DEF w, y, z
    <3>1. \E n, k, i, r : a = Tab(n, w, y, k, i, r, z)
      BY <2>1 DEF w, y, z
    <3>2. Inside(a, w, y, z)
      BY <3>1, TabInside
    <3> QED
      BY <3>2 DEF Inside, w, y, z
  <2>5. a # NoTable /\ t # NoTable
    BY <2>0, <2>4, TableIsOne
  <2> QED
    BY <2>3, <2>4, <2>5 DEF Neat, ColumnsOf, ValuesOf, RowsOf
<1>9. CASE s.op \in Plain
  <2>1. IsTable(t) /\ s.op # "fill"
    BY <1>3, <1>9 DEF Plain
  <2>2. a = After(t, s)
    OBVIOUS
  <2>3. Neat(a) /\ ValuesOf(a) = ValuesOf(t)
    BY <1>9, <2>1, <2>2, OtherNeat
  <2> QED
    BY <2>1, <2>3
<1> QED
  BY <1>1, <1>2, <1>3, <1>4, <1>5, <1>6, <1>7, <1>8, <1>9 DEF Structural, Others, Plain

\* No column becomes NOT NULL while there are NULLs, or they are replaced first.
Guarded(q, values) ==
    \A i \in DOMAIN q : Narrows(q[i]) => "null" \notin values \/ \E j \in 1..(i - 1) : q[j].op = "fill"

\* No column changes.
NoAlter(q) == \A s \in Range(q) : s.op # "alter"

\* Without changes there is nothing to guard.
LEMMA NoAlterGuarded ==
    ASSUME NEW q, NoAlter(q), NEW values
    PROVE  Guarded(q, values)
<1>1. \A i \in DOMAIN q : q[i] \in Range(q)
  BY DEF Range
<1> QED
  BY <1>1 DEF NoAlter, Guarded, Narrows

\* What is guarded stays so when the first statement has executed.
LEMMA GuardedTail ==
    ASSUME NEW q, IsSeq(q), q # <<>>, NEW values, Guarded(q, values),
           NEW rest, "null" \in rest => "null" \in values /\ Head(q).op # "fill"
    PROVE  Guarded(Tail(q), rest)
<1> DEFINE r == Tail(q)
           n == Len(q)
<1>1. n \in Nat /\ n # 0 /\ DOMAIN q = 1..n /\ DOMAIN r = 1..(n - 1) /\ Head(q) = q[1]
  BY DEF IsSeq
<1>2. \A i \in 1..(n - 1) : r[i] = q[i + 1]
  BY DEF IsSeq
<1> HIDE DEF r, n
<1>3. ASSUME NEW i \in DOMAIN r, Narrows(r[i]), "null" \in rest
      PROVE  \E j \in 1..(i - 1) : r[j].op = "fill"
  <2>1. i \in 1..(n - 1) /\ i + 1 \in DOMAIN q /\ r[i] = q[i + 1]
    BY <1>1, <1>2
  <2>2. PICK j \in 1..((i + 1) - 1) : q[j].op = "fill"
    BY <1>3, <2>1 DEF Guarded
  <2>3. j # 1
    BY <1>1, <1>3, <2>2
  <2>4. j - 1 \in 1..(i - 1) /\ j - 1 \in 1..(n - 1) /\ (j - 1) + 1 = j
    BY <1>1, <2>1, <2>2, <2>3
  <2>5. r[j - 1] = q[j]
    BY <1>2, <2>4
  <2> QED
    BY <2>2, <2>4, <2>5
<1>4. Guarded(r, rest)
  BY <1>3 DEF Guarded
<1> QED
  BY <1>4 DEF r

\* The statements of an alteration are well formed.
LEMMA AlteringWellFormed ==
    ASSUME NEW t, NEW old \in Field, NEW new \in Field, NEW s, Altering(s, t, old, new)
    PROVE  WellFormed(s) /\ (s.op = "alter related" => new.primary_key)
<1>1. ASSUME NEW q, IsSeq(q), \A i \in DOMAIN q : q[i][1] \in Kinds, s = Alter(t, new.column, q)
      PROVE  WellFormed(s) /\ s.op # "alter related"
  <2>1. s.op = "alter" /\ s.on = cluster /\ s.changes = q
    BY <1>1 DEF Alter
  <2> QED
    BY <1>1, <2>1 DEF WellFormed
<1>2. ASSUME NEW x, x[1] \in Kinds, s = Alter(t, new.column, <<x>>)
      PROVE  WellFormed(s) /\ s.op # "alter related"
  <2> DEFINE q == <<x>>
  <2>1. IsSeq(q) /\ \A i \in DOMAIN q : q[i] = x
    BY Single, OnlyOne
  <2>2. s = Alter(t, new.column, q)
    BY <1>2
  <2> HIDE DEF q
  <2>3. \A i \in DOMAIN q : q[i][1] \in Kinds
    BY <1>2, <2>1
  <2> QED
    BY <1>1, <2>1, <2>2, <2>3
<1>3. CASE s = OnColumn("drop check", t, old.column)
  <2>1. s.op = "drop check" /\ s.on = cluster
    BY <1>3 DEF OnColumn
  <2> QED
    BY <2>1 DEF WellFormed
<1>4. CASE s = OnColumn("add check", t, new.column)
  <2>1. s.op = "add check" /\ s.on = cluster
    BY <1>4 DEF OnColumn
  <2> QED
    BY <2>1 DEF WellFormed
<1>5. CASE s = [op |-> "rename column", on |-> cluster, table |-> t, column |-> old.column, to |-> new.column]
  <2>1. s.op = "rename column" /\ s.on = cluster
    BY <1>5
  <2> QED
    BY <2>1 DEF WellFormed
<1>6. CASE s = Alter(t, new.column, FirstChanges(old, new))
  <2> DEFINE q == FirstChanges(old, new)
  <2>1. IsSeq(q) /\ \A i \in DOMAIN q : q[i][1] \in Kinds
    BY FirstChangesAre
  <2>2. s = Alter(t, new.column, q)
    BY <1>6
  <2> HIDE DEF q
  <2> QED
    BY <1>1, <2>1, <2>2
<1>7. CASE FourWay(old, new) /\ s = Fill(t, new.column, Replacement(new), FALSE)
  <2>1. s.op = "fill" /\ s.on = cluster /\ s.value = Replacement(new)
    BY <1>7 DEF Fill
  <2>2. Replacement(new) # "null"
    <3>1. new.default # "null" /\ (new.db_default = "null" => new.null)
      BY SchemaAssumption DEF Field
    <3> QED
      BY <1>7, <3>1 DEF Replacement, FourWay
  <2> QED
    BY <2>1, <2>2 DEF WellFormed
<1>8. CASE s = Alter(t, new.column, << <<"type", ColumnType(new)>> >>)
  <2> DEFINE x == <<"type", ColumnType(new)>>
  <2>1. x[1] \in Kinds
    BY DEF Kinds
  <2>2. s = Alter(t, new.column, <<x>>)
    BY <1>8
  <2> HIDE DEF x
  <2> QED
    BY <1>2, <2>1, <2>2
<1>9. CASE s = Alter(t, new.column, << <<"comment", new.comment>> >>)
  <2> DEFINE x == <<"comment", new.comment>>
  <2>1. x[1] \in Kinds
    BY DEF Kinds
  <2>2. s = Alter(t, new.column, <<x>>)
    BY <1>9
  <2> HIDE DEF x
  <2> QED
    BY <1>2, <2>1, <2>2
<1>10. CASE s = Alter(t, new.column, << <<"remove default">> >>)
  <2> DEFINE x == <<"remove default">>
  <2>1. x[1] \in Kinds
    BY DEF Kinds
  <2>2. s = Alter(t, new.column, <<x>>)
    BY <1>10
  <2> HIDE DEF x
  <2> QED
    BY <1>2, <2>1, <2>2
<1>11. CASE new.primary_key /\ s = [op |-> "alter related", on |-> cluster, type |-> new.type]
  <2>1. s.op = "alter related" /\ s.on = cluster /\ s.type = new.type
    BY <1>11
  <2>2. new.type # "absent"
    BY SchemaAssumption DEF Field
  <2> QED
    BY <1>11, <2>1, <2>2 DEF WellFormed
<1> QED
  BY <1>3, <1>4, <1>5, <1>6, <1>7, <1>8, <1>9, <1>10, <1>11 DEF Altering

\* Only with NULLs replaced, or without any, is the column of an alteration NOT NULL.
LEMMA AlterFieldGuarded ==
    ASSUME NEW t, NEW old \in Field, NEW new \in Field, NEW values,
           ~(old.null /\ ~new.null /\ ~FourWay(old, new)),
           "null" \in values => old.null \/ new.null, Distributed => values = {}
    PROVE  Guarded(AlterFieldSql(t, old, new), values)
<1> DEFINE q == AlterFieldSql(t, old, new)
<1>1. IsSeq(q) /\ \A s \in Range(q) : Altering(s, t, old, new)
  BY AlterFieldIs
<1>2. ASSUME NEW s, s = Alter(t, new.column, FirstChanges(old, new)), Narrows(s)
      PROVE  ~new.null /\ ~FourWay(old, new)
  <2>1. s.changes = FirstChanges(old, new)
    BY <1>2 DEF Alter
  <2>2. PICK i \in DOMAIN FirstChanges(old, new) :
               FirstChanges(old, new)[i][1] = "type" /\ ~FirstChanges(old, new)[i][2][2]
    BY <1>2, <2>1 DEF Narrows
  <2>3. ~EarlyType(old, new)[2]
    BY <2>2, FirstChangesAre
  <2> QED
    BY <2>3, EarlyTypeNull
<1>3. CASE FourWay(old, new) /\ ~Distributed
  <2> DEFINE x == Alter(t, new.column, FirstChanges(old, new))
  <2>0. FillSplits(q, x)
    BY <1>3, AlterFieldIs
  <2> HIDE DEF x
  <2>1. PICK p, f, r : /\ q = p \o <<f>> \o r
                       /\ IsSeq(p) /\ IsSeq(r) /\ f.op = "fill"
                       /\ \A s \in Range(p) : s.op = "alter" => s = x
    BY <2>0 DEF FillSplits
  <2> HIDE DEF q
  <2> DEFINE m == Len(p)
  <2>2. m \in Nat
    BY <2>1 DEF IsSeq
  <2>3. q[m + 1] = f /\ \A i \in 1..m : q[i] = p[i]
    BY <2>1, <2>2 DEF IsSeq
  <2>4. \A i \in 1..m : p[i] \in Range(p)
    BY <2>1 DEF Range, IsSeq
  <2>5. DOMAIN q \subseteq Nat \ {0}
    BY <1>1 DEF IsSeq
  <2> HIDE DEF m
  <2>6. ASSUME NEW i \in DOMAIN q, Narrows(q[i])
        PROVE  \E j \in 1..(i - 1) : q[j].op = "fill"
    <3>1. CASE i <= m
      <4>1. q[i] = p[i] /\ p[i] \in Range(p)
        BY <2>2, <2>3, <2>4, <2>5, <3>1
      <4>2. p[i].op = "alter"
        BY <2>6, <4>1 DEF Narrows
      <4>3. q[i] = Alter(t, new.column, FirstChanges(old, new))
        BY <2>1, <4>1, <4>2 DEF x
      <4> QED
        BY <1>2, <1>3, <2>6, <4>3
    <3>2. CASE i = m + 1
      BY <2>1, <2>3, <2>6, <3>2 DEF Narrows
    <3>3. CASE i > m + 1
      <4>1. m + 1 \in 1..(i - 1)
        BY <2>2, <2>5, <3>3
      <4> QED
        BY <2>1, <2>3, <4>1
    <3> QED
      BY <2>2, <2>5, <3>1, <3>2, <3>3
  <2> QED
    BY <2>6 DEF Guarded, q
<1>4. CASE FourWay(old, new) /\ Distributed
  BY <1>4 DEF Guarded
<1>5. CASE ~FourWay(old, new)
  <2>1. ASSUME NEW s, Altering(s, t, old, new), Narrows(s) PROVE "null" \notin values
    <3>1. s.op = "alter" /\ \E i \in DOMAIN s.changes : s.changes[i][1] = "type" /\ ~s.changes[i][2][2]
      BY <2>1 DEF Narrows
    <3>2. CASE s = Alter(t, new.column, FirstChanges(old, new))
      BY <1>2, <1>5, <2>1, <3>2
    <3>3. ASSUME NEW x, s = Alter(t, new.column, <<x>>) PROVE x[1] = "type"
      <4>1. s.changes = <<x>>
        BY <3>3 DEF Alter
      <4> QED
        BY <3>1, <4>1, OnlyOne
    <3>4. CASE s = Alter(t, new.column, << <<"comment", new.comment>> >>)
      <4> DEFINE x == <<"comment", new.comment>>
      <4>1. x[1] # "type" /\ s = Alter(t, new.column, <<x>>)
        BY <3>4
      <4> HIDE DEF x
      <4> QED
        BY <3>3, <4>1
    <3>5. CASE s = Alter(t, new.column, << <<"remove default">> >>)
      <4> DEFINE x == <<"remove default">>
      <4>1. x[1] # "type" /\ s = Alter(t, new.column, <<x>>)
        BY <3>5
      <4> HIDE DEF x
      <4> QED
        BY <3>3, <4>1
    <3>6. CASE s = OnColumn("drop check", t, old.column)
      <4>1. s.op = "drop check"
        BY <3>6 DEF OnColumn
      <4> QED
        BY <3>1, <4>1
    <3>8. CASE s = OnColumn("add check", t, new.column)
      <4>1. s.op = "add check"
        BY <3>8 DEF OnColumn
      <4> QED
        BY <3>1, <4>1
    <3>7. CASE s = [op |-> "rename column", on |-> cluster, table |-> t,
                    column |-> old.column, to |-> new.column]
      <4>1. s.op = "rename column"
        BY <3>7
      <4> QED
        BY <3>1, <4>1
    <3>9. CASE s = [op |-> "alter related", on |-> cluster, type |-> new.type]
      <4>1. s.op = "alter related"
        BY <3>9
      <4> QED
        BY <3>1, <4>1
    <3> QED
      BY <1>5, <2>1, <3>2, <3>4, <3>5, <3>6, <3>7, <3>8, <3>9 DEF Altering
  <2>2. \A i \in DOMAIN q : q[i] \in Range(q)
    BY DEF Range
  <2> HIDE DEF q
  <2>3. Guarded(q, values)
    BY <1>1, <2>1, <2>2 DEF Guarded
  <2> QED
    BY <2>3 DEF q
<1> QED
  BY <1>3, <1>4, <1>5

-----------------------------------------------------------------------------
(* The invariant of what the model says of its table.                       *)

\* The table at hand, without its rows.
Seen == Bare(server[Here])

\* The other nodes of the cluster have the same table; the others have none.
Alike ==
    /\ DOMAIN server = Node
    /\ \A n \in Node \ {Here} : server[n] = IF cluster THEN Seen ELSE NoTable

\* The table is as the model says, or the statements to come make it so.
Leading ==
    "check" \notin excuses =>
      /\ pc # "closed" => Leads(Seen, todo, project, deferred)
      /\ pc # "closed" /\ ~touched => Meets(Seen, before, <<>>)
      /\ pc # "closed" /\ Repeatable(last) => Between(Seen, before, last[2], last[3])
      /\ pc = "closed" /\ "broken" \notin excuses => Meets(Seen, project, <<>>)
      /\ pc = "closed" /\ "broken" \in excuses /\ Repeatable(last) =>
           Between(Seen, project, last[2], last[3])

\* The statements to come of an alteration that can be repeated.
Altered ==
    last[1] = "alter field" =>
      /\ last[2] \in Field /\ last[3] \in Field
      /\ pc # "closed" /\ Repeatable(last) =>
           \A s \in Range(todo) : Altering(s, before.table, last[2], last[3])

\* The statements to come are well formed.
Formed ==
    /\ Neat(server[Here])
    /\ \A s \in Range(todo) :
         WellFormed(s) /\ (s.op = "alter related" => cluster = relCluster \/ "cluster" \in excuses)
    /\ \A s \in Range(deferred) : s.on = cluster

\* No statement to come meets NULLs that it cannot convert.
Guards ==
    /\ (\E s \in Range(todo) : s.op = "add column") => NoAlter(todo)
    /\ pc = "leaving" => NoAlter(todo)
    /\ pc = "running" /\ excuses \cap {"null", "check"} = {}
         => Guarded(todo, ValuesOf(server[Here]))

\* The related column is there on the nodes that its model has.
Reached == \A n \in Node : relCluster \/ n = Here => related[n] # "absent"

\* The inductive invariant, together with SchemaInv.
DeclaredInv == Alike /\ Leading /\ Altered /\ Formed /\ Guards /\ Reached /\ NothingRefused

\* Nothing that the model says depends on more than the cluster.
LEMMA SettingsSame ==
    ASSUME engine' = engine, cluster' = cluster, relCluster' = relCluster
    PROVE  /\ \A t, m, later : Meets(t, m, later)' <=> Meets(t, m, later)
           /\ \A t, q, m, later : Leads(t, q, m, later)' <=> Leads(t, q, m, later)
           /\ \A t, m, old, new : Between(t, m, old, new)' <=> Between(t, m, old, new)
           /\ \A s, t, old, new : Altering(s, t, old, new)' <=> Altering(s, t, old, new)
           /\ \A s : WellFormed(s)' <=> WellFormed(s)
<1>1. ASSUME NEW t, NEW m, NEW later PROVE Meets(t, m, later)' <=> Meets(t, m, later)
  BY DEF Meets, Pending, AddIndexSql, AddCheckSql, OnColumn, On
<1>2. ASSUME NEW t, NEW q, NEW m, NEW later PROVE Leads(t, q, m, later)' <=> Leads(t, q, m, later)
  BY <1>1 DEF Leads
<1>3. ASSUME NEW t, NEW m, NEW old, NEW new PROVE Between(t, m, old, new)' <=> Between(t, m, old, new)
  BY DEF Between
<1>4. ASSUME NEW s, NEW t, NEW old, NEW new PROVE Altering(s, t, old, new)' <=> Altering(s, t, old, new)
  BY DEF Altering, OnColumn, Alter, Fill, Distributed
<1>5. ASSUME NEW s PROVE WellFormed(s)' <=> WellFormed(s)
  BY DEF WellFormed
<1> QED
  BY <1>1, <1>2, <1>3, <1>4, <1>5

\* Without statements there is nothing to lead to.
LEMMA LeadsNone ==
    ASSUME NEW t, NEW m, NEW later, Leads(t, <<>>, m, later)
    PROVE  Meets(t, m, later)
<1>1. PICK u : Runs(t, <<>>, u) /\ (Meets(u, m, later) \/ \E s \in Range(<<>>) : s.op = "raise")
  BY DEF Leads
<1> QED
  BY <1>1, RunsNone, EmptyRange

\* Between operations the table is as the model says, or an alteration that broke
\* is run again.
LEMMA ReadyMeets ==
    ASSUME SchemaInv, DeclaredInv, NEW op, NEW q, NEW m, NEW later, NEW why,
           Operate(op, q, m, later, why), "check" \notin excuses'
    PROVE  /\ "check" \notin excuses
           /\ \/ ~Retry(op) /\ Meets(Seen, project, deferred)
              \/ Retry(op) /\ deferred = <<>> /\ Between(Seen, project, op[2], op[3])
           /\ op[1] \in Moving => \A i \in DOMAIN deferred : Tracked(deferred[i])
<1>1. pc \in {"closed", "open"} /\ todo = <<>> /\ (pc = "closed" => deferred = <<>>)
  BY DEF SchemaInv, Statements, Operate
<1>2. "check" \notin excuses /\ (op[1] \in Moving => \A i \in DOMAIN deferred : Tracked(deferred[i]))
  BY DEF Operate
<1>3. CASE pc = "open"
  <2>1. Leads(Seen, <<>>, project, deferred)
    BY <1>1, <1>2, <1>3 DEF DeclaredInv, Leading
  <2>2. ~Retry(op)
    BY <1>3 DEF Retry
  <2> QED
    BY <1>2, <2>1, <2>2, LeadsNone
<1>4. CASE pc = "closed"
  <2>1. "broken" \notin excuses \/ Retry(op)
    BY DEF Operate
  <2>2. CASE Retry(op)
    <3>1. op = last /\ Repeatable(last) /\ "broken" \in excuses
      BY <2>2 DEF Retry
    <3>2. Between(Seen, project, op[2], op[3])
      BY <1>2, <1>4, <3>1 DEF DeclaredInv, Leading
    <3> QED
      BY <1>1, <1>2, <1>4, <2>2, <3>2
  <2>3. CASE ~Retry(op)
    <3>1. Meets(Seen, project, <<>>)
      BY <1>2, <1>4, <2>1, <2>3 DEF DeclaredInv, Leading
    <3> QED
      BY <1>1, <1>2, <1>4, <2>3, <3>1
  <2> QED
    BY <2>2, <2>3
<1> QED
  BY <1>1, <1>3, <1>4

\* Beginning an operation whose statements lead to its model keeps the invariant.
LEMMA OperateDeclares ==
    ASSUME SchemaInv, DeclaredInv, NEW op, NEW q, NEW m, NEW later, NEW why,
           Operate(op, q, m, later, why),
           "check" \notin excuses' => Leads(Seen, q, m, later),
           "check" \notin excuses' /\ Repeatable(op) /\ pc = "closed" => Between(Seen, project, op[2], op[3]),
           op[1] = "alter field" =>
             /\ op[2] \in Field /\ op[3] \in Field
             /\ \A s \in Range(q) : Altering(s, project.table, op[2], op[3]),
           \A s \in Range(q) :
             WellFormed(s) /\ (s.op = "alter related" => cluster = relCluster \/ "cluster" \in excuses'),
           \A s \in Range(later) : s.on = cluster,
           (\E s \in Range(q) : s.op = "add column") => NoAlter(q),
           excuses' \cap {"null", "check"} = {} => Guarded(q, ValuesOf(server[Here]))
    PROVE  DeclaredInv'
<1>1. /\ pc \in {"closed", "open"} /\ todo' = q /\ project' = m /\ deferred' = later
      /\ last' = (IF pc = "closed" THEN op ELSE NoOp)
      /\ before' = (IF pc = "closed" THEN project ELSE before)
      /\ touched' = (Retry(op) \/ (pc = "open" /\ touched))
      /\ pc' = (IF q = <<>> THEN "open" ELSE "running")
      /\ cluster' = cluster /\ relCluster' = relCluster /\ engine' = engine
      /\ server' = server /\ related' = related
  BY DEF Operate, settings
<1>2. NoOp[1] = "none"
  BY DEF NoOp
<1>3. Seen' = Seen
  BY <1>1 DEF Seen
<1>4. /\ \A t, n, l : Meets(t, n, l)' <=> Meets(t, n, l)
      /\ \A t, p, n, l : Leads(t, p, n, l)' <=> Leads(t, p, n, l)
      /\ \A t, n, old, new : Between(t, n, old, new)' <=> Between(t, n, old, new)
      /\ \A s, t, old, new : Altering(s, t, old, new)' <=> Altering(s, t, old, new)
      /\ \A s : WellFormed(s)' <=> WellFormed(s)
  BY <1>1, SettingsSame
<1>5. pc' # "closed" /\ pc' \in {"open", "running"}
  BY <1>1
<1>6. Alike'
  BY <1>1, <1>3 DEF DeclaredInv, Alike
<1>7. ASSUME Repeatable(last') PROVE last' = op /\ pc = "closed" /\ before' = project
  BY <1>1, <1>2, <1>7 DEF Repeatable
<1>8. Repeatable(last)' <=> Repeatable(last')
  BY DEF Repeatable
<1>9. Leading'
  <2> SUFFICES ASSUME "check" \notin excuses' PROVE Leading'
    BY DEF Leading
  <2>1. Leads(Seen', todo', project', deferred')
    BY <1>1, <1>3
  <2>2. ~touched' => Meets(Seen', before', <<>>)
    <3> SUFFICES ASSUME ~touched' PROVE Meets(Seen', before', <<>>)
      OBVIOUS
    <3>1. ~Retry(op)
      BY <1>1
    <3>2. CASE pc = "closed"
      <4>1. deferred = <<>>
        BY <3>2 DEF SchemaInv, Statements
      <4>2. Meets(Seen, project, deferred)
        BY <3>1, ReadyMeets
      <4> QED
        BY <1>1, <1>3, <3>2, <4>1, <4>2
    <3>3. CASE pc = "open"
      <4>1. "check" \notin excuses /\ ~touched
        BY <1>1, <3>3, ReadyMeets
      <4>2. Meets(Seen, before, <<>>)
        BY <3>3, <4>1 DEF DeclaredInv, Leading
      <4>3. before' = before
        BY <1>1, <3>3
      <4> QED
        BY <1>3, <4>2, <4>3
    <3> QED
      BY <1>1, <3>2, <3>3
  <2>3. Repeatable(last') => Between(Seen', before', last'[2], last'[3])
    BY <1>3, <1>7
  <2>4. Leads(Seen, todo, project, deferred)'
    BY <1>4, <2>1
  <2>5. ~touched' => Meets(Seen, before, <<>>)'
    BY <1>4, <2>2
  <2>6. Repeatable(last') => Between(Seen, before, last[2], last[3])'
    BY <1>4, <2>3
  <2> QED
    BY <1>5, <1>8, <2>4, <2>5, <2>6 DEF Leading
<1>10. Altered'
  <2> SUFFICES ASSUME last'[1] = "alter field" PROVE Altered'
    BY DEF Altered
  <2>1. last' = op /\ pc = "closed" /\ before' = project
    BY <1>1, <1>2
  <2>2. op[2] \in Field /\ op[3] \in Field /\ \A s \in Range(q) : Altering(s, project.table, op[2], op[3])
    BY <2>1
  <2>3. \A s \in Range(todo') : Altering(s, before'.table, last'[2], last'[3])
    BY <1>1, <2>1, <2>2
  <2>4. \A s \in Range(todo') : Altering(s, before.table, last[2], last[3])'
    BY <1>4, <2>3
  <2>5. last'[2] \in Field /\ last'[3] \in Field
    BY <2>1, <2>2
  <2> QED
    BY <2>4, <2>5 DEF Altered
<1>11. Formed'
  <2>1. Neat(server[Here])'
    BY <1>1 DEF DeclaredInv, Formed
  <2> QED
    BY <1>1, <1>4, <2>1 DEF Formed
<1>12. Guards'
  BY <1>1, <1>5 DEF Guards
<1>13. Reached'
  BY <1>1 DEF DeclaredInv, Reached
<1>14. NothingRefused'
  BY <1>5 DEF NothingRefused
<1> QED
  BY <1>6, <1>9, <1>10, <1>11, <1>12, <1>13, <1>14 DEF DeclaredInv

\* What is deferred goes to the nodes of the model.
Waiting == {s \in DeferredStatement : s.on = cluster}

\* It does, and so do statements made of it.
LEMMA DeferredWaiting ==
    ASSUME SchemaInv, DeclaredInv
    PROVE  deferred \in Seq(Waiting)
<1>1. deferred \in Seq(DeferredStatement) /\ \A s \in Range(deferred) : s.on = cluster
  BY DEF SchemaInv, Statements, DeclaredInv, Formed
<1>2. \A i \in DOMAIN deferred : deferred[i] \in Waiting
  BY <1>1 DEF Range, Waiting
<1> QED
  BY <1>1, <1>2

\* A sequence of such statements.
LEMMA WaitingOn ==
    ASSUME NEW q \in Seq(Waiting)
    PROVE  \A s \in Range(q) : s.on = cluster
<1>1. \A i \in DOMAIN q : q[i] \in Waiting
  OBVIOUS
<1> QED
  BY <1>1 DEF Range, Waiting

\* Before another operation than alter_field the table is as the model says.
LEMMA OtherMeets ==
    ASSUME SchemaInv, DeclaredInv, NEW op, NEW q, NEW m, NEW later, NEW why,
           Operate(op, q, m, later, why), "check" \notin excuses', op[1] # "alter field"
    PROVE  /\ Meets(Seen, project, deferred)
           /\ op[1] \in Moving => \A i \in DOMAIN deferred : Tracked(deferred[i])
<1>1. ~Retry(op)
  BY DEF Retry, Repeatable
<1> QED
  BY <1>1, ReadyMeets

\* Beginning such an operation keeps the invariant.
LEMMA OtherDeclares ==
    ASSUME SchemaInv, DeclaredInv, NEW op, NEW q, NEW m, NEW later, NEW why,
           Operate(op, q, m, later, why), op[1] # "alter field",
           "check" \notin excuses' => Leads(Seen, q, m, later),
           \A s \in Range(q) : WellFormed(s) /\ s.op \notin {"alter", "alter related"},
           later \in Seq(Waiting)
    PROVE  DeclaredInv'
<1>1. ~Repeatable(op)
  BY NotAlteration
<1>2. NoAlter(q)
  BY DEF NoAlter
<1>3. Guarded(q, ValuesOf(server[Here]))
  BY <1>2, NoAlterGuarded
<1>4. \A s \in Range(later) : s.on = cluster
  BY WaitingOn
<1> QED
  BY <1>1, <1>2, <1>3, <1>4, OperateDeclares

\* Statements whose parts are not looked at are well formed.
LEMMA SimpleWellFormed ==
    ASSUME NEW s, s.on = cluster, s.op \notin {"create", "add column", "alter", "fill", "alter related"}
    PROVE  WellFormed(s)
BY DEF WellFormed

\* What there is of a table and a field in the models of migrations.
LEMMA ProjectParts ==
    ASSUME SchemaInv
    PROVE  /\ project \in Model /\ project.table \in Table \cup {"none"}
           /\ project.index \in BOOLEAN /\ project.constraint \in BOOLEAN
           /\ HasField => project.field \in Field /\ project.table # "none"
           /\ project.index => HasField
           /\ project.table # "none" => project.table \in Table
BY DEF SchemaInv, Projects, IsModel, Model, HasField

\* CREATE TABLE says all of its column.
LEMMA CreateWellFormed ==
    ASSUME NEW m \in Model
    PROVE  WellFormed(Create(m)) /\ Create(m).op = "create"
<1>1. Create(m).op = "create" /\ Create(m).on = cluster
  BY DEF Create
<1>2. Create(m).columns = <<>> \/ IsColumn(Create(m).columns[2])
  <2>1. CASE m.field = NoField
    BY <2>1 DEF Create
  <2>2. CASE m.field # NoField
    <3>1. Create(m).columns[2] = ColumnOf(m.field)
      BY <2>2 DEF Create
    <3>2. IsColumn(ColumnOf(m.field))
      BY DEF IsColumn, ColumnOf
    <3> QED
      BY <3>1, <3>2
  <2> QED
    BY <2>1, <2>2
<1> QED
  BY <1>1, <1>2 DEF WellFormed

\* create_model.
LEMMA CreateModelDeclares ==
    ASSUME SchemaInv, DeclaredInv, NEW m \in Model, m.table \in Table, m.index => m.field # NoField,
           CreateModel(m)
    PROVE  DeclaredInv'
<1> DEFINE op == <<"create model", m>>
           q == CreateModelSql(m)
           add == OnColumn("add index", m.table, m.field.column)
           later == IF m.index /\ engine = "MergeTree" THEN Append(deferred, add) ELSE deferred
           first == IF m.index /\ engine = "MergeTree" THEN <<AddIndexSql(m)>> ELSE <<>>
<1>1. project.table = "none" /\ Operate(op, q, m, later, {})
  BY DEF CreateModel
<1>2. op[1] = "create model" /\ "create model" \notin Moving
  BY DEF Moving
<1>3. m.table # "none"
  BY SchemaAssumption
<1>4. Leads(NoTable, q, m, first)
  BY <1>3, CreateModelLeads
<1>5. deferred = <<>> => later = first
  BY DEF AddIndexSql
<1>6. later \in Seq(Waiting)
  <2>1. deferred \in Seq(Waiting)
    BY DeferredWaiting
  <2>2. CASE m.index /\ engine = "MergeTree"
    <3>1. m.field \in Field
      BY <2>2 DEF Model
    <3>2. cluster \in BOOLEAN /\ m.field.column \in Column
      BY <3>1, FieldIsOne DEF SchemaInv, Projects
    <3>3. add \in Waiting
      BY <3>2 DEF Waiting, DeferredStatement, OnColumn
    <3>4. later = Append(deferred, add)
      BY <2>2
    <3> HIDE DEF add, later
    <3> QED
      BY <2>1, <3>3, <3>4
  <2>3. CASE ~(m.index /\ engine = "MergeTree")
    BY <2>1, <2>3
  <2> QED
    BY <2>2, <2>3
<1>7. \A s \in Range(q) : s = Create(m) \/ s = On("raise", m.table)
  BY CreateModelSays
<1>8. WellFormed(Create(m)) /\ Create(m).op = "create"
  BY CreateWellFormed
<1>9. On("raise", m.table).op = "raise" /\ On("raise", m.table).on = cluster
  BY DEF On
<1> HIDE DEF op, q, later, first
<1>10. WellFormed(On("raise", m.table))
  BY <1>9, SimpleWellFormed
<1>11. \A s \in Range(q) : WellFormed(s) /\ s.op \notin {"alter", "alter related"}
  BY <1>7, <1>8, <1>9, <1>10
<1>12. "check" \notin excuses' => Leads(Seen, q, m, later)
  <2> SUFFICES ASSUME "check" \notin excuses' PROVE Leads(Seen, q, m, later)
    OBVIOUS
  <2>1. Meets(Seen, project, deferred)
    BY <1>1, <1>2, OtherMeets
  <2>2. Seen = NoTable /\ deferred = <<>>
    BY <1>1, <2>1 DEF Meets
  <2> QED
    BY <1>4, <1>5, <2>2
<1>13. op[1] # "alter field"
  BY <1>2
<1> QED
  BY <1>1, <1>6, <1>11, <1>12, <1>13, OtherDeclares

\* Where all that is deferred can be found, nothing of it is left.
LEMMA UnreferencedNone ==
    ASSUME NEW S, NEW q \in Seq(S), \A i \in DOMAIN q : Tracked(q[i])
    PROVE  Unreferenced(q) = <<>>
<1> DEFINE T == Range(q)
           u == Unreferenced(q)
<1>1. q \in Seq(T)
  BY DEF Range
<1>2. \A s \in T : Tracked(s)
  BY DEF Range
<1> HIDE DEF T, u
<1>3. u \in Seq(T) /\ \A i \in DOMAIN u : ~Tracked(u[i])
  BY <1>1, UnreferencedRest DEF u
<1>4. \A i \in DOMAIN u : u[i] \in T
  BY <1>3
<1>5. DOMAIN u = {}
  BY <1>2, <1>3, <1>4
<1> QED
  BY <1>3, <1>5 DEF u

\* delete_model.
LEMMA DeleteModelDeclares ==
    ASSUME SchemaInv, DeclaredInv, DeleteModel
    PROVE  DeclaredInv'
<1> DEFINE op == <<"delete model">>
           s == On("drop", project.table)
           q == <<s>>
           m == [table |-> "none", field |-> NoField, index |-> FALSE, constraint |-> FALSE]
           later == Unreferenced(deferred)
<1>1. project.table # "none" /\ Operate(op, q, m, later, {})
  BY DEF DeleteModel
<1>2. op[1] = "delete model" /\ op[1] \in Moving /\ m.table = "none"
  BY DEF Moving
<1>3. s.op = "drop" /\ s.on = cluster
  BY DEF On
<1>4. Range(q) = {s}
  BY Single
<1>5. deferred \in Seq(Waiting)
  BY DeferredWaiting
<1>6. later \in Seq(Waiting)
  BY <1>5, UnreferencedRest
<1> HIDE DEF op, q, later, m, s
<1>7. WellFormed(s)
  BY <1>3, SimpleWellFormed
<1>8. "check" \notin excuses' => Leads(Seen, q, m, later)
  <2> SUFFICES ASSUME "check" \notin excuses' PROVE Leads(Seen, q, m, later)
    OBVIOUS
  <2>1. Meets(Seen, project, deferred) /\ \A i \in DOMAIN deferred : Tracked(deferred[i])
    BY <1>1, <1>2, OtherMeets
  <2>2. later = <<>>
    BY <1>5, <2>1, UnreferencedNone DEF later
  <2>3. Leads(Seen, q, m, <<>>)
    BY <1>1, <1>2, <2>1, DeleteModelLeads DEF q, s
  <2> QED
    BY <2>2, <2>3
<1> QED
  BY <1>1, <1>2, <1>3, <1>4, <1>6, <1>7, <1>8, OtherDeclares

\* What a field says of its column is complete, and no default is NULL without need.
LEMMA FieldColumn ==
    ASSUME NEW f \in Field
    PROVE  /\ IsColumn(ColumnOf(f))
           /\ ColumnOf(f).default = "null" => ColumnOf(f).type[2]
           /\ f.default # "null"
<1>1. PICK s \in Shape : f.default = s.default /\ f.db_default = s.db_default /\ f.null = s.null
  BY DEF Field
<1>2. s.default # "null" /\ (s.db_default = "null" => s.null)
  BY SchemaAssumption
<1>3. IsColumn(ColumnOf(f)) /\ ColumnOf(f).default = f.db_default /\ ColumnOf(f).type = ColumnType(f)
  BY DEF IsColumn, ColumnOf
<1>4. ColumnType(f)[2] = f.null
  BY DEF ColumnType
<1> QED
  BY <1>1, <1>2, <1>3, <1>4

\* add_field.
LEMMA AddFieldDeclares ==
    ASSUME SchemaInv, DeclaredInv, NEW f \in Field, AddField(f)
    PROVE  DeclaredInv'
<1> DEFINE op == <<"add field", f>>
           q == AddFieldSql(project.table, f)
           m == [project EXCEPT !.field = f]
           check == OnColumn("add check", project.table, f.column)
           later == IF f.check THEN Append(deferred, check) ELSE deferred
           first == IF f.check THEN <<check>> ELSE <<>>
           add == AddColumn(project.table, f)
           fill == Fill(project.table, f.column, f.default, TRUE)
<1>1. project.table # "none" /\ ~HasField /\ Operate(op, q, m, later, {})
  BY DEF AddField
<1>2. op[1] = "add field"
  OBVIOUS
<1>3. project \in Model /\ project.table \in Table /\ project.index = FALSE /\ project.field = NoField
  BY <1>1, ProjectParts DEF HasField
<1>4. m.table = project.table /\ m.field = f /\ m.index = FALSE /\ m.constraint = project.constraint
  BY <1>3 DEF Model
<1>5. deferred = <<>> => later = first
  OBVIOUS
<1>6. later \in Seq(Waiting)
  <2>1. deferred \in Seq(Waiting)
    BY DeferredWaiting
  <2>2. CASE f.check
    <3>1. cluster \in BOOLEAN /\ f.column \in Column
      BY FieldIsOne DEF SchemaInv, Projects
    <3>2. check \in Waiting
      BY <1>3, <3>1 DEF Waiting, DeferredStatement, OnColumn
    <3>3. later = Append(deferred, check)
      BY <2>2
    <3> HIDE DEF check, later
    <3> QED
      BY <2>1, <3>2, <3>3
  <2>3. CASE ~f.check
    BY <2>1, <2>3
  <2> QED
    BY <2>2, <2>3
<1>7. \A s \in Range(q) : s = add \/ s = fill
  BY AddFieldSays
<1>8. /\ add.op = "add column" /\ add.on = cluster /\ add.definition = ColumnOf(f)
      /\ fill.op = "fill" /\ fill.on = cluster /\ fill.value = f.default
  BY DEF AddColumn, Fill
<1> HIDE DEF op, q, m, later, first, add, fill
<1>9. WellFormed(add) /\ WellFormed(fill)
  BY <1>8, FieldColumn DEF WellFormed
<1>10. \A s \in Range(q) : WellFormed(s) /\ s.op \notin {"alter", "alter related"}
  BY <1>7, <1>8, <1>9
<1>11. "check" \notin excuses' => Leads(Seen, q, m, later)
  <2> SUFFICES ASSUME "check" \notin excuses' PROVE Leads(Seen, q, m, later)
    OBVIOUS
  <2>1. Meets(Seen, project, deferred)
    BY <1>1, <1>2, OtherMeets
  <2>2. deferred = <<>>
    BY <1>3, <2>1, NothingLater
  <2>3. first = IF f.check THEN <<OnColumn("add check", project.table, f.column)>> ELSE <<>>
    BY DEF first
  <2>4. Leads(Seen, q, m, first)
    BY <1>1, <1>3, <1>4, <2>1, <2>3, AddFieldLeads DEF q
  <2> QED
    BY <1>5, <2>2, <2>4
<1> QED
  BY <1>1, <1>2, <1>6, <1>10, <1>11, OtherDeclares

\* remove_field.
LEMMA RemoveFieldDeclares ==
    ASSUME SchemaInv, DeclaredInv, RemoveField
    PROVE  DeclaredInv'
<1> DEFINE op == <<"remove field">>
           f == project.field
           q == RemoveFieldSql(project.table, project.field)
           m == [project EXCEPT !.field = NoField, !.index = FALSE]
           later == Unreferenced(deferred)
           drop == OnColumn("drop column", project.table, f.column)
           check == OnColumn("drop check", project.table, f.column)
<1>1. /\ HasField /\ Operate(op, q, m, later, {})
      /\ project.index => \E i \in DOMAIN deferred : Tracked(deferred[i])
  BY DEF RemoveField
<1>2. op[1] = "remove field" /\ op[1] \in Moving
  BY DEF Moving
<1>3. project \in Model /\ f \in Field /\ project.table # "none"
  BY <1>1, ProjectParts
<1>4. m.table = project.table /\ m.field = NoField /\ m.constraint = project.constraint
  BY <1>3 DEF Model
<1>5. deferred \in Seq(Waiting)
  BY DeferredWaiting
<1>6. later \in Seq(Waiting)
  BY <1>5, UnreferencedRest
<1>7. \A s \in Range(q) : s = drop \/ s = check
  BY <1>3, RemoveFieldSays
<1>8. drop.op = "drop column" /\ drop.on = cluster /\ check.op = "drop check" /\ check.on = cluster
  BY DEF OnColumn
<1> HIDE DEF op, f, q, m, later, drop, check
<1>9. WellFormed(drop) /\ WellFormed(check)
  BY <1>8, SimpleWellFormed
<1>10. \A s \in Range(q) : WellFormed(s) /\ s.op \notin {"alter", "alter related"}
  BY <1>7, <1>8, <1>9
<1>11. "check" \notin excuses' => Leads(Seen, q, m, later)
  <2> SUFFICES ASSUME "check" \notin excuses' PROVE Leads(Seen, q, m, later)
    OBVIOUS
  <2>1. Meets(Seen, project, deferred) /\ \A i \in DOMAIN deferred : Tracked(deferred[i])
    BY <1>1, <1>2, OtherMeets
  <2>2. later = <<>>
    BY <1>5, <2>1, UnreferencedNone DEF later
  <2>3. project.index => deferred # <<>>
    BY <1>1, EmptyRange
  <2>4. Leads(Seen, q, m, <<>>)
    BY <1>3, <1>4, <2>1, <2>3, RemoveFieldLeads DEF q, f
  <2> QED
    BY <2>2, <2>4
<1> QED
  BY <1>1, <1>2, <1>6, <1>10, <1>11, OtherDeclares

\* alter_db_table.
LEMMA AlterTableDeclares ==
    ASSUME SchemaInv, DeclaredInv, NEW t \in Table, AlterTable(t)
    PROVE  DeclaredInv'
<1> DEFINE op == <<"alter table", t>>
           s == [op |-> "rename", on |-> cluster, table |-> project.table, to |-> t]
           q == <<s>>
           m == [project EXCEPT !.table = t]
           later == [i \in DOMAIN deferred |-> TableRenamed(deferred[i], t)]
<1>1. project.table # "none" /\ Operate(op, q, m, later, {})
  BY DEF AlterTable
<1>2. op[1] = "alter table" /\ op[1] \in Moving /\ t # "none"
  BY SchemaAssumption DEF Moving
<1>3. project \in Model
  BY ProjectParts
<1>4. m.table = t /\ m.field = project.field /\ m.index = project.index /\ m.constraint = project.constraint
  BY <1>3 DEF Model
<1>5. s.op = "rename" /\ s.on = cluster /\ s.table = project.table /\ s.to = t
  OBVIOUS
<1>6. Range(q) = {s}
  BY Single
<1>7. later \in Seq(Waiting)
  <2>1. deferred \in Seq(Waiting)
    BY DeferredWaiting
  <2>2. ASSUME NEW d \in Waiting PROVE TableRenamed(d, t) \in Waiting
    BY DEF TableRenamed, Waiting, DeferredStatement
  <2>3. DOMAIN deferred = 1..Len(deferred) /\ Len(deferred) \in Nat
    BY <2>1
  <2>4. \A i \in 1..Len(deferred) : TableRenamed(deferred[i], t) \in Waiting
    BY <2>1, <2>2
  <2>5. later = [i \in 1..Len(deferred) |-> TableRenamed(deferred[i], t)]
    BY <2>3
  <2> HIDE DEF later
  <2> QED
    BY <2>3, <2>4, <2>5
<1> HIDE DEF op, s, q, m
<1>8. WellFormed(s)
  BY <1>5, SimpleWellFormed
<1>9. "check" \notin excuses' => Leads(Seen, q, m, later)
  <2> SUFFICES ASSUME "check" \notin excuses' PROVE Leads(Seen, q, m, later)
    OBVIOUS
  <2>1. Meets(Seen, project, deferred) /\ \A i \in DOMAIN deferred : Tracked(deferred[i])
    BY <1>1, <1>2, OtherMeets
  <2>2. Leads(Seen, q, m, [i \in DOMAIN deferred |-> TableRenamed(deferred[i], s.to)])
    BY <1>1, <1>2, <1>4, <1>5, <2>1, AlterTableLeads DEF q
  <2> QED
    BY <1>5, <2>2
<1> HIDE DEF later
<1> QED
  BY <1>1, <1>2, <1>5, <1>6, <1>7, <1>8, <1>9, OtherDeclares

\* add_index.
LEMMA AddIndexDeclares ==
    ASSUME SchemaInv, DeclaredInv, AddIndex
    PROVE  DeclaredInv'
<1> DEFINE op == <<"add index">>
           s == OnColumn("add index", project.table, project.field.column)
           q == <<s>>
           m == [project EXCEPT !.index = TRUE]
<1>1. HasField /\ ~project.index /\ Operate(op, q, m, deferred, {})
  BY DEF AddIndex
<1>2. op[1] = "add index"
  OBVIOUS
<1>3. /\ project \in Model /\ project.table # "none" /\ project.field # NoField /\ project.index = FALSE
  BY <1>1, ProjectParts DEF HasField
<1>4. /\ m.table = project.table /\ m.field = project.field /\ m.index = TRUE
      /\ m.constraint = project.constraint
  BY <1>3 DEF Model
<1>5. s.op = "add index" /\ s.on = cluster
  BY DEF OnColumn
<1>6. Range(q) = {s}
  BY Single
<1> HIDE DEF op, s, q, m
<1>7. WellFormed(s)
  BY <1>5, SimpleWellFormed
<1>8. "check" \notin excuses' => Leads(Seen, q, m, deferred)
  <2> SUFFICES ASSUME "check" \notin excuses' PROVE Leads(Seen, q, m, deferred)
    OBVIOUS
  <2>1. Meets(Seen, project, deferred)
    BY <1>1, <1>2, OtherMeets
  <2> QED
    BY <1>3, <1>4, <2>1, AddIndexLeads DEF q, s
<1> QED
  BY <1>1, <1>2, <1>5, <1>6, <1>7, <1>8, DeferredWaiting, OtherDeclares

\* remove_index.
LEMMA RemoveIndexDeclares ==
    ASSUME SchemaInv, DeclaredInv, RemoveIndex
    PROVE  DeclaredInv'
<1> DEFINE op == <<"remove index">>
           s == On("drop index", project.table)
           q == <<s>>
           m == [project EXCEPT !.index = FALSE]
<1>1. /\ project.index /\ Operate(op, q, m, deferred, {})
      /\ \A i \in DOMAIN deferred : ~Tracked(deferred[i])
  BY DEF RemoveIndex
<1>2. op[1] = "remove index"
  OBVIOUS
<1>3. /\ project \in Model /\ project.table # "none" /\ project.field \in Field /\ project.index = TRUE
  BY <1>1, ProjectParts
<1>4. /\ m.table = project.table /\ m.field = project.field /\ m.index = FALSE
      /\ m.constraint = project.constraint
  BY <1>3 DEF Model
<1>5. s.op = "drop index" /\ s.on = cluster
  BY DEF On
<1>6. Range(q) = {s}
  BY Single
<1> HIDE DEF op, s, q, m
<1>7. WellFormed(s)
  BY <1>5, SimpleWellFormed
<1>8. "check" \notin excuses' => Leads(Seen, q, m, deferred)
  <2> SUFFICES ASSUME "check" \notin excuses' PROVE Leads(Seen, q, m, deferred)
    OBVIOUS
  <2>1. Meets(Seen, project, deferred)
    BY <1>1, <1>2, OtherMeets
  <2> QED
    BY <1>1, <1>3, <1>4, <2>1, RemoveIndexLeads DEF q, s
<1> QED
  BY <1>1, <1>2, <1>5, <1>6, <1>7, <1>8, DeferredWaiting, OtherDeclares

\* add_constraint and remove_constraint.
LEMMA SwitchConstraintDeclares ==
    ASSUME SchemaInv, DeclaredInv, SwitchConstraint
    PROVE  DeclaredInv'
<1> DEFINE op == <<"switch constraint">>
           name == IF Distributed THEN "raise"
                   ELSE IF project.constraint THEN "drop constraint" ELSE "add constraint"
           s == On(name, project.table)
           q == <<s>>
           m == [project EXCEPT !.constraint = ~@]
<1>1. project.table # "none" /\ Operate(op, q, m, deferred, {})
  BY DEF SwitchConstraint
<1>2. op[1] = "switch constraint"
  OBVIOUS
<1>3. project \in Model /\ project.constraint \in BOOLEAN
  BY ProjectParts
<1>4. /\ m.table = project.table /\ m.field = project.field /\ m.index = project.index
      /\ m.constraint = ~project.constraint
  BY <1>3 DEF Model
<1>5. /\ s.op = "raise" \/ s.op = (IF project.constraint THEN "drop constraint" ELSE "add constraint")
      /\ s.on = cluster /\ s.table = project.table
      /\ s.op \notin {"create", "add column", "alter", "fill", "alter related"}
  BY DEF On
<1>6. Range(q) = {s}
  BY Single
<1> HIDE DEF op, s, q, m
<1>7. WellFormed(s)
  BY <1>5, SimpleWellFormed
<1>8. "check" \notin excuses' => Leads(Seen, q, m, deferred)
  <2> SUFFICES ASSUME "check" \notin excuses' PROVE Leads(Seen, q, m, deferred)
    OBVIOUS
  <2>1. Meets(Seen, project, deferred)
    BY <1>1, <1>2, OtherMeets
  <2> QED
    BY <1>1, <1>3, <1>4, <1>5, <2>1, SwitchConstraintLeads DEF q
<1> QED
  BY <1>1, <1>2, <1>5, <1>6, <1>7, <1>8, DeferredWaiting, OtherDeclares

\* NULLs are in the column that an alteration starts from only if one of the two
\* fields has them.
LEMMA StartingNulls ==
    ASSUME SchemaInv, DeclaredInv, NEW m, NEW old, NEW new, NEW later,
           Starting(Seen, m, old, new, later), "null" \in ValuesOf(server[Here])
    PROVE  old.null \/ new.null
<1> DEFINE t == server[Here]
           c == old.column
<1>1. PICK d, i : Amid(d, old, new) /\ Seen = Narrow(m.table, ChecksOf(m), i, m.constraint, c, d)
  BY DEF Starting
<1>2. t # NoTable /\ (t = NoTable \/ IsTable(t))
  BY DEF ValuesOf, SchemaInv, Tables
<1> DEFINE k == ChecksOf(m)
           r == m.constraint
           n == m.table
<1> HIDE DEF k, r, n, c
<1>3. IsNarrow(Seen, n, k, i, r, c, d)
  BY <1>1, NarrowParts DEF k, r, n, c
<1>4. Seen.columns = t.columns
  BY <1>2, BareParts DEF Seen
<1>5. DOMAIN t.columns = {c} /\ t.columns[c] = d
  BY <1>3, <1>4 DEF IsNarrow
<1>6. Neat(t)
  BY DEF DeclaredInv, Formed
<1>7. d.type[2]
  BY <1>2, <1>5, <1>6 DEF Neat, ColumnsOf
<1> QED
  BY <1>1, <1>7 DEF Amid

\* A Distributed table has no values.
LEMMA DistributedEmpty ==
    ASSUME SchemaInv, DeclaredInv, Distributed
    PROVE  ValuesOf(server[Here]) = {}
BY DEF SchemaInv, Tables, DeclaredInv, Formed, Neat

\* An alteration starts from the column of the old field, or of one on the way.
LEMMA AlterFieldStarts ==
    ASSUME SchemaInv, DeclaredInv, NEW f \in Field, NEW old, old = project.field, HasField,
           NEW op, op[1] = "alter field", op[2] = old, op[3] = f,
           NEW q, NEW m, NEW later, NEW why, Operate(op, q, m, later, why), "check" \notin excuses'
    PROVE  Starting(Seen, project, old, f, deferred)
<1>1. project.table # "none" /\ old \in Field
  BY ProjectParts
<1>2. CASE ~Retry(op)
  <2>1. Meets(Seen, project, deferred)
    BY <1>2, ReadyMeets
  <2>2. \A i \in DOMAIN deferred : Tracked(deferred[i])
    BY ReadyMeets DEF Moving
  <2> QED
    BY <1>1, <2>1, <2>2, MeetsStarting
<1>3. CASE Retry(op)
  <2>1. deferred = <<>> /\ Between(Seen, project, op[2], op[3])
    BY <1>3, ReadyMeets
  <2>2. Between(Seen, project, old, f)
    BY <2>1
  <2> QED
    BY <2>1, <2>2, BetweenStarting
<1> QED
  BY <1>2, <1>3

\* A deferred statement whose column is renamed goes to the same nodes.
LEMMA RenamedWaiting ==
    ASSUME NEW q \in Seq(Waiting), NEW from, NEW to \in Column
    PROVE  [i \in DOMAIN q |-> ColumnRenamed(q[i], from, to)] \in Seq(Waiting)
<1>1. ASSUME NEW d \in Waiting PROVE ColumnRenamed(d, from, to) \in Waiting
  BY DEF ColumnRenamed, Waiting, DeferredStatement
<1>2. DOMAIN q = 1..Len(q) /\ Len(q) \in Nat
  OBVIOUS
<1>3. \A i \in 1..Len(q) : ColumnRenamed(q[i], from, to) \in Waiting
  BY <1>1
<1> QED
  BY <1>2, <1>3

\* alter_field.
LEMMA AlterFieldDeclares ==
    ASSUME SchemaInv, DeclaredInv, NEW f \in Field, AlterField(f)
    PROVE  DeclaredInv'
<1> DEFINE old == project.field
           op == <<"alter field", old, f>>
           sql == AlterFieldSql(project.table, old, f)
           altered == FieldShouldBeAltered(old, f)
           q == When(altered, sql)
           m == [project EXCEPT !.field = f]
           later == [i \in DOMAIN deferred |-> ColumnRenamed(deferred[i], old.column, f.column)]
           nulls == old.null /\ ~f.null /\ ~FourWay(old, f)
           apart == f.primary_key /\ cluster # relCluster
           why == (IF nulls THEN {"null"} ELSE {}) \cup (IF apart THEN {"cluster"} ELSE {})
<1>1. HasField /\ Operate(op, q, m, later, why)
  BY DEF AlterField
<1>2. op[1] = "alter field" /\ op[2] = old /\ op[3] = f
  OBVIOUS
<1>3. project \in Model /\ old \in Field /\ project.table # "none"
  BY <1>1, ProjectParts
<1>4. /\ m.table = project.table /\ m.field = f /\ m.index = project.index
      /\ m.constraint = project.constraint
  BY <1>3 DEF Model
<1>5. (nulls => "null" \in why) /\ (apart => "cluster" \in why)
  OBVIOUS
<1> HIDE DEF why
<1>6. why \subseteq excuses'
  BY <1>1 DEF Operate
<1>7. later \in Seq(Waiting)
  BY DeferredWaiting, RenamedWaiting, FieldIsOne
<1>8. \A s \in Range(later) : s.on = cluster
  BY <1>7, WaitingOn
<1>9. /\ IsSeq(sql)
      /\ \A s \in Range(sql) : Altering(s, project.table, old, f)
  BY <1>3, AlterFieldIs
<1>10. \A s \in Range(sql) : s.op # "add column"
  <2>1. Alters(sql, project.table, old, f)
    BY <1>3, AlterFieldSays
  <2> HIDE DEF sql, old
  <2> QED
    BY <2>1 DEF Alters
<1>11. IF altered THEN q = sql ELSE q = <<>>
  BY DEF When
<1> HIDE DEF op, q, m, later, old, sql, altered
<1>12. Range(q) \subseteq Range(sql)
  BY <1>11, EmptyRange
<1>13. "check" \notin excuses' => Starting(Seen, project, old, f, deferred)
  <2>1. old = project.field
    BY DEF old
  <2> QED
    BY <1>1, <1>2, <2>1, AlterFieldStarts
<1>14. "check" \notin excuses' => Leads(Seen, q, m, later)
  <2> SUFFICES ASSUME "check" \notin excuses' PROVE Leads(Seen, q, m, later)
    OBVIOUS
  <2> DEFINE renamed == [i \in DOMAIN deferred |-> ColumnRenamed(deferred[i], old.column, f.column)]
  <2>1. Leads(Seen, When(FieldShouldBeAltered(old, f), AlterFieldSql(project.table, old, f)), m, renamed)
    BY <1>3, <1>4, <1>13, AlterFieldLeads
  <2> QED
    BY <2>1 DEF q, later, sql, altered
<1>15. "check" \notin excuses' /\ Repeatable(op) /\ pc = "closed" => Between(Seen, project, op[2], op[3])
  <2> SUFFICES ASSUME "check" \notin excuses', pc = "closed" PROVE Between(Seen, project, op[2], op[3])
    OBVIOUS
  <2>1. deferred = <<>>
    BY DEF SchemaInv, Statements
  <2>2. Between(Seen, project, old, f)
    BY <1>13, <2>1, StartingBetween
  <2> QED
    BY <1>2, <2>2
<1>16. \A s \in Range(q) : Altering(s, project.table, op[2], op[3])
  BY <1>2, <1>9, <1>12
<1>17. \A s \in Range(q) :
         WellFormed(s) /\ (s.op = "alter related" => cluster = relCluster \/ "cluster" \in excuses')
  <2>1. ASSUME NEW s \in Range(q) PROVE WellFormed(s) /\ (s.op = "alter related" => f.primary_key)
    <3>1. Altering(s, project.table, old, f)
      BY <1>9, <1>12
    <3> QED
      BY <1>3, <3>1, AlteringWellFormed
  <2> QED
    BY <1>5, <1>6, <2>1
<1>18. (\E s \in Range(q) : s.op = "add column") => NoAlter(q)
  BY <1>10, <1>12
<1>19. excuses' \cap {"null", "check"} = {} => Guarded(q, ValuesOf(server[Here]))
  <2> SUFFICES ASSUME "null" \notin excuses', "check" \notin excuses'
               PROVE  Guarded(q, ValuesOf(server[Here]))
    OBVIOUS
  <2>1. ~(old.null /\ ~f.null /\ ~FourWay(old, f))
    BY <1>5, <1>6
  <2>2. "null" \in ValuesOf(server[Here]) => old.null \/ f.null
    BY <1>13, StartingNulls
  <2>3. Distributed => ValuesOf(server[Here]) = {}
    BY DistributedEmpty
  <2> DEFINE values == ValuesOf(server[Here])
  <2> HIDE DEF values
  <2>4. Guarded(sql, values)
    BY <1>3, <2>1, <2>2, <2>3, AlterFieldGuarded DEF sql, values
  <2>5. Guarded(<<>>, values)
    BY EmptyRange DEF Guarded
  <2> QED
    BY <1>11, <2>4, <2>5 DEF values
<1> QED
  BY <1>1, <1>2, <1>3, <1>8, <1>14, <1>15, <1>16, <1>17, <1>18, <1>19, OperateDeclares

\* A table that stays is as the model says, and the statements to come lead to it,
\* as before.
LEMMA SameDeclares ==
    ASSUME SchemaInv, DeclaredInv, engine' = engine, cluster' = cluster, relCluster' = relCluster,
           server' = server, related' = related, project' = project, before' = before,
           todo' = todo, deferred' = deferred, last' = last, touched' = touched, excuses' = excuses,
           pc' = pc \/ (pc \in {"running", "leaving"} /\ pc' \in {"refused", "broken"}),
           NothingRefused'
    PROVE  DeclaredInv'
<1>1. Seen' = Seen
  BY DEF Seen
<1>2. /\ \A t, n, l : Meets(t, n, l)' <=> Meets(t, n, l)
      /\ \A t, p, n, l : Leads(t, p, n, l)' <=> Leads(t, p, n, l)
      /\ \A t, n, old, new : Between(t, n, old, new)' <=> Between(t, n, old, new)
      /\ \A s, t, old, new : Altering(s, t, old, new)' <=> Altering(s, t, old, new)
      /\ \A s : WellFormed(s)' <=> WellFormed(s)
  BY SettingsSame
<1>3. pc' = "closed" <=> pc = "closed"
  OBVIOUS
<1>4. Repeatable(last)' <=> Repeatable(last)
  BY DEF Repeatable
<1>5. Alike'
  BY <1>1 DEF DeclaredInv, Alike
<1>6. Leading'
  <2>1. Leading
    BY DEF DeclaredInv
  <2>2. /\ Leads(Seen, todo, project, deferred)' <=> Leads(Seen, todo, project, deferred)
        /\ Meets(Seen, before, <<>>)' <=> Meets(Seen, before, <<>>)
        /\ Meets(Seen, project, <<>>)' <=> Meets(Seen, project, <<>>)
        /\ Between(Seen, before, last[2], last[3])' <=> Between(Seen, before, last[2], last[3])
        /\ Between(Seen, project, last[2], last[3])' <=> Between(Seen, project, last[2], last[3])
    BY <1>1, <1>2
  <2> QED
    BY <1>3, <1>4, <2>1, <2>2 DEF Leading
<1>7. Altered'
  BY <1>2, <1>3, <1>4 DEF DeclaredInv, Altered
<1>8. Formed'
  <2>1. Neat(server[Here])'
    BY DEF DeclaredInv, Formed
  <2> QED
    BY <1>2, <2>1 DEF DeclaredInv, Formed
<1>9. Guards'
  BY DEF DeclaredInv, Guards
<1>10. Reached'
  BY DEF DeclaredInv, Reached
<1> QED
  BY <1>5, <1>6, <1>7, <1>8, <1>9, <1>10 DEF DeclaredInv

\* Nothing happens.
LEMMA StutterDeclares ==
    ASSUME SchemaInv, DeclaredInv, UNCHANGED vars
    PROVE  DeclaredInv'
<1>1. NothingRefused'
  BY DEF DeclaredInv, NothingRefused, vars, history
<1> QED
  BY <1>1, SameDeclares DEF vars, settings, history

\* A statement fails without a reason in the model.
LEMMA BreakDeclares ==
    ASSUME SchemaInv, DeclaredInv, Break
    PROVE  DeclaredInv'
<1>1. NothingRefused'
  BY DEF NothingRefused, Break
<1> QED
  BY <1>1, SameDeclares DEF Break, settings, history

\* Leaving the editor runs what is deferred.
LEMMA LeaveDeclares ==
    ASSUME SchemaInv, DeclaredInv, Leave
    PROVE  DeclaredInv'
<1>1. /\ pc = "open" /\ pc' = (IF deferred = <<>> THEN "closed" ELSE "leaving")
      /\ todo' = deferred /\ deferred' = <<>>
      /\ engine' = engine /\ cluster' = cluster /\ relCluster' = relCluster
      /\ server' = server /\ related' = related /\ project' = project /\ before' = before
      /\ last' = last /\ excuses' = excuses /\ touched' = touched
  BY DEF Leave, settings, history
<1>2. Seen' = Seen
  BY <1>1 DEF Seen
<1>3. /\ \A t, n, l : Meets(t, n, l)' <=> Meets(t, n, l)
      /\ \A t, p, n, l : Leads(t, p, n, l)' <=> Leads(t, p, n, l)
      /\ \A t, n, old, new : Between(t, n, old, new)' <=> Between(t, n, old, new)
      /\ \A s, t, old, new : Altering(s, t, old, new)' <=> Altering(s, t, old, new)
      /\ \A s : WellFormed(s)' <=> WellFormed(s)
  BY <1>1, SettingsSame
<1>4. Repeatable(last)' <=> Repeatable(last)
  BY <1>1 DEF Repeatable
<1>5. todo = <<>> /\ "broken" \notin excuses /\ (last[1] = "alter field" => deferred = <<>>)
  BY <1>1 DEF SchemaInv, Statements, Related
<1>6. deferred \in Seq(Waiting)
  BY DeferredWaiting
<1>7. \A s \in Range(deferred) : s.on = cluster /\ s.op \in {"add index", "add check"}
  <2>1. \A i \in DOMAIN deferred : deferred[i] \in Waiting
    BY <1>6
  <2> QED
    BY <2>1 DEF Range, Waiting, DeferredStatement
<1>8. \A s \in Range(deferred) : WellFormed(s)
  BY <1>7, SimpleWellFormed
<1>9. Alike'
  BY <1>1, <1>2 DEF DeclaredInv, Alike
<1>10. Leading'
  <2> SUFFICES ASSUME "check" \notin excuses' PROVE Leading'
    BY DEF Leading
  <2>1. Leads(Seen, <<>>, project, deferred)
    BY <1>1, <1>5 DEF DeclaredInv, Leading
  <2>2. Meets(Seen, project, deferred)
    BY <2>1, LeadsNone
  <2>3. Leads(Seen, deferred, project, <<>>)
    BY <2>2, LeaveLeads
  <2>4. Leads(Seen, todo, project, deferred)'
    BY <1>1, <1>2, <1>3, <2>3
  <2>5. deferred = <<>> => Meets(Seen, project, <<>>)'
    BY <1>1, <1>2, <1>3, <2>2
  <2>6. ~touched' => Meets(Seen, before, <<>>)'
    <3>1. ~touched => Meets(Seen, before, <<>>)
      BY <1>1 DEF DeclaredInv, Leading
    <3> QED
      BY <1>1, <1>2, <1>3, <3>1
  <2>7. pc' # "closed" => ~Repeatable(last)
    BY <1>1, <1>5 DEF Repeatable
  <2> QED
    BY <1>1, <1>4, <1>5, <2>4, <2>5, <2>6, <2>7 DEF Leading
<1>11. Altered'
  BY <1>1, <1>5 DEF DeclaredInv, Altered
<1>12. Formed'
  <2>1. Neat(server[Here])'
    BY <1>1 DEF DeclaredInv, Formed
  <2> QED
    BY <1>1, <1>3, <1>7, <1>8, <2>1, EmptyRange DEF Formed
<1>13. Guards'
  BY <1>1, <1>7 DEF Guards, NoAlter
<1>14. Reached'
  BY <1>1 DEF DeclaredInv, Reached
<1>15. NothingRefused'
  BY <1>1 DEF NothingRefused
<1> QED
  BY <1>9, <1>10, <1>11, <1>12, <1>13, <1>14, <1>15 DEF DeclaredInv

\* Leaving by an error leaves the table as it was, or on its way.
LEMMA AbandonDeclares ==
    ASSUME SchemaInv, DeclaredInv, Abandon
    PROVE  DeclaredInv'
<1>1. /\ pc # "closed" /\ pc' = "closed" /\ todo' = <<>> /\ deferred' = <<>> /\ project' = before
      /\ excuses' = (IF touched THEN excuses \cup {"broken"} ELSE excuses \cap {"check"})
      /\ engine' = engine /\ cluster' = cluster /\ relCluster' = relCluster
      /\ server' = server /\ related' = related /\ before' = before
      /\ last' = last /\ touched' = touched
  BY DEF Abandon, settings
<1>2. Seen' = Seen
  BY <1>1 DEF Seen
<1>3. /\ \A t, n, l : Meets(t, n, l)' <=> Meets(t, n, l)
      /\ \A t, n, old, new : Between(t, n, old, new)' <=> Between(t, n, old, new)
  BY <1>1, SettingsSame
<1>4. Repeatable(last)' <=> Repeatable(last)
  BY <1>1 DEF Repeatable
<1>5. Alike'
  BY <1>1, <1>2 DEF DeclaredInv, Alike
<1>6. Leading'
  <2> SUFFICES ASSUME "check" \notin excuses' PROVE Leading'
    BY DEF Leading
  <2>1. "check" \notin excuses /\ (touched => "broken" \in excuses') /\ (~touched => "broken" \notin excuses')
    BY <1>1
  <2>2. /\ ~touched => Meets(Seen, before, <<>>)
        /\ Repeatable(last) => Between(Seen, before, last[2], last[3])
    BY <1>1, <2>1 DEF DeclaredInv, Leading
  <2>3. /\ ~touched => Meets(Seen, project, <<>>)'
        /\ Repeatable(last) => Between(Seen, project, last[2], last[3])'
    BY <1>1, <1>2, <1>3, <2>2
  <2> QED
    BY <1>1, <1>4, <2>1, <2>3 DEF Leading
<1>7. Altered'
  BY <1>1 DEF DeclaredInv, Altered
<1>8. Formed'
  <2>1. Neat(server[Here])'
    BY <1>1 DEF DeclaredInv, Formed
  <2> QED
    BY <1>1, <2>1, EmptyRange DEF Formed
<1>9. Guards'
  BY <1>1, EmptyRange DEF Guards
<1>10. Reached'
  BY <1>1 DEF DeclaredInv, Reached
<1>11. NothingRefused'
  BY <1>1 DEF NothingRefused
<1> QED
  BY <1>5, <1>6, <1>7, <1>8, <1>9, <1>10, <1>11 DEF DeclaredInv

\* The next statement, as long as there are some: the bare table allows it.
LEMMA NextStatement ==
    ASSUME SchemaInv, DeclaredInv, pc \in {"running", "leaving"}, NEW s, s = Head(todo)
    PROVE  /\ IsSeq(todo) /\ todo # <<>> /\ s \in Range(todo) /\ Fits(s) /\ WellFormed(s)
           /\ s.on = cluster
           /\ s.op # "alter related" => s.op \in Structural \cup Others /\ s.table \in Table
           /\ s.op = "alter related" => cluster = relCluster \/ "cluster" \in excuses
           /\ "check" \notin excuses => Fine(Seen, s)
<1>1. IsSeq(todo) /\ todo # <<>>
  BY DEF SchemaInv, Statements
<1>2. s \in Range(todo)
  BY <1>1, Shorter
<1>3. Fits(s)
  BY <1>2 DEF SchemaInv, Statements
<1>4. WellFormed(s) /\ (s.op = "alter related" => cluster = relCluster \/ "cluster" \in excuses)
  BY <1>2 DEF DeclaredInv, Formed
<1>5. s.on = cluster
  BY <1>4 DEF WellFormed
<1>6. s.op # "alter related" => s.op \in Structural \cup Others /\ s.table \in Table
  BY <1>3 DEF Fits, FitsIn
<1>7. ASSUME "check" \notin excuses PROVE Fine(Seen, s)
  <2>1. Leads(Seen, todo, project, deferred)
    BY <1>7 DEF DeclaredInv, Leading
  <2>2. PICK u : Runs(Seen, todo, u)
    BY <2>1 DEF Leads
  <2> QED
    BY <1>1, <2>2, RunsStep
<1> QED
  BY <1>1, <1>2, <1>3, <1>4, <1>5, <1>6, <1>7

\* A statement that the server refuses has an excuse.
LEMMA RefuseExcused ==
    ASSUME SchemaInv, DeclaredInv, Refuse
    PROVE  NothingRefused'
<1> DEFINE s == Head(todo)
           t == server[Here]
<1>1. pc \in {"running", "leaving"} /\ ~Possible(s) /\ todo' = todo /\ excuses' = excuses
  BY DEF Refuse, history
<1> SUFFICES ASSUME s.op # "raise", excuses = {} PROVE FALSE
  BY <1>1 DEF NothingRefused
<1>2. /\ IsSeq(todo) /\ todo # <<>> /\ s \in Range(todo) /\ s.on = cluster
      /\ s.op # "alter related" => s.op \in Structural \cup Others
      /\ s.op = "alter related" => cluster = relCluster
      /\ Fine(Seen, s)
  BY <1>1, NextStatement
<1>3. NodesOf(s) = IF cluster THEN Node ELSE {Here}
  BY <1>2 DEF NodesOf
<1>4. CASE s.op = "alter related"
  <2>1. \A n \in NodesOf(s) : related[n] # "absent"
    BY <1>2, <1>3, <1>4, SchemaAssumption DEF DeclaredInv, Reached
  <2> QED
    BY <1>1, <1>4, <2>1 DEF Possible
<1>5. CASE s.op # "alter related"
  <2>1. Legal(Seen, s)
    BY <1>2, <1>5 DEF Fine, Aside
  <2>2. Narrows(s) => "null" \notin ValuesOf(t)
    <3> SUFFICES ASSUME Narrows(s) PROVE "null" \notin ValuesOf(t)
      OBVIOUS
    <3>1. s.op = "alter"
      BY DEF Narrows
    <3>2. pc = "running"
      BY <1>1, <1>2, <3>1 DEF DeclaredInv, Guards, NoAlter
    <3>3. Guarded(todo, ValuesOf(t))
      BY <3>2 DEF DeclaredInv, Guards
    <3>4. 1 \in DOMAIN todo /\ todo[1] = s
      BY <1>2, Shorter
    <3> HIDE DEF s, t
    <3>5. "null" \notin ValuesOf(t) \/ \E j \in 1..(1 - 1) : todo[j].op = "fill"
      BY <3>3, <3>4 DEF Guarded
    <3> QED
      BY <3>5
  <2>3. t = NoTable \/ IsTable(t)
    BY DEF SchemaInv, Tables
  <2>4. Legal(t, s)
    <3> HIDE DEF s, t
    <3>1. Legal(Bare(t), s)
      BY <2>1 DEF Seen, t
    <3> QED
      BY <1>2, <1>5, <2>2, <2>3, <3>1, BareLegal
  <2>5. ASSUME NEW n \in NodesOf(s) PROVE Legal(server[n], s)
    <3>1. CASE n = Here
      BY <2>4, <3>1
    <3>2. CASE n # Here
      <4>1. cluster /\ n \in Node \ {Here}
        BY <1>3, <2>5, <3>2
      <4>2. server[n] = Seen
        BY <4>1 DEF DeclaredInv, Alike
      <4> QED
        BY <2>1, <4>2
    <3> QED
      BY <3>1, <3>2
  <2> QED
    BY <1>1, <1>5, <2>5 DEF Possible
<1> QED
  BY <1>4, <1>5

\* A refused statement.
LEMMA RefuseDeclares ==
    ASSUME SchemaInv, DeclaredInv, Refuse
    PROVE  DeclaredInv'
<1>1. NothingRefused'
  BY RefuseExcused
<1> QED
  BY <1>1, SameDeclares DEF Refuse, settings, history

\* What guards against the NULLs among some values guards against those among others.
LEMMA GuardedLess ==
    ASSUME NEW q, NEW values, NEW others, Guarded(q, values), "null" \in others => "null" \in values
    PROVE  Guarded(q, others)
BY DEF Guarded

\* A program inserts a row.
LEMMA InsertDeclares ==
    ASSUME SchemaInv, DeclaredInv, NEW v \in {"kept", "null"}, Insert(v)
    PROVE  DeclaredInv'
<1> DEFINE t == server[Here]
           a == server'[Here]
<1>1. /\ t # NoTable
      /\ server' = [server EXCEPT ![Here].rows = TRUE,
                                  ![Here].values = IF DOMAIN t.columns = {} THEN {} ELSE @ \cup {v}]
      /\ DOMAIN t.columns = {} \/ (v = "null" => \E c \in DOMAIN t.columns : t.columns[c].type[2])
      /\ excuses' = IF v = "null" /\ pc = "running" THEN excuses \cup {"null"} ELSE excuses
      /\ engine' = engine /\ cluster' = cluster /\ relCluster' = relCluster
      /\ related' = related /\ project' = project /\ before' = before
      /\ pc' = pc /\ todo' = todo /\ deferred' = deferred /\ last' = last /\ touched' = touched
  BY DEF Insert, settings
<1>2. IsTable(t) /\ Here \in DOMAIN server
  BY <1>1 DEF SchemaInv, Tables
<1>3. /\ a = [t EXCEPT !.rows = TRUE, !.values = IF DOMAIN t.columns = {} THEN {} ELSE @ \cup {v}]
      /\ DOMAIN server' = DOMAIN server /\ \A n \in DOMAIN server \ {Here} : server'[n] = server[n]
  BY <1>1, <1>2
<1>4. /\ IsTable(a) /\ a.rows = TRUE /\ a.columns = t.columns
      /\ a.values = IF DOMAIN t.columns = {} THEN {} ELSE t.values \cup {v}
      /\ a.table = t.table /\ a.checks = t.checks /\ a.index = t.index /\ a.constraint = t.constraint
  <2> HIDE DEF a, t
  <2> QED
    BY <1>2, <1>3 DEF IsTable
<1>5. Bare(a) = Bare(t)
  <2> HIDE DEF a, t
  <2>1. Bare(a) = Tab(a.table, FALSE, {}, a.checks, a.index, a.constraint, a.columns)
    BY <1>4, BareParts
  <2>2. Bare(t) = Tab(t.table, FALSE, {}, t.checks, t.index, t.constraint, t.columns)
    BY <1>2, BareParts
  <2> QED
    BY <1>4, <2>1, <2>2
<1>6. Seen' = Seen
  BY <1>5 DEF Seen
<1>7. /\ \A x, n, l : Meets(x, n, l)' <=> Meets(x, n, l)
      /\ \A x, p, n, l : Leads(x, p, n, l)' <=> Leads(x, p, n, l)
      /\ \A x, n, old, new : Between(x, n, old, new)' <=> Between(x, n, old, new)
      /\ \A s, x, old, new : Altering(s, x, old, new)' <=> Altering(s, x, old, new)
      /\ \A s : WellFormed(s)' <=> WellFormed(s)
  BY <1>1, SettingsSame
<1>8. Repeatable(last)' <=> Repeatable(last)
  BY <1>1 DEF Repeatable
<1>9. /\ "check" \in excuses' <=> "check" \in excuses
      /\ "broken" \in excuses' <=> "broken" \in excuses
      /\ excuses \subseteq excuses'
      /\ v = "null" /\ pc = "running" => "null" \in excuses'
  BY <1>1
<1>10. Neat(t)
  BY DEF DeclaredInv, Formed
<1>11. /\ ColumnsOf(a) = ColumnsOf(t) /\ ColumnsOf(t) = DOMAIN t.columns /\ a # NoTable
       /\ ValuesOf(a) = IF DOMAIN t.columns = {} THEN {} ELSE ValuesOf(t) \cup {v}
  <2> HIDE DEF a, t
  <2> QED
    BY <1>1, <1>4, TableIsOne DEF ColumnsOf, ValuesOf
<1>12. Neat(a)
  <2> HIDE DEF a, t
  <2>1. \A c, e \in ColumnsOf(a) : c = e
    BY <1>10, <1>11 DEF Neat
  <2>2. ASSUME NEW c \in ColumnsOf(a)
        PROVE  IsColumn(a.columns[c]) /\ ("null" \in ValuesOf(a) => a.columns[c].type[2])
    <3>1. c \in DOMAIN t.columns /\ a.columns[c] = t.columns[c] /\ IsColumn(t.columns[c])
      BY <1>4, <1>10, <1>11, <2>2 DEF Neat
    <3>2. CASE "null" \in ValuesOf(t)
      BY <1>10, <1>11, <2>2, <3>1, <3>2 DEF Neat
    <3>3. CASE v = "null"
      <4>1. PICK e \in DOMAIN t.columns : t.columns[e].type[2]
        BY <1>1, <3>1, <3>3
      <4>2. c = e
        BY <1>10, <1>11, <3>1, <4>1 DEF Neat
      <4> QED
        BY <3>1, <4>1, <4>2
    <3> QED
      BY <1>11, <3>1, <3>2, <3>3
  <2>3. RowsOf(a)
    BY <1>4, <1>11 DEF RowsOf
  <2> QED
    BY <2>1, <2>2, <2>3 DEF Neat
<1>13. Alike'
  <2>1. DOMAIN server = Node /\ \A n \in Node \ {Here} : server[n] = IF cluster THEN Seen ELSE NoTable
    BY DEF DeclaredInv, Alike
  <2> QED
    BY <1>1, <1>3, <1>6, <2>1 DEF Alike
<1>14. Leading'
  <2>1. Leading
    BY DEF DeclaredInv
  <2>2. /\ Leads(Seen, todo, project, deferred)' <=> Leads(Seen, todo, project, deferred)
        /\ Meets(Seen, before, <<>>)' <=> Meets(Seen, before, <<>>)
        /\ Meets(Seen, project, <<>>)' <=> Meets(Seen, project, <<>>)
        /\ Between(Seen, before, last[2], last[3])' <=> Between(Seen, before, last[2], last[3])
        /\ Between(Seen, project, last[2], last[3])' <=> Between(Seen, project, last[2], last[3])
    BY <1>1, <1>6, <1>7
  <2> QED
    BY <1>1, <1>8, <1>9, <2>1, <2>2 DEF Leading
<1>15. Altered'
  BY <1>1, <1>7, <1>8 DEF DeclaredInv, Altered
<1>16. Formed'
  <2>1. Neat(server[Here])'
    BY <1>12
  <2> HIDE DEF a, t
  <2> QED
    BY <1>1, <1>7, <1>9, <2>1 DEF DeclaredInv, Formed
<1>17. Guards'
  <2>1. ASSUME pc' = "running", excuses' \cap {"null", "check"} = {}
        PROVE  Guarded(todo', ValuesOf(a))
    <3>1. Guarded(todo, ValuesOf(t))
      BY <1>1, <1>9, <2>1 DEF DeclaredInv, Guards
    <3>2. "null" \in ValuesOf(a) => "null" \in ValuesOf(t)
      BY <1>1, <1>9, <1>11, <2>1
    <3> DEFINE values == ValuesOf(t)
               others == ValuesOf(a)
    <3> HIDE DEF values, others
    <3>3. Guarded(todo, others)
      BY <3>1, <3>2, GuardedLess DEF values, others
    <3> QED
      BY <1>1, <3>3 DEF others
  <2>2. Guarded(todo', ValuesOf(a)) <=> Guarded(todo, ValuesOf(server[Here]))'
    OBVIOUS
  <2> HIDE DEF a, t
  <2> QED
    BY <1>1, <2>1, <2>2 DEF DeclaredInv, Guards
<1>18. Reached'
  BY <1>1 DEF DeclaredInv, Reached
<1>19. NothingRefused'
  BY <1>1, <1>9 DEF DeclaredInv, NothingRefused
<1> QED
  BY <1>13, <1>14, <1>15, <1>16, <1>17, <1>18, <1>19 DEF DeclaredInv

\* What a statement makes of the table, it makes of the table without its rows, and
\* of the table of the other nodes.
LEMMA ExecuteSees ==
    ASSUME SchemaInv, DeclaredInv, Execute, NEW s, s = Head(todo)
    PROVE  /\ s.op # "raise" /\ Fine(Seen, s) /\ Seen' = Made(Seen, s)
           /\ Alike' /\ Reached' /\ Neat(server'[Here])
           /\ "null" \in ValuesOf(server'[Here]) =>
                s.op = "add column" \/ ("null" \in ValuesOf(server[Here]) /\ s.op # "fill")
<1> DEFINE t == server[Here]
           a == server'[Here]
<1>1. /\ pc \in {"running", "leaving"} /\ Possible(s) /\ cluster' = cluster /\ relCluster' = relCluster
  BY DEF Execute, settings
<1>2. /\ IsSeq(todo) /\ todo # <<>> /\ WellFormed(s) /\ s.on = cluster
      /\ s.op # "alter related" => s.op \in Structural \cup Others /\ s.table \in Table
  BY <1>1, NextStatement
<1>3. NodesOf(s) = IF cluster THEN Node ELSE {Here}
  BY <1>2 DEF NodesOf
<1>4. /\ Neat(t) /\ DOMAIN server = Node
      /\ \A n \in Node \ {Here} : server[n] = IF cluster THEN Seen ELSE NoTable
      /\ \A n \in Node : relCluster \/ n = Here => related[n] # "absent"
  BY DEF DeclaredInv, Formed, Alike, Reached
<1>5. CASE s.op = "alter related"
  <2>1. /\ server' = server
        /\ related' = [n \in Node |-> IF n \in NodesOf(s) THEN s.type ELSE related[n]]
    BY <1>5 DEF Execute
  <2>2. Seen' = Seen
    BY <2>1 DEF Seen
  <2>3. Made(Seen, s) = Seen /\ Fine(Seen, s)
    BY <1>5 DEF Made, Fine, Aside
  <2>4. s.type # "absent"
    BY <1>2, <1>5 DEF WellFormed
  <2>5. Reached'
    BY <1>1, <1>4, <2>1, <2>4 DEF Reached
  <2>6. Alike'
    BY <1>1, <1>4, <2>1, <2>2 DEF Alike
  <2> QED
    BY <1>4, <1>5, <2>1, <2>2, <2>3, <2>5, <2>6
<1>6. CASE s.op # "alter related"
  <2>1. /\ t = NoTable \/ IsTable(t)
        /\ Legal(t, s) /\ a = After(t, s) /\ related' = related
        /\ s.op \in Structural \cup Others /\ s.table \in Table
    BY <1>6, ExecuteEffect
  <2>2. server' = [n \in Node |-> IF n \in NodesOf(s) THEN After(server[n], s) ELSE server[n]]
    BY <1>6 DEF Execute
  <2>3. s.op # "raise"
    BY <2>1 DEF Legal
  <2>4. s.op = "add column" => ColumnsOf(t) = {}
    <3>1. todo[1] = s /\ 1 \in DOMAIN todo
      BY <1>2, Shorter
    <3> QED
      BY <3>1 DEF SchemaInv, Columns
  <2> HIDE DEF t, a
  <2>5. Legal(Bare(t), s)
    BY <2>1, LegalBare
  <2>6. Bare(a) = After(Bare(t), s)
    BY <2>1, <2>3, BareAfter
  <2>7. /\ Neat(a)
        /\ "null" \in ValuesOf(a) => s.op = "add column" \/ ("null" \in ValuesOf(t) /\ s.op # "fill")
    BY <1>2, <1>4, <2>1, <2>4, AfterNeat DEF t
  <2>8. ~Aside(s)
    BY <1>6, <2>3 DEF Aside
  <2>9. Fine(Seen, s) /\ Made(Seen, s) = After(Seen, s)
    BY <2>5, <2>8 DEF Fine, Made, Seen, t
  <2>10. Seen' = After(Seen, s)
    BY <2>6 DEF Seen, t, a
  <2>11. Alike'
    <3>1. ASSUME NEW n \in Node \ {Here} PROVE server'[n] = IF cluster THEN Seen' ELSE NoTable
      <4>1. CASE cluster
        <5>1. server'[n] = After(server[n], s) /\ server[n] = Seen
          BY <1>3, <1>4, <2>2, <4>1
        <5> QED
          BY <2>10, <4>1, <5>1
      <4>2. CASE ~cluster
        BY <1>3, <1>4, <2>2, <4>2
      <4> QED
        BY <4>1, <4>2
    <3>2. DOMAIN server' = Node
      BY <2>2
    <3> QED
      BY <1>1, <3>1, <3>2 DEF Alike
  <2>12. Reached'
    BY <1>1, <1>4, <2>1 DEF Reached
  <2> QED
    BY <2>3, <2>7, <2>9, <2>10, <2>11, <2>12 DEF t, a
<1> QED
  BY <1>5, <1>6

\* The statements that are left lead to the model.
LEMMA LeadsStep ==
    ASSUME NEW t, NEW q, IsSeq(q), q # <<>>, NEW m, NEW later, Leads(t, q, m, later), Head(q).op # "raise"
    PROVE  Leads(Made(t, Head(q)), Tail(q), m, later)
<1>1. PICK u : Runs(t, q, u) /\ (Meets(u, m, later) \/ \E s \in Range(q) : s.op = "raise")
  BY DEF Leads
<1>2. Runs(Made(t, Head(q)), Tail(q), u)
  BY <1>1, RunsStep
<1>3. (\E s \in Range(q) : s.op = "raise") => \E s \in Range(Tail(q)) : s.op = "raise"
  BY Shorter
<1> QED
  BY <1>1, <1>2, <1>3 DEF Leads

\* A statement is executed.
LEMMA ExecuteDeclares ==
    ASSUME SchemaInv, DeclaredInv, Execute
    PROVE  DeclaredInv'
<1> DEFINE s == Head(todo)
           rest == Tail(todo)
<1>1. /\ pc \in {"running", "leaving"}
      /\ pc' = (IF Len(todo) > 1 THEN pc ELSE IF pc = "running" THEN "open" ELSE "closed")
      /\ todo' = rest /\ deferred' = deferred /\ touched' = TRUE
      /\ engine' = engine /\ cluster' = cluster /\ relCluster' = relCluster
      /\ project' = project /\ before' = before /\ last' = last /\ excuses' = excuses
  BY DEF Execute, settings
<1>2. IsSeq(todo) /\ todo # <<>> /\ s \in Range(todo)
  BY <1>1, NextStatement
<1>3. /\ Range(rest) \subseteq Range(todo) /\ (rest = <<>> <=> ~(Len(todo) > 1))
  BY <1>2, Shorter
<1>4. /\ s.op # "raise" /\ Fine(Seen, s) /\ Seen' = Made(Seen, s)
      /\ Alike' /\ Reached' /\ Neat(server'[Here])
      /\ "null" \in ValuesOf(server'[Here]) =>
           s.op = "add column" \/ ("null" \in ValuesOf(server[Here]) /\ s.op # "fill")
  BY ExecuteSees
<1>5. /\ \A t, n, l : Meets(t, n, l)' <=> Meets(t, n, l)
      /\ \A t, p, n, l : Leads(t, p, n, l)' <=> Leads(t, p, n, l)
      /\ \A t, n, old, new : Between(t, n, old, new)' <=> Between(t, n, old, new)
      /\ \A x, t, old, new : Altering(x, t, old, new)' <=> Altering(x, t, old, new)
      /\ \A x : WellFormed(x)' <=> WellFormed(x)
  BY <1>1, SettingsSame
<1>6. Repeatable(last)' <=> Repeatable(last)
  BY <1>1 DEF Repeatable
<1>7. "broken" \notin excuses
  BY <1>1 DEF SchemaInv, Related
<1>8. pc' = "closed" => pc = "leaving" /\ rest = <<>> /\ deferred = <<>>
  BY <1>1, <1>3 DEF SchemaInv, Statements
<1>9. Leading'
  <2> SUFFICES ASSUME "check" \notin excuses' PROVE Leading'
    BY DEF Leading
  <2>1. /\ Leads(Seen, todo, project, deferred)
        /\ Repeatable(last) => Between(Seen, before, last[2], last[3])
    BY <1>1 DEF DeclaredInv, Leading
  <2>2. Leads(Seen', rest, project, deferred)
    <3>1. Leads(Made(Seen, s), rest, project, deferred)
      BY <1>2, <1>4, <2>1, LeadsStep
    <3> QED
      BY <1>4, <3>1
  <2>3. Leads(Seen, todo, project, deferred)'
    BY <1>1, <1>5, <2>2
  <2>4. pc' = "closed" => Meets(Seen, project, <<>>)'
    <3> SUFFICES ASSUME pc' = "closed" PROVE Meets(Seen, project, <<>>)'
      OBVIOUS
    <3>1. Leads(Seen', <<>>, project, <<>>)
      BY <1>8, <2>2
    <3>2. Meets(Seen', project, <<>>)
      BY <3>1, LeadsNone
    <3> QED
      BY <1>1, <1>5, <3>2
  <2>5. pc' # "closed" /\ Repeatable(last) => Between(Seen, before, last[2], last[3])'
    <3> SUFFICES ASSUME Repeatable(last) PROVE Between(Seen, before, last[2], last[3])'
      OBVIOUS
    <3> DEFINE old == last[2]
               new == last[3]
    <3>1. last[1] = "alter field"
      BY DEF Repeatable
    <3>2. old \in Field /\ new \in Field /\ Altering(s, before.table, old, new)
      BY <1>1, <1>2, <3>1 DEF DeclaredInv, Altered
    <3>3. /\ old.column = new.column /\ old.check = new.check
          /\ new.db_default # "none" \/ old.db_default = "none"
      BY DEF Repeatable
    <3>4. Between(Seen, before, old, new)
      BY <2>1
    <3> HIDE DEF old, new, s
    <3>5. Between(Made(Seen, s), before, old, new)
      BY <1>4, <3>2, <3>3, <3>4, AlteringBetween
    <3>6. Between(Seen', before, old, new)
      BY <1>4, <3>5
    <3> QED
      BY <1>1, <1>5, <3>6 DEF old, new
  <2> QED
    BY <1>1, <1>6, <1>7, <2>3, <2>4, <2>5 DEF Leading
<1>10. Altered'
  <2> SUFFICES ASSUME last[1] = "alter field" PROVE Altered'
    BY <1>1 DEF Altered
  <2>1. last[2] \in Field /\ last[3] \in Field
    BY DEF DeclaredInv, Altered
  <2>2. Repeatable(last) => \A x \in Range(rest) : Altering(x, before.table, last[2], last[3])
    BY <1>1, <1>3 DEF DeclaredInv, Altered
  <2> QED
    BY <1>1, <1>5, <1>6, <2>1, <2>2 DEF Altered
<1>11. Formed'
  <2>1. Neat(server[Here])'
    BY <1>4
  <2>2. /\ \A x \in Range(rest) :
             WellFormed(x) /\ (x.op = "alter related" => cluster = relCluster \/ "cluster" \in excuses)
        /\ \A x \in Range(deferred) : x.on = cluster
    BY <1>3 DEF DeclaredInv, Formed
  <2> HIDE DEF rest
  <2> QED
    BY <1>1, <1>5, <2>1, <2>2 DEF Formed
<1>12. Guards'
  <2>1. NoAlter(todo) => NoAlter(rest)
    BY <1>3 DEF NoAlter
  <2>2. (\E x \in Range(rest) : x.op = "add column") => NoAlter(rest)
    BY <1>3, <2>1 DEF DeclaredInv, Guards
  <2>3. pc' = "leaving" => NoAlter(rest)
    BY <1>1, <2>1 DEF DeclaredInv, Guards
  <2>4. ASSUME pc' = "running", excuses \cap {"null", "check"} = {}
        PROVE  Guarded(rest, ValuesOf(server'[Here]))
    <3>1. pc = "running"
      BY <1>1, <2>4
    <3> DEFINE values == ValuesOf(server[Here])
               others == ValuesOf(server'[Here])
    <3>2. Guarded(todo, values)
      BY <2>4, <3>1 DEF DeclaredInv, Guards
    <3>3. CASE NoAlter(rest)
      <4> HIDE DEF values, others, rest
      <4>1. Guarded(rest, others)
        BY <3>3, NoAlterGuarded
      <4> QED
        BY <4>1 DEF others
    <3>4. CASE ~NoAlter(rest)
      <4>1. s.op # "add column"
        BY <1>2, <2>1, <3>4 DEF DeclaredInv, Guards
      <4>2. "null" \in others => "null" \in values /\ s.op # "fill"
        BY <1>4, <4>1
      <4> HIDE DEF values, others
      <4>3. Guarded(rest, others)
        BY <1>2, <3>2, <4>2, GuardedTail
      <4> QED
        BY <4>3 DEF others
    <3> QED
      BY <3>3, <3>4
  <2>5. Guarded(todo, ValuesOf(server[Here]))' <=> Guarded(todo', ValuesOf(server'[Here]))
    OBVIOUS
  <2>6. NoAlter(todo)' <=> NoAlter(todo')
    BY DEF NoAlter
  <2> HIDE DEF rest
  <2> QED
    BY <1>1, <2>2, <2>3, <2>4, <2>5, <2>6 DEF Guards
<1>13. NothingRefused'
  BY <1>1 DEF NothingRefused
<1> QED
  BY <1>4, <1>9, <1>10, <1>11, <1>12, <1>13 DEF DeclaredInv

\* Without rows a table is its own bare table.
LEMMA BareBare ==
    ASSUME NEW t, t = NoTable \/ IsTable(t)
    PROVE  Bare(Bare(t)) = Bare(t)
<1>1. CASE t = NoTable
  BY <1>1 DEF Bare
<1>2. CASE IsTable(t)
  <2>1. /\ Bare(t) = Tab(t.table, FALSE, {}, t.checks, t.index, t.constraint, t.columns)
        /\ IsTable(Bare(t)) /\ Bare(t).table = t.table /\ Bare(t).checks = t.checks
        /\ Bare(t).index = t.index /\ Bare(t).constraint = t.constraint /\ Bare(t).columns = t.columns
    BY <1>2, BareParts
  <2> DEFINE u == Bare(t)
  <2> HIDE DEF u
  <2>2. IsTable(u)
    BY <2>1 DEF u
  <2>3. Bare(u) = Tab(u.table, FALSE, {}, u.checks, u.index, u.constraint, u.columns)
    BY <2>2, BareParts
  <2> QED
    BY <2>1, <2>3 DEF u
<1> QED
  BY <1>1, <1>2

\* What a model meets, without anything deferred, is what it declares.
LEMMA MeetsDeclares ==
    ASSUME NEW t, t = NoTable \/ IsTable(t), NEW m, IsModel(m), Meets(Bare(t), m, <<>>)
    PROVE  Declares(t, m)
<1>1. CASE m.table = "none"
  <2>1. Bare(t) = NoTable
    BY <1>1 DEF Meets
  <2>2. t = NoTable
    BY <2>1, BareParts
  <2> QED
    BY <1>1, <2>2 DEF Declares
<1>2. CASE m.table # "none" /\ m.field = NoField
  <2>1. IsColumnless(Bare(t), m.table, {}, m.constraint)
    BY <1>2 DEF Meets
  <2>2. t # NoTable
    BY <2>1, TableIsOne DEF IsColumnless, Bare
  <2>3. Bare(t).table = t.table /\ Bare(t).checks = t.checks /\ Bare(t).index = t.index
        /\ Bare(t).constraint = t.constraint /\ Bare(t).columns = t.columns
    BY <2>2, BareParts
  <2>4. /\ t.table = m.table /\ t.checks = {} /\ t.index = "none" /\ t.constraint = m.constraint
        /\ DOMAIN t.columns = {}
    BY <2>1, <2>3 DEF IsColumnless
  <2>5. ~m.index
    BY <1>2 DEF IsModel
  <2> QED
    BY <1>2, <2>4, <2>5 DEF Declares
<1>3. CASE m.table # "none" /\ m.field # NoField
  <2> DEFINE n == m.table
             r == m.constraint
             c == m.field.column
             d == ColumnOf(m.field)
  <2>1. PICK k, i : Bare(t) = Narrow(n, k, i, r, c, d) /\ Pending(m, k, i, <<>>)
    BY <1>3 DEF Meets
  <2>2. k = ChecksOf(m) /\ i = IndexOf(m)
    BY <2>1 DEF Pending
  <2> HIDE DEF n, r, c, d
  <2>3. IsNarrow(Bare(t), n, k, i, r, c, d)
    BY <2>1, NarrowParts
  <2>4. t # NoTable
    BY <2>3, TableIsOne DEF IsNarrow, Bare
  <2>5. Bare(t).table = t.table /\ Bare(t).checks = t.checks /\ Bare(t).index = t.index
        /\ Bare(t).constraint = t.constraint /\ Bare(t).columns = t.columns
    BY <2>4, BareParts
  <2>6. /\ t.table = n /\ t.checks = ChecksOf(m) /\ t.index = IndexOf(m) /\ t.constraint = r
        /\ DOMAIN t.columns = {c} /\ t.columns[c] = d
    BY <2>2, <2>3, <2>5 DEF IsNarrow
  <2> QED
    BY <1>3, <2>6 DEF Declares, ChecksOf, IndexOf, n, r, c, d
<1> QED
  BY <1>1, <1>2, <1>3

\* The table of an earlier migration is as its model says.
LEMMA InitMeets ==
    ASSUME NEW m \in Model, m.table \in Table, m.index = FALSE, NEW a, a = After(NoTable, Create(m))
    PROVE  Bare(a) = a /\ Neat(a) /\ Meets(a, m, <<>>)
<1> DEFINE s == Create(m)
           x == NoTable
<1>1. s.op = "create" /\ s.table = m.table
  BY CreatesColumn
<1>2. WellFormed(s)
  BY CreateWellFormed
<1> HIDE DEF s
<1>3. Legal(x, s) /\ s.op \in Structural
  BY <1>1 DEF Legal, Structural
<1>4. Bare(x) = x /\ Neat(x) /\ x = NoTable
  BY DEF Bare, Neat, ColumnsOf, ValuesOf, RowsOf
<1> HIDE DEF x
<1>5. a = After(x, s) /\ s.table \in Table
  BY <1>1 DEF s, x
<1>6. Bare(a) = a
  <2>1. Bare(After(x, s)) = After(Bare(x), s)
    BY <1>1, <1>3, <1>4, <1>5, BareAfter
  <2> QED
    BY <1>4, <1>5, <2>1
<1>7. Neat(a)
  BY <1>1, <1>2, <1>3, <1>4, <1>5, AfterNeat
<1>8. Made(NoTable, Create(m)) = a
  BY <1>1 DEF Made, Aside, s
<1>9. m.table # "none"
  BY SchemaAssumption
<1>10. Meets(a, m, <<>>)
  <2>1. CASE m.field = NoField
    <3>1. PICK u : Makes(NoTable, Create(m), u) /\ IsColumnless(u, m.table, {}, m.constraint)
      BY <2>1, CreateMakes
    <3>2. u = a
      BY <1>8, <3>1 DEF Makes
    <3> QED
      BY <1>9, <2>1, <3>1, <3>2 DEF Meets
  <2>2. CASE m.field # NoField
    <3>1. Makes(NoTable, Create(m),
                Narrow(m.table, IF m.field.check THEN {m.field.column} ELSE {}, "none", m.constraint,
                       m.field.column, ColumnOf(m.field)))
      BY <2>2, CreateMakes
    <3>2. Pending(m, ChecksOf(m), "none", <<>>)
      BY DEF Pending, IndexOf
    <3>3. Meets(Narrow(m.table, ChecksOf(m), "none", m.constraint, m.field.column, ColumnOf(m.field)),
                m, <<>>)
      BY <1>9, <2>2, <3>2, NarrowMeets
    <3>4. Narrow(m.table, ChecksOf(m), "none", m.constraint, m.field.column, ColumnOf(m.field)) = a
      BY <1>8, <3>1 DEF Makes, ChecksOf
    <3> QED
      BY <3>3, <3>4
  <2> QED
    BY <2>1, <2>2
<1> QED
  BY <1>6, <1>7, <1>10

\* The invariant holds at first.
LEMMA InitDeclares ==
    ASSUME Init
    PROVE  DeclaredInv
<1> DEFINE a == After(NoTable, Create(project))
<1>1. /\ project \in Model /\ project.index = FALSE /\ (project.table = "none" => project.field = NoField)
      /\ project.table \in Table \cup {"none"}
  BY DEF Init, Model
<1>2. /\ pc = "closed" /\ todo = <<>> /\ deferred = <<>> /\ last = NoOp /\ excuses = {}
  BY DEF Init
<1>3. NoOp[1] = "none"
  BY DEF NoOp
<1>4. Here \in Node /\ Here \in Holding
  BY SchemaAssumption DEF Holding
<1>5. server = [n \in Node |-> IF n \notin Holding \/ project.table = "none" THEN NoTable ELSE a]
  BY DEF Init
<1>6. Bare(NoTable) = NoTable /\ Neat(NoTable)
  BY DEF Bare, Neat, ColumnsOf, ValuesOf, RowsOf
<1>7. project.table # "none" => Bare(a) = a /\ Neat(a) /\ Meets(a, project, <<>>)
  BY <1>1, InitMeets
<1> HIDE DEF a
<1>8. server[Here] = IF project.table = "none" THEN NoTable ELSE a
  BY <1>4, <1>5
<1>9. Seen = server[Here] /\ Neat(server[Here])
  BY <1>6, <1>7, <1>8 DEF Seen
<1>10. Meets(Seen, project, <<>>)
  <2>1. CASE project.table = "none"
    BY <1>8, <1>9, <2>1 DEF Meets
  <2>2. CASE project.table # "none"
    BY <1>7, <1>8, <1>9, <2>2
  <2> QED
    BY <2>1, <2>2
<1>11. Alike
  BY <1>5, <1>8, <1>9 DEF Alike, Holding
<1>12. Leading
  BY <1>2, <1>10 DEF Leading
<1>13. Altered
  BY <1>2, <1>3 DEF Altered
<1>14. Formed
  BY <1>2, <1>9, EmptyRange DEF Formed
<1>15. Guards
  BY <1>2, EmptyRange DEF Guards
<1>16. Reached
  <2>1. \A f \in Field : f.type # "absent"
    BY SchemaAssumption DEF Field
  <2> DEFINE p == CHOOSE s \in Shape : s.primary_key
  <2>2. p \in Shape
    BY SchemaAssumption
  <2>3. p.type # "absent"
    BY <2>2, SchemaAssumption
  <2>4. HasField => project.field \in Field
    BY <1>1 DEF HasField, Model
  <2>5. related = [n \in Node |-> IF ~relCluster /\ n # Here THEN "absent"
                                  ELSE IF HasField THEN project.field.type ELSE p.type]
    BY DEF Init
  <2> HIDE DEF p
  <2> QED
    BY <2>1, <2>3, <2>4, <2>5 DEF Reached
<1>17. NothingRefused
  BY <1>2 DEF NothingRefused
<1> QED
  BY <1>11, <1>12, <1>13, <1>14, <1>15, <1>16, <1>17 DEF DeclaredInv

\* Every step keeps the invariant.
LEMMA NextDeclares ==
    ASSUME SchemaInv, DeclaredInv, [Next]_vars
    PROVE  DeclaredInv'
<1>1. ASSUME NEW t \in Table, NEW f \in Field \cup {NoField}, NEW i \in BOOLEAN, NEW c \in BOOLEAN,
             i => f # NoField,
             CreateModel([table |-> t, field |-> f, index |-> i, constraint |-> c])
      PROVE  DeclaredInv'
  <2> DEFINE m == [table |-> t, field |-> f, index |-> i, constraint |-> c]
  <2>1. m \in Model /\ m.table \in Table /\ (m.index => m.field # NoField)
    BY <1>1 DEF Model
  <2>2. CreateModel(m)
    BY <1>1
  <2> HIDE DEF m
  <2> QED
    BY <2>1, <2>2, CreateModelDeclares
<1>2. ASSUME NEW f \in Field, AddField(f) \/ AlterField(f) PROVE DeclaredInv'
  BY <1>2, AddFieldDeclares, AlterFieldDeclares
<1>3. ASSUME NEW t \in Table, AlterTable(t) PROVE DeclaredInv'
  BY <1>3, AlterTableDeclares
<1>4. CASE DeleteModel
  BY <1>4, DeleteModelDeclares
<1>5. CASE RemoveField
  BY <1>5, RemoveFieldDeclares
<1>6. CASE AddIndex
  BY <1>6, AddIndexDeclares
<1>7. CASE RemoveIndex
  BY <1>7, RemoveIndexDeclares
<1>8. CASE SwitchConstraint
  BY <1>8, SwitchConstraintDeclares
<1>9. CASE Leave
  BY <1>9, LeaveDeclares
<1>10. CASE Execute
  BY <1>10, ExecuteDeclares
<1>11. CASE Refuse
  BY <1>11, RefuseDeclares
<1>12. CASE Break
  BY <1>12, BreakDeclares
<1>13. CASE Abandon
  BY <1>13, AbandonDeclares
<1>14. ASSUME NEW v \in {"kept", "null"}, Insert(v) PROVE DeclaredInv'
  BY <1>14, InsertDeclares
<1>15. CASE UNCHANGED vars
  BY <1>15, StutterDeclares
<1> QED
  BY <1>1, <1>2, <1>3, <1>4, <1>5, <1>6, <1>7, <1>8, <1>9, <1>10, <1>11, <1>12, <1>13, <1>14, <1>15
     DEF Next

(***************************************************************************)
(* The statements that are left make of the table what the model of the    *)
(* migrations says, in every state of every session, on every node of the  *)
(* cluster (the operations of the schema editor and their statements).     *)
(***************************************************************************)
THEOREM DeclaredInvAlways == Spec => []DeclaredInv
<1>1. Init => DeclaredInv
  BY InitDeclares
<1>2. SchemaInv /\ DeclaredInv /\ [Next]_vars => DeclaredInv'
  BY NextDeclares
<1> QED
  BY <1>1, <1>2, SchemaInvAlways, PTL DEF Spec

(***************************************************************************)
(* Between sessions every node that holds the table has it as the model    *)
(* says, with no default, type or check left over from the steps of an     *)
(* alteration, after a repetition of one that broke as well (alter_field,  *)
(* _alter_field and deferred_sql of the schema editor).                    *)
(***************************************************************************)
THEOREM AsDeclaredAlways == Spec => []AsDeclared
<1>1. ASSUME SchemaInv, DeclaredInv PROVE AsDeclared
  <2> DEFINE t == server[Here]
  <2> SUFFICES ASSUME pc = "closed", excuses \cap {"broken", "check"} = {}
               PROVE  \A n \in Node : IF n \in Holding THEN Declares(server[n], project)
                                      ELSE server[n] = NoTable
    BY DEF AsDeclared
  <2>1. Meets(Seen, project, <<>>)
    BY <1>1 DEF DeclaredInv, Leading
  <2>2. IsModel(project) /\ (t = NoTable \/ IsTable(t))
    BY <1>1 DEF SchemaInv, Projects, Tables
  <2>3. /\ \A n \in Node \ {Here} : server[n] = IF cluster THEN Seen ELSE NoTable
    BY <1>1 DEF DeclaredInv, Alike
  <2>4. Seen = Bare(t)
    BY DEF Seen
  <2> HIDE DEF t
  <2>5. Declares(t, project)
    BY <2>1, <2>2, <2>4, MeetsDeclares
  <2>6. Declares(Seen, project)
    <3>1. Seen = NoTable \/ IsTable(Seen)
      BY <2>2, <2>4, BareParts DEF Bare
    <3>2. Bare(Seen) = Seen
      BY <2>2, <2>4, BareBare
    <3> DEFINE u == Seen
    <3> HIDE DEF u
    <3>3. (u = NoTable \/ IsTable(u)) /\ Meets(Bare(u), project, <<>>)
      BY <2>1, <3>1, <3>2 DEF u
    <3>4. Declares(u, project)
      BY <2>2, <3>3, MeetsDeclares
    <3> QED
      BY <3>4 DEF u
  <2> QED
    BY <2>3, <2>5, <2>6 DEF Holding, t
<1> QED
  BY <1>1, SchemaInvAlways, DeclaredInvAlways, PTL

(***************************************************************************)
(* No statement of a session meets a table that refuses it, but for NULLs, *)
(* a column check that is still deferred, or a related model on another    *)
(* cluster (the statements that the operations of the schema editor issue  *)
(* one after the other, and again after one that broke).                   *)
(***************************************************************************)
THEOREM NothingRefusedAlways == Spec => []NothingRefused
<1>1. DeclaredInv => NothingRefused
  BY DEF DeclaredInv
<1> QED
  BY <1>1, DeclaredInvAlways, PTL
==============================================================================
