---------------------------- MODULE SchemaEditor -----------------------------
(***************************************************************************)
(* DatabaseSchemaEditor: a migration as a session of operations on one     *)
(* model, each a sequence of statements, and what the statements do to its *)
(* table on the nodes of a cluster.                                        *)
(*                                                                         *)
(* No transaction spans the statements: a session that ends by an error    *)
(* leaves what it had done, the deferred statements of the others run when *)
(* it ends, and programs go on inserting rows meanwhile.  The model has a  *)
(* field whose column the session adds, alters, renames and removes, at    *)
(* most one index and one constraint; a related model has a column for the *)
(* field when it is the primary key.                                       *)
(***************************************************************************)
EXTENDS Integers, Sequences, SequencesExt

CONSTANTS
    Node, Here,     \* the nodes of the cluster, and the one connected to
    Column, Table,  \* names
    Shape,          \* fields, without their column
    MaxOps,         \* bound on operations, over all sessions
    MaxBreaks       \* bound on statements that fail without a reason here

\* "none" is no name and no default, "zero" the zero of a type where no field has
\* it as a default, "absent" no type.  "null" is NULL: no field has None as its
\* default, nor NULL in the database unless it is nullable.
ASSUME SchemaAssumption ==
    /\ Here \in Node
    /\ "none" \notin Column \cup Table
    /\ \A s \in Shape : /\ "zero" \notin {s.default, s.db_default}
                        /\ s.default # "null" /\ (s.db_default = "null" => s.null)
                        /\ s.type # "absent"
    /\ \E s \in Shape : s.primary_key
    /\ Shape \subseteq [type: STRING, null: BOOLEAN, default: STRING,
                        db_default: STRING, comment: STRING, check: BOOLEAN,
                        primary_key: BOOLEAN, choices: STRING, help_text: STRING]
    /\ MaxOps \in Nat /\ MaxBreaks \in Nat

VARIABLES
    engine,      \* of the model; cluster: it has Meta.cluster
    cluster,
    relCluster,  \* the related model has Meta.cluster
    server,      \* the table on each node
    related,     \* the type of the related column on each node
    project,     \* the model as the migrations have it
    before,      \* the same when the session began
    pc, todo,    \* the statements to execute
    deferred,    \* deferred_sql
    last,        \* the operation that is run, or was last
    ops, breaks,
    excuses,     \* history: why a statement may be refused
    touched,     \* history: the session has changed the server
    kept,        \* history: a program has stored a value in the column
    bare         \* history: the column was added without a default

settings == <<engine, cluster, relCluster>>
history == <<excuses, touched, kept, bare>>
vars == <<settings, server, related, project, before, pc, todo, deferred,
          last, ops, breaks, history>>

Field == {[column |-> c, type |-> s.type, null |-> s.null, default |-> s.default,
           db_default |-> s.db_default, comment |-> s.comment, check |-> s.check,
           primary_key |-> s.primary_key, choices |-> s.choices,
           help_text |-> s.help_text] : c \in Column, s \in Shape}
NoField == [column |-> "none"]
NoTable == [table |-> "none"]
NoOp == <<"none">>
Value == {"null", "zero", "kept"} \cup {s.default : s \in Shape} \cup {s.db_default : s \in Shape}

Model == [table: Table \cup {"none"}, field: Field \cup {NoField},
          index: BOOLEAN, constraint: BOOLEAN]
HasField == project.field # NoField
Distributed == engine = "Distributed"

-----------------------------------------------------------------------------
(* Statements.  on: the statement ends with ON CLUSTER.                    *)

\* Mutated forms of definitions below, for the runs that tell them apart.
FillAll(table, column, value, all) ==
    [op |-> "fill", on |-> cluster, table |-> table, column |-> column, value |-> value, all |-> TRUE]
FillNulls(table, column, value, all) ==
    [op |-> "fill", on |-> cluster, table |-> table, column |-> column, value |-> value, all |-> FALSE]
TableKept(s, to) == s
InDatabaseNoChoices(f) ==
    [f EXCEPT !.help_text = "none", !.primary_key = FALSE, !.choices = "none"]

\* _get_column_type: Nullable also for Django's own fields.  The choices of an
\* enumeration are part of its type.
Enum(f) == f.type = "Enum8"
ColumnType(f) == <<f.type, f.null, IF Enum(f) THEN f.choices ELSE "none">>

\* column_sql: what a field says of its column.
ColumnOf(f) == [type |-> ColumnType(f), default |-> f.db_default, comment |-> f.comment]

On(op, table) == [op |-> op, on |-> cluster, table |-> table]
OnColumn(op, table, column) == [op |-> op, on |-> cluster, table |-> table, column |-> column]
Alter(table, column, changes) ==
    [op |-> "alter", on |-> cluster, table |-> table, column |-> column, changes |-> changes]
Fill(table, column, value, all) ==
    [op |-> "fill", on |-> cluster, table |-> table, column |-> column, value |-> value, all |-> all]

\* Which deferred statements can be found again: Statement, not str.
Tracked(s) == s.op = "add index"

\* delete_model and remove_field drop the deferred statements they can find.
Unreferenced(statements) ==
    LET rest[i \in 0..Len(statements)] ==
            IF i = 0 THEN <<>>
            ELSE IF Tracked(statements[i]) THEN rest[i - 1]
            ELSE Append(rest[i - 1], statements[i])
    IN  rest[Len(statements)]

\* rename_table_references, rename_column_references.
TableRenamed(s, to) == IF Tracked(s) THEN [s EXCEPT !.table = to] ELSE s
ColumnRenamed(s, from, to) ==
    IF Tracked(s) /\ s.column = from THEN [s EXCEPT !.column = to] ELSE s

When(condition, statements) == IF condition THEN statements ELSE <<>>

-----------------------------------------------------------------------------
(* The operations as sequences of statements.                              *)

Create(m) ==
    [op |-> "create", on |-> cluster, table |-> m.table,
     columns |-> IF m.field = NoField THEN <<>> ELSE <<m.field.column, ColumnOf(m.field)>>,
     checks |-> IF m.field # NoField /\ m.field.check THEN {m.field.column} ELSE {},
     constraint |-> m.constraint]

CreateModelSql(m) ==
    <<Create(m)>> \o When(m.index /\ engine # "MergeTree", <<On("raise", m.table)>>)

AddFieldSql(t, f) ==
    << [op |-> "add column", on |-> cluster, table |-> t, column |-> f.column,
        definition |-> ColumnOf(f)] >>
    \o When(f.db_default = "none" /\ f.default # "none" /\ ~Distributed,
            <<Fill(t, f.column, f.default, TRUE)>>)

RemoveFieldSql(t, f) ==
    <<OnColumn("drop column", t, f.column)>>
    \o When(f.check, <<OnColumn("drop check", t, f.column)>>)

\* help_text stands for the attributes that the database does not know, which
\* are put aside; so are primary_key and the choices of other than Enums.
InDatabase(f) == [f EXCEPT !.help_text = "none", !.primary_key = FALSE,
                           !.choices = IF Enum(f) THEN @ ELSE "none"]
FieldShouldBeAltered(old, new) == InDatabase(old) # InDatabase(new)

FourWay(old, new) ==
    /\ new.default # "none" \/ new.db_default # "none"
    /\ old.null /\ ~new.null

\* Between NULL and NOT NULL the column has the default of the field.
NeedsDatabaseDefault(old, new) ==
    /\ old.null /\ ~new.null /\ new.db_default = "none"
    /\ new.default \notin {"none", old.default}

\* Nullable as long as there may be NULLs.
EarlyTypeFinal(old, new) == ColumnType(new)
EarlyType(old, new) == [ColumnType(new) EXCEPT ![2] = @ \/ FourWay(old, new)]

FirstChanges(old, new) ==
    When(ColumnType(old) # ColumnType(new) \/ old.comment # new.comment,
         << <<"type", EarlyType(old, new)>> >>)
    \o When(new.db_default \notin {"none", old.db_default},
            << <<"default", new.db_default>> >>)
    \o When(new.db_default = "none" /\ old.db_default # "none",
            << <<"remove default">> >>)
    \o When(NeedsDatabaseDefault(old, new), << <<"default", new.default>> >>)

RelatedSqlOnChange(old, new) ==
    When(new.primary_key /\ ~old.primary_key,
         << [op |-> "alter related", on |-> cluster, type |-> new.type] >>)

\* Columns of related models, with the cluster of the altered model.
RelatedSql(old, new) ==
    When(/\ new.primary_key
         /\ ~old.primary_key \/ ColumnType(old) # ColumnType(new),
         << [op |-> "alter related", on |-> cluster, type |-> new.type] >>)

AlterFieldSql(t, old, new) ==
    LET c == new.column
        moved == old.column # c
        value == IF new.db_default = "none" THEN new.default ELSE new.db_default
    IN  When(old.check /\ (moved \/ ~new.check), <<OnColumn("drop check", t, old.column)>>)
        \o When(moved, << [op |-> "rename column", on |-> cluster, table |-> t,
                           column |-> old.column, to |-> c] >>)
        \o When(FirstChanges(old, new) # <<>>, <<Alter(t, c, FirstChanges(old, new))>>)
        \o When(FourWay(old, new) /\ ~Distributed, <<Fill(t, c, value, FALSE)>>)
        \o When(FourWay(old, new), <<Alter(t, c, << <<"type", ColumnType(new)>> >>)>>)
        \o When(old.comment # new.comment, <<Alter(t, c, << <<"comment", new.comment>> >>)>>)
        \o RelatedSql(old, new)
        \o When(new.check /\ (moved \/ ~old.check), <<OnColumn("add check", t, c)>>)
        \o When(NeedsDatabaseDefault(old, new), <<Alter(t, c, << <<"remove default">> >>)>>)

-----------------------------------------------------------------------------
(* The server: what a statement needs, and what it does to a table.        *)

NodesOf(s) == IF s.on THEN Node ELSE {Here}

\* NULLs cannot be converted, and only a default that exists can be removed.
ChangeLegal(t, c, change) ==
    CASE change[1] = "type" -> change[2][2] \/ "null" \notin t.values
      [] change[1] = "remove default" -> t.columns[c].default # "none"
      [] OTHER -> TRUE

Legal(t, s) ==
    CASE s.op = "raise" -> FALSE
      [] s.op = "create" -> t = NoTable
      [] OTHER ->
         /\ t.table = s.table
         /\ s.op \in {"alter", "fill", "drop column", "add check", "add index", "rename column"}
              => s.column \in DOMAIN t.columns
         /\ s.op = "add column" => s.column \notin DOMAIN t.columns
         /\ s.op = "rename column" => s.to \notin DOMAIN t.columns
         /\ s.op = "alter" => \A i \in DOMAIN s.changes : ChangeLegal(t, s.column, s.changes[i])
         /\ s.op = "add check" => s.column \notin t.checks
         /\ s.op = "drop check" => s.column \in t.checks
         /\ s.op = "add index" => t.index = "none"
         /\ s.op = "drop index" => t.index # "none"
         /\ s.op = "add constraint" => ~t.constraint
         /\ s.op = "drop constraint" => t.constraint

Renamed(columns, from, to) ==
    [c \in (DOMAIN columns \ {from}) \cup {to} |-> columns[IF c = to THEN from ELSE c]]

Changed(column, change) ==
    CASE change[1] = "type" -> [column EXCEPT !.type = change[2]]
      [] change[1] = "default" -> [column EXCEPT !.default = change[2]]
      [] change[1] = "remove default" -> [column EXCEPT !.default = "none"]
      [] change[1] = "comment" -> [column EXCEPT !.comment = change[2]]

ChangedBy(column, changes) ==
    LET done[i \in 0..Len(changes)] ==
            IF i = 0 THEN column ELSE Changed(done[i - 1], changes[i])
    IN  done[Len(changes)]

\* The rows that are there read the default of a new column, or its type's.
Initial(t, d) ==
    IF ~t.rows THEN {}
    ELSE {IF d.default # "none" THEN d.default ELSE IF d.type[2] THEN "null" ELSE "zero"}

After(t, s) ==
    CASE s.op = "create" ->
           [table |-> s.table, rows |-> FALSE, values |-> {}, checks |-> s.checks,
            index |-> "none", constraint |-> s.constraint,
            columns |-> IF s.columns = <<>> THEN <<>>
                        ELSE [c \in {s.columns[1]} |-> s.columns[2]]]
      [] s.op = "drop" -> NoTable
      [] s.op = "rename" -> [t EXCEPT !.table = s.to]
      [] s.op = "add column" ->
           [t EXCEPT !.columns = [c \in DOMAIN t.columns \cup {s.column} |->
                                    IF c = s.column THEN s.definition ELSE t.columns[c]],
                     !.values = Initial(t, s.definition)]
      [] s.op = "drop column" ->
           [t EXCEPT !.columns = [c \in DOMAIN t.columns \ {s.column} |-> t.columns[c]],
                     !.values = {}]
      [] s.op = "rename column" ->
           [t EXCEPT !.columns = Renamed(@, s.column, s.to),
                     !.index = IF @ = s.column THEN s.to ELSE @]
      [] s.op = "alter" ->
           [t EXCEPT !.columns[s.column] = ChangedBy(@, s.changes)]
      [] s.op = "fill" ->
           [t EXCEPT !.values = IF t.values = {} THEN {}
                                ELSE IF s.all THEN {s.value}
                                ELSE IF "null" \in t.values
                                     THEN (t.values \ {"null"}) \cup {s.value}
                                     ELSE t.values]
      [] s.op = "add check" -> [t EXCEPT !.checks = @ \cup {s.column}]
      [] s.op = "drop check" -> [t EXCEPT !.checks = @ \ {s.column}]
      [] s.op = "add index" -> [t EXCEPT !.index = s.column]
      [] s.op = "drop index" -> [t EXCEPT !.index = "none"]
      [] s.op = "add constraint" -> [t EXCEPT !.constraint = TRUE]
      [] s.op = "drop constraint" -> [t EXCEPT !.constraint = FALSE]

Possible(s) ==
    IF s.op = "alter related"
    THEN \A n \in NodesOf(s) : related[n] # "absent"
    ELSE \A n \in NodesOf(s) : Legal(server[n], s)

-----------------------------------------------------------------------------
\* The nodes that hold a table of the model.
Holding == IF cluster THEN Node ELSE {Here}

\* What the model says of its table.
Declares(t, m) ==
    IF m.table = "none" THEN t = NoTable
    ELSE /\ t.table = m.table
         /\ t.index = (IF m.index THEN m.field.column ELSE "none")
         /\ t.constraint = m.constraint
         /\ IF m.field = NoField THEN DOMAIN t.columns = {} /\ t.checks = {}
            ELSE /\ DOMAIN t.columns = {m.field.column}
                 /\ t.columns[m.field.column] = ColumnOf(m.field)
                 /\ t.checks = (IF m.field.check THEN {m.field.column} ELSE {})

\* No model, or one that an earlier migration has created.
Init ==
    /\ engine \in {"MergeTree", "Distributed", "Memory"}
    /\ cluster \in BOOLEAN /\ relCluster \in BOOLEAN
    /\ project \in [table: Table \cup {"none"}, field: Field \cup {NoField},
                    index: {FALSE}, constraint: {FALSE}]
    /\ project.table = "none" => project.field = NoField
    /\ server = [n \in Node |->
                   IF n \notin Holding \/ project.table = "none" THEN NoTable
                   ELSE After(NoTable, Create(project))]
    /\ engine = "Memory" => project.table = "none"
    /\ related = [n \in Node |-> IF ~relCluster /\ n # Here THEN "absent"
                                 ELSE IF HasField THEN project.field.type
                                 ELSE (CHOOSE s \in Shape : s.primary_key).type]
    /\ before = project
    /\ pc = "closed" /\ todo = <<>> /\ deferred = <<>>
    /\ last = NoOp /\ ops = 0 /\ breaks = 0
    /\ excuses = {} /\ touched = FALSE /\ kept = FALSE /\ bare = FALSE

\* An alteration whose statements can all be executed again.
Repeatable(op) ==
    /\ op[1] = "alter field"
    /\ op[2].column = op[3].column /\ op[2].check = op[3].check
    /\ op[3].db_default # "none" \/ op[2].db_default = "none"

\* A session that broke is run again, if that can help.
Retry(op) == pc = "closed" /\ "broken" \in excuses /\ op = last /\ Repeatable(op)

\* What a deferred column check does not follow.
Moving == {"remove field", "delete model", "alter table", "alter field"}

\* The next operation of a migration, or the first of the next one.
Operate(op, statements, after, later, why) ==
    /\ ops < MaxOps /\ pc \in {"closed", "open"}
    /\ "broken" \notin excuses \/ Retry(op)
    /\ ops' = ops + 1
    /\ last' = IF pc = "closed" THEN op ELSE NoOp
    /\ before' = IF pc = "closed" THEN project ELSE before
    /\ touched' = (Retry(op) \/ (pc = "open" /\ touched))
    /\ excuses' = (IF pc = "closed" THEN excuses \cap {"check"} ELSE excuses) \cup why
                  \cup (IF op[1] \in Moving /\ \E i \in DOMAIN deferred : ~Tracked(deferred[i])
                        THEN {"check"} ELSE {})
    /\ pc' = IF statements = <<>> THEN "open" ELSE "running"
    /\ todo' = statements /\ project' = after /\ deferred' = later
    /\ UNCHANGED <<settings, server, related, breaks, kept>>

CreateModel(m) ==
    /\ project.table = "none"
    /\ m.field # NoField /\ m.field.primary_key => related[Here] = m.field.type
    /\ Operate(<<"create model", m>>, CreateModelSql(m), m,
               IF m.index /\ engine = "MergeTree"
               THEN Append(deferred, OnColumn("add index", m.table, m.field.column))
               ELSE deferred, {})
    /\ bare' = FALSE

DeleteModel ==
    /\ project.table # "none"
    /\ Operate(<<"delete model">>, <<On("drop", project.table)>>,
               [table |-> "none", field |-> NoField, index |-> FALSE, constraint |-> FALSE],
               Unreferenced(deferred), {})
    /\ UNCHANGED bare

AddField(f) ==
    /\ project.table # "none" /\ ~HasField /\ ~f.primary_key
    /\ Operate(<<"add field", f>>, AddFieldSql(project.table, f), [project EXCEPT !.field = f],
               IF f.check THEN Append(deferred, OnColumn("add check", project.table, f.column))
               ELSE deferred, {})
    /\ bare' = (f.default = "none")

\* The index on the field is gone first, or has not been created yet.
RemoveField ==
    /\ HasField /\ (project.index => \E i \in DOMAIN deferred : Tracked(deferred[i]))
    /\ Operate(<<"remove field">>, RemoveFieldSql(project.table, project.field),
               [project EXCEPT !.field = NoField, !.index = FALSE],
               Unreferenced(deferred), {})
    /\ UNCHANGED bare

\* Without a default for them, NULLs are the caller's business.
AlterField(f) ==
    LET old == project.field
        nulls == old.null /\ ~f.null /\ ~FourWay(old, f)
        apart == f.primary_key /\ cluster # relCluster
    IN
    /\ HasField /\ old # f
    /\ Operate(<<"alter field", old, f>>,
               When(FieldShouldBeAltered(old, f), AlterFieldSql(project.table, old, f)),
               [project EXCEPT !.field = f],
               [i \in DOMAIN deferred |-> ColumnRenamed(deferred[i], old.column, f.column)],
               (IF nulls THEN {"null"} ELSE {}) \cup (IF apart THEN {"cluster"} ELSE {}))
    /\ UNCHANGED bare

AlterTable(t) ==
    /\ project.table \notin {"none", t}
    /\ Operate(<<"alter table", t>>,
               << [op |-> "rename", on |-> cluster, table |-> project.table, to |-> t] >>,
               [project EXCEPT !.table = t],
               [i \in DOMAIN deferred |-> TableRenamed(deferred[i], t)], {})
    /\ UNCHANGED bare

AddIndex ==
    /\ HasField /\ ~project.index /\ engine = "MergeTree"
    /\ Operate(<<"add index">>, <<OnColumn("add index", project.table, project.field.column)>>,
               [project EXCEPT !.index = TRUE], deferred, {})
    /\ UNCHANGED bare

RemoveIndex ==
    /\ project.index /\ \A i \in DOMAIN deferred : ~Tracked(deferred[i])
    /\ Operate(<<"remove index">>, <<On("drop index", project.table)>>,
               [project EXCEPT !.index = FALSE], deferred, {})
    /\ UNCHANGED bare

\* add_constraint, remove_constraint: TypeError for a Distributed table.
SwitchConstraint ==
    LET op == IF Distributed THEN "raise"
              ELSE IF project.constraint THEN "drop constraint" ELSE "add constraint"
    IN
    /\ project.table # "none"
    /\ Operate(<<"switch constraint">>, <<On(op, project.table)>>,
               [project EXCEPT !.constraint = ~@], deferred, {})
    /\ UNCHANGED bare

-----------------------------------------------------------------------------
\* Leaving the editor without an error runs what was deferred.
Leave ==
    /\ pc = "open"
    /\ pc' = IF deferred = <<>> THEN "closed" ELSE "leaving"
    /\ todo' = deferred /\ deferred' = <<>>
    /\ UNCHANGED <<settings, server, related, project, before, last, ops, breaks, history>>

Execute ==
    LET s == Head(todo) IN
    /\ pc \in {"running", "leaving"} /\ Possible(s)
    /\ IF s.op = "alter related"
       THEN /\ related' = [n \in Node |-> IF n \in NodesOf(s) THEN s.type ELSE related[n]]
            /\ UNCHANGED server
       ELSE /\ server' = [n \in Node |-> IF n \in NodesOf(s) THEN After(server[n], s) ELSE server[n]]
            /\ UNCHANGED related
    /\ todo' = Tail(todo) /\ touched' = TRUE
    /\ kept' = (kept /\ s.op \notin {"drop", "drop column"})
    /\ pc' = IF Len(todo) > 1 THEN pc ELSE IF pc = "running" THEN "open" ELSE "closed"
    /\ UNCHANGED <<settings, project, before, deferred, last, ops, breaks, excuses, bare>>

\* The editor or the server raises.
Refuse ==
    /\ pc \in {"running", "leaving"} /\ ~Possible(Head(todo))
    /\ pc' = "refused"
    /\ UNCHANGED <<settings, server, related, project, before, todo, deferred, last, ops, breaks, history>>

\* A connection or a server that fails, instead of the statement.
Break ==
    /\ pc \in {"running", "leaving"} /\ breaks < MaxBreaks
    /\ breaks' = breaks + 1
    /\ pc' = "broken"
    /\ UNCHANGED <<settings, server, related, project, before, todo, deferred, last, ops, history>>

\* Leaving by an error: the migration is not recorded, nothing is undone.
Abandon ==
    /\ pc \in {"refused", "broken"}
    /\ pc' = "closed" /\ todo' = <<>> /\ deferred' = <<>> /\ project' = before
    /\ excuses' = IF touched THEN excuses \cup {"broken"} ELSE excuses \cap {"check"}
    /\ UNCHANGED <<settings, server, related, before, last, ops, breaks, touched, kept, bare>>

\* A program inserts a row, with a value of its own or NULL in the column.  A
\* value that comes before the rows of a new column are updated is updated too.
Insert(v) ==
    LET t == server[Here]
        late == \E i \in DOMAIN todo : todo[i].op = "fill" /\ todo[i].all
    IN
    /\ ~Distributed /\ t # NoTable
    /\ IF DOMAIN t.columns = {} THEN v = "kept" /\ ~t.rows
       ELSE v \notin t.values /\ (v = "null" => \E c \in DOMAIN t.columns : t.columns[c].type[2])
    /\ server' = [server EXCEPT ![Here].rows = TRUE,
                                ![Here].values = IF DOMAIN t.columns = {} THEN {} ELSE @ \cup {v}]
    /\ kept' = (kept \/ (v = "kept" /\ DOMAIN t.columns # {} /\ ~late))
    /\ excuses' = IF v = "null" /\ pc = "running" THEN excuses \cup {"null"} ELSE excuses
    /\ UNCHANGED <<settings, related, project, before, pc, todo, deferred, last, ops, breaks,
                   touched, bare>>

Next ==
    \/ \E t \in Table, f \in Field \cup {NoField}, i, c \in BOOLEAN :
         /\ i => f # NoField
         /\ CreateModel([table |-> t, field |-> f, index |-> i, constraint |-> c])
    \/ \E f \in Field : AddField(f) \/ AlterField(f)
    \/ \E t \in Table : AlterTable(t)
    \/ DeleteModel \/ RemoveField \/ AddIndex \/ RemoveIndex \/ SwitchConstraint
    \/ Leave \/ Execute \/ Refuse \/ Break \/ Abandon
    \/ \E v \in {"kept", "null"} : Insert(v)

Spec == Init /\ [][Next]_vars

-----------------------------------------------------------------------------
\* Every variable stays in its type, and statements go to all nodes of a cluster.
TypeOK ==
    /\ project \in Model /\ before \in Model
    /\ pc \in {"closed", "open", "running", "leaving", "refused", "broken"}
    /\ pc \in {"running", "leaving"} => todo # <<>>
    /\ \A i \in DOMAIN todo : todo[i].on = cluster
    /\ \A n \in Node : server[n] # NoTable => /\ server[n].values \subseteq Value
                                             /\ server[n].checks \subseteq Column
    /\ ops \in 0..MaxOps /\ breaks \in 0..MaxBreaks
    /\ excuses \subseteq {"broken", "null", "check", "cluster"}

(***************************************************************************)
(* Between sessions every node that holds the table has it as the model    *)
(* says, with no default, type or check left over from the steps of an     *)
(* alteration, unless a session broke half-way, or moved a field while the *)
(* check of its column was deferred: nothing finds that statement again,   *)
(* and it executes as it was.  A session that broke in an alteration that  *)
(* can be repeated has it so after the repetition.                         *)
(***************************************************************************)
AsDeclared ==
    pc = "closed" /\ excuses \cap {"broken", "check"} = {}
      => \A n \in Node : IF n \in Holding THEN Declares(server[n], project) ELSE server[n] = NoTable

(***************************************************************************)
(* The statements of a session fit each other: none meets a table that     *)
(* refuses it, not in a repeated alteration either, except that NULLs come *)
(* in meanwhile or have no default to give way to, that a column check is  *)
(* still deferred, or that the related model is on another cluster.        *)
(***************************************************************************)
NothingRefused ==
    pc = "refused" /\ Head(todo).op # "raise" => excuses # {}

(***************************************************************************)
(* A deferred CREATE INDEX follows its table and its column through the    *)
(* operations of the session, and goes when they go.                       *)
(***************************************************************************)
DeferredCurrent ==
    \A i \in DOMAIN deferred :
       Tracked(deferred[i]) => /\ HasField /\ deferred[i].table = project.table
                               /\ deferred[i].column = project.field.column

(***************************************************************************)
(* The column of a related model has the type of the primary key on every  *)
(* node, once an alteration that makes the field the primary key, or the   *)
(* primary key of another type, is complete.  Not more: to become the      *)
(* primary key without any other change issues no statement, and a later   *)
(* alteration that keeps the type does not make up for it.                 *)
(***************************************************************************)
RelatedFollows ==
    pc = "closed" /\ excuses = {} /\ cluster = relCluster
    /\ last[1] = "alter field" /\ touched /\ HasField /\ project.field.primary_key
    /\ (~last[2].primary_key \/ ColumnType(last[2]) # ColumnType(last[3]))
      => \A n \in Node : related[n] \in {"absent", project.field.type}

(***************************************************************************)
(* A migration does not lose data: a value that a program stored is there  *)
(* as long as its column is, whatever is altered, renamed or breaks.       *)
(***************************************************************************)
ValuesKept == kept => "kept" \in server[Here].values

(***************************************************************************)
(* The rows from before the field have its default once it is added, and   *)
(* not the zero of its type.                                               *)
(***************************************************************************)
Backfilled ==
    pc = "closed" /\ "broken" \notin excuses /\ ~bare
      => server[Here] = NoTable \/ "zero" \notin server[Here].values
=============================================================================
