------------------------------ MODULE QuerySets ------------------------------
(***************************************************************************)
(* The query sets of a model and the statements compiled from them         *)
(* (models/query.py, models/sql/).  A query set is chained from another by *)
(* filter(), prewhere(), settings(), a slice, or as a subquery; all of     *)
(* them stay usable.  Queries hold references: their where and prewhere    *)
(* nodes and their dict of settings lie in a heap and are changed in       *)
(* place, so that what clone() copies and what it shares matters.          *)
(***************************************************************************)
EXTENDS Integers, Sequences, FiniteSets, FiniteSetsExt

CONSTANTS Conditions,      \* of filter() and prewhere(): [field, value, aggregate]
          Objs,            \* the objects inserted: [a, b]
          MaxRowsUseExpression,  \* MAX_ROWS_INSERT_USE_EXPRESSION
          MaxObjs,         \* objects of an INSERT: a bound of the model
          MaxQueries       \* queries made: a bound of the model

ASSUME QueriesAssumption ==
  /\ Conditions \subseteq [field: {"a", "b"}, value: Int, aggregate: BOOLEAN]
  /\ Objs \subseteq [a: Int, b: Int]
  /\ MaxRowsUseExpression \in Nat /\ MaxObjs \in Nat /\ MaxQueries \in Nat

VARIABLES table,   \* the rows, by id: field a has a db_default, field b has none
          heap,    \* the nodes, dicts and queries of the process
          asked,   \* what was asked of each query by the calls that made it
          wrote    \* the last INSERT, UPDATE or DELETE

queryVars == <<table, heap, asked, wrote>>

Default == 0        \* DatabaseDefault, and the value the column takes by it
Unset == 0          \* a setting that is not set
NoLimit == -1       \* high_mark None

\* A condition says that a field has a value; an aggregate one is on an
\* annotation (which groups by the row, and so says the same of it).
Under(alias, condition) == [alias |-> alias, condition |-> condition]
InQuery(alias, query) == [alias |-> alias, query |-> query]
IsSubquery(p) == "query" \in DOMAIN p

----------------------------------------------------------------------------
(* Queries and their clones                                                *)

\* Mutant of Clone: the prewhere node is the one of the query cloned.
CloneSharingPrewhere(h, q) ==
  LET c == h.queries[q] IN
  [nodes |-> Append(h.nodes, h.nodes[c.where]),
   dicts |-> Append(h.dicts, h.dicts[c.settings]),
   queries |-> Append(h.queries, [c EXCEPT !.where = Len(h.nodes) + 1,
                                           !.settings = Len(h.dicts) + 1])]

\* Query.clone(): nodes and settings are copied.
Clone(h, q) ==
  LET c == h.queries[q] IN
  [nodes |-> h.nodes \o <<h.nodes[c.where], h.nodes[c.prewhere]>>,
   dicts |-> Append(h.dicts, h.dicts[c.settings]),
   queries |-> Append(h.queries, [c EXCEPT !.where = Len(h.nodes) + 1,
                                           !.prewhere = Len(h.nodes) + 2,
                                           !.settings = Len(h.dicts) + 1])]

LastOf(h) == h.queries[Len(h.queries)]
AddTo(h, node, p) == [h EXCEPT !.nodes[node] = @ \cup {p}]

\* change_aliases() of a node, in place.
Relabelled(h, node, alias) ==
  [h EXCEPT !.nodes[node] = {[p EXCEPT !.alias = alias] : p \in @}]

\* Mutant of ChangeAliases: Django's own, which knows no prewhere.
ChangeAliasesWhere(h, alias) ==
  LET q == LastOf(h) IN
  [Relabelled(h, q.where, alias) EXCEPT !.queries[Len(h.queries)].alias = alias]

ChangeAliases(h, alias) ==
  LET q == LastOf(h) IN
  [Relabelled(Relabelled(h, q.where, alias), q.prewhere, alias)
     EXCEPT !.queries[Len(h.queries)].alias = alias]

\* resolve_expression(): the clone that stands in another query, under
\* aliases of its own.
Resolve(h, q) == ChangeAliases(Clone(h, q), "U")

Sliced(query) == query.low # 0 \/ query.high # NoLimit

Capped(mark, high) == IF high = NoLimit THEN mark ELSE Min({mark, high})

\* set_limits() of a slice, within the slice taken before.
Limited(query, from, to) ==
  LET high == IF to = NoLimit THEN query.high ELSE Capped(query.low + to, query.high)
  IN  [query EXCEPT !.low = Capped(query.low + from, high), !.high = high]

----------------------------------------------------------------------------
(* The statements                                                          *)

Holds(condition, row) == row[condition.field] = condition.value

\* The rows from the low-th on and before the high-th, in the order of ids.
Slice(ids, low, high) ==
  {i \in ids : LET before == Cardinality({j \in ids : j < i})
               IN  low <= before /\ (high = NoLimit \/ before < high)}

\* What the server answers to the SELECT compiled from a query, given its answers
\* to the subqueries: [error, rows].  A condition under an alias the query does not
\* have names an unknown column, and a PREWHERE may have no aggregate.
Answer(h, t, q, within) ==
  LET query == h.queries[q]
      where == h.nodes[query.where]
      prewhere == h.nodes[query.prewhere]
      true(p, i) == IF IsSubquery(p) THEN i \in within[p.query].rows ELSE Holds(p.condition, t[i])
      error == IF \E p \in prewhere : ~IsSubquery(p) /\ p.condition.aggregate THEN "NotSupported"
               ELSE IF \E p \in where \cup prewhere : p.alias # query.alias THEN "UnknownColumn"
               ELSE IF \E p \in where : IsSubquery(p) /\ within[p.query].error # "" THEN "Subquery"
               ELSE ""
      rows == {i \in DOMAIN t : \A p \in where \cup prewhere : true(p, i)}
  IN  [error |-> error,
       rows |-> IF error = "" THEN Slice(rows, query.low, query.high) ELSE {}]

\* The same of a query that may have subqueries; these have none (FilterIn).
Subqueries(h, q) == {p.query : p \in {r \in h.nodes[h.queries[q].where] : IsSubquery(r)}}
Selected(h, t, q) == Answer(h, t, q, [in \in Subqueries(h, q) |-> Answer(h, t, in, <<>>)])

\* Mutant of CompileWhere: a subquery has lost its own conditions.
CompileWhereOuter(h, t, q) ==
  {i \in DOMAIN t : \A p \in h.nodes[h.queries[q].where] :
     ~IsSubquery(p) => Holds(p.condition, t[i])}

\* _compile_where() of an UPDATE or DELETE: the rows it is for.
CompileWhere(h, t, q) ==
  {i \in DOMAIN t : \A p \in h.nodes[h.queries[q].where] :
     IF IsSubquery(p) THEN i \in Selected(h, t, p.query).rows ELSE Holds(p.condition, t[i])}

\* _add_settings_sql().
Settings(h, q) == h.dicts[h.queries[q].settings]

----------------------------------------------------------------------------
(* Chaining query sets                                                     *)

QueriesInit ==
  /\ table = <<>>
  /\ heap = [nodes |-> <<{}, {}>>, dicts |-> <<Unset>>,
             queries |-> <<[where |-> 1, prewhere |-> 2, settings |-> 1,
                            low |-> 0, high |-> NoLimit, alias |-> "T"]>>]
  /\ asked = <<[conditions |-> {}, prewhere |-> FALSE, refused |-> FALSE, within |-> {},
                settings |-> Unset, low |-> 0, high |-> NoLimit]>>
  /\ wrote = [op |-> "none"]

Room(n) == Len(heap.queries) + n <= MaxQueries

\* The aliases of a query set are not those of a subquery.
QuerySet(q) == heap.queries[q].alias = "T"

Ask(h, ask) == /\ heap' = h
               /\ asked' = Append(asked, ask)
               /\ UNCHANGED <<table, wrote>>

\* filter(); a slice can no longer be filtered.
Filter(q, c) ==
  LET h == Clone(heap, q) IN
  /\ Room(1) /\ QuerySet(q) /\ ~Sliced(heap.queries[q])
  /\ Ask(AddTo(h, LastOf(h).where, Under("T", c)),
         [asked[q] EXCEPT !.conditions = @ \cup {c}])

\* QuerySet.prewhere() and Query.add_prewhere().
Prewhere(q, c) ==
  LET h == Clone(heap, q) IN
  /\ Room(1) /\ QuerySet(q) /\ ~Sliced(heap.queries[q])
  /\ Ask(AddTo(h, LastOf(h).prewhere, Under("T", c)),
         [asked[q] EXCEPT !.conditions = @ \cup {c}, !.prewhere = TRUE,
                          !.refused = @ \/ c.aggregate])

\* QuerySet.settings().
WithSettings(q, s) ==
  LET h == Clone(heap, q) IN
  /\ Room(1) /\ QuerySet(q)
  /\ Ask([h EXCEPT !.dicts[LastOf(h).settings] = s], [asked[q] EXCEPT !.settings = s])

\* A slice of a query set.
TakeSlice(q, from, to) ==
  LET h == Clone(heap, q) IN
  /\ Room(1) /\ QuerySet(q)
  /\ Ask([h EXCEPT !.queries[Len(h.queries)] = Limited(@, from, to)],
         Limited(asked[q], from, to))

\* filter(id__in=...) of another query set, which holds no subquery itself (a
\* bound of the model).
FilterIn(q, in) ==
  LET h == Clone(heap, q)
      with == Resolve(h, in)
  IN  /\ Room(2) /\ QuerySet(q) /\ QuerySet(in) /\ ~Sliced(heap.queries[q])
      /\ asked[in].within = {}
      /\ heap' = AddTo(with, with.queries[Len(h.queries)].where,
                       InQuery("T", Len(with.queries)))
      /\ asked' = asked \o <<[asked[q] EXCEPT !.within = @ \cup {in}], asked[in]>>
      /\ UNCHANGED <<table, wrote>>

----------------------------------------------------------------------------
(* Writing                                                                 *)

\* Mutant of Omitted: the first object speaks for all, however few.
OmittedByFirst(objs) == objs[1].a = Default

\* Whether SQLInsertCompiler leaves out the field that has a db_default.
Omitted(objs) ==
  IF Len(objs) > MaxRowsUseExpression THEN objs[1].a = Default
  ELSE \A i \in DOMAIN objs : objs[i].a = Default

\* More rows are sent as data, where the expression of a default has no place.
SentFails(objs) ==
  /\ Len(objs) > MaxRowsUseExpression
  /\ ~Omitted(objs)
  /\ \E i \in DOMAIN objs : objs[i].a = Default

\* bulk_create(); with ids of the id worker.  One INSERT is a bound of the model.
Insert(objs) ==
  /\ table = <<>> /\ wrote.op = "none"
  /\ table' = IF SentFails(objs) THEN table
              ELSE [i \in DOMAIN objs |->
                      [objs[i] EXCEPT !.a = IF Omitted(objs) THEN Default ELSE @]]
  /\ wrote' = [op |-> "insert", objs |-> objs, failed |-> SentFails(objs), rows |-> table']
  /\ UNCHANGED <<heap, asked>>

\* A write is recorded with the query set's rows before it.  UpdateQuery and
\* DeleteQuery are made of a clone of the query.
Writes(op, q) ==
  LET h == Clone(heap, q)
      last == Len(h.queries)
  IN  /\ table # <<>> /\ wrote.op = "insert"
      /\ QuerySet(q) /\ ~Sliced(heap.queries[q])
      /\ Selected(heap, table, q).error = ""
      /\ \A c \in asked[q].conditions : ~c.aggregate
      /\ wrote' = [op |-> op, asked |-> asked[q],
                   read |-> Selected(heap, table, q).rows,
                   rows |-> CompileWhere(h, table, last),
                   settings |-> Settings(h, last)]
      /\ UNCHANGED <<heap, asked>>

Update(q, v) ==
  /\ Writes("update", q)
  /\ table' = [i \in DOMAIN table |-> IF i \in CompileWhere(heap, table, q)
                                      THEN [table[i] EXCEPT !.b = v] ELSE table[i]]

\* delete() of a model that nothing refers to, by one statement.
Delete(q) ==
  /\ Writes("delete", q)
  /\ table' = [i \in DOMAIN table \ CompileWhere(heap, table, q) |-> table[i]]

QueriesNext ==
  \/ \E n \in 1 .. MaxObjs : \E objs \in [1 .. n -> Objs] : Insert(objs)
  \/ \E q \in DOMAIN heap.queries :
       \/ \E c \in Conditions : Filter(q, c) \/ Prewhere(q, c)
       \/ \E s \in 1 .. 2 : WithSettings(q, s)
       \/ TakeSlice(q, 0, 1) \/ TakeSlice(q, 1, NoLimit)
       \/ \E in \in DOMAIN heap.queries : FilterIn(q, in)
       \/ Update(q, 2)
       \/ Delete(q)

QueriesSpec == QueriesInit /\ [][QueriesNext]_queryVars

----------------------------------------------------------------------------
\* Chaining, resolving or writing with a query set changes no query there is:
\* neither its conditions nor its settings.
QuerySetsImmutable ==
  [][\A q \in DOMAIN heap.queries :
       LET before == heap.queries[q]
           after == heap'.queries[q]
       IN  /\ heap'.nodes[after.where] = heap.nodes[before.where]
           /\ heap'.nodes[after.prewhere] = heap.nodes[before.prewhere]
           /\ heap'.dicts[after.settings] = heap.dicts[before.settings]]_queryVars

\* The rows asked of a query set by all the calls that led to it.
AskedAmong(ids, ask) ==
  Slice({i \in ids : \A c \in ask.conditions : Holds(c, table[i])}, ask.low, ask.high)
AskedRows(ask) ==
  AskedAmong({i \in DOMAIN table : \A in \in ask.within :
                i \in AskedAmong(DOMAIN table, asked[in])}, ask)

\* Every query set, and every subquery, selects the rows asked of it with the
\* settings asked of it, whether a condition was put in PREWHERE or in WHERE;
\* it fails when PREWHERE has an aggregate, there or in a subquery, and only then.
RowsAsFiltered ==
  \A q \in DOMAIN heap.queries :
    LET answer == Selected(heap, table, q)
        refused == asked[q].refused \/ \E in \in asked[q].within : asked[in].refused
    IN  /\ Settings(heap, q) = asked[q].settings
        /\ answer.error # "" <=> refused
        /\ ~refused => answer.rows = AskedRows(asked[q])

\* Objects are inserted as they were given, those that leave a field to its
\* db_default among those that do not, all of them or (only as data) none.  As
\* data the first object decides for all: what others give is lost when it
\* leaves the field out, and only then.
InsertedAsGiven ==
  wrote.op = "insert" =>
    LET asData == Len(wrote.objs) > MaxRowsUseExpression
        lost == asData /\ wrote.objs[1].a = Default
    IN  \/ asData /\ wrote.failed /\ wrote.rows = <<>>
        \/ ~wrote.failed /\ (lost \/ wrote.rows = wrote.objs)

\* An UPDATE or DELETE without PREWHERE writes the rows its query set reads, with
\* its settings.
WritesAsAsked ==
  (wrote.op \in {"update", "delete"} /\ ~wrote.asked.prewhere) =>
    wrote.rows = wrote.read /\ wrote.settings = wrote.asked.settings
=============================================================================
