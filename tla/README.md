# Verification of django-clickhouse-backend

TLA+ models of `clickhouse_backend`, the TLC runs that check them on small
instances, and proofs checked by TLAPS. Paths below are relative to
`src/clickhouse_backend/` unless they begin with `src/`, `docs/` or `README.md`
(the last two are the repository's own).

## The system

The package is a Django database backend over `clickhouse_driver`. ClickHouse
has no transactions here, so that whatever takes several statements can be
interleaved with others or stop half-way.

| component | state | operations | what makes it hard | what makes it correct |
|---|---|---|---|---|
| client pool: `driver/pool.py`, `driver/connection.py`, `driver/client.py` | `_pool`, `_used`, `_rused`, `_keys`, `closed` under one lock; `is_closed`; each client's connection | `Connection.cursor` → `pull`; `Cursor.close`, `Cursor.__del__` → `push`; `Connection.close` → `cleanup` | one pool for all threads of a process; checks outside the lock; cursors dropped without `close`; clients given back in the middle of a result; `id()` reused | a client has one user; no slot leaks; the limits hold; nobody reads another's result; a closed pool stays closed |
| pool lock and garbage collection | `_lock` (not reentrant) | `acquire`, `release`, `__del__` in a thread that may hold it | a collection starts at any allocation | a forgotten client comes back |
| query options: `set_query_execution_args` | `Cursor.columnar`, `client_settings["use_numpy"]` | enter, exit, raise | options of a client outlive the cursor | options end with their block |
| registry of connections: `backend/base.py` | alias → (parameters, `Connection`); the options of a wrapper, popped from a shared dictionary | `get_new_connection`, `_nodb_cursor`, `_close` | shared by all threads, replaced when parameters change | everyone gets what it asked for; threads share one pool |
| test databases: `backend/creation.py` | the databases of the servers, `NAME` of each alias | create, keep, clobber, destroy | clusters, killed runs, connections opened before `NAME` changes | fresh databases for tests; real ones untouched |
| schema editor: `backend/schema.py` | the table, its columns and values, on each node; `deferred_sql` | `create_model`, `add_field`, `_alter_field`, indexes, constraints | many statements, programs that insert meanwhile, breaks | the table is as declared; no value is lost |
| migrations: `patch/migrations.py` | the migration rows of each node, or of all; the tables | `apply`, `unapply`, `record_applied`, `record_unapplied` | several nodes, an answer of the cluster used later, crashes | what is recorded is what the tables are |
| migration recorder: `patch/migrations.py` | its local and distributed table on each node | `has_table`, `ensure_schema` | look, then create without IF NOT EXISTS, in several processes | a usable table for all in the end |
| saving models: `models/base.py`, `models/query.py`, `Cursor.execute` | rows, the counted UPDATE | `_do_update`, then INSERT | the count comes from another statement | `save` neither loses nor doubles a row |
| query sets and compilers: `models/query.py`, `models/sql/` | queries, and the nodes and settings they share | `filter`, `prewhere`, `settings`, slices, subqueries, `bulk_create`, `update`, `delete` | shallow clones, aliases, two sources of conditions | a query set selects and writes what was asked of it, and never changes |
| fields: `models/fields/` | none | `check`, `db_type`, `get_db_prep_save`, `from_db_value` | nesting to any depth | checked fields migrate; values come back as saved |
| `inspectdb`: `management/commands/inspectdb.py` | none | a recursive parser of types | nesting | the field declares the column it was read from |
| snowflake ids: `idworker/snowflake.py` | `sequence`, `last_timestamp` | `get_id`, `_til_next_millis` | a clock that is set back, the wrap of the sequence, restarts | no id twice; ids grow; waiting ends |
| escaping, functions, engines, indexes, operations, features | none | text building, flags | — | not modelled, see the end |

The registry gives each alias one `Connection`; a `Connection` owns one pool; a
cursor holds one client of the pool from `cursor()` to `close()`; models,
migrations and the schema editor run their statements on cursors; a migration
is a session of the schema editor and then a row of the recorder; the creation
of test databases points the settings of an alias elsewhere while the registry
still holds what was connected before. Django, `clickhouse_driver` and the
server are not part of this repository: what they do is modelled from how the
package calls them and marked external.

## Modules

| module | models | run by |
|---|---|---|
| `ClientPool` | the pool, the cursors, what queries do to a lent client | itself |
| `ClientLending` | what the pool promises: a lending desk | refined by `ClientPool` |
| `PoolLock` | the lock below `ClientPool`'s atomic steps, `__del__` in the collector | itself |
| `CursorArgs` | query options, over `ClientPool` | `MCCursorArgs` |
| `SharedConnections` | wrappers, the registry and its lock | `MCTestDatabases` |
| `TestDatabases` | a test run over several aliases, on `SharedConnections` | `MCTestDatabases` |
| `SchemaEditor` | the operations as statements, and what these do to a table | `MCSchemaEditor` |
| `Migrations` | one migration on the nodes of a cluster | itself |
| `Recorder` | the tables that hold the records of `Migrations` | `MCRecorder` |
| `ModelSave` | `save()`, `create()`, `delete()` on a table without transactions | itself |
| `Fields` | fields, their types and values, the parser of `inspectdb` | `MCModels` |
| `QuerySets` | query sets, their clones, and the statements compiled from them | `MCModels` |
| `Snowflake` | id workers, their clocks, restarts | itself |
| `ClientPoolProofs` (of `CursorArgs` too), `SnowflakeProofs`, `MigrationsProofs`, `ModelSaveProofs`, `RecorderProofs`, `TestDatabasesProofs`, `SchemaEditorProofs`, `QuerySetsProofs` | theorems | TLAPS |

An operator that no other definition uses (`RegisteredByAlias` before
`Registered`, `AfterLocalNever` before `AfterLocal`) is a mutant: a plausible
error in the definition next to it, which `PROJECT.json` names with the property
that notices it.

### ClientPool

`pool`, `used`, `rused`, `keys`, `closed`, `isClosed` are the attributes of the
same names; `connected` and `executing` are what `push` reads of a client's
connection; `pc` and `client` are the life of each cursor. A method of the pool
runs its body under the lock, so it is one action per outcome: `PullClosed`,
`PullIdle`, `PullRefused`, `PullConnect`; `PushRaises`, `Push`; `Cleanup`. What
the lock does not cover is cut where another thread may come in: `CheckOpen`
before `Pull`, `Close` (the mark) before `Release` (the push), `Cleanup` before
`MarkClosed`. `Send`, `Drain` and `Fail` are all a query does that the pool can
see: `Fail` is `disconnect_on_error`, and may come at any time.

Clients are the identities `id()` returns. `PullConnect` takes any identity
that no live object has, so identities are reused as soon as they can be, which
is what `_rused` is exposed to. The order in which idle clients are popped is
left out, and so are `get_client` and explicit keys, which nothing in the
package uses.

### PoolLock

The same methods with the lock explicit, and nothing of their effect but the
phase of the cursor. A thread has its own call (`pc`, `job`) and, on top of it,
the `__del__` it may be running (`delPc`, `delJob`). With `CollectInside` the
collector may start while a thread is inside a method, as CPython's does.

### CursorArgs

Extends `ClientPool`: the pool's actions are conjoined with what they do to the
options, and `Enter`, `Exit`, `Raise` are the context manager up to its yield,
after it, and left by an exception. `EnterRaises` and `ExitRaises` are the
setter of `use_numpy` without NumPy. `skipped` is a history variable: the
clients on which something raised.

### SharedConnections

`wrapper`, `state`, `asked` and `connection` are, for each thread and alias, the
`DatabaseWrapper` and how far it is with its connection; `connections` holds the
parameters of every `Connection` made, `registry` is `_clickhouse_connections`.
`Ask` is `get_connection_params()`, outside the lock; `Share`, `Miss` and
`Register` are `get_new_connection()`, the lock being held from `Miss` to
`Register` (`LockFree`). `ConnectNoDb` is `_nodb_cursor()`, whose wrapper has the
alias `__no_db__` whatever alias it is made for: one registry entry for the
servers of all. `Close` leaves the `Connection` alone, as `_close()` does. `Wrap`
is `__init__()`, which pops the wrapper's options from the dictionary that all
wrappers of the alias share.

### TestDatabases

Composes `SharedConnections` with `DatabaseCreation` as Django's test runner
calls it: `step` and `at` say what the main thread does next and for which alias.
`Keep`, `Create`, `Cancel`, `Drop`, `Recreate` are the outcomes of
`_create_test_db()`; `Switch` is Django's change of `NAME`; `Migrate` runs in the
database that the wrapper is connected to, not in the one it should be;
`DestroyNothing` and `Destroy` are `destroy_test_db()`. Other threads connect,
query and close all the while. `Kill` ends a run anywhere, and `Rerun` starts a
new process that finds the databases left on each server, and its own options.

### SchemaEditor

An operation of a migration is a sequence of statements (`CreateModelSql`,
`AddFieldSql`, `RemoveFieldSql`, `AlterFieldSql`) with the conditions under which
`schema.py` issues each; `todo` is what is left of it, `deferred` is
`deferred_sql`. `Legal` and `After` are the server: what a statement needs of the
table, and what it makes of it. A table is its name, the columns with their
type, default and comment, its checks, index and constraint, and what its rows
hold in the column: the kept value of a program, NULL, a default, or the zero of
the type. `Insert` is a program that goes on inserting; `Refuse` an error that
has its reason in the model, `Break` one that has not; `Abandon` leaves the
session, which Django does not record and nothing undoes. `Retry` is the same
operation run again after a break, where its statements are repeatable.
`excuses` is the history of what lets a statement be refused: NULLs without a
default, a column check that is still deferred (it is text, which no removal or
renaming finds) when its field or table is moved, a related model on another
cluster. A check that went astray this way stays on the table, so that this
excuse outlives its session; the others end with theirs.

### Migrations

An operation is the creation of one table, on the cluster or on the node that
migrates. `Migrate` is Django's plan, `Ask` the query before the loop, `Skip`,
`Forwards`, `Backwards` and `Fail` the body of the loop, `Find` and `Record` the
recorder, which looks for a row and then writes. `records` holds for each node
the states of the rows it sees: a set, as nothing keeps two rows apart. With
`shared` (`distributed_migrations`) every node sees the same rows. A statement
`ON CLUSTER` is one step: it has been executed everywhere when it returns.
`Crash` may come between any two steps.

`Rounds` is the procedure of README.md:617 ("apply migrations multiple times on
all nodes"): the nodes all go in one direction before any turns back.
`shared` and `together` are settings, chosen in the initial state: one run
covers nodes that migrate at the same time and nodes that take turns.

### Recorder

`Look` is `has_table()`, which finds the table the recorder uses or not;
`AddColumn` its upgrade of an older table; `LookLocal`, `CreateHere` and
`CreateOnCluster` are `ensure_schema()`. A statement ON CLUSTER is an entry of
`ddl`, which each node executes at its own pace (`Execute`) and may refuse, as
the table is there; `Answer` waits for all of them. `GiveUp` is a process that
dies, or times out while the queue goes on; `Rerun` is migrate run again.
`mode` (neither option, `migration_cluster`, `distributed_migrations`) and
`together` are chosen in the initial state: one run covers processes that race
and processes that take turns.

### ModelSave

`rows` is the table, `mutations` what the server has still to run; `stamp`
orders rows and mutations, as a mutation changes only rows older than it. A
`save` is the phases of `pc`: `Save` decides whether its UPDATE will be counted
(`Counted`: the setting, and a statement `update_pattern` knows), `Count` is the
`select count(*)` of `Cursor.execute`, `Alter` the UPDATE itself, which is sent
whatever was counted, and `Insert` what Django does when `_do_update` answers
that there was no row, or `NotUpdated` for a save with `update_fields`. A model
with nothing but its key (`keyOnly`) calls `exists()` instead. `CountRefused` is
the count of a statement whose WHERE was cut inside a value (`Wordy` keys).
`counts`, `distributed`, `keyOnly` and `sync` are settings, chosen in the
initial state.

`saved`, `overlapped` and `raced` are history variables. The last two name the
races that a count in a statement of its own cannot exclude: two saves that
both find no row, and a DELETE between a count and its UPDATE, or one that has
not run when the count is taken. The properties hold in their absence. `create`
is taken under ids not used before, as the id worker gives them, and an INSERT
into a distributed table is taken to be synchronous (README.md:510).

### Fields

A field is its kind, arguments, options (`null`, `low`, `named`, `str`, `unpack`,
`ipv4`) and the fields inside; a type is the same. `Nest` puts the field declared
so far into an array, a tuple or a map; `Migrate` takes those that `check()` lets
pass to `DbType`, which the server accepts or refuses (`Accepted`, external).
`InspectDb` parses the text of the column: `Text` writes it as tokens, and
`Inspect` is the recursive parser, positions and all. `Save` and `Load` send a
value through `get_db_prep_save()`, the column and `from_db_value()`. A value is
its Python type, which address it is, a number that tells it apart and its
microseconds.

### QuerySets

A query holds references to its where node, its prewhere node and its dict of
settings, which lie in a heap and are changed in place, so that what `clone()`
copies and what it shares can be told. `Filter`, `Prewhere`, `WithSettings`,
`TakeSlice` and `FilterIn` (a subquery, with `resolve_expression()` and
`change_aliases()`) make queries; `Selected` is the answer to the SELECT compiled
from one (`Answer`, given those of its subqueries, which hold none themselves),
`CompileWhere` the rows an UPDATE or DELETE is for; `Insert` is
`bulk_create()` with the choice of the compiler between expressions and data.
`asked` remembers what the calls asked for and `wrote` the last write, for the
properties. `MCModels` runs `Fields` and `QuerySets`, which share no state, in
one run: a behaviour is one of either.

### Snowflake

One worker per process. `get_id` is `Reject`, `NewMillisecond`,
`SameMillisecond`, or `Exhaust` followed by `NextMillis`; `Tick`, `StepBack` and
`Restart` are its surroundings. The bits of the fields are `NodeCount` and
`SeqSize`, powers of two in the code and any positive numbers here; or-ing
fields that do not overlap is addition. `issued`, `reused` and `newest` are
history variables for the properties; `floor` remembers the last timestamp used
before a restart, for the assumption `~BehindAfterRestart`.

## Runs

| run | question | result |
|---|---|---|
| `pool` | do exclusive lending, slots, limits, quiet clients and the closed pool survive every interleaving? is a forgotten client released in the end? does the pool implement `ClientLending`? | holds |
| `pool_lock` | does a forgotten client come back when collections start between calls of the pool? | holds |
| `pool_lock_gc` | and when they start inside `pull` or `push`? | violated (finding 1) |
| `cursor_args` | do nested blocks of two cursors restore each other's options? | holds, save for clients on which a block raised |
| `test_databases` | does everyone get the `Connection` asked for, are real databases left alone, do tests start on fresh ones, whatever killed runs left? | holds |
| `schema` | is the table as declared after any two operations, with a break and programs that insert? is no value lost, no statement refused without a reason? | holds |
| `migrations` | do records and tables agree with nodes that migrate together or in turn, with their own or shared records, and a crash? is a cluster statement run once? | holds |
| `recorder` | does every process end with usable tables, the local before the distributed one, and without an error when they take turns? | holds |
| `model_save` | does `save()` neither double nor lose a row, with late mutations and another process? | holds, save for the named races |
| `model_save_distributed` | and on a distributed table? | violated (finding 2) |
| `models` | do checked fields migrate, inspect and round-trip? do query sets select and write what was asked, and never change? | holds, save for what the properties except by name |
| `snowflake` | unique ids over two workers, a set-back clock, restarts; does a caller that waits get its id? | holds |

### Bounds

- `ClientPool`: three cursors and three clients, at most two lent: every
  conflict of two users over one client, with a third to be refused; `MaxKeys`
  bounds the pulls at four, enough to lend, give back and lend an identity
  again. No symmetry is used, as the run checks liveness.
- `PoolLock`: two threads and two cursors; the self-deadlock needs one of each.
- `CursorArgs`: two blocks deep, so that a block restores an outer one's option;
  cursors and clients are symmetric.
- `TestDatabases`: the main thread and one other, as the registry's races are of
  two; two aliases on two servers, so that one alias can get the other's
  server. The number of runs is not bounded, and each may be killed anywhere.
- `SchemaEditor`: two operations, in one session or two; one break. Four
  operations and two breaks were checked on three fields, which showed that
  `AsDeclared`, `NothingRefused` and `RelatedFollows` have to except what is
  described under "Met while modelling"; for more, `SchemaEditorProofs`. Two nodes, one of them connected to; two
  names of columns and of tables, which are symmetric; 15 fields (`MCShape`)
  that differ in all that an alteration goes by.
- `Migrations`: three nodes (one acts, one answers, one comes later), a local
  and a cluster operation, one crash.
- `Recorder`: three processes, two of them on one of two nodes: races on a node
  and between nodes; one of them dies or waits too long.
- `ModelSave`: two processes, since the races are of two; two keys, one that
  cannot be counted; two values, so that a lost one shows. `MaxEvents` lets
  operations begin until three inserts or mutations have happened (create,
  delete, and a save of each process after them), and those begun end.
- `Fields`: 20 leaves (every kind, with the options and arguments that matter,
  some of them wrong) nested twice, so that a composite is inside a composite;
  four fields as keys of maps and first or second part of tuples.
- `QuerySets`: four queries, so that a query set is used again after it was
  cloned and put into another; three objects with `MAX_ROWS_INSERT_USE_EXPRESSION`
  at 2 (it is 1000 in the code), to have INSERTs below, at and above it.
- `Snowflake`: two ids per millisecond, so that a millisecond is used up with
  the second; four timestamps, a clock set back once.

Where a run says `CHECK_DEADLOCK FALSE` the bound on keys, time or operations
stops the model, or all processes have finished; the other runs check for
deadlock.

### Fairness

- `ClientPool`: the collector runs the `__del__` of a forgotten cursor in the
  end, and a thread inside `close()` goes on. No user has to close anything.
- `PoolLock`: a thread that waits for a lock that is free again and again gets
  it (strong fairness: `threading.Lock` gives no order, but the interpreter
  schedules every thread), methods end, garbage is collected in the end.
- `Snowflake`: the clock goes on and a spinning caller sees it go on. It may be
  set back a bounded number of times.
- `Recorder`: every process goes on, and is run again when it failed, as the
  deployment that migrates a node does; every node executes its queue. A process
  that dies has not to be: `GiveUp` is not fair, and bounded.
- `Migrations`, `CursorArgs`, `ModelSave`, `TestDatabases`, `SchemaEditor`,
  `Fields` and `QuerySets` state no liveness, hence no fairness.

## Proofs

TLC checks the instances above; the theorems hold for every value of the
constants that satisfies the named assumptions. Each module proves a type
invariant too, `SchemaEditorProofs` as part of `SchemaInv` and `QuerySetsProofs` as
part of `HeapInv`; the bounds of the runs (`MaxKeys`, `MaxOps` and the like) may have
any value.

- `ClientPoolProofs`. `LendingInv` strengthens exclusive lending with the
  agreement of the two maps (`MapsAgree`: `used` and `rused` are inverse, until the
  pool is closed) and with idle clients having no key (`IdleUnkeyed`): without
  them `Push` could free the slot of another cursor. `CapacityInv` adds
  finiteness and the count of lent and idle clients. `MaxRespected`, that
  `connections_max` bounds the clients in use, assumes
  `connections_min <= connections_max`. `PoolImplementsLending` maps each step
  of the pool to `Lend`, `GiveBack`, `Shut` or a stutter of `ClientLending`; the
  count of lent clients is bounded by the slots, since no two cursors have one
  key.
- Its second part, `CursorArgs` over the pool. `OptionsScoped` speaks of open cursors and of
  the options they have now; what an `Exit` restores was saved when the block was
  entered. `Nested` says that each open block has saved what the blocks around it
  leave, `ScopedAt` that this holds of whoever is lent a client, and `Reset` that
  a client that is idle, or about to be, has the default. That the blocks of one
  cursor are never undone by another is `ExclusiveLending` of the pool, cited
  from there (`LendingAlways`).
- `SnowflakeProofs`. The new id is larger than every id of its worker because
  time, worker and sequence are packed without overlap (`PackLater`), and
  differs from those of the others in the worker's field (`PackWorker`,
  `LowBits`). Uniqueness and growth (`UniqueCorrect`, `IncrementalCorrect`) assume
  `~BehindAfterRestart`.
- `MigrationsProofs`. `AppliedHasTables` is not inductive: a node skips an
  operation because of an answer it got several steps before. `Progress` says
  what holds at each point of a migrate in a round of applies; `RoundInv` adds
  that whoever is busy goes the way of the round. `UnappliedHasNone` takes
  `Retreat`, its mirror, and `RowsInv`: the rows a node sees are in one state,
  and nobody turns back without a row. `OnClusterOnce` takes `Turn`: each table is
  there exactly if the records say so, but for what the one node that operates
  has done so far. All three assume `Rounds`.
- `RecorderProofs`. `LocalFirst` is not inductive: a statement ON CLUSTER takes
  effect on a node long after it was queued. `QueueOrdered` says that the queue
  has the local table before the distributed one, unless all nodes have it
  already, and `LocalQueued` that a process which goes on to the distributed
  table has reason to. The other half is `TurnInv`: with processes in turn
  (`TurnProcess`) whoever works is alone and what it is about to create is
  nowhere, which needs that all nodes are alike but for the one statement it
  waits for (`TurnServer`).
- `TestDatabasesProofs`. A `Connection` is registered some steps after the lookup
  that missed: `LockHeld` says that the lock keeps what was looked up true until
  then, and gives `ConnectedAsAsked` and `ReplacedOnlyIfChanged`. `RealUnharmed`
  needs them, and that as long as the main thread migrates both `NAME` and what
  it has asked for belong to the test database (`Migrating`). For `FreshForTests`,
  `LeftoversOvercome` and `NothingLeft` the invariant (`CreationInv`) goes by the
  turn of the aliases: the cursors of the main thread lead to the server of the
  alias at hand (`Leading`), `Makes` are the servers on which its test database
  is made, and `Progress` says how far each database is, given the step and the
  alias. `OrderAssumption` is what Django's test runner does: every alias has its
  turn, and aliases of one server share a database and so one turn
  (`get_unique_databases_and_mirrors`); mirrors are not modelled.
- `ModelSaveProofs`. `OneRow` is not inductive: an INSERT relies on a count
  taken steps before. `MissingNone` says that a key once found missing still
  is, `OneMissing` that only one save at a time can have found it so, unless
  the key is in `overlapped`; `Answered` ties the phases to the counts and
  `RowsWritten` the rows to the history. What a mutation does to the rows is in
  two lemmas (`ChangedFrom`, `ChangedOne`). `HoldsLastSaved` is about a key for
  which nothing is under way; `Held` says for every moment that each row will
  have what was last saved once the mutations that are still to come have
  reached it, and `CountedOne` that a row that was counted is still there when
  its UPDATE is sent.
- `SchemaEditorProofs`. In the middle of a session the table is neither what the
  model was nor what it is, so the invariant (`SchemaInv`) is about the statements
  still to come: each fits the table (`Fits`); if the column is not the model's,
  one of them makes it so (`Columns`); a zero in the column is about to be
  replaced (`Filling`) and a program's value is not (`Keeping`); the related
  column has its type or is about to get it (`Related`). An operation adds the
  statements its code issues (`AddFieldSays`, `RemoveFieldSays`, `AlterFieldSays`)
  and these are `Sound`, in the code's order; `OperateKeeps` needs no more.
  `ExecuteKeeps` is the step of a statement, `AbandonKeeps` the session that
  breaks, `InsertKeeps` a program. The statements that a removal leaves deferred
  are a recursive function of a sequence; what it computes for every length
  (`UnreferencedRest`) is shown with `NatSet`, induction for a set in place of an
  operator, which follows from the cardinality of finite sets.
  `AsDeclared` and `NothingRefused` need a second invariant, `DeclaredInv`, which
  takes the first for granted. Its core is `Leading`: the statements left to
  execute, run one after the other on the table at hand, meet no refusal and end
  at the table the model says (`Leads`; `Meets`, but for an index or a check that
  is deferred). That is inductive for a statement that executes, by definition;
  what has to be shown is that each operation begins so (`BareAfter` and
  `BareLegal`, which put the rows aside; `NarrowParts` and its followers, one per
  statement; `AddFieldDeclares` and its like, one per operation), and that an
  alteration does so from wherever an earlier attempt has stopped: `Amid` says
  what the column may be then, `AlteringBetween` that every statement of the
  alteration leaves it there, `AlterRuns` that all of them end at the new field
  (`ChangedBy` is folded over the changes; `NatSet` again). Rows come back in with
  `Guards`: no statement to come makes a column NOT NULL that has NULLs, unless
  they are replaced before (`Guarded`, `AfterNeat`). `Alike` says that the other
  nodes have the same table, `Altered` and `Formed` what the statements to come
  are, `Reached` that the related column is there.
  The assumptions say that "none", which stands for no column, is no name; that
  "zero", which stands for the zero of a type no default was given for, is no
  default; that a default is not NULL, and one in the database only for a
  nullable field; and that there is a field which may be a primary key, as every
  model of Django has one.

- `QuerySetsProofs`. The invariant is that the heap is `Faithful` to what was asked:
  each query points at nodes and a dict that are there (`Placed`), and its nodes say
  what the calls that made it asked for (`Meant`): the conditions, in WHERE or in
  PREWHERE, under its own alias, and one subquery for each query set put into it,
  asked for the same (`Conforms` adds the settings and the slice). A clone is `Added`:
  it has nodes and a dict that no earlier query has, and every query that was there
  is as it was (`Extends`); what a call then changes in place is of the query added
  last, so that it stays `Added` (`PutWhere`, `PutPrewhere`, `PutSettings`,
  `PutQuery`, `AliasesChanged`). `QuerySetsImmutable` is no more than `Extends`.
  `RowsAsFiltered` follows from `Meant` alone, first for queries without a subquery
  (`PlainAnswer`), then for those that have some (`SelectedMeant`); `WritesAsAsked`
  needs in addition that the clone an UPDATE is compiled from asks its subqueries
  the same (`CompiledMeant`). The theorems are about `QueriesSpec`, the query sets by
  themselves; `MCModels` runs the same actions beside those of `Fields`, with which
  they share no variable. The assumption gives the types of conditions and objects.

Only model-checked:

- liveness (`ForgottenReleased`, `ReleasedWhenCollected`, `WaitEnds`,
  `EventuallyEnsured`), which needs fairness and `ENABLED`, out of the prover's
  reach;
- everything of `Fields`: types and values are recursive data, and the module
  declares RECURSIVE operators, which the provers do not take. `NatSet` gives
  induction over the length of a sequence, not over such data.

## Findings

1. A garbage collection inside `pull` or `push` can run `Cursor.__del__` in the
   thread that holds the pool's lock: the thread waits for itself
   (`pool_lock_gc`).
2. `save()` of an object of a distributed model inserts it a second time: its
   UPDATE is not counted, so Django takes it to have found no row
   (`model_save_distributed`).

### Met while modelling, without a run of their own

The properties except these by name, or the models leave them out.

- `connections_max` does not bound the clients in use when `connections_min` is
  larger: `pull` compares only when no client is idle (`driver/pool.py:75`), while
  docs/Configurations.md:41 calls it the maximum.
- A `set_query_execution_args` block that raises leaves `use_numpy` on in a client
  that is lent again (`skipped`).
- A process restarted behind the last timestamp it used repeats ids
  (`BehindAfterRestart`).
- In a cluster whose nodes keep their own records, reversing and re-applying a
  migration on one node while another has it applied leaves the cluster tables
  on no node, although every record says applied. `Rounds` is the procedure of
  README.md:617, under which this does not happen.
- To make a field the primary key and change nothing else issues no statement, as
  `primary_key` is among the attributes that are put aside
  (`backend/schema.py:418-445`), although the code that would alter the columns
  that refer to it says "Changed to become primary key? Update all referencing
  columns". A later alteration that keeps the type does not make up for it:
  `RelatedFollows` is about alterations that reach that code.
- The check of a column that is added waits in `deferred_sql` as text. When a later
  operation of the session renames or removes the column or the table, the
  statement executes as it was, and fails or leaves a check on a name
  (`backend/schema.py:308-317`; `AsDeclared` excepts it, `NothingRefused` too).
  Such a check is still there for the sessions that follow, where it may be in
  the way of a column or of a check of that name.
- `save()` raises when the text of the key holds ` where ` or ` settings `
  (`CountRefused`): the WHERE of the count is looked for in the statement after the
  parameters were substituted.
- The options `migration_cluster`, `distributed_migrations` and `max_block_size` are
  popped from the dictionary that the wrappers of all threads share
  (`backend/base.py:164-171`): only the first wrapper of an alias has them (`Wrap`).
- With `keepdb` on a cluster only the server of the alias is asked for the database
  (`backend/creation.py:104`); a run that finds it there, and not on the others,
  fails in its first migration.
- PREWHERE is ignored by `update()` and `delete()`, which compile the WHERE alone
  (`models/sql/compiler.py:51-60`): more rows are written than the query set has.
- Above `MAX_ROWS_INSERT_USE_EXPRESSION` the first object of an INSERT decides for
  all whether a field with a `db_default` is left out; values that others give are
  then lost (`InsertedAsGiven`).
- `inspectdb` does not read negative values of enums or the names of a tuple, and
  misreads what follows `DateTime('UTC')` in a tuple or a map: the loop over the
  time zone returns at its first character
  (`management/commands/inspectdb.py:149-152`; `Inspectable`).
- The column of a `GenericIPAddressField` is never Nullable, whatever `null` says:
  its `db_type()` does not go through `_nested_type()`, so that None cannot be
  saved (`Suits`).
- The settings of an INSERT are built from a `map`
  object (`models/sql/compiler.py:369`), which is not a tuple of values; `QuerySets` gives no
  settings to an INSERT.

## Not modelled

- Schema editor: tables of many-to-many fields, comments on tables, the wording
  of DDL.
- Migrations: `flush`, `sqlmigrate`, and the choice of a replicated engine for the
  recorder's table.
- Saving: `refresh_from_db`, multi-table inheritance.
- Fields: forms, lookups and transforms (SQL and HTML), JSON values, integers
  assigned to a `DateTime64Field`.
- Query sets and compilers: combined queries, joins, annotations other than an
  aggregate in a condition, LIMIT BY, the asynchronous methods.
- Test databases: cloning, which the package does not support.
- Introspection queries, `backend/operations.py`, `driver/escape.py`,
  `models/functions/`, `models/engines.py`, `models/indexes.py`: their content is
  the text of SQL. `backend/features.py` is flags.
- `get_id` in two threads of one process, which docs/Configurations.md:78 forbids.
