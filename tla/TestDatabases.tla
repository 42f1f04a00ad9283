---------------------------- MODULE TestDatabases ----------------------------
(***************************************************************************)
(* A test run over several aliases: DatabaseCreation                       *)
(* (backend/creation.py) as Django's test runner calls it, on the shared   *)
(* Connections of SharedConnections.                                       *)
(*                                                                         *)
(* For each alias the main thread creates the test database, points the    *)
(* settings at it and migrates; then the tests run; then it drops the test *)
(* databases and restores the settings.  Other threads of the process      *)
(* connect all the while.  A run may be killed anywhere, and the next one  *)
(* finds what it left.                                                     *)
(***************************************************************************)
EXTENDS SharedConnections

CONSTANTS
    Main,      \* the thread of the test runner
    Order,     \* the aliases in the order of their test databases
    Real,      \* NAME of every alias
    Test,      \* its test database
    Used       \* bound: the aliases other threads use

ASSUME RunsAssumption ==
    /\ Main \in Thread
    /\ Order \in Seq(Alias) /\ Len(Order) > 0
    /\ Used \subseteq Alias
    /\ {Real, Test} \subseteq Database /\ Real # Test

\* Django makes one test database for the aliases of a server: here each alias
\* is the only one of its server, and has its turn.
ASSUME OrderAssumption ==
    /\ \A a \in Alias : \E i \in 1..Len(Order) : Order[i] = a
    /\ \A i, j \in 1..Len(Order) : ServerOf[Order[i]] = ServerOf[Order[j]] => i = j

VARIABLES
    cluster,      \* TEST has a cluster: of the servers of all aliases
    managed,      \* the aliases whose TEST does not say "managed": False
    keepdb,       \* options of the run
    autoclobber,
    step,         \* what the main thread does next
    at,           \* with which alias
    databases,    \* the test database of each server
    harmed        \* the servers on whose real database test code has run

settings == <<cluster, managed>>
creation == <<settings, keepdb, autoclobber, step, at, databases, harmed>>
vars == <<connectionVars, creation>>

alias == Order[at]

\* The server a cursor of the main thread sends its statements to.
Reached(k) == connections[connection[Main][k]].server

\* _get_on_cluster(): the servers a CREATE or DROP DATABASE changes.
OnClusterNever(s) == {s}
OnCluster(s) == IF cluster THEN Server ELSE {s}

\* "Only one connection should set managed" on a cluster (README.md:522).
Init ==
    /\ name = [a \in Alias |-> Real]
    /\ NewProcess
    /\ \/ cluster = TRUE /\ managed = {Order[1]}
       \/ cluster = FALSE /\ managed = Alias
    /\ databases \in [Server -> {"none", "old"}]
    /\ keepdb \in BOOLEAN /\ autoclobber \in BOOLEAN
    /\ step = "create" /\ at = 1
    /\ harmed = {}

Go(next) ==
    /\ step' = next
    /\ UNCHANGED <<settings, keepdb, autoclobber, at, harmed>>

-----------------------------------------------------------------------------
(* create_test_db.                                                         *)

\* The statements run inside "with self._nodb_cursor()".
NoDbOpen == state[Main][NoDb] = "open"

Unmanaged(a) == a \notin managed

LeaveToOthers ==
    /\ step = "create" /\ Unmanaged(alias)
    /\ Go("switch")
    /\ UNCHANGED <<connectionVars, databases>>

\* CREATE DATABASE on each server that has none; an error if one had it.
Created(targets) ==
    [s \in Server |-> IF s \in targets /\ databases[s] = "none" THEN "empty"
                                                               ELSE databases[s]]
AnyHas(targets) == \E s \in targets : databases[s] # "none"
AllHave(targets) == \A s \in targets : databases[s] # "none"

\* _execute_create_test_db() finds the database where it is connected.
Keep ==
    /\ step = "create" /\ ~Unmanaged(alias) /\ NoDbOpen
    /\ keepdb /\ databases[Reached(NoDb)] # "none"
    /\ Go("switch")
    /\ UNCHANGED <<connectionVars, databases>>

\* With keepdb, "already exists" is no error.
ForgivenAlways == TRUE
Forgiven == keepdb

Create ==
    /\ step = "create" /\ ~Unmanaged(alias) /\ NoDbOpen
    /\ ~(keepdb /\ databases[Reached(NoDb)] # "none")
    /\ LET targets == OnCluster(Reached(NoDb)) IN
         /\ databases' = Created(targets)
         /\ Go(IF AnyHas(targets) /\ ~Forgiven THEN "exists" ELSE "switch")
    /\ UNCHANGED connectionVars

\* Neither autoclobber nor a "yes": exit 1.
Cancel ==
    /\ step = "exists" /\ ~autoclobber
    /\ Go("cancelled")
    /\ UNCHANGED <<connectionVars, databases>>

\* DROP DATABASE [ON CLUSTER ... SYNC], with autoclobber or a "yes".
DroppedHere(s) == {s}
Dropped(s) == OnCluster(s)
Drop ==
    /\ step = "exists"
    /\ LET targets == Dropped(Reached(NoDb)) IN
         /\ databases' = [s \in Server |-> IF s \in targets THEN "none" ELSE databases[s]]
         /\ Go(IF AllHave(targets) THEN "recreate" ELSE "failed")
    /\ UNCHANGED connectionVars

Recreate ==
    /\ step = "recreate"
    /\ LET targets == OnCluster(Reached(NoDb)) IN
         /\ databases' = Created(targets)
         /\ Go(IF AnyHas(targets) THEN "failed" ELSE "switch")
    /\ UNCHANGED connectionVars

\* Django closes the connections and points NAME at the test database.
Switch ==
    /\ step = "switch"
    /\ Close(Main, Key)
    /\ name' = [name EXCEPT ![alias] = Test]
    /\ Go("migrate")
    /\ UNCHANGED databases

\* Django migrates in the database the wrapper is connected to.
Migrate ==
    /\ step = "migrate" /\ state[Main][alias] = "open"
    /\ LET there == connections[connection[Main][alias]]
           targets == OnCluster(there.server)
       IN  IF there.database = Real
           THEN /\ harmed' = harmed \cup targets
                /\ UNCHANGED databases
           ELSE /\ databases' = [s \in Server |->
                     IF s \in targets /\ databases[s] = "empty" THEN "migrated"
                                                                ELSE databases[s]]
                /\ UNCHANGED harmed
    /\ step' = IF ~AllHave(OnCluster(Reached(alias))) THEN "failed"
               ELSE IF at = Len(Order) THEN "test" ELSE "create"
    /\ at' = IF at = Len(Order) THEN 1 ELSE at + 1
    /\ UNCHANGED <<connectionVars, settings, keepdb, autoclobber>>

-----------------------------------------------------------------------------
(* The tests, and destroy_test_db.                                         *)

\* A test, or a thread of it, runs a statement.
Query(t, a) ==
    /\ step = "test" /\ state[t][a] = "open"
    /\ asked[t][a].database = Test
    /\ LET there == connections[connection[t][a]] IN
         harmed' = IF there.database = Real THEN harmed \cup {there.server} ELSE harmed
    /\ UNCHANGED <<connectionVars, settings, keepdb, autoclobber, step, at, databases>>

TearDown ==
    /\ step = "test"
    /\ Go("destroy")
    /\ UNCHANGED <<connectionVars, databases>>

\* The next alias, with NAME restored.
Restored(last, next) ==
    /\ step' = IF at = Len(Order) THEN last ELSE next
    /\ at' = IF at = Len(Order) THEN 1 ELSE at + 1
    /\ name' = [name EXCEPT ![alias] = Real]
    /\ Close(Main, Key)
    /\ UNCHANGED <<settings, keepdb, autoclobber, harmed>>

DestroyNothing ==
    /\ step = "destroy" /\ (keepdb \/ Unmanaged(alias))
    /\ Restored("finished", "destroy")
    /\ UNCHANGED databases

DestroyedHere(s) == {s}
Destroyed(s) == OnCluster(s)
Destroy ==
    /\ step = "destroy" /\ ~keepdb /\ ~Unmanaged(alias) /\ NoDbOpen
    /\ LET targets == Destroyed(Reached(NoDb)) IN
         /\ databases' = [s \in Server |-> IF s \in targets THEN "none" ELSE databases[s]]
         /\ IF AllHave(targets) THEN Restored("finished", "destroy")
            ELSE Go("failed") /\ UNCHANGED connectionVars

\* Any other error, or a signal.
Ended == step \in {"finished", "failed", "cancelled", "killed"}
Dies ==
    /\ name' = [a \in Alias |-> Real]
    /\ options' = Alias /\ wrapper' = Unwrapped
    /\ state' = AllClosed /\ asked' = NothingAsked /\ connection' = NoneHeld
    /\ connections' = <<>> /\ registry' = NoneRegistered
Kill ==
    /\ ~Ended
    /\ Dies
    /\ Go("killed")
    /\ UNCHANGED databases

\* Another run, in a new process, finds what was left.
Rerun ==
    /\ Ended
    /\ Dies
    /\ databases' = [s \in Server |-> IF databases[s] = "none" THEN "none" ELSE "old"]
    /\ keepdb' \in BOOLEAN /\ autoclobber' \in BOOLEAN
    /\ step' = "create" /\ at' = 1
    /\ UNCHANGED <<settings, harmed>>

-----------------------------------------------------------------------------
\* What the main thread does with its wrappers, and others with theirs.
MainConnects ==
    \/ Wrap(Main, alias)
    \/ /\ step \in {"create", "destroy"} /\ ~Unmanaged(alias)
       /\ ConnectNoDb(Main, alias)
    \/ step = "migrate" /\ Connect(Main, alias)
    \/ \E k \in Key : GetNewConnection(Main, k)

OtherUses(t) ==
    \E a \in Used : \/ Wrap(t, a) \/ Connect(t, a)
                    \/ GetNewConnection(t, a) \/ CloseOne(t, a)

ThreadsUse ==
    /\ ~Ended
    /\ MainConnects \/ \E t \in Thread \ {Main} : OtherUses(t)
    /\ UNCHANGED creation

Create_test_db ==
    \/ LeaveToOthers \/ Keep \/ Create \/ Cancel \/ Drop \/ Recreate \/ Switch \/ Migrate
Destroy_test_db == DestroyNothing \/ Destroy

Next ==
    \/ ThreadsUse
    \/ Create_test_db
    \/ \E t \in Thread \ {Main}, a \in Used : Query(t, a)
    \/ TearDown \/ Destroy_test_db
    \/ Kill \/ Rerun

Spec == Init /\ [][Next]_vars

-----------------------------------------------------------------------------
\* Every variable stays in its type.
TypeOK ==
    /\ ConnectionsTypeOK
    /\ cluster \in BOOLEAN /\ managed \subseteq Alias
    /\ keepdb \in BOOLEAN /\ autoclobber \in BOOLEAN
    /\ step \in {"create", "exists", "recreate", "switch", "migrate", "test",
                 "destroy", "finished", "failed", "cancelled", "killed"}
    /\ at \in 1..Len(Order)
    /\ databases \in [Server -> {"none", "old", "empty", "migrated"}]
    /\ harmed \subseteq Server

(***************************************************************************)
(* No migration of a test run, and no test in a thread that connected to   *)
(* the test database, runs in a real database: a Connection registered     *)
(* before NAME changed is not handed out after it (backend/base.py:218).   *)
(***************************************************************************)
RealUnharmed == harmed = {}

(***************************************************************************)
(* The tests start on databases made by this run and migrated, on the      *)
(* server of every alias, whatever earlier runs left on which server;      *)
(* keepdb alone may keep them (backend/creation.py:64-98).                 *)
(***************************************************************************)
FreshForTests ==
    step = "test" /\ ~keepdb => \A a \in Alias : databases[ServerOf[a]] = "migrated"

(***************************************************************************)
(* What a killed run left, even on some servers of the cluster only, never *)
(* makes a statement of the next run fail: it asks, or deletes with        *)
(* autoclobber, and starts over.  With keepdb only the server of the       *)
(* alias is looked at (backend/creation.py:104), and this does not hold.   *)
(***************************************************************************)
LeftoversOvercome == ~keepdb => step # "failed"

(***************************************************************************)
(* A run that ends without keepdb leaves no test database on any server of *)
(* an alias, and every alias with its own NAME.                            *)
(***************************************************************************)
NothingLeft ==
    step = "finished" /\ ~keepdb =>
       /\ \A a \in Alias : databases[ServerOf[a]] = "none"
       /\ name = [a \in Alias |-> Real]
=============================================================================
