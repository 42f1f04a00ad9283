-------------------------- MODULE SharedConnections --------------------------
(***************************************************************************)
(* DatabaseWrapper and the Connections its threads share                   *)
(* (backend/base.py).                                                      *)
(*                                                                         *)
(* Django gives every thread a DatabaseWrapper of its own for each alias,  *)
(* all made from the one settings dictionary of the alias.  The class      *)
(* keeps a registry: for each alias the last Connection made and the       *)
(* parameters it was made with.  A Connection has its own pool of clients, *)
(* so the limits of the pool hold for an alias only while its threads      *)
(* share one Connection.                                                   *)
(***************************************************************************)
EXTENDS Integers, Sequences

CONSTANTS
    Thread,
    Alias,     \* the aliases in settings.DATABASES
    NoDb,      \* the alias "__no_db__" of _nodb_cursor(), shared by all
    Server,    \* the servers
    ServerOf,  \* HOST and PORT of each alias
    Database,  \* names of databases
    Default    \* the one a wrapper without NAME connects to

ASSUME ConnectionsAssumption ==
    /\ NoDb \notin Alias
    /\ ServerOf \in [Alias -> Server]
    /\ Default \in Database

VARIABLES
    name,         \* settings_dict["NAME"] of each alias
    options,      \* the aliases whose OPTIONS still hold the wrapper's options
    wrapper,      \* what each thread has for an alias: none, one that got the
                  \* options, or one that did not
    state,        \* how far the wrapper of a thread is with its connection
    asked,        \* the conn_params of its last connect()
    connection,   \* its Connection, an index into connections
    connections,  \* the parameters of all Connections made
    registry      \* _clickhouse_connections: the Connection of each alias

Key == Alias \cup {NoDb}
Params == [server : Server, database : Database]

\* What a closed wrapper has asked for.
Nowhere == CHOOSE params \in Params : TRUE

process == <<options, wrapper, state, asked, connection, connections, registry>>
connectionVars == <<name, process>>

\* A process in which no thread has used the database.
Unwrapped == [t \in Thread |-> [a \in Alias |-> "none"]]
AllClosed == [t \in Thread |-> [k \in Key |-> "closed"]]
NothingAsked == [t \in Thread |-> [k \in Key |-> Nowhere]]
NoneHeld == [t \in Thread |-> [k \in Key |-> 0]]
NoneRegistered == [k \in Key |-> 0]

NewProcess ==
    /\ options = Alias /\ wrapper = Unwrapped
    /\ state = AllClosed /\ asked = NothingAsked /\ connection = NoneHeld
    /\ connections = <<>> /\ registry = NoneRegistered

-----------------------------------------------------------------------------
\* __init__() takes its options out of the dictionary all wrappers share.
Wrap(t, a) ==
    /\ wrapper[t][a] = "none"
    /\ wrapper' = [wrapper EXCEPT ![t][a] =
                     IF a \in options THEN "configured" ELSE "plain"]
    /\ options' = options \ {a}
    /\ UNCHANGED <<name, state, asked, connection, connections, registry>>

\* get_connection_params(), before the lock.
Ask(t, k, params) ==
    /\ \A l \in Key : state[t][l] \in {"closed", "open"}
    /\ state[t][k] = "closed"
    /\ state' = [state EXCEPT ![t][k] = "asking"]
    /\ asked' = [asked EXCEPT ![t][k] = params]
    /\ UNCHANGED <<name, options, wrapper, connection, connections, registry>>

\* connect() of the wrapper of an alias.
Connect(t, a) ==
    /\ wrapper[t][a] # "none"
    /\ Ask(t, a, [server |-> ServerOf[a], database |-> name[a]])

\* _nodb_cursor(): a wrapper with the settings of the alias, but for NAME.
ConnectNoDb(t, a) ==
    /\ wrapper[t][a] # "none"
    /\ Ask(t, NoDb, [server |-> ServerOf[a], database |-> Default])

\* _connection_sharing_lock is free.
LockIgnored == TRUE
LockFree == \A t \in Thread, k \in Key : state[t][k] # "connecting"

\* The registry has a Connection made with the parameters asked for.
RegisteredByAlias(k, params) == registry[k] # 0
RegisteredByDatabase(k, params) ==
    registry[k] # 0 /\ connections[registry[k]].database = params.database
Registered(k, params) == registry[k] # 0 /\ connections[registry[k]] = params

Open(t, k, c) ==
    /\ state' = [state EXCEPT ![t][k] = "open"]
    /\ connection' = [connection EXCEPT ![t][k] = c]
    /\ UNCHANGED <<name, options, wrapper, asked>>

\* get_new_connection() returns the registered Connection.
Share(t, k) ==
    /\ state[t][k] = "asking" /\ LockFree
    /\ Registered(k, asked[t][k])
    /\ Open(t, k, registry[k])
    /\ UNCHANGED <<connections, registry>>

\* get_new_connection() finds none, and keeps the lock.
Miss(t, k) ==
    /\ state[t][k] = "asking" /\ LockFree
    /\ ~Registered(k, asked[t][k])
    /\ state' = [state EXCEPT ![t][k] = "connecting"]
    /\ UNCHANGED <<name, options, wrapper, asked, connection, connections, registry>>

\* Database.connect(); the Connection registered before is not closed.
Register(t, k) ==
    /\ state[t][k] = "connecting"
    /\ Open(t, k, Len(connections) + 1)
    /\ connections' = Append(connections, asked[t][k])
    /\ registry' = [registry EXCEPT ![k] = Len(connections) + 1]

GetNewConnection(t, k) == Share(t, k) \/ Miss(t, k) \/ Register(t, k)

\* close() of the wrapper; _close() leaves the Connection alone.
Close(t, K) ==
    /\ state' = [state EXCEPT ![t] = [k \in Key |-> IF k \in K THEN "closed" ELSE @[k]]]
    /\ connection' = [connection EXCEPT ![t] = [k \in Key |-> IF k \in K THEN 0 ELSE @[k]]]
    /\ asked' = [asked EXCEPT ![t] = [k \in Key |-> IF k \in K THEN Nowhere ELSE @[k]]]
    /\ UNCHANGED <<options, wrapper, connections, registry>>

CloseOne(t, k) == state[t][k] = "open" /\ Close(t, {k}) /\ UNCHANGED name

Use(t) ==
    \/ \E a \in Alias : Wrap(t, a) \/ Connect(t, a) \/ ConnectNoDb(t, a)
    \/ \E k \in Key : GetNewConnection(t, k) \/ CloseOne(t, k)

\* NAME is assigned to while threads run.
Rename(a, d) ==
    /\ name' = [name EXCEPT ![a] = d]
    /\ UNCHANGED process

ConnectionsInit ==
    /\ name \in [Alias -> Database]
    /\ NewProcess

ConnectionsNext ==
    \/ \E t \in Thread : Use(t)
    \/ \E a \in Alias, d \in Database : Rename(a, d)

ConnectionsSpec == ConnectionsInit /\ [][ConnectionsNext]_connectionVars

-----------------------------------------------------------------------------
\* Every variable stays in its type, and a wrapper is open on a Connection.
ConnectionsTypeOK ==
    /\ name \in [Alias -> Database]
    /\ options \subseteq Alias
    /\ wrapper \in [Thread -> [Alias -> {"none", "plain", "configured"}]]
    /\ state \in [Thread -> [Key -> {"closed", "asking", "connecting", "open"}]]
    /\ asked \in [Thread -> [Key -> Params]]
    /\ connections \in Seq(Params)
    /\ connection \in [Thread -> [Key -> 0..Len(connections)]]
    /\ registry \in [Key -> 0..Len(connections)]
    /\ \A t \in Thread, k \in Key : (connection[t][k] # 0) = (state[t][k] = "open")

(***************************************************************************)
(* The Connection a thread is given leads to the server and the database   *)
(* its wrapper asked for, whatever other threads and aliases registered    *)
(* before: _nodb_cursor() uses one alias for the servers of all aliases,   *)
(* and runs DROP DATABASE there (backend/base.py:216-222).                 *)
(***************************************************************************)
ConnectedAsAsked ==
    \A t \in Thread, k \in Key :
        state[t][k] = "open" => connections[connection[t][k]] = asked[t][k]

(***************************************************************************)
(* The threads of an alias share one Connection, and its pool: a           *)
(* registered Connection gives way only to one with other parameters,      *)
(* however the threads that connect interleave.                            *)
(***************************************************************************)
ReplacedOnlyIfChanged ==
    [][\A k \in Key :
          registry'[k] # registry[k] /\ registry[k] # 0 /\ registry'[k] # 0
             => connections'[registry'[k]] # connections'[registry[k]]]_connectionVars
=============================================================================
