------------------------- MODULE TestDatabasesProofs -------------------------
(***************************************************************************)
(* That the Connections of SharedConnections lead where they were asked    *)
(* to, are replaced only for other parameters, and that a test run leaves  *)
(* the real databases alone: for any threads, aliases, servers, names and  *)
(* runs, killed anywhere.                                                  *)
(*                                                                         *)
(* A Connection is registered some steps after the lookup that missed:     *)
(* LockHeld says that the lock keeps what was looked up true until then.   *)
(* RealUnharmed needs that NAME and the parameters the main thread asked   *)
(* for belong to the test database as long as it migrates (Migrating).     *)
(*                                                                         *)
(* The databases of the tests go by the turn of the aliases: the cursors   *)
(* of the main thread lead to the server of the alias at hand (Leading),   *)
(* so each step creates, migrates or drops what that alias makes (Makes),  *)
(* and how far each is follows from step and at (Progress).                *)
(***************************************************************************)
EXTENDS TestDatabases, TLAPS

LockHeld ==
    \A t \in Thread, k \in Key : state[t][k] = "connecting" =>
       /\ ~Registered(k, asked[t][k])
       /\ \A u \in Thread, l \in Key : state[u][l] = "connecting" => u = t /\ l = k

RegistryInv == ConnectionsTypeOK /\ ConnectedAsAsked /\ LockHeld

Migrating ==
    step = "migrate" =>
       /\ name[alias] = Test
       /\ state[Main][alias] # "closed" => asked[Main][alias].database = Test

RunInv == TypeOK /\ RegistryInv /\ Migrating /\ RealUnharmed

-----------------------------------------------------------------------------
LEMMA KeysAndParams ==
    /\ Alias \subseteq Key /\ NoDb \in Key
    /\ \A p \in Params : p.server \in Server /\ p.database \in Database
    /\ Nowhere \in Params
<1>1. ServerOf \in [Alias -> Server] /\ Default \in Database
  BY ConnectionsAssumption
<1>2. Order[1] \in Alias /\ 1 \in 1..Len(Order)
  BY RunsAssumption
<1>3. [server |-> ServerOf[Order[1]], database |-> Default] \in Params
  BY <1>1, <1>2 DEF Params
<1>4. Nowhere \in Params
  BY <1>3 DEF Nowhere
<1> QED
  BY <1>4 DEF Key, Params

LEMMA AliasType == TypeOK => alias \in Alias
<1> SUFFICES ASSUME TypeOK PROVE alias \in Alias
  OBVIOUS
<1>1. Order \in Seq(Alias) /\ at \in 1..Len(Order)
  BY RunsAssumption DEF TypeOK
<1> QED
  BY <1>1 DEF alias

-----------------------------------------------------------------------------
(* The shared Connections.                                                 *)

LEMMA NewProcessInv ==
    ASSUME name \in [Alias -> Database], NewProcess PROVE RegistryInv
<1>1. ConnectionsTypeOK
  BY KeysAndParams DEF NewProcess, ConnectionsTypeOK, Unwrapped, AllClosed, NothingAsked,
     NoneHeld, NoneRegistered
<1> QED
  BY <1>1 DEF NewProcess, RegistryInv, ConnectedAsAsked, LockHeld, AllClosed

\* A wrapper is made: no Connection is touched.
LEMMA WrapStep ==
    ASSUME RegistryInv, NEW t \in Thread, NEW a \in Alias, Wrap(t, a)
    PROVE  RegistryInv'
<1>1. UNCHANGED <<name, state, asked, connection, connections, registry>>
  BY DEF Wrap
<1>2. ConnectionsTypeOK'
  BY DEF Wrap, RegistryInv, ConnectionsTypeOK
<1> QED
  BY <1>1, <1>2 DEF RegistryInv, ConnectedAsAsked, LockHeld, Registered

\* connect() asks for its parameters.
LEMMA AskStep ==
    ASSUME RegistryInv, NEW t \in Thread, NEW k \in Key, NEW params \in Params, Ask(t, k, params)
    PROVE  RegistryInv'
<1>1. /\ state' = [state EXCEPT ![t][k] = "asking"]
      /\ asked' = [asked EXCEPT ![t][k] = params]
      /\ UNCHANGED <<name, options, wrapper, connection, connections, registry>>
      /\ state[t][k] = "closed"
  BY DEF Ask
<1>2. ConnectionsTypeOK'
  BY <1>1 DEF RegistryInv, ConnectionsTypeOK
<1>3. \A u \in Thread, l \in Key :
         /\ state'[u][l] \in {"connecting", "open"} => asked'[u][l] = asked[u][l]
         /\ state'[u][l] \in {"connecting", "open"} => state'[u][l] = state[u][l]
  BY <1>1 DEF RegistryInv, ConnectionsTypeOK
<1> QED
  BY <1>1, <1>2, <1>3 DEF RegistryInv, ConnectedAsAsked, LockHeld, Registered

\* get_new_connection() returns what is registered.
LEMMA ShareStep ==
    ASSUME RegistryInv, NEW t \in Thread, NEW k \in Key, Share(t, k)
    PROVE  RegistryInv'
<1>1. /\ state' = [state EXCEPT ![t][k] = "open"]
      /\ connection' = [connection EXCEPT ![t][k] = registry[k]]
      /\ UNCHANGED <<name, options, wrapper, asked, connections, registry>>
      /\ registry[k] # 0 /\ connections[registry[k]] = asked[t][k]
  BY DEF Share, Open, Registered
<1>2. ConnectionsTypeOK'
  BY <1>1 DEF RegistryInv, ConnectionsTypeOK
<1>3. ConnectedAsAsked'
  BY <1>1 DEF RegistryInv, ConnectionsTypeOK, ConnectedAsAsked
<1>4. LockHeld'
  BY <1>1 DEF RegistryInv, ConnectionsTypeOK, LockHeld, Registered
<1> QED
  BY <1>2, <1>3, <1>4 DEF RegistryInv

\* get_new_connection() keeps the lock.
LEMMA MissStep ==
    ASSUME RegistryInv, NEW t \in Thread, NEW k \in Key, Miss(t, k)
    PROVE  RegistryInv'
<1>1. /\ state' = [state EXCEPT ![t][k] = "connecting"]
      /\ UNCHANGED <<name, options, wrapper, asked, connection, connections, registry>>
      /\ ~Registered(k, asked[t][k]) /\ LockFree /\ state[t][k] = "asking"
  BY DEF Miss
<1>2. ConnectionsTypeOK'
  BY <1>1 DEF RegistryInv, ConnectionsTypeOK
<1>3. ConnectedAsAsked'
  BY <1>1 DEF RegistryInv, ConnectionsTypeOK, ConnectedAsAsked
<1>4. LockHeld'
  BY <1>1 DEF RegistryInv, ConnectionsTypeOK, LockHeld, LockFree, Registered
<1> QED
  BY <1>2, <1>3, <1>4 DEF RegistryInv

\* Database.connect().
LEMMA RegisterStep ==
    ASSUME RegistryInv, NEW t \in Thread, NEW k \in Key, Register(t, k)
    PROVE  RegistryInv'
<1> DEFINE new == Len(connections) + 1
<1>1. /\ state' = [state EXCEPT ![t][k] = "open"]
      /\ connection' = [connection EXCEPT ![t][k] = new]
      /\ connections' = Append(connections, asked[t][k])
      /\ registry' = [registry EXCEPT ![k] = new]
      /\ UNCHANGED <<name, options, wrapper, asked>>
      /\ state[t][k] = "connecting"
  BY DEF Register, Open
<1>2. connections \in Seq(Params) /\ asked[t][k] \in Params
  BY DEF RegistryInv, ConnectionsTypeOK
<1>3. /\ Len(connections) \in Nat /\ Len(connections') = new /\ connections' \in Seq(Params)
      /\ connections'[new] = asked[t][k]
      /\ \A c \in 1..Len(connections) : connections'[c] = connections[c]
  BY <1>1, <1>2
<1>4. ConnectionsTypeOK'
  <2>1. 0..Len(connections) \subseteq 0..Len(connections') /\ new \in 0..Len(connections') /\ new # 0
    BY <1>3
  <2>2. connection' \in [Thread -> [Key -> 0..Len(connections')]]
    <3>1. connection \in [Thread -> [Key -> 0..Len(connections)]]
      BY DEF RegistryInv, ConnectionsTypeOK
    <3> QED
      BY <1>1, <2>1, <3>1
  <2>3. registry' \in [Key -> 0..Len(connections')]
    <3>1. registry \in [Key -> 0..Len(connections)]
      BY DEF RegistryInv, ConnectionsTypeOK
    <3> QED
      BY <1>1, <2>1, <3>1
  <2>4. state' \in [Thread -> [Key -> {"closed", "asking", "connecting", "open"}]]
    BY <1>1 DEF RegistryInv, ConnectionsTypeOK
  <2>5. \A u \in Thread, l \in Key : (connection'[u][l] # 0) = (state'[u][l] = "open")
    BY <1>1, <2>1 DEF RegistryInv, ConnectionsTypeOK
  <2> QED
    BY <1>1, <1>3, <2>2, <2>3, <2>4, <2>5 DEF RegistryInv, ConnectionsTypeOK
<1>5. ConnectedAsAsked'
  <2>1. ASSUME NEW u \in Thread, NEW l \in Key, state'[u][l] = "open"
        PROVE  connections'[connection'[u][l]] = asked'[u][l]
    <3>1. CASE u = t /\ l = k
      BY <1>1, <1>3, <3>1 DEF RegistryInv, ConnectionsTypeOK
    <3>2. CASE ~(u = t /\ l = k)
      <4>1. state[u][l] = "open" /\ connection'[u][l] = connection[u][l]
        BY <1>1, <2>1, <3>2 DEF RegistryInv, ConnectionsTypeOK
      <4>2. connection[u][l] \in 0..Len(connections) /\ connection[u][l] # 0
        BY <4>1 DEF RegistryInv, ConnectionsTypeOK
      <4>3. connection[u][l] \in 1..Len(connections)
        BY <1>3, <4>2
      <4> QED
        BY <1>1, <1>3, <4>1, <4>3 DEF RegistryInv, ConnectedAsAsked
    <3> QED
      BY <3>1, <3>2
  <2> QED
    BY <2>1 DEF ConnectedAsAsked
<1>6. LockHeld'
  <2>1. \A u \in Thread, l \in Key : state'[u][l] # "connecting"
    BY <1>1 DEF RegistryInv, LockHeld, ConnectionsTypeOK
  <2> QED
    BY <2>1 DEF LockHeld
<1> QED
  BY <1>4, <1>5, <1>6 DEF RegistryInv

\* close() of some wrappers of a thread.
LEMMA CloseStep ==
    ASSUME RegistryInv, NEW t \in Thread, NEW K \in SUBSET Key, Close(t, K),
           name' \in [Alias -> Database]
    PROVE  RegistryInv'
<1>1. /\ state' = [state EXCEPT ![t] = [k \in Key |-> IF k \in K THEN "closed" ELSE state[t][k]]]
      /\ connection' = [connection EXCEPT ![t] = [k \in Key |-> IF k \in K THEN 0 ELSE connection[t][k]]]
      /\ asked' = [asked EXCEPT ![t] = [k \in Key |-> IF k \in K THEN Nowhere ELSE asked[t][k]]]
      /\ UNCHANGED <<options, wrapper, connections, registry>>
  BY DEF Close, RegistryInv, ConnectionsTypeOK
<1>2. \A u \in Thread, l \in Key :
         IF u = t /\ l \in K
         THEN state'[u][l] = "closed" /\ connection'[u][l] = 0
         ELSE state'[u][l] = state[u][l] /\ connection'[u][l] = connection[u][l]
              /\ asked'[u][l] = asked[u][l]
  BY <1>1 DEF RegistryInv, ConnectionsTypeOK
<1>3. ConnectionsTypeOK'
  <2>1. connections \in Seq(Params) /\ Len(connections) \in Nat
    BY DEF RegistryInv, ConnectionsTypeOK
  <2>2. connection' \in [Thread -> [Key -> 0..Len(connections)]]
    BY <1>1, <2>1 DEF RegistryInv, ConnectionsTypeOK
  <2>3. asked' \in [Thread -> [Key -> Params]]
    BY <1>1, KeysAndParams DEF RegistryInv, ConnectionsTypeOK
  <2>4. state' \in [Thread -> [Key -> {"closed", "asking", "connecting", "open"}]]
    BY <1>1 DEF RegistryInv, ConnectionsTypeOK
  <2>5. \A u \in Thread, l \in Key : (connection'[u][l] # 0) = (state'[u][l] = "open")
    BY <1>2 DEF RegistryInv, ConnectionsTypeOK
  <2> QED
    BY <1>1, <2>2, <2>3, <2>4, <2>5 DEF RegistryInv, ConnectionsTypeOK
<1>4. ConnectedAsAsked'
  BY <1>1, <1>2 DEF RegistryInv, ConnectedAsAsked
<1>5. LockHeld'
  BY <1>1, <1>2 DEF RegistryInv, LockHeld, Registered
<1> QED
  BY <1>3, <1>4, <1>5 DEF RegistryInv

LEMMA RegistryUnchanged == RegistryInv /\ UNCHANGED connectionVars => RegistryInv'
BY DEF RegistryInv, connectionVars, process, ConnectionsTypeOK, ConnectedAsAsked, LockHeld, Registered

\* Every step of a thread that uses its wrappers is one of these.
Uses ==
    \E t \in Thread :
       \/ \E a \in Alias : Wrap(t, a)
       \/ \E k \in Key, params \in Params : Ask(t, k, params)
       \/ \E k \in Key : \/ Share(t, k) \/ Miss(t, k) \/ Register(t, k)
                         \/ Close(t, {k}) /\ UNCHANGED name

LEMMA UsesStep == RegistryInv /\ Uses => RegistryInv'
<1> SUFFICES ASSUME RegistryInv, NEW t \in Thread,
                    \/ \E a \in Alias : Wrap(t, a)
                    \/ \E k \in Key, params \in Params : Ask(t, k, params)
                    \/ \E k \in Key : \/ Share(t, k) \/ Miss(t, k) \/ Register(t, k)
                                      \/ Close(t, {k}) /\ UNCHANGED name
             PROVE  RegistryInv'
  BY DEF Uses
<1>1. ASSUME NEW k \in Key, Close(t, {k}), UNCHANGED name PROVE RegistryInv'
  BY <1>1, CloseStep DEF RegistryInv, ConnectionsTypeOK
<1> QED
  BY <1>1, WrapStep, AskStep, ShareStep, MissStep, RegisterStep

LEMMA ConnectAsks ==
    ASSUME RegistryInv, NEW t \in Thread, NEW a \in Alias
    PROVE  /\ Connect(t, a) => \E params \in Params : params.database = name[a] /\ Ask(t, a, params)
           /\ ConnectNoDb(t, a) => \E params \in Params : Ask(t, NoDb, params)
<1>1. name[a] \in Database /\ ServerOf[a] \in Server /\ Default \in Database
  BY ConnectionsAssumption DEF RegistryInv, ConnectionsTypeOK
<1>2. /\ [server |-> ServerOf[a], database |-> name[a]] \in Params
      /\ [server |-> ServerOf[a], database |-> Default] \in Params
  BY <1>1 DEF Params
<1> QED
  BY <1>2 DEF Connect, ConnectNoDb

LEMMA ThreadsUseUses == TypeOK /\ RegistryInv /\ ThreadsUse => Uses
<1> SUFFICES ASSUME TypeOK, RegistryInv, ThreadsUse PROVE Uses
  OBVIOUS
<1>1. alias \in Alias /\ Alias \subseteq Key /\ NoDb \in Key /\ Main \in Thread /\ Used \subseteq Alias
  BY AliasType, KeysAndParams, RunsAssumption
<1>2. CASE MainConnects
  <2>1. CASE Wrap(Main, alias)
    BY <1>1, <2>1 DEF Uses
  <2>2. CASE ConnectNoDb(Main, alias) \/ Connect(Main, alias)
    <3>1. \E k \in Key, params \in Params : Ask(Main, k, params)
      BY <1>1, <2>2, ConnectAsks
    <3> QED
      BY <1>1, <3>1 DEF Uses
  <2>3. CASE \E k \in Key : GetNewConnection(Main, k)
    BY <1>1, <2>3 DEF Uses, GetNewConnection
  <2> QED
    BY <1>2, <2>1, <2>2, <2>3 DEF MainConnects
<1>3. CASE \E t \in Thread \ {Main} : OtherUses(t)
  <2>1. PICK t \in Thread, a \in Alias :
           Wrap(t, a) \/ Connect(t, a) \/ GetNewConnection(t, a) \/ CloseOne(t, a)
    BY <1>1, <1>3 DEF OtherUses
  <2>2. CASE Wrap(t, a)
    BY <2>2 DEF Uses
  <2>3. CASE Connect(t, a)
    <3>1. \E k \in Key, params \in Params : Ask(t, k, params)
      BY <1>1, <2>3, ConnectAsks
    <3> QED
      BY <3>1 DEF Uses
  <2>4. CASE GetNewConnection(t, a) \/ CloseOne(t, a)
    BY <1>1, <2>4 DEF Uses, GetNewConnection, CloseOne
  <2> QED
    BY <2>1, <2>2, <2>3, <2>4
<1> QED
  BY <1>2, <1>3 DEF ThreadsUse

-----------------------------------------------------------------------------
(* The test runs.                                                          *)

LEMMA DiesInv == TypeOK /\ Dies => RegistryInv'
<1> SUFFICES ASSUME TypeOK, Dies PROVE RegistryInv'
  OBVIOUS
<1>1. name' = [a \in Alias |-> Real] /\ Real \in Database
  BY RunsAssumption DEF Dies
<1>2. ConnectionsTypeOK'
  BY <1>1, KeysAndParams DEF Dies, ConnectionsTypeOK, Unwrapped, AllClosed, NothingAsked,
     NoneHeld, NoneRegistered
<1>3. \A t \in Thread, k \in Key : state'[t][k] = "closed"
  BY DEF Dies, AllClosed
<1> QED
  BY <1>2, <1>3 DEF RegistryInv, ConnectedAsAsked, LockHeld

\* Only Switch, Restored and Dies change what the main thread is connected to.
LEMMA RegistryStep == TypeOK /\ RegistryInv /\ [Next]_vars => RegistryInv'
<1> SUFFICES ASSUME TypeOK, RegistryInv, [Next]_vars PROVE RegistryInv'
  OBVIOUS
<1>1. CASE ThreadsUse
  BY <1>1, ThreadsUseUses, UsesStep
<1>2. ASSUME Close(Main, Key), NEW d \in {Real, Test}, name' = [name EXCEPT ![alias] = d]
      PROVE  RegistryInv'
  <2>1. name' \in [Alias -> Database]
    BY <1>2, AliasType, RunsAssumption DEF TypeOK, ConnectionsTypeOK
  <2>2. Main \in Thread /\ Key \in SUBSET Key
    BY RunsAssumption
  <2> QED
    BY <1>2, <2>1, <2>2, CloseStep
<1>3. CASE Switch
  BY <1>2, <1>3 DEF Switch
<1>4. CASE DestroyNothing \/ Destroy
  <2>1. CASE UNCHANGED connectionVars
    BY <2>1, RegistryUnchanged
  <2>2. CASE \E next \in {"destroy"} : Restored("finished", next)
    BY <1>2, <2>2 DEF Restored
  <2> QED
    BY <1>4, <2>1, <2>2 DEF DestroyNothing, Destroy
<1>5. CASE Kill \/ Rerun
  BY <1>5, DiesInv DEF Kill, Rerun
<1>6. CASE LeaveToOthers \/ Keep \/ Create \/ Cancel \/ Drop \/ Recreate \/ Migrate
  <2>1. UNCHANGED connectionVars
    BY <1>6 DEF LeaveToOthers, Keep, Create, Cancel, Drop, Recreate, Migrate
  <2> QED
    BY <2>1, RegistryUnchanged
<1>7. CASE TearDown \/ (\E t \in Thread \ {Main}, a \in Used : Query(t, a)) \/ UNCHANGED vars
  <2>1. UNCHANGED connectionVars
    BY <1>7 DEF TearDown, Query, vars
  <2> QED
    BY <2>1, RegistryUnchanged
<1> QED
  BY <1>1, <1>3, <1>4, <1>5, <1>6, <1>7 DEF Next, Create_test_db, Destroy_test_db

\* What a thread is connected to is a server and a database of the settings.
LEMMA OpenParams ==
    ASSUME RegistryInv, NEW t \in Thread, NEW k \in Key, state[t][k] = "open"
    PROVE  /\ connections[connection[t][k]] \in Params
           /\ connections[connection[t][k]] = asked[t][k]
BY DEF RegistryInv, ConnectedAsAsked, ConnectionsTypeOK

\* Which steps the phases of a test run take.
LEMMA TypeStep == TypeOK /\ RegistryInv /\ [Next]_vars => TypeOK'
<1> SUFFICES ASSUME TypeOK, RegistryInv, [Next]_vars PROVE TypeOK'
  OBVIOUS
<1> USE DEF Go, settings
<1>1. ConnectionsTypeOK'
  BY RegistryStep DEF RegistryInv
<1>2. /\ alias \in Alias /\ Main \in Thread /\ Alias \subseteq Key /\ NoDb \in Key /\ Used \subseteq Alias
      /\ Len(Order) \in Nat /\ 1 \in 1..Len(Order)
  BY AliasType, RunsAssumption, KeysAndParams
<1>3. at + 1 \in 1..Len(Order) \/ at = Len(Order)
  BY <1>2 DEF TypeOK
<1>4. CASE ThreadsUse \/ TearDown \/ UNCHANGED vars
  BY <1>1, <1>4 DEF ThreadsUse, TearDown, creation, vars, TypeOK
<1>5. CASE LeaveToOthers \/ Keep \/ Cancel \/ Switch
  BY <1>1, <1>5 DEF LeaveToOthers, Keep, Cancel, Switch, TypeOK
<1>6. CASE Create \/ Drop \/ Recreate
  <2>1. databases' \in [Server -> {"none", "old", "empty", "migrated"}]
    BY <1>6 DEF Create, Drop, Recreate, Created, TypeOK
  <2> QED
    BY <1>1, <1>6, <2>1 DEF Create, Drop, Recreate, TypeOK
<1>7. CASE Migrate
  <2> DEFINE there == connections[connection[Main][alias]]
  <2>1. there.server \in Server /\ OnCluster(there.server) \subseteq Server
    BY <1>2, <1>7, OpenParams, KeysAndParams DEF Migrate, OnCluster
  <2>2. databases' \in [Server -> {"none", "old", "empty", "migrated"}] /\ harmed' \subseteq Server
    BY <1>7, <2>1 DEF Migrate, TypeOK
  <2>3. at' \in 1..Len(Order)
    BY <1>2, <1>3, <1>7 DEF Migrate
  <2> QED
    BY <1>1, <1>7, <2>2, <2>3 DEF Migrate, TypeOK
<1>8. CASE \E t \in Thread \ {Main}, a \in Used : Query(t, a)
  <2>1. PICK t \in Thread, a \in Key : Query(t, a)
    BY <1>2, <1>8
  <2>2. harmed' \subseteq Server
    BY <2>1, OpenParams, KeysAndParams DEF Query, TypeOK
  <2> QED
    BY <1>1, <2>1, <2>2 DEF Query, TypeOK
<1>9. CASE DestroyNothing \/ Destroy
  <2>1. databases' \in [Server -> {"none", "old", "empty", "migrated"}]
    BY <1>9 DEF DestroyNothing, Destroy, TypeOK
  <2>2. CASE Restored("finished", "destroy")
    BY <1>1, <1>2, <1>3, <2>1, <2>2 DEF Restored, TypeOK
  <2>3. CASE Go("failed")
    BY <1>1, <2>1, <2>3 DEF TypeOK
  <2> QED
    BY <1>9, <2>2, <2>3 DEF DestroyNothing, Destroy
<1>10. CASE Kill \/ Rerun
  <2>1. databases' \in [Server -> {"none", "old", "empty", "migrated"}]
    BY <1>10 DEF Kill, Rerun, TypeOK
  <2> QED
    BY <1>1, <1>2, <1>10, <2>1 DEF Kill, Rerun, TypeOK
<1> QED
  BY <1>4, <1>5, <1>6, <1>7, <1>8, <1>9, <1>10 DEF Next, Create_test_db, Destroy_test_db

\* Other threads leave the wrappers of the main thread alone.
LEMMA OthersApart ==
    ASSUME RegistryInv, NEW t \in Thread \ {Main}, OtherUses(t)
    PROVE  name' = name /\ asked'[Main] = asked[Main] /\ state'[Main] = state[Main]
<1>1. Main \in Thread /\ Used \subseteq Key
  BY RunsAssumption DEF Key
<1>2. /\ state \in [Thread -> [Key -> {"closed", "asking", "connecting", "open"}]]
      /\ asked \in [Thread -> [Key -> Params]]
  BY DEF RegistryInv, ConnectionsTypeOK
<1>3. PICK a \in Used : \/ Wrap(t, a) \/ Connect(t, a)
                        \/ GetNewConnection(t, a) \/ CloseOne(t, a)
  BY DEF OtherUses
<1>4. CASE Wrap(t, a)
  BY <1>4 DEF Wrap
<1>5. CASE Connect(t, a)
  BY <1>1, <1>2, <1>5 DEF Connect, Ask
<1>6. CASE GetNewConnection(t, a)
  BY <1>1, <1>2, <1>6 DEF GetNewConnection, Share, Miss, Register, Open
<1>7. CASE CloseOne(t, a)
  BY <1>1, <1>2, <1>7 DEF CloseOne, Close
<1> QED
  BY <1>3, <1>4, <1>5, <1>6, <1>7

\* While the main thread migrates, nobody changes what it is connected to but itself.
LEMMA MigratingKept ==
    ASSUME TypeOK, RegistryInv, Migrating, ThreadsUse, step = "migrate"
    PROVE  name' = name /\ (state'[Main][alias] # "closed" => asked'[Main][alias].database = Test)
<1>1. alias \in Alias /\ Main \in Thread /\ alias \in Key /\ name[alias] = Test
  BY AliasType, RunsAssumption, KeysAndParams DEF Migrating
<1>2. /\ state \in [Thread -> [Key -> {"closed", "asking", "connecting", "open"}]]
      /\ asked \in [Thread -> [Key -> Params]]
  BY DEF RegistryInv, ConnectionsTypeOK
<1>3. ASSUME NEW t \in Thread, NEW a \in Alias, Wrap(t, a) PROVE UNCHANGED <<name, state, asked>>
  BY <1>3 DEF Wrap
<1>4. ASSUME NEW k \in Key, GetNewConnection(Main, k)
      PROVE  /\ name' = name /\ asked' = asked
             /\ state'[Main][alias] # "closed" => state[Main][alias] # "closed"
  BY <1>1, <1>2, <1>4 DEF GetNewConnection, Share, Miss, Register, Open
<1>5. ASSUME Connect(Main, alias)
      PROVE  name' = name /\ asked'[Main][alias].database = Test
  BY <1>1, <1>2, <1>5 DEF Connect, Ask
<1>6. CASE MainConnects
  BY <1>1, <1>3, <1>4, <1>5, <1>6 DEF MainConnects, Migrating
<1>7. CASE \E t \in Thread \ {Main} : OtherUses(t)
  BY <1>7, OthersApart DEF Migrating
<1> QED
  BY <1>6, <1>7 DEF ThreadsUse

LEMMA MigratingStep == TypeOK /\ RegistryInv /\ Migrating /\ [Next]_vars => Migrating'
<1> SUFFICES ASSUME TypeOK, RegistryInv, Migrating, [Next]_vars PROVE Migrating'
  OBVIOUS
<1> USE DEF Go
<1>1. CASE ThreadsUse
  <2>1. step' = step /\ alias' = alias
    BY <1>1 DEF ThreadsUse, creation, alias
  <2>2. CASE step = "migrate"
    BY <1>1, <2>1, <2>2, MigratingKept DEF Migrating
  <2> QED
    BY <2>1, <2>2 DEF Migrating
<1>2. CASE Switch
  <2>1. alias' = alias /\ name' = [name EXCEPT ![alias] = Test] /\ Close(Main, Key)
    BY <1>2 DEF Switch, alias
  <2>2. alias \in Alias /\ Main \in Thread /\ alias \in Key
    BY AliasType, RunsAssumption, KeysAndParams
  <2>3. name'[alias] = Test
    BY <2>1, <2>2 DEF RegistryInv, ConnectionsTypeOK
  <2>4. state'[Main][alias] = "closed"
    BY <2>1, <2>2 DEF Close, RegistryInv, ConnectionsTypeOK
  <2> QED
    BY <2>1, <2>3, <2>4 DEF Migrating
<1>3. CASE LeaveToOthers \/ Keep \/ Create \/ Cancel \/ Drop \/ Recreate \/ Migrate
  BY <1>3 DEF LeaveToOthers, Keep, Create, Cancel, Drop, Recreate, Migrate, Migrating
<1>4. CASE DestroyNothing \/ Destroy
  BY <1>4 DEF DestroyNothing, Destroy, Restored, Migrating
<1>5. CASE TearDown \/ Kill \/ Rerun
  BY <1>5 DEF TearDown, Kill, Rerun, Migrating
<1>6. CASE (\E t \in Thread \ {Main}, a \in Used : Query(t, a)) \/ UNCHANGED vars
  <2>1. UNCHANGED <<step, at, name, state, asked>>
    BY <1>6 DEF Query, vars, connectionVars, process, creation
  <2> QED
    BY <2>1 DEF Migrating, alias
<1> QED
  BY <1>1, <1>2, <1>3, <1>4, <1>5, <1>6 DEF Next, Create_test_db, Destroy_test_db

\* Test code runs where the test database is: NAME and the parameters asked for
\* say so, and the Connection is one made with these parameters.
LEMMA UnharmedStep == RunInv /\ [Next]_vars => RealUnharmed'
<1> SUFFICES ASSUME RunInv, [Next]_vars PROVE harmed' = harmed
  BY DEF RunInv, RealUnharmed
<1> USE DEF Go
<1>1. Main \in Thread /\ Alias \subseteq Key /\ Used \subseteq Alias /\ alias \in Alias /\ Real # Test
  BY AliasType, RunsAssumption, KeysAndParams DEF RunInv
<1>2. CASE Migrate
  <2>1. connections[connection[Main][alias]].database = Test
    BY <1>1, <1>2, OpenParams DEF Migrate, RunInv, Migrating
  <2> QED
    BY <1>1, <1>2, <2>1 DEF Migrate
<1>3. CASE \E t \in Thread \ {Main}, a \in Used : Query(t, a)
  <2>1. PICK t \in Thread, a \in Key : Query(t, a)
    BY <1>1, <1>3
  <2>2. connections[connection[t][a]].database = Test
    BY <2>1, OpenParams DEF Query, RunInv
  <2> QED
    BY <1>1, <2>1, <2>2 DEF Query
<1>4. CASE ThreadsUse \/ TearDown \/ Kill \/ Rerun \/ UNCHANGED vars
  BY <1>4 DEF ThreadsUse, TearDown, Kill, Rerun, creation, vars
<1>5. CASE LeaveToOthers \/ Keep \/ Create \/ Cancel \/ Drop \/ Recreate \/ Switch
  BY <1>5 DEF LeaveToOthers, Keep, Create, Cancel, Drop, Recreate, Switch
<1>6. CASE DestroyNothing \/ Destroy
  BY <1>6 DEF DestroyNothing, Destroy, Restored
<1> QED
  BY <1>2, <1>3, <1>4, <1>5, <1>6 DEF Next, Create_test_db, Destroy_test_db

\* The registry changes when a Connection is registered, or with the process.
Replaced(k) == registry'[k] # registry[k] /\ registry[k] # 0 /\ registry'[k] # 0

LEMMA ReplacedByRegister ==
    ASSUME RegistryInv, NEW t \in Thread, NEW k \in Key, Register(t, k), NEW l \in Key, Replaced(l)
    PROVE  connections'[registry'[l]] # connections'[registry[l]]
<1>1. /\ registry' = [registry EXCEPT ![k] = Len(connections) + 1]
      /\ connections' = Append(connections, asked[t][k])
  BY DEF Register
<1>2. l = k /\ registry'[k] = Len(connections) + 1
  BY <1>1 DEF Replaced, RegistryInv, ConnectionsTypeOK
<1>3. connections \in Seq(Params) /\ asked[t][k] \in Params /\ registry[k] \in 1..Len(connections)
  BY <1>2 DEF Replaced, RegistryInv, ConnectionsTypeOK
<1>4. connections'[registry'[k]] = asked[t][k] /\ connections'[registry[k]] = connections[registry[k]]
  BY <1>1, <1>2, <1>3
<1>5. connections[registry[k]] # asked[t][k]
  BY <1>2 DEF Replaced, Register, RegistryInv, LockHeld, Registered
<1> QED
  BY <1>2, <1>4, <1>5

LEMMA ReplacedStep ==
    ASSUME RunInv, [Next]_vars, NEW l \in Key, Replaced(l)
    PROVE  connections'[registry'[l]] # connections'[registry[l]]
<1> USE DEF Go
<1>1. CASE ThreadsUse
  <2>1. PICK t \in Thread :
           \/ \E k \in Key : Register(t, k)
           \/ UNCHANGED registry
    BY <1>1, ThreadsUseUses DEF RunInv, Uses, Wrap, Ask, Share, Miss, Close
  <2> QED
    BY <2>1, ReplacedByRegister DEF Replaced, RunInv
<1>2. CASE Kill \/ Rerun
  BY <1>2 DEF Kill, Rerun, Dies, NoneRegistered, Replaced
<1>3. CASE LeaveToOthers \/ Keep \/ Create \/ Cancel \/ Drop \/ Recreate \/ Migrate
  BY <1>3 DEF LeaveToOthers, Keep, Create, Cancel, Drop, Recreate, Migrate, connectionVars, process,
     Replaced
<1>4. CASE Switch \/ DestroyNothing \/ Destroy
  BY <1>4 DEF Switch, DestroyNothing, Destroy, Restored, Close, connectionVars, process, Replaced
<1>5. CASE TearDown \/ (\E t \in Thread \ {Main}, a \in Used : Query(t, a)) \/ UNCHANGED vars
  BY <1>5 DEF TearDown, Query, vars, connectionVars, process, Replaced
<1> QED
  BY <1>1, <1>2, <1>3, <1>4, <1>5 DEF Next, Create_test_db, Destroy_test_db

LEMMA RunInit == Init => RunInv
<1> SUFFICES ASSUME Init PROVE RunInv
  OBVIOUS
<1>1. name \in [Alias -> Database] /\ NewProcess
  BY RunsAssumption DEF Init
<1>2. RegistryInv
  BY <1>1, NewProcessInv
<1>3. Order[1] \in Alias /\ at \in 1..Len(Order)
  BY RunsAssumption DEF Init
<1>4. TypeOK
  BY <1>2, <1>3 DEF Init, TypeOK, RegistryInv
<1> QED
  BY <1>2, <1>4 DEF Init, RunInv, Migrating, RealUnharmed

LEMMA RunStep == RunInv /\ [Next]_vars => RunInv'
BY TypeStep, RegistryStep, MigratingStep, UnharmedStep DEF RunInv

LEMMA RunInvariant == Spec => []RunInv
BY RunInit, RunStep, PTL DEF Spec

-----------------------------------------------------------------------------
(***************************************************************************)
(* Every variable of the wrappers and of the test runs keeps its type      *)
(* (backend/base.py, backend/creation.py).                                 *)
(***************************************************************************)
THEOREM TypeCorrect == Spec => []TypeOK
<1>1. RunInv => TypeOK
  BY DEF RunInv
<1> QED
  BY <1>1, RunInvariant, PTL

(***************************************************************************)
(* A thread is given a Connection to what it asked for                     *)
(* (backend/base.py:212-224), for any threads, aliases and servers.        *)
(***************************************************************************)
THEOREM ConnectedCorrect == Spec => []ConnectedAsAsked
<1>1. RunInv => ConnectedAsAsked
  BY DEF RunInv, RegistryInv
<1> QED
  BY <1>1, RunInvariant, PTL

(***************************************************************************)
(* Test code never reaches a real database (backend/creation.py on         *)
(* backend/base.py:218), for any aliases, runs and kills.                  *)
(***************************************************************************)
THEOREM RealAlwaysUnharmed == Spec => []RealUnharmed
<1>1. RunInv => RealUnharmed
  BY DEF RunInv
<1> QED
  BY <1>1, RunInvariant, PTL

(***************************************************************************)
(* A registered Connection gives way only to one with other parameters     *)
(* (backend/base.py:215-222): threads that connect at once share one.      *)
(***************************************************************************)
THEOREM ReplacedOnlyIfChangedAlways == Spec => ReplacedOnlyIfChanged
<1>1. RunInv /\ [Next]_vars =>
        [\A k \in Key :
            registry'[k] # registry[k] /\ registry[k] # 0 /\ registry'[k] # 0
               => connections'[registry'[k]] # connections'[registry[k]]]_connectionVars
  BY ReplacedStep DEF Replaced
<1> QED
  BY <1>1, RunInvariant, PTL DEF Spec, ReplacedOnlyIfChanged

-----------------------------------------------------------------------------
(* What a run makes, one alias after the other.                            *)

\* The two ways to manage the test databases.
Managing == \/ cluster /\ managed = {Order[1]}
            \/ ~cluster /\ managed = Alias

\* The main thread's cursors lead to the server of the alias at hand.
Leading ==
    /\ step \in {"create", "exists", "recreate", "switch", "destroy"}
          /\ state[Main][NoDb] # "closed" => asked[Main][NoDb].server = ServerOf[alias]
    /\ step \in {"migrate", "test"} => state[Main][NoDb] = "closed"
    /\ step \in {"exists", "recreate"} => NoDbOpen /\ ~Unmanaged(alias)
    /\ step = "migrate" /\ state[Main][alias] # "closed"
          => asked[Main][alias].server = ServerOf[alias]

\* The servers on which the test database of the i-th alias is made.
Makes(i) == IF Unmanaged(Order[i]) THEN {} ELSE OnCluster(ServerOf[Order[i]])
Stands(i, what) == \A s \in Makes(i) : databases[s] = what

\* Without keepdb, how far the test databases are.
Progress ==
    /\ step # "failed"
    /\ step \in {"create", "exists", "recreate", "switch", "migrate"} =>
          \A i \in 1..(at - 1) : Stands(i, "migrated")
    /\ step = "exists" => \A s \in Makes(at) : databases[s] # "none"
    /\ step = "recreate" => Stands(at, "none")
    /\ step \in {"switch", "migrate"} => Stands(at, "empty")
    /\ step = "test" => at = 1 /\ \A i \in 1..Len(Order) : Stands(i, "migrated")
    /\ step = "destroy" => \A i \in 1..Len(Order) :
                              IF i < at THEN Stands(i, "none") ELSE Stands(i, "migrated")
    /\ step = "finished" => \A i \in 1..Len(Order) : Stands(i, "none")

\* NAME differs from the real one for aliases in Order, in the end for none.
Named ==
    \A a \in Alias : name[a] # Real =>
       /\ step # "finished"
       /\ \E i \in 1..Len(Order) : a = Order[i] /\ (step \in {"test", "destroy"} => i >= at)

CreationInv == Managing /\ Leading /\ (~keepdb => Progress) /\ Named

LEMMA OrderFacts ==
    /\ Len(Order) \in Nat /\ Len(Order) >= 1
    /\ \A i \in 1..Len(Order) : Order[i] \in Alias /\ ServerOf[Order[i]] \in Server
<1>1. Order \in Seq(Alias) /\ Len(Order) > 0 /\ ServerOf \in [Alias -> Server]
  BY RunsAssumption, ConnectionsAssumption
<1>2. Len(Order) \in Nat /\ Len(Order) >= 1
  BY <1>1
<1>3. \A i \in 1..Len(Order) : Order[i] \in Alias
  BY <1>1
<1> QED
  BY <1>1, <1>2, <1>3

\* Each alias makes its own databases, and on a cluster the first makes all.
LEMMA MakesFacts ==
    ASSUME Managing
    PROVE  /\ \A i \in 1..Len(Order) : Makes(i) \subseteq Server
           /\ \A i \in 1..Len(Order) :
                 Makes(i) = IF Unmanaged(Order[i]) THEN {} ELSE OnCluster(ServerOf[Order[i]])
           /\ \A i, j \in 1..Len(Order) : i # j => \A s \in Makes(i) : s \notin Makes(j)
           /\ \A i \in 1..Len(Order) : \A s \in OnCluster(ServerOf[Order[i]]) :
                 \E j \in 1..i : s \in Makes(j)
           /\ \A a \in Alias : \E i \in 1..Len(Order) : ServerOf[a] \in Makes(i)
<1> DEFINE N == Len(Order)
<1>1. /\ N \in Nat /\ N >= 1 /\ 1 \in 1..N
      /\ \A i \in 1..N : Order[i] \in Alias /\ ServerOf[Order[i]] \in Server
  BY OrderFacts
<1>2. \A i, j \in 1..N : ServerOf[Order[i]] = ServerOf[Order[j]] => i = j
  BY OrderAssumption
<1>3. \A i \in 1..N : i \in 1..i /\ 1 \in 1..i
  BY <1>1
<1> HIDE DEF N
<1>4. CASE cluster /\ managed = {Order[1]}
  <2>1. \A i \in 1..N : Unmanaged(Order[i]) <=> i # 1
    BY <1>1, <1>2, <1>4 DEF Unmanaged
  <2>2. \A s : OnCluster(s) = Server
    BY <1>4 DEF OnCluster
  <2>3. Makes(1) = Server /\ \A i \in 1..N : i # 1 => Makes(i) = {}
    BY <1>1, <2>1, <2>2 DEF Makes
  <2>4. \A i, j \in 1..N : i # j => \A s \in Makes(i) : s \notin Makes(j)
    BY <2>3
  <2>5. \A i \in 1..N : \A s \in OnCluster(ServerOf[Order[i]]) : \E j \in 1..i : s \in Makes(j)
    BY <1>3, <2>2, <2>3
  <2>6. \A a \in Alias : ServerOf[a] \in Makes(1)
    BY <2>3, ConnectionsAssumption
  <2>7. \A i \in 1..N : Makes(i) \subseteq Server
    BY <2>3
  <2> QED
    BY <1>1, <2>4, <2>5, <2>6, <2>7 DEF N, Makes
<1>5. CASE ~cluster /\ managed = Alias
  <2>1. \A i \in 1..N : ~Unmanaged(Order[i]) /\ Makes(i) = {ServerOf[Order[i]]}
                        /\ OnCluster(ServerOf[Order[i]]) = {ServerOf[Order[i]]}
    BY <1>1, <1>5 DEF Unmanaged, Makes, OnCluster
  <2>2. \A i, j \in 1..N : i # j => \A s \in Makes(i) : s \notin Makes(j)
    BY <1>2, <2>1
  <2>3. \A i \in 1..N : \A s \in OnCluster(ServerOf[Order[i]]) : \E j \in 1..i : s \in Makes(j)
    BY <1>3, <2>1
  <2>4. \A a \in Alias : \E i \in 1..N : ServerOf[a] \in Makes(i)
    <3> SUFFICES ASSUME NEW a \in Alias PROVE \E i \in 1..N : ServerOf[a] \in Makes(i)
      OBVIOUS
    <3>1. PICK i \in 1..N : Order[i] = a
      BY OrderAssumption DEF N
    <3> QED
      BY <2>1, <3>1
  <2>5. \A i \in 1..N : Makes(i) \subseteq Server
    BY <1>1, <2>1
  <2> QED
    BY <2>2, <2>3, <2>4, <2>5 DEF N, Makes
<1> QED
  BY <1>4, <1>5 DEF Managing

-----------------------------------------------------------------------------
(* Where the cursors of the main thread lead.                              *)

LEMMA MainTypes ==
    ASSUME TypeOK, RegistryInv
    PROVE  /\ alias \in Alias /\ Main \in Thread /\ alias \in Key /\ NoDb \in Key /\ alias # NoDb
           /\ state \in [Thread -> [Key -> {"closed", "asking", "connecting", "open"}]]
           /\ asked \in [Thread -> [Key -> Params]]
<1>1. alias \in Alias /\ Main \in Thread /\ NoDb \notin Alias
  BY AliasType, RunsAssumption, ConnectionsAssumption
<1> QED
  BY <1>1 DEF Key, RegistryInv, ConnectionsTypeOK

LEMMA LeadingThreads ==
    ASSUME TypeOK, RegistryInv, Leading, ThreadsUse
    PROVE  Leading'
<1>1. step' = step /\ at' = at /\ alias' = alias
  BY DEF ThreadsUse, creation, alias
<1>s. managed' = managed
  BY DEF ThreadsUse, creation, settings
<1>2. /\ alias \in Alias /\ Main \in Thread /\ alias \in Key /\ NoDb \in Key /\ alias # NoDb
      /\ state \in [Thread -> [Key -> {"closed", "asking", "connecting", "open"}]]
      /\ asked \in [Thread -> [Key -> Params]]
  BY MainTypes
<1>3. ASSUME state'[Main] = state[Main], asked'[Main] = asked[Main]
      PROVE  Leading'
  BY <1>1, <1>3, <1>s DEF Leading, NoDbOpen, Unmanaged
<1>4. CASE Wrap(Main, alias)
  BY <1>3, <1>4 DEF Wrap
<1>5. CASE \E t \in Thread \ {Main} : OtherUses(t)
  BY <1>3, <1>5, OthersApart
<1>6. CASE step \in {"create", "destroy"} /\ ConnectNoDb(Main, alias)
  <2>1. asked' = [asked EXCEPT ![Main][NoDb] = [server |-> ServerOf[alias], database |-> Default]]
    BY <1>6 DEF ConnectNoDb, Ask
  <2>2. asked'[Main][NoDb].server = ServerOf[alias]
    BY <1>2, <2>1
  <2> QED
    BY <1>1, <1>6, <2>2 DEF Leading
<1>7. CASE step = "migrate" /\ Connect(Main, alias)
  <2>1. /\ asked' = [asked EXCEPT ![Main][alias] = [server |-> ServerOf[alias], database |-> name[alias]]]
        /\ state' = [state EXCEPT ![Main][alias] = "asking"]
    BY <1>7 DEF Connect, Ask
  <2>2. asked'[Main][alias].server = ServerOf[alias] /\ state'[Main][NoDb] = state[Main][NoDb]
    BY <1>2, <2>1
  <2> QED
    BY <1>1, <1>7, <2>2 DEF Leading
<1>8. ASSUME NEW k \in Key, GetNewConnection(Main, k)
      PROVE  Leading'
  <2>1. /\ asked' = asked
        /\ \A l \in Key : /\ state'[Main][l] = "closed" <=> state[Main][l] = "closed"
                          /\ state[Main][l] = "open" => state'[Main][l] = "open"
    BY <1>2, <1>8 DEF GetNewConnection, Share, Miss, Register, Open
  <2> QED
    BY <1>1, <1>s, <1>2, <2>1 DEF Leading, NoDbOpen, Unmanaged
<1> QED
  BY <1>4, <1>5, <1>6, <1>7, <1>8 DEF ThreadsUse, MainConnects

LEMMA LeadingStep == TypeOK /\ RegistryInv /\ Leading /\ [Next]_vars => Leading'
<1> SUFFICES ASSUME TypeOK, RegistryInv, Leading, [Next]_vars PROVE Leading'
  OBVIOUS
<1> USE DEF Go
<1>1. CASE ThreadsUse
  BY <1>1, LeadingThreads
<1>2. ASSUME \A k \in Key : state'[Main][k] = "closed", step' \notin {"exists", "recreate"}
      PROVE  Leading'
  <2>1. NoDb \in Key
    BY MainTypes
  <2>2. alias' \in Alias
    BY TypeStep, OrderFacts DEF TypeOK, alias
  <2>3. alias' \in Key
    BY <2>2 DEF Key
  <2> QED
    BY <1>2, <2>1, <2>3 DEF Leading
<1>3. ASSUME Close(Main, Key) PROVE \A k \in Key : state'[Main][k] = "closed"
  BY <1>3, MainTypes DEF Close
<1>4. CASE Switch
  BY <1>2, <1>3, <1>4 DEF Switch
<1>5. CASE DestroyNothing \/ Destroy
  <2>1. CASE Restored("finished", "destroy")
    BY <1>2, <1>3, <2>1 DEF Restored
  <2>2. CASE step' = "failed"
    BY <2>2 DEF Leading
  <2> QED
    BY <1>5, <2>1, <2>2 DEF DestroyNothing, Destroy
<1>6. CASE Kill \/ Rerun
  <2>1. \A k \in Key : state'[Main][k] = "closed"
    BY <1>6, MainTypes DEF Kill, Rerun, Dies, AllClosed
  <2> QED
    BY <1>2, <1>6, <2>1 DEF Kill, Rerun
<1>7. CASE Migrate
  <2>1. /\ UNCHANGED <<state, asked>> /\ step' \in {"failed", "test", "create"}
        /\ state[Main][NoDb] = "closed"
    BY <1>7 DEF Migrate, Leading, connectionVars, process
  <2> QED
    BY <2>1 DEF Leading
<1>8. CASE LeaveToOthers \/ Keep \/ Create \/ Cancel \/ Drop \/ Recreate
  <2>1. UNCHANGED <<state, asked, at, alias, managed>>
    BY <1>8 DEF settings, LeaveToOthers, Keep, Create, Cancel, Drop, Recreate, connectionVars, process, alias
  <2>2. /\ step \in {"create", "exists", "recreate"}
        /\ step' \in {"exists", "recreate", "switch", "failed", "cancelled"}
        /\ step' \in {"exists", "recreate"} => NoDbOpen /\ ~Unmanaged(alias)
    BY <1>8 DEF LeaveToOthers, Keep, Create, Cancel, Drop, Recreate, Leading
  <2> QED
    BY <2>1, <2>2 DEF Leading, NoDbOpen, Unmanaged
<1>9. CASE TearDown \/ (\E t \in Thread \ {Main}, a \in Used : Query(t, a)) \/ UNCHANGED vars
  <2>1. /\ UNCHANGED <<state, asked, at, alias, managed>>
        /\ step' = step \/ (step = "test" /\ step' = "destroy")
    BY <1>9 DEF settings, TearDown, Query, vars, creation, connectionVars, process, alias
  <2> QED
    BY <2>1 DEF Leading, NoDbOpen, Unmanaged
<1> QED
  BY <1>1, <1>4, <1>5, <1>6, <1>7, <1>8, <1>9 DEF Next, Create_test_db, Destroy_test_db

\* The server of the alias at hand gets the statements.
LEMMA NoDbReaches ==
    ASSUME TypeOK, RegistryInv, Leading, NoDbOpen,
           step \in {"create", "exists", "recreate", "switch", "destroy"}
    PROVE  Reached(NoDb) = ServerOf[alias]
BY MainTypes, OpenParams DEF Leading, NoDbOpen, Reached

LEMMA MigrateReaches ==
    ASSUME TypeOK, RegistryInv, Migrating, Leading, Migrate
    PROVE  /\ Reached(alias) = ServerOf[alias]
           /\ connections[connection[Main][alias]].database = Test
           /\ connections[connection[Main][alias]].server = ServerOf[alias]
BY MainTypes, OpenParams DEF Leading, Migrating, Migrate, Reached

-----------------------------------------------------------------------------
(* How far the test databases are.                                         *)

LEMMA StandsSame ==
    ASSUME UNCHANGED settings
    PROVE  Managing' = Managing /\ \A i : Makes(i)' = Makes(i)
BY DEF settings, Managing, Makes, Unmanaged, OnCluster

\* A step that leaves the databases alone and claims nothing new.
LEMMA ProgressKept ==
    ASSUME Progress, UNCHANGED <<settings, databases, at>>, step' = step \/ step' \in {"killed", "cancelled"}
    PROVE  Progress'
<1>1. \A i, w : Stands(i, w)' = Stands(i, w)
  BY StandsSame DEF Stands
<1> QED
  BY <1>1, StandsSame DEF Progress

\* While the test databases are created.
LEMMA ProgressCreate ==
    ASSUME TypeOK, RegistryInv, Managing, Leading, Progress, ~keepdb,
           LeaveToOthers \/ Create \/ Drop \/ Recreate \/ Switch
    PROVE  Progress'
<1> USE DEF Go
<1>1. /\ UNCHANGED <<settings, at>> /\ at \in 1..Len(Order) /\ Len(Order) \in Nat
      /\ step \in {"create", "exists", "recreate", "switch"}
  BY OrderFacts DEF LeaveToOthers, Create, Drop, Recreate, Switch, TypeOK
<1>2. \A i : Makes(i)' = Makes(i)
  BY <1>1, StandsSame
<1>3. \A i \in 1..(at - 1) : i \in 1..Len(Order) /\ i # at
  BY <1>1
<1>4. \A i \in 1..(at - 1) : \A s \in Makes(i) : databases[s] = "migrated" /\ s \notin Makes(at)
  BY <1>1, <1>3, MakesFacts DEF Progress, Stands
<1>5. ASSUME \A s \in Server : s \notin Makes(at) => databases'[s] = databases[s]
      PROVE  \A i \in 1..(at - 1) : Stands(i, "migrated")'
  <2>1. ASSUME NEW i \in 1..(at - 1), NEW s \in Makes(i) PROVE databases'[s] = "migrated"
    <3>1. s \in Server
      BY <1>3, MakesFacts
    <3> QED
      BY <1>4, <1>5, <3>1
  <2> QED
    BY <1>2, <2>1 DEF Stands
<1>6. CASE LeaveToOthers \/ Switch
  <2>1. databases' = databases
    BY <1>6 DEF LeaveToOthers, Switch
  <2>2. \A i \in 1..(at - 1) : Stands(i, "migrated")'
    BY <1>5, <2>1
  <2>3. step' \in {"switch", "migrate"} /\ \A s \in Makes(at) : databases[s] = "empty"
    BY <1>1, <1>6, MakesFacts DEF LeaveToOthers, Switch, alias, Progress, Stands
  <2> QED
    BY <1>1, <1>2, <2>1, <2>2, <2>3 DEF Progress, Stands
<1>7. ASSUME Reached(NoDb) = ServerOf[alias], ~Unmanaged(alias)
      PROVE  Makes(at) = OnCluster(Reached(NoDb)) /\ OnCluster(Reached(NoDb)) \subseteq Server
  BY <1>1, <1>7, MakesFacts DEF alias
<1>8. CASE Create
  <2>1. Makes(at) = OnCluster(Reached(NoDb)) /\ Makes(at) \subseteq Server
    BY <1>7, <1>8, NoDbReaches DEF Create
  <2>2. /\ databases' = Created(Makes(at))
        /\ step' = IF AnyHas(Makes(at)) THEN "exists" ELSE "switch"
    BY <1>8, <2>1 DEF Create, Forgiven
  <2>3. databases \in [Server -> {"none", "old", "empty", "migrated"}]
    BY DEF TypeOK
  <2>4. /\ \A s \in Server : s \notin Makes(at) => databases'[s] = databases[s]
        /\ \A s \in Makes(at) : databases'[s] # "none"
        /\ ~AnyHas(Makes(at)) => \A s \in Makes(at) : databases'[s] = "empty"
    BY <2>1, <2>2, <2>3 DEF Created, AnyHas
  <2>5. \A i \in 1..(at - 1) : Stands(i, "migrated")'
    BY <1>5, <2>4
  <2> QED
    BY <1>1, <1>2, <2>2, <2>4, <2>5 DEF Progress, Stands
<1>9. CASE Drop
  <2>1. Makes(at) = OnCluster(Reached(NoDb)) /\ Makes(at) \subseteq Server
    BY <1>7, <1>9, NoDbReaches DEF Drop, Leading
  <2>2. /\ databases' = [s \in Server |-> IF s \in Makes(at) THEN "none" ELSE databases[s]]
        /\ step' = IF AllHave(Makes(at)) THEN "recreate" ELSE "failed"
        /\ step = "exists"
    BY <1>9, <2>1 DEF Drop, Dropped
  <2>3. AllHave(Makes(at))
    BY <2>2 DEF Progress, AllHave
  <2>4. /\ \A s \in Server : s \notin Makes(at) => databases'[s] = databases[s]
        /\ \A s \in Makes(at) : databases'[s] = "none"
    BY <2>1, <2>2
  <2>5. \A i \in 1..(at - 1) : Stands(i, "migrated")'
    BY <1>5, <2>4
  <2> QED
    BY <1>1, <1>2, <2>2, <2>3, <2>4, <2>5 DEF Progress, Stands
<1>10. CASE Recreate
  <2>1. Makes(at) = OnCluster(Reached(NoDb)) /\ Makes(at) \subseteq Server
    BY <1>7, <1>10, NoDbReaches DEF Recreate, Leading
  <2>2. /\ databases' = Created(Makes(at))
        /\ step' = IF AnyHas(Makes(at)) THEN "failed" ELSE "switch"
        /\ step = "recreate"
    BY <1>10, <2>1 DEF Recreate
  <2>3. ~AnyHas(Makes(at)) /\ \A s \in Makes(at) : databases[s] = "none"
    BY <2>2 DEF Progress, Stands, AnyHas
  <2>4. /\ \A s \in Server : s \notin Makes(at) => databases'[s] = databases[s]
        /\ \A s \in Makes(at) : databases'[s] = "empty"
    BY <2>1, <2>2, <2>3 DEF Created
  <2>5. \A i \in 1..(at - 1) : Stands(i, "migrated")'
    BY <1>5, <2>4
  <2> QED
    BY <1>1, <1>2, <2>2, <2>3, <2>4, <2>5 DEF Progress, Stands
<1> QED
  BY <1>6, <1>8, <1>9, <1>10

\* The database made is migrated; those migrated before stay so.
LEMMA ProgressMigrate ==
    ASSUME TypeOK, RegistryInv, Managing, Migrating, Leading, Progress, Migrate
    PROVE  Progress'
<1> DEFINE N == Len(Order)
           targets == OnCluster(ServerOf[alias])
<1>1. /\ UNCHANGED settings /\ at \in 1..N /\ N \in Nat /\ step = "migrate"
  BY OrderFacts DEF Migrate, TypeOK
<1>2. \A i : Makes(i)' = Makes(i)
  BY <1>1, StandsSame
<1>3. Reached(alias) = ServerOf[alias] /\ Real # Test
  BY MigrateReaches, RunsAssumption
<1>4. /\ databases' = [s \in Server |->
                  IF s \in targets /\ databases[s] = "empty" THEN "migrated" ELSE databases[s]]
      /\ step' = IF ~AllHave(targets) THEN "failed" ELSE IF at = N THEN "test" ELSE "create"
      /\ at' = IF at = N THEN 1 ELSE at + 1
  BY <1>3, MigrateReaches DEF Migrate
<1>5. /\ \A i \in 1..(at - 1) : \A s \in Makes(i) : databases[s] = "migrated"
      /\ \A s \in Makes(at) : databases[s] = "empty"
  BY <1>1 DEF Progress, Stands
<1>6. \A i \in 1..at : i \in 1..N /\ (i = at \/ i \in 1..(at - 1))
  BY <1>1
<1> HIDE DEF N
<1>7. \A s \in targets : databases[s] # "none"
  <2> SUFFICES ASSUME NEW s \in targets PROVE databases[s] # "none"
    OBVIOUS
  <2>1. PICK i \in 1..at : s \in Makes(i)
    BY <1>1, MakesFacts DEF N, alias
  <2> QED
    BY <1>5, <1>6, <2>1
<1>8. AllHave(targets)
  BY <1>7 DEF AllHave
<1>9. \A s \in Makes(at) : s \in targets
  BY <1>1, MakesFacts DEF N, alias
<1>10. ASSUME NEW i \in 1..at PROVE Stands(i, "migrated")'
  <2>1. ASSUME NEW s \in Makes(i) PROVE databases'[s] = "migrated"
    <3>1. s \in Server
      BY <1>6, MakesFacts DEF N
    <3>2. databases[s] = "migrated" \/ (s \in targets /\ databases[s] = "empty")
      BY <1>5, <1>6, <1>9
    <3> QED
      BY <1>4, <3>1, <3>2
  <2> QED
    BY <1>2, <2>1 DEF Stands
<1>11. CASE at = N
  BY <1>4, <1>8, <1>10, <1>11 DEF Progress, N
<1>12. CASE at # N
  <2>1. at' = at + 1 /\ step' = "create"
    BY <1>4, <1>8, <1>12
  <2>2. \A i \in 1..(at' - 1) : i \in 1..at
    BY <1>1, <2>1
  <2> QED
    BY <1>10, <2>1, <2>2 DEF Progress
<1> QED
  BY <1>11, <1>12

\* The databases made are dropped, each by its own alias.
LEMMA ProgressDestroy ==
    ASSUME TypeOK, RegistryInv, Managing, Leading, Progress, ~keepdb,
           TearDown \/ DestroyNothing \/ Destroy
    PROVE  Progress'
<1> DEFINE N == Len(Order)
<1>1. /\ UNCHANGED settings /\ at \in 1..N /\ N \in Nat
  BY OrderFacts DEF TearDown, DestroyNothing, Destroy, Restored, Go, TypeOK
<1>2. \A i : Makes(i)' = Makes(i)
  BY <1>1, StandsSame
<1> HIDE DEF N
<1>3. CASE TearDown
  <2>1. step = "test" /\ step' = "destroy" /\ databases' = databases
    BY <1>3 DEF TearDown, Go
  <2>2. at' = at /\ at = 1 /\ \A i \in 1..N : Stands(i, "migrated")'
    BY <1>2, <1>3, <2>1 DEF TearDown, Go, Progress, Stands, N
  <2>3. \A i \in 1..N : ~(i < 1)
    BY <1>1
  <2> QED
    BY <2>1, <2>2, <2>3 DEF Progress, N
<1>4. CASE DestroyNothing \/ Destroy
  <2>1. step = "destroy"
    BY <1>4 DEF DestroyNothing, Destroy
  <2>2. \A i \in 1..N : \A s \in Makes(i) :
           databases[s] = IF i < at THEN "none" ELSE "migrated"
    BY <2>1 DEF Progress, Stands, N
  <2>3. /\ databases' = [s \in Server |-> IF s \in Makes(at) THEN "none" ELSE databases[s]]
        /\ Restored("finished", "destroy")
    <3>1. CASE DestroyNothing
      <4>1. Makes(at) = {}
        BY <1>1, <3>1, MakesFacts DEF DestroyNothing, N, alias
      <4>2. databases \in [Server -> {"none", "old", "empty", "migrated"}]
        BY DEF TypeOK
      <4> QED
        BY <3>1, <4>1, <4>2 DEF DestroyNothing
    <3>2. CASE Destroy
      <4>1. Reached(NoDb) = ServerOf[alias]
        BY <3>2, NoDbReaches DEF Destroy
      <4>2. Makes(at) = OnCluster(Reached(NoDb))
        BY <1>1, <3>2, <4>1, MakesFacts DEF Destroy, N, alias
      <4>3. AllHave(Makes(at))
        BY <1>1, <2>2 DEF AllHave
      <4> QED
        BY <3>2, <4>2, <4>3 DEF Destroy, Destroyed
    <3> QED
      BY <1>4, <3>1, <3>2
  <2>4. ASSUME NEW i \in 1..N, NEW s \in Makes(i)
        PROVE  databases'[s] = IF i <= at THEN "none" ELSE "migrated"
    <3>1. s \in Server /\ (i # at => s \notin Makes(at))
      BY <1>1, MakesFacts DEF N
    <3> QED
      BY <1>1, <2>2, <2>3, <3>1
  <2>5. /\ step' = IF at = N THEN "finished" ELSE "destroy"
        /\ at' = IF at = N THEN 1 ELSE at + 1
    BY <2>3 DEF Restored, N
  <2>6. CASE at = N
    <3>1. \A i \in 1..N : i <= at
      BY <1>1, <2>6
    <3>2. \A i \in 1..N : Stands(i, "none")'
      BY <1>2, <2>4, <3>1 DEF Stands
    <3> QED
      BY <2>5, <2>6, <3>2 DEF Progress, N
  <2>7. CASE at # N
    <3>1. at' = at + 1 /\ step' = "destroy"
      BY <2>5, <2>7
    <3>2. \A i \in 1..N : i < at' <=> i <= at
      BY <1>1, <3>1
    <3>3. \A i \in 1..N : IF i < at' THEN Stands(i, "none")' ELSE Stands(i, "migrated")'
      BY <1>2, <2>4, <3>2 DEF Stands
    <3> QED
      BY <3>1, <3>3 DEF Progress, N
  <2> QED
    BY <2>6, <2>7
<1> QED
  BY <1>3, <1>4

LEMMA ProgressStep ==
    /\ TypeOK /\ RegistryInv /\ Migrating /\ Managing /\ Leading /\ (~keepdb => Progress)
    /\ [Next]_vars
    => (~keepdb => Progress)'
<1> SUFFICES ASSUME TypeOK, RegistryInv, Migrating, Managing, Leading, ~keepdb => Progress,
                    [Next]_vars, ~keepdb'
             PROVE  Progress'
  OBVIOUS
<1>1. CASE Rerun
  <2>1. step' = "create" /\ at' = 1
    BY <1>1 DEF Rerun
  <2> QED
    BY <2>1 DEF Progress
<1>2. CASE ~Rerun
  <2>1. ~keepdb /\ Progress
    <3>1. keepdb' = keepdb
      BY <1>2 DEF Next, ThreadsUse, Create_test_db, Destroy_test_db, LeaveToOthers, Keep, Create, Cancel,
         Drop, Recreate, Switch, Migrate, Query, TearDown, DestroyNothing, Destroy, Restored, Kill, Go,
         creation, vars
    <3> QED
      BY <3>1
  <2>2. CASE LeaveToOthers \/ Create \/ Drop \/ Recreate \/ Switch
    BY <2>1, <2>2, ProgressCreate
  <2>3. CASE Migrate
    BY <2>1, <2>3, ProgressMigrate
  <2>4. CASE TearDown \/ DestroyNothing \/ Destroy
    BY <2>1, <2>4, ProgressDestroy
  <2>5. CASE ThreadsUse \/ UNCHANGED vars
    <3>1. UNCHANGED <<settings, databases, at, step>>
      BY <2>5 DEF ThreadsUse, creation, vars
    <3> QED
      BY <2>1, <3>1, ProgressKept
  <2>6. CASE Cancel \/ Kill \/ (\E t \in Thread \ {Main}, a \in Used : Query(t, a))
    BY <2>1, <2>6, ProgressKept DEF Cancel, Kill, Query, Go
  <2>7. CASE Keep
    BY <2>1, <2>7 DEF Keep
  <2> QED
    BY <1>2, <2>2, <2>3, <2>4, <2>5, <2>6, <2>7 DEF Next, Create_test_db, Destroy_test_db
<1> QED
  BY <1>1, <1>2

-----------------------------------------------------------------------------
(* NAME.                                                                   *)

LEMMA NamedStep == TypeOK /\ RegistryInv /\ Named /\ [Next]_vars => Named'
<1> SUFFICES ASSUME TypeOK, RegistryInv, Named, [Next]_vars PROVE Named'
  OBVIOUS
<1> USE DEF Go
<1>1. /\ name \in [Alias -> Database] /\ alias \in Alias /\ Order[at] = alias
      /\ at \in 1..Len(Order) /\ Len(Order) \in Nat
      /\ \A i \in 1..Len(Order) : i = at \/ Order[i] # alias
  <2>1. \A i \in 1..Len(Order) : i = at \/ Order[i] # alias
    BY OrderAssumption DEF alias, TypeOK
  <2> QED
    BY <2>1, AliasType, OrderFacts DEF TypeOK, ConnectionsTypeOK, alias
<1>2. ASSUME UNCHANGED <<name, at>>, step' = step \/ step' \notin {"test", "destroy", "finished"}
      PROVE  Named'
  BY <1>2 DEF Named
<1>3. CASE ThreadsUse
  <2>1. name' = name
    <3>1. PICK t \in Thread :
             \/ \E a \in Alias : Wrap(t, a)
             \/ \E k \in Key, params \in Params : Ask(t, k, params)
             \/ \E k \in Key : \/ Share(t, k) \/ Miss(t, k) \/ Register(t, k)
                               \/ Close(t, {k}) /\ UNCHANGED name
      BY <1>3, ThreadsUseUses DEF Uses
    <3> QED
      BY <3>1 DEF Wrap, Ask, Share, Miss, Register, Open
  <2> QED
    BY <1>2, <1>3, <2>1 DEF ThreadsUse, creation
<1>4. CASE LeaveToOthers \/ Keep \/ Create \/ Cancel \/ Drop \/ Recreate
  BY <1>2, <1>4 DEF LeaveToOthers, Keep, Create, Cancel, Drop, Recreate, connectionVars
<1>5. CASE (\E t \in Thread \ {Main}, a \in Used : Query(t, a)) \/ UNCHANGED vars
  BY <1>2, <1>5 DEF Query, vars, creation, connectionVars
<1>6. CASE Switch
  <2>1. name' = [name EXCEPT ![alias] = Test] /\ step' = "migrate"
    BY <1>6 DEF Switch
  <2> QED
    BY <1>1, <2>1 DEF Named
<1>7. CASE Migrate
  <2>1. /\ name' = name /\ step' \in {"failed", "test", "create"} /\ step # "finished"
        /\ step' = "test" => at' = 1
    BY <1>7 DEF Migrate, connectionVars
  <2>2. \A i \in 1..Len(Order) : i >= 1
    OBVIOUS
  <2> QED
    BY <2>1, <2>2 DEF Named
<1>8. CASE TearDown
  <2>1. name' = name
    BY <1>8 DEF TearDown, connectionVars
  <2> QED
    BY <1>1, <1>8, <2>1 DEF TearDown, Named
<1>9. CASE DestroyNothing \/ Destroy
  <2>1. CASE Restored("finished", "destroy")
    <3>1. /\ name' = [name EXCEPT ![alias] = Real] /\ step = "destroy"
          /\ step' = IF at = Len(Order) THEN "finished" ELSE "destroy"
          /\ at' = IF at = Len(Order) THEN 1 ELSE at + 1
      BY <1>9, <2>1 DEF Restored, DestroyNothing, Destroy
    <3>2. ASSUME NEW a \in Alias, name'[a] # Real
          PROVE  \E i \in 1..Len(Order) : a = Order[i] /\ i >= at + 1
      <4>1. a # alias /\ name[a] # Real
        BY <1>1, <3>1, <3>2
      <4>2. PICK i \in 1..Len(Order) : a = Order[i] /\ i >= at
        BY <3>1, <4>1 DEF Named
      <4>3. i # at
        BY <1>1, <4>1, <4>2
      <4> QED
        BY <1>1, <4>2, <4>3
    <3>3. CASE at = Len(Order)
      BY <1>1, <3>1, <3>2, <3>3 DEF Named
    <3>4. CASE at # Len(Order)
      BY <3>1, <3>2, <3>4 DEF Named
    <3> QED
      BY <3>3, <3>4
  <2>2. CASE step' = "failed" /\ UNCHANGED <<at, connectionVars>>
    BY <1>2, <2>2 DEF connectionVars
  <2> QED
    BY <1>9, <2>1, <2>2 DEF DestroyNothing, Destroy
<1>10. CASE Kill \/ Rerun
  <2>1. \A a \in Alias : name'[a] = Real
    BY <1>10 DEF Kill, Rerun, Dies
  <2> QED
    BY <2>1 DEF Named
<1> QED
  BY <1>3, <1>4, <1>5, <1>6, <1>7, <1>8, <1>9, <1>10 DEF Next, Create_test_db, Destroy_test_db

LEMMA CreationInit == Init => CreationInv
<1> SUFFICES ASSUME Init PROVE CreationInv
  OBVIOUS
<1>1. \A k \in Key : state[Main][k] = "closed"
  BY RunsAssumption DEF Init, NewProcess, AllClosed
<1>2. NoDb \in Key
  BY KeysAndParams
<1>3. step = "create" /\ at = 1 /\ name = [a \in Alias |-> Real]
  BY DEF Init
<1> QED
  BY <1>1, <1>2, <1>3 DEF Init, CreationInv, Managing, Leading, Progress, Named

LEMMA CreationStep == RunInv /\ CreationInv /\ [Next]_vars => CreationInv'
<1>1. [Next]_vars => UNCHANGED settings
  BY DEF Next, ThreadsUse, Create_test_db, Destroy_test_db, LeaveToOthers, Keep, Create, Cancel,
     Drop, Recreate, Switch, Migrate, Query, TearDown, DestroyNothing, Destroy, Restored, Kill, Rerun, Go,
     creation, vars
<1> QED
  BY <1>1, StandsSame, LeadingStep, ProgressStep, NamedStep DEF RunInv, CreationInv

LEMMA CreationInvariant == Spec => []CreationInv
BY CreationInit, CreationStep, RunInvariant, PTL DEF Spec

-----------------------------------------------------------------------------
(***************************************************************************)
(* Without keepdb, the tests start on migrated databases this run made,    *)
(* on a cluster or not (backend/creation.py:49-100), for any aliases,      *)
(* servers and leftovers.                                                  *)
(***************************************************************************)
THEOREM FreshForTestsAlways == Spec => []FreshForTests
<1>1. CreationInv => FreshForTests
  <2> SUFFICES ASSUME CreationInv, step = "test", ~keepdb, NEW a \in Alias
               PROVE  databases[ServerOf[a]] = "migrated"
    BY DEF FreshForTests
  <2>1. PICK i \in 1..Len(Order) : ServerOf[a] \in Makes(i)
    BY MakesFacts DEF CreationInv
  <2> QED
    BY <2>1 DEF CreationInv, Progress, Stands
<1> QED
  BY <1>1, CreationInvariant, PTL

(***************************************************************************)
(* Without keepdb no statement fails for what earlier runs left on some of *)
(* the servers (backend/creation.py:49-100).                               *)
(***************************************************************************)
THEOREM LeftoversOvercomeAlways == Spec => []LeftoversOvercome
<1>1. CreationInv => LeftoversOvercome
  BY DEF CreationInv, Progress, LeftoversOvercome
<1> QED
  BY <1>1, CreationInvariant, PTL

(***************************************************************************)
(* A run that ends without keepdb has dropped all it made, and NAME is     *)
(* back (backend/creation.py:122-131).                                     *)
(***************************************************************************)
THEOREM NothingLeftAlways == Spec => []NothingLeft
<1>1. RunInv /\ CreationInv => NothingLeft
  <2> SUFFICES ASSUME RunInv, CreationInv, step = "finished", ~keepdb
               PROVE  /\ \A a \in Alias : databases[ServerOf[a]] = "none"
                      /\ name = [a \in Alias |-> Real]
    BY DEF NothingLeft
  <2>1. ASSUME NEW a \in Alias PROVE databases[ServerOf[a]] = "none"
    <3>1. PICK i \in 1..Len(Order) : ServerOf[a] \in Makes(i)
      BY MakesFacts DEF CreationInv
    <3> QED
      BY <3>1 DEF CreationInv, Progress, Stands
  <2>2. name \in [Alias -> Database] /\ \A a \in Alias : name[a] = Real
    BY DEF CreationInv, Named, RunInv, TypeOK, ConnectionsTypeOK
  <2>3. name = [a \in Alias |-> Real]
    BY <2>2
  <2> QED
    BY <2>1, <2>3
<1> QED
  BY <1>1, RunInvariant, CreationInvariant, PTL
=============================================================================
