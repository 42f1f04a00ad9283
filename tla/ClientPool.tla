----------------------------- MODULE ClientPool -----------------------------
(***************************************************************************)
(* The client pool of one shared Connection: ClickhousePool                *)
(* (driver/pool.py), Connection and Cursor (driver/connection.py).         *)
(*                                                                         *)
(* Every method of the pool runs its whole body under the pool's lock, so  *)
(* each is one action.  What the lock does not cover is a step of its own: *)
(* the closed-check of Connection.cursor() and the pull that follows it,   *)
(* the mark a cursor sets and the push that follows it, the cleanup of     *)
(* Connection.close() and the flag set after it, and everything a query    *)
(* does to the connection of a lent client.                                *)
(*                                                                         *)
(* The order of _pool is abstracted: pop() may hand out any idle client.   *)
(***************************************************************************)
EXTENDS Integers, FiniteSets, Functions

CONSTANTS
    Cursor,          \* the cursors alive at one time, each used again when done
    Client,          \* the identities id() gives to clients, reused after gc
    NoClient,        \* "this cursor has no client"
    ConnectionsMin,  \* connections_min
    ConnectionsMax,  \* connections_max
    MaxKeys          \* bound on the keys handed out, hence on the pulls

Capacity == IF ConnectionsMin >= ConnectionsMax THEN ConnectionsMin
                                                ELSE ConnectionsMax

ASSUME PoolAssumption ==
    /\ ConnectionsMin \in Nat /\ ConnectionsMax \in Nat /\ MaxKeys \in Nat
    /\ IsFiniteSet(Client) /\ Cardinality(Client) >= Capacity
    /\ NoClient \notin Client

VARIABLES
    pool,       \* _pool, the idle clients
    used,       \* _used, key -> lent client
    rused,      \* _rused, id(client) -> key
    keys,       \* _keys, the last key handed out
    closed,     \* ClickhousePool.closed
    isClosed,   \* Connection.is_closed
    connected,  \* client.connection.connected
    executing,  \* client.connection.is_query_executing
    pc,         \* where the life of each cursor is
    client      \* the _client of each cursor

poolVars == <<pool, used, rused, keys, closed>>
linkVars == <<connected, executing>>
cursorVars == <<pc, client>>
vars == <<poolVars, isClosed, linkVars, cursorVars>>

(***************************************************************************)
(* A cursor is "none" before it exists and after it is gone, "checked"     *)
(* between the two steps of Connection.cursor(), "open" while in use,      *)
(* "forgotten" when its last reference is dropped without a close, and     *)
(* "closing" between the two steps of Cursor.close().                      *)
(***************************************************************************)
Phase == {"none", "checked", "open", "forgotten", "closing"}
Holding == {"open", "forgotten", "closing"}

\* Entries of the two maps added and deleted; KeepEntry forgets the deletion.
With(f, x, v) == [y \in DOMAIN f \cup {x} |-> IF y = x THEN v ELSE f[y]]
KeepEntry(f, x) == f
Without(f, x) == Restrict(f, DOMAIN f \ {x})

\* No client may be created: as many are lent as connections_max allows.
AtLimitLate == Cardinality(DOMAIN used) > ConnectionsMax
AtLimit == Cardinality(DOMAIN used) >= ConnectionsMax

\* push() may keep another idle client.
RoomForOneMore == Cardinality(pool) <= ConnectionsMin
Room == Cardinality(pool) < ConnectionsMin

\* push() disconnects the client: its query is not over, or it is surplus.
DisconnectsSurplus(c) == ~Room
Disconnects(c) == executing[c] \/ ~Room

\* push() raises InterfaceError.
RefusesUnkeyed(c) == c \notin DOMAIN rused
Refuses(c) == closed \/ c \notin DOMAIN rused

\* Clients no object of the program refers to: a new Client may get their id().
Unborn == Client \ (pool \cup Range(used) \cup Range(client))

Init ==
    /\ pool \in {S \in SUBSET Client : Cardinality(S) = ConnectionsMin}
    /\ used = [k \in {} |-> NoClient]
    /\ rused = [c \in {} |-> 0]
    /\ keys = 0
    /\ closed = FALSE /\ isClosed = FALSE
    /\ connected = [c \in Client |-> FALSE]
    /\ executing = [c \in Client |-> FALSE]
    /\ pc = [q \in Cursor |-> "none"]
    /\ client = [q \in Cursor |-> NoClient]

-----------------------------------------------------------------------------
(* Connection.cursor(): the unlocked check, then pull() and the cursor.    *)

CheckOpen(q) ==
    /\ pc[q] = "none" /\ ~isClosed
    /\ pc' = [pc EXCEPT ![q] = "checked"]
    /\ UNCHANGED <<poolVars, isClosed, linkVars, client>>

\* Assign client c to key k and give it to the cursor.
Lend(q, k, c) ==
    /\ used' = With(used, k, c)
    /\ rused' = With(rused, c, k)
    /\ pc' = [pc EXCEPT ![q] = "open"]
    /\ client' = [client EXCEPT ![q] = c]

PullClosed(q) ==
    /\ pc[q] = "checked" /\ closed
    /\ pc' = [pc EXCEPT ![q] = "none"]
    /\ UNCHANGED <<poolVars, isClosed, linkVars, client>>

PullIdlePeek(q) ==
    /\ pc[q] = "checked" /\ ~closed /\ keys < MaxKeys
    /\ keys' = keys + 1
    /\ \E c \in pool : Lend(q, keys + 1, c)
    /\ UNCHANGED <<pool, closed, isClosed, linkVars>>
PullIdle(q) ==
    /\ pc[q] = "checked" /\ ~closed /\ keys < MaxKeys
    /\ keys' = keys + 1
    /\ \E c \in pool : Lend(q, keys + 1, c) /\ pool' = pool \ {c}
    /\ UNCHANGED <<closed, isClosed, linkVars>>

PullRefused(q) ==
    /\ pc[q] = "checked" /\ ~closed /\ keys < MaxKeys
    /\ pool = {} /\ AtLimit
    /\ keys' = keys + 1
    /\ pc' = [pc EXCEPT ![q] = "none"]
    /\ UNCHANGED <<pool, used, rused, closed, isClosed, linkVars, client>>

PullConnect(q) ==
    /\ pc[q] = "checked" /\ ~closed /\ keys < MaxKeys
    /\ pool = {} /\ ~AtLimit
    /\ keys' = keys + 1
    /\ \E c \in Unborn :
         /\ Lend(q, keys + 1, c)
         /\ connected' = [connected EXCEPT ![c] = FALSE]
         /\ executing' = [executing EXCEPT ![c] = FALSE]
    /\ UNCHANGED <<pool, closed, isClosed>>

-----------------------------------------------------------------------------
(* What a query does to the connection of a lent client.                   *)

\* A query is sent, connecting first where needed; its result is pending.
Send(q) ==
    /\ pc[q] = "open" /\ ~executing[client[q]]
    /\ connected' = [connected EXCEPT ![client[q]] = TRUE]
    /\ executing' = [executing EXCEPT ![client[q]] = TRUE]
    /\ UNCHANGED <<poolVars, isClosed, cursorVars>>

\* The last packet of the result is read.
Drain(q) ==
    /\ pc[q] = "open" /\ executing[client[q]]
    /\ executing' = [executing EXCEPT ![client[q]] = FALSE]
    /\ UNCHANGED <<poolVars, isClosed, connected, cursorVars>>

\* Any error of a query, the overlapping query included, disconnects.
Fail(q) ==
    /\ pc[q] = "open"
    /\ connected' = [connected EXCEPT ![client[q]] = FALSE]
    /\ executing' = [executing EXCEPT ![client[q]] = FALSE]
    /\ UNCHANGED <<poolVars, isClosed, cursorVars>>

-----------------------------------------------------------------------------
(* Cursor.close(), called by the user or by __del__, then push().          *)

Close(q) ==
    /\ pc[q] = "open"
    /\ pc' = [pc EXCEPT ![q] = "closing"]
    /\ UNCHANGED <<poolVars, isClosed, linkVars, client>>

\* The user drops the last reference to an open cursor.
Forget(q) ==
    /\ pc[q] = "open"
    /\ pc' = [pc EXCEPT ![q] = "forgotten"]
    /\ UNCHANGED <<poolVars, isClosed, linkVars, client>>

\* The cursor is closed already: its client is out of reach either way.
Gone(q) ==
    /\ pc' = [pc EXCEPT ![q] = "none"]
    /\ client' = [client EXCEPT ![q] = NoClient]

\* The garbage collector runs Cursor.__del__.
DelOnly(q) ==
    /\ pc[q] = "forgotten"
    /\ Gone(q)
    /\ UNCHANGED <<poolVars, isClosed, linkVars>>
Del(q) ==
    /\ pc[q] = "forgotten"
    /\ pc' = [pc EXCEPT ![q] = "closing"]
    /\ UNCHANGED <<poolVars, isClosed, linkVars, client>>

PushRaises(q) ==
    /\ pc[q] = "closing" /\ Refuses(client[q])
    /\ Gone(q)
    /\ UNCHANGED <<poolVars, isClosed, linkVars>>

\* push(): a client still connected stays in the pool, any other is dropped.
Push(q) ==
    /\ pc[q] = "closing" /\ ~Refuses(client[q])
    /\ LET c == client[q]
       IN  /\ connected' = [connected EXCEPT ![c] = @ /\ ~Disconnects(c)]
           /\ executing' = [executing EXCEPT ![c] = @ /\ ~Disconnects(c)]
           /\ pool' = IF Room /\ connected'[c] THEN pool \cup {c} ELSE pool
           /\ used' = Without(used, rused[c])
           /\ rused' = Without(rused, c)
    /\ Gone(q)
    /\ UNCHANGED <<keys, closed, isClosed>>

-----------------------------------------------------------------------------
(* Connection.close(): cleanup() of the pool, then the connection's flag.  *)

Cleanup ==
    /\ ~closed
    /\ LET swept == pool \cup Range(used)
       IN  /\ connected' = [c \in Client |-> connected[c] /\ c \notin swept]
           /\ executing' = [c \in Client |-> executing[c] /\ c \notin swept]
    /\ closed' = TRUE
    /\ UNCHANGED <<pool, used, rused, keys, isClosed, cursorVars>>

MarkClosed ==
    /\ closed /\ ~isClosed
    /\ isClosed' = TRUE
    /\ UNCHANGED <<poolVars, linkVars, cursorVars>>

-----------------------------------------------------------------------------
Pull(q) == PullClosed(q) \/ PullIdle(q) \/ PullRefused(q) \/ PullConnect(q)
Query(q) == Send(q) \/ Drain(q) \/ Fail(q)
Release(q) == PushRaises(q) \/ Push(q)

Step(q) ==
    \/ CheckOpen(q) \/ Pull(q) \/ Query(q)
    \/ Close(q) \/ Forget(q) \/ Del(q) \/ Release(q)

Next == (\E q \in Cursor : Step(q)) \/ Cleanup \/ MarkClosed

(***************************************************************************)
(* The interpreter collects garbage sooner or later, and a thread inside   *)
(* close() goes on; nobody is obliged to close a cursor or the connection. *)
(***************************************************************************)
Fairness == \A q \in Cursor : WF_vars(Del(q)) /\ WF_vars(Release(q))

Spec == Init /\ [][Next]_vars /\ Fairness

-----------------------------------------------------------------------------
\* Every variable stays in its type; the maps of the pool stay functions.
TypeOK ==
    /\ pool \subseteq Client
    /\ keys \in 0..MaxKeys
    /\ DOMAIN used \subseteq 1..keys /\ used \in [DOMAIN used -> Client]
    /\ DOMAIN rused \subseteq Client /\ rused \in [DOMAIN rused -> 1..keys]
    /\ closed \in BOOLEAN /\ isClosed \in BOOLEAN
    /\ connected \in [Client -> BOOLEAN] /\ executing \in [Client -> BOOLEAN]
    /\ pc \in [Cursor -> Phase]
    /\ client \in [Cursor -> Client \cup {NoClient}]
    /\ \A q \in Cursor : client[q] # NoClient <=> pc[q] \in Holding

(***************************************************************************)
(* A client is lent to one live cursor at most, is not idle meanwhile, and *)
(* is found under its key: whoever closes gives back their own client.     *)
(***************************************************************************)
ExclusiveLending ==
    /\ \A p, q \in Cursor : p # q /\ client[p] = client[q] => client[p] = NoClient
    /\ \A q \in Cursor : client[q] # NoClient =>
          /\ client[q] \notin pool
          /\ client[q] \in DOMAIN rused
          /\ rused[client[q]] \in DOMAIN used
          /\ used[rused[client[q]]] = client[q]

(***************************************************************************)
(* Until the pool is closed, every slot counted against connections_max is *)
(* held by a live cursor: refusals, failures and forgotten cursors leave   *)
(* no slot behind.                                                         *)
(***************************************************************************)
NoSlotLeaked ==
    ~closed => \A k \in DOMAIN used : \E q \in Cursor : client[q] = used[k]

(***************************************************************************)
(* Idle and lent clients together never exceed the larger of the two       *)
(* limits, and the pool never keeps more than connections_min idle.        *)
(***************************************************************************)
WithinCapacity ==
    /\ Cardinality(pool) + Cardinality(DOMAIN used) <= Capacity
    /\ Cardinality(pool) <= ConnectionsMin

(***************************************************************************)
(* "connections_max is maximum number of connections can be used": never   *)
(* more than connections_max clients are lent (docs/Configurations.md:41). *)
(***************************************************************************)
MaxConnectionsUsed == Cardinality(DOMAIN used) <= ConnectionsMax

(***************************************************************************)
(* Nobody receives a client with the rest of another's result on its       *)
(* connection: an idle client has no query executing, and after cleanup()  *)
(* no connection at all.                                                   *)
(***************************************************************************)
IdleIsQuiet ==
    \A c \in pool : ~executing[c] /\ (closed => ~connected[c])

(***************************************************************************)
(* Once cleanup() has run, no step lends a client, and none puts a client  *)
(* back ("ensure thread doesn't put connection back once the pool is       *)
(* closed"), whatever passed the closed-check before.                      *)
(***************************************************************************)
ClosedPoolFrozen ==
    [][closed => /\ pool' = pool /\ used' = used /\ rused' = rused /\ closed'
                 /\ \A q \in Cursor : client'[q] \in {client[q], NoClient}]_vars

(***************************************************************************)
(* A client whose cursor was forgotten without close() does not stay lent  *)
(* for ever: it leaves _used, unless the pool is closed.                   *)
(***************************************************************************)
ForgottenReleased ==
    \A q \in Cursor, c \in Client :
       (pc[q] = "forgotten" /\ client[q] = c) ~> (closed \/ c \notin Range(used))

(***************************************************************************)
(* The pool, its two maps and its limits implement the abstract lending    *)
(* desk: the clients held by cursors are what is lent.                     *)
(***************************************************************************)
Lending == INSTANCE ClientLending
             WITH Holder <- Cursor, lent <- client, shut <- closed
ImplementsLending == Lending!Spec
=============================================================================
