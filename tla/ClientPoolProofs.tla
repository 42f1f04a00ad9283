-------------------------- MODULE ClientPoolProofs --------------------------
(***************************************************************************)
(* Proofs about ClientPool, for any number of cursors and clients, any     *)
(* limits and any bound on the keys; and about CursorArgs, the query       *)
(* options of the cursors over that pool, for any depth of nesting.        *)
(***************************************************************************)
EXTENDS CursorArgs, TLAPS, FiniteSetTheorems

-----------------------------------------------------------------------------
(* The two operations on the maps of the pool.                             *)

\* Adding an entry: the new value at its key, the old ones elsewhere.
LEMMA WithFacts ==
    ASSUME NEW D, NEW R, NEW f \in [D -> R], NEW x, NEW v \in R
    PROVE  /\ With(f, x, v) \in [D \cup {x} -> R]
           /\ With(f, x, v)[x] = v
           /\ \A y \in D : y # x => With(f, x, v)[y] = f[y]
  BY DEF With

\* Deleting an entry leaves the others as they were.
LEMMA WithoutFacts ==
    ASSUME NEW D, NEW R, NEW f \in [D -> R], NEW x
    PROVE  /\ Without(f, x) \in [D \ {x} -> R]
           /\ \A y \in D : y # x => Without(f, x)[y] = f[y]
  BY DEF Without, Restrict

-----------------------------------------------------------------------------
(* Type correctness.                                                       *)

\* Lending an existing client under the next key keeps the maps typed.
LEMMA LendTypes ==
    ASSUME TypeOK, NEW q \in Cursor, NEW c \in Client,
           keys < MaxKeys, keys' = keys + 1, Lend(q, keys + 1, c)
    PROVE  /\ keys' \in 0..MaxKeys
           /\ DOMAIN used' \subseteq 1..keys' /\ used' \in [DOMAIN used' -> Client]
           /\ DOMAIN rused' \subseteq Client /\ rused' \in [DOMAIN rused' -> 1..keys']
           /\ pc' \in [Cursor -> Phase]
           /\ client' \in [Cursor -> Client \cup {NoClient}]
           /\ \A p \in Cursor : client'[p] # NoClient <=> pc'[p] \in Holding
  <1> USE DEF TypeOK
  <1>1. keys \in 0..MaxKeys /\ MaxKeys \in Nat
    BY PoolAssumption
  <1>2. keys' \in 0..MaxKeys /\ 1..keys \subseteq 1..keys' /\ keys + 1 \in 1..keys'
    BY <1>1
  <1>3. DOMAIN used' \subseteq 1..keys' /\ used' \in [DOMAIN used' -> Client]
    <2>1. used' = With(used, keys + 1, c)
      BY DEF Lend
    <2>2. used' \in [DOMAIN used \cup {keys + 1} -> Client]
      BY <2>1, WithFacts
    <2> QED
      BY <1>2, <2>2
  <1>4. DOMAIN rused' \subseteq Client /\ rused' \in [DOMAIN rused' -> 1..keys']
    <2>1. rused' = With(rused, c, keys + 1)
      BY DEF Lend
    <2>2. rused \in [DOMAIN rused -> 1..keys']
      BY <1>2
    <2>3. rused' \in [DOMAIN rused \cup {c} -> 1..keys']
      BY <1>2, <2>1, <2>2, WithFacts
    <2> QED
      BY <2>3
  <1>5. /\ pc' \in [Cursor -> Phase]
        /\ client' \in [Cursor -> Client \cup {NoClient}]
        /\ \A p \in Cursor : client'[p] # NoClient <=> pc'[p] \in Holding
    BY PoolAssumption DEF Lend, Phase, Holding
  <1> QED
    BY <1>2, <1>3, <1>4, <1>5

\* Every variable of the pool keeps its type, with or without fairness.
LEMMA TypeAlways == Init /\ [][Next]_vars => []TypeOK
  <1>1. Init => TypeOK
    <2> SUFFICES ASSUME Init PROVE TypeOK
      OBVIOUS
    <2>1. used \in [{} -> Client] /\ rused \in [{} -> 1..keys]
      BY DEF Init
    <2>2. /\ pc \in [Cursor -> Phase]
          /\ client \in [Cursor -> Client \cup {NoClient}]
          /\ \A q \in Cursor : client[q] # NoClient <=> pc[q] \in Holding
      BY DEF Init, Phase, Holding
    <2>3. connected \in [Client -> BOOLEAN] /\ executing \in [Client -> BOOLEAN]
      BY DEF Init
    <2>4. pool \subseteq Client /\ keys \in 0..MaxKeys /\ closed \in BOOLEAN /\ isClosed \in BOOLEAN
      <3>1. pool \subseteq Client /\ closed \in BOOLEAN /\ isClosed \in BOOLEAN
        BY DEF Init
      <3>2. keys = 0 /\ MaxKeys \in Nat
        BY PoolAssumption DEF Init
      <3> QED
        BY <3>1, <3>2
    <2>5. DOMAIN used = {} /\ DOMAIN rused = {}
      BY DEF Init
    <2> QED
      BY <2>1, <2>2, <2>3, <2>4, <2>5 DEF TypeOK
  <1>2. TypeOK /\ [Next]_vars => TypeOK'
    <2> SUFFICES ASSUME TypeOK, [Next]_vars
                 PROVE  TypeOK'
      OBVIOUS
    <2> USE DEF TypeOK, poolVars, linkVars, cursorVars
    <2>1. CASE UNCHANGED vars
      BY <2>1 DEF vars
    <2>2. CASE Cleanup
      BY <2>2 DEF Cleanup
    <2>3. CASE MarkClosed
      BY <2>3 DEF MarkClosed
    <2>4. ASSUME NEW q \in Cursor, Step(q)
          PROVE  TypeOK'
      <3> USE DEF Phase, Holding
      <3>1. CASE CheckOpen(q)
        BY <3>1 DEF CheckOpen
      <3>2. CASE PullClosed(q)
        BY <3>2 DEF PullClosed
      <3>3. CASE PullIdle(q)
        <4>1. PICK c \in pool : Lend(q, keys + 1, c) /\ pool' = pool \ {c}
          BY <3>3 DEF PullIdle
        <4>2. keys < MaxKeys /\ keys' = keys + 1 /\ UNCHANGED <<closed, isClosed, linkVars>>
          BY <3>3 DEF PullIdle
        <4> QED
          BY <4>1, <4>2, LendTypes
      <3>4. CASE PullRefused(q)
        BY <3>4, PoolAssumption DEF PullRefused
      <3>5. CASE PullConnect(q)
        <4>1. PICK c \in Unborn : /\ Lend(q, keys + 1, c)
                                  /\ connected' = [connected EXCEPT ![c] = FALSE]
                                  /\ executing' = [executing EXCEPT ![c] = FALSE]
          BY <3>5 DEF PullConnect
        <4>2. /\ keys < MaxKeys /\ keys' = keys + 1 /\ c \in Client
              /\ UNCHANGED <<pool, closed, isClosed>>
          BY <3>5, <4>1 DEF PullConnect, Unborn
        <4> QED
          BY <4>1, <4>2, LendTypes
      <3>6. CASE Send(q) \/ Drain(q) \/ Fail(q)
        BY <3>6 DEF Send, Drain, Fail
      <3>7. CASE Close(q) \/ Forget(q) \/ Del(q)
        BY <3>7 DEF Close, Forget, Del
      <3>8. CASE PushRaises(q)
        BY <3>8, PoolAssumption DEF PushRaises, Gone
      <3>9. CASE Push(q)
        <4> DEFINE c == client[q]
        <4>1. c \in Client
          BY <3>9 DEF Push
        <4>2. DOMAIN used' \subseteq 1..keys' /\ used' \in [DOMAIN used' -> Client]
          <5>1. used' = Without(used, rused[c]) /\ keys' = keys
            BY <3>9 DEF Push
          <5>2. used' \in [DOMAIN used \ {rused[c]} -> Client]
            BY <5>1, WithoutFacts
          <5> QED
            BY <5>1, <5>2
        <4>3. DOMAIN rused' \subseteq Client /\ rused' \in [DOMAIN rused' -> 1..keys']
          <5>1. rused' = Without(rused, c) /\ keys' = keys
            BY <3>9 DEF Push
          <5>2. rused' \in [DOMAIN rused \ {c} -> 1..keys]
            BY <5>1, WithoutFacts
          <5> QED
            BY <5>1, <5>2
        <4>4. pool' \subseteq Client
          BY <3>9, <4>1 DEF Push
        <4>5. /\ connected' \in [Client -> BOOLEAN] /\ executing' \in [Client -> BOOLEAN]
              /\ UNCHANGED <<keys, closed, isClosed>>
          <5>1. /\ connected' = [connected EXCEPT ![c] = connected[c] /\ ~Disconnects(c)]
                /\ executing' = [executing EXCEPT ![c] = executing[c] /\ ~Disconnects(c)]
                /\ UNCHANGED <<keys, closed, isClosed>>
            BY <3>9 DEF Push
          <5>2. /\ (connected[c] /\ ~Disconnects(c)) \in BOOLEAN
                /\ (executing[c] /\ ~Disconnects(c)) \in BOOLEAN
            OBVIOUS
          <5> QED
            BY <5>1, <5>2, Zenon
        <4>6. /\ pc' \in [Cursor -> Phase]
              /\ client' \in [Cursor -> Client \cup {NoClient}]
              /\ \A p \in Cursor : client'[p] # NoClient <=> pc'[p] \in Holding
          BY <3>9, PoolAssumption DEF Push, Gone
        <4> QED
          BY <4>2, <4>3, <4>4, <4>5, <4>6
      <3> QED
        BY <2>4, <3>1, <3>2, <3>3, <3>4, <3>5, <3>6, <3>7, <3>8, <3>9
           DEF Step, Pull, Query, Release
    <2> QED
      BY <2>1, <2>2, <2>3, <2>4 DEF Next
  <1> QED
    BY <1>1, <1>2, PTL

\* Every variable of the pool keeps its type.
THEOREM TypeCorrect == Spec => []TypeOK
  BY TypeAlways, PTL DEF Spec

-----------------------------------------------------------------------------
(* Exclusive lending.  ExclusiveLending is not inductive alone: a push     *)
(* deletes the entry of its own client only if the two maps are inverse,   *)
(* and a client taken from the pool is nobody else's only if no idle       *)
(* client is keyed.                                                        *)

MapsAgree ==
    /\ \A k \in DOMAIN used : used[k] \in DOMAIN rused /\ rused[used[k]] = k
    /\ \A c \in DOMAIN rused : rused[c] \in DOMAIN used /\ used[rused[c]] = c

IdleUnkeyed == \A c \in pool : c \notin DOMAIN rused

LendingInv == MapsAgree /\ IdleUnkeyed /\ ExclusiveLending /\ NoSlotLeaked

\* Giving a client that nobody has to a cursor that has none keeps LendingInv.
LEMMA LendKeeps ==
    ASSUME TypeOK, LendingInv, NEW q \in Cursor, NEW c \in Client,
           client[q] = NoClient, c \notin DOMAIN rused,
           Lend(q, keys + 1, c), pool' = pool \ {c}, closed' = closed
    PROVE  LendingInv'
  <1> DEFINE key == keys + 1
  <1>1. key \notin DOMAIN used /\ NoClient # c
    <2>1. DOMAIN used \subseteq 1..keys /\ keys \in Int
      BY DEF TypeOK
    <2> QED
      BY <2>1, PoolAssumption
  <1>2. /\ used' \in [DOMAIN used \cup {key} -> Client]
        /\ used'[key] = c
        /\ \A k \in DOMAIN used : used'[k] = used[k]
    <2>1. used' = With(used, key, c) /\ used \in [DOMAIN used -> Client]
      BY DEF Lend, TypeOK
    <2> QED
      BY <2>1, <1>1 DEF With
  <1>3. /\ rused' \in [DOMAIN rused \cup {c} -> Int]
        /\ rused'[c] = key
        /\ \A d \in DOMAIN rused : rused'[d] = rused[d]
    <2>1. rused' = With(rused, c, key)
      BY DEF Lend
    <2>2. rused \in [DOMAIN rused -> Int] /\ key \in Int
      BY DEF TypeOK
    <2> QED
      BY <2>1, <2>2 DEF With
  <1>4. /\ client'[q] = c
        /\ \A p \in Cursor : p # q => client'[p] = client[p]
    BY DEF Lend, TypeOK
  <1>5. \A p \in Cursor : client[p] # c
    BY <1>1 DEF LendingInv, ExclusiveLending
  <1>6. MapsAgree'
    BY <1>1, <1>2, <1>3 DEF LendingInv, MapsAgree
  <1>7. IdleUnkeyed'
    BY <1>3 DEF LendingInv, IdleUnkeyed
  <1>8. ExclusiveLending'
    <2>1. \A p, r \in Cursor : p # r /\ client'[p] = client'[r] => client'[p] = NoClient
      BY <1>4, <1>5 DEF LendingInv, ExclusiveLending
    <2>2. ASSUME NEW p \in Cursor, client'[p] # NoClient
          PROVE  /\ client'[p] \notin pool'
                 /\ client'[p] \in DOMAIN rused'
                 /\ rused'[client'[p]] \in DOMAIN used'
                 /\ used'[rused'[client'[p]]] = client'[p]
      <3>1. CASE p = q
        BY <3>1, <1>2, <1>3, <1>4
      <3>2. CASE p # q
        BY <2>2, <3>2, <1>2, <1>3, <1>4 DEF LendingInv, ExclusiveLending
      <3> QED
        BY <3>1, <3>2
    <2> QED
      BY <2>1, <2>2 DEF ExclusiveLending
  <1>9. NoSlotLeaked'
    <2> SUFFICES ASSUME ~closed, NEW k \in DOMAIN used'
                 PROVE  \E p \in Cursor : client'[p] = used'[k]
      BY DEF NoSlotLeaked
    <2>1. CASE k = key
      BY <2>1, <1>2, <1>4
    <2>2. CASE k # key
      <3>1. k \in DOMAIN used /\ used'[k] = used[k]
        BY <2>2, <1>2
      <3>2. PICK p \in Cursor : client[p] = used[k]
        BY <3>1 DEF LendingInv, NoSlotLeaked
      <3>3. used[k] \in Client
        BY <3>1 DEF TypeOK
      <3>4. p # q
        BY <3>2, <3>3, PoolAssumption
      <3> QED
        BY <3>1, <3>2, <3>4, <1>4
    <2> QED
      BY <2>1, <2>2
  <1> QED
    BY <1>6, <1>7, <1>8, <1>9 DEF LendingInv

\* Taking a client back keeps LendingInv, whether it stays in the pool or not.
LEMMA PushKeeps ==
    ASSUME TypeOK, LendingInv, NEW q \in Cursor, Push(q)
    PROVE  LendingInv'
  <1> DEFINE c == client[q]
  <1> DEFINE key == rused[c]
  <1>1. /\ c \in Client /\ c # NoClient /\ c \in DOMAIN rused /\ ~closed
        /\ closed' = closed
    <2>1. pc[q] = "closing" /\ ~Refuses(c) /\ closed' = closed
      BY DEF Push
    <2>2. c # NoClient
      BY <2>1 DEF TypeOK, Holding
    <2> QED
      BY <2>1, <2>2 DEF Refuses, TypeOK
  <1>2. key \in DOMAIN used /\ used[key] = c
    BY <1>1 DEF LendingInv, MapsAgree
  <1>3. /\ DOMAIN used' = DOMAIN used \ {key}
        /\ \A k \in DOMAIN used' : used'[k] = used[k]
    BY DEF Push, Without, Restrict
  <1>4. /\ DOMAIN rused' = DOMAIN rused \ {c}
        /\ \A d \in DOMAIN rused' : rused'[d] = rused[d]
    BY DEF Push, Without, Restrict
  <1>5. /\ client'[q] = NoClient
        /\ \A p \in Cursor : p # q => client'[p] = client[p]
    BY DEF Push, Gone, TypeOK
  <1>6. \A p \in Cursor : p # q => client[p] # c
    BY <1>1 DEF LendingInv, ExclusiveLending
  <1>7. pool' \subseteq pool \cup {c}
    BY DEF Push
  <1>8. \A d \in DOMAIN rused' : rused[d] # key
    BY <1>2, <1>4 DEF LendingInv, MapsAgree
  <1>9. \A k \in DOMAIN used' : used[k] # c
    BY <1>3 DEF LendingInv, MapsAgree
  <1>10. MapsAgree'
    BY <1>3, <1>4, <1>8, <1>9 DEF LendingInv, MapsAgree
  <1>11. IdleUnkeyed'
    BY <1>4, <1>7 DEF LendingInv, IdleUnkeyed
  <1>12. ExclusiveLending'
    <2>1. \A p, r \in Cursor : p # r /\ client'[p] = client'[r] => client'[p] = NoClient
      BY <1>5 DEF LendingInv, ExclusiveLending
    <2>2. ASSUME NEW p \in Cursor, client'[p] # NoClient
          PROVE  /\ client'[p] \notin pool'
                 /\ client'[p] \in DOMAIN rused'
                 /\ rused'[client'[p]] \in DOMAIN used'
                 /\ used'[rused'[client'[p]]] = client'[p]
      <3>1. p # q /\ client'[p] = client[p] /\ client[p] # c
        BY <2>2, <1>5, <1>6
      <3>2. /\ client[p] \notin pool /\ client[p] \in DOMAIN rused
            /\ rused[client[p]] \in DOMAIN used
            /\ used[rused[client[p]]] = client[p]
        BY <2>2, <3>1 DEF LendingInv, ExclusiveLending
      <3> QED
        BY <3>1, <3>2, <1>3, <1>4, <1>7, <1>8
    <2> QED
      BY <2>1, <2>2 DEF ExclusiveLending
  <1>13. NoSlotLeaked'
    <2> SUFFICES ASSUME NEW k \in DOMAIN used'
                 PROVE  \E p \in Cursor : client'[p] = used'[k]
      BY DEF NoSlotLeaked
    <2>1. k \in DOMAIN used /\ used'[k] = used[k] /\ used[k] # c
      BY <1>3, <1>9
    <2>2. PICK p \in Cursor : client[p] = used[k]
      BY <2>1, <1>1 DEF LendingInv, NoSlotLeaked
    <2> QED
      BY <2>1, <2>2, <1>5
  <1> QED
    BY <1>10, <1>11, <1>12, <1>13 DEF LendingInv

\* LendingInv holds in every reachable state: one step per action.
LEMMA LendingAlways == Init /\ [][Next]_vars => []LendingInv
  <1>1. Init => LendingInv
    BY DEF Init, LendingInv, MapsAgree, IdleUnkeyed, ExclusiveLending, NoSlotLeaked
  <1>2. TypeOK /\ LendingInv /\ [Next]_vars => LendingInv'
    <2> SUFFICES ASSUME TypeOK, LendingInv, [Next]_vars
                 PROVE  LendingInv'
      OBVIOUS
    <2> USE DEF poolVars, linkVars, cursorVars
    <2>1. ASSUME UNCHANGED <<pool, used, rused, client>>, closed' = closed \/ closed'
          PROVE  LendingInv'
      BY <2>1 DEF LendingInv, MapsAgree, IdleUnkeyed, ExclusiveLending, NoSlotLeaked
    <2>2. CASE UNCHANGED vars
      BY <2>1, <2>2 DEF vars
    <2>3. CASE Cleanup \/ MarkClosed
      BY <2>1, <2>3 DEF Cleanup, MarkClosed
    <2>4. ASSUME NEW q \in Cursor, Step(q)
          PROVE  LendingInv'
      <3>1. CASE CheckOpen(q) \/ PullClosed(q) \/ PullRefused(q)
        BY <2>1, <3>1 DEF CheckOpen, PullClosed, PullRefused
      <3>2. CASE PullIdle(q)
        <4>1. PICK c \in pool : Lend(q, keys + 1, c) /\ pool' = pool \ {c}
          BY <3>2 DEF PullIdle
        <4>2. client[q] = NoClient
          BY <3>2 DEF PullIdle, TypeOK, Holding
        <4>3. c \in Client /\ c \notin DOMAIN rused /\ closed' = closed
          BY <3>2 DEF PullIdle, TypeOK, LendingInv, IdleUnkeyed
        <4> QED
          BY <4>1, <4>2, <4>3, LendKeeps
      <3>3. CASE PullConnect(q)
        <4>1. PICK c \in Unborn : Lend(q, keys + 1, c)
          BY <3>3 DEF PullConnect
        <4>2. client[q] = NoClient
          BY <3>3 DEF PullConnect, TypeOK, Holding
        <4>3. c \in Client /\ c \notin Range(used)
          BY DEF Unborn
        <4>4. c \notin DOMAIN rused
          BY <4>3 DEF LendingInv, MapsAgree, Range
        <4>5. pool' = pool \ {c} /\ closed' = closed
          BY <3>3 DEF PullConnect
        <4> QED
          BY <4>1, <4>2, <4>3, <4>4, <4>5, LendKeeps
      <3>4. CASE Query(q)
        BY <2>1, <3>4 DEF Query, Send, Drain, Fail
      <3>5. CASE Close(q) \/ Forget(q) \/ Del(q)
        BY <2>1, <3>5 DEF Close, Forget, Del
      <3>6. CASE PushRaises(q)
        <4>1. /\ UNCHANGED <<pool, used, rused, closed>>
              /\ client' = [client EXCEPT ![q] = NoClient]
          BY <3>6 DEF PushRaises, Gone
        <4>2. closed
          <5>1. pc[q] = "closing" /\ Refuses(client[q])
            BY <3>6 DEF PushRaises
          <5>2. client[q] # NoClient
            BY <5>1 DEF TypeOK, Holding
          <5> QED
            BY <5>1, <5>2 DEF Refuses, LendingInv, ExclusiveLending
        <4>3. \A p \in Cursor : client'[p] = IF p = q THEN NoClient ELSE client[p]
          BY <4>1 DEF TypeOK
        <4>4. ExclusiveLending'
          BY <4>1, <4>3 DEF LendingInv, ExclusiveLending
        <4> QED
          BY <4>1, <4>2, <4>4 DEF LendingInv, MapsAgree, IdleUnkeyed, NoSlotLeaked
      <3>7. CASE Push(q)
        BY <3>7, PushKeeps
      <3> QED
        BY <2>4, <3>1, <3>2, <3>3, <3>4, <3>5, <3>6, <3>7 DEF Step, Pull, Release
    <2> QED
      BY <2>2, <2>3, <2>4 DEF Next
  <1> QED
    BY <1>1, <1>2, TypeAlways, PTL

LEMMA LendingInvariant == Spec => []LendingInv
  BY LendingAlways, PTL DEF Spec

(***************************************************************************)
(* No client is ever in two hands, and every client a cursor holds is      *)
(* found under its key.                                                    *)
(***************************************************************************)
THEOREM LendingCorrect == Spec => []ExclusiveLending
  <1>1. LendingInv => ExclusiveLending
    BY DEF LendingInv
  <1> QED
    BY <1>1, LendingInvariant, PTL

(***************************************************************************)
(* While the pool is open, no slot is left without a live cursor: neither  *)
(* a refusal nor a failed query nor a forgotten cursor uses one up.        *)
(***************************************************************************)
THEOREM SlotsCorrect == Spec => []NoSlotLeaked
  <1>1. LendingInv => NoSlotLeaked
    BY DEF LendingInv
  <1> QED
    BY <1>1, LendingInvariant, PTL

-----------------------------------------------------------------------------
(* Limits.  The sum of idle and lent clients is what the steps preserve: a *)
(* lent client comes out of the pool, or the pool is empty and fewer than  *)
(* connections_max are lent.                                               *)

CapacityInv == IsFiniteSet(DOMAIN used) /\ WithinCapacity

\* The number of idle clients and the limits are natural numbers.
LEMMA IdleFinite ==
    ASSUME TypeOK
    PROVE  /\ IsFiniteSet(pool) /\ Cardinality(pool) \in Nat
           /\ Capacity \in Nat /\ ConnectionsMin \in Nat /\ ConnectionsMax \in Nat
           /\ ConnectionsMin <= Capacity /\ ConnectionsMax <= Capacity
  <1>1. pool \in SUBSET Client /\ IsFiniteSet(Client)
    BY PoolAssumption DEF TypeOK
  <1>2. IsFiniteSet(pool) /\ Cardinality(pool) \in Nat
    BY <1>1, FS_Subset, FS_CardinalityType
  <1> QED
    BY <1>2, PoolAssumption DEF Capacity

\* Lending under the next key adds one to the number of lent clients.
LEMMA LendCounts ==
    ASSUME TypeOK, CapacityInv, NEW q, NEW c, Lend(q, keys + 1, c)
    PROVE  /\ IsFiniteSet(DOMAIN used')
           /\ Cardinality(DOMAIN used) \in Nat
           /\ Cardinality(DOMAIN used') = Cardinality(DOMAIN used) + 1
  <1>1. keys + 1 \notin DOMAIN used
    <2>1. DOMAIN used \subseteq 1..keys /\ keys \in Int
      BY DEF TypeOK
    <2> QED
      BY <2>1
  <1>2. DOMAIN used' = DOMAIN used \cup {keys + 1}
    BY DEF Lend, With
  <1> QED
    BY <1>1, <1>2, FS_AddElement, FS_CardinalityType DEF CapacityInv

\* The limits hold in every reachable state.
LEMMA CapacityInvariant == Spec => []CapacityInv
  <1>1. Init /\ TypeOK => CapacityInv
    <2> SUFFICES ASSUME Init, TypeOK PROVE CapacityInv
      OBVIOUS
    <2>1. DOMAIN used = {} /\ Cardinality(pool) = ConnectionsMin
      BY DEF Init
    <2>2. IsFiniteSet(DOMAIN used) /\ Cardinality(DOMAIN used) = 0
      BY <2>1, FS_EmptySet
    <2> QED
      BY <2>1, <2>2, IdleFinite DEF CapacityInv, WithinCapacity
  <1>2. TypeOK /\ TypeOK' /\ LendingInv /\ CapacityInv /\ [Next]_vars => CapacityInv'
    <2> SUFFICES ASSUME TypeOK, TypeOK', LendingInv, CapacityInv, [Next]_vars
                 PROVE  CapacityInv'
      OBVIOUS
    <2> USE DEF poolVars, linkVars, cursorVars
    <2>1. ASSUME UNCHANGED <<pool, used>>
          PROVE  CapacityInv'
      BY <2>1 DEF CapacityInv, WithinCapacity
    <2>2. CASE UNCHANGED vars
      BY <2>1, <2>2 DEF vars
    <2>3. CASE Cleanup \/ MarkClosed
      BY <2>1, <2>3 DEF Cleanup, MarkClosed
    <2>4. ASSUME NEW q \in Cursor, Step(q)
          PROVE  CapacityInv'
      <3>1. CASE CheckOpen(q) \/ PullClosed(q) \/ PullRefused(q)
        BY <2>1, <3>1 DEF CheckOpen, PullClosed, PullRefused
      <3>2. CASE PullIdle(q)
        <4>1. PICK c \in pool : Lend(q, keys + 1, c) /\ pool' = pool \ {c}
          BY <3>2 DEF PullIdle
        <4>2. Cardinality(pool') = Cardinality(pool) - 1
          BY <4>1, IdleFinite, FS_RemoveElement
        <4> QED
          BY <4>1, <4>2, LendCounts, IdleFinite DEF CapacityInv, WithinCapacity
      <3>3. CASE PullConnect(q)
        <4>1. PICK c \in Unborn : Lend(q, keys + 1, c)
          BY <3>3 DEF PullConnect
        <4>2. /\ pool' = pool /\ pool = {}
              /\ ~(Cardinality(DOMAIN used) >= ConnectionsMax)
          BY <3>3 DEF PullConnect, AtLimit
        <4>3. Cardinality(pool) = 0
          BY <4>2, FS_EmptySet
        <4> QED
          BY <4>1, <4>2, <4>3, LendCounts, IdleFinite DEF CapacityInv, WithinCapacity
      <3>4. CASE Query(q)
        BY <2>1, <3>4 DEF Query, Send, Drain, Fail
      <3>5. CASE Close(q) \/ Forget(q) \/ Del(q) \/ PushRaises(q)
        BY <2>1, <3>5 DEF Close, Forget, Del, PushRaises
      <3>6. CASE Push(q)
        <4> DEFINE c == client[q]
        <4>1. rused[c] \in DOMAIN used
          BY <3>6 DEF Push, Refuses, LendingInv, MapsAgree
        <4>2. DOMAIN used' = DOMAIN used \ {rused[c]}
          BY <3>6 DEF Push, Without, Restrict
        <4>3. /\ IsFiniteSet(DOMAIN used')
              /\ Cardinality(DOMAIN used) \in Nat
              /\ Cardinality(DOMAIN used') = Cardinality(DOMAIN used) - 1
          BY <4>1, <4>2, FS_RemoveElement, FS_CardinalityType DEF CapacityInv
        <4>4. CASE pool' = pool
          BY <4>3, <4>4, IdleFinite DEF CapacityInv, WithinCapacity
        <4>5. CASE pool' = pool \cup {c} /\ Room
          <5>1. Cardinality(pool) \in Nat
            BY IdleFinite
          <5>2. \/ Cardinality(pool') = Cardinality(pool)
                \/ Cardinality(pool') = Cardinality(pool) + 1
            BY <4>5, IdleFinite, FS_AddElement
          <5> QED
            BY <4>3, <4>5, <5>1, <5>2, IdleFinite DEF CapacityInv, WithinCapacity, Room
        <4> QED
          BY <3>6, <4>4, <4>5 DEF Push
      <3> QED
        BY <2>4, <3>1, <3>2, <3>3, <3>4, <3>5, <3>6 DEF Step, Pull, Release
    <2> QED
      BY <2>2, <2>3, <2>4 DEF Next
  <1> QED
    BY <1>1, <1>2, TypeCorrect, LendingInvariant, PTL DEF Spec

(***************************************************************************)
(* Idle and lent clients together stay within the larger of the two limits.*)
(***************************************************************************)
THEOREM CapacityCorrect == Spec => []WithinCapacity
  <1>1. CapacityInv => WithinCapacity
    BY DEF CapacityInv
  <1> QED
    BY <1>1, CapacityInvariant, PTL

(***************************************************************************)
(* connections_max is respected if, and this is needed, connections_min    *)
(* does not exceed it.                                                     *)
(***************************************************************************)
THEOREM MaxRespected ==
    ASSUME ConnectionsMin <= ConnectionsMax
    PROVE  Spec => []MaxConnectionsUsed
  <1>1. TypeOK /\ CapacityInv => MaxConnectionsUsed
    <2> SUFFICES ASSUME TypeOK, CapacityInv PROVE MaxConnectionsUsed
      OBVIOUS
    <2>1. Cardinality(DOMAIN used) \in Nat
      BY FS_CardinalityType DEF CapacityInv
    <2>2. Capacity = ConnectionsMax
      BY PoolAssumption DEF Capacity
    <2> QED
      BY <2>1, <2>2, IdleFinite DEF CapacityInv, WithinCapacity, MaxConnectionsUsed
  <1> QED
    BY <1>1, TypeCorrect, CapacityInvariant, PTL

-----------------------------------------------------------------------------
(* Idle clients and the closed pool.                                       *)

(***************************************************************************)
(* A client in the pool carries nobody's unfinished query, and after       *)
(* cleanup() no connection.  It rests on exclusivity: the client a query   *)
(* runs on is not an idle one.                                             *)
(***************************************************************************)
THEOREM IdleCorrect == Spec => []IdleIsQuiet
  <1>1. Init => IdleIsQuiet
    <2> SUFFICES ASSUME Init, NEW c \in pool
                 PROVE  ~executing[c] /\ ~closed
      BY DEF IdleIsQuiet
    <2>1. c \in Client /\ executing = [d \in Client |-> FALSE] /\ closed = FALSE
      BY DEF Init
    <2> QED
      BY <2>1
  <1>2. TypeOK /\ LendingInv /\ IdleIsQuiet /\ [Next]_vars => IdleIsQuiet'
    <2> SUFFICES ASSUME TypeOK, LendingInv, IdleIsQuiet, [Next]_vars
                 PROVE  IdleIsQuiet'
      OBVIOUS
    <2> USE DEF poolVars, linkVars, cursorVars
    <2>1. ASSUME UNCHANGED <<pool, closed, connected, executing>>
          PROVE  IdleIsQuiet'
      BY <2>1 DEF IdleIsQuiet
    <2>2. CASE UNCHANGED vars
      BY <2>1, <2>2 DEF vars
    <2>3. CASE Cleanup
      <3> SUFFICES ASSUME NEW c \in pool'
                   PROVE  ~executing'[c] /\ ~connected'[c]
        BY DEF IdleIsQuiet
      <3>1. c \in pool /\ c \in Client
        BY <2>3 DEF Cleanup, TypeOK
      <3> QED
        BY <2>3, <3>1 DEF Cleanup
    <2>4. CASE MarkClosed
      BY <2>1, <2>4 DEF MarkClosed
    <2>5. ASSUME NEW q \in Cursor, Step(q)
          PROVE  IdleIsQuiet'
      <3>1. CASE CheckOpen(q) \/ PullClosed(q) \/ PullRefused(q)
        BY <2>1, <3>1 DEF CheckOpen, PullClosed, PullRefused
      <3>2. CASE PullIdle(q)
        BY <3>2 DEF PullIdle, IdleIsQuiet
      <3>3. CASE PullConnect(q)
        BY <3>3 DEF PullConnect, IdleIsQuiet
      <3>4. CASE Query(q)
        <4>1. client[q] \notin pool
          <5>1. client[q] # NoClient
            BY <3>4 DEF Query, Send, Drain, Fail, TypeOK, Holding
          <5> QED
            BY <5>1 DEF LendingInv, ExclusiveLending
        <4>2. /\ UNCHANGED <<pool, closed>>
              /\ \A c \in Client : c # client[q] =>
                    connected'[c] = connected[c] /\ executing'[c] = executing[c]
          BY <3>4 DEF Query, Send, Drain, Fail, TypeOK
        <4>3. \A c \in pool : c \in Client /\ c # client[q]
          BY <4>1 DEF TypeOK
        <4> QED
          BY <4>2, <4>3 DEF IdleIsQuiet
      <3>5. CASE Close(q) \/ Forget(q) \/ Del(q) \/ PushRaises(q)
        BY <2>1, <3>5 DEF Close, Forget, Del, PushRaises
      <3>6. CASE Push(q)
        <4> DEFINE c == client[q]
        <4>1. ~closed /\ closed' = closed /\ c \in DOMAIN rused
          BY <3>6 DEF Push, Refuses
        <4>2. c \in Client /\ c \notin pool
          BY <4>1 DEF TypeOK, LendingInv, IdleUnkeyed
        <4>3. pool' \subseteq pool \cup {c}
          BY <3>6 DEF Push
        <4>4. \A d \in Client : d # c => executing'[d] = executing[d]
          BY <3>6 DEF Push, TypeOK
        <4>5. executing'[c] <=> executing[c] /\ ~Disconnects(c)
          BY <3>6, <4>2 DEF Push, TypeOK
        <4>6. ~executing'[c]
          BY <4>5 DEF Disconnects
        <4>7. \A d \in pool' : ~executing'[d]
          <5> SUFFICES ASSUME NEW d \in pool', d # c PROVE ~executing'[d]
            BY <4>6
          <5>1. d \in pool /\ d \in Client
            BY <4>3 DEF TypeOK
          <5> QED
            BY <5>1, <4>4 DEF IdleIsQuiet
        <4> QED
          BY <4>1, <4>7 DEF IdleIsQuiet
      <3> QED
        BY <2>5, <3>1, <3>2, <3>3, <3>4, <3>5, <3>6 DEF Step, Pull, Release
    <2> QED
      BY <2>2, <2>3, <2>4, <2>5 DEF Next
  <1> QED
    BY <1>1, <1>2, TypeCorrect, LendingInvariant, PTL DEF Spec

(***************************************************************************)
(* Nothing enters or leaves the pool and its maps after cleanup(), and no  *)
(* cursor gets a client any more.                                          *)
(***************************************************************************)
THEOREM ClosedCorrect == Spec => ClosedPoolFrozen
  <1> DEFINE Frozen ==
        closed => /\ pool' = pool /\ used' = used /\ rused' = rused /\ closed'
                  /\ \A q \in Cursor : client'[q] \in {client[q], NoClient}
  <1>1. TypeOK /\ [Next]_vars => [Frozen]_vars
    <2> SUFFICES ASSUME TypeOK, [Next]_vars, closed
                 PROVE  Frozen
      OBVIOUS
    <2> USE DEF poolVars, linkVars, cursorVars
    <2>1. CASE UNCHANGED vars
      BY <2>1 DEF vars
    <2>2. CASE Cleanup \/ MarkClosed
      BY <2>2 DEF Cleanup, MarkClosed
    <2>3. ASSUME NEW q \in Cursor, Step(q)
          PROVE  Frozen
      <3>1. CASE CheckOpen(q) \/ Pull(q)
        BY <3>1 DEF CheckOpen, Pull, PullClosed, PullIdle, PullRefused, PullConnect
      <3>2. CASE Query(q)
        BY <3>2 DEF Query, Send, Drain, Fail
      <3>3. CASE Close(q) \/ Forget(q) \/ Del(q)
        BY <3>3 DEF Close, Forget, Del
      <3>4. CASE Release(q)
        BY <3>4 DEF Release, PushRaises, Push, Refuses, Gone, TypeOK
      <3> QED
        BY <2>3, <3>1, <3>2, <3>3, <3>4 DEF Step
    <2> QED
      BY <2>1, <2>2, <2>3 DEF Next
  <1> QED
    BY <1>1, TypeCorrect, PTL DEF Spec, ClosedPoolFrozen

-----------------------------------------------------------------------------
(* Refinement.                                                             *)

\* Each lent client occupies a slot of its own, so the slots bound them.
LEMMA LentFitsSlots ==
    ASSUME TypeOK, LendingInv, CapacityInv
    PROVE  /\ Cardinality(Lending!Lent) \in Nat /\ Cardinality(DOMAIN used) \in Nat
           /\ Cardinality(Lending!Lent) <= Cardinality(DOMAIN used)
  <1> DEFINE slot == [c \in Lending!Lent |-> rused[c]]
  <1>1. \A c \in Lending!Lent :
           c \in DOMAIN rused /\ rused[c] \in DOMAIN used /\ used[rused[c]] = c
    BY PoolAssumption DEF Lending!Lent, LendingInv, ExclusiveLending
  <1>2. slot \in Injection(Lending!Lent, DOMAIN used)
    BY <1>1 DEF Injection, IsInjective
  <1>3. IsFiniteSet(DOMAIN used)
    BY DEF CapacityInv
  <1>4. IsFiniteSet(Lending!Lent) /\ Cardinality(Lending!Lent) <= Cardinality(DOMAIN used)
    BY <1>2, <1>3, FS_Injection
  <1> QED
    BY <1>3, <1>4, FS_CardinalityType

\* The instance of ClientLending counts with the same operator.
LEMMA SameCardinality == \A S : Lending!Cardinality(S) = Cardinality(S)
  BY DEF Lending!Cardinality, Cardinality

(***************************************************************************)
(* The pool implements the abstract lending desk: a pull that succeeds is  *)
(* a Lend, a push is a GiveBack, cleanup() is Shut, all else stutters.     *)
(***************************************************************************)
THEOREM PoolImplementsLending == Spec => ImplementsLending
  <1>1. Init => Lending!Init
    BY DEF Init, Lending!Init
  <1>2. /\ TypeOK /\ LendingInv /\ CapacityInv /\ [Next]_vars
        => [Lending!Next]_<<client, closed>>
    <2> SUFFICES ASSUME TypeOK, LendingInv, CapacityInv, [Next]_vars
                 PROVE  Lending!Next \/ UNCHANGED <<client, closed>>
      OBVIOUS
    <2> USE DEF poolVars, linkVars, cursorVars
    <2>1. CASE UNCHANGED vars
      BY <2>1 DEF vars
    <2>2. CASE Cleanup
      BY <2>2 DEF Cleanup, Lending!Next, Lending!Shut
    <2>3. CASE MarkClosed
      BY <2>3 DEF MarkClosed
    <2>4. ASSUME NEW q \in Cursor, NEW c \in Client, pc[q] = "checked", ~closed,
                 c \notin DOMAIN rused, Lend(q, keys + 1, c), closed' = closed,
                 Cardinality(DOMAIN used) < Capacity
          PROVE  Lending!Next
      <3>1. client[q] = NoClient
        BY <2>4 DEF TypeOK, Holding
      <3>2. c \notin Lending!Lent
        BY <2>4, PoolAssumption DEF Lending!Lent, LendingInv, ExclusiveLending
      <3>3. Cardinality(Lending!Lent) < Capacity
        BY <2>4, LentFitsSlots, IdleFinite
      <3>4. Lending!Lend(q, c)
        <4>1. client' = [client EXCEPT ![q] = c]
          BY <2>4 DEF Lend
        <4> QED
          BY <2>4, <3>1, <3>2, <3>3, <4>1, SameCardinality DEF Lending!Lend
      <3> QED
        BY <3>4 DEF Lending!Next
    <2>5. ASSUME NEW q \in Cursor, Step(q)
          PROVE  Lending!Next \/ UNCHANGED <<client, closed>>
      <3>1. CASE CheckOpen(q) \/ PullClosed(q) \/ PullRefused(q)
        BY <3>1 DEF CheckOpen, PullClosed, PullRefused
      <3>2. CASE PullIdle(q)
        <4>1. PICK c \in pool : Lend(q, keys + 1, c)
          BY <3>2 DEF PullIdle
        <4>2. c \in Client /\ c \notin DOMAIN rused
          BY DEF TypeOK, LendingInv, IdleUnkeyed
        <4>3. Cardinality(pool) # 0
          BY IdleFinite, FS_EmptySet
        <4>4. Cardinality(DOMAIN used) < Capacity
          BY <4>3, IdleFinite, LentFitsSlots DEF CapacityInv, WithinCapacity
        <4> QED
          BY <2>4, <3>2, <4>1, <4>2, <4>4 DEF PullIdle
      <3>3. CASE PullConnect(q)
        <4>1. PICK c \in Unborn : Lend(q, keys + 1, c)
          BY <3>3 DEF PullConnect
        <4>2. c \in Client /\ c \notin DOMAIN rused
          BY DEF Unborn, LendingInv, MapsAgree, Range
        <4>3. Cardinality(DOMAIN used) < Capacity
          BY <3>3, IdleFinite, LentFitsSlots DEF PullConnect, AtLimit
        <4> QED
          BY <2>4, <3>3, <4>1, <4>2, <4>3 DEF PullConnect
      <3>4. CASE Query(q)
        BY <3>4 DEF Query, Send, Drain, Fail
      <3>5. CASE Close(q) \/ Forget(q) \/ Del(q)
        BY <3>5 DEF Close, Forget, Del
      <3>6. CASE Release(q)
        <4>1. client[q] # NoClient
          BY <3>6 DEF Release, PushRaises, Push, TypeOK, Holding
        <4>2. closed' = closed /\ client' = [client EXCEPT ![q] = NoClient]
          BY <3>6 DEF Release, PushRaises, Push, Gone
        <4> QED
          BY <4>1, <4>2 DEF Lending!Next, Lending!GiveBack
      <3> QED
        BY <2>5, <3>1, <3>2, <3>3, <3>4, <3>5, <3>6 DEF Step, Pull
    <2> QED
      BY <2>1, <2>2, <2>3, <2>5 DEF Next
  <1> QED
    BY <1>1, <1>2, TypeCorrect, LendingInvariant, CapacityInvariant, PTL
       DEF Spec, ImplementsLending, Lending!Spec

-----------------------------------------------------------------------------
(* CursorArgs: that nested with blocks of set_query_execution_args()        *)
(* restore each other and that no one is lent a client with options left    *)
(* over.                                                                    *)
(*                                                                          *)
(* An open block must find in what it saved the options of the blocks       *)
(* around it (Nested); an idle or closing client, with no block, must have  *)
(* the default (Reset); and a client has one cursor at most, which is the   *)
(* exclusivity proved of the pool (LendingAlways).                          *)

Options == {"numpy", "columnar"}
BlockRecord == [numpy : {"on", "off"}, columnar : Option,
           gave : [numpy : Option, columnar : Option]]

\* The blocks of a cursor from the k-th on leave an option at value.
LeaveFrom(option, value, default, seq, k) ==
    \/ value = default /\ \A i \in k..Len(seq) : seq[i].gave[option] = "none"
    \/ \E i \in k..Len(seq) : /\ seq[i].gave[option] = value /\ value # "none"
                              /\ \A j \in k..(i - 1) : seq[j].gave[option] = "none"

\* Value is what the blocks leave, and each saved what those around it leave.
Nested(option, value, default, seq) ==
    /\ LeaveFrom(option, value, default, seq, 1)
    /\ \A i \in 1..Len(seq) : LeaveFrom(option, seq[i][option], default, seq, i + 1)

-----------------------------------------------------------------------------
(* Blocks that open and close.                                             *)

LEMMA LeaveIsLeaveFrom ==
    ASSUME NEW option, NEW value, NEW default, NEW seq,
           LeaveFrom(option, value, default, seq, 1)
    PROVE  Leave(option, value, default, seq)
BY DEF LeaveFrom, Leave

\* Without a block, the option has its default, and only then.
LEMMA NestedEmpty ==
    ASSUME NEW option, NEW value, NEW default
    PROVE  Nested(option, value, default, <<>>) <=> value = default
BY DEF Nested, LeaveFrom

\* The same blocks, one place further in the sequence.
LEMMA LeaveShift ==
    ASSUME NEW option, NEW value, NEW default, NEW s \in Seq(BlockRecord), NEW r \in Seq(BlockRecord),
           Len(r) = Len(s) + 1, \A i \in 1..Len(s) : r[i + 1] = s[i],
           NEW k \in 1..(Len(s) + 1)
    PROVE  LeaveFrom(option, value, default, s, k)
              <=> LeaveFrom(option, value, default, r, k + 1)
<1> DEFINE N == Len(s)
           G(i) == s[i].gave[option]
           H(i) == r[i].gave[option]
<1>1. N \in Nat /\ Len(r) = N + 1 /\ k \in 1..(N + 1)
  OBVIOUS
<1>2. \A i \in 1..N : H(i + 1) = G(i)
  OBVIOUS
<1>a. LeaveFrom(option, value, default, s, k) <=>
        \/ value = default /\ \A i \in k..N : G(i) = "none"
        \/ \E i \in k..N : G(i) = value /\ value # "none" /\ \A j \in k..(i - 1) : G(j) = "none"
  BY DEF LeaveFrom
<1>b. LeaveFrom(option, value, default, r, k + 1) <=>
        \/ value = default /\ \A i \in (k + 1)..(N + 1) : H(i) = "none"
        \/ \E i \in (k + 1)..(N + 1) : /\ H(i) = value /\ value # "none"
                                       /\ \A j \in (k + 1)..(i - 1) : H(j) = "none"
  BY <1>1 DEF LeaveFrom
<1> HIDE DEF N, G, H
<1>3. \A i \in (k + 1)..(N + 1) : i - 1 \in k..N /\ i - 1 \in 1..N /\ H(i) = G(i - 1)
  <2> SUFFICES ASSUME NEW i \in (k + 1)..(N + 1)
               PROVE  i - 1 \in k..N /\ i - 1 \in 1..N /\ H(i) = G(i - 1)
    OBVIOUS
  <2>1. i - 1 \in k..N /\ i - 1 \in 1..N /\ (i - 1) + 1 = i
    BY <1>1
  <2> QED
    BY <2>1, <1>2
<1>4. \A i \in k..N : i + 1 \in (k + 1)..(N + 1) /\ i \in 1..N /\ H(i + 1) = G(i)
  BY <1>1, <1>2
<1>5. (\A i \in k..N : G(i) = "none") <=> (\A i \in (k + 1)..(N + 1) : H(i) = "none")
  BY <1>3, <1>4
<1>6. ASSUME NEW i \in k..N
      PROVE  (\A j \in k..(i - 1) : G(j) = "none")
                <=> (\A j \in (k + 1)..((i + 1) - 1) : H(j) = "none")
  <2>1. \A j \in k..(i - 1) : j + 1 \in (k + 1)..((i + 1) - 1) /\ j \in k..N
    BY <1>1
  <2>2. \A j \in (k + 1)..((i + 1) - 1) : j - 1 \in k..(i - 1) /\ j \in (k + 1)..(N + 1)
    BY <1>1
  <2> QED
    BY <1>3, <1>4, <2>1, <2>2
<1>7. (\E i \in k..N : G(i) = value /\ value # "none" /\ \A j \in k..(i - 1) : G(j) = "none")
      <=> (\E i \in (k + 1)..(N + 1) : /\ H(i) = value /\ value # "none"
                                       /\ \A j \in (k + 1)..(i - 1) : H(j) = "none")
  <2>1. ASSUME NEW i \in k..N, G(i) = value, value # "none", \A j \in k..(i - 1) : G(j) = "none"
        PROVE  \E l \in (k + 1)..(N + 1) : /\ H(l) = value /\ value # "none"
                                           /\ \A j \in (k + 1)..(l - 1) : H(j) = "none"
    BY <2>1, <1>4, <1>6
  <2>2. ASSUME NEW l \in (k + 1)..(N + 1), H(l) = value, value # "none",
               \A j \in (k + 1)..(l - 1) : H(j) = "none"
        PROVE  \E i \in k..N : G(i) = value /\ value # "none" /\ \A j \in k..(i - 1) : G(j) = "none"
    <3>1. l - 1 \in k..N /\ (l - 1) + 1 = l
      BY <1>1
    <3>2. G(l - 1) = value
      BY <1>3, <2>2
    <3>3. \A j \in k..((l - 1) - 1) : G(j) = "none"
      BY <3>1, <1>6, <2>2
    <3> QED
      BY <3>1, <3>2, <3>3, <2>2
  <2> QED
    BY <2>1, <2>2
<1> QED
  BY <1>a, <1>b, <1>5, <1>7

\* A block opens: what it gave wins, else what was in force stays.
LEMMA NestedEnter ==
    ASSUME NEW option \in Options, NEW value, NEW default, NEW s \in Seq(BlockRecord),
           NEW b \in BlockRecord, b[option] = value,
           Nested(option, value, default, s)
    PROVE  /\ <<b>> \o s \in Seq(BlockRecord)
           /\ Nested(option, Given(b.gave[option], value), default, <<b>> \o s)
<1> DEFINE r == <<b>> \o s
           new == Given(b.gave[option], value)
<1>1. /\ r \in Seq(BlockRecord) /\ Len(r) = Len(s) + 1 /\ r[1] = b
      /\ \A i \in 1..Len(s) : r[i + 1] = s[i]
      /\ Len(s) \in Nat
  OBVIOUS
<1> HIDE DEF r
<1>2. LeaveFrom(option, value, default, r, 2)
  <2>1. 1 \in 1..(Len(s) + 1) /\ 1 + 1 = 2
    BY <1>1
  <2>2. LeaveFrom(option, value, default, s, 1)
    BY DEF Nested
  <2> QED
    BY <1>1, <2>1, <2>2, LeaveShift
<1>3. LeaveFrom(option, new, default, r, 1)
  <2>1. CASE b.gave[option] = "none"
    <3>1. new = value
      BY <2>1 DEF Given
    <3>2. r[1].gave[option] = "none"
      BY <1>1, <2>1
    <3>3. CASE value = default /\ \A i \in 2..Len(r) : r[i].gave[option] = "none"
      <4>1. \A i \in 1..Len(r) : i = 1 \/ i \in 2..Len(r)
        BY <1>1
      <4> QED
        BY <3>1, <3>2, <3>3, <4>1 DEF LeaveFrom
    <3>4. CASE \E i \in 2..Len(r) : /\ r[i].gave[option] = value /\ value # "none"
                                    /\ \A j \in 2..(i - 1) : r[j].gave[option] = "none"
      <4>1. PICK i \in 2..Len(r) : /\ r[i].gave[option] = value /\ value # "none"
                                   /\ \A j \in 2..(i - 1) : r[j].gave[option] = "none"
        BY <3>4
      <4>2. i \in 1..Len(r) /\ \A j \in 1..(i - 1) : j = 1 \/ j \in 2..(i - 1)
        BY <1>1
      <4>3. \A j \in 1..(i - 1) : r[j].gave[option] = "none"
        BY <3>2, <4>1, <4>2
      <4> QED
        BY <3>1, <4>1, <4>2, <4>3 DEF LeaveFrom
    <3> QED
      BY <1>2, <3>3, <3>4 DEF LeaveFrom
  <2>2. CASE b.gave[option] # "none"
    <3>1. new = b.gave[option] /\ r[1].gave[option] = new /\ new # "none"
      BY <1>1, <2>2 DEF Given
    <3>2. 1 \in 1..Len(r) /\ \A j \in 1..(1 - 1) : FALSE
      BY <1>1
    <3> QED
      BY <3>1, <3>2 DEF LeaveFrom
  <2> QED
    BY <2>1, <2>2
<1>4. ASSUME NEW i \in 1..Len(r) PROVE LeaveFrom(option, r[i][option], default, r, i + 1)
  <2>1. CASE i = 1
    <3>1. r[i][option] = value /\ i + 1 = 2
      BY <1>1, <2>1
    <3> QED
      BY <1>2, <3>1
  <2>2. CASE i # 1
    <3>1. PICK j \in 1..Len(s) : i = j + 1
      BY <1>1, <2>2
    <3>2. j + 1 \in 1..(Len(s) + 1) /\ r[i] = s[j]
      BY <1>1, <3>1
    <3>3. LeaveFrom(option, s[j][option], default, s, j + 1)
      BY DEF Nested
    <3>4. LeaveFrom(option, s[j][option], default, r, (j + 1) + 1)
      BY <1>1, <3>2, <3>3, LeaveShift
    <3> QED
      BY <3>1, <3>2, <3>4
  <2> QED
    BY <2>1, <2>2
<1> QED
  BY <1>1, <1>3, <1>4 DEF Nested, r

\* A block ends: what it saved is what the blocks around it leave.
LEMMA NestedExit ==
    ASSUME NEW option \in Options, NEW value, NEW default, NEW r \in Seq(BlockRecord), r # <<>>,
           Nested(option, value, default, r)
    PROVE  /\ Tail(r) \in Seq(BlockRecord)
           /\ Nested(option, Head(r)[option], default, Tail(r))
<1> DEFINE s == Tail(r)
<1>1. /\ s \in Seq(BlockRecord) /\ Len(r) = Len(s) + 1 /\ r[1] = Head(r)
      /\ \A i \in 1..Len(s) : r[i + 1] = s[i]
      /\ Len(s) \in Nat
  OBVIOUS
<1> HIDE DEF s
<1>2. LeaveFrom(option, Head(r)[option], default, s, 1)
  <2>1. 1 \in 1..Len(r) /\ 1 \in 1..(Len(s) + 1)
    BY <1>1
  <2>2. LeaveFrom(option, Head(r)[option], default, r, 1 + 1)
    BY <1>1, <2>1 DEF Nested
  <2> QED
    BY <1>1, <2>1, <2>2, LeaveShift
<1>3. ASSUME NEW i \in 1..Len(s) PROVE LeaveFrom(option, s[i][option], default, s, i + 1)
  <2>1. i + 1 \in 1..Len(r) /\ i + 1 \in 1..(Len(s) + 1) /\ r[i + 1] = s[i]
    BY <1>1
  <2>2. LeaveFrom(option, s[i][option], default, r, (i + 1) + 1)
    BY <2>1 DEF Nested
  <2> QED
    BY <1>1, <2>1, <2>2, LeaveShift
<1> QED
  BY <1>1, <1>2, <1>3 DEF Nested, s

-----------------------------------------------------------------------------
(* The invariant.                                                          *)

\* A cursor that is not in use has no block open.
Outside == \A q \in Cursor : pc[q] # "open" => blocks[q] = <<>>

\* The options of a cursor in use are those of its blocks.
ScopedAt(q) ==
    pc[q] = "open" /\ client[q] \notin skipped =>
       /\ Nested("numpy", useNumpy[client[q]], "off", blocks[q])
       /\ Nested("columnar", columnar[q], "none", blocks[q])

\* A client no cursor in use has, and no block left, has the default.
Unheld(c) == \A q \in Cursor : pc[q] = "open" => client[q] # c
Reset == \A c \in Client : c \notin skipped /\ Unheld(c) => useNumpy[c] = "off"

ScopedInv == Outside /\ (\A q \in Cursor : ScopedAt(q)) /\ Reset
ArgsInv == ArgsTypeOK /\ ScopedInv

LEMMA ArgsStart == ArgsInit => ArgsInv
<1> SUFFICES ASSUME ArgsInit PROVE ArgsInv
  OBVIOUS
<1> USE DEF ArgsInit
<1>1. \A q \in Cursor : pc[q] = "none"
  BY DEF Init
<1>2. <<>> \in Seq([numpy : {"on", "off"}, columnar : Option,
                    gave : [numpy : Option, columnar : Option]])
  OBVIOUS
<1>3. ArgsTypeOK
  BY <1>2 DEF ArgsTypeOK, Option
<1> QED
  BY <1>1, <1>3 DEF ArgsInv, ScopedInv, Outside, ScopedAt, Reset

\* Every step is a step of the pool, or leaves it alone.
LEMMA PoolUnderneath == [ArgsNext]_allVars => [Next]_vars
<1> SUFFICES ASSUME [ArgsNext]_allVars PROVE Next \/ UNCHANGED vars
  OBVIOUS
<1>1. CASE UNCHANGED allVars
  BY <1>1 DEF allVars
<1>2. CASE (Cleanup \/ MarkClosed) /\ UNCHANGED argsVars
  BY <1>2 DEF Next
<1>3. ASSUME NEW q \in Cursor, LendFresh(q) PROVE Next
  BY <1>3 DEF LendFresh, Next, Step, Pull
<1>4. ASSUME NEW q \in Cursor, PoolStep(q) PROVE Next
  BY <1>4 DEF PoolStep, Next, Step, Pull
<1>5. ASSUME NEW q \in Cursor, Block(q) PROVE UNCHANGED vars
  BY <1>5 DEF Block, Enter, EnterRaises, Exit, ExitRaises, Raise
<1> QED
  BY <1>1, <1>2, <1>3, <1>4, <1>5 DEF ArgsNext

-----------------------------------------------------------------------------
(* The steps.                                                              *)

\* A cursor in use has a client, and has it alone.
LEMMA OwnClient ==
    ASSUME TypeOK, LendingInv, NEW q \in Cursor, pc[q] = "open"
    PROVE  /\ client[q] \in Client
           /\ \A p \in Cursor : p # q => client[p] # client[q]
<1>1. client[q] # NoClient /\ client[q] \in Client
  BY DEF TypeOK, Holding
<1> QED
  BY <1>1 DEF LendingInv, ExclusiveLending

\* A block of q opens or ends: of the others, nothing changes.
LEMMA BlockKeeps ==
    ASSUME TypeOK, LendingInv, ArgsInv, NEW q \in Cursor, pc[q] = "open",
           UNCHANGED <<pc, client>>, skipped \subseteq skipped',
           \A c \in Client : c # client[q] => useNumpy'[c] = useNumpy[c],
           \A p \in Cursor : p # q => columnar'[p] = columnar[p] /\ blocks'[p] = blocks[p],
           client[q] \notin skipped' =>
              /\ Nested("numpy", useNumpy'[client[q]], "off", blocks'[q])
              /\ Nested("columnar", columnar'[q], "none", blocks'[q])
    PROVE  ScopedInv'
<1>1. ScopedInv
  BY DEF ArgsInv
<1>2. Outside'
  BY <1>1 DEF ScopedInv, Outside
<1>3. ASSUME NEW p \in Cursor PROVE ScopedAt(p)'
  <2>1. CASE p = q
    BY <2>1 DEF ScopedAt
  <2>2. CASE p # q
    <3> SUFFICES ASSUME pc[p] = "open", client[p] \notin skipped'
                 PROVE  /\ Nested("numpy", useNumpy'[client[p]], "off", blocks'[p])
                        /\ Nested("columnar", columnar'[p], "none", blocks'[p])
      BY DEF ScopedAt
    <3>1. client[p] \in Client /\ client[p] # client[q]
      BY <2>2, OwnClient
    <3>2. ScopedAt(p) /\ client[p] \notin skipped
      BY <1>1 DEF ScopedInv
    <3> QED
      BY <2>2, <3>1, <3>2 DEF ScopedAt
  <2> QED
    BY <2>1, <2>2
<1>4. Reset'
  <2> SUFFICES ASSUME NEW c \in Client, c \notin skipped', Unheld(c)'
               PROVE  useNumpy'[c] = "off"
    BY DEF Reset
  <2>1. Unheld(c) /\ c # client[q] /\ c \notin skipped
    BY DEF Unheld
  <2> QED
    BY <1>1, <2>1 DEF ScopedInv, Reset
<1> QED
  BY <1>2, <1>3, <1>4 DEF ScopedInv

LEMMA BlockStep ==
    ASSUME TypeOK, LendingInv, ArgsInv, NEW q \in Cursor, Block(q)
    PROVE  ArgsInv'
<1> USE DEF vars, cursorVars
<1>1. /\ pc[q] = "open" /\ UNCHANGED <<pc, client, hasNumpy>>
  BY DEF Block, Enter, EnterRaises, Exit, ExitRaises, Raise
<1>2. client[q] \in Client
  BY <1>1, OwnClient
<1>3. /\ useNumpy \in [Client -> {"on", "off"}] /\ columnar \in [Cursor -> Option]
      /\ blocks \in [Cursor -> Seq(BlockRecord)] /\ skipped \subseteq Client
      /\ useNumpy[client[q]] \in {"on", "off"} /\ columnar[q] \in Option
      /\ blocks[q] \in Seq(BlockRecord)
  BY <1>2 DEF ArgsInv, ArgsTypeOK, BlockRecord
<1>4. /\ client[q] \notin skipped => Nested("numpy", useNumpy[client[q]], "off", blocks[q])
      /\ client[q] \notin skipped => Nested("columnar", columnar[q], "none", blocks[q])
  BY <1>1 DEF ArgsInv, ScopedInv, ScopedAt
<1>5. "numpy" \in Options /\ "columnar" \in Options
  BY DEF Options
<1>6. ASSUME useNumpy' \in [Client -> {"on", "off"}], columnar' \in [Cursor -> Option],
             blocks' \in [Cursor -> Seq(BlockRecord)], skipped' \subseteq Client
      PROVE  ArgsTypeOK'
  BY <1>1, <1>6 DEF ArgsInv, ArgsTypeOK, BlockRecord
<1>7. ASSUME NEW wantColumnar \in Option, NEW wantNumpy \in Option, Enter(q, wantColumnar, wantNumpy)
      PROVE  ArgsInv'
  <2>1. PICK b : b = [numpy |-> useNumpy[client[q]], columnar |-> columnar[q],
                      gave |-> [numpy |-> wantNumpy, columnar |-> wantColumnar]]
    OBVIOUS
  <2>2. /\ b \in BlockRecord /\ b["numpy"] = useNumpy[client[q]] /\ b["columnar"] = columnar[q]
        /\ b.gave["numpy"] = wantNumpy /\ b.gave["columnar"] = wantColumnar
    BY <1>3, <2>1 DEF BlockRecord
  <2>3. /\ blocks' = [blocks EXCEPT ![q] = <<b>> \o @] /\ skipped' = skipped
        /\ useNumpy' = [useNumpy EXCEPT ![client[q]] = Given(wantNumpy, @)]
        /\ columnar' = [columnar EXCEPT ![q] = Given(wantColumnar, @)]
    BY <1>7, <2>1 DEF Enter
  <2>4. <<b>> \o blocks[q] \in Seq(BlockRecord)
    BY <1>3, <2>2
  <2>5. ArgsTypeOK'
    <3>1. Given(wantNumpy, useNumpy[client[q]]) \in {"on", "off"}
      BY <1>3 DEF Given, Option
    <3>2. Given(wantColumnar, columnar[q]) \in Option
      BY <1>3 DEF Given
    <3> QED
      BY <1>2, <1>3, <1>6, <2>3, <2>4, <3>1, <3>2
  <2>6. client[q] \notin skipped =>
           /\ Nested("numpy", Given(wantNumpy, useNumpy[client[q]]), "off", <<b>> \o blocks[q])
           /\ Nested("columnar", Given(wantColumnar, columnar[q]), "none", <<b>> \o blocks[q])
    BY <1>3, <1>4, <1>5, <2>2, NestedEnter
  <2>7. ScopedInv'
    BY <1>1, <1>2, <1>3, <2>3, <2>6, BlockKeeps
  <2> QED
    BY <2>5, <2>7 DEF ArgsInv
<1>8. CASE EnterRaises(q)
  <2>1. /\ blocks' = blocks /\ columnar' = columnar /\ skipped' = skipped \cup {client[q]}
        /\ useNumpy' = [useNumpy EXCEPT ![client[q]] = "on"]
    BY <1>8 DEF EnterRaises
  <2>2. ScopedInv'
    BY <1>1, <1>2, <1>3, <2>1, BlockKeeps
  <2> QED
    BY <1>2, <1>3, <1>6, <2>1, <2>2 DEF ArgsInv
<1>9. CASE Exit(q)
  <2>1. /\ blocks[q] # <<>> /\ skipped' = skipped
        /\ useNumpy' = [useNumpy EXCEPT ![client[q]] = Head(blocks[q]).numpy]
        /\ columnar' = [columnar EXCEPT ![q] = Head(blocks[q]).columnar]
        /\ blocks' = [blocks EXCEPT ![q] = Tail(@)]
    BY <1>9 DEF Exit
  <2>2. Head(blocks[q]) \in BlockRecord /\ Tail(blocks[q]) \in Seq(BlockRecord)
    BY <1>3, <2>1
  <2>3. Head(blocks[q])["numpy"] \in {"on", "off"} /\ Head(blocks[q])["columnar"] \in Option
    BY <2>2 DEF BlockRecord
  <2>4. ArgsTypeOK'
    BY <1>2, <1>3, <1>6, <2>1, <2>2, <2>3
  <2>5. client[q] \notin skipped =>
           /\ Nested("numpy", Head(blocks[q])["numpy"], "off", Tail(blocks[q]))
           /\ Nested("columnar", Head(blocks[q])["columnar"], "none", Tail(blocks[q]))
    BY <1>3, <1>4, <1>5, <2>1, NestedExit
  <2>6. ScopedInv'
    BY <1>1, <1>2, <1>3, <2>1, <2>5, BlockKeeps
  <2> QED
    BY <2>4, <2>6 DEF ArgsInv
<1>10. CASE ExitRaises(q) \/ Raise(q)
  <2>1. /\ blocks[q] # <<>> /\ columnar' = columnar /\ skipped' = skipped \cup {client[q]}
        /\ useNumpy' \in {useNumpy, [useNumpy EXCEPT ![client[q]] = "on"]}
        /\ blocks' = [blocks EXCEPT ![q] = Tail(@)]
    BY <1>10 DEF ExitRaises, Raise
  <2>2. Tail(blocks[q]) \in Seq(BlockRecord)
    BY <1>3, <2>1
  <2>3. ArgsTypeOK'
    BY <1>2, <1>3, <1>6, <2>1, <2>2
  <2>4. ScopedInv'
    BY <1>1, <1>2, <1>3, <2>1, BlockKeeps
  <2> QED
    BY <2>3, <2>4 DEF ArgsInv
<1> QED
  BY <1>7, <1>8, <1>9, <1>10 DEF Block

\* Steps that give no cursor a client, and take one only from a cursor that
\* is outside its blocks.
LEMMA GiveBackKeeps ==
    ASSUME TypeOK, LendingInv, ArgsInv, UNCHANGED argsVars,
           \A p \in Cursor : pc'[p] = "open" => pc[p] = "open" /\ client'[p] = client[p],
           \A p \in Cursor : pc[p] = "open" /\ pc'[p] # "open" => blocks[p] = <<>>
    PROVE  ArgsInv'
<1> USE DEF argsVars
<1>1. ScopedInv /\ ArgsTypeOK'
  BY DEF ArgsInv, ArgsTypeOK
<1>2. Outside'
  BY <1>1 DEF ScopedInv, Outside
<1>3. ASSUME NEW p \in Cursor PROVE ScopedAt(p)'
  BY <1>1 DEF ScopedInv, ScopedAt
<1>4. Reset'
  <2> SUFFICES ASSUME NEW c \in Client, c \notin skipped, Unheld(c)'
               PROVE  useNumpy[c] = "off"
    BY DEF Reset
  <2>1. CASE Unheld(c)
    BY <1>1, <2>1 DEF ScopedInv, Reset
  <2>2. CASE ~Unheld(c)
    <3>1. PICK p \in Cursor : pc[p] = "open" /\ client[p] = c
      BY <2>2 DEF Unheld
    <3>2. blocks[p] = <<>>
      BY <3>1 DEF Unheld
    <3>3. Nested("numpy", useNumpy[c], "off", <<>>)
      BY <1>1, <3>1, <3>2 DEF ScopedInv, ScopedAt
    <3> QED
      BY <3>3, NestedEmpty
  <2> QED
    BY <2>1, <2>2
<1> QED
  BY <1>1, <1>2, <1>3, <1>4 DEF ArgsInv, ScopedInv

LEMMA PoolKeeps ==
    ASSUME TypeOK, LendingInv, ArgsInv, NEW q \in Cursor, PoolStep(q)
    PROVE  ArgsInv'
<1> USE DEF cursorVars
<1>1. UNCHANGED argsVars
  BY DEF PoolStep
<1>2. pc \in [Cursor -> Phase] /\ client \in [Cursor -> Client \cup {NoClient}]
  BY DEF TypeOK
<1>3. CASE CheckOpen(q) \/ PullClosed(q) \/ PullRefused(q) \/ Query(q)
  BY <1>1, <1>2, <1>3, GiveBackKeeps DEF CheckOpen, PullClosed, PullRefused, Query, Send, Drain, Fail
<1>4. CASE Del(q) \/ Release(q)
  BY <1>1, <1>2, <1>4, GiveBackKeeps DEF Del, Release, PushRaises, Push, Gone
<1>5. CASE blocks[q] = <<>> /\ (Close(q) \/ Forget(q))
  BY <1>1, <1>2, <1>5, GiveBackKeeps DEF Close, Forget
<1> QED
  BY <1>3, <1>4, <1>5 DEF PoolStep

\* A cursor is lent a client nobody has: a reset one from the pool, or a new one.
LEMMA LendStep ==
    ASSUME TypeOK, LendingInv, ArgsInv, NEW q \in Cursor, LendFresh(q)
    PROVE  ArgsInv'
<1>1. PICK c \in Client :
         /\ pc' = [pc EXCEPT ![q] = "open"] /\ client' = [client EXCEPT ![q] = c]
         /\ \A p \in Cursor : client[p] # c
         /\ \/ UNCHANGED <<useNumpy, skipped>>
            \/ useNumpy' = [useNumpy EXCEPT ![c] = "off"] /\ skipped' = skipped \ {c}
  <2>1. client \in [Cursor -> Client \cup {NoClient}] /\ NoClient \notin Client
    BY PoolAssumption DEF TypeOK
  <2>2. CASE PullIdle(q) /\ UNCHANGED <<useNumpy, skipped>>
    <3>1. PICK c \in pool : Lend(q, keys + 1, c)
      BY <2>2 DEF PullIdle
    <3>2. c \in Client /\ \A p \in Cursor : client[p] # c
      BY <2>1 DEF TypeOK, LendingInv, ExclusiveLending
    <3> QED
      BY <2>2, <3>1, <3>2 DEF Lend
  <2>3. CASE /\ PullConnect(q) /\ useNumpy' = [useNumpy EXCEPT ![client'[q]] = "off"]
             /\ skipped' = skipped \ {client'[q]}
    <3>1. PICK c \in Unborn : Lend(q, keys + 1, c)
      BY <2>3 DEF PullConnect
    <3>2. c \in Client /\ \A p \in Cursor : client[p] # c
      BY <2>1 DEF Unborn, Range
    <3>3. client'[q] = c
      BY <2>1, <3>1 DEF Lend
    <3> QED
      BY <2>3, <3>1, <3>2, <3>3 DEF Lend
  <2> QED
    BY <2>2, <2>3 DEF LendFresh
<1>2. /\ columnar' = [columnar EXCEPT ![q] = "none"] /\ UNCHANGED <<hasNumpy, blocks>>
      /\ pc[q] # "open"
  BY DEF LendFresh, PullIdle, PullConnect
<1>3. /\ pc \in [Cursor -> Phase] /\ client \in [Cursor -> Client \cup {NoClient}]
      /\ useNumpy \in [Client -> {"on", "off"}] /\ columnar \in [Cursor -> Option]
  BY DEF TypeOK, ArgsInv, ArgsTypeOK
<1>4. ArgsTypeOK'
  BY <1>1, <1>2, <1>3 DEF ArgsInv, ArgsTypeOK, Option
<1>5. Outside'
  BY <1>1, <1>2, <1>3 DEF ArgsInv, ScopedInv, Outside
<1>6. \A d \in Client : d # c => useNumpy'[d] = useNumpy[d]
  BY <1>1, <1>3
<1>7. c \notin skipped' => useNumpy'[c] = "off"
  <2>1. c \notin skipped => useNumpy[c] = "off"
    BY <1>1 DEF ArgsInv, ScopedInv, Reset, Unheld
  <2> QED
    BY <1>1, <1>3, <2>1
<1>8. \A d \in Client : d # c /\ d \notin skipped' => d \notin skipped
  BY <1>1
<1>9. ASSUME NEW p \in Cursor PROVE ScopedAt(p)'
  <2>1. CASE p = q
    <3>1. blocks'[q] = <<>> /\ columnar'[q] = "none" /\ client'[q] = c
      BY <1>1, <1>2, <1>3 DEF ArgsInv, ScopedInv, Outside
    <3> QED
      BY <1>7, <2>1, <3>1, NestedEmpty DEF ScopedAt
  <2>2. CASE p # q
    <3>1. pc'[p] = pc[p] /\ client'[p] = client[p] /\ columnar'[p] = columnar[p] /\ blocks' = blocks
      BY <1>1, <1>2, <1>3, <2>2
    <3> SUFFICES ASSUME pc[p] = "open", client[p] \notin skipped'
                 PROVE  /\ Nested("numpy", useNumpy'[client[p]], "off", blocks[p])
                        /\ Nested("columnar", columnar[p], "none", blocks[p])
      BY <3>1 DEF ScopedAt
    <3>2. client[p] \in Client /\ client[p] # c
      BY <1>1, OwnClient
    <3>3. ScopedAt(p) /\ client[p] \notin skipped /\ useNumpy'[client[p]] = useNumpy[client[p]]
      BY <1>6, <1>8, <3>2 DEF ArgsInv, ScopedInv
    <3> QED
      BY <3>3 DEF ScopedAt
  <2> QED
    BY <2>1, <2>2
<1>10. Reset'
  <2> SUFFICES ASSUME NEW d \in Client, d \notin skipped', Unheld(d)'
               PROVE  useNumpy'[d] = "off"
    BY DEF Reset
  <2>1. pc'[q] = "open" /\ client'[q] = c
    BY <1>1, <1>3
  <2>2. d # c
    BY <2>1 DEF Unheld
  <2>3. Unheld(d)
    <3> SUFFICES ASSUME NEW p \in Cursor, pc[p] = "open" PROVE client[p] # d
      BY DEF Unheld
    <3>1. p # q /\ pc'[p] = "open" /\ client'[p] = client[p]
      BY <1>1, <1>2, <1>3
    <3> QED
      BY <3>1 DEF Unheld
  <2> QED
    BY <1>6, <1>8, <2>2, <2>3 DEF ArgsInv, ScopedInv, Reset
<1> QED
  BY <1>4, <1>5, <1>9, <1>10 DEF ArgsInv, ScopedInv

LEMMA ArgsStep == TypeOK /\ LendingInv /\ ArgsInv /\ [ArgsNext]_allVars => ArgsInv'
<1> SUFFICES ASSUME TypeOK, LendingInv, ArgsInv, [ArgsNext]_allVars PROVE ArgsInv'
  OBVIOUS
<1>1. CASE UNCHANGED allVars
  BY <1>1, GiveBackKeeps DEF allVars, vars, cursorVars
<1>2. CASE (Cleanup \/ MarkClosed) /\ UNCHANGED argsVars
  BY <1>2, GiveBackKeeps DEF Cleanup, MarkClosed, cursorVars
<1>3. CASE \E q \in Cursor : LendFresh(q) \/ PoolStep(q) \/ Block(q)
  BY <1>3, LendStep, PoolKeeps, BlockStep
<1> QED
  BY <1>1, <1>2, <1>3 DEF ArgsNext

LEMMA ArgsInvariant == ArgsSpec => []ArgsInv
<1>1. ArgsInit => Init
  BY DEF ArgsInit
<1> QED
  BY <1>1, PoolUnderneath, TypeAlways, LendingAlways, ArgsStart, ArgsStep, PTL DEF ArgsSpec

-----------------------------------------------------------------------------
(***************************************************************************)
(* The options of clients and cursors, and what open blocks will restore,  *)
(* keep their types (driver/connection.py).                                *)
(***************************************************************************)
THEOREM ArgsTypeCorrect == ArgsSpec => []ArgsTypeOK
<1>1. ArgsInv => ArgsTypeOK
  BY DEF ArgsInv
<1> QED
  BY <1>1, ArgsInvariant, PTL

(***************************************************************************)
(* Where no block raised, columnar and use_numpy are what the enclosing    *)
(* with blocks of set_query_execution_args() say, for any nesting and for  *)
(* clients lent again in any order.                                        *)
(***************************************************************************)
THEOREM OptionsScopedAlways == ArgsSpec => []OptionsScoped
<1>1. ArgsInv => OptionsScoped
  BY LeaveIsLeaveFrom DEF ArgsInv, ScopedInv, ScopedAt, Nested, OptionsScoped
<1> QED
  BY <1>1, ArgsInvariant, PTL
=============================================================================
