-------------------------- MODULE SnowflakeProofs --------------------------
(***************************************************************************)
(* Proofs about Snowflake, for any sizes of the bit fields, any workers    *)
(* and any bound on the clocks.                                            *)
(***************************************************************************)
EXTENDS Snowflake, TLAPS

-----------------------------------------------------------------------------
(* Arithmetic of the packed fields.                                        *)

\* Multiplication by a natural number is monotone.
LEMMA TimesMonotone ==
    ASSUME NEW a \in Int, NEW b \in Int, NEW k \in Nat, a <= b
    PROVE  a * k <= b * k
  <1>1. PICK d \in Nat : b = a + d
    <2>1. b - a \in Nat /\ b = a + (b - a)
      OBVIOUS
    <2> QED
      BY <2>1
  <1>2. b * k = a * k + d * k
    BY <1>1
  <1>3. d * k >= 0
    BY <1>1
  <1>4. a * k \in Int /\ d * k \in Int
    BY <1>1
  <1> QED
    BY <1>2, <1>3, <1>4

\* The worker and sequence fields stay below the timestamp field.
LEMMA LowBits ==
    ASSUME NEW w \in Worker, NEW s \in 0..(SeqSize - 1)
    PROVE  /\ w * SeqSize \in Nat /\ NodeCount * SeqSize \in Nat
           /\ w * SeqSize + s \in Nat
           /\ w * SeqSize + s < NodeCount * SeqSize
  <1>1. w \in Nat /\ w + 1 <= NodeCount /\ NodeCount \in Nat /\ SeqSize \in Nat /\ s \in Nat
    BY SnowflakeAssumption
  <1>2. (w + 1) * SeqSize <= NodeCount * SeqSize
    BY <1>1, TimesMonotone
  <1>3. (w + 1) * SeqSize = w * SeqSize + SeqSize
    BY <1>1
  <1>4. w * SeqSize \in Nat /\ NodeCount * SeqSize \in Nat
    BY <1>1
  <1> QED
    BY <1>1, <1>2, <1>3, <1>4

\* An id of a later millisecond is larger, whatever the lower fields hold.
LEMMA PackLater ==
    ASSUME NEW t \in Int, NEW u \in Int, t < u,
           NEW v \in Worker, NEW w \in Worker,
           NEW r \in 0..(SeqSize - 1), NEW s \in 0..(SeqSize - 1)
    PROVE  Pack(t, v, r) \in Int /\ Pack(u, w, s) \in Int /\ Pack(t, v, r) < Pack(u, w, s)
  <1> DEFINE K == NodeCount * SeqSize
  <1>1. K \in Nat /\ v * SeqSize + r \in Nat /\ v * SeqSize + r < K /\ w * SeqSize + s \in Nat
    BY LowBits
  <1>2. (t + 1) * K <= u * K
    BY <1>1, TimesMonotone
  <1>3. (t + 1) * K = t * K + K /\ t * K \in Int /\ u * K \in Int
    BY <1>1
  <1> HIDE DEF K
  <1>4. t * K + (v * SeqSize + r) < u * K + (w * SeqSize + s)
    <2> DEFINE x == v * SeqSize + r
    <2> DEFINE y == w * SeqSize + s
    <2>1. x \in Nat /\ y \in Nat /\ x < K
      BY <1>1
    <2> HIDE DEF x, y
    <2>2. t * K + x < u * K + y
      BY <1>1, <1>2, <1>3, <2>1
    <2> QED
      BY <2>2 DEF x, y
  <1>5. t * K + (v * SeqSize + r) \in Int /\ u * K + (w * SeqSize + s) \in Int
    BY <1>1, <1>3
  <1> QED
    BY <1>4, <1>5 DEF Pack, K

\* Equal ids carry the same worker.
LEMMA PackWorker ==
    ASSUME NEW t \in Int, NEW u \in Int, NEW v \in Worker, NEW w \in Worker,
           NEW r \in 0..(SeqSize - 1), NEW s \in 0..(SeqSize - 1),
           Pack(t, v, r) = Pack(u, w, s)
    PROVE  v = w
  <1>1. t = u
    <2>1. ~(t < u) /\ ~(u < t)
      BY PackLater
    <2> QED
      BY <2>1
  <1>2. t * (NodeCount * SeqSize) \in Int
    BY SnowflakeAssumption
  <1>3. v * SeqSize + r = w * SeqSize + s
    BY <1>1, <1>2, LowBits DEF Pack
  <1>4. v \in Nat /\ w \in Nat /\ SeqSize \in Nat
    BY SnowflakeAssumption
  <1>5. ASSUME NEW a \in Nat, NEW b \in Nat, a < b,
               NEW x \in 0..(SeqSize - 1), NEW y \in 0..(SeqSize - 1)
        PROVE  a * SeqSize + x < b * SeqSize + y
    <2>1. (a + 1) * SeqSize <= b * SeqSize
      BY <1>4, <1>5, TimesMonotone
    <2>2. (a + 1) * SeqSize = a * SeqSize + SeqSize
      BY <1>4
    <2>3. a * SeqSize \in Int /\ b * SeqSize \in Int
      BY <1>4
    <2> QED
      BY <1>4, <1>5, <2>1, <2>2, <2>3
  <1>6. ~(v < w) /\ ~(w < v)
    <2>1. v * SeqSize + r \in Int /\ w * SeqSize + s \in Int
      BY LowBits
    <2> QED
      BY <1>3, <1>4, <1>5, <2>1
  <1> QED
    BY <1>4, <1>6

\* The masked successor: one more, or 0 after the last of the millisecond.
LEMMA NextSequenceFacts ==
    ASSUME NEW w \in Worker, sequence[w] \in 0..(SeqSize - 1)
    PROVE  /\ NextSequence(w) \in 0..(SeqSize - 1)
           /\ NextSequence(w) # 0 => NextSequence(w) = sequence[w] + 1
           /\ NextSequence(w) = 0 => sequence[w] = SeqSize - 1
  <1>1. SeqSize \in Nat \ {0}
    BY SnowflakeAssumption
  <1>2. CASE sequence[w] + 1 < SeqSize
    BY <1>1, <1>2 DEF NextSequence
  <1>3. CASE sequence[w] + 1 = SeqSize
    BY <1>1, <1>3 DEF NextSequence
  <1> QED
    BY <1>1, <1>2, <1>3

-----------------------------------------------------------------------------
(* Type correctness.                                                       *)

\* Returning a number keeps the history typed.
LEMMA ReturnTypes ==
    ASSUME TypeOK, NEW w \in Worker, NEW id \in Int, Return(id, w)
    PROVE  /\ newest' \in [Worker -> Int]
           /\ issued' \subseteq Int /\ reused' \subseteq issued'
  BY DEF TypeOK, Return

\* Every variable of the generator keeps its type.
THEOREM TypeCorrect == Spec => []TypeOK
  <1> USE SnowflakeAssumption
  <1>1. Init => TypeOK
    BY DEF Init, TypeOK
  <1>2. TypeOK /\ [Next]_vars => TypeOK'
    <2> SUFFICES ASSUME TypeOK, [Next]_vars
                 PROVE  TypeOK'
      OBVIOUS
    <2> USE DEF workerVars, historyVars
    <2>1. CASE UNCHANGED vars
      BY <2>1 DEF vars, TypeOK
    <2>2. ASSUME NEW w \in Worker, NEW t \in 0..MaxTime, NEW s \in 0..(SeqSize - 1)
          PROVE  Pack(t, w, s) \in Int
      BY LowBits DEF Pack
    <2>3. ASSUME NEW w \in Worker, GetId(w) \/ Tick(w) \/ StepBack(w) \/ Restart(w)
          PROVE  TypeOK'
      <3>1. CASE Reject(w)
        BY <2>1, <3>1 DEF Reject
      <3>2. CASE NewMillisecond(w)
        <4>1. clock[w] \in 0..MaxTime /\ 0 \in 0..(SeqSize - 1)
          BY DEF TypeOK
        <4>2. Pack(clock[w], w, 0) \in Int
          BY <2>2, <4>1
        <4> QED
          BY <3>2, <4>1, <4>2, ReturnTypes DEF NewMillisecond, TypeOK
      <3>3. CASE SameMillisecond(w)
        <4>1. clock[w] \in 0..MaxTime /\ NextSequence(w) \in 0..(SeqSize - 1)
          BY NextSequenceFacts DEF TypeOK
        <4>2. Pack(clock[w], w, NextSequence(w)) \in Int
          BY <2>2, <4>1
        <4> QED
          BY <3>3, <4>1, <4>2, ReturnTypes DEF SameMillisecond, TypeOK
      <3>4. CASE Exhaust(w)
        BY <3>4 DEF Exhaust, TypeOK
      <3>5. CASE NextMillis(w)
        <4>1. clock[w] \in 0..MaxTime /\ 0 \in 0..(SeqSize - 1)
          BY DEF TypeOK
        <4>2. Pack(clock[w], w, 0) \in Int
          BY <2>2, <4>1
        <4> QED
          BY <3>5, <4>1, <4>2, ReturnTypes DEF NextMillis, TypeOK
      <3>6. CASE Tick(w)
        BY <3>6 DEF Tick, TypeOK
      <3>7. CASE StepBack(w)
        BY <3>7 DEF StepBack, TypeOK
      <3>8. CASE Restart(w)
        BY <3>8 DEF Restart, TypeOK
      <3> QED
        BY <2>3, <3>1, <3>2, <3>3, <3>4, <3>5, <3>6, <3>7, <3>8 DEF GetId
    <2> QED
      BY <2>1, <2>3 DEF Next
  <1> QED
    BY <1>1, <1>2, PTL DEF Spec

-----------------------------------------------------------------------------
(* Uniqueness.  An id is new because it is larger than every earlier id of *)
(* its worker and carries the worker's own pair.  That the newest id of a  *)
(* worker is the one packed from last_timestamp and sequence is what makes *)
(* the next one larger; across a restart the clock takes over.             *)

\* Every id was packed by a worker that has reached it.
Attributed ==
    \A i \in issued : \E w \in Worker, t \in Nat, s \in 0..(SeqSize - 1) :
        i = Pack(t, w, s) /\ i <= newest[w]

\* The newest id of a worker is behind whatever it packs next.
Behind(w) ==
    /\ pc[w] = "waiting" => last[w] # -1 /\ sequence[w] = 0
    /\ last[w] # -1 /\ pc[w] = "idle" => newest[w] = Pack(last[w], w, sequence[w])
    /\ pc[w] = "waiting" => newest[w] = Pack(last[w], w, SeqSize - 1)
    /\ last[w] = -1 => newest[w] < Pack(floor[w] + 1, w, 0)
    /\ floor[w] < clock[w]
    /\ last[w] # -1 => floor[w] < last[w]

UniqueInv == Attributed /\ NoIdReused /\ \A w \in Worker : Behind(w)

\* Returning an id larger than the worker's newest one reuses none.
LEMMA ReturnFresh ==
    ASSUME TypeOK, Attributed, NoIdReused,
           NEW w \in Worker, NEW t \in Nat, NEW s \in 0..(SeqSize - 1),
           Pack(t, w, s) > newest[w], Return(Pack(t, w, s), w)
    PROVE  Attributed' /\ NoIdReused'
  <1> DEFINE id == Pack(t, w, s)
  <1>1. id \in Int
    BY LowBits DEF Pack
  <1>2. id \notin issued
    <2> SUFFICES ASSUME id \in issued PROVE FALSE
      OBVIOUS
    <2>1. PICK v \in Worker, u \in Nat, r \in 0..(SeqSize - 1) :
             id = Pack(u, v, r) /\ id <= newest[v]
      BY DEF Attributed
    <2>2. v = w
      BY <2>1, PackWorker
    <2> QED
      BY <1>1, <2>1, <2>2 DEF TypeOK
  <1>3. NoIdReused'
    BY <1>2 DEF Return, NoIdReused
  <1>4. /\ newest'[w] = id /\ \A v \in Worker : v # w => newest'[v] = newest[v]
        /\ issued' = issued \cup {id}
    BY DEF Return, TypeOK
  <1>5. Attributed'
    <2> SUFFICES ASSUME NEW i \in issued'
                 PROVE  \E v \in Worker, u \in Nat, r \in 0..(SeqSize - 1) :
                           i = Pack(u, v, r) /\ i <= newest'[v]
      BY DEF Attributed
    <2>1. CASE i = id
      BY <1>1, <1>4, <2>1
    <2>2. CASE i \in issued
      <3>1. PICK v \in Worker, u \in Nat, r \in 0..(SeqSize - 1) :
               i = Pack(u, v, r) /\ i <= newest[v]
        BY <2>2 DEF Attributed
      <3>2. newest[v] <= newest'[v]
        <4>1. newest[v] \in Int
          BY DEF TypeOK
        <4> QED
          BY <1>1, <1>4, <4>1
      <3>3. i \in Int /\ newest[v] \in Int /\ newest'[v] \in Int
        BY <2>2, <1>1, <1>4 DEF TypeOK
      <3> QED
        BY <3>1, <3>2, <3>3
    <2> QED
      BY <1>4, <2>1, <2>2
  <1> QED
    BY <1>3, <1>5

\* A worker untouched by a step stays behind its next id.
LEMMA OthersBehind ==
    ASSUME NEW w \in Worker, NEW v \in Worker, v # w, Behind(v), TypeOK,
           GetId(w) \/ Tick(w) \/ StepBack(w) \/ Restart(w)
    PROVE  Behind(v)'
  <1>1. /\ clock'[v] = clock[v] /\ last'[v] = last[v] /\ sequence'[v] = sequence[v]
        /\ pc'[v] = pc[v] /\ floor'[v] = floor[v] /\ newest'[v] = newest[v]
    <2> USE DEF TypeOK, workerVars, historyVars
    <2>1. CASE Reject(w)
      BY <2>1 DEF Reject, vars
    <2>2. CASE NewMillisecond(w)
      BY <2>2 DEF NewMillisecond, Return
    <2>3. CASE SameMillisecond(w)
      BY <2>3 DEF SameMillisecond, Return
    <2>4. CASE Exhaust(w)
      BY <2>4 DEF Exhaust
    <2>5. CASE NextMillis(w)
      BY <2>5 DEF NextMillis, Return
    <2>6. CASE Tick(w) \/ StepBack(w)
      BY <2>6 DEF Tick, StepBack
    <2>7. CASE Restart(w)
      BY <2>7 DEF Restart
    <2> QED
      BY <2>1, <2>2, <2>3, <2>4, <2>5, <2>6, <2>7 DEF GetId
  <1> QED
    BY <1>1 DEF Behind, Pack

\* A step that returns an id returns one larger than the worker's newest.
LEMMA ReturnsNewer ==
    ASSUME TypeOK, NEW w \in Worker, Behind(w),
           NewMillisecond(w) \/ SameMillisecond(w) \/ NextMillis(w)
    PROVE  \E t \in Nat, s \in 0..(SeqSize - 1) :
              /\ Pack(t, w, s) > newest[w] /\ Return(Pack(t, w, s), w)
              /\ clock'[w] = t /\ last'[w] = t /\ sequence'[w] = s
              /\ pc'[w] = "idle" /\ floor'[w] = floor[w]
  <1> USE SnowflakeAssumption
  <1>0. /\ clock[w] \in 0..MaxTime /\ last[w] \in -1..MaxTime
        /\ floor[w] \in -1..MaxTime /\ newest[w] \in Int
        /\ sequence[w] \in 0..(SeqSize - 1)
        /\ 0 \in 0..(SeqSize - 1) /\ SeqSize - 1 \in 0..(SeqSize - 1)
    BY DEF TypeOK
  <1>1. CASE NewMillisecond(w)
    <2>1. clock[w] > last[w] /\ pc[w] = "idle" /\ Return(Pack(clock[w], w, 0), w)
      BY <1>1 DEF NewMillisecond
    <2>2. /\ clock'[w] = clock[w] /\ last'[w] = clock[w] /\ sequence'[w] = 0
          /\ pc'[w] = "idle" /\ floor'[w] = floor[w]
      BY <1>1 DEF NewMillisecond, TypeOK
    <2>3. Pack(clock[w], w, 0) > newest[w]
      <3>1. CASE last[w] = -1
        <4>1. newest[w] < Pack(floor[w] + 1, w, 0) /\ floor[w] < clock[w]
          BY <3>1 DEF Behind
        <4>2. CASE clock[w] = floor[w] + 1
          BY <4>1, <4>2
        <4>3. CASE floor[w] + 1 < clock[w]
          <5>1. /\ Pack(floor[w] + 1, w, 0) < Pack(clock[w], w, 0)
                /\ Pack(floor[w] + 1, w, 0) \in Int /\ Pack(clock[w], w, 0) \in Int
            BY <1>0, <4>3, PackLater
          <5> QED
            BY <1>0, <4>1, <5>1
        <4> QED
          BY <1>0, <4>1, <4>2, <4>3
      <3>2. CASE last[w] # -1
        <4>1. newest[w] = Pack(last[w], w, sequence[w])
          BY <2>1, <3>2 DEF Behind
        <4>2. Pack(last[w], w, sequence[w]) < Pack(clock[w], w, 0)
          BY <1>0, <2>1, PackLater
        <4> QED
          BY <4>1, <4>2
      <3> QED
        BY <3>1, <3>2
    <2> QED
      BY <1>0, <2>1, <2>2, <2>3
  <1>2. CASE SameMillisecond(w)
    <2> DEFINE s == NextSequence(w)
    <2>1. /\ pc[w] = "idle" /\ clock[w] = last[w] /\ s # 0
          /\ Return(Pack(clock[w], w, s), w)
      BY <1>2 DEF SameMillisecond
    <2>2. /\ clock'[w] = clock[w] /\ last'[w] = clock[w] /\ sequence'[w] = s
          /\ pc'[w] = "idle" /\ floor'[w] = floor[w]
      BY <1>2, <2>1 DEF SameMillisecond, TypeOK
    <2>3. s \in 0..(SeqSize - 1) /\ s = sequence[w] + 1
      BY <1>0, <2>1, NextSequenceFacts
    <2>4. newest[w] = Pack(clock[w], w, sequence[w])
      BY <1>0, <2>1 DEF Behind
    <2>5. Pack(clock[w], w, s) = Pack(clock[w], w, sequence[w]) + 1
      <3>1. clock[w] * (NodeCount * SeqSize) \in Int /\ w * SeqSize \in Int
        BY <1>0
      <3> QED
        BY <1>0, <2>3, <3>1 DEF Pack
    <2> QED
      BY <1>0, <2>1, <2>2, <2>3, <2>4, <2>5
  <1>3. CASE NextMillis(w)
    <2>1. /\ pc[w] = "waiting" /\ clock[w] > last[w]
          /\ Return(Pack(clock[w], w, 0), w)
      BY <1>3 DEF NextMillis
    <2>2. sequence[w] = 0 /\ newest[w] = Pack(last[w], w, SeqSize - 1)
      BY <2>1 DEF Behind
    <2>3. /\ clock'[w] = clock[w] /\ last'[w] = clock[w] /\ sequence'[w] = 0
          /\ pc'[w] = "idle" /\ floor'[w] = floor[w]
      BY <1>3, <2>2 DEF NextMillis, TypeOK
    <2>4. Pack(last[w], w, SeqSize - 1) < Pack(clock[w], w, 0)
      BY <1>0, <2>1, PackLater
    <2> QED
      BY <1>0, <2>1, <2>2, <2>3, <2>4
  <1> QED
    BY <1>1, <1>2, <1>3

\* The inductive step, under the assumption on the clocks after a restart.
LEMMA UniqueStep ==
    ASSUME ~BehindAfterRestart, TypeOK, UniqueInv, [Next]_vars
    PROVE  UniqueInv'
  <1> USE SnowflakeAssumption DEF workerVars, historyVars
  <1>1. CASE UNCHANGED vars
    BY <1>1 DEF vars, UniqueInv, Attributed, NoIdReused, Behind, Pack
  <1>2. ASSUME NEW w \in Worker, GetId(w) \/ Tick(w) \/ StepBack(w) \/ Restart(w)
        PROVE  UniqueInv'
    <2>0. /\ clock[w] \in 0..MaxTime /\ last[w] \in -1..MaxTime
          /\ floor[w] \in -1..MaxTime /\ newest[w] \in Int
          /\ sequence[w] \in 0..(SeqSize - 1)
          /\ 0 \in 0..(SeqSize - 1) /\ SeqSize - 1 \in 0..(SeqSize - 1)
      BY DEF TypeOK
    <2>1. Behind(w) /\ Attributed /\ NoIdReused
      BY DEF UniqueInv
    <2>2. ASSUME Attributed', NoIdReused', Behind(w)'
          PROVE  UniqueInv'
      BY <1>2, <2>2, OthersBehind DEF UniqueInv
    <2>3. ASSUME UNCHANGED historyVars
          PROVE  Attributed' /\ NoIdReused'
      BY <2>1, <2>3 DEF Attributed, NoIdReused, Pack
    <2>4. CASE Reject(w)
      BY <1>1, <2>4 DEF Reject
    <2>5. CASE NewMillisecond(w) \/ SameMillisecond(w) \/ NextMillis(w)
      <3>1. PICK t \in Nat, s \in 0..(SeqSize - 1) :
              /\ Pack(t, w, s) > newest[w] /\ Return(Pack(t, w, s), w)
              /\ clock'[w] = t /\ last'[w] = t /\ sequence'[w] = s
              /\ pc'[w] = "idle" /\ floor'[w] = floor[w]
        BY <2>1, <2>5, ReturnsNewer
      <3>2. Attributed' /\ NoIdReused'
        BY <2>1, <3>1, ReturnFresh
      <3>3. newest'[w] = Pack(t, w, s)
        BY <3>1 DEF Return, TypeOK
      <3>4. floor[w] < t
        <4>1. clock'[w] = clock[w] /\ floor[w] < clock[w]
          BY <2>1, <2>5 DEF NewMillisecond, SameMillisecond, NextMillis, Behind
        <4> QED
          BY <3>1, <4>1
      <3>5. Behind(w)'
        BY <3>1, <3>3, <3>4 DEF Behind, Pack
      <3> QED
        BY <2>2, <3>2, <3>5
    <2>6. CASE Exhaust(w)
      <3>1. /\ pc[w] = "idle" /\ clock[w] = last[w] /\ NextSequence(w) = 0
            /\ UNCHANGED historyVars
        BY <2>6 DEF Exhaust
      <3>2. /\ pc'[w] = "waiting" /\ sequence'[w] = 0 /\ last'[w] = last[w]
            /\ clock'[w] = clock[w] /\ floor'[w] = floor[w] /\ newest'[w] = newest[w]
        BY <2>6 DEF Exhaust, TypeOK
      <3>3. sequence[w] = SeqSize - 1
        BY <2>0, <3>1, NextSequenceFacts
      <3>4. last[w] # -1 /\ newest[w] = Pack(last[w], w, SeqSize - 1)
        BY <2>0, <2>1, <3>1, <3>3 DEF Behind
      <3>5. Behind(w)'
        BY <2>1, <3>2, <3>4 DEF Behind, Pack
      <3> QED
        BY <2>2, <2>3, <3>1, <3>5
    <2>7. CASE Tick(w) \/ StepBack(w)
      <3>1. /\ UNCHANGED historyVars
            /\ floor[w] < clock'[w]
            /\ last' = last /\ sequence' = sequence /\ pc' = pc /\ floor' = floor
        <4>1. CASE Tick(w)
          BY <2>0, <2>1, <4>1 DEF Tick, TypeOK, Behind
        <4>2. CASE StepBack(w)
          BY <4>2 DEF StepBack, TypeOK
        <4> QED
          BY <2>7, <4>1, <4>2
      <3>2. Behind(w)'
        BY <2>1, <3>1 DEF Behind, Pack
      <3> QED
        BY <2>2, <2>3, <3>1, <3>2
    <2>8. CASE Restart(w)
      <3>1. last[w] # -1 /\ clock[w] > last[w] /\ UNCHANGED historyVars
        BY <2>8 DEF Restart
      <3>2. /\ floor'[w] = last[w] /\ last'[w] = -1 /\ sequence'[w] = 0
            /\ pc'[w] = "idle" /\ clock'[w] = clock[w] /\ newest'[w] = newest[w]
        BY <2>8 DEF Restart, TypeOK
      <3>3. newest[w] < Pack(last[w] + 1, w, 0)
        <4>1. \E r \in 0..(SeqSize - 1) : newest[w] = Pack(last[w], w, r)
          <5>1. pc[w] \in {"idle", "waiting"}
            BY DEF TypeOK
          <5> QED
            BY <2>0, <2>1, <3>1, <5>1 DEF Behind
        <4> QED
          BY <2>0, <4>1, PackLater
      <3>4. Behind(w)'
        BY <3>1, <3>2, <3>3 DEF Behind, Pack
      <3> QED
        BY <2>2, <2>3, <3>1, <3>4
    <2> QED
      BY <1>2, <2>4, <2>5, <2>6, <2>7, <2>8 DEF GetId
  <1> QED
    BY <1>1, <1>2 DEF Next

\* UniqueInv holds throughout, given clocks that are past a restart's floor.
LEMMA UniqueInvariant ==
    ASSUME ~BehindAfterRestart
    PROVE  Spec => []UniqueInv
  <1>1. Init => UniqueInv
    <2> SUFFICES ASSUME Init PROVE UniqueInv
      OBVIOUS
    <2>1. Attributed /\ NoIdReused
      BY DEF Init, Attributed, NoIdReused
    <2>2. ASSUME NEW w \in Worker PROVE Behind(w)
      <3>1. /\ pc[w] = "idle" /\ last[w] = -1 /\ floor[w] = -1 /\ newest[w] = -1
            /\ clock[w] \in 0..MaxTime
        BY DEF Init
      <3>2. Pack(0, w, 0) >= 0 /\ Pack(0, w, 0) \in Int
        BY SnowflakeAssumption DEF Pack
      <3>3. floor[w] + 1 = 0
        BY <3>1
      <3>4. newest[w] < Pack(floor[w] + 1, w, 0)
        BY <3>1, <3>2, <3>3
      <3>5. floor[w] < clock[w]
        BY <3>1, SnowflakeAssumption
      <3> QED
        BY <3>1, <3>4, <3>5 DEF Behind
    <2> QED
      BY <2>1, <2>2 DEF UniqueInv
  <1>2. TypeOK /\ UniqueInv /\ [Next]_vars => UniqueInv'
    BY UniqueStep
  <1> QED
    BY <1>1, <1>2, TypeCorrect, PTL DEF Spec

(***************************************************************************)
(* No id is returned twice by any workers, if a restarted process never    *)
(* finds its clock behind the timestamps it used before.                   *)
(***************************************************************************)
THEOREM UniqueCorrect ==
    ASSUME ~BehindAfterRestart
    PROVE  Spec => []NoIdReused
  <1>1. UniqueInv => NoIdReused
    BY DEF UniqueInv
  <1> QED
    BY <1>1, UniqueInvariant, PTL

(***************************************************************************)
(* Under the same condition each worker's ids grow.                        *)
(***************************************************************************)
THEOREM IncrementalCorrect ==
    ASSUME ~BehindAfterRestart
    PROVE  Spec => Incremental
  <1> DEFINE Grows == \A w \in Worker : newest'[w] # newest[w] => newest'[w] > newest[w]
  <1>1. TypeOK /\ UniqueInv /\ [Next]_vars => [Grows]_vars
    <2> SUFFICES ASSUME TypeOK, UniqueInv, Next,
                        NEW w \in Worker, newest'[w] # newest[w]
                 PROVE  newest'[w] > newest[w]
      OBVIOUS
    <2> USE DEF workerVars, historyVars
    <2>1. PICK v \in Worker : GetId(v) \/ Tick(v) \/ StepBack(v) \/ Restart(v)
      BY DEF Next
    <2>2. CASE NewMillisecond(v) \/ SameMillisecond(v) \/ NextMillis(v)
      <3>1. PICK t \in Nat, s \in 0..(SeqSize - 1) :
              Pack(t, v, s) > newest[v] /\ Return(Pack(t, v, s), v)
        BY <2>2, ReturnsNewer DEF UniqueInv
      <3> QED
        BY <3>1 DEF Return, TypeOK
    <2>3. CASE Reject(v) \/ Exhaust(v) \/ Tick(v) \/ StepBack(v) \/ Restart(v)
      BY <2>3 DEF Reject, vars, Exhaust, Tick, StepBack, Restart
    <2> QED
      BY <2>1, <2>2, <2>3 DEF GetId
  <1> QED
    BY <1>1, TypeCorrect, UniqueInvariant, PTL DEF Spec, Incremental
=============================================================================
