-------------------------- MODULE ModelSaveProofs ---------------------------
(***************************************************************************)
(* That save() does not double a row, raises with update_fields only if    *)
(* there is none, and does not lose a value, for any processes, keys and   *)
(* values.                                                                 *)
(*                                                                         *)
(* OneRow is not inductive: an INSERT relies on a count taken some steps   *)
(* before.  MissingNone says that the answer "no row" stays true until it  *)
(* is acted on, OneMissing that only one save can hold that answer.  What  *)
(* was counted once for a key may have grown meanwhile only if two saves   *)
(* found no row, which is what overlapped records.  HoldsLastSaved is made *)
(* inductive by what the mutations to come will make of a row (Held).      *)
(***************************************************************************)
EXTENDS ModelSave, TLAPS

\* A key with a row has been written.
RowsWritten == \A r \in rows : saved[r.key] # "never"

\* Where updates are counted, a save knows what it counted when it acts.
Answered ==
    \A p \in Process :
        /\ pc[p] = "counting" => counted[p] = -1
        /\ Informed =>
              /\ pc[p] = "altering" => counted[p] \in {0, 1}
              /\ pc[p] = "inserting" => counted[p] = 0
              /\ pc[p] = "raised" => counted[p] = 0 \/ object[p].key \in Wordy

\* Two saves do not both find a key missing, unless they overlap.
OneMissing ==
    \A p, q \in Process, k \in Key :
        Missing(p, k) /\ Missing(q, k) => p = q \/ k \in overlapped

\* A key that has been found missing still is.
MissingNone ==
    \A p \in Process, k \in Key :
        Informed /\ Missing(p, k) /\ k \notin overlapped => RowsOf(k) = {}

SaveInv ==
    TypeOK /\ RowsWritten /\ Answered /\ OneMissing /\ MissingNone /\ OneRow

-----------------------------------------------------------------------------
LEMMA ContentType == Content \subseteq Value
BY SaveAssumption DEF Content

LEMMA ObjectType == [key: Key, value: Content, forced: BOOLEAN] \subseteq Object
BY ContentType DEF Object

\* A mutated table holds what it made of the rows that were there.
LEMMA ChangedFrom ==
    ASSUME TypeOK, NEW m \in Mutation, NEW x \in Changed(m)
    PROVE  /\ x \in Row
           /\ \E r \in rows : r.key = x.key /\ r.stamp = x.stamp
<1>1. CASE x \in rows
  BY <1>1 DEF TypeOK
<1>2. CASE x \notin rows
  <2>1. PICK r \in rows : m.to # "absent" /\ x = [r EXCEPT !.value = m.to]
    BY <1>2 DEF Changed
  <2>2. r \in Row /\ m.to \in Value
    BY <2>1 DEF TypeOK, Mutation
  <2> QED
    BY <2>1, <2>2 DEF Row
<1> QED
  BY <1>1, <1>2

\* A mutation makes one row of one.
LEMMA ChangedOne ==
    ASSUME TypeOK, NEW m \in Mutation, NEW x \in Changed(m), NEW y \in Changed(m),
           x.key = y.key,
           \A r, s \in rows : r.key = x.key /\ s.key = x.key => r = s
    PROVE  x = y
BY DEF TypeOK, Changed, Row, Mutation

-----------------------------------------------------------------------------
\* The server's statements keep the types of the table.
LEMMA InsertedType ==
    ASSUME TypeOK, NEW k \in Key, NEW v \in Value, Inserted(k, v)
    PROVE  /\ rows' \subseteq Row /\ \A r \in rows' : r.stamp < now'
           /\ mutations' \in Seq(Mutation) /\ now' \in Nat
BY DEF TypeOK, Inserted, Row

LEMMA MutatedType ==
    ASSUME TypeOK, NEW k \in Key, NEW to \in Value \cup {"absent"}, Mutated(k, to)
    PROVE  /\ rows' \subseteq Row /\ \A r \in rows' : r.stamp < now'
           /\ mutations' \in Seq(Mutation) /\ now' \in Nat
<1> DEFINE m == [key |-> k, to |-> to, stamp |-> now]
<1>1. m \in Mutation
  BY DEF TypeOK, Mutation
<1>2. now' = now + 1 /\ now' \in Nat
  BY DEF TypeOK, Mutated
<1>3. CASE sync
  <2>1. rows' = Changed(m) /\ mutations' = mutations
    BY <1>3 DEF Mutated
  <2> QED
    BY <1>1, <1>2, <2>1, ChangedFrom DEF TypeOK, Row
<1>4. CASE ~sync
  <2>1. rows' = rows /\ mutations' = Append(mutations, m)
    BY <1>4 DEF Mutated
  <2> QED
    BY <1>1, <1>2, <2>1 DEF TypeOK, Row
<1> QED
  BY <1>3, <1>4

(***************************************************************************)
(* Type correctness: of every step of save() (models/base.py,              *)
(* driver/connection.py) and of the server.                                *)
(***************************************************************************)
LEMMA TypeStep == TypeOK /\ [Next]_vars => TypeOK'
<1> SUFFICES ASSUME TypeOK, [Next]_vars PROVE TypeOK'
  OBVIOUS
<1> USE DEF settings, table, history
<1>1. CASE Apply
  <2>1. Head(mutations) \in Mutation /\ Tail(mutations) \in Seq(Mutation)
    BY <1>1 DEF Apply, TypeOK
  <2>2. rows' \subseteq Row /\ \A r \in rows' : r.stamp < now'
    BY <1>1, <2>1, ChangedFrom DEF Apply, TypeOK
  <2> QED
    BY <1>1, <2>1, <2>2 DEF Apply, TypeOK
<1>2. ASSUME NEW k \in Key, Delete(k) PROVE TypeOK'
  <2>1. Mutated(k, "absent")
    BY <1>2 DEF Delete
  <2>2. saved' \in [Key -> Value \cup {"absent", "never"}] /\ raced' \subseteq Key
    BY <1>2 DEF Delete, TypeOK
  <2>3. UNCHANGED <<settings, pc, object, counted, overlapped>>
    BY <1>2 DEF Delete
  <2> QED
    BY <2>1, <2>2, <2>3, MutatedType DEF TypeOK
<1>3. ASSUME NEW k \in Key, NEW v \in Content, Create(k, v) PROVE TypeOK'
  <2>1. v \in Value /\ Inserted(k, v)
    BY <1>3, ContentType DEF Create
  <2>2. saved' \in [Key -> Value \cup {"absent", "never"}]
    BY <1>3, <2>1 DEF Create, TypeOK
  <2>3. UNCHANGED <<settings, pc, object, counted, overlapped, raced>>
    BY <1>3 DEF Create
  <2> QED
    BY <2>1, <2>2, <2>3, InsertedType DEF TypeOK
<1>4. ASSUME NEW p \in Process, NEW o \in Object, Save(p, o) PROVE TypeOK'
  <2>1. pc' \in [Process -> {"idle", "counting", "altering", "inserting", "raised"}]
    BY <1>4 DEF Save, TypeOK
  <2> QED
    BY <1>4, <2>1 DEF Save, TypeOK
<1>5. ASSUME NEW p \in Process, CountRefused(p) PROVE TypeOK'
  BY <1>5 DEF CountRefused, TypeOK
<1>6. ASSUME NEW p \in Process, Count(p) PROVE TypeOK'
  <2>1. object[p].key \in Key
    BY DEF TypeOK, Object
  <2>2. counted' \in [Process -> {-1, 0, 1}]
    BY <1>6 DEF Count, CountKept, TypeOK
  <2>3. pc' \in [Process -> {"idle", "counting", "altering", "inserting", "raised"}]
    BY <1>6 DEF Count, TypeOK
  <2>4. overlapped' \subseteq Key /\ raced' \subseteq Key
    BY <1>6, <2>1 DEF Count, TypeOK
  <2>5. UNCHANGED <<settings, table, object, saved>>
    BY <1>6 DEF Count
  <2> QED
    BY <2>2, <2>3, <2>4, <2>5 DEF TypeOK
<1>7. ASSUME NEW p \in Process, Alter(p) PROVE TypeOK'
  <2>1. object[p].key \in Key /\ object[p].value \in Value
    BY DEF TypeOK, Object
  <2>2. Mutated(object[p].key, object[p].value)
    BY <1>7 DEF Alter
  <2>3. saved' \in [Key -> Value \cup {"absent", "never"}]
    BY <1>7, <2>1 DEF Alter, TypeOK
  <2>4. pc' \in [Process -> {"idle", "counting", "altering", "inserting", "raised"}]
    BY <1>7 DEF Alter, TypeOK
  <2>5. UNCHANGED <<settings, object, counted, overlapped, raced>>
    BY <1>7 DEF Alter
  <2> QED
    BY <2>1, <2>2, <2>3, <2>4, <2>5, MutatedType DEF TypeOK
<1>8. ASSUME NEW p \in Process, Insert(p) PROVE TypeOK'
  <2>1. object[p].key \in Key /\ object[p].value \in Value
    BY DEF TypeOK, Object
  <2>2. Inserted(object[p].key, object[p].value)
    BY <1>8 DEF Insert
  <2>3. /\ saved' \in [Key -> Value \cup {"absent", "never"}]
        /\ pc' \in [Process -> {"idle", "counting", "altering", "inserting", "raised"}]
    BY <1>8, <2>1 DEF Insert, TypeOK
  <2>4. UNCHANGED <<settings, object, counted, overlapped, raced>>
    BY <1>8 DEF Insert
  <2> QED
    BY <2>1, <2>2, <2>3, <2>4, InsertedType DEF TypeOK
<1>9. ASSUME NEW p \in Process, NotUpdated(p) PROVE TypeOK'
  BY <1>9 DEF NotUpdated, TypeOK
<1>10. ASSUME NEW p \in Process, Caught(p) PROVE TypeOK'
  BY <1>10 DEF Caught, TypeOK
<1>11. CASE UNCHANGED vars
  BY <1>11 DEF vars, TypeOK
<1> QED
  BY <1>1, <1>2, <1>3, <1>4, <1>5, <1>6, <1>7, <1>8, <1>9, <1>10, <1>11, ObjectType
     DEF Next, DoUpdate

LEMMA TypeInit == Init => TypeOK
<1> SUFFICES ASSUME Init PROVE TypeOK
  OBVIOUS
<1>1. (CHOOSE o \in Object : TRUE) \in Object
  <2>1. \E o \in Object : TRUE
    <3>1. PICK k \in Key, v \in Value : TRUE
      BY SaveAssumption
    <3>2. [key |-> k, value |-> v, forced |-> TRUE] \in Object
      BY DEF Object
    <3> QED
      BY <3>2
  <2> QED
    BY <2>1
<1> QED
  BY <1>1 DEF Init, TypeOK

\* Every variable of saving keeps its type, whatever statements interleave.
THEOREM TypeCorrect == Spec => []TypeOK
<1> QED
  BY TypeInit, TypeStep, PTL DEF Spec

-----------------------------------------------------------------------------
\* The table is as it was, or as a mutation made it.
Shrunk == rows' = rows \/ \E m \in Mutation : rows' = Changed(m)

LEMMA MutatedShrunk ==
    ASSUME TypeOK, NEW k \in Key, NEW to \in Value \cup {"absent"}, Mutated(k, to)
    PROVE  Shrunk
<1>1. [key |-> k, to |-> to, stamp |-> now] \in Mutation
  BY DEF TypeOK, Mutation
<1> QED
  BY <1>1 DEF Mutated, Shrunk

\* No row appears by a mutation.
LEMMA ShrunkFrom ==
    ASSUME TypeOK, Shrunk, NEW x \in rows'
    PROVE  \E r \in rows : r.key = x.key
BY ChangedFrom DEF Shrunk

LEMMA ShrunkNone ==
    ASSUME TypeOK, Shrunk, NEW k \in Key, RowsOf(k) = {}
    PROVE  RowsOf(k)' = {}
BY ShrunkFrom DEF RowsOf

LEMMA ShrunkOne ==
    ASSUME TypeOK, OneRow, Shrunk, UNCHANGED settings, overlapped \subseteq overlapped'
    PROVE  OneRow'
<1> SUFFICES ASSUME Informed, NEW x \in rows', NEW y \in rows',
                    x.key = y.key, x.key \notin overlapped
             PROVE  x = y
  BY DEF OneRow, Informed, settings
<1>1. \A r, s \in rows : r.key = x.key /\ s.key = x.key => r = s
  BY DEF OneRow
<1>2. CASE rows' = rows
  BY <1>1, <1>2
<1>3. ASSUME NEW m \in Mutation, rows' = Changed(m) PROVE x = y
  BY <1>1, <1>3, ChangedOne
<1> QED
  BY <1>2, <1>3 DEF Shrunk

LEMMA ShrunkWritten ==
    ASSUME TypeOK, RowsWritten, Shrunk,
           \A k \in Key : saved[k] # "never" => saved'[k] # "never"
    PROVE  RowsWritten'
BY ShrunkFrom DEF RowsWritten, TypeOK, Row

\* A row inserted under a key that has none, or is overlapped, is the only one.
LEMMA InsertedOne ==
    ASSUME TypeOK, OneRow, NEW k \in Key, NEW v \in Value, Inserted(k, v),
           UNCHANGED <<settings, overlapped>>,
           Informed => RowsOf(k) = {} \/ k \in overlapped
    PROVE  OneRow'
BY DEF OneRow, Inserted, Informed, settings, RowsOf

LEMMA InsertedWritten ==
    ASSUME TypeOK, RowsWritten, NEW k \in Key, NEW v \in Value, Inserted(k, v),
           saved' = [saved EXCEPT ![k] = v]
    PROVE  RowsWritten'
BY SaveAssumption DEF RowsWritten, Inserted, TypeOK, Row

\* Of the other keys an insert changes nothing.
LEMMA InsertedElsewhere ==
    ASSUME NEW k \in Key, NEW v \in Value, Inserted(k, v), NEW j \in Key, j # k
    PROVE  RowsOf(j)' = RowsOf(j)
BY DEF Inserted, RowsOf

-----------------------------------------------------------------------------
\* A step that inserts nothing and finds no key missing.
LEMMA NothingNew ==
    ASSUME SaveInv, Shrunk, UNCHANGED settings, overlapped \subseteq overlapped',
           \A p \in Process, k \in Key : Missing(p, k)' => Missing(p, k)
    PROVE  OneMissing' /\ MissingNone' /\ OneRow'
<1>1. OneMissing'
  BY DEF SaveInv, OneMissing
<1>2. MissingNone'
  <2> SUFFICES ASSUME NEW p \in Process, NEW k \in Key,
                      Informed', Missing(p, k)', k \notin overlapped'
               PROVE  RowsOf(k)' = {}
    BY DEF MissingNone
  <2>1. RowsOf(k) = {}
    BY DEF SaveInv, MissingNone, Informed, settings
  <2> QED
    BY <2>1, ShrunkNone DEF SaveInv
<1>3. OneRow'
  BY ShrunkOne DEF SaveInv
<1> QED
  BY <1>1, <1>2, <1>3

LEMMA ApplyStep ==
    ASSUME SaveInv, Apply
    PROVE  RowsWritten' /\ Answered' /\ OneMissing' /\ MissingNone' /\ OneRow'
<1>1. Shrunk
  BY DEF Apply, Shrunk, SaveInv, TypeOK
<1>2. UNCHANGED <<settings, pc, object, counted, saved, overlapped>>
  BY DEF Apply, history
<1>3. RowsWritten'
  BY <1>1, <1>2, ShrunkWritten DEF SaveInv
<1>4. Answered'
  BY <1>2 DEF SaveInv, Answered, Informed, settings
<1> QED
  BY <1>1, <1>2, <1>3, <1>4, NothingNew DEF Missing

LEMMA DeleteStep ==
    ASSUME SaveInv, NEW k \in Key, Delete(k)
    PROVE  RowsWritten' /\ Answered' /\ OneMissing' /\ MissingNone' /\ OneRow'
<1>1. Shrunk
  BY MutatedShrunk DEF Delete, SaveInv
<1>2. UNCHANGED <<settings, pc, object, counted, overlapped>>
  BY DEF Delete
<1>3. RowsWritten'
  <2>1. \A j \in Key : saved[j] # "never" => saved'[j] # "never"
    BY DEF Delete, SaveInv, TypeOK
  <2> QED
    BY <1>1, <2>1, ShrunkWritten DEF SaveInv
<1>4. Answered'
  BY <1>2 DEF SaveInv, Answered, Informed, settings
<1> QED
  BY <1>1, <1>2, <1>3, <1>4, NothingNew DEF Missing

LEMMA CreateStep ==
    ASSUME SaveInv, NEW k \in Key, NEW v \in Content, Create(k, v)
    PROVE  RowsWritten' /\ Answered' /\ OneMissing' /\ MissingNone' /\ OneRow'
<1>1. v \in Value /\ Inserted(k, v)
  BY ContentType DEF Create
<1>2. UNCHANGED <<settings, pc, object, counted, overlapped>>
  BY DEF Create
<1>3. RowsOf(k) = {}
  BY DEF Create, SaveInv, RowsWritten, RowsOf
<1>4. RowsWritten'
  BY <1>1, InsertedWritten DEF Create, SaveInv
<1>5. Answered'
  BY <1>2 DEF SaveInv, Answered, Informed, settings
<1>6. OneMissing'
  BY <1>2 DEF SaveInv, OneMissing, Missing
<1>7. MissingNone'
  <2> SUFFICES ASSUME NEW p \in Process, NEW j \in Key,
                      Informed', Missing(p, j)', j \notin overlapped'
               PROVE  RowsOf(j)' = {}
    BY DEF MissingNone
  <2>1. Missing(p, j) /\ RowsOf(j) = {}
    BY <1>2 DEF SaveInv, MissingNone, Missing, Informed, settings
  <2>2. j # k
    BY <2>1 DEF Create, Saving, Missing
  <2> QED
    BY <1>1, <2>1, <2>2, InsertedElsewhere
<1>8. OneRow'
  BY <1>1, <1>2, <1>3, InsertedOne DEF SaveInv
<1> QED
  BY <1>4, <1>5, <1>6, <1>7, <1>8

LEMMA SaveStep ==
    ASSUME SaveInv, NEW p \in Process, NEW o \in Object, Save(p, o)
    PROVE  RowsWritten' /\ Answered' /\ OneMissing' /\ MissingNone' /\ OneRow'
<1>1. UNCHANGED <<settings, rows, saved, overlapped>>
  BY DEF Save, table, history
<1>2. RowsWritten'
  BY <1>1 DEF SaveInv, RowsWritten
<1>3. counted'[p] = -1 /\ \A q \in Process \ {p} : counted'[q] = counted[q]
  BY DEF Save, SaveInv, TypeOK
<1>4. \A q \in Process \ {p} : pc'[q] = pc[q] /\ object'[q] = object[q]
  BY DEF Save, SaveInv, TypeOK
<1>5. Answered'
  <2>1. pc'[p] = IF keyOnly \/ Counted THEN "counting" ELSE "altering"
    BY DEF Save, SaveInv, TypeOK
  <2>2. Informed' => pc'[p] = "counting"
    BY <1>1, <2>1 DEF Informed, Counted, settings
  <2> QED
    BY <1>1, <1>3, <1>4, <2>1, <2>2 DEF SaveInv, Answered, Informed, settings
<1>6. \A q \in Process, k \in Key : Missing(q, k)' => Missing(q, k)
  BY <1>3, <1>4 DEF Missing
<1> QED
  BY <1>1, <1>2, <1>5, <1>6, NothingNew DEF Shrunk

LEMMA CountRefusedStep ==
    ASSUME SaveInv, NEW p \in Process, CountRefused(p)
    PROVE  RowsWritten' /\ Answered' /\ OneMissing' /\ MissingNone' /\ OneRow'
<1>1. UNCHANGED <<settings, rows, saved, overlapped, object, counted>>
  BY DEF CountRefused, table, history
<1>2. RowsWritten'
  BY <1>1 DEF SaveInv, RowsWritten
<1>3. /\ pc'[p] = "raised" /\ counted[p] = -1 /\ object[p].key \in Wordy
      /\ \A q \in Process \ {p} : pc'[q] = pc[q]
  BY DEF CountRefused, SaveInv, Answered, TypeOK
<1>4. Answered'
  BY <1>1, <1>3 DEF SaveInv, Answered, Informed, settings
<1>5. \A q \in Process, k \in Key : Missing(q, k)' => Missing(q, k)
  BY <1>1, <1>3 DEF Missing
<1> QED
  BY <1>1, <1>2, <1>4, <1>5, NothingNew DEF Shrunk

\* The only step that finds a key missing.
LEMMA CountStep ==
    ASSUME SaveInv, NEW p \in Process, Count(p)
    PROVE  RowsWritten' /\ Answered' /\ OneMissing' /\ MissingNone' /\ OneRow'
<1> DEFINE k == object[p].key
<1>1. UNCHANGED <<settings, rows, saved, object>>
  BY DEF Count, table
<1>2. RowsWritten'
  BY <1>1 DEF SaveInv, RowsWritten
<1>3. \A q \in Process \ {p} : pc'[q] = pc[q] /\ counted'[q] = counted[q]
  BY DEF Count, CountKept, SaveInv, TypeOK
<1>4. /\ counted'[p] = IF RowsOf(k) = {} THEN 0 ELSE 1
      /\ pc'[p] = IF ~keyOnly THEN "altering"
                  ELSE IF RowsOf(k) = {} THEN "inserting" ELSE "idle"
  BY DEF Count, CountKept, SaveInv, TypeOK
<1>5. /\ overlapped \subseteq overlapped'
      /\ RowsOf(k) = {} => \A q \in Process \ {p} : Missing(q, k) => k \in overlapped'
  BY DEF Count
<1>6. Answered'
  BY <1>1, <1>3, <1>4 DEF SaveInv, Answered, Informed, settings
<1>7. \A q \in Process \ {p}, j \in Key : Missing(q, j)' <=> Missing(q, j)
  BY <1>1, <1>3 DEF Missing
<1>8. \A j \in Key : Missing(p, j)' => j = k /\ RowsOf(k) = {}
  BY <1>1, <1>4 DEF Missing
<1>9. OneMissing'
  BY <1>5, <1>7, <1>8 DEF SaveInv, OneMissing
<1>10. MissingNone'
  BY <1>1, <1>5, <1>7, <1>8 DEF SaveInv, MissingNone, Informed, settings, RowsOf
<1>11. OneRow'
  BY <1>1, <1>5 DEF SaveInv, OneRow, Informed, settings
<1> QED
  BY <1>2, <1>6, <1>9, <1>10, <1>11

LEMMA AlterStep ==
    ASSUME SaveInv, NEW p \in Process, Alter(p)
    PROVE  RowsWritten' /\ Answered' /\ OneMissing' /\ MissingNone' /\ OneRow'
<1>1. UNCHANGED <<settings, object, counted, overlapped>>
  BY DEF Alter
<1>2. object[p].key \in Key /\ object[p].value \in Value
  BY DEF SaveInv, TypeOK, Object
<1>3. Shrunk
  BY <1>2, MutatedShrunk DEF Alter, SaveInv
<1>4. RowsWritten'
  <2>1. \A j \in Key : saved[j] # "never" => saved'[j] # "never"
    BY <1>2, SaveAssumption DEF Alter, SaveInv, TypeOK
  <2> QED
    BY <1>3, <2>1, ShrunkWritten DEF SaveInv
<1>5. /\ pc[p] = "altering"
      /\ pc'[p] = IF counted[p] > 0 THEN "idle" ELSE "inserting"
      /\ \A q \in Process \ {p} : pc'[q] = pc[q]
  BY DEF Alter, Over, SaveInv, TypeOK
<1>6. Answered'
  BY <1>1, <1>5 DEF SaveInv, Answered, Informed, settings
<1>7. \A q \in Process, k \in Key : Missing(q, k)' => Missing(q, k)
  BY <1>1, <1>5 DEF Missing
<1> QED
  BY <1>1, <1>3, <1>4, <1>6, <1>7, NothingNew

LEMMA InsertStep ==
    ASSUME SaveInv, NEW p \in Process, Insert(p)
    PROVE  RowsWritten' /\ Answered' /\ OneMissing' /\ MissingNone' /\ OneRow'
<1> DEFINE k == object[p].key
           v == object[p].value
<1>1. UNCHANGED <<settings, object, counted, overlapped>>
  BY DEF Insert
<1>2. k \in Key /\ v \in Value /\ Inserted(k, v)
  BY DEF Insert, SaveInv, TypeOK, Object
<1>3. /\ pc[p] = "inserting" /\ pc'[p] = "idle"
      /\ \A q \in Process \ {p} : pc'[q] = pc[q]
  BY DEF Insert, SaveInv, TypeOK
<1>4. RowsWritten'
  BY <1>2, InsertedWritten DEF Insert, SaveInv
<1>5. Answered'
  BY <1>1, <1>3 DEF SaveInv, Answered, Informed, settings
<1>6. \A q \in Process, j \in Key : Missing(q, j)' => q # p /\ Missing(q, j)
  BY <1>1, <1>3 DEF Missing
<1>7. OneMissing'
  BY <1>1, <1>6 DEF SaveInv, OneMissing
<1>8. Informed => Missing(p, k)
  BY <1>3 DEF SaveInv, Answered, Missing
<1>9. MissingNone'
  <2> SUFFICES ASSUME NEW q \in Process, NEW j \in Key,
                      Informed', Missing(q, j)', j \notin overlapped'
               PROVE  RowsOf(j)' = {}
    BY DEF MissingNone
  <2>1. Informed /\ j \notin overlapped
    BY <1>1 DEF Informed, settings
  <2>2. q # p /\ Missing(q, j)
    BY <1>6
  <2>3. j # k
    BY <1>2, <1>8, <2>1, <2>2 DEF SaveInv, OneMissing
  <2>4. RowsOf(j) = {}
    BY <2>1, <2>2 DEF SaveInv, MissingNone
  <2> QED
    BY <1>2, <2>3, <2>4, InsertedElsewhere
<1>10. OneRow'
  <2>1. Informed => RowsOf(k) = {} \/ k \in overlapped
    BY <1>2, <1>8 DEF SaveInv, MissingNone
  <2> QED
    BY <1>1, <1>2, <2>1, InsertedOne DEF SaveInv
<1> QED
  BY <1>4, <1>5, <1>7, <1>9, <1>10

LEMMA RaiseStep ==
    ASSUME SaveInv, NEW p \in Process, NotUpdated(p) \/ Caught(p)
    PROVE  RowsWritten' /\ Answered' /\ OneMissing' /\ MissingNone' /\ OneRow'
<1>1. UNCHANGED <<settings, rows, saved, overlapped, object, counted>>
  BY DEF NotUpdated, Caught, table, history
<1>2. RowsWritten'
  BY <1>1 DEF SaveInv, RowsWritten
<1>3. /\ \/ pc[p] = "inserting" /\ pc'[p] = "raised"
         \/ pc'[p] = "idle"
      /\ \A q \in Process \ {p} : pc'[q] = pc[q]
  BY DEF NotUpdated, Caught, SaveInv, TypeOK
<1>4. Answered'
  BY <1>1, <1>3 DEF SaveInv, Answered, Informed, settings
<1>5. \A q \in Process, k \in Key : Missing(q, k)' => Missing(q, k)
  BY <1>1, <1>3 DEF Missing
<1> QED
  BY <1>1, <1>2, <1>4, <1>5, NothingNew DEF Shrunk

LEMMA SaveInvStep == SaveInv /\ [Next]_vars => SaveInv'
<1> SUFFICES ASSUME SaveInv, [Next]_vars PROVE SaveInv'
  OBVIOUS
<1> DEFINE Goal == RowsWritten' /\ Answered' /\ OneMissing' /\ MissingNone' /\ OneRow'
<1>1. TypeOK'
  BY TypeStep DEF SaveInv
<1>2. CASE UNCHANGED vars
  <2>1. UNCHANGED <<settings, rows, saved, overlapped, pc, object, counted>>
    BY <1>2 DEF vars, table, history
  <2> QED
    BY <1>1, <2>1 DEF SaveInv, RowsWritten, Answered, OneMissing, MissingNone,
                      OneRow, Missing, RowsOf, Informed, settings
<1>3. CASE Next
  <2>1. Goal
    BY <1>3, ObjectType, ApplyStep, DeleteStep, CreateStep, SaveStep,
       CountRefusedStep, CountStep, AlterStep, InsertStep, RaiseStep
       DEF Next, DoUpdate
  <2> QED
    BY <1>1, <2>1 DEF SaveInv
<1> QED
  BY <1>2, <1>3

LEMMA SaveInvInit == Init => SaveInv
BY TypeInit DEF Init, SaveInv, RowsWritten, Answered, OneMissing, MissingNone,
                OneRow, Missing, RowsOf

LEMMA SaveInvAlways == Spec => []SaveInv
<1> QED
  BY SaveInvInit, SaveInvStep, PTL DEF Spec

\* save() does not double a row (models/base.py, driver/connection.py:149-171),
\* for any number of processes, keys and values.
THEOREM OneRowAlways == Spec => []OneRow
<1>1. SaveInv => OneRow
  BY DEF SaveInv
<1> QED
  BY <1>1, SaveInvAlways, PTL

\* save(update_fields=...) raises only if there is no row.
THEOREM RaisesOnlyIfMissingAlways == Spec => []RaisesOnlyIfMissing
<1>1. SaveInv => RaisesOnlyIfMissing
  <2> SUFFICES ASSUME SaveInv, NEW p \in Process, Informed, pc[p] = "raised",
                      object[p].key \notin Wordy, object[p].key \notin overlapped
               PROVE  RowsOf(object[p].key) = {}
    BY DEF RaisesOnlyIfMissing
  <2>1. object[p].key \in Key /\ Missing(p, object[p].key)
    BY DEF SaveInv, TypeOK, Object, Answered, Missing
  <2> QED
    BY <2>1 DEF SaveInv, MissingNone
<1> QED
  BY <1>1, SaveInvAlways, PTL
-----------------------------------------------------------------------------
(* Values.  HoldsLastSaved looks at a key when all has run; what holds     *)
(* before is that the mutations still to come make its row what was saved  *)
(* (Held).  It needs that a save that counted a row finds it there when it *)
(* alters it (CountedOne).                                                 *)

\* The mutations that will change row r.
Coming(r) ==
    {i \in 1..Len(mutations) : mutations[i].key = r.key /\ r.stamp < mutations[i].stamp}

\* The last of them has the value that was saved last, or the row has.
Latest(r) ==
    /\ Coming(r) = {} => r.value = saved[r.key]
    /\ \A i \in Coming(r) :
          (\A j \in Coming(r) : j <= i) => mutations[i].to = saved[r.key]

Deleted(r) == \E i \in Coming(r) : mutations[i].to = "absent"

Held(k) ==
    /\ \A r \in RowsOf(k) : IF Deleted(r) THEN saved[k] = "absent" ELSE Latest(r)
    /\ saved[k] \in Value => RowsOf(k) # {}

CountedOne ==
    \A p \in Process :
       LET k == object[p].key IN
       Informed /\ pc[p] = "altering" /\ counted[p] > 0 /\ k \notin raced
         => RowsOf(k) # {} /\ ~Deleting(k)

\* Mutations are from the past, and only wait if they are not synchronous.
Waiting ==
    /\ \A i \in 1..Len(mutations) : mutations[i].stamp < now
    /\ sync => mutations = <<>>

HoldInv ==
    /\ SaveInv /\ Waiting /\ CountedOne
    /\ \A k \in Key : Informed /\ k \notin overlapped /\ k \notin raced => Held(k)

\* What a mutation does to the rows it hits, and leaves of the others.
LEMMA ChangedHow ==
    ASSUME TypeOK, NEW m \in Mutation
    PROVE  /\ \A r \in rows : ~(r.key = m.key /\ r.stamp < m.stamp) => r \in Changed(m)
           /\ \A r \in rows : r.key = m.key /\ r.stamp < m.stamp /\ m.to # "absent" =>
                 \E x \in Changed(m) : x.key = r.key
           /\ \A x \in Changed(m) :
                 \/ x \in rows /\ ~(x.key = m.key /\ x.stamp < m.stamp)
                 \/ /\ m.to # "absent" /\ x.value = m.to
                    /\ \E r \in rows : /\ r.key = m.key /\ r.stamp < m.stamp
                                       /\ x.key = r.key /\ x.stamp = r.stamp
<1>1. \A r \in rows : ~(r.key = m.key /\ r.stamp < m.stamp) => r \in Changed(m)
  BY DEF Changed
<1>2. ASSUME NEW r \in rows
      PROVE  LET x == [r EXCEPT !.value = m.to]
             IN  x.key = r.key /\ x.stamp = r.stamp /\ x.value = m.to
  BY DEF TypeOK, Row
<1>3. ASSUME NEW r \in rows, r.key = m.key, r.stamp < m.stamp, m.to # "absent"
      PROVE  \E x \in Changed(m) : x.key = r.key
  <2>1. [r EXCEPT !.value = m.to] \in Changed(m)
    BY <1>3 DEF Changed
  <2> QED
    BY <1>2, <2>1
<1>4. ASSUME NEW x \in Changed(m), x \notin rows \/ (x.key = m.key /\ x.stamp < m.stamp)
      PROVE  /\ m.to # "absent" /\ x.value = m.to
             /\ \E r \in rows : /\ r.key = m.key /\ r.stamp < m.stamp
                                /\ x.key = r.key /\ x.stamp = r.stamp
  <2>1. PICK r \in rows : /\ r.key = m.key /\ r.stamp < m.stamp /\ m.to # "absent"
                          /\ x = [r EXCEPT !.value = m.to]
    BY <1>4 DEF Changed
  <2> QED
    BY <1>2, <2>1
<1> QED
  BY <1>1, <1>3, <1>4

\* A key that has a row, and no DELETE to come, keeps one.
Stays(k) == RowsOf(k) # {} /\ ~Deleting(k) => RowsOf(k)' # {} /\ ~Deleting(k)'

LEMMA ChangedStays ==
    ASSUME TypeOK, NEW m \in Mutation, rows' = Changed(m), NEW k \in Key,
           m.key = k => m.to # "absent", RowsOf(k) # {}
    PROVE  RowsOf(k)' # {}
<1>1. PICK r \in rows : r.key = k
  BY DEF RowsOf
<1>2. \E x \in Changed(m) : x.key = k
  BY <1>1, ChangedHow
<1> QED
  BY <1>2 DEF RowsOf

LEMMA ApplyOf ==
    ASSUME TypeOK, Apply
    PROVE  /\ Head(mutations) \in Mutation /\ rows' = Changed(Head(mutations))
           /\ Len(mutations) \in Nat \ {0} /\ Len(mutations') = Len(mutations) - 1
           /\ Head(mutations) = mutations[1]
           /\ \A i \in 1..Len(mutations') : mutations'[i] = mutations[i + 1]
<1>1. mutations \in Seq(Mutation) /\ mutations # <<>>
      /\ rows' = Changed(Head(mutations)) /\ mutations' = Tail(mutations)
  BY DEF TypeOK, Apply
<1>2. /\ Len(mutations) \in Nat \ {0} /\ Len(mutations') = Len(mutations) - 1
      /\ Head(mutations) = mutations[1] /\ Head(mutations) \in Mutation
  BY <1>1
<1>3. \A i \in 1..Len(mutations') : mutations'[i] = mutations[i + 1]
  BY <1>1
<1> QED
  BY <1>1, <1>2, <1>3

LEMMA AppendOf ==
    ASSUME TypeOK, NEW k \in Key, NEW to \in Value \cup {"absent"}, Mutated(k, to), ~sync
    PROVE  /\ rows' = rows /\ Len(mutations) \in Nat /\ Len(mutations') = Len(mutations) + 1
           /\ \A i \in 1..Len(mutations) : mutations'[i] = mutations[i]
           /\ mutations'[Len(mutations) + 1] = [key |-> k, to |-> to, stamp |-> now]
BY DEF Mutated, TypeOK

LEMMA ApplyStays ==
    ASSUME TypeOK, Apply, NEW k \in Key PROVE Stays(k)
<1> SUFFICES ASSUME RowsOf(k) # {}, ~Deleting(k) PROVE RowsOf(k)' # {} /\ ~Deleting(k)'
  BY DEF Stays
<1>1. Head(mutations).key = k => Head(mutations).to # "absent"
  BY ApplyOf DEF Deleting
<1>2. RowsOf(k)' # {}
  BY <1>1, ApplyOf, ChangedStays
<1>3. ~Deleting(k)'
  BY ApplyOf DEF Deleting
<1> QED
  BY <1>2, <1>3

LEMMA MutatedStays ==
    ASSUME TypeOK, NEW j \in Key, NEW to \in Value \cup {"absent"}, Mutated(j, to),
           NEW k \in Key, j = k => to # "absent"
    PROVE  Stays(k)
<1> SUFFICES ASSUME RowsOf(k) # {}, ~Deleting(k) PROVE RowsOf(k)' # {} /\ ~Deleting(k)'
  BY DEF Stays
<1> DEFINE m == [key |-> j, to |-> to, stamp |-> now]
<1>1. CASE sync
  <2>1. rows' = Changed(m) /\ mutations' = mutations /\ m \in Mutation
    BY <1>1 DEF Mutated, TypeOK, Mutation
  <2>2. m.key = k => m.to # "absent"
    OBVIOUS
  <2> HIDE DEF m
  <2>3. RowsOf(k)' # {}
    BY <2>1, <2>2, ChangedStays
  <2> QED
    BY <2>1, <2>3 DEF Deleting
<1>2. CASE ~sync
  <2> DEFINE N == Len(mutations)
  <2>0. /\ rows' = rows /\ N \in Nat /\ Len(mutations') = N + 1
        /\ \A i \in 1..N : mutations'[i] = mutations[i]
        /\ mutations'[N + 1] = m
    BY <1>2, AppendOf
  <2>1. RowsOf(k)' # {}
    BY <2>0 DEF RowsOf
  <2>2. ASSUME NEW i \in 1..Len(mutations'), mutations'[i].key = k
        PROVE  mutations'[i].to # "absent"
    <3>1. CASE i = N + 1
      <4>1. mutations'[i] = m
        BY <2>0, <3>1
      <4> QED
        BY <2>2, <4>1
    <3>2. CASE i # N + 1
      <4>1. i \in 1..N
        <5> HIDE DEF N
        <5> QED
          BY <2>0, <3>2
      <4>2. mutations'[i] = mutations[i]
        BY <2>0, <4>1
      <4> QED
        BY <2>2, <4>1, <4>2 DEF Deleting
    <3> QED
      BY <3>1, <3>2
  <2> QED
    BY <2>1, <2>2 DEF Deleting
<1> QED
  BY <1>1, <1>2

LEMMA InsertedStays ==
    ASSUME NEW j \in Key, NEW v \in Value, Inserted(j, v), NEW k \in Key PROVE Stays(k)
BY DEF Inserted, Stays, RowsOf, Deleting

-----------------------------------------------------------------------------
\* Rows of one stamp under one key have the same mutations to come.
LEMMA HeldApply ==
    ASSUME TypeOK, Apply, NEW k \in Key, Held(k) PROVE Held(k)'
<1> DEFINE m == Head(mutations)
<1>1. /\ m \in Mutation /\ rows' = Changed(m) /\ m = mutations[1] /\ saved' = saved
      /\ Len(mutations) \in Nat \ {0} /\ Len(mutations') = Len(mutations) - 1
      /\ \A i \in 1..Len(mutations') : mutations'[i] = mutations[i + 1]
  BY ApplyOf DEF Apply, history
<1> HIDE DEF m
<1>2. ASSUME NEW r, NEW x, x.key = r.key, x.stamp = r.stamp
      PROVE  /\ \A i \in Coming(x)' : i \in Nat /\ i + 1 \in Coming(r)
             /\ \A i \in Coming(r) : i # 1 => i - 1 \in Coming(x)'
             /\ \A i \in Coming(r) : i \in Nat
             /\ 1 \in Coming(r) <=> m.key = r.key /\ r.stamp < m.stamp
  BY <1>1, <1>2 DEF Coming
<1>3. ASSUME NEW r, NEW x, x.key = r.key, x.stamp = r.stamp,
             1 \in Coming(r) => m.to # "absent"
      PROVE  Deleted(x)' <=> Deleted(r)
  <2>1. ASSUME NEW i \in Coming(x)', mutations'[i].to = "absent" PROVE Deleted(r)
    <3>1. i + 1 \in Coming(r) /\ mutations[i + 1].to = "absent"
      BY <1>1, <1>2, <1>3, <2>1 DEF Coming
    <3> QED
      BY <3>1 DEF Deleted
  <2>2. ASSUME NEW i \in Coming(r), mutations[i].to = "absent" PROVE Deleted(x)'
    <3>1. i # 1
      BY <1>1, <1>3, <2>2
    <3>2. i - 1 \in Coming(x)' /\ mutations'[i - 1] = mutations[i]
      BY <1>1, <1>2, <1>3, <3>1 DEF Coming
    <3> QED
      BY <2>2, <3>2 DEF Deleted
  <2> QED
    BY <2>1, <2>2 DEF Deleted
<1>4. ASSUME NEW r \in rows, NEW x, x.key = r.key, x.stamp = r.stamp, Latest(r),
             x.value = IF 1 \in Coming(r) THEN m.to ELSE r.value
      PROVE  Latest(x)'
  <2>1. CASE Coming(x)' = {}
    <3>1. Coming(r) \subseteq {1}
      BY <1>2, <1>4, <2>1
    <3>2. x.value = saved[r.key]
      BY <1>1, <1>4, <3>1 DEF Latest
    <3> QED
      BY <1>1, <1>4, <2>1, <3>2 DEF Latest
  <2>2. ASSUME NEW i \in Coming(x)', \A j \in Coming(x)' : j <= i
        PROVE  mutations'[i].to = saved'[x.key]
    <3>1. i + 1 \in Coming(r) /\ i \in Nat /\ mutations'[i] = mutations[i + 1]
      BY <1>1, <1>2, <1>4, <2>2 DEF Coming
    <3>2. \A j \in Coming(r) : j <= i + 1
      <4>1. ASSUME NEW j \in Coming(r), j # 1 PROVE j <= i + 1
        <5>1. j \in Nat /\ j - 1 \in Coming(x)'
          BY <1>2, <1>4, <4>1
        <5> QED
          BY <2>2, <3>1, <5>1
      <4> QED
        BY <3>1, <4>1
    <3> QED
      BY <1>1, <1>4, <3>1, <3>2 DEF Latest
  <2>3. CASE Coming(x)' # {}
    BY <2>2, <2>3 DEF Latest
  <2> QED
    BY <2>1, <2>3
<1>5. ASSUME NEW x \in RowsOf(k)' PROVE IF Deleted(x)' THEN saved'[k] = "absent" ELSE Latest(x)'
  <2>1. x \in Changed(m) /\ x.key = k
    BY <1>1 DEF RowsOf
  <2>2. PICK r \in rows : /\ r.key = x.key /\ r.stamp = x.stamp
                          /\ 1 \in Coming(r) => m.to # "absent"
                          /\ x.value = IF 1 \in Coming(r) THEN m.to ELSE r.value
    <3>1. CASE x \in rows /\ ~(x.key = m.key /\ x.stamp < m.stamp)
      <4>1. 1 \notin Coming(x)
        BY <1>2, <3>1
      <4> QED
        BY <3>1, <4>1
    <3>2. CASE ~(x \in rows /\ ~(x.key = m.key /\ x.stamp < m.stamp))
      <4>1. PICK r \in rows : /\ r.key = m.key /\ r.stamp < m.stamp
                              /\ x.key = r.key /\ x.stamp = r.stamp
                              /\ m.to # "absent" /\ x.value = m.to
        BY <1>1, <2>1, <3>2, ChangedHow
      <4>2. 1 \in Coming(r)
        BY <1>2, <4>1
      <4> QED
        BY <4>1, <4>2
    <3> QED
      BY <3>1, <3>2
  <2>3. Deleted(x)' <=> Deleted(r)
    BY <1>3, <2>2
  <2>4. IF Deleted(r) THEN saved[k] = "absent" ELSE Latest(r)
    BY <2>1, <2>2 DEF Held, RowsOf
  <2>5. Latest(r) => Latest(x)'
    BY <1>4, <2>2
  <2> QED
    BY <1>1, <2>3, <2>4, <2>5
<1>6. saved'[k] \in Value => RowsOf(k)' # {}
  <2> SUFFICES ASSUME saved[k] \in Value PROVE RowsOf(k)' # {}
    BY <1>1
  <2>1. PICK r \in rows : r.key = k
    BY DEF Held, RowsOf
  <2>2. saved[k] # "absent"
    BY SaveAssumption
  <2>3. ~Deleted(r)
    BY <2>1, <2>2 DEF Held, RowsOf
  <2>4. m.key = k /\ r.stamp < m.stamp => m.to # "absent"
    BY <1>1, <1>2, <2>1, <2>3 DEF Deleted
  <2>5. \E x \in Changed(m) : x.key = k
    BY <1>1, <2>1, <2>4, ChangedHow
  <2> QED
    BY <1>1, <2>5 DEF RowsOf
<1> QED
  BY <1>5, <1>6 DEF Held

\* A mutation that is queued is the last to come for the rows of its key.
LEMMA HeldQueued ==
    ASSUME TypeOK, Waiting, NEW k \in Key, NEW to \in Value \cup {"absent"},
           Mutated(k, to), ~sync, NEW j \in Key, Held(j),
           \/ j # k /\ saved'[j] = saved[j]
           \/ RowsOf(j) = {} /\ saved'[j] = saved[j]
           \/ j = k /\ to = "absent" /\ saved'[j] = "absent"
           \/ j = k /\ RowsOf(j) # {} /\ ~Deleting(j) /\ to \in Value /\ saved'[j] = to
    PROVE  Held(j)'
<1> DEFINE N == Len(mutations)
<1>1. /\ rows' = rows /\ N \in Nat /\ Len(mutations') = N + 1
      /\ \A i \in 1..N : mutations'[i] = mutations[i]
      /\ mutations'[N + 1] = [key |-> k, to |-> to, stamp |-> now]
  BY AppendOf
<1> HIDE DEF N
<1>2. ASSUME NEW r \in rows, r.key = j
      PROVE  /\ r.stamp < now
             /\ \A i \in Coming(r) : i \in 1..N /\ i \in Coming(r)'
             /\ \A i \in Coming(r)' : i \in Coming(r) \/ (i = N + 1 /\ j = k)
             /\ j = k => N + 1 \in Coming(r)'
             /\ N + 1 \notin Coming(r)
  <2>1. r.stamp < now
    BY DEF TypeOK
  <2>2. \A i \in Coming(r) : i \in 1..N
    BY DEF Coming, N
  <2>3. \A i \in 1..N : i \in Coming(r)' <=> i \in Coming(r)
    BY <1>1 DEF Coming, N
  <2>4. N + 1 \in Coming(r)' <=> j = k
    BY <1>1, <1>2, <2>1 DEF Coming
  <2>5. \A i \in Coming(r)' : i \in 1..N \/ i = N + 1
    BY <1>1 DEF Coming
  <2> QED
    BY <1>1, <2>1, <2>2, <2>3, <2>4, <2>5
<1>3. ASSUME NEW r \in rows, r.key = j
      PROVE  /\ Deleted(r) => Deleted(r)'
             /\ j = k /\ to = "absent" => Deleted(r)'
             /\ j # k => (Deleted(r)' => Deleted(r)) /\ (Latest(r) /\ saved'[j] = saved[j] => Latest(r)')
  <2>1. Deleted(r) => Deleted(r)'
    BY <1>1, <1>2, <1>3 DEF Deleted
  <2>2. j = k /\ to = "absent" => Deleted(r)'
    BY <1>1, <1>2, <1>3 DEF Deleted
  <2>3. j # k => (Deleted(r)' => Deleted(r))
    BY <1>1, <1>2, <1>3 DEF Deleted
  <2>4. j # k => Coming(r)' = Coming(r) /\ \A i \in Coming(r) : mutations'[i] = mutations[i]
    BY <1>1, <1>2, <1>3
  <2>5. j # k /\ Latest(r) /\ saved'[j] = saved[j] => Latest(r)'
    BY <1>3, <2>4 DEF Latest
  <2> QED
    BY <2>1, <2>2, <2>3, <2>5
<1>4. RowsOf(j)' = RowsOf(j)
  BY <1>1 DEF RowsOf
<1>5. CASE j # k /\ saved'[j] = saved[j]
  <2>1. ASSUME NEW r \in rows, r.key = j
        PROVE  IF Deleted(r)' THEN saved'[j] = "absent" ELSE Latest(r)'
    BY <1>3, <1>5, <2>1 DEF Held, RowsOf
  <2> QED
    BY <1>4, <1>5, <2>1 DEF Held, RowsOf
<1>6. CASE RowsOf(j) = {} /\ saved'[j] = saved[j]
  BY <1>4, <1>6 DEF Held
<1>7. CASE j = k /\ to = "absent" /\ saved'[j] = "absent"
  BY <1>1, <1>3, <1>7, SaveAssumption DEF Held, RowsOf
<1>8. CASE j = k /\ RowsOf(j) # {} /\ ~Deleting(j) /\ to \in Value /\ saved'[j] = to
  <2>1. ASSUME NEW r \in rows, r.key = j PROVE ~Deleted(r)' /\ Latest(r)'
    <3>1. ~Deleted(r)'
      <4>1. ASSUME NEW i \in Coming(r)', mutations'[i].to = "absent" PROVE FALSE
        <5>1. i # N + 1
          BY <1>1, <1>8, <4>1, SaveAssumption
        <5>2. i \in 1..N /\ i \in Coming(r) /\ mutations[i].to = "absent"
          BY <1>1, <1>2, <2>1, <4>1, <5>1
        <5> QED
          BY <1>8, <2>1, <5>2 DEF Coming, Deleting
      <4> QED
        BY <4>1 DEF Deleted
    <3>2. Latest(r)'
      <4>1. N + 1 \in Coming(r)' /\ mutations'[N + 1].to = saved'[r.key]
        BY <1>1, <1>2, <1>8, <2>1
      <4>2. ASSUME NEW i \in Coming(r)', \A l \in Coming(r)' : l <= i PROVE i = N + 1
        <5>1. i \in 1..N \/ i = N + 1
          BY <1>2, <2>1, <4>2
        <5> QED
          BY <1>1, <4>1, <4>2, <5>1
      <4> QED
        BY <4>1, <4>2 DEF Latest
    <3> QED
      BY <3>1, <3>2
  <2> QED
    BY <1>4, <1>8, <2>1 DEF Held, RowsOf
<1> QED
  BY <1>5, <1>6, <1>7, <1>8

\* A mutation that is run at once finds none to come.
LEMMA HeldAtOnce ==
    ASSUME TypeOK, Waiting, NEW k \in Key, NEW to \in Value \cup {"absent"},
           Mutated(k, to), sync, NEW j \in Key, Held(j),
           \/ j # k /\ saved'[j] = saved[j]
           \/ RowsOf(j) = {} /\ saved'[j] = saved[j]
           \/ j = k /\ to = "absent" /\ saved'[j] = "absent"
           \/ j = k /\ RowsOf(j) # {} /\ ~Deleting(j) /\ to \in Value /\ saved'[j] = to
    PROVE  Held(j)'
<1> DEFINE m == [key |-> k, to |-> to, stamp |-> now]
<1>1. /\ m \in Mutation /\ rows' = Changed(m) /\ mutations' = <<>> /\ mutations = <<>>
      /\ m.key = k /\ m.to = to /\ m.stamp = now
  BY DEF Mutated, Waiting, TypeOK, Mutation
<1> HIDE DEF m
<1>2. \A r : Coming(r) = {} /\ Coming(r)' = {}
  BY <1>1 DEF Coming
<1>3. (\A r \in RowsOf(j) : r.value = saved[j]) /\ (saved[j] \in Value => RowsOf(j) # {})
  BY <1>2 DEF Held, Deleted, Latest, RowsOf
<1>4. \A r \in rows : r.stamp < now
  BY DEF TypeOK
<1>5. \A x \in rows' : x.key = j =>
         \/ x \in rows /\ j # k
         \/ j = k /\ to # "absent" /\ x.value = to /\ RowsOf(j) # {}
  BY <1>1, <1>4, ChangedHow DEF RowsOf
<1>6. \A x \in rows' : x.key = j => x.value = saved'[j]
  BY <1>3, <1>5 DEF RowsOf
<1>7. saved'[j] \in Value => RowsOf(j)' # {}
  <2> SUFFICES ASSUME saved'[j] \in Value PROVE RowsOf(j)' # {}
    OBVIOUS
  <2>1. RowsOf(j) # {} /\ (j = k => to # "absent")
    BY <1>3, SaveAssumption
  <2> QED
    BY <1>1, <2>1, ChangedStays
<1> QED
  BY <1>2, <1>6, <1>7 DEF Held, Deleted, Latest, RowsOf

\* A row inserted where none was has no mutation to come.
LEMMA HeldInserted ==
    ASSUME TypeOK, Waiting, NEW k \in Key, NEW v \in Value, Inserted(k, v),
           saved' = [saved EXCEPT ![k] = v], NEW j \in Key, Held(j),
           j = k => RowsOf(j) = {}
    PROVE  Held(j)'
<1>0. PICK new : new = [key |-> k, value |-> v, stamp |-> now]
  OBVIOUS
<1>1. /\ rows' = rows \cup {new} /\ mutations' = mutations
      /\ new.key = k /\ new.value = v /\ new.stamp = now
      /\ saved'[k] = v /\ (j # k => saved'[j] = saved[j])
  BY <1>0 DEF Inserted, TypeOK
<1>2. \A r : Coming(r)' = Coming(r)
  BY <1>1 DEF Coming
<1>3. CASE j = k
  <2>1. RowsOf(j)' = {new}
    BY <1>1, <1>3 DEF RowsOf
  <2>2. Coming(new)' = {}
    <3>1. ASSUME NEW i \in 1..Len(mutations) PROVE ~(now < mutations[i].stamp)
      <4>1. mutations[i] \in Mutation
        BY DEF TypeOK
      <4>2. mutations[i].stamp < now /\ mutations[i].stamp \in Nat /\ now \in Nat
        BY <4>1 DEF Waiting, TypeOK, Mutation
      <4> QED
        BY <4>2
    <3> QED
      BY <1>1, <1>2, <3>1 DEF Coming
  <2> QED
    BY <1>1, <1>3, <2>1, <2>2 DEF Held, Deleted, Latest
<1>4. CASE j # k
  <2>1. RowsOf(j)' = RowsOf(j)
    BY <1>1, <1>4 DEF RowsOf
  <2> QED
    BY <1>1, <1>2, <1>4, <2>1 DEF Held, Deleted, Latest, RowsOf
<1> QED
  BY <1>3, <1>4

-----------------------------------------------------------------------------
\* No step counts a row that is not there, or loses one that was counted.
LEMMA CountedKept ==
    ASSUME HoldInv, UNCHANGED settings, raced \subseteq raced',
           \A p \in Process : pc'[p] = "altering" /\ counted'[p] > 0 =>
              /\ pc[p] = "altering" /\ counted[p] > 0 /\ object'[p] = object[p]
              /\ \A k \in Key : k = object[p].key => k \in raced' \/ Stays(k)
    PROVE  CountedOne'
<1> SUFFICES ASSUME NEW p \in Process,
                    (/\ Informed /\ pc[p] = "altering" /\ counted[p] > 0
                     /\ object[p].key \notin raced)'
             PROVE  (RowsOf(object[p].key) # {} /\ ~Deleting(object[p].key))'
  BY DEF CountedOne
<1>1. PICK k \in Key : k = object[p].key
  BY DEF HoldInv, SaveInv, TypeOK, Object
<1>2. /\ pc[p] = "altering" /\ counted[p] > 0 /\ object'[p].key = k
      /\ Stays(k) /\ k \notin raced /\ Informed
  BY <1>1 DEF Informed, settings
<1>3. RowsOf(k) # {} /\ ~Deleting(k)
  BY <1>1, <1>2 DEF HoldInv, CountedOne
<1>4. RowsOf(k)' # {} /\ ~Deleting(k)'
  BY <1>2, <1>3 DEF Stays
<1> QED
  BY <1>2, <1>4 DEF RowsOf, Deleting

LEMMA HoldApply == ASSUME HoldInv, Apply PROVE HoldInv'
<1>1. SaveInv' /\ TypeOK
  BY SaveInvStep DEF HoldInv, SaveInv, Next
<1>2. UNCHANGED <<settings, now, pc, object, counted, saved, overlapped, raced>>
  BY DEF Apply, history
<1>3. Waiting'
  <2>1. \A i \in 1..Len(mutations') : mutations'[i].stamp < now
    BY <1>1, ApplyOf DEF HoldInv, Waiting
  <2>2. ~sync
    BY DEF Apply, HoldInv, Waiting
  <2> QED
    BY <1>2, <2>1, <2>2 DEF Waiting, settings
<1>4. CountedOne'
  BY <1>1, <1>2, ApplyStays, CountedKept
<1>5. ASSUME NEW k \in Key, Held(k) PROVE Held(k)'
  BY <1>1, <1>5, HeldApply
<1> QED
  BY <1>1, <1>2, <1>3, <1>4, <1>5 DEF HoldInv, Informed, settings

LEMMA WaitingPast ==
    ASSUME TypeOK, Waiting
    PROVE  \A i \in 1..Len(mutations) : mutations[i].stamp < now /\ mutations[i].stamp \in Nat
<1> SUFFICES ASSUME NEW i \in 1..Len(mutations)
             PROVE  mutations[i].stamp < now /\ mutations[i].stamp \in Nat
  OBVIOUS
<1>1. mutations[i] \in Mutation
  BY DEF TypeOK
<1> QED
  BY <1>1 DEF Waiting, Mutation

LEMMA WaitingMutated ==
    ASSUME TypeOK, Waiting, UNCHANGED settings,
           NEW k \in Key, NEW to \in Value \cup {"absent"}, Mutated(k, to)
    PROVE  Waiting'
<1>1. now' = now + 1 /\ now \in Nat
  BY DEF Mutated, TypeOK
<1>2. CASE sync
  BY <1>2 DEF Mutated, Waiting, settings
<1>3. CASE ~sync
  <2> DEFINE N == Len(mutations)
  <2>1. /\ N \in Nat /\ Len(mutations') = N + 1
        /\ \A i \in 1..N : mutations'[i] = mutations[i]
        /\ mutations'[N + 1] = [key |-> k, to |-> to, stamp |-> now]
    BY <1>3, AppendOf
  <2>2. \A i \in 1..N : mutations[i].stamp < now /\ mutations[i].stamp \in Nat
    BY WaitingPast
  <2> HIDE DEF N
  <2>3. ASSUME NEW i \in 1..(N + 1) PROVE mutations'[i].stamp < now'
    <3>1. CASE i = N + 1
      BY <1>1, <2>1, <3>1
    <3>2. CASE i # N + 1
      <4>1. i \in 1..N
        BY <2>1, <3>2
      <4> QED
        BY <1>1, <2>1, <2>2, <4>1
    <3> QED
      BY <3>1, <3>2
  <2> QED
    BY <1>3, <2>1, <2>3 DEF Waiting, settings
<1> QED
  BY <1>2, <1>3

LEMMA WaitingInserted ==
    ASSUME TypeOK, Waiting, UNCHANGED settings, NEW k \in Key, NEW v \in Value, Inserted(k, v)
    PROVE  Waiting'
<1>1. \A i \in 1..Len(mutations) : mutations[i].stamp < now /\ mutations[i].stamp \in Nat
  BY WaitingPast
<1> QED
  BY <1>1 DEF Inserted, Waiting, settings, TypeOK

LEMMA HoldDelete == ASSUME HoldInv, NEW k \in Key, Delete(k) PROVE HoldInv'
<1>1. SaveInv' /\ TypeOK /\ Waiting
  BY SaveInvStep DEF HoldInv, SaveInv, Next
<1>2. /\ UNCHANGED <<settings, pc, object, counted, overlapped>> /\ raced \subseteq raced'
      /\ Mutated(k, "absent") /\ "absent" \in Value \cup {"absent"}
      /\ saved'[k] = "absent" /\ \A j \in Key \ {k} : saved'[j] = saved[j]
  BY <1>1 DEF Delete, TypeOK
<1>3. Waiting'
  BY <1>1, <1>2, WaitingMutated
<1>4. CountedOne'
  <2>1. ASSUME NEW p \in Process, pc[p] = "altering", counted[p] > 0, NEW j \in Key,
               j = object[p].key
        PROVE  j \in raced' \/ Stays(j)
    <3>1. CASE j = k
      BY <2>1, <3>1 DEF Delete
    <3>2. CASE j # k
      BY <1>1, <1>2, <3>2, MutatedStays
    <3> QED
      BY <3>1, <3>2
  <2> QED
    BY <1>2, <2>1, CountedKept
<1>5. ASSUME NEW j \in Key, Held(j) PROVE Held(j)'
  BY <1>1, <1>2, <1>5, HeldQueued, HeldAtOnce
<1> QED
  BY <1>1, <1>2, <1>3, <1>4, <1>5 DEF HoldInv, Informed, settings

LEMMA HoldInsert ==
    ASSUME HoldInv, SaveInv', NEW k \in Key, NEW v \in Value, Inserted(k, v),
           saved' = [saved EXCEPT ![k] = v],
           UNCHANGED <<settings, object, counted, overlapped, raced>>,
           \A p \in Process : pc'[p] = "altering" => pc[p] = "altering",
           Informed => RowsOf(k) = {} \/ k \in overlapped
    PROVE  HoldInv'
<1>1. TypeOK /\ Waiting
  BY DEF HoldInv, SaveInv
<1>2. Waiting'
  BY <1>1, WaitingInserted
<1>3. CountedOne'
  <2>1. \A j \in Key : Stays(j)
    BY InsertedStays
  <2> QED
    BY <2>1, CountedKept
<1>4. ASSUME NEW j \in Key, Held(j), j = k => RowsOf(k) = {} PROVE Held(j)'
  BY <1>1, <1>4, HeldInserted
<1> QED
  BY <1>2, <1>3, <1>4 DEF HoldInv, Informed, settings

LEMMA HoldCreate == ASSUME HoldInv, NEW k \in Key, NEW v \in Content, Create(k, v) PROVE HoldInv'
<1>1. SaveInv'
  BY SaveInvStep DEF HoldInv, Next
<1>2. RowsOf(k) = {}
  BY DEF Create, HoldInv, SaveInv, RowsWritten, RowsOf
<1>3. v \in Value
  BY ContentType
<1> QED
  BY <1>1, <1>2, <1>3, HoldInsert DEF Create

LEMMA HoldSaved == ASSUME HoldInv, NEW p \in Process, Insert(p) PROVE HoldInv'
<1> DEFINE k == object[p].key
<1>1. SaveInv'
  BY SaveInvStep DEF HoldInv, Next
<1>2. /\ k \in Key /\ object[p].value \in Value
      /\ pc[p] = "inserting" /\ \A q \in Process : pc'[q] = "altering" => pc[q] = "altering"
  BY DEF Insert, HoldInv, SaveInv, TypeOK, Object
<1>3. Informed => RowsOf(k) = {} \/ k \in overlapped
  BY <1>2 DEF HoldInv, SaveInv, Answered, Missing, MissingNone
<1> QED
  BY <1>1, <1>2, <1>3, HoldInsert DEF Insert

\* The UPDATE of a save finds what its count told, or nothing.
LEMMA HoldAlter == ASSUME HoldInv, NEW p \in Process, Alter(p) PROVE HoldInv'
<1>0. PICK k, v : k = object[p].key /\ v = object[p].value
  OBVIOUS
<1>1. SaveInv' /\ TypeOK /\ Waiting
  BY SaveInvStep DEF HoldInv, SaveInv, Next, DoUpdate
<1>2. /\ k \in Key /\ v \in Value /\ Mutated(k, v) /\ pc[p] = "altering"
      /\ UNCHANGED <<settings, object, counted, overlapped, raced>>
      /\ \A q \in Process : pc'[q] = "altering" => pc[q] = "altering"
      /\ saved' = IF counted[p] > 0 THEN [saved EXCEPT ![k] = v] ELSE saved
  BY <1>0, <1>1 DEF Alter, TypeOK, Object, Over
<1>3. Waiting'
  BY <1>1, <1>2, WaitingMutated
<1>4. v # "absent"
  BY <1>2, SaveAssumption
<1>5. CountedOne'
  <2>1. \A j \in Key : Stays(j)
    BY <1>1, <1>2, <1>4, MutatedStays
  <2> QED
    BY <1>2, <2>1, CountedKept
<1>6. ASSUME NEW j \in Key, Held(j), Informed, j \notin overlapped, j \notin raced
      PROVE  Held(j)'
  <2>1. counted[p] > 0 => saved'[k] = v /\ (j # k => saved'[j] = saved[j])
    BY <1>1, <1>2 DEF TypeOK
  <2>2. CASE counted[p] > 0 /\ j = k
    <3>1. RowsOf(j) # {} /\ ~Deleting(j)
      BY <1>0, <1>2, <1>6, <2>2 DEF HoldInv, CountedOne
    <3> QED
      BY <1>1, <1>2, <1>6, <2>1, <2>2, <3>1, HeldQueued, HeldAtOnce
  <2>3. CASE ~(counted[p] > 0) /\ j = k
    <3>1. counted[p] = 0
      BY <1>2, <1>6, <2>3 DEF HoldInv, SaveInv, Answered
    <3>2. RowsOf(j) = {}
      BY <1>0, <1>2, <1>6, <2>3, <3>1 DEF HoldInv, SaveInv, MissingNone, Missing
    <3> QED
      BY <1>1, <1>2, <1>6, <2>3, <3>2, HeldQueued, HeldAtOnce
  <2>4. CASE j # k
    BY <1>1, <1>2, <1>6, <2>1, <2>4, HeldQueued, HeldAtOnce
  <2> QED
    BY <2>2, <2>3, <2>4
<1> QED
  BY <1>1, <1>2, <1>3, <1>5, <1>6 DEF HoldInv, Informed, settings

LEMMA HoldCount == ASSUME HoldInv, NEW p \in Process, Count(p) PROVE HoldInv'
<1>0. PICK k : k = object[p].key
  OBVIOUS
<1>1. SaveInv' /\ TypeOK
  BY SaveInvStep DEF HoldInv, SaveInv, Next, DoUpdate
<1>2. /\ UNCHANGED <<settings, rows, mutations, now, object, saved>>
      /\ overlapped \subseteq overlapped' /\ raced \subseteq raced'
      /\ RowsOf(k) # {} /\ Deleting(k) => k \in raced'
      /\ counted'[p] = IF RowsOf(k) = {} THEN 0 ELSE 1
      /\ \A q \in Process \ {p} : pc'[q] = pc[q] /\ counted'[q] = counted[q]
  BY <1>0, <1>1 DEF Count, CountKept, table, TypeOK
<1>3. /\ \A j : RowsOf(j)' = RowsOf(j) /\ Deleting(j)' = Deleting(j)
      /\ \A j : Held(j) => Held(j)'
  BY <1>2 DEF RowsOf, Deleting, Held, Deleted, Latest, Coming
<1>4. CountedOne'
  <2> SUFFICES ASSUME NEW q \in Process,
                      (/\ Informed /\ pc[q] = "altering" /\ counted[q] > 0
                       /\ object[q].key \notin raced)'
               PROVE  RowsOf(object[q].key) # {} /\ ~Deleting(object[q].key)
    BY <1>2, <1>3 DEF CountedOne, RowsOf, Deleting
  <2>1. CASE q = p
    BY <1>0, <1>2, <2>1
  <2>2. CASE q # p
    BY <1>2, <2>2 DEF HoldInv, CountedOne, Informed, settings
  <2> QED
    BY <2>1, <2>2
<1> QED
  BY <1>1, <1>2, <1>3, <1>4 DEF HoldInv, Waiting, Informed, settings

LEMMA HoldOther ==
    ASSUME HoldInv, SaveInv', UNCHANGED <<settings, table, history>>,
           \A p \in Process : pc'[p] = "altering" /\ counted'[p] > 0 =>
              pc[p] = "altering" /\ counted[p] > 0 /\ object'[p] = object[p]
    PROVE  HoldInv'
<1>1. UNCHANGED <<rows, mutations, now, saved, overlapped, raced>>
  BY DEF table, history
<1>2. \A k \in Key : Stays(k) /\ (Held(k) => Held(k)')
  BY <1>1 DEF Stays, RowsOf, Deleting, Held, Deleted, Latest, Coming
<1>3. CountedOne'
  BY <1>1, <1>2, CountedKept
<1> QED
  BY <1>1, <1>2, <1>3 DEF HoldInv, Waiting, Informed, settings

LEMMA HoldInvStep == HoldInv /\ [Next]_vars => HoldInv'
<1> SUFFICES ASSUME HoldInv, [Next]_vars PROVE HoldInv'
  OBVIOUS
<1>1. SaveInv' /\ TypeOK
  BY SaveInvStep DEF HoldInv, SaveInv
<1>2. ASSUME NEW p \in Process, NEW o \in Object, Save(p, o) PROVE HoldInv'
  <2>1. counted'[p] = -1 /\ \A q \in Process \ {p} :
           counted'[q] = counted[q] /\ pc'[q] = pc[q] /\ object'[q] = object[q]
    BY <1>1, <1>2 DEF Save, TypeOK
  <2> QED
    BY <1>1, <1>2, <2>1, HoldOther DEF Save
<1>3. ASSUME NEW p \in Process, CountRefused(p) \/ NotUpdated(p) \/ Caught(p) PROVE HoldInv'
  <2>1. \A q \in Process : pc'[q] = "altering" => pc[q] = "altering"
    BY <1>1, <1>3 DEF CountRefused, NotUpdated, Caught, TypeOK
  <2> QED
    BY <1>1, <1>3, <2>1, HoldOther DEF CountRefused, NotUpdated, Caught
<1>4. CASE UNCHANGED vars
  BY <1>1, <1>4, HoldOther DEF vars
<1> QED
  BY <1>2, <1>3, <1>4, ObjectType, HoldApply, HoldDelete, HoldCreate, HoldCount,
     HoldAlter, HoldSaved DEF Next, DoUpdate

(***************************************************************************)
(* save() does not lose a value (models/base.py:65-119,                    *)
(* driver/connection.py:149-171): once all has run, a key has what was     *)
(* saved last, for any processes and any number of statements, run at      *)
(* once or late, unless a DELETE came between a count and its UPDATE.      *)
(***************************************************************************)
THEOREM HoldsLastSavedAlways == Spec => []HoldsLastSaved
<1>1. Init => HoldInv
  BY SaveInvInit, SaveAssumption DEF Init, HoldInv, Waiting, CountedOne, Held, RowsOf
<1>2. HoldInv => HoldsLastSaved
  <2> SUFFICES ASSUME HoldInv, NEW k \in Key, Informed, Settled(k),
                      k \notin overlapped, k \notin raced
               PROVE  {r.value : r \in RowsOf(k)} = {saved[k]} \ {"absent", "never"}
    BY DEF HoldsLastSaved
  <2>1. Held(k) /\ TypeOK
    BY DEF HoldInv, SaveInv
  <2>2. \A r \in RowsOf(k) : Coming(r) = {}
    BY DEF Settled, Coming, RowsOf
  <2>3. \A r \in RowsOf(k) : r.value = saved[k] /\ r.value \in Value
    BY <2>1, <2>2 DEF Held, Deleted, Latest, RowsOf, TypeOK, Row
  <2>4. CASE RowsOf(k) = {}
    BY <2>1, <2>4 DEF Held, TypeOK
  <2>5. CASE RowsOf(k) # {}
    BY <2>3, <2>5, SaveAssumption
  <2> QED
    BY <2>4, <2>5
<1> QED
  BY <1>1, <1>2, HoldInvStep, PTL DEF Spec
=============================================================================
