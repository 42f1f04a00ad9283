----------------------------- MODULE ModelSave ------------------------------
(***************************************************************************)
(* Model.save() on a ClickHouse table: ClickhouseModel._do_update, the     *)
(* UPDATE that Cursor.execute counts beforehand, and the INSERT that       *)
(* follows when no row was counted.                                        *)
(*                                                                         *)
(* The server has no transaction and no unique key.  An UPDATE or a DELETE *)
(* is a mutation: it changes the rows inserted before it, at once with the *)
(* setting mutations_sync, else at some later time.  The count, the UPDATE *)
(* and the INSERT are three statements, and other processes run theirs in  *)
(* between.                                                                *)
(***************************************************************************)
EXTENDS Integers, Sequences

CONSTANTS
    Process,
    Key,
    Wordy,     \* keys that hold a word the statement is searched for, as text
    Value,     \* what the fields other than the key may hold
    MaxEvents  \* bound on the inserts and mutations that begin an operation

ASSUME SaveAssumption ==
    /\ Key # {} /\ Wordy \subseteq Key
    /\ Value # {} /\ {"absent", "never"} \cap Value = {}
    /\ MaxEvents \in Nat

VARIABLES
    counts,       \* CLICKHOUSE_ENABLE_UPDATE_ROWCOUNT
    distributed,  \* the engine of the model is Distributed
    keyOnly,      \* the model has no field but its key
    sync,         \* mutations_sync
    rows,         \* the table
    mutations,    \* those the server has not run yet
    now,          \* orders inserts and mutations
    pc,           \* where each process is
    object,       \* what it saves; forced: with update_fields
    counted,      \* the row count of its UPDATE: 1 for any number above 0
    saved,        \* history: what was last written under each key
    overlapped,   \* history: keys of which two saves at a time found no row
    raced         \* history: keys deleted between a count and its UPDATE, or
                  \* counted before their DELETE had run

settings == <<counts, distributed, keyOnly, sync>>
table == <<rows, mutations, now>>
history == <<saved, overlapped, raced>>
vars == <<settings, table, pc, object, counted, history>>

Content == IF keyOnly THEN {CHOOSE v \in Value : TRUE} ELSE Value
Row == [key: Key, value: Value, stamp: Nat]
Mutation == [key: Key, to: Value \cup {"absent"}, stamp: Nat]
Object == [key: Key, value: Value, forced: BOOLEAN]

Init ==
    /\ counts \in BOOLEAN /\ distributed \in BOOLEAN
    /\ keyOnly \in BOOLEAN /\ sync \in BOOLEAN
    /\ rows = {} /\ mutations = <<>> /\ now = 0
    /\ pc = [p \in Process |-> "idle"]
    /\ object = [p \in Process |-> CHOOSE o \in Object : TRUE]
    /\ counted = [p \in Process |-> -1]
    /\ saved = [k \in Key |-> "never"]
    /\ overlapped = {} /\ raced = {}

RowsOf(k) == {r \in rows : r.key = k}
Saving(p, k) == pc[p] # "idle" /\ object[p].key = k

\* The process has been told that no row has its key, and acts on that.
Missing(p, k) ==
    /\ pc[p] \in {"altering", "inserting", "raised"}
    /\ object[p].key = k /\ counted[p] = 0

\* A DELETE of the key that has not run yet.
Deleting(k) ==
    \E i \in 1..Len(mutations) : mutations[i].key = k /\ mutations[i].to = "absent"

-----------------------------------------------------------------------------
(* The server.                                                             *)

Inserted(k, v) ==
    /\ rows' = rows \cup {[key |-> k, value |-> v, stamp |-> now]}
    /\ now' = now + 1
    /\ UNCHANGED mutations

Changed(m) ==
    LET hit == {r \in rows : r.key = m.key /\ r.stamp < m.stamp}
    IN  (rows \ hit) \cup
        (IF m.to = "absent" THEN {} ELSE {[r EXCEPT !.value = m.to] : r \in hit})

Mutated(k, to) ==
    LET m == [key |-> k, to |-> to, stamp |-> now]
    IN  /\ now' = now + 1
        /\ IF sync THEN rows' = Changed(m) /\ UNCHANGED mutations
                   ELSE mutations' = Append(mutations, m) /\ UNCHANGED rows

Apply ==
    /\ mutations # <<>>
    /\ rows' = Changed(Head(mutations))
    /\ mutations' = Tail(mutations)
    /\ UNCHANGED <<settings, now, pc, object, counted, history>>

-----------------------------------------------------------------------------
(* Statements that are not part of save().                                 *)

\* objects.create() under an id the program has not used.
Create(k, v) ==
    /\ now < MaxEvents /\ saved[k] = "never"
    /\ \A p \in Process : ~Saving(p, k)
    /\ Inserted(k, v)
    /\ saved' = [saved EXCEPT ![k] = v]
    /\ UNCHANGED <<settings, pc, object, counted, overlapped, raced>>

\* delete(): its count is not asked for.
Delete(k) ==
    /\ now < MaxEvents /\ saved[k] # "never"
    /\ Mutated(k, "absent")
    /\ saved' = [saved EXCEPT ![k] = "absent"]
    /\ raced' = IF \E p \in Process : /\ pc[p] = "altering" /\ counted[p] > 0
                                      /\ object[p].key = k
                THEN raced \cup {k} ELSE raced
    /\ UNCHANGED <<settings, pc, object, counted, overlapped>>

-----------------------------------------------------------------------------
(* save(): _do_update, and what Django does with its answer.               *)

\* update_pattern knows ALTER TABLE name UPDATE, not ... ON CLUSTER ... UPDATE.
CountedNever == FALSE
Counted == counts /\ ~distributed

\* A model with only a key asks whether it exists, with update_fields nothing.
Save(p, o) ==
    /\ pc[p] = "idle" /\ now < MaxEvents
    /\ ~(keyOnly /\ o.forced)
    /\ object' = [object EXCEPT ![p] = o]
    /\ pc' = [pc EXCEPT ![p] = IF keyOnly \/ Counted THEN "counting" ELSE "altering"]
    /\ counted' = [counted EXCEPT ![p] = -1]
    /\ UNCHANGED <<settings, table, history>>

\* The WHERE of the UPDATE cannot be cut out: the count is refused.
CountRefused(p) ==
    /\ pc[p] = "counting" /\ ~keyOnly /\ object[p].key \in Wordy
    /\ pc' = [pc EXCEPT ![p] = "raised"]
    /\ UNCHANGED <<settings, table, object, counted, history>>

\* _reset_state() comes after the count is fetched and before it is kept.
CountReset(p, n) == counted' = [counted EXCEPT ![p] = -1]
CountKept(p, n) == counted' = [counted EXCEPT ![p] = n]

\* filtered.exists(), or the count of Cursor.execute.
Count(p) ==
    LET k == object[p].key
        n == IF RowsOf(k) = {} THEN 0 ELSE 1
    IN
    /\ pc[p] = "counting" /\ (keyOnly \/ k \notin Wordy)
    /\ CountKept(p, n)
    /\ pc' = [pc EXCEPT ![p] = IF ~keyOnly THEN "altering"
                               ELSE IF n = 0 THEN "inserting" ELSE "idle"]
    /\ overlapped' = IF RowsOf(k) = {} /\ \E q \in Process \ {p} : Missing(q, k)
                     THEN overlapped \cup {k} ELSE overlapped
    /\ raced' = IF RowsOf(k) # {} /\ Deleting(k) THEN raced \cup {k} ELSE raced
    /\ UNCHANGED <<settings, table, object, saved>>

\* The UPDATE is sent whatever was counted; save() is over when a row was.
OverOrZero(p) == counted[p] >= 0
Over(p) == counted[p] > 0

Alter(p) ==
    /\ pc[p] = "altering"
    /\ Mutated(object[p].key, object[p].value)
    /\ pc' = [pc EXCEPT ![p] = IF Over(p) THEN "idle" ELSE "inserting"]
    /\ saved' = IF Over(p) THEN [saved EXCEPT ![object[p].key] = object[p].value]
                ELSE saved
    /\ UNCHANGED <<settings, object, counted, overlapped, raced>>

Insert(p) ==
    /\ pc[p] = "inserting" /\ ~object[p].forced
    /\ Inserted(object[p].key, object[p].value)
    /\ pc' = [pc EXCEPT ![p] = "idle"]
    /\ saved' = [saved EXCEPT ![object[p].key] = object[p].value]
    /\ UNCHANGED <<settings, object, counted, overlapped, raced>>

\* "Save with update_fields did not affect any rows."
NotUpdated(p) ==
    /\ pc[p] = "inserting" /\ object[p].forced
    /\ pc' = [pc EXCEPT ![p] = "raised"]
    /\ UNCHANGED <<settings, table, object, counted, history>>

Caught(p) ==
    /\ pc[p] = "raised"
    /\ pc' = [pc EXCEPT ![p] = "idle"]
    /\ UNCHANGED <<settings, table, object, counted, history>>

-----------------------------------------------------------------------------
DoUpdate(p) == CountRefused(p) \/ Count(p) \/ Alter(p)

Next ==
    \/ Apply
    \/ \E k \in Key : Delete(k) \/ \E v \in Content : Create(k, v)
    \/ \E p \in Process :
         \/ \E o \in [key: Key, value: Content, forced: BOOLEAN] : Save(p, o)
         \/ DoUpdate(p) \/ Insert(p) \/ NotUpdated(p) \/ Caught(p)

Spec == Init /\ [][Next]_vars

-----------------------------------------------------------------------------
\* Every variable stays in its type, and no row is newer than the clock.
TypeOK ==
    /\ counts \in BOOLEAN /\ distributed \in BOOLEAN
    /\ keyOnly \in BOOLEAN /\ sync \in BOOLEAN
    /\ rows \subseteq Row /\ \A r \in rows : r.stamp < now
    /\ mutations \in Seq(Mutation)
    /\ now \in Nat
    /\ pc \in [Process -> {"idle", "counting", "altering", "inserting", "raised"}]
    /\ object \in [Process -> Object]
    /\ counted \in [Process -> {-1, 0, 1}]
    /\ saved \in [Key -> Value \cup {"absent", "never"}]
    /\ overlapped \subseteq Key /\ raced \subseteq Key

\* _do_update can tell whether the key has a row.
Informed == keyOnly \/ (counts /\ ~distributed)

(***************************************************************************)
(* save() does not double a row: where updates are counted, a key has two  *)
(* rows only if two saves of it found no row at the same time, whether     *)
(* mutations are run at once or late.                                      *)
(***************************************************************************)
OneRow ==
    Informed => \A r, s \in rows :
                   r.key = s.key /\ r.key \notin overlapped => r = s

\* Nothing is under way for the key.
Settled(k) ==
    /\ \A p \in Process : ~Saving(p, k)
    /\ \A i \in 1..Len(mutations) : mutations[i].key # k

(***************************************************************************)
(* save() does not lose a value: once everything has run, the table holds  *)
(* what was last saved under a key, or nothing if it was deleted last,     *)
(* unless a DELETE came between a count and its UPDATE or ran after both.  *)
(***************************************************************************)
HoldsLastSaved ==
    \A k \in Key :
       Informed /\ Settled(k) /\ k \notin overlapped /\ k \notin raced
         => {r.value : r \in RowsOf(k)} = {saved[k]} \ {"absent", "never"}

(***************************************************************************)
(* save(update_fields=...) raises "did not affect any rows" only if there  *)
(* is no row (and the statement could be counted).                         *)
(***************************************************************************)
RaisesOnlyIfMissing ==
    \A p \in Process :
       LET k == object[p].key IN
       Informed /\ pc[p] = "raised" /\ k \notin Wordy /\ k \notin overlapped
         => RowsOf(k) = {}

(***************************************************************************)
(* "Just like normal table, you can do whatever you like to distributed    *)
(* table" (README.md:595): save() does not double a row of a distributed   *)
(* table either.                                                           *)
(***************************************************************************)
OneRowDistributed ==
    counts /\ distributed /\ ~keyOnly =>
       \A r, s \in rows : r.key = s.key /\ r.key \notin overlapped => r = s
=============================================================================
