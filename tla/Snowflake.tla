----------------------------- MODULE Snowflake -----------------------------
(***************************************************************************)
(* SnowflakeIDWorker (idworker/snowflake.py): one worker per process, each *)
(* with the (datacenter_id, worker_id) pair its environment gives it and   *)
(* the clock of its machine.                                               *)
(*                                                                         *)
(* get_id() is one step, or two when the sequence of a millisecond is used *)
(* up and it waits for the next one.  Around it the clock runs, is set     *)
(* back, and the process restarts: last_timestamp and sequence are then    *)
(* forgotten.  Calls of one worker do not overlap: the class is documented *)
(* as not thread safe.  Time counts from TWEPOCH.                          *)
(***************************************************************************)
EXTENDS Integers

CONSTANTS
    NodeCount,         \* 2^(DATACENTER_ID_BITS + WORKER_ID_BITS)
    SeqSize,           \* 2^SEQUENCE_BITS
    Worker,            \* the pairs in use, as numbers, one for each process
    MaxTime,           \* bound on the clocks
    MaxStepBacks,      \* bound on how often a clock is set back
    BehindAfterRestart \* whether a restarted process may find the clock
                       \* behind a timestamp used before it restarted

ASSUME SnowflakeAssumption ==
    /\ NodeCount \in Nat \ {0} /\ SeqSize \in Nat \ {0}
    /\ Worker \subseteq 0..(NodeCount - 1)
    /\ MaxTime \in Nat /\ MaxStepBacks \in Nat
    /\ BehindAfterRestart \in BOOLEAN

VARIABLES
    clock,      \* the time of each worker's machine
    stepBacks,  \* how often a clock has been set back
    last,       \* last_timestamp
    sequence,   \* sequence
    pc,         \* "idle", or "waiting" in _til_next_millis
    floor,      \* history: last timestamp used before the process restarted
    newest,     \* history: the last id of each worker, -1 at first
    issued,     \* history: every id returned
    reused      \* history: every id returned a second time

workerVars == <<last, sequence, pc>>
historyVars == <<newest, issued, reused>>
vars == <<clock, stepBacks, workerVars, floor, historyVars>>

Init ==
    /\ clock \in [Worker -> 0..MaxTime]
    /\ stepBacks = 0
    /\ last = [w \in Worker |-> -1]
    /\ sequence = [w \in Worker |-> 0]
    /\ pc = [w \in Worker |-> "idle"]
    /\ floor = [w \in Worker |-> -1]
    /\ newest = [w \in Worker |-> -1]
    /\ issued = {} /\ reused = {}

\* The fields of an id in their bits: or-ing fields that do not overlap adds.
PackSeqUnshifted(t, w, s) == t * NodeCount + w + s
Pack(t, w, s) == t * (NodeCount * SeqSize) + (w * SeqSize + s)

\* (sequence + 1) & SEQUENCE_MASK
NextSequence(w) == (sequence[w] + 1) % SeqSize

-----------------------------------------------------------------------------
(* get_id().                                                               *)

Return(id, w) ==
    /\ newest' = [newest EXCEPT ![w] = id]
    /\ issued' = issued \cup {id}
    /\ reused' = IF id \in issued THEN reused \cup {id} ELSE reused

\* InvalidSystemClock: the clock is behind last_timestamp, nothing changes.
Reject(w) ==
    /\ pc[w] = "idle" /\ clock[w] < last[w]
    /\ UNCHANGED vars

NewMillisecond(w) ==
    /\ pc[w] = "idle" /\ clock[w] > last[w]
    /\ sequence' = [sequence EXCEPT ![w] = 0]
    /\ last' = [last EXCEPT ![w] = clock[w]]
    /\ Return(Pack(clock[w], w, 0), w)
    /\ UNCHANGED <<clock, stepBacks, pc, floor>>

SameMillisecond(w) ==
    /\ pc[w] = "idle" /\ clock[w] = last[w] /\ NextSequence(w) # 0
    /\ sequence' = [sequence EXCEPT ![w] = NextSequence(w)]
    /\ Return(Pack(clock[w], w, NextSequence(w)), w)
    /\ UNCHANGED <<clock, stepBacks, last, pc, floor>>

\* The millisecond is used up: spin in _til_next_millis.
Exhaust(w) ==
    /\ pc[w] = "idle" /\ clock[w] = last[w] /\ NextSequence(w) = 0
    /\ sequence' = [sequence EXCEPT ![w] = 0]
    /\ pc' = [pc EXCEPT ![w] = "waiting"]
    /\ UNCHANGED <<clock, stepBacks, last, floor, historyVars>>

\* The loop of _til_next_millis ends: it read the clock past last_timestamp.
\* NextMillisUnread tests the timestamp it began with for ever.
NextMillisUnread(w) ==
    /\ pc[w] = "waiting" /\ last[w] > last[w]
    /\ pc' = [pc EXCEPT ![w] = "idle"]
    /\ UNCHANGED <<clock, stepBacks, last, sequence, floor, historyVars>>
NextMillis(w) ==
    /\ pc[w] = "waiting" /\ clock[w] > last[w]
    /\ pc' = [pc EXCEPT ![w] = "idle"]
    /\ last' = [last EXCEPT ![w] = clock[w]]
    /\ Return(Pack(clock[w], w, 0), w)
    /\ UNCHANGED <<clock, stepBacks, sequence, floor>>

-----------------------------------------------------------------------------
(* The machine.                                                            *)

Tick(w) ==
    /\ clock[w] < MaxTime
    /\ clock' = [clock EXCEPT ![w] = @ + 1]
    /\ UNCHANGED <<stepBacks, workerVars, floor, historyVars>>

StepBack(w) ==
    /\ stepBacks < MaxStepBacks
    /\ stepBacks' = stepBacks + 1
    /\ \E t \in 0..MaxTime :
         /\ t < clock[w]
         /\ BehindAfterRestart \/ t > floor[w]
         /\ clock' = [clock EXCEPT ![w] = t]
    /\ UNCHANGED <<workerVars, floor, historyVars>>

\* A restart takes more than the rest of a millisecond.
Restart(w) ==
    /\ last[w] # -1
    /\ clock[w] > last[w] \/ (BehindAfterRestart /\ clock[w] < last[w])
    /\ floor' = [floor EXCEPT ![w] = last[w]]
    /\ last' = [last EXCEPT ![w] = -1]
    /\ sequence' = [sequence EXCEPT ![w] = 0]
    /\ pc' = [pc EXCEPT ![w] = "idle"]
    /\ UNCHANGED <<clock, stepBacks, historyVars>>

-----------------------------------------------------------------------------
GetId(w) ==
    \/ Reject(w) \/ NewMillisecond(w) \/ SameMillisecond(w)
    \/ Exhaust(w) \/ NextMillis(w)

Next == \E w \in Worker : GetId(w) \/ Tick(w) \/ StepBack(w) \/ Restart(w)

\* Clocks go on, and a caller that spins sees them go on.
Fairness == \A w \in Worker : WF_vars(Tick(w)) /\ WF_vars(NextMillis(w))

Spec == Init /\ [][Next]_vars /\ Fairness

-----------------------------------------------------------------------------
\* The counters stay in their ranges, timestamps behind the bound.
TypeOK ==
    /\ clock \in [Worker -> 0..MaxTime]
    /\ stepBacks \in 0..MaxStepBacks
    /\ last \in [Worker -> -1..MaxTime]
    /\ sequence \in [Worker -> 0..(SeqSize - 1)]
    /\ pc \in [Worker -> {"idle", "waiting"}]
    /\ floor \in [Worker -> -1..MaxTime]
    /\ newest \in [Worker -> Int]
    /\ issued \subseteq Int /\ reused \subseteq issued

(***************************************************************************)
(* "Universal unique": no id is returned twice, by any two workers and     *)
(* whatever their clocks do.  It needs clocks that are past the timestamps *)
(* used before a restart.                                                  *)
(***************************************************************************)
NoIdReused == reused = {}

(***************************************************************************)
(* "Incremental": the ids of one worker grow, over a set-back clock, an    *)
(* exhausted millisecond and a restart.                                    *)
(***************************************************************************)
Incremental ==
    [][\A w \in Worker : newest'[w] # newest[w] => newest'[w] > newest[w]]_vars

(***************************************************************************)
(* A caller that waits for the next millisecond gets its id, although the  *)
(* clock may be set back meanwhile, unless its time is the last one there  *)
(* is.                                                                     *)
(***************************************************************************)
WaitEnds ==
    \A w \in Worker : (pc[w] = "waiting" /\ last[w] < MaxTime) ~> pc[w] = "idle"
=============================================================================
