------------------------------ MODULE PoolLock ------------------------------
(***************************************************************************)
(* The lock of ClickhousePool and the garbage collector.                   *)
(*                                                                         *)
(* ClientPool takes each method of the pool as one step.  Here the lock    *)
(* the methods take is explicit: pull() and push() acquire it, run and     *)
(* release it, and Cursor.__del__ calls push() from inside whatever the    *)
(* collecting thread was doing.  The collector starts at an allocation, so *)
(* also while pull() creates a client or a dictionary entry; then          *)
(* __del__ runs in the thread that holds the lock.  threading.Lock is not  *)
(* reentrant.                                                              *)
(***************************************************************************)
EXTENDS FiniteSets

CONSTANTS
    Thread,
    Cursor,        \* cursors alive at one time, each used again when done
    Nobody,        \* no thread, no cursor
    CollectInside  \* whether a collection may start while pull or push runs

ASSUME LockAssumption ==
    /\ Nobody \notin Thread \cup Cursor
    /\ CollectInside \in BOOLEAN

VARIABLES
    lock,    \* the thread that holds ClickhousePool._lock, or Nobody
    pc,      \* each thread: "idle", "wait" in acquire(), "inside" the method
    job,     \* the cursor the method of a thread pulls or pushes for
    delPc,   \* the same as pc, for the push() of the __del__ a thread runs
    delJob,  \* the cursor whose __del__ a thread runs
    cursor   \* "none", "pulling", "live", "forgotten", "closing"

opVars == <<pc, job>>
delVars == <<delPc, delJob>>
vars == <<lock, opVars, delVars, cursor>>

Init ==
    /\ lock = Nobody
    /\ pc = [t \in Thread |-> "idle"] /\ job = [t \in Thread |-> Nobody]
    /\ delPc = [t \in Thread |-> "idle"] /\ delJob = [t \in Thread |-> Nobody]
    /\ cursor = [q \in Cursor |-> "none"]

\* A thread that runs __del__ has suspended its own code.
Running(t) == delPc[t] = "idle"

-----------------------------------------------------------------------------
(* The two callers of the pool, and the body of their method.              *)

\* Connection.cursor() calls pull() for a new cursor.
CallPull(t, q) ==
    /\ Running(t) /\ pc[t] = "idle" /\ cursor[q] = "none"
    /\ pc' = [pc EXCEPT ![t] = "wait"] /\ job' = [job EXCEPT ![t] = q]
    /\ cursor' = [cursor EXCEPT ![q] = "pulling"]
    /\ UNCHANGED <<lock, delVars>>

\* Cursor.close() marks the cursor closed and calls push().
CallPush(t, q) ==
    /\ Running(t) /\ pc[t] = "idle" /\ cursor[q] = "live"
    /\ pc' = [pc EXCEPT ![t] = "wait"] /\ job' = [job EXCEPT ![t] = q]
    /\ cursor' = [cursor EXCEPT ![q] = "closing"]
    /\ UNCHANGED <<lock, delVars>>

Acquire(t) ==
    /\ pc[t] = "wait" /\ lock = Nobody
    /\ lock' = t /\ pc' = [pc EXCEPT ![t] = "inside"]
    /\ UNCHANGED <<job, delVars, cursor>>

\* What the method leaves the cursor: lent a client, or without one.
After(phase) == IF phase = "pulling" THEN "live" ELSE "none"

\* The method is over: its effect and the release in its finally clause.
Release(t) ==
    /\ Running(t) /\ pc[t] = "inside"
    /\ lock' = Nobody
    /\ pc' = [pc EXCEPT ![t] = "idle"] /\ job' = [job EXCEPT ![t] = Nobody]
    /\ cursor' = [cursor EXCEPT ![job[t]] = After(@)]
    /\ UNCHANGED delVars

-----------------------------------------------------------------------------
(* Forgotten cursors.                                                      *)

\* The program loses its last reference to an open cursor.
Forget(q) ==
    /\ cursor[q] = "live"
    /\ cursor' = [cursor EXCEPT ![q] = "forgotten"]
    /\ UNCHANGED <<lock, opVars, delVars>>

\* The collector runs __del__ in a thread: close() marks the cursor closed and
\* calls push().  A thread blocked in acquire() collects nothing.
Collect(t, q) ==
    /\ Running(t) /\ cursor[q] = "forgotten"
    /\ pc[t] = "idle" \/ (CollectInside /\ pc[t] = "inside")
    /\ delPc' = [delPc EXCEPT ![t] = "wait"]
    /\ delJob' = [delJob EXCEPT ![t] = q]
    /\ cursor' = [cursor EXCEPT ![q] = "closing"]
    /\ UNCHANGED <<lock, opVars>>

DelAcquire(t) ==
    /\ delPc[t] = "wait" /\ lock = Nobody
    /\ lock' = t /\ delPc' = [delPc EXCEPT ![t] = "inside"]
    /\ UNCHANGED <<opVars, delJob, cursor>>

\* push() of __del__ is over and the thread resumes its own code.
DelReleaseKeepsLock(t) ==
    /\ delPc[t] = "inside"
    /\ delPc' = [delPc EXCEPT ![t] = "idle"]
    /\ delJob' = [delJob EXCEPT ![t] = Nobody]
    /\ cursor' = [cursor EXCEPT ![delJob[t]] = After(@)]
    /\ UNCHANGED <<lock, opVars>>
DelRelease(t) ==
    /\ delPc[t] = "inside"
    /\ lock' = Nobody
    /\ delPc' = [delPc EXCEPT ![t] = "idle"]
    /\ delJob' = [delJob EXCEPT ![t] = Nobody]
    /\ cursor' = [cursor EXCEPT ![delJob[t]] = After(@)]
    /\ UNCHANGED opVars

-----------------------------------------------------------------------------
Next ==
    \/ \E t \in Thread : \/ Acquire(t) \/ Release(t)
                         \/ DelAcquire(t) \/ DelRelease(t)
    \/ \E t \in Thread, q \in Cursor : \/ CallPull(t, q) \/ CallPush(t, q)
                                       \/ Collect(t, q)
    \/ \E q \in Cursor : Forget(q)

(***************************************************************************)
(* Threads run, a thread waiting for a lock that is released again and     *)
(* again gets it, and garbage is collected.  No thread has to make calls.  *)
(***************************************************************************)
Fairness ==
    /\ \A t \in Thread :
         /\ SF_vars(Acquire(t)) /\ WF_vars(Release(t))
         /\ SF_vars(DelAcquire(t)) /\ WF_vars(DelRelease(t))
    /\ \A q \in Cursor : SF_vars(\E t \in Thread : Collect(t, q))

Spec == Init /\ [][Next]_vars /\ Fairness

-----------------------------------------------------------------------------

(***************************************************************************)
(* "If someone forgets calling close method, then release connection when  *)
(* gc happens" (driver/connection.py:134): the client of a forgotten       *)
(* cursor is given back in the end.                                        *)
(***************************************************************************)
ReleasedWhenCollected ==
    \A q \in Cursor : cursor[q] = "forgotten" ~> cursor[q] = "none"
=============================================================================
