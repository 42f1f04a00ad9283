----------------------------- MODULE CursorArgs -----------------------------
(***************************************************************************)
(* Cursor.set_query_execution_args() over the client pool.                 *)
(*                                                                         *)
(* The context manager sets two options and restores them at the end of    *)
(* the with block.  columnar belongs to the cursor and dies with it;       *)
(* use_numpy is a setting of the client, which goes back to the pool and   *)
(* is lent again.  The manager has no try/finally: when the block raises,  *)
(* the code after its yield does not run.  Without NumPy, the setter of    *)
(* use_numpy raises after it has changed the setting.                      *)
(***************************************************************************)
EXTENDS ClientPool, Sequences

CONSTANTS
    MaxDepth   \* bound on nested with blocks

ASSUME ArgsAssumption == MaxDepth \in Nat

VARIABLES
    hasNumpy,  \* NumPy's extras can be imported
    useNumpy,  \* client_settings["use_numpy"] of each client
    columnar,  \* Cursor.columnar
    blocks,    \* the open with blocks of each cursor, with what they restore
    skipped    \* history: clients on which a block ended without restoring

argsVars == <<hasNumpy, useNumpy, columnar, blocks, skipped>>
allVars == <<vars, argsVars>>

\* None, the default of both parameters, leaves the option alone.
Option == {"none", "on", "off"}
Given(option, current) == IF option = "none" THEN current ELSE option

\* The setter of use_numpy does not raise.
Settable(numpy) == numpy = "on" => hasNumpy

ArgsInit ==
    /\ Init
    /\ hasNumpy \in BOOLEAN
    /\ useNumpy = [c \in Client |-> "off"]
    /\ columnar = [q \in Cursor |-> "none"]
    /\ blocks = [q \in Cursor |-> <<>>]
    /\ skipped = {}

Enter(q, wantColumnar, wantNumpy) ==
    /\ pc[q] = "open" /\ Len(blocks[q]) < MaxDepth /\ Settable(wantNumpy)
    /\ blocks' = [blocks EXCEPT ![q] =
          <<[numpy |-> useNumpy[client[q]], columnar |-> columnar[q],
             gave |-> [numpy |-> wantNumpy, columnar |-> wantColumnar]]>> \o @]
    /\ useNumpy' = [useNumpy EXCEPT ![client[q]] = Given(wantNumpy, @)]
    /\ columnar' = [columnar EXCEPT ![q] = Given(wantColumnar, @)]
    /\ UNCHANGED <<vars, hasNumpy, skipped>>

\* The setter raises, and the block is not entered.
EnterRaises(q) ==
    /\ pc[q] = "open" /\ Len(blocks[q]) < MaxDepth /\ ~Settable("on")
    /\ useNumpy' = [useNumpy EXCEPT ![client[q]] = "on"]
    /\ skipped' = skipped \cup {client[q]}
    /\ UNCHANGED <<vars, hasNumpy, columnar, blocks>>

\* The block ends: the code after the yield.
ExitDefaults(q) ==
    /\ pc[q] = "open" /\ blocks[q] # <<>>
    /\ useNumpy' = [useNumpy EXCEPT ![client[q]] = "off"]
    /\ columnar' = [columnar EXCEPT ![q] = "none"]
    /\ blocks' = [blocks EXCEPT ![q] = Tail(@)]
    /\ UNCHANGED <<vars, hasNumpy, skipped>>
Exit(q) ==
    /\ pc[q] = "open" /\ blocks[q] # <<>> /\ Settable(Head(blocks[q]).numpy)
    /\ useNumpy' = [useNumpy EXCEPT ![client[q]] = Head(blocks[q]).numpy]
    /\ columnar' = [columnar EXCEPT ![q] = Head(blocks[q]).columnar]
    /\ blocks' = [blocks EXCEPT ![q] = Tail(@)]
    /\ UNCHANGED <<vars, hasNumpy, skipped>>

\* The setter raises after the block; columnar is not restored.
ExitRaises(q) ==
    /\ pc[q] = "open" /\ blocks[q] # <<>> /\ ~Settable(Head(blocks[q]).numpy)
    /\ useNumpy' = [useNumpy EXCEPT ![client[q]] = "on"]
    /\ blocks' = [blocks EXCEPT ![q] = Tail(@)]
    /\ skipped' = skipped \cup {client[q]}
    /\ UNCHANGED <<vars, hasNumpy, columnar>>

\* The block raises: the generator ends at its yield.
Raise(q) ==
    /\ pc[q] = "open" /\ blocks[q] # <<>>
    /\ blocks' = [blocks EXCEPT ![q] = Tail(@)]
    /\ skipped' = skipped \cup {client[q]}
    /\ UNCHANGED <<vars, hasNumpy, useNumpy, columnar>>

(***************************************************************************)
(* The steps of the pool.  A cursor is closed or forgotten outside its     *)
(* blocks; a new cursor has the class's columnar, a new client the         *)
(* driver's default of use_numpy.                                          *)
(***************************************************************************)
LendFresh(q) ==
    /\ \/ PullIdle(q) /\ UNCHANGED <<useNumpy, skipped>>
       \/ /\ PullConnect(q)
          /\ useNumpy' = [useNumpy EXCEPT ![client'[q]] = "off"]
          /\ skipped' = skipped \ {client'[q]}
    /\ columnar' = [columnar EXCEPT ![q] = "none"]
    /\ UNCHANGED <<hasNumpy, blocks>>

PoolStep(q) ==
    /\ \/ CheckOpen(q) \/ PullClosed(q) \/ PullRefused(q)
       \/ Query(q) \/ Del(q) \/ Release(q)
       \/ blocks[q] = <<>> /\ (Close(q) \/ Forget(q))
    /\ UNCHANGED argsVars

Block(q) ==
    \/ \E wantColumnar, wantNumpy \in Option : Enter(q, wantColumnar, wantNumpy)
    \/ EnterRaises(q) \/ Exit(q) \/ ExitRaises(q) \/ Raise(q)

ArgsNext ==
    \/ \E q \in Cursor : LendFresh(q) \/ PoolStep(q) \/ Block(q)
    \/ (Cleanup \/ MarkClosed) /\ UNCHANGED argsVars

ArgsSpec == ArgsInit /\ [][ArgsNext]_allVars

-----------------------------------------------------------------------------
\* Client and cursor options have their values, a block what it will restore.
ArgsTypeOK ==
    /\ hasNumpy \in BOOLEAN
    /\ useNumpy \in [Client -> {"on", "off"}]
    /\ columnar \in [Cursor -> Option]
    /\ skipped \subseteq Client
    /\ blocks \in [Cursor -> Seq([numpy : {"on", "off"}, columnar : Option,
                                  gave : [numpy : Option, columnar : Option]])]

\* The blocks of a cursor, the innermost first, leave an option at value: it
\* is what the first that gave one asked for, or the default if none did.
Leave(option, value, default, seq) ==
    \/ value = default /\ \A i \in 1..Len(seq) : seq[i].gave[option] = "none"
    \/ \E i \in 1..Len(seq) : /\ seq[i].gave[option] = value /\ value # "none"
                              /\ \A j \in 1..(i - 1) : seq[j].gave[option] = "none"

(***************************************************************************)
(* Where no block has raised, both options are those of the enclosing with *)
(* blocks and of nothing else: nested blocks restore each other, and       *)
(* whoever is lent a client, reused or new, gets it with the defaults.     *)
(***************************************************************************)
OptionsScoped ==
    \A q \in Cursor : pc[q] = "open" /\ client[q] \notin skipped =>
        /\ Leave("numpy", useNumpy[client[q]], "off", blocks[q])
        /\ Leave("columnar", columnar[q], "none", blocks[q])
=============================================================================
