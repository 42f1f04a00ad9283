--------------------------- MODULE ClientLending ---------------------------
(***************************************************************************)
(* What the pool promises its callers, without the pool: a client is lent  *)
(* to one holder at a time, at most Capacity are lent at once, and once    *)
(* the desk is shut nothing is lent any more.                              *)
(***************************************************************************)
EXTENDS Integers, FiniteSets

CONSTANTS Holder, Client, NoClient, Capacity

VARIABLES
    lent,  \* lent[h], the client of holder h, or NoClient
    shut   \* nothing is lent any more

Lent == {c \in Client : \E h \in Holder : lent[h] = c}

Init ==
    /\ lent = [h \in Holder |-> NoClient]
    /\ shut = FALSE

Lend(h, c) ==
    /\ ~shut /\ lent[h] = NoClient
    /\ c \notin Lent /\ Cardinality(Lent) < Capacity
    /\ lent' = [lent EXCEPT ![h] = c]
    /\ UNCHANGED shut

GiveBack(h) ==
    /\ lent[h] # NoClient
    /\ lent' = [lent EXCEPT ![h] = NoClient]
    /\ UNCHANGED shut

Shut ==
    /\ ~shut
    /\ shut' = TRUE
    /\ UNCHANGED lent

Next ==
    \/ \E h \in Holder, c \in Client : Lend(h, c)
    \/ \E h \in Holder : GiveBack(h)
    \/ Shut

Spec == Init /\ [][Next]_<<lent, shut>>
=============================================================================
