----------------------------- MODULE MCRecorder -----------------------------
(* Three processes, two of them on one node, for TLC. *)
EXTENDS Recorder, TLC

CONSTANTS p1, p2, p3, n1, n2

MCNodeOf == p1 :> n1 @@ p2 :> n2 @@ p3 :> n1
=============================================================================
