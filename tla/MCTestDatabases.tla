--------------------------- MODULE MCTestDatabases ---------------------------
(* Two aliases, each on its own server of a cluster, for TLC. *)
EXTENDS TestDatabases, TLC

CONSTANTS default, other, s1, s2

MCServerOf == default :> s1 @@ other :> s2
MCOrder == <<default, other>>
=============================================================================
