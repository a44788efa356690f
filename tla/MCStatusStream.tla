--------------------------- MODULE MCStatusStream ---------------------------
(* Model-checking instance of StatusStream: two StartJob calls, two       *)
(* StatusJob clients, a two-unit read buffer and records that fit it      *)
(* exactly or half-fill it.                                                *)
EXTENDS StatusStream, TLC

CONSTANTS s1, s2, c1, c2

MCCalls   == {s1, s2}
MCClients == {c1, c2}
MCOneClient == {c1}
MCOneCall   == {s1}

ClientSymmetry == Permutations(MCClients)
=============================================================================
