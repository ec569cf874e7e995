---------------------------- MODULE MCEventStream ---------------------------
(***************************************************************************)
(* Small instances of EventStream for TLC.                                 *)
(***************************************************************************)
EXTENDS EventStream

CONSTANTS w1, w2, c1, none

OneClient == {c1}
OneWriter == {w1}
TwoWriters == {w1, w2}

=============================================================================
