---------------------------- MODULE MCDiskState ----------------------------
(* Values for the model checking runs of DiskState. *)
EXTENDS DiskState, TLC

CONSTANTS b1, b2, p1, p2

TwoBuffers == {b1, b2}
TwoPanes   == {p1, p2}
OnePane    == {p1}
OneFile    == {b1}
Prompting  == {TRUE}
=============================================================================
