---------------------------- MODULE MCBeforeSave ----------------------------
(* Small instances of BeforeSave for TLC. *)
EXTENDS BeforeSave, TLC

CONSTANTS b1, b2

TwoBuffers == {b1, b2}
FirstBuffer == {b1}
AnyForce   == BOOLEAN
Unforced   == {FALSE}
JustOne    == {1}
JustTwo    == {2}
=============================================================================
