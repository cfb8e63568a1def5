---------------------------- MODULE MCLspSession ---------------------------
(* Instances of LspSession for TLC. *)
EXTENDS LspSession, TLC

CONSTANTS b1, b2, s1, s2

=============================================================================
