----------------------------- MODULE MCPipeRuns -----------------------------
(* Small instances of PipeRuns for TLC. *)
EXTENDS PipeRuns, TLC

CONSTANTS b1, b2, p1, p2

OneBuffer  == {b1}
TwoBuffers == {b1, b2}
OnePane    == {p1}
TwoPanes   == {p1, p2}

Symmetry == Permutations(BufferId) \cup Permutations(PaneId)
=============================================================================
