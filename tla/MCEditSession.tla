--------------------------- MODULE MCEditSession ---------------------------
(* Small instances of EditSession for TLC. *)
EXTENDS EditSession, TLC

CONSTANTS p1, p2, b1, b2, t1, t2

TwoPanes   == {p1, p2}
OneBuffer  == {b1}
TwoBuffers == {b1, b2}
TwoTexts   == {t1, t2}

\* Of the two texts, t2 has an auto-indented blank line.
TrimToFirst == [t \in TwoTexts |-> t1]

Symmetry == Permutations(Pane) \cup Permutations(BufferId)
=============================================================================
