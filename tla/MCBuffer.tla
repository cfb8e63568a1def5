------------------------------ MODULE MCBuffer ------------------------------
(* Small instances of Buffer for TLC. *)
EXTENDS Buffer, TLC

CONSTANTS t1, t2, lf, crlf

TwoTexts   == {t1, t2}
TwoEndings == {lf, crlf}

\* undo-levels small enough for every trim.
SmallCaps == {1, 2}

Symmetry == Permutations({t1, t2}) \cup Permutations({lf, crlf})
=============================================================================
