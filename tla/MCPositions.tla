----------------------------- MODULE MCPositions ----------------------------
EXTENDS Positions

TwoLines   == <<<<1, "letter">>, <<2, "break">>, <<3, "break">>>>
BothKinds  == {"letter", "break"}
OneOrThree == {1, 3}

\* Chains and pairs of items, and jumps among edits.
ChainsAndJumps ==
  {[edits |-> 2, items |-> 3, jumps |-> 0], [edits |-> 3, items |-> 2, jumps |-> 0],
   [edits |-> 1, items |-> 1, jumps |-> 4]}
=============================================================================
