----------------------------- MODULE Collections -----------------------------
(***************************************************************************)
(* What the modules share of the standard library's collections.           *)
(***************************************************************************)
EXTENDS Integers, Sequences

\* Vec::retain: the elements in `kept`, in the order they were in.
Retain(elements, kept) ==
  LET retained[n \in 0 .. Len(elements)] ==
        IF n = 0 THEN <<>>
        ELSE IF elements[n] \in kept THEN Append(retained[n - 1], elements[n])
        ELSE retained[n - 1]
  IN  retained[Len(elements)]
=============================================================================
