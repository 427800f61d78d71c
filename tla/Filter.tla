------------------------------- MODULE Filter -------------------------------
(***************************************************************************)
(* The elements of a sequence that are in a set, in their order: what the  *)
(* standard SelectSeq is for a test.  It is a recursive function, of which *)
(* SequenceProofs proves what it does.                                     *)
(***************************************************************************)
EXTENDS Naturals, Sequences

Those(s, S) ==
  LET those[n \in 0 .. Len(s)] ==
        IF n = 0 THEN <<>>
        ELSE IF s[n] \in S THEN Append(those[n - 1], s[n]) ELSE those[n - 1]
  IN those[Len(s)]
=============================================================================
