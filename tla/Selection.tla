----------------------------- MODULE Selection ------------------------------
(***************************************************************************)
(* Picking elements of a sequence by their places: what SelectSeq and      *)
(* comprehensions over lists do, in a form the provers can unfold.         *)
(***************************************************************************)
EXTENDS Naturals, Sequences

\* What is at the positions in I, in order.
Picked(seq, I) ==
  LET upto[i \in 0..Len(seq)] ==
        IF i = 0 THEN <<>> ELSE IF i \in I THEN Append(upto[i - 1], seq[i]) ELSE upto[i - 1]
  IN upto[Len(seq)]
=============================================================================
