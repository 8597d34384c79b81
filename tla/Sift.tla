---------------------------------- MODULE Sift ----------------------------------
(* Filtering a sequence, with a function where SelectSeq of the standard     *)
(* module has one too, so that it can be reasoned about.                     *)
EXTENDS Naturals, Sequences

\* Those of seq that are in set, in their order.
Only(seq, set) ==
    LET f[i \in 0 .. Len(seq)] ==
          IF i = 0 THEN <<>> ELSE IF seq[i] \in set THEN Append(f[i - 1], seq[i]) ELSE f[i - 1]
    IN  f[Len(seq)]
=================================================================================
