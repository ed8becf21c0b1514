----------------------------- MODULE Selecting -----------------------------
(***************************************************************************)
(* The part of a sequence whose elements are in a set: what SelectSeq does *)
(* with a test, as a recursive function, which can be proved about.        *)
(***************************************************************************)
EXTENDS Naturals, Sequences

\* Up to each place of s, the elements that are in P.
Selected(s, P) ==
    LET upTo[k \in 0..Len(s)] ==
            IF k = 0 THEN <<>>
            ELSE IF s[k] \in P THEN Append(upTo[k - 1], s[k]) ELSE upTo[k - 1]
    IN  upTo

Select(s, P) == Selected(s, P)[Len(s)]
=============================================================================
