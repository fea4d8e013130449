---------------------------- MODULE MCDiffSplit ----------------------------
(* DiffSplit for TLC.  Which annotation is which does not matter.  One line of *)
(* code is odd: stripped, it is code1.                                         *)
EXTENDS DiffSplit, TLC
CONSTANTS code1, code2, crlf1, pf1, pf2
MCStripped == [l \in Annotations \cup Code |-> IF l = crlf1 THEN code1 ELSE l]
MCHeads ==
  BoundedSeq({code1, code2, pf1, pf2}, 3) \cup BoundedSeq({code1, crlf1, pf1, pf2}, 3)
    \cup {file \in [1 .. 4 -> {code1, code2, pf1, pf2}] : IsInjective(file) \/ \A i \in 1 .. 4 : file[i] = file[1]}
MCSymmetry == Permutations({pf1, pf2})
=============================================================================
