----------------------------- MODULE MCTagReview -----------------------------
(* TagReview for TLC: one tag has a patch that adds it and one that deletes it *)
(* (an annotation of HEAD, reworded: every save has both); the other is there  *)
(* to be registered before or after it and to be in stale copies.              *)
EXTENDS TagReview, TLC

CONSTANTS t1, t2, a1, r1, b1

MCContents == t1 :> {a1, r1} @@ t2 :> {b1}
=============================================================================
