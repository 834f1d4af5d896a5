---------------------------- MODULE MCReviewGate ----------------------------
(* Two events, two criteria, two goroutines. *)
EXTENDS ReviewGate
CONSTANTS e1, e2, c1, c2, w1, w2
Events == {e1, e2}
Criteria == {c1, c2}
Workers == {w1, w2}
=============================================================================
