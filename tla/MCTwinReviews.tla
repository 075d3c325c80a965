--------------------------- MODULE MCTwinReviews ---------------------------
(* Instances of TwinReviews for TLC. *)
EXTENDS TwinReviews, TLC

CONSTANTS p1, p2, p3, d1, d2, d3, u1, u2

TwoOptions == {p1, p2}
ThreeOptions == {p1, p2, p3}
OneUnsafe == {p2}
OneReviewer == {d1}
TwoReviewers == {d1, d2}
ThreeReviewers == {d1, d2, d3}
OneReporter == {u1}
TwoReporters == {u1, u2}

\* Calls of one kind are interchangeable.
Interchangeable == Permutations(Reviewers) \cup Permutations(Reporters)
=============================================================================
