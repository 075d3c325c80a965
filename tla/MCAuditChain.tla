---------------------------- MODULE MCAuditChain ----------------------------
(* Instances of AuditChain for TLC. *)
EXTENDS AuditChain, TLC

CONSTANTS w1, w2, w3

TwoWriters == {w1, w2}
ThreeWriters == {w1, w2, w3}

Interchangeable == Permutations(Writers)
=============================================================================
