------------------------------ MODULE MCBuffer ------------------------------
(* A small instance of Buffer for TLC. *)
EXTENDS Buffer

TwoBytes == {1, 2}
FewLimits == {1, 3, 4}
=============================================================================
