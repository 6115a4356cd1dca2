--------------------------- MODULE MCTaskDispatch ---------------------------
(* Small instances of TaskDispatch for TLC. *)
EXTENDS TaskDispatch, TLC

CONSTANTS t1, t2, t3, t4, t5

Gid2 == {1, 2}

(* With two workers both connections belong to the second one. *)
GidOdd == {1, 3}

Task3 == {t1, t2, t3}
Task5 == Task3 \cup {t4, t5}
=============================================================================
