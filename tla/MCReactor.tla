----------------------------- MODULE MCReactor -----------------------------
(* Small instances of Reactor for TLC. *)
EXTENDS Reactor

CONSTANTS s1, s2, c1, c2

Socket1 == {s1}
Socket2 == {s1, s2}
Conn1 == {c1}
Conn2 == {c1, c2}
OneSecond == {0}
TwoSeconds == {0, 1}

Symmetry == Permutations(Socket2) \cup Permutations(Conn2)
=============================================================================
