----------------------------- MODULE MCWorkGraph -----------------------------
(* Two workers on two projects, three tasks of which one has a name of its *)
(* own, and an agent.                                                      *)
EXTENDS WorkGraph, TLC
CONSTANTS t1, t2, t3, p1, p2, a1, w1, w2
Tasks == {t1, t2, t3}
Projects == {p1, p2}
Agents == {a1}
Workers == {w1, w2}
Named == {t1}
Labels == {"member_of", "assigned_to"}
Symmetry == Permutations({t2, t3}) \cup Permutations(Projects) \cup Permutations(Workers)
=============================================================================
