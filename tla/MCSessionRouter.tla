-------------------------- MODULE MCSessionRouter --------------------------
(* Model values for SessionRouter.                                         *)
EXTENDS SessionRouter, TLC

CONSTANTS i1, i2, s1, s2, p1

MCInstances == {i1, i2}
MCSessions == {s1, s2}
MCOthers == {p1}
Symmetric == Permutations(MCInstances) \cup Permutations(MCSessions)
=============================================================================
