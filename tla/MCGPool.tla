------------------------------- MODULE MCGPool -------------------------------
(* Model-checking instance of GPool: small sets of model values for the    *)
(* goroutines, and the symmetry of interchangeable worker shells.          *)
EXTENDS GPool, TLC

CONSTANTS c1, c2, c3, w1, w2, w3, w4, s1, s2

MCCallers2 == {c1, c2}
MCCallers3 == {c1, c2, c3}
MCWorkers3 == {w1, w2, w3}
MCWorkers4 == {w1, w2, w3, w4}
MCScavengers == {s1, s2}
MCScavengers1 == {s1}

WorkerSymmetry == Permutations(MCWorkers3)
WorkerSymmetry4 == Permutations(MCWorkers4)
=============================================================================
