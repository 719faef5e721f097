------------------------------- MODULE MCRCache -------------------------------
EXTENDS RCache, TLC

CONSTANTS n1, n2, g1, g2, r1, r2, r3, t1, t2

MCNodes == {n1, n2}
MCNodes1 == {n1}
MCGetters1 == {g1}
MCGetters2 == {g1, g2}
MCRuns2 == {r1, r2}
MCRuns3 == {r1, r2, r3}
MCStoppers1 == {t1}
MCStoppers2 == {t1, t2}
====
