----------------------------- MODULE MCFileItems -----------------------------
EXTENDS FileItems, TLC

CONSTANTS k1, k2, u1, u2

MCKeys == {k1, k2}
MCKeys1 == {k1}
MCUsers1 == {u1}
MCUsers2 == {u1, u2}
====
