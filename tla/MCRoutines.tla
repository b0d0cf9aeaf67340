----------------------------- MODULE MCRoutines -----------------------------
EXTENDS Routines, TLC

CONSTANTS k1, c1, c2, u1, r1, r2, i1, i2
=============================================================================
