---------------------------- MODULE MCDocuments ----------------------------
EXTENDS Documents, TLC

CONSTANTS w1, w2, x1, x2, d1, d2, a, b, c, e

Interchangeable == Permutations({w1, w2}) \cup Permutations({x1, x2})
                       \cup Permutations({d1, d2}) \cup Permutations({a, b, c, e})
=============================================================================
