---------------------------- MODULE MCInquilinos ----------------------------
EXTENDS Inquilinos, TLC

CONSTANTS t1, t2, c1, c2, k1, k2, p1, p2

Simetria ==
    Permutations({t1, t2}) \cup Permutations({c1, c2}) \cup Permutations({k1, k2})
    \cup Permutations({p1, p2})
=============================================================================
