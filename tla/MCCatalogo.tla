----------------------------- MODULE MCCatalogo -----------------------------
EXTENDS Catalogo, TLC

CONSTANTS ta, tb, i1, i2, p1, p2

Simetria ==
    Permutations({ta, tb}) \cup Permutations({i1, i2}) \cup Permutations({p1, p2})
=============================================================================
