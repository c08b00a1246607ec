------------------------------ MODULE MCFolios ------------------------------
EXTENDS Folios, TLC

CONSTANTS p1, p2, p3

Simetria == Permutations({p1, p2, p3})
=============================================================================
