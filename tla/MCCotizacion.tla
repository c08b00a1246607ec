---------------------------- MODULE MCCotizacion ----------------------------
EXTENDS Cotizacion, TLC

CONSTANTS p1, p2

Simetria == Permutations({p1, p2})
=============================================================================
