--------------------------- MODULE MCEnvioCorreo ---------------------------
EXTENDS EnvioCorreo, TLC

CONSTANTS e1, e2, k1, k2

Simetria == Permutations({e1, e2}) \cup Permutations({k1, k2})
=============================================================================
