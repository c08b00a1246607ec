---------------------------- MODULE MCRestablecer ----------------------------
EXTENDS RestablecerContrasena, TLC

CONSTANTS t1, t2, t3, s1, s2, c1, c2, correo, otraGrafia

\* The third token is issued under another spelling of the same address.
DosGrafias == [t \in Tokens |-> IF t = t3 THEN otraGrafia ELSE correo]

Simetria == Permutations({t1, t2}) \cup Permutations({s1, s2}) \cup Permutations({c1, c2})
=============================================================================
