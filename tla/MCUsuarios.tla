----------------------------- MODULE MCUsuarios -----------------------------
EXTENDS Usuarios, TLC

CONSTANTS u1, u2, t1, p1, p2

\* Bodies that change the role or "activo", or neither; null only in "activo".
UnCampo == {c \in Cuerpo : c.rol # Nulo /\ (c.rol = Omitido \/ c.activo = Omitido)}

Simetria == Permutations({u1, u2}) \cup Permutations({p1, p2})
=============================================================================
