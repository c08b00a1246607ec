CONSTANTS
    t1 = t1
    t2 = t2
    c1 = c1
    c2 = c2
    k1 = k1
    k2 = k2
    p1 = p1
    p2 = p2
    Tenants = {t1, t2}
    Claves = {k1, k2}
    Correos = {c1, c2}
    Peticiones = {p1, p2}
    Nulo = Nulo
    NumSemillas = 2
    MaxFallos = 1
SPECIFICATION Spec
SYMMETRY Simetria
INVARIANTS RechazoLimpio AltaCompleta PrimerAdminUnico
PROPERTIES EdicionesConservadas
