CONSTANTS
    p1 = p1
    p2 = p2
    p3 = p3
    Nulo = Nulo
    Series = {s1, s2}
    Peticiones = {p1, p2, p3}
    PrevioMax = 2
    SeqMax = 4
SPECIFICATION Spec
SYMMETRY Simetria
INVARIANTS SinColision ContadorListo
PROPERTY CumpleAsignador
