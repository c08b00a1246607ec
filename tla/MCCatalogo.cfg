CONSTANTS
    ta = ta
    tb = tb
    i1 = i1
    i2 = i2
    p1 = p1
    p2 = p2
    Nulo = Nulo
    Borrado = Borrado
    Omitido = Omitido
    Tenants = {ta, tb}
    Codigos = {k}
    Items = {i1, i2}
    Peticiones = {p1, p2}
    ActivosDto = {TRUE, FALSE, Nulo, Omitido}
    Operaciones = {"item", "multi", "categoria"}
SPECIFICATION Spec
SYMMETRY Simetria
INVARIANT AltaFallidaSinItems
PROPERTIES ReglaSalvoRebase BajaSinTestigos
