CONSTANTS
    s1 = s1
    s2 = s2
    q1 = q1
    q2 = q2
    Nulo = Nulo
    Omitido = Omitido
    Servicios = {s1, s2}
    Cotizaciones = {q1, q2}
    Peticiones = {p1}
    Altas <- MCAltas
    Repeticiones <- MCRepeticiones
    MaxCambios = 2
SPECIFICATION Spec
SYMMETRY Simetria
INVARIANTS TypeOK SnapshotsVigentes ClonFiel CancelacionVeraz
