CONSTANTS
    p1 = p1
    p2 = p2
    Nulo = Nulo
    Cotizaciones = {q1, q2}
    Usuarios = {u1}
    Tokens = {}
    Peticiones = {p1}
    Barridos = {b1}
    FechasDto = {0, 1}
    DiasDefault = {1}
    TtlSinVigencia = 1
    TiempoMax = 2
    MaxCambios = 1
    Entradas = {"estado", "update"}
SPECIFICATION FairSpec
PROPERTY VencimientoEventual
