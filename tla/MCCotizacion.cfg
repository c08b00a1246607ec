CONSTANTS
    p1 = p1
    p2 = p2
    Nulo = Nulo
    Cotizaciones = {q1}
    Usuarios = {u1}
    Tokens = {k1}
    Peticiones = {p1, p2}
    Barridos = {b1}
    FechasDto = {0, 1}
    DiasDefault = {1}
    TtlSinVigencia = 1
    TiempoMax = 2
    MaxCambios = 1
    Entradas = {"estado", "update", "enlace"}
SPECIFICATION Spec
SYMMETRY Simetria
INVARIANTS DocumentoCoherente AvisoUnico
    ConfirmacionEstable SinRespuestasContradictorias AvisosDeDecisiones
PROPERTIES CumpleCiclo DecisionNoPerdida
