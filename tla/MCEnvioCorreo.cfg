CONSTANTS
    e1 = e1
    e2 = e2
    k1 = k1
    k2 = k2
    Nulo = Nulo
    Cotizaciones = {q1}
    Usuarios = {u1}
    Tokens = {k1, k2}
    Peticiones = {p1}
    Barridos = {}
    Envios = {e1, e2}
    Incidencias = {"tenant", "correo"}
    FechasDto = {0, 1}
    DiasDefault = {1}
    TtlSinVigencia = 1
    TiempoMax = 1
    MaxCambios = 1
    Entradas = {"enlace"}
SPECIFICATION SpecEnvio
SYMMETRY Simetria
INVARIANTS TypeOKEnvio EnlaceConfirmadoVale
PROPERTIES DecideElUltimoEnlace CumpleCiclo
