SPECIFICATION Spec
CONSTANTS
    Cotizaciones = {"vieja", "pasada", "doble", "guest", "ajena"}
    Datos <- MCDatos
    Tenants = {"A", "B"}
    Nulo = Nulo
    Estrena = 3
    MaxInstante = 4
    Calendario <- MCCalendario
    EstadosPrevios = {"aceptada"}
    Filtros <- MCFiltros
    Grupos <- MCGrupos
    Limite = 1
    MaxEscrituras = 3
INVARIANTS
    TypeOK
    ConteosConCambios
    ImportesCuadran
    ResumenesCuadran
    RecorridoCompleto
