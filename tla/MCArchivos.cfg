SPECIFICATION Spec
CONSTANTS
    Items = {i1}
    Exts = {png, webp}
    ExtItem = webp
    Peticiones = {p1, p2}
    Nulo = Nulo
    MaxSubidas = 2
    MaxOtras = 2
    MaxFallos = 1
SYMMETRY Simetria
INVARIANTS
    Coherente
    FallidaNoQueda
    PaginaSinRotas
PROPERTY ImagenDeProducto
CHECK_DEADLOCK FALSE
