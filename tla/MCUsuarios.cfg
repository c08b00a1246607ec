CONSTANTS
    u1 = u1
    u2 = u2
    t1 = t1
    p1 = p1
    p2 = p2
    Nulo = Nulo
    Omitido = Omitido
    Usuarios = {u1, u2}
    Tenants = {t1}
    Peticiones = {p1, p2}
    Cuerpos <- UnCampo
    Operaciones = {"create", "update", "softDelete", "password"}
SPECIFICATION Spec
SYMMETRY Simetria
INVARIANT RolConTenant
PROPERTY PerdidaDeAdmin
