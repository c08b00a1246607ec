CONSTANTS
    t1 = t1
    t2 = t2
    t3 = t3
    s1 = s1
    s2 = s2
    c1 = c1
    c2 = c2
    correo = correo
    otraGrafia = otraGrafia
    SinToken = SinToken
    Tokens = {t1, t2, t3}
    Email <- DosGrafias
    Solicitudes = {s1, s2}
    Cambios = {c1, c2}
SPECIFICATION SpecRestablecer
SYMMETRY Simetria
INVARIANTS EnlaceConfirmadoGuardado RevocadosInservibles UnSoloUso
