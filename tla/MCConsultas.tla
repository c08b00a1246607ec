------------------------------ MODULE MCConsultas -----------------------------
(* Consultas for TLC: four quotations of one tenant, one of another. *)
EXTENDS Consultas

\* Instants: 1 another year, 2 another month, 3 today, 4 tomorrow.
MCCalendario ==
    [t \in 1..4 |-> [anio |-> IF t = 1 THEN 1 ELSE 2, mes |-> IF t < 3 THEN t ELSE 3,
                     dia |-> t, finDia |-> t + 1]]

L(s, n, p, t) == [servicio |-> s, cantidad |-> n, precio |-> p, subtotal |-> n * p, tipo |-> t]
Antigua(s, n, p) ==
    [servicio |-> s, cantidad |-> n, precio |-> p, subtotal |-> Nulo, tipo |-> Nulo]

Cot(tn, t, c, ls, total) ==
    [tenant |-> tn, fecha |-> t, cliente |-> c, lineas |-> ls, total |-> total]

MCDatos ==
    [q \in {"vieja", "pasada", "doble", "guest", "ajena"} |->
        CASE q = "vieja" -> Cot("A", 1, "c1", <<Antigua("s1", 2, 3)>>, 6)
          [] q = "pasada" -> Cot("A", 2, "c1", <<L("s1", 1, 4, "producto"),
                                                L("s2", 1, 2, "servicio")>>, 6)
          [] q = "doble" -> Cot("A", 3, "c2", <<L("s1", 1, 3, "servicio"),
                                                L("s1", 2, 3, "producto")>>, 9)
          [] q = "guest" -> Cot("A", 3, Nulo, <<L("s2", 3, 1, "servicio")>>, 3)
          [] q = "ajena" -> Cot("B", 3, "c1", <<L("s1", 5, 5, "producto")>>, 25)]

F(d, h, t) == [desde |-> d, hasta |-> h, tipo |-> t]
MCFiltros == {F(Nulo, Nulo, Nulo), F(3, Nulo, Nulo), F(Nulo, 2, "producto")}

MCGrupos ==
    {{"hoy", "mes", "anio", "totales"},
     {"aceptadas", "rechazadas", "canceladas", "totales"},
     {"masActivoMes", "mayorSolicitante", "mes", "totales"},
     {"ingresos", "desglose", "masRentable", "masSolicitado"}}
=============================================================================
