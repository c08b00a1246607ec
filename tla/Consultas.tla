------------------------------ MODULE Consultas -------------------------------
(***************************************************************************)
(* What the users of a tenant read of all its quotations: the figures of   *)
(* MetricsService, computed by several queries that Promise.all starts     *)
(* together and nothing holds at one instant, and the list of findAll,     *)
(* read page by page while others create and change quotations.            *)
(***************************************************************************)
EXTENDS Integers, Sequences, FiniteSetsExt

CONSTANTS
    Cotizaciones,    \* quotations
    Datos,           \* Datos[q]: what never changes of q: tenant, fecha (creation),
                     \* cliente or Nulo (guest), lineas, total
    Tenants,
    Nulo,            \* not stored, no client, no value
    Estrena,         \* the instant at which the model begins
    MaxInstante,     \* bound: instants of the clock
    Calendario,      \* Calendario[t]: first instant of the day of t, of the next day,
                     \* of its month and of its year
    EstadosPrevios,  \* states of the quotations that are stored at first,
                     \* those created before Estrena
    Filtros,         \* filters that a reading may have
    Grupos,          \* sets of queries observed together in one reading
    Limite,          \* limit: quotations of a page
    MaxEscrituras    \* bound: writes

VARIABLES
    estado,    \* estado[q]: state of q, Nulo if it is not stored
    reloj,     \* the clock
    lectura,   \* the reading in progress
    escrituras, \* for the bound
    cambios,   \* history: writes in the tenant of the reading since it began
    previas,   \* history: quotations that have been in the list since its first page
    salidas    \* history: quotations that have left the list

vars == <<estado, reloj, lectura, escrituras, cambios, previas, salidas>>

-----------------------------------------------------------------------------

Estados == {"vigente", "vencida", "aceptada", "rechazada", "cancelada"}
Tipos == {"producto", "servicio"}
Buckets == Tipos \cup {"sinTipo"}
Instante == 1..MaxInstante

\* An old line may lack its subtotal and its type.
Linea == [servicio: STRING, cantidad: Nat, precio: Nat,
          subtotal: Nat \cup {Nulo}, tipo: STRING \cup {Nulo}]

Clientes == {Datos[q].cliente : q \in Cotizaciones} \ {Nulo}
Servicios == UNION {{Datos[q].lineas[i].servicio : i \in DOMAIN Datos[q].lineas}
                      : q \in Cotizaciones}

\* desde, hasta: dates of the filter or Nulo; tipo: of the lines, or Nulo.
Filtro == [desde: Instante \cup {Nulo}, hasta: Instante \cup {Nulo}, tipo: Tipos \cup {Nulo}]

\* The figures of getTotalsMetrics, one query each.
Conteos == {"hoy", "mes", "anio", "totales", "aceptadas", "rechazadas", "canceladas",
            "mayorSolicitante", "masActivoMes", "masSolicitado", "masRentable", "ingresos"}
ConsultasTotales == Conteos \cup {"desglose"}

DesglosePorTipo == [Buckets -> [ingresos: Nat, veces: Nat]]

\* pagina: pages read; paginas: totalPages of the last of them.
Listado == [op: {"listado"}, tenant: Tenants, estado: Estados \cup {Nulo}, pagina: Nat,
            paginas: Nat \ {0}, vistas: SUBSET Cotizaciones]

Libre == [op |-> "libre"]

ASSUME ConsultasAssumption ==
    /\ IsFiniteSet(Cotizaciones) /\ Nulo \notin Estados
    /\ MaxInstante \in Nat /\ Estrena \in Instante /\ MaxEscrituras \in Nat
    /\ Limite \in Nat \ {0}
    /\ \A q \in Cotizaciones :
         /\ Datos[q].tenant \in Tenants /\ Datos[q].fecha \in Instante
         /\ Datos[q].total \in Nat /\ Datos[q].lineas \in Seq(Linea)
    /\ \A t \in Instante :
         /\ Calendario[t] \in [anio: Int, mes: Int, dia: Int, finDia: Int]
         /\ Calendario[t].anio <= Calendario[t].mes /\ Calendario[t].mes <= Calendario[t].dia
         /\ Calendario[t].dia <= t /\ t < Calendario[t].finDia
    /\ EstadosPrevios \subseteq Estados /\ Filtros \subseteq Filtro
    /\ \A g \in Grupos : g \subseteq ConsultasTotales

TypeOK ==
    /\ estado \in [Cotizaciones -> Estados \cup {Nulo}]
    /\ reloj \in Instante /\ escrituras \in 0..MaxEscrituras
    /\ cambios \in 0..escrituras /\ salidas \in 0..cambios
    /\ previas \subseteq Cotizaciones
    /\ CASE lectura.op = "metricas" ->
              /\ DOMAIN lectura.res \subseteq lectura.grupo
              /\ \A c \in DOMAIN lectura.res :
                   lectura.res[c] \in IF c = "desglose" THEN DesglosePorTipo ELSE Nat
         [] lectura.op = "listado" -> lectura \in Listado
         [] OTHER -> lectura = Libre

Init ==
    /\ estado \in [Cotizaciones -> EstadosPrevios \cup {Nulo}]
    /\ \A q \in Cotizaciones : estado[q] = Nulo <=> Datos[q].fecha >= Estrena
    /\ reloj = Estrena
    /\ lectura = Libre
    /\ escrituras = 0 /\ cambios = 0 /\ previas = {} /\ salidas = 0

-----------------------------------------------------------------------------
(* Queries on the quotations of one instant *)

\* A match: bounds of fechaCreacion, each neutral when the query does not set it.
SinCotas == [gte |-> 0, lte |-> MaxInstante, lt |-> MaxInstante + 1]

BuildMatch(f) ==
    [SinCotas EXCEPT !.gte = IF f.desde = Nulo THEN @ ELSE f.desde,
                     !.lte = IF f.hasta = Nulo THEN @ ELSE f.hasta]

MutWithMatch(base, extra) ==
    [extra EXCEPT !.gte = IF @ = 0 THEN base.gte ELSE @, !.lte = base.lte]

\* The bounds of the filter and those of the query, intersected.
WithMatch(base, extra) ==
    [gte |-> Max({base.gte, extra.gte}), lte |-> Min({base.lte, extra.lte}),
     lt |-> Min({base.lt, extra.lt})]

Encontradas(tn, cotas, es) ==
    {q \in Cotizaciones :
        /\ Datos[q].tenant = tn /\ estado[q] \in es
        /\ cotas.gte <= Datos[q].fecha /\ Datos[q].fecha <= cotas.lte
        /\ Datos[q].fecha < cotas.lt}

\* A filter by type that keeps whole quotations.
MutLineasDe(qs, f) ==
    UNION {{q} \X DOMAIN Datos[q].lineas :
             q \in {p \in qs : f.tipo = Nulo \/ \E i \in DOMAIN Datos[p].lineas :
                                                  Datos[p].lineas[i].tipo = f.tipo}}

\* $unwind of the items, then the match of tipoSnapshotLineMatch: pairs of a
\* quotation and the number of a line.
LineasDe(qs, f) ==
    UNION {{q} \X {i \in DOMAIN Datos[q].lineas :
                     f.tipo = Nulo \/ Datos[q].lineas[i].tipo = f.tipo} : q \in qs}

LineaDe(l) == Datos[l[1]].lineas[l[2]]

MutItemSubtotal(l) == IF LineaDe(l).subtotal = Nulo THEN 0 ELSE LineaDe(l).subtotal

ItemSubtotal(l) ==
    IF LineaDe(l).subtotal = Nulo THEN LineaDe(l).precio * LineaDe(l).cantidad
                                  ELSE LineaDe(l).subtotal

Importe(ls) == SumFunction([l \in ls |-> ItemSubtotal(l)])
Veces(ls) == SumFunction([l \in ls |-> LineaDe(l).cantidad])

\* tipoSnapshotBucketExpr: what is missing or unknown goes to one bucket.
Bucket(l) == IF LineaDe(l).tipo \in Tipos THEN LineaDe(l).tipo ELSE "sinTipo"

Aceptadas(tn, f) == LineasDe(Encontradas(tn, BuildMatch(f), {"aceptada"}), f)

Desglose(tn, f) ==
    [b \in Buckets |->
        LET ls == {l \in Aceptadas(tn, f) : Bucket(l) = b}
        IN [ingresos |-> Importe(ls), veces |-> Veces(ls)]]

\* getServicesMetrics: how often each item was sold.
ServicesMetrics(tn, f) ==
    [s \in Servicios |-> Veces({l \in Aceptadas(tn, f) : LineaDe(l).servicio = s})]

RentaPorServicio(tn, f) ==
    [s \in Servicios |-> Importe({l \in Aceptadas(tn, f) : LineaDe(l).servicio = s})]

PorCliente(qs) == [c \in Clientes |-> Cardinality({q \in qs : Datos[q].cliente = c})]

\* getClientsMetrics: quotations of each client; those of guests do not count.
ClientsMetrics(tn, f) == PorCliente(Encontradas(tn, BuildMatch(f), Estados))

\* $sort and $limit 1: the largest value.
Primero(valores) == Max({0} \cup {valores[x] : x \in DOMAIN valores})

\* The answer of one query of getTotalsMetrics, begun at the instant a.
Respuesta(c, tn, f, a) ==
    LET cal == Calendario[a]
        Con(extra, es) == Encontradas(tn, WithMatch(BuildMatch(f), extra), es)
        Desde(t) == [SinCotas EXCEPT !.gte = t]
    IN CASE c = "hoy" ->
              Cardinality(Con([Desde(cal.dia) EXCEPT !.lt = cal.finDia], Estados))
         [] c = "mes" -> Cardinality(Con(Desde(cal.mes), Estados))
         [] c = "anio" -> Cardinality(Con(Desde(cal.anio), Estados))
         [] c = "totales" -> Cardinality(Con(SinCotas, Estados))
         [] c = "aceptadas" -> Cardinality(Con(SinCotas, {"aceptada"}))
         [] c = "rechazadas" -> Cardinality(Con(SinCotas, {"rechazada"}))
         [] c = "canceladas" -> Cardinality(Con(SinCotas, {"cancelada"}))
         [] c = "mayorSolicitante" -> Primero(PorCliente(Con(SinCotas, Estados)))
         [] c = "masActivoMes" -> Primero(PorCliente(Con(Desde(cal.mes), Estados)))
         [] c = "masSolicitado" -> Primero(ServicesMetrics(tn, f))
         [] c = "masRentable" -> Primero(RentaPorServicio(tn, f))
         [] c = "ingresos" ->
              SumFunction([q \in Con(SinCotas, {"aceptada"}) |-> Datos[q].total])
         [] OTHER -> Desglose(tn, f)

\* The denominator of tasaConversion.
OfertasValidas(r) == Max({0, r["totales"] - r["canceladas"]})

-----------------------------------------------------------------------------
(* Readings *)

Leer(r) == lectura' = r /\ UNCHANGED <<estado, reloj, escrituras>>

SinHistoria == cambios' = 0 /\ previas' = {} /\ salidas' = 0

\* getTotalsMetrics up to Promise.all; the queries that are not in g go unobserved.
GetTotalsMetrics ==
    /\ lectura = Libre
    /\ \E tn \in Tenants, f \in Filtros, g \in Grupos :
         Leer([op |-> "metricas", tenant |-> tn, filtro |-> f, ahora |-> reloj,
               grupo |-> g, res |-> <<>>])
    /\ SinHistoria

Pendientes == lectura.grupo \ DOMAIN lectura.res

\* The server answers one of the queries, in any order.
Consultar ==
    /\ lectura.op = "metricas"
    /\ \E c \in Pendientes :
         Leer([lectura EXCEPT !.res = [d \in DOMAIN @ \cup {c} |->
                 IF d = c THEN Respuesta(c, lectura.tenant, lectura.filtro, lectura.ahora)
                          ELSE @[d]]])
    /\ UNCHANGED <<cambios, previas, salidas>>

Lista(r) == Encontradas(r.tenant, SinCotas, IF r.estado = Nulo THEN Estados ELSE {r.estado})

MutSkip(pagina) == pagina * Limite

Skip(pagina) == (pagina - 1) * Limite

MutTotalPages(n) == (n + Limite - 1) \div Limite

\* Math.ceil(total / limit) || 1
TotalPages(n) == Max({1, (n + Limite - 1) \div Limite})

\* $sort, $skip and $limit: quotations of the same instant come in any order.
Paginas(r) ==
    {p \in SUBSET Lista(r) :
        \E antes \in SUBSET (Lista(r) \ p) :
            LET despues == Lista(r) \ (p \cup antes) IN
            /\ Cardinality(antes) = Min({Skip(r.pagina), Cardinality(Lista(r))})
            /\ Cardinality(p) = Min({Limite, Cardinality(Lista(r) \ antes)})
            /\ \A a \in antes, q \in p : Datos[a].fecha >= Datos[q].fecha
            /\ \A a \in antes \cup p, q \in despues : Datos[a].fecha >= Datos[q].fecha}

\* findAll of page r.pagina: data and totalCount are facets of one query.
ConPagina(r) ==
    {[r EXCEPT !.vistas = @ \cup p, !.paginas = TotalPages(Cardinality(Lista(r)))]
        : p \in Paginas(r)}

\* A caller begins to read the list.
FindAll ==
    /\ lectura = Libre
    /\ \E tn \in Tenants, e \in Estados \cup {Nulo} :
         LET r == [op |-> "listado", tenant |-> tn, estado |-> e, pagina |-> 1,
                   paginas |-> 1, vistas |-> {}]
         IN /\ \E s \in ConPagina(r) : Leer(s)
            /\ previas' = Lista(r)
    /\ cambios' = 0 /\ salidas' = 0

\* It asks for the next page, as long as the last answer says there is one.
SiguientePagina ==
    /\ lectura.op = "listado" /\ lectura.pagina < lectura.paginas
    /\ \E s \in ConPagina([lectura EXCEPT !.pagina = @ + 1]) : Leer(s)
    /\ UNCHANGED <<cambios, previas, salidas>>

Terminar ==
    /\ \/ lectura.op = "metricas" /\ Pendientes = {}
       \/ lectura.op = "listado" /\ lectura.pagina >= lectura.paginas
    /\ Leer(Libre) /\ SinHistoria

-----------------------------------------------------------------------------
(* Writers *)

Escribir(q, e) ==
    /\ escrituras < MaxEscrituras
    /\ estado' = [estado EXCEPT ![q] = e]
    /\ escrituras' = escrituras + 1
    /\ cambios' = IF lectura # Libre /\ lectura.tenant = Datos[q].tenant
                  THEN cambios + 1 ELSE cambios
    /\ UNCHANGED <<reloj, lectura>>
    /\ IF lectura.op = "listado" /\ q \in Lista(lectura) \ Lista(lectura)'
       THEN previas' = previas \ {q} /\ salidas' = salidas + 1
       ELSE UNCHANGED <<previas, salidas>>

\* The date is taken before the save, which may come an instant later.
Crear(q) ==
    /\ estado[q] = Nulo /\ Datos[q].fecha \in {reloj, reloj - 1}
    /\ Escribir(q, "vigente")

\* A user, a customer or the sweep: any state may follow any other.
CambiarEstado(q) ==
    /\ estado[q] # Nulo
    /\ \E e \in Estados \ {estado[q]} : Escribir(q, e)

Tick ==
    /\ reloj < MaxInstante
    /\ reloj' = reloj + 1
    /\ UNCHANGED <<estado, lectura, escrituras, cambios, previas, salidas>>

Next ==
    \/ GetTotalsMetrics \/ Consultar \/ FindAll \/ SiguientePagina \/ Terminar \/ Tick
    \/ \E q \in Cotizaciones : Crear(q) \/ CambiarEstado(q)

Spec == Init /\ [][Next]_vars

-----------------------------------------------------------------------------
(* Safety *)

Hay(cs) == lectura.op = "metricas" /\ cs \subseteq DOMAIN lectura.res

\* The figures of one answer agree up to the writes that came between its queries
\* (and those of other tenants never count): what is created today, this month and
\* this year nest, the decided are not more than all, and the conversion rate is not
\* above one.
ConteosConCambios ==
    /\ Hay({"hoy", "mes", "anio", "totales"}) =>
         /\ lectura.res["hoy"] <= lectura.res["mes"] + cambios
         /\ lectura.res["mes"] <= lectura.res["anio"] + cambios
         /\ lectura.res["anio"] <= lectura.res["totales"] + cambios
    /\ Hay({"aceptadas", "rechazadas", "canceladas", "totales"}) =>
         /\ lectura.res["aceptadas"] + lectura.res["rechazadas"] + lectura.res["canceladas"]
              <= lectura.res["totales"] + cambios
         /\ lectura.res["aceptadas"] <= OfertasValidas(lectura.res) + cambios
    /\ Hay({"masActivoMes", "mayorSolicitante", "mes", "totales"}) =>
         /\ lectura.res["masActivoMes"] <= lectura.res["mayorSolicitante"] + cambios
         /\ lectura.res["mayorSolicitante"] <= lectura.res["totales"] + cambios
         /\ lectura.res["masActivoMes"] <= lectura.res["mes"] + cambios

SumaBuckets(d) ==
    [ingresos |-> SumFunction([b \in Buckets |-> d[b].ingresos]),
     veces |-> SumFunction([b \in Buckets |-> d[b].veces])]

\* When no write of the tenant came in between, the income is the sum of the breakdown
\* by type, lines without type or subtotal included, and no item outdoes the sum.
ImportesCuadran ==
    Hay({"ingresos", "desglose", "masRentable", "masSolicitado"}) /\ cambios = 0 =>
        LET suma == SumaBuckets(lectura.res["desglose"]) IN
        /\ lectura.filtro.tipo = Nulo => lectura.res["ingresos"] = suma.ingresos
        /\ lectura.res["masRentable"] <= suma.ingresos
        /\ lectura.res["masSolicitado"] <= suma.veces

\* The endpoints agree on a store at rest: the items sold of getServicesMetrics add up
\* to the breakdown, the breakdown of a filter by type is that bucket of the whole, and
\* the clients of getClientsMetrics and the guests add up to all quotations.
ResumenesCuadran ==
    lectura = Libre => \A tn \in Tenants, f \in Filtros :
        LET d == Desglose(tn, f)
            sinTipo == Desglose(tn, [f EXCEPT !.tipo = Nulo])
            todas == Encontradas(tn, BuildMatch(f), Estados)
        IN /\ SumaBuckets(d).veces = SumFunction(ServicesMetrics(tn, f))
           /\ \A b \in Buckets :
                d[b] = IF f.tipo \in {b, Nulo} THEN sinTipo[b]
                                               ELSE [ingresos |-> 0, veces |-> 0]
           /\ SumFunction(ClientsMetrics(tn, f))
                + Cardinality({q \in todas : Datos[q].cliente = Nulo}) = Cardinality(todas)

\* Two quotations created at the same instant have no order of their own.
Unica(q) ==
    \A p \in Cotizaciones \ {q} :
        Datos[p].tenant = Datos[q].tenant /\ estado[p] # Nulo => Datos[p].fecha # Datos[q].fecha

\* Whoever reads all the pages has seen every quotation that was in the list all along,
\* whatever was created meanwhile, but for one for each that left the list, and for
\* those that share their instant of creation with another.
RecorridoCompleto ==
    lectura.op = "listado" /\ lectura.pagina >= lectura.paginas =>
        Cardinality({q \in previas \ lectura.vistas : Unica(q)}) <= salidas
=============================================================================
