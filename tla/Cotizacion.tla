----------------------------- MODULE Cotizacion -----------------------------
(***************************************************************************)
(* The life cycle of a quotation document of CotizacionesService, with     *)
(* every writer of its state that runs concurrently: the manual change of  *)
(* state (PATCH :id/estado and the admin shortcuts), the PATCH :id update, *)
(* the answer of the customer through the magic link, and the expiry sweep *)
(* (daily cron and PATCH mark-expired).                                    *)
(*                                                                         *)
(* Each await of a handler is a point where the others run, so a handler   *)
(* is one action per database call; pet[p] is what request p holds between *)
(* two of them.  One tick of "ahora" is one unit of the dates.             *)
(***************************************************************************)
EXTENDS Integers

CONSTANTS
    Cotizaciones,   \* ids of the documents
    Usuarios,       \* authenticated users (JWT actors)
    Tokens,         \* magic tokens, random and never reused
    Peticiones,     \* requests in flight at once
    Barridos,       \* expiry sweeps in flight at once
    Nulo,           \* an absent (null or unset) field
    FechasDto,      \* dates a client may send as fechaVencimiento
    DiasDefault,    \* vigenciaDefaultDias of the tenant, or the fallback
    TtlSinVigencia, \* life of the link of a quotation without expiry
    TiempoMax,      \* bound: last value of the clock
    MaxCambios,     \* bound: manual changes started per quotation
    Entradas        \* bound: the kinds of request that arrive in this instance

ASSUME ConstantesAssumption ==
    /\ Nulo \notin Nat /\ Nulo \notin {"magic_link", "usuario", "cron"}
    /\ Nulo \notin Usuarios
    /\ Nulo \notin Tokens
    /\ FechasDto \subseteq Nat
    /\ DiasDefault \subseteq Nat \ {0}
    /\ TtlSinVigencia \in Nat
    /\ TiempoMax \in Nat
    /\ MaxCambios \in Nat
    /\ Entradas \subseteq {"estado", "update", "enlace"}

VARIABLES
    ahora,     \* the wall clock
    cot,       \* cot[q]: the stored document
    pet,       \* pet[p]: progress of request p
    barrido,   \* barrido[b]: progress of sweep b
    epoca,     \* history: epoca[q] counts the manual changes applied to q
    avisados   \* history: the decisions <<q, epoca>> already notified

vars == <<ahora, cot, pet, barrido, epoca, avisados>>

-----------------------------------------------------------------------------
(* The document *)

Estados == {"vigente", "vencida", "aceptada", "rechazada", "cancelada"}
Decisiones == {"aceptada", "rechazada"}
Origenes == {"magic_link", "usuario", "cron"}
Fecha == Nat \cup {Nulo}

Documento ==
    [estado: Estados, estadoOrigen: Origenes \cup {Nulo},
     actor: Usuarios \cup {Nulo}, sinVigencia: BOOLEAN,
     fechaCreacion: Nat, fechaVencimiento: Fecha,
     fechaAceptacion: Fecha, fechaRechazo: Fecha,
     magicToken: Tokens \cup {Nulo}, magicTokenExpiresAt: Fecha]

\* Date until which the link of a quotation is valid; Nulo when none can be issued.
ResolveMagicExpiresAt(d) ==
    IF d.sinVigencia THEN d.fechaCreacion + TtlSinVigencia
                     ELSE d.fechaVencimiento

\* A quotation as create or repetir saves it at time t.
Creada(sv, fv, t) ==
    [estado |-> "vigente", estadoOrigen |-> Nulo, actor |-> Nulo,
     sinVigencia |-> sv, fechaCreacion |-> t,
     fechaVencimiento |-> IF sv THEN Nulo ELSE fv,
     fechaAceptacion |-> Nulo, fechaRechazo |-> Nulo,
     magicToken |-> Nulo, magicTokenExpiresAt |-> Nulo]

MutConEnlace(d, tk, hasta) == [d EXCEPT !.magicToken = tk]

MutConEnlaceReabre(d, tk, hasta) ==
    [d EXCEPT !.magicToken = tk, !.magicTokenExpiresAt = hasta, !.estado = "vigente"]

\* issueMagicToken: a new token replaces the previous one.
ConEnlace(d, tk, hasta) ==
    [d EXCEPT !.magicToken = tk, !.magicTokenExpiresAt = hasta]

MutDocManual(d, nuevo, u, t, fv) ==
    [d EXCEPT !.estado = nuevo, !.estadoOrigen = "usuario", !.actor = u,
              !.fechaAceptacion = IF nuevo = "aceptada" THEN t ELSE @,
              !.fechaRechazo = IF nuevo = "rechazada" THEN t ELSE @,
              !.fechaVencimiento = IF nuevo = "vigente" THEN fv ELSE @]

\* The $set of cambiarEstadoManual; fv is the resolved date when it reopens.
DocManual(d, nuevo, u, t, fv) ==
    [d EXCEPT !.estado = nuevo, !.estadoOrigen = "usuario", !.actor = u,
              !.fechaAceptacion = IF nuevo = "aceptada" THEN t ELSE Nulo,
              !.fechaRechazo = IF nuevo = "rechazada" THEN t ELSE Nulo,
              !.fechaVencimiento = IF nuevo = "vigente" THEN fv ELSE @]

\* The $set/$unset of responderByMagicToken.
DocRespondido(d, decision, t) ==
    [d EXCEPT !.estado = decision, !.estadoOrigen = "magic_link", !.actor = Nulo,
              !.fechaAceptacion = IF decision = "aceptada" THEN t ELSE @,
              !.fechaRechazo = IF decision = "rechazada" THEN t ELSE @]

\* The $set/$unset of markExpiredQuotations.
DocVencido(d) ==
    [d EXCEPT !.estado = "vencida", !.estadoOrigen = "cron", !.actor = Nulo]

-----------------------------------------------------------------------------
(* Filters of the conditional writes *)

MutVigenciaSuperada(d, t) == d.fechaVencimiento # Nulo /\ d.fechaVencimiento < t

VigenciaSuperada(d, t) ==
    ~d.sinVigencia /\ d.fechaVencimiento # Nulo /\ d.fechaVencimiento < t

EnlaceExpirado(d) ==
    d.magicTokenExpiresAt # Nulo /\ d.magicTokenExpiresAt < ahora

MutFiltroManual(d, leido) == TRUE

FiltroManual(d, leido) == d.estado = leido

MutFiltroRespuesta(d, tk, t) ==
    d.magicToken = tk /\ ~VigenciaSuperada(d, t)

MutFiltroRespuestaSinToken(d, tk, t) ==
    d.magicToken # Nulo /\ d.estado = "vigente" /\ ~VigenciaSuperada(d, t)

FiltroRespuesta(d, tk, t) ==
    /\ d.magicToken = tk
    /\ d.estado = "vigente"
    /\ d.sinVigencia \/ (d.fechaVencimiento # Nulo /\ d.fechaVencimiento >= t)

MutFiltroBarrido(d, t) == VigenciaSuperada(d, t)

MutFiltroBarridoEnviadas(d, t) ==
    d.estado = "vigente" /\ VigenciaSuperada(d, t) /\ d.magicToken # Nulo

FiltroBarrido(d, t) ==
    d.estado = "vigente" /\ VigenciaSuperada(d, t)

-----------------------------------------------------------------------------
(* What a request holds between two database calls *)

Libre == [fase |-> "libre"]

Peticion ==
    {Libre}
    \cup [fase: {"leer"}, q: Cotizaciones, actor: Usuarios, nuevo: Estados,
          fecha: Fecha, resto: Fecha]
    \cup [fase: {"preparar"}, q: Cotizaciones, actor: Usuarios, nuevo: Estados,
          fecha: Fecha, resto: Fecha, leido: Estados]
    \cup [fase: {"aplicar"}, q: Cotizaciones, actor: Usuarios, nuevo: Estados,
          fecha: Fecha, resto: Fecha, leido: Estados, t: Nat]
    \cup [fase: {"resto"}, q: Cotizaciones, resto: Nat]
    \cup [fase: {"responder"}, token: Tokens, nuevo: Decisiones, t: Nat]
    \cup [fase: {"releer"}, token: Tokens, nuevo: Decisiones]
    \cup [fase: {"avisar"}, q: Cotizaciones, nuevo: Decisiones, epoca: Nat]
    \cup [fase: {"fin"}, q: Cotizaciones, nuevo: Decisiones, epoca: Nat,
          res: {"ok", "yaRespondida", "rechazo", "expirado"}]

Barrido == [t: Fecha, pendientes: SUBSET Cotizaciones]
SinBarrido == [t |-> Nulo, pendientes |-> {}]

TypeOK ==
    /\ ahora \in Nat
    /\ cot \in [Cotizaciones -> Documento]
    /\ pet \in [Peticiones -> Peticion]
    /\ barrido \in [Barridos -> Barrido]
    /\ epoca \in [Cotizaciones -> Nat]
    /\ avisados \subseteq Cotizaciones \X Nat

\* Quotations just created at time 0, already sent by mail or not.
Init ==
    /\ ahora = 0
    /\ \E sv \in [Cotizaciones -> BOOLEAN], fv \in [Cotizaciones -> FechasDto],
          tk \in [Cotizaciones -> Tokens \cup {Nulo}] :
         /\ \A q1, q2 \in Cotizaciones :
              q1 # q2 /\ tk[q1] = tk[q2] => tk[q1] = Nulo
         /\ cot = [q \in Cotizaciones |->
                     IF tk[q] = Nulo THEN Creada(sv[q], fv[q], 0)
                     ELSE LET d == Creada(sv[q], fv[q], 0) IN
                          ConEnlace(d, tk[q], ResolveMagicExpiresAt(d))]
    /\ pet = [p \in Peticiones |-> Libre]
    /\ barrido = [b \in Barridos |-> SinBarrido]
    /\ epoca = [q \in Cotizaciones |-> 0]
    /\ avisados = {}

Tick ==
    /\ ahora < TiempoMax
    /\ ahora' = ahora + 1
    /\ UNCHANGED <<cot, pet, barrido, epoca, avisados>>

-----------------------------------------------------------------------------
(* cambiarEstadoManual: read, resolve the actor and the date, conditional write *)

Pasar(p, r) == pet' = [pet EXCEPT ![p] = r]

\* A manual change reads the document in its own step (LeerManual).
CambiarEstado(p) ==
    /\ "estado" \in Entradas /\ pet[p].fase = "libre"
    /\ \E q \in Cotizaciones, u \in Usuarios, e \in Estados,
          f \in FechasDto \cup {Nulo} :
         /\ epoca[q] < MaxCambios
         /\ e = "vigente" \/ f = Nulo
         /\ Pasar(p, [fase |-> "leer", q |-> q, actor |-> u, nuevo |-> e,
                      fecha |-> f, resto |-> Nulo])
    /\ UNCHANGED <<ahora, cot, barrido, epoca, avisados>>

\* Asking for the state the document already has is a 400.
LeerManual(p) ==
    LET r == pet[p] IN
    /\ r.fase = "leer"
    /\ IF cot[r.q].estado = r.nuevo
         THEN Pasar(p, Libre)
         ELSE Pasar(p, [fase |-> "preparar", q |-> r.q, actor |-> r.actor,
                        nuevo |-> r.nuevo, fecha |-> r.fecha, resto |-> r.resto,
                        leido |-> cot[r.q].estado])
    /\ UNCHANGED <<ahora, cot, barrido, epoca, avisados>>

\* The dates resolveFechaVigenteManual may return at time t; none is a 400.
FechasVigente(f, t) ==
    IF f # Nulo THEN {x \in {f} : x > t} ELSE {t + d : d \in DiasDefault}

PrepararManual(p) ==
    LET r == pet[p]
        Listo(f) == Pasar(p, [fase |-> "aplicar", q |-> r.q, actor |-> r.actor,
                              nuevo |-> r.nuevo, fecha |-> f, resto |-> r.resto,
                              leido |-> r.leido, t |-> ahora])
    IN
    /\ r.fase = "preparar"
    /\ \/ r.nuevo # "vigente" /\ Listo(r.fecha)
       \/ r.nuevo = "vigente" /\ \E f \in FechasVigente(r.fecha, ahora) : Listo(f)
       \/ /\ r.nuevo = "vigente" /\ FechasVigente(r.fecha, ahora) = {}
          /\ Pasar(p, Libre)
    /\ UNCHANGED <<ahora, cot, barrido, epoca, avisados>>

\* The write is applied only if the document still has the state that was read.
AplicarManual(p) ==
    LET r == pet[p] IN
    /\ r.fase = "aplicar"
    /\ IF FiltroManual(cot[r.q], r.leido)
         THEN /\ cot' = [cot EXCEPT ![r.q] =
                           DocManual(@, r.nuevo, r.actor, r.t, r.fecha)]
              /\ epoca' = [epoca EXCEPT ![r.q] = @ + 1]
              /\ Pasar(p, IF r.resto = Nulo THEN Libre
                          ELSE [fase |-> "resto", q |-> r.q, resto |-> r.resto])
         ELSE /\ Pasar(p, Libre)
              /\ UNCHANGED <<cot, epoca>>
    /\ UNCHANGED <<ahora, barrido, avisados>>

-----------------------------------------------------------------------------
(* update (PATCH :id): an explicit state, or the one the new date implies *)

EstadoObjetivo(e, f) ==
    IF e = Nulo /\ f # Nulo THEN IF f < ahora THEN "vencida" ELSE "vigente" ELSE e

\* The rest of the body is written after the change of state, without a filter
\* on the state; when the change reopens the document the date went with it.
Actualizar(p) ==
    /\ "update" \in Entradas /\ pet[p].fase = "libre"
    /\ \E q \in Cotizaciones, u \in Usuarios,
          e \in {"vigente", "vencida", Nulo}, f \in FechasDto \cup {Nulo} :
         LET objetivo == EstadoObjetivo(e, f)
             cambia == objetivo # Nulo /\ objetivo # cot[q].estado
         IN /\ epoca[q] < MaxCambios
            /\ \/ /\ cambia
                  /\ Pasar(p, [fase |-> "leer", q |-> q, actor |-> u,
                               nuevo |-> objetivo, fecha |-> f,
                               resto |-> IF objetivo = "vigente" THEN Nulo ELSE f])
               \/ /\ ~cambia /\ f # Nulo
                  /\ Pasar(p, [fase |-> "resto", q |-> q, resto |-> f])
    /\ UNCHANGED <<ahora, cot, barrido, epoca, avisados>>

EscribirResto(p) ==
    LET r == pet[p] IN
    /\ r.fase = "resto"
    /\ cot' = [cot EXCEPT ![r.q].fechaVencimiento = r.resto]
    /\ Pasar(p, Libre)
    /\ UNCHANGED <<ahora, barrido, epoca, avisados>>

-----------------------------------------------------------------------------
(* responderByMagicToken: read by token, conditional write, notification *)

Terminar(p, q, decision, res) ==
    Pasar(p, [fase |-> "fin", q |-> q, nuevo |-> decision,
              epoca |-> epoca[q], res |-> res])

\* findOneByMagicTokenRaw and the checks before the write; an unknown token
\* (404) changes nothing.
ResponderEnlace(p) ==
    /\ "enlace" \in Entradas /\ pet[p].fase = "libre"
    /\ \E q \in Cotizaciones, decision \in Decisiones :
         LET d == cot[q] IN
         /\ d.magicToken # Nulo
         /\ \/ EnlaceExpirado(d) /\ Terminar(p, q, decision, "expirado")
            \/ /\ ~EnlaceExpirado(d) /\ d.estado = decision
               /\ Terminar(p, q, decision, "yaRespondida")
            \/ /\ ~EnlaceExpirado(d) /\ d.estado # decision
               /\ d.estado # "vigente" \/ VigenciaSuperada(d, ahora)
               /\ Terminar(p, q, decision, "rechazo")
            \/ /\ ~EnlaceExpirado(d)
               /\ d.estado = "vigente" /\ ~VigenciaSuperada(d, ahora)
               /\ Pasar(p, [fase |-> "responder", token |-> d.magicToken,
                            nuevo |-> decision, t |-> ahora])
    /\ UNCHANGED <<ahora, cot, barrido, epoca, avisados>>

AplicarRespuesta(p) ==
    LET r == pet[p] IN
    /\ r.fase = "responder"
    /\ \/ \E q \in Cotizaciones :
            /\ FiltroRespuesta(cot[q], r.token, r.t)
            /\ cot' = [cot EXCEPT ![q] = DocRespondido(@, r.nuevo, r.t)]
            /\ Pasar(p, [fase |-> "avisar", q |-> q, nuevo |-> r.nuevo,
                         epoca |-> epoca[q]])
       \/ /\ \A q \in Cotizaciones : ~FiltroRespuesta(cot[q], r.token, r.t)
          /\ Pasar(p, [fase |-> "releer", token |-> r.token, nuevo |-> r.nuevo])
          /\ UNCHANGED cot
    /\ UNCHANGED <<ahora, barrido, epoca, avisados>>

\* The write lost a race: read again and answer from what is there now.
ReleerRespuesta(p) ==
    LET r == pet[p] IN
    /\ r.fase = "releer"
    /\ \/ \E q \in Cotizaciones :
            LET d == cot[q] IN
            /\ d.magicToken = r.token
            /\ Terminar(p, q, r.nuevo,
                        IF EnlaceExpirado(d) THEN "expirado"
                        ELSE IF d.estado = r.nuevo THEN "yaRespondida"
                        ELSE "rechazo")
       \/ /\ \A q \in Cotizaciones : cot[q].magicToken # r.token
          /\ Pasar(p, Libre)
    /\ UNCHANGED <<ahora, cot, barrido, epoca, avisados>>

\* notifyRespuestaMagicLink: mail sent, or an error that is logged and dropped.
Avisar(p) ==
    LET r == pet[p] IN
    /\ r.fase = "avisar"
    /\ avisados' \in {avisados, avisados \cup {<<r.q, r.epoca>>}}
    /\ Pasar(p, [fase |-> "fin", q |-> r.q, nuevo |-> r.nuevo,
                 epoca |-> r.epoca, res |-> "ok"])
    /\ UNCHANGED <<ahora, cot, barrido, epoca>>

\* The customer gets the answer and the slot serves another request.
Cerrar(p) ==
    /\ pet[p].fase = "fin"
    /\ Pasar(p, Libre)
    /\ UNCHANGED <<ahora, cot, barrido, epoca, avisados>>

-----------------------------------------------------------------------------
(* markExpiredQuotations: updateMany is atomic per document only *)

IniciarBarrido(b) ==
    /\ barrido[b].pendientes = {}
    /\ barrido' = [barrido EXCEPT ![b] = [t |-> ahora, pendientes |-> Cotizaciones]]
    /\ UNCHANGED <<ahora, cot, pet, epoca, avisados>>

BarrerDocumento(b, q) ==
    /\ q \in barrido[b].pendientes
    /\ cot' = IF FiltroBarrido(cot[q], barrido[b].t)
                THEN [cot EXCEPT ![q] = DocVencido(@)] ELSE cot
    /\ LET quedan == barrido[b].pendientes \ {q} IN
       barrido' = [barrido EXCEPT ![b] =
                     IF quedan = {} THEN SinBarrido ELSE [@ EXCEPT !.pendientes = quedan]]
    /\ UNCHANGED <<ahora, pet, epoca, avisados>>

-----------------------------------------------------------------------------

\* The steps that a request in flight takes by itself.
Continuar(p) ==
    \/ LeerManual(p) \/ PrepararManual(p) \/ AplicarManual(p) \/ EscribirResto(p)
    \/ AplicarRespuesta(p) \/ ReleerRespuesta(p) \/ Avisar(p) \/ Cerrar(p)

Next ==
    \/ Tick
    \/ \E p \in Peticiones :
         CambiarEstado(p) \/ Actualizar(p) \/ ResponderEnlace(p) \/ Continuar(p)
    \/ \E b \in Barridos :
         IniciarBarrido(b) \/ \E q \in Cotizaciones : BarrerDocumento(b, q)

Spec == Init /\ [][Next]_vars

\* The cron of every day at 01:00 keeps starting sweeps and the database
\* answers each of their updates; nothing is assumed of users or customers.
Justicia ==
    \A b \in Barridos :
        /\ WF_vars(IniciarBarrido(b))
        /\ \A q \in Cotizaciones : WF_vars(BarrerDocumento(b, q))

FairSpec == Spec /\ Justicia

-----------------------------------------------------------------------------
(* Safety *)

\* A decision date is present exactly while its decision stands, whichever
\* writer (customer, user or sweep) came last: no write forgets the date of
\* the state it leaves, although the customer's and the sweep's never clear one.
FechasCoherentes ==
    \A q \in Cotizaciones :
        /\ cot[q].fechaAceptacion # Nulo <=> cot[q].estado = "aceptada"
        /\ cot[q].fechaRechazo # Nulo <=> cot[q].estado = "rechazada"

\* The provenance shown to the users is the one of the last change: an actor
\* is named exactly for a manual change, expiry by cron and answers by link
\* are what their origin says, and nobody but a user cancels.
ProcedenciaCoherente ==
    \A q \in Cotizaciones :
        LET d == cot[q] IN
        /\ d.estadoOrigen = "usuario" <=> d.actor # Nulo
        /\ d.estadoOrigen = "cron" => d.estado = "vencida"
        /\ d.estadoOrigen = "magic_link" => d.estado \in Decisiones
        /\ d.estado = "cancelada" => d.estadoOrigen = "usuario"

\* What a reader takes from the fields of one stored quotation never disagrees:
\* its dates and its provenance are those of the state it is in, after any
\* interleaving of the three writers.
DocumentoCoherente == FechasCoherentes /\ ProcedenciaCoherente

Confirmada(p) ==
    \/ pet[p].fase = "avisar"
    \/ pet[p].fase = "fin" /\ pet[p].res \in {"ok", "yaRespondida"}

\* As long as no user changed the quotation since, it is in the state that
\* responderByMagicToken confirmed to the customer (also after a lost race).
ConfirmacionEstable ==
    \A p \in Peticiones :
        Confirmada(p) /\ pet[p].epoca = epoca[pet[p].q]
            => cot[pet[p].q].estado = pet[p].nuevo

\* Two customers' answers to one quotation are never both confirmed when they
\* differ, unless a user changed the quotation between them.
SinRespuestasContradictorias ==
    \A p1, p2 \in Peticiones :
        Confirmada(p1) /\ Confirmada(p2)
        /\ pet[p1].q = pet[p2].q /\ pet[p1].epoca = pet[p2].epoca
            => pet[p1].nuevo = pet[p2].nuevo

\* Whoever is about to notify a decision (notifyRespuestaMagicLink) is the only
\* one, and nobody notified that decision before.
AvisoUnico ==
    \A p1 \in Peticiones : pet[p1].fase = "avisar" =>
        /\ <<pet[p1].q, pet[p1].epoca>> \notin avisados
        /\ \A p2 \in Peticiones \ {p1} :
             pet[p2].fase = "avisar" /\ pet[p2].q = pet[p1].q
                => pet[p2].epoca # pet[p1].epoca

\* Every notification is about a decision that was really stored: unless a user
\* changed the quotation since, it is still accepted or rejected.
AvisosDeDecisiones ==
    \A a \in avisados :
        /\ a[2] <= epoca[a[1]]
        /\ a[2] = epoca[a[1]] => cot[a[1]].estado \in Decisiones

\* A customer's decision is replaced only by a manual change whose handler had
\* read that very decision: no sweep, answer or older request overwrites it.
DecisionNoPerdida ==
    [][\A q \in Cotizaciones :
         cot[q].estadoOrigen = "magic_link" /\ cot'[q].estado # cot[q].estado =>
           \E p \in Peticiones :
             /\ pet[p].fase = "aplicar" /\ pet'[p] # pet[p]
             /\ pet[p].q = q /\ pet[p].leido = cot[q].estado
             /\ cot'[q].actor = pet[p].actor]_vars

\* The document implements the life cycle promised by CicloCotizacion.
Ciclo == INSTANCE CicloCotizacion WITH
    estado <- [q \in Cotizaciones |-> cot[q].estado],
    origen <- [q \in Cotizaciones |-> cot[q].estadoOrigen],
    vence <- [q \in Cotizaciones |->
                IF cot[q].sinVigencia THEN Nulo ELSE cot[q].fechaVencimiento],
    decidida <- [q \in Cotizaciones |->
                   IF cot[q].fechaAceptacion # Nulo THEN cot[q].fechaAceptacion
                   ELSE cot[q].fechaRechazo]

CumpleCiclo == Ciclo!Spec

-----------------------------------------------------------------------------
(* Liveness *)

Caducada(q) == cot[q].estado = "vigente" /\ VigenciaSuperada(cot[q], ahora)

\* A quotation left in force past its date stops being so: the sweep takes it
\* unless somebody answers, changes or extends it first.
VencimientoEventual == \A q \in Cotizaciones : Caducada(q) ~> ~Caducada(q)
=============================================================================
