----------------------------- MODULE EnvioCorreo -----------------------------
(***************************************************************************)
(* Sending a quotation by mail (enviarCorreoConPdf) composed with the life *)
(* cycle of the quotation: the send issues the magic link that the answer  *)
(* of the customer goes through, while users change the document, other    *)
(* sends of it are in flight, and the tenant is suspended or its mail      *)
(* account changes between two of the handler's reads.                     *)
(***************************************************************************)
EXTENDS Cotizacion, Sequences

CONSTANTS
    Envios,       \* sends in flight at once
    Incidencias   \* bound: what may change in the tenant in this instance

ASSUME EnvioAssumption == Incidencias \subseteq {"tenant", "correo"}

VARIABLES
    tenantActivo,      \* Tenant.activo of the issuing tenant
    correoConfigurado, \* the tenant has a mail user and its secret
    envio,             \* envio[e]: progress of send e
    emisiones,         \* history: the links issued for each quotation, in order
    entregados,        \* history: the links a mail server accepted
    solapadas          \* history: quotations that two sends worked on at once

varsCorreo ==
    <<tenantActivo, correoConfigurado, envio, emisiones, entregados, solapadas>>

varsEnvio == <<vars, varsCorreo>>

-----------------------------------------------------------------------------

\* A send before it issues its link, and after.
Preparado == {"tenant", "correo", "emitir"}
Emitido == {"smtpTenant", "smtpCorreo", "smtp", "limpiar"}

Envio ==
    {Libre}
    \cup [fase: Preparado, q: Cotizaciones, hasta: Nat]
    \cup [fase: Emitido, q: Cotizaciones, hasta: Nat, token: Tokens, n: Nat]

Enlace == [q: Cotizaciones, token: Tokens, hasta: Nat, n: Nat, ok: BOOLEAN]

TypeOKEnvio ==
    /\ TypeOK
    /\ tenantActivo \in BOOLEAN /\ correoConfigurado \in BOOLEAN
    /\ envio \in [Envios -> Envio]
    /\ emisiones \in [Cotizaciones -> Seq(Tokens)]
    /\ entregados \subseteq Enlace
    /\ solapadas \subseteq Cotizaciones

InitEnvio ==
    /\ Init
    /\ tenantActivo = TRUE /\ correoConfigurado \in BOOLEAN
    /\ envio = [e \in Envios |-> Libre]
    /\ emisiones = [q \in Cotizaciones |->
                      IF cot[q].magicToken = Nulo THEN <<>> ELSE <<cot[q].magicToken>>]
    /\ entregados = {}
    /\ solapadas = {}

\* crypto.randomBytes: no token is issued twice.
Usados == UNION {{emisiones[q][i] : i \in 1..Len(emisiones[q])} : q \in Cotizaciones}

Seguir(e, r) == envio' = [envio EXCEPT ![e] = r]

EnFase(e, f) == envio[e].fase = f

SinOtroCambio ==
    UNCHANGED <<vars, tenantActivo, correoConfigurado, emisiones, entregados, solapadas>>

-----------------------------------------------------------------------------
(* The tenant *)

\* setActivo: the system administrator suspends or reactivates, idempotent.
SetActivo ==
    /\ "tenant" \in Incidencias
    /\ tenantActivo' \in BOOLEAN
    /\ UNCHANGED <<vars, correoConfigurado, envio, emisiones, entregados, solapadas>>

\* updateEmailConfig: the tenant sets its mail account.  The removal of the user is
\* refused where a secret was read, but the write is a later call filtered by the
\* tenant only: a removal that read before the secret was stored takes the user of an
\* account configured meanwhile.  The removals in flight are not tracked.
UpdateEmailConfig ==
    /\ "correo" \in Incidencias
    /\ correoConfigurado' \in BOOLEAN
    /\ UNCHANGED <<vars, tenantActivo, envio, emisiones, entregados, solapadas>>

-----------------------------------------------------------------------------
(* enviarCorreoConPdf *)

\* The document is read once: the date of the link is settled here, whatever
\* its state.  Without a date the send is a 400.
IniciarEnvio(e) ==
    /\ EnFase(e, "libre")
    /\ \E q \in Cotizaciones :
         LET hasta == ResolveMagicExpiresAt(cot[q]) IN
         /\ hasta # Nulo
         /\ Seguir(e, [fase |-> "tenant", q |-> q, hasta |-> hasta])
    /\ SinOtroCambio

MutComprobar(e, fase, cumple, siguiente) ==
    LET r == envio[e] IN
    /\ r.fase = fase
    /\ Seguir(e, [r EXCEPT !.fase = IF cumple THEN siguiente ELSE "limpiar"])
    /\ SinOtroCambio

\* A read that stops the send (403 or 400) or lets it go on to the next phase.
Comprobar(e, fase, cumple, siguiente) ==
    LET r == envio[e] IN
    /\ r.fase = fase
    /\ Seguir(e, IF cumple THEN [r EXCEPT !.fase = siguiente] ELSE Libre)
    /\ SinOtroCambio

ComprobarTenant(e) == Comprobar(e, "tenant", tenantActivo, "correo")

ComprobarCorreo(e) == Comprobar(e, "correo", correoConfigurado, "emitir")

\* issueMagicToken: unconditional write of a new token and of the date settled
\* when the document was read.
EmitirEnlace(e) ==
    LET r == envio[e] IN
    /\ r.fase = "emitir"
    /\ \E tk \in Tokens \ Usados :
         /\ cot' = [cot EXCEPT ![r.q] = ConEnlace(@, tk, r.hasta)]
         /\ emisiones' = [emisiones EXCEPT ![r.q] = Append(@, tk)]
         /\ Seguir(e, [fase |-> "smtpTenant", q |-> r.q, hasta |-> r.hasta,
                       token |-> tk, n |-> Len(emisiones[r.q]) + 1])
    /\ solapadas' = IF \E o \in Envios \ {e} : envio[o].fase \in Emitido /\ envio[o].q = r.q
                      THEN solapadas \cup {r.q} ELSE solapadas
    /\ UNCHANGED <<ahora, pet, barrido, epoca, avisados,
                   tenantActivo, correoConfigurado, entregados>>

\* The write of the link fails: nothing is stored, there is nothing to clean.
FallarEmision(e) ==
    /\ EnFase(e, "emitir")
    /\ Seguir(e, Libre)
    /\ SinOtroCambio

\* createTenantTransporter reads tenant and account again; a failure of either
\* is handled like one of the mail server.
Recomprobar(e, fase, cumple, siguiente) ==
    LET r == envio[e] IN
    /\ r.fase = fase
    /\ Seguir(e, [r EXCEPT !.fase = IF cumple THEN siguiente ELSE "limpiar"])
    /\ SinOtroCambio

RecomprobarTenant(e) == Recomprobar(e, "smtpTenant", tenantActivo, "smtpCorreo")

RecomprobarCorreo(e) == Recomprobar(e, "smtpCorreo", correoConfigurado, "smtp")

\* sendMail: accepted; refused; or accepted with the confirmation lost, which
\* the handler takes for a refusal.  After an accepted one only the lists of
\* recipients are still written, which are not part of this document.
EnviarSmtp(e) ==
    LET r == envio[e]
        Entregado(ok) == entregados \cup
            {[q |-> r.q, token |-> r.token, hasta |-> r.hasta, n |-> r.n, ok |-> ok]}
    IN
    /\ r.fase = "smtp"
    /\ \/ entregados' = Entregado(TRUE) /\ Seguir(e, Libre)
       \/ /\ entregados' \in {entregados, Entregado(FALSE)}
          /\ Seguir(e, [r EXCEPT !.fase = "limpiar"])
    /\ UNCHANGED <<vars, tenantActivo, correoConfigurado, emisiones, solapadas>>

\* The $unset after a failed send is by id: it removes whatever link the
\* document has by then.  It may fail too, which is only logged.
LimpiarEnlace(e) ==
    LET r == envio[e] IN
    /\ r.fase = "limpiar"
    /\ \/ UNCHANGED cot
       \/ cot' = [cot EXCEPT ![r.q] = ConEnlace(@, Nulo, Nulo)]
    /\ Seguir(e, Libre)
    /\ UNCHANGED <<ahora, pet, barrido, epoca, avisados,
                   tenantActivo, correoConfigurado, emisiones, entregados, solapadas>>

-----------------------------------------------------------------------------

NextEnvio ==
    \/ Next /\ UNCHANGED varsCorreo
    \/ SetActivo \/ UpdateEmailConfig
    \/ \E e \in Envios :
         \/ IniciarEnvio(e) \/ ComprobarTenant(e) \/ ComprobarCorreo(e)
         \/ EmitirEnlace(e) \/ FallarEmision(e)
         \/ RecomprobarTenant(e) \/ RecomprobarCorreo(e)
         \/ EnviarSmtp(e) \/ LimpiarEnlace(e)

SpecEnvio == InitEnvio /\ [][NextEnvio]_varsEnvio

-----------------------------------------------------------------------------
(* Safety *)

\* The last link of a quotation, once its mail went out without an error, is
\* the one stored and with the date the mail names, provided no other send of
\* that quotation overlapped one.
EnlaceConfirmadoVale ==
    \A l \in entregados :
        l.ok /\ l.q \notin solapadas /\ l.n = Len(emisiones[l.q]) =>
            /\ cot[l.q].magicToken = l.token
            /\ cot[l.q].magicTokenExpiresAt = l.hasta

\* Only the last link issued for a quotation can decide it: an answer that
\* came in through a link that was replaced or removed meanwhile is lost.
DecideElUltimoEnlace ==
    [][\A q \in Cotizaciones :
         cot'[q].estadoOrigen = "magic_link" /\ cot'[q].estado # cot[q].estado =>
           /\ cot[q].magicToken = emisiones[q][Len(emisiones[q])]
           /\ \E p \in Peticiones :
                /\ pet[p].fase = "responder" /\ pet'[p].fase = "avisar"
                /\ pet[p].token = cot[q].magicToken]_varsEnvio

-----------------------------------------------------------------------------
(* A statement of the source that its code does not keep *)

\* The mail says "Este enlace es valido hasta el" <date> (emails.service.ts) and
\* findOneByMagicTokenRaw that the token is valid until then: a link that went
\* out is good until its date, unless a later mail brought another one.
EnlaceEntregadoVale ==
    \A l \in entregados :
        l.ok /\ ahora <= l.hasta
        /\ (\A l2 \in entregados : l2.q = l.q => l2.n <= l.n)
        /\ (\A e \in Envios : envio[e].fase \in Emitido => envio[e].q # l.q)
            => cot[l.q].magicToken = l.token
=============================================================================
