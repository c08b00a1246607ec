------------------------ MODULE RestablecerContrasena ------------------------
(***************************************************************************)
(* The password reset of one account: PasswordResetService issues a token, *)
(* mails its link, and only then removes the earlier tokens; a reset       *)
(* looks the token up, changes the password and marks the token in three   *)
(* calls.  Any call may fail, the mail server may take a mail whose        *)
(* confirmation is lost, and the process may stop between two calls.       *)
(*                                                                         *)
(* The account is found under any spelling of its address, which           *)
(* findByEmail normalises; the tokens are stored, removed and matched      *)
(* under the address as it was typed.                                      *)
(*                                                                         *)
(* Whether the account is active changes at any time and is read by one    *)
(* call at the start of each handler, which is part of its first action.   *)
(***************************************************************************)
EXTENDS Naturals, FiniteSets

CONSTANTS
    Tokens,       \* what randomBytes may issue
    Email,        \* Email[t]: the address as typed in the request that is issued t
    Solicitudes,  \* requests for a link in flight at once
    Cambios,      \* resets in flight at once
    SinToken

ASSUME RestablecerAssumption ==
    /\ SinToken \notin Tokens
    /\ SinToken \notin [usado: BOOLEAN, vencido: BOOLEAN]

VARIABLES
    doc,         \* doc[t]: the stored PasswordResetToken, or SinToken
    sol,         \* sol[s]: progress of request s for a link
    cambio,      \* cambio[c]: progress of reset c
    emitidos,    \* history: the tokens issued
    entregados,  \* history: the tokens whose mail went out
    solapadas,   \* history: requests that shared their time with another of their address
    confirmados, \* history: for each address, the token of its last request that ended
                 \* well, if it overlapped none
    revocados,   \* history: tokens that a request that ended well had to remove
    dudosos,     \* history: tokens of resets that overlapped or that did not end
    usos         \* history: password changes made through each token, counted until it is
                 \* one of dudosos

varsRestablecer == <<doc, sol, cambio, emitidos, entregados, solapadas, confirmados,
          revocados, dudosos, usos>>

historia == <<emitidos, entregados, solapadas, confirmados, revocados,
                   dudosos, usos>>

-----------------------------------------------------------------------------

PasswordResetToken == [usado: BOOLEAN, vencido: BOOLEAN]

EnReposo == [fase |-> "libre"]

Solicitud == {EnReposo} \cup [fase: {"enviar", "invalidar", "limpiar"}, token: Tokens]

Cambio == {EnReposo} \cup [fase: {"clave", "marcar"}, token: Tokens]

TypeOKRestablecer ==
    /\ doc \in [Tokens -> PasswordResetToken \cup {SinToken}]
    /\ sol \in [Solicitudes -> Solicitud] /\ cambio \in [Cambios -> Cambio]
    /\ entregados \subseteq emitidos /\ emitidos \subseteq Tokens
    /\ {t \in Tokens : doc[t] # SinToken} \subseteq emitidos
    /\ solapadas \subseteq Solicitudes
    /\ confirmados \subseteq emitidos /\ revocados \subseteq emitidos
    /\ dudosos \subseteq emitidos
    /\ usos \in [Tokens -> Nat]

InitRestablecer ==
    /\ doc = [t \in Tokens |-> SinToken]
    /\ sol = [s \in Solicitudes |-> EnReposo] /\ cambio = [c \in Cambios |-> EnReposo]
    /\ emitidos = {} /\ entregados = {} /\ solapadas = {}
    /\ confirmados = {} /\ revocados = {} /\ dudosos = {}
    /\ usos = [t \in Tokens |-> 0]

Guardados == {t \in Tokens : doc[t] # SinToken}

MismoCorreo(t) == {u \in Tokens : Email[u] = Email[t]}

Borrar(T) == doc' = [t \in Tokens |-> IF t \in T THEN SinToken ELSE doc[t]]

-----------------------------------------------------------------------------
(* createResetTokenForAdmin: every failure is swallowed *)

EnVuelo == {s \in Solicitudes : sol[s].fase # "libre"}

PasoSolicitud(s, f, r) == sol[s].fase = f /\ sol' = [sol EXCEPT ![s] = r]

\* findByEmail finds an active account and create stores a fresh token; when
\* either fails, nothing happens.
CrearToken(s) ==
    /\ \E t \in Tokens \ emitidos :
         /\ PasoSolicitud(s, "libre", [fase |-> "enviar", token |-> t])
         /\ doc' = [doc EXCEPT ![t] = [usado |-> FALSE, vencido |-> FALSE]]
         /\ emitidos' = emitidos \cup {t}
         /\ LET otras == {o \in EnVuelo : sol[o].token \in MismoCorreo(t)} IN
            solapadas' = IF otras = {} THEN solapadas \ {s}
                                       ELSE solapadas \cup otras \cup {s}
    /\ UNCHANGED <<cambio, entregados, confirmados, revocados, dudosos, usos>>

\* The mail is taken, refused, or taken without a confirmation.
SendPasswordResetEmail(s) ==
    LET t == sol[s].token IN
    /\ \/ /\ PasoSolicitud(s, "enviar", [fase |-> "invalidar", token |-> t])
          /\ entregados' = entregados \cup {t}
       \/ /\ PasoSolicitud(s, "enviar", [fase |-> "limpiar", token |-> t])
          /\ entregados' \in {entregados, entregados \cup {t}}
    /\ UNCHANGED <<doc, cambio, emitidos, solapadas, confirmados, revocados,
                   dudosos, usos>>

MutPrevios(t) == {u \in Guardados \cap MismoCorreo(t) : u # t /\ doc[u].usado}

\* What deleteMany removes after the mail: every token stored under that spelling of
\* the address but the new one.
Previos(t) == (Guardados \cap MismoCorreo(t)) \ {t}

\* An answer to the caller, whether deleteMany worked or not; if it did not, the
\* new token is removed too.
InvalidarPrevios(s) ==
    LET t == sol[s].token IN
    /\ \/ /\ PasoSolicitud(s, "invalidar", EnReposo)
          /\ Borrar(Previos(t))
          /\ confirmados' = (confirmados \ MismoCorreo(t))
                             \cup (IF s \in solapadas THEN {} ELSE {t})
          /\ revocados' = revocados \cup ((emitidos \cap MismoCorreo(t)) \ {t})
       \/ /\ PasoSolicitud(s, "invalidar", [fase |-> "limpiar", token |-> t])
          /\ UNCHANGED <<doc, confirmados, revocados>>
    /\ UNCHANGED <<cambio, emitidos, entregados, solapadas, dudosos, usos>>

MutSobrante(t) == Guardados \cap MismoCorreo(t)

\* The clean-up takes the token of this request only.
Sobrante(t) == {t}

Limpiar(s) ==
    /\ PasoSolicitud(s, "limpiar", EnReposo)
    /\ \/ Borrar(Sobrante(sol[s].token))
       \/ UNCHANGED doc
    /\ UNCHANGED <<cambio, historia>>

-----------------------------------------------------------------------------
(* resetPasswordForAdmin *)

PasoCambio(c, f, r) == cambio[c].fase = f /\ cambio' = [cambio EXCEPT ![c] = r]

EnUso(t) == {c \in Cambios : cambio[c].fase # "libre" /\ cambio[c].token = t}

MutUtilizable(d) == d # SinToken /\ ~d.vencido

\* What findOne matches.
Utilizable(d) == d # SinToken /\ ~d.vencido /\ ~d.usado

\* The reader of a mail follows its link, which carries the token and the address as
\* it was typed; findOne matches both and findByEmail finds an active account.
BuscarToken(c) ==
    /\ \E t \in entregados :
         /\ Utilizable(doc[t])
         /\ PasoCambio(c, "libre", [fase |-> "clave", token |-> t])
         /\ dudosos' = IF EnUso(t) = {} THEN dudosos ELSE dudosos \cup {t}
    /\ UNCHANGED <<doc, sol, emitidos, entregados, solapadas, confirmados, revocados, usos>>

\* UsersService.update; it refuses the account of a suspended tenant.
GuardarClave(c) ==
    LET t == cambio[c].token IN
    /\ \/ /\ PasoCambio(c, "clave", [fase |-> "marcar", token |-> t])
          /\ usos' = [usos EXCEPT ![t] = IF t \in dudosos THEN @ ELSE @ + 1]
       \/ /\ PasoCambio(c, "clave", EnReposo)
          /\ UNCHANGED usos
    /\ UNCHANGED <<doc, sol, emitidos, entregados, solapadas, confirmados,
                   revocados, dudosos>>

\* save of a document that is gone fails, and inserts nothing.
Marcado(d) == IF d = SinToken THEN SinToken ELSE [d EXCEPT !.usado = TRUE]

Marcar(c) ==
    /\ PasoCambio(c, "marcar", EnReposo)
    /\ \/ /\ doc' = [doc EXCEPT ![cambio[c].token] = Marcado(@)]
          /\ UNCHANGED dudosos
       \/ /\ dudosos' = dudosos \cup {cambio[c].token}
          /\ UNCHANGED doc
    /\ UNCHANGED <<sol, emitidos, entregados, solapadas, confirmados,
                   revocados, usos>>

-----------------------------------------------------------------------------
(* Around the two handlers *)

\* An hour passes; an hour later the TTL index removes the document.  No request
\* for a link takes that long: the mail server times out well before.
Vencer(t) ==
    /\ doc[t] # SinToken
    /\ t \notin {sol[s].token : s \in EnVuelo}
    /\ doc' = [doc EXCEPT ![t] = IF @.vencido THEN SinToken ELSE [@ EXCEPT !.vencido = TRUE]]
    /\ confirmados' = IF doc[t].vencido THEN confirmados \ {t} ELSE confirmados
    /\ UNCHANGED <<sol, cambio, emitidos, entregados, solapadas, revocados,
                   dudosos, usos>>

\* The process stops, and with it every handler in flight.
Reiniciar ==
    /\ sol' = [s \in Solicitudes |-> EnReposo] /\ cambio' = [c \in Cambios |-> EnReposo]
    /\ dudosos' = dudosos \cup {t \in Tokens : EnUso(t) # {}}
    /\ UNCHANGED <<doc, emitidos, entregados, solapadas, confirmados,
                   revocados, usos>>

NextRestablecer ==
    \/ \E s \in Solicitudes :
         \/ CrearToken(s) \/ SendPasswordResetEmail(s)
         \/ InvalidarPrevios(s) \/ Limpiar(s)
    \/ \E c \in Cambios :
         BuscarToken(c) \/ GuardarClave(c) \/ Marcar(c)
    \/ \E t \in Tokens : Vencer(t)
    \/ Reiniciar

SpecRestablecer == InitRestablecer /\ [][NextRestablecer]_varsRestablecer

-----------------------------------------------------------------------------
(* Safety *)

\* "Los tokens previos solo se invalidan tras envio exitoso" and "ni quemar
\* enlaces previos": while the token of the last request of an address that ended
\* well has not expired, no later request that fails, no request under another
\* spelling, no crash and no reset through another link takes it away.
EnlaceConfirmadoGuardado == \A t \in confirmados : doc[t] # SinToken

\* Once a request ended well, no link that was issued before for the address as it was
\* typed opens the account: the token is gone, also if a reset was about to mark it.
\* (A link issued under another spelling of the address of the account stays.)
RevocadosInservibles == \A t \in revocados : doc[t] = SinToken

\* "Token invalido, expirado o ya utilizado": a token changes the password once,
\* unless two resets with it overlapped or one of them stopped before its mark.
UnSoloUso == \A t \in Tokens : usos[t] <= 1
=============================================================================
