-------------------------- MODULE CotizacionProofs --------------------------
(***************************************************************************)
(* Proofs about a quotation, for any number of quotations, requests,       *)
(* sweeps, sends, users and tokens, and any dates, in three parts:         *)
(*                                                                         *)
(*   1. the life cycle: what its documents and its answers keep            *)
(*      (module Cotizacion);                                               *)
(*   2. the documents implement the life cycle of CicloCotizacion;         *)
(*   3. the life cycle composed with the mails that carry the links        *)
(*      (module EnvioCorreo, which extends Cotizacion).                    *)
(***************************************************************************)
EXTENDS EnvioCorreo, TLAPS

\* Nulo is none of the values it stands for the absence of.
LEMMA NuloAparte ==
    /\ Nulo \notin Nat /\ Nulo \notin Usuarios
    /\ Nulo \notin {"magic_link", "usuario", "cron"}
BY ConstantesAssumption DEF ConstantesAssumption

-----------------------------------------------------------------------------
(* The writes of the document *)

\* What FechasCoherentes and ProcedenciaCoherente say of one document.
Coherente(d) ==
    /\ d.fechaAceptacion # Nulo <=> d.estado = "aceptada"
    /\ d.fechaRechazo # Nulo <=> d.estado = "rechazada"
    /\ d.estadoOrigen = "usuario" <=> d.actor # Nulo
    /\ d.estadoOrigen = "cron" => d.estado = "vencida"
    /\ d.estadoOrigen = "magic_link" => d.estado \in Decisiones
    /\ d.estado = "cancelada" => d.estadoOrigen = "usuario"

\* A manual change leaves a well-formed, coherent document whatever it found.
LEMMA ManualCoherente ==
    ASSUME NEW d \in Documento, NEW e \in Estados, NEW u \in Usuarios,
           NEW t \in Nat, NEW f \in Fecha
    PROVE  /\ DocManual(d, e, u, t, f) \in Documento
           /\ Coherente(DocManual(d, e, u, t, f))
<1> DEFINE a == IF e = "aceptada" THEN t ELSE Nulo
           r == IF e = "rechazada" THEN t ELSE Nulo
           v == IF e = "vigente" THEN f ELSE d.fechaVencimiento
           m == [d EXCEPT !.estado = e, !.estadoOrigen = "usuario", !.actor = u,
                          !.fechaAceptacion = a, !.fechaRechazo = r,
                          !.fechaVencimiento = v]
<1>1. a \in Fecha /\ r \in Fecha /\ v \in Fecha
  BY DEF Fecha, Documento
<1>2. (a # Nulo <=> e = "aceptada") /\ (r # Nulo <=> e = "rechazada")
  BY NuloAparte
<1>3. m = DocManual(d, e, u, t, f)
  BY DEF DocManual
<1> HIDE DEF a, r, v
<1>4. m \in Documento
  BY <1>1 DEF Documento, Origenes
<1>5. /\ m.estado = e /\ m.estadoOrigen = "usuario" /\ m.actor = u
      /\ m.fechaAceptacion = a /\ m.fechaRechazo = r
  BY DEF Documento
<1> HIDE DEF m
<1>6. Coherente(m)
  BY <1>2, <1>5, NuloAparte DEF Coherente
<1>7. QED
  BY <1>3, <1>4, <1>6

\* The answer of the customer keeps a document coherent only because it is
\* applied to a quotation in force, whose two decision dates are absent.
LEMMA RespuestaCoherente ==
    ASSUME NEW d \in Documento, Coherente(d), d.estado = "vigente",
           NEW e \in Decisiones, NEW t \in Nat
    PROVE  /\ DocRespondido(d, e, t) \in Documento
           /\ Coherente(DocRespondido(d, e, t))
           /\ DocRespondido(d, e, t).estado = e
<1> DEFINE a == IF e = "aceptada" THEN t ELSE d.fechaAceptacion
           r == IF e = "rechazada" THEN t ELSE d.fechaRechazo
           m == [d EXCEPT !.estado = e, !.estadoOrigen = "magic_link",
                          !.actor = Nulo,
                          !.fechaAceptacion = a, !.fechaRechazo = r]
<1>1. a \in Fecha /\ r \in Fecha /\ e \in Estados
  BY DEF Fecha, Documento, Estados, Decisiones
<1>2. (a # Nulo <=> e = "aceptada") /\ (r # Nulo <=> e = "rechazada")
  BY NuloAparte DEF Coherente
<1>3. m = DocRespondido(d, e, t)
  BY DEF DocRespondido
<1> HIDE DEF a, r
<1>4. m \in Documento
  BY <1>1 DEF Documento, Origenes
<1>5. /\ m.estado = e /\ m.estadoOrigen = "magic_link" /\ m.actor = Nulo
      /\ m.fechaAceptacion = a /\ m.fechaRechazo = r
  BY DEF Documento
<1> HIDE DEF m
<1>6. Coherente(m)
  BY <1>2, <1>5 DEF Coherente, Decisiones
<1>7. QED
  BY <1>3, <1>4, <1>5, <1>6

\* So does the sweep.
LEMMA VencidoCoherente ==
    ASSUME NEW d \in Documento, Coherente(d), d.estado = "vigente"
    PROVE  /\ DocVencido(d) \in Documento
           /\ Coherente(DocVencido(d))
           /\ DocVencido(d).estado = "vencida"
<1>1. DocVencido(d) \in Documento
  BY DEF DocVencido, Documento, Estados, Origenes
<1>2. LET m == DocVencido(d) IN
      /\ m.estado = "vencida" /\ m.estadoOrigen = "cron" /\ m.actor = Nulo
      /\ m.fechaAceptacion = d.fechaAceptacion
      /\ m.fechaRechazo = d.fechaRechazo
  BY DEF DocVencido, Documento
<1>3. QED
  BY <1>1, <1>2 DEF Coherente

\* Editing the date touches neither state nor provenance.
LEMMA RestoCoherente ==
    ASSUME NEW d \in Documento, Coherente(d), NEW f \in Nat
    PROVE  /\ [d EXCEPT !.fechaVencimiento = f] \in Documento
           /\ Coherente([d EXCEPT !.fechaVencimiento = f])
           /\ [d EXCEPT !.fechaVencimiento = f].estado = d.estado
<1> DEFINE m == [d EXCEPT !.fechaVencimiento = f]
<1>1. m \in Documento
  BY DEF Documento, Fecha
<1>2. /\ m.estado = d.estado /\ m.estadoOrigen = d.estadoOrigen
      /\ m.actor = d.actor /\ m.fechaAceptacion = d.fechaAceptacion
      /\ m.fechaRechazo = d.fechaRechazo
  BY DEF Documento
<1> HIDE DEF m
<1>3. Coherente(m) /\ m.estado = d.estado
  BY <1>2 DEF Coherente
<1>4. QED
  BY <1>1, <1>3 DEF m

\* A quotation as created, sent by mail or not.
LEMMA CreadaCoherente ==
    ASSUME NEW sv \in BOOLEAN, NEW f \in FechasDto
    PROVE  /\ Creada(sv, f, 0) \in Documento
           /\ Coherente(Creada(sv, f, 0))
           /\ \A tk \in Tokens :
                LET d == Creada(sv, f, 0)
                    m == ConEnlace(d, tk, ResolveMagicExpiresAt(d))
                IN m \in Documento /\ Coherente(m)
<1> DEFINE d == Creada(sv, f, 0)
<1>1. FechasDto \subseteq Nat /\ TtlSinVigencia \in Nat
  BY ConstantesAssumption DEF ConstantesAssumption
<1>2. d \in Documento
  BY <1>1 DEF Creada, Documento, Estados, Fecha
<1>3. Coherente(d)
  BY NuloAparte DEF Creada, Coherente
<1>4. ResolveMagicExpiresAt(d) \in Fecha
  BY <1>1 DEF ResolveMagicExpiresAt, Creada, Fecha
<1> HIDE DEF d
<1>5. ASSUME NEW tk \in Tokens
      PROVE  /\ ConEnlace(d, tk, ResolveMagicExpiresAt(d)) \in Documento
             /\ Coherente(ConEnlace(d, tk, ResolveMagicExpiresAt(d)))
  <2> DEFINE x == ResolveMagicExpiresAt(d)
             m == [d EXCEPT !.magicToken = tk, !.magicTokenExpiresAt = x]
  <2>1. x \in Fecha /\ m = ConEnlace(d, tk, x)
    BY <1>4 DEF ConEnlace
  <2> HIDE DEF x
  <2>2. m \in Documento
    BY <1>2, <2>1 DEF Documento
  <2>3. /\ m.estado = d.estado /\ m.estadoOrigen = d.estadoOrigen
        /\ m.actor = d.actor /\ m.fechaAceptacion = d.fechaAceptacion
        /\ m.fechaRechazo = d.fechaRechazo
    BY <1>2 DEF Documento
  <2> HIDE DEF m
  <2>4. QED
    BY <1>3, <2>1, <2>2, <2>3 DEF Coherente, x
<1>6. QED
  BY <1>2, <1>3, <1>5 DEF d

-----------------------------------------------------------------------------
(* The requests *)

\* Overwriting the slot of one request keeps the slots well typed.
LEMMA PasarTipo ==
    ASSUME TypeOK, NEW p \in Peticiones, NEW r \in Peticion, Pasar(p, r)
    PROVE  /\ pet' \in [Peticiones -> Peticion]
           /\ pet'[p] = r
           /\ \A p2 \in Peticiones \ {p} : pet'[p2] = pet[p2]
BY DEF TypeOK, Pasar

\* What a request holds in each phase that carries data.
LEMMA FasesTipo ==
    ASSUME NEW r \in Peticion
    PROVE  /\ r.fase \in {"leer", "preparar", "aplicar"} =>
                /\ r.q \in Cotizaciones /\ r.actor \in Usuarios
                /\ r.nuevo \in Estados /\ r.fecha \in Fecha /\ r.resto \in Fecha
           /\ r.fase \in {"preparar", "aplicar"} => r.leido \in Estados
           /\ r.fase \in {"aplicar", "responder"} => r.t \in Nat
           /\ r.fase = "resto" => r.q \in Cotizaciones /\ r.resto \in Nat
           /\ r.fase \in {"responder", "releer"} =>
                r.token \in Tokens /\ r.nuevo \in Decisiones
           /\ r.fase \in {"avisar", "fin"} =>
                r.q \in Cotizaciones /\ r.nuevo \in Decisiones /\ r.epoca \in Nat
           /\ r.fase \in {"libre", "leer", "preparar", "aplicar", "resto",
                          "responder", "releer", "avisar", "fin"}
BY DEF Peticion, Libre

-----------------------------------------------------------------------------
(* The inductive invariant *)

DocsCoherentes == \A q \in Cotizaciones : Coherente(cot[q])

\* No answer carries an epoch that has not started yet.
EpocasPasadas ==
    \A p \in Peticiones :
        pet[p].fase \in {"avisar", "fin"} => pet[p].epoca <= epoca[pet[p].q]

\* The part about what customers and users were told.  ConfirmacionEstable is
\* what rules a second answer out: while a quotation is in force, no answer
\* and no notification belongs to its current epoch.
Respuestas ==
    /\ EpocasPasadas
    /\ ConfirmacionEstable
    /\ SinRespuestasContradictorias
    /\ AvisoUnico
    /\ AvisosDeDecisiones

IInv == TypeOK /\ DocsCoherentes /\ Respuestas

\* The states of DocsCoherentes are those of the two invariants TLC checks.
LEMMA DocsImplica == DocsCoherentes => FechasCoherentes /\ ProcedenciaCoherente
BY DEF DocsCoherentes, Coherente, FechasCoherentes, ProcedenciaCoherente

LEMMA InicioIInv == Init => IInv
<1> SUFFICES ASSUME Init PROVE IInv
  OBVIOUS
<1>1. ASSUME NEW q \in Cotizaciones
      PROVE  cot[q] \in Documento /\ Coherente(cot[q])
  BY CreadaCoherente DEF Init
<1>2. cot = [q \in Cotizaciones |-> cot[q]]
  BY DEF Init
<1>3. cot \in [Cotizaciones -> Documento]
  BY <1>1, <1>2
<1>4. pet \in [Peticiones -> Peticion] /\ \A p \in Peticiones : pet[p].fase = "libre"
  BY DEF Init, Libre, Peticion
<1>5. /\ ahora \in Nat /\ epoca \in [Cotizaciones -> Nat]
      /\ avisados = {} /\ barrido \in [Barridos -> Barrido]
  BY DEF Init, SinBarrido, Barrido, Fecha
<1>6. TypeOK
  BY <1>3, <1>4, <1>5 DEF TypeOK
<1>7. Respuestas
  BY <1>4, <1>5 DEF Respuestas, EpocasPasadas, ConfirmacionEstable, Confirmada,
       SinRespuestasContradictorias, AvisoUnico, AvisosDeDecisiones
<1>8. QED
  BY <1>1, <1>6, <1>7 DEF IInv, DocsCoherentes

-----------------------------------------------------------------------------
(* How Respuestas survives each kind of step *)

\* A request that moves on without writing the state of any quotation: its new
\* record is about to notify only if it already was, and an answer it gives is
\* the state it has just read.
LEMMA PasoSinEscribir ==
    ASSUME TypeOK, Respuestas, NEW p \in Peticiones, NEW r \in Peticion,
           Pasar(p, r), r.fase # "avisar",
           r.fase = "fin" => /\ r.epoca = epoca[r.q]
                             /\ r.res \in {"ok", "yaRespondida"} =>
                                  cot[r.q].estado = r.nuevo,
           \A q \in Cotizaciones : cot'[q].estado = cot[q].estado,
           epoca' = epoca, avisados' = avisados
    PROVE  Respuestas'
<1>1. /\ pet' \in [Peticiones -> Peticion] /\ pet'[p] = r
      /\ \A p2 \in Peticiones \ {p} : pet'[p2] = pet[p2]
  BY PasarTipo
<1>2. /\ epoca \in [Cotizaciones -> Nat] /\ avisados \subseteq Cotizaciones \X Nat
      /\ pet \in [Peticiones -> Peticion]
  BY DEF TypeOK
<1>3. EpocasPasadas'
  <2> SUFFICES ASSUME NEW x \in Peticiones, pet'[x].fase \in {"avisar", "fin"}
               PROVE  pet'[x].epoca <= epoca[pet'[x].q]
    BY DEF EpocasPasadas
  <2>1. CASE x = p
    BY <2>1, <1>1, <1>2, FasesTipo
  <2>2. CASE x # p
    BY <2>2, <1>1 DEF Respuestas, EpocasPasadas
  <2>3. QED
    BY <2>1, <2>2
<1>4. ConfirmacionEstable'
  <2> SUFFICES ASSUME NEW x \in Peticiones, Confirmada(x)',
                      pet'[x].epoca = epoca[pet'[x].q]
               PROVE  cot'[pet'[x].q].estado = pet'[x].nuevo
    BY DEF ConfirmacionEstable
  <2>1. pet'[x].q \in Cotizaciones
    BY <1>1, FasesTipo DEF Confirmada
  <2>2. CASE x = p
    BY <2>1, <2>2, <1>1 DEF Confirmada
  <2>3. CASE x # p
    BY <2>1, <2>3, <1>1 DEF Respuestas, ConfirmacionEstable, Confirmada
  <2>4. QED
    BY <2>2, <2>3
<1>5. SinRespuestasContradictorias'
  <2> SUFFICES ASSUME NEW x \in Peticiones, NEW y \in Peticiones,
                      Confirmada(x)', Confirmada(y)',
                      pet'[x].q = pet'[y].q, pet'[x].epoca = pet'[y].epoca
               PROVE  pet'[x].nuevo = pet'[y].nuevo
    BY DEF SinRespuestasContradictorias
  <2>1. CASE x = p \/ y = p
    <3>1. pet'[x].epoca = epoca[pet'[x].q]
      BY <2>1, <1>1 DEF Confirmada
    <3>2. QED
      BY <3>1, <1>4 DEF ConfirmacionEstable
  <2>2. CASE x # p /\ y # p
    BY <2>2, <1>1 DEF Respuestas, SinRespuestasContradictorias, Confirmada
  <2>3. QED
    BY <2>1, <2>2
<1>6. AvisoUnico'
  BY <1>1 DEF Respuestas, AvisoUnico
<1>7. AvisosDeDecisiones'
  <2> SUFFICES ASSUME NEW a \in avisados
               PROVE  /\ a[2] <= epoca[a[1]]
                      /\ a[2] = epoca[a[1]] => cot'[a[1]].estado \in Decisiones
    BY DEF AvisosDeDecisiones
  <2>1. a[1] \in Cotizaciones
    BY <1>2
  <2>2. QED
    BY <2>1 DEF Respuestas, AvisosDeDecisiones
<1>8. QED
  BY <1>3, <1>4, <1>5, <1>6, <1>7 DEF Respuestas

\* While a quotation is in force nothing was answered in its current epoch.
LEMMA VigenteSinRespuesta ==
    ASSUME TypeOK, Respuestas, NEW q \in Cotizaciones, cot[q].estado = "vigente"
    PROVE  /\ \A p \in Peticiones :
                Confirmada(p) /\ pet[p].q = q => pet[p].epoca # epoca[q]
           /\ \A a \in avisados : a[1] = q => a[2] # epoca[q]
<1>1. ASSUME NEW p \in Peticiones, Confirmada(p), pet[p].q = q,
             pet[p].epoca = epoca[q]
      PROVE  FALSE
  <2>1. pet[p].nuevo \in Decisiones
    BY <1>1, FasesTipo DEF TypeOK, Confirmada
  <2>2. cot[q].estado = pet[p].nuevo
    BY <1>1 DEF Respuestas, ConfirmacionEstable
  <2>3. QED
    BY <2>1, <2>2 DEF Decisiones
<1>2. ASSUME NEW a \in avisados, a[1] = q, a[2] = epoca[q]
      PROVE  FALSE
  BY <1>2 DEF Respuestas, AvisosDeDecisiones, Decisiones
<1>3. QED
  BY <1>1, <1>2

\* The sweep takes a quotation in force, that is, an unanswered one.
LEMMA PasoBarrido ==
    ASSUME TypeOK, Respuestas, NEW q \in Cotizaciones, cot[q].estado = "vigente",
           \A q2 \in Cotizaciones \ {q} : cot'[q2] = cot[q2],
           pet' = pet, epoca' = epoca, avisados' = avisados
    PROVE  Respuestas'
<1>1. /\ \A p \in Peticiones :
           Confirmada(p) /\ pet[p].q = q => pet[p].epoca # epoca[q]
      /\ \A a \in avisados : a[1] = q => a[2] # epoca[q]
  BY VigenteSinRespuesta
<1>2. \A p \in Peticiones : Confirmada(p) => pet[p].q \in Cotizaciones
  BY FasesTipo DEF TypeOK, Confirmada
<1>3. \A a \in avisados : a[1] \in Cotizaciones
  BY DEF TypeOK
<1>4. ConfirmacionEstable'
  BY <1>1, <1>2 DEF Respuestas, ConfirmacionEstable, Confirmada
<1>5. AvisosDeDecisiones'
  BY <1>1, <1>3 DEF Respuestas, AvisosDeDecisiones
<1>6. EpocasPasadas' /\ SinRespuestasContradictorias' /\ AvisoUnico'
  BY DEF Respuestas, EpocasPasadas, SinRespuestasContradictorias, AvisoUnico, Confirmada
<1>7. QED
  BY <1>4, <1>5, <1>6 DEF Respuestas

\* The answer of a customer that found the quotation in force is the first one
\* of its epoch, so it contradicts none and is the only one to be notified.
LEMMA PasoRespuesta ==
    ASSUME TypeOK, Respuestas, NEW q \in Cotizaciones, cot[q].estado = "vigente",
           NEW p \in Peticiones, NEW e \in Decisiones, cot'[q].estado = e,
           \A q2 \in Cotizaciones \ {q} : cot'[q2] = cot[q2],
           Pasar(p, [fase |-> "avisar", q |-> q, nuevo |-> e, epoca |-> epoca[q]]),
           epoca' = epoca, avisados' = avisados
    PROVE  Respuestas'
<1> DEFINE r == [fase |-> "avisar", q |-> q, nuevo |-> e, epoca |-> epoca[q]]
<1>0. r \in Peticion /\ r.fase = "avisar" /\ r.q = q /\ r.nuevo = e /\ r.epoca = epoca[q]
  BY DEF TypeOK, Peticion
<1> HIDE DEF r
<1>1. /\ pet' \in [Peticiones -> Peticion] /\ pet'[p] = r
      /\ \A p2 \in Peticiones \ {p} : pet'[p2] = pet[p2]
  BY <1>0, PasarTipo DEF r
<1>2. /\ epoca \in [Cotizaciones -> Nat] /\ avisados \subseteq Cotizaciones \X Nat
      /\ pet \in [Peticiones -> Peticion]
  BY DEF TypeOK
<1>3. /\ \A x \in Peticiones :
           Confirmada(x) /\ pet[x].q = q => pet[x].epoca # epoca[q]
      /\ \A a \in avisados : a[1] = q => a[2] # epoca[q]
  BY VigenteSinRespuesta
<1>4. \A x \in Peticiones : Confirmada(x) => pet[x].q \in Cotizaciones
  BY <1>2, FasesTipo DEF Confirmada
<1>5. EpocasPasadas'
  BY <1>0, <1>1, <1>2 DEF Respuestas, EpocasPasadas
<1>6. ConfirmacionEstable'
  BY <1>0, <1>1, <1>3, <1>4 DEF Respuestas, ConfirmacionEstable, Confirmada
<1>7. SinRespuestasContradictorias'
  <2> SUFFICES ASSUME NEW x \in Peticiones, NEW y \in Peticiones,
                      Confirmada(x)', Confirmada(y)',
                      pet'[x].q = pet'[y].q, pet'[x].epoca = pet'[y].epoca
               PROVE  pet'[x].nuevo = pet'[y].nuevo
    BY DEF SinRespuestasContradictorias
  <2>1. CASE x # p /\ y # p
    BY <2>1, <1>1 DEF Respuestas, SinRespuestasContradictorias, Confirmada
  <2>2. CASE x = p /\ y = p
    BY <2>2
  <2>3. CASE x = p /\ y # p
    BY <2>3, <1>0, <1>1, <1>3 DEF Confirmada
  <2>4. CASE x # p /\ y = p
    BY <2>4, <1>0, <1>1, <1>3 DEF Confirmada
  <2>5. QED
    BY <2>1, <2>2, <2>3, <2>4
<1>8. AvisoUnico'
  BY <1>0, <1>1, <1>2, <1>3 DEF Respuestas, AvisoUnico, Confirmada
<1>9. AvisosDeDecisiones'
  BY <1>2, <1>3 DEF Respuestas, AvisosDeDecisiones
<1>10. QED
  BY <1>5, <1>6, <1>7, <1>8, <1>9 DEF Respuestas

\* Notifying (or failing to) keeps the answer and its epoch; AvisoUnico is what
\* keeps anybody else from notifying the same decision.
LEMMA PasoAviso ==
    ASSUME TypeOK, Respuestas, NEW p \in Peticiones, Avisar(p)
    PROVE  Respuestas'
<1> DEFINE s == pet[p]
           r == [fase |-> "fin", q |-> s.q, nuevo |-> s.nuevo,
                 epoca |-> s.epoca, res |-> "ok"]
<1>0. /\ s \in Peticion /\ s.fase = "avisar" /\ s.q \in Cotizaciones
      /\ s.nuevo \in Decisiones /\ s.epoca \in Nat
  BY FasesTipo DEF Avisar, TypeOK
<1>1. /\ r \in Peticion /\ r.fase = "fin" /\ r.q = s.q /\ r.nuevo = s.nuevo
      /\ r.epoca = s.epoca
  BY <1>0 DEF Peticion
<1>2. Pasar(p, r) /\ cot' = cot /\ epoca' = epoca
      /\ avisados' \in {avisados, avisados \cup {<<s.q, s.epoca>>}}
  BY DEF Avisar
<1>3. Confirmada(p)
  BY <1>0 DEF Confirmada
<1> HIDE DEF s, r
<1>4. /\ pet' \in [Peticiones -> Peticion] /\ pet'[p] = r
      /\ \A p2 \in Peticiones \ {p} : pet'[p2] = pet[p2]
  BY <1>1, <1>2, PasarTipo
<1>5. /\ epoca \in [Cotizaciones -> Nat] /\ avisados \subseteq Cotizaciones \X Nat
      /\ pet \in [Peticiones -> Peticion]
  BY DEF TypeOK
<1>6. \A x \in Peticiones : /\ Confirmada(x)' => Confirmada(x)
                            /\ pet'[x].fase \in {"avisar", "fin"} =>
                                 /\ pet[x].fase \in {"avisar", "fin"}
                                 /\ pet'[x].q = pet[x].q
                                 /\ pet'[x].epoca = pet[x].epoca
                                 /\ pet'[x].nuevo = pet[x].nuevo
  BY <1>0, <1>1, <1>3, <1>4 DEF Confirmada, s
<1>7. EpocasPasadas'
  BY <1>2, <1>6 DEF Respuestas, EpocasPasadas
<1>8. ConfirmacionEstable' /\ SinRespuestasContradictorias'
  BY <1>2, <1>6 DEF Respuestas, ConfirmacionEstable, SinRespuestasContradictorias, Confirmada
<1>9. AvisoUnico'
  <2> SUFFICES ASSUME NEW x \in Peticiones, pet'[x].fase = "avisar"
               PROVE  /\ <<pet'[x].q, pet'[x].epoca>> \notin avisados'
                      /\ \A y \in Peticiones \ {x} :
                           pet'[y].fase = "avisar" /\ pet'[y].q = pet'[x].q
                             => pet'[y].epoca # pet'[x].epoca
    BY DEF AvisoUnico
  <2>1. x # p /\ pet'[x] = pet[x] /\ pet[x].fase = "avisar"
    BY <1>1, <1>4
  <2>2. <<pet[x].q, pet[x].epoca>> # <<s.q, s.epoca>>
    BY <1>0, <2>1 DEF Respuestas, AvisoUnico, s
  <2>3. <<pet'[x].q, pet'[x].epoca>> \notin avisados'
    BY <1>2, <2>1, <2>2 DEF Respuestas, AvisoUnico
  <2>4. \A y \in Peticiones \ {x} : pet'[y].fase = "avisar" =>
          y # p /\ pet'[y] = pet[y]
    BY <1>1, <1>4
  <2>5. QED
    BY <2>1, <2>3, <2>4 DEF Respuestas, AvisoUnico
<1>10. AvisosDeDecisiones'
  <2>1. s.epoca <= epoca[s.q]
    BY <1>0 DEF Respuestas, EpocasPasadas, s
  <2>2. s.epoca = epoca[s.q] => cot[s.q].estado \in Decisiones
    BY <1>0, <1>3 DEF Respuestas, ConfirmacionEstable, s
  <2>3. <<s.q, s.epoca>>[1] = s.q /\ <<s.q, s.epoca>>[2] = s.epoca
    OBVIOUS
  <2>4. QED
    BY <1>2, <2>1, <2>2, <2>3 DEF Respuestas, AvisosDeDecisiones
<1>11. QED
  BY <1>7, <1>8, <1>9, <1>10 DEF Respuestas

\* A manual change opens an epoch to which no answer belongs yet.
LEMMA PasoManual ==
    ASSUME TypeOK, Respuestas, NEW q \in Cotizaciones, NEW p \in Peticiones,
           NEW r \in Peticion, Pasar(p, r), r.fase \notin {"avisar", "fin"},
           \A q2 \in Cotizaciones \ {q} : cot'[q2] = cot[q2],
           epoca' = [epoca EXCEPT ![q] = @ + 1], avisados' = avisados
    PROVE  Respuestas'
<1>1. /\ pet' \in [Peticiones -> Peticion] /\ pet'[p] = r
      /\ \A p2 \in Peticiones \ {p} : pet'[p2] = pet[p2]
  BY PasarTipo
<1>2. /\ epoca \in [Cotizaciones -> Nat] /\ avisados \subseteq Cotizaciones \X Nat
      /\ pet \in [Peticiones -> Peticion]
  BY DEF TypeOK
<1>3. /\ epoca'[q] = epoca[q] + 1
      /\ \A q2 \in Cotizaciones \ {q} : epoca'[q2] = epoca[q2]
  BY <1>2
<1>4. \A x \in Peticiones : pet'[x].fase \in {"avisar", "fin"} =>
        /\ x # p /\ pet'[x] = pet[x] /\ pet[x].q \in Cotizaciones
        /\ pet[x].epoca \in Nat /\ pet[x].epoca <= epoca[pet[x].q]
  BY <1>1, <1>2, FasesTipo DEF Respuestas, EpocasPasadas
<1>5. \A x \in Peticiones : pet'[x].fase \in {"avisar", "fin"} =>
        /\ pet[x].epoca <= epoca'[pet[x].q]
        /\ pet[x].q = q => pet[x].epoca # epoca'[q]
  BY <1>2, <1>3, <1>4
<1>6. EpocasPasadas'
  BY <1>4, <1>5 DEF EpocasPasadas
<1>7. ConfirmacionEstable'
  BY <1>3, <1>4, <1>5 DEF Respuestas, ConfirmacionEstable, Confirmada
<1>8. SinRespuestasContradictorias' /\ AvisoUnico'
  BY <1>4 DEF Respuestas, SinRespuestasContradictorias, AvisoUnico, Confirmada
<1>9. AvisosDeDecisiones'
  BY <1>2, <1>3 DEF Respuestas, AvisosDeDecisiones
<1>10. QED
  BY <1>6, <1>7, <1>8, <1>9 DEF Respuestas

-----------------------------------------------------------------------------
(* One step of the system *)

\* A step of a request that only reads the database.
LEMMA Lectura ==
    ASSUME IInv, NEW p \in Peticiones, NEW r \in Peticion, Pasar(p, r),
           r.fase # "avisar",
           r.fase = "fin" => /\ r.epoca = epoca[r.q]
                             /\ r.res \in {"ok", "yaRespondida"} =>
                                  cot[r.q].estado = r.nuevo,
           UNCHANGED <<ahora, cot, barrido, epoca, avisados>>
    PROVE  IInv'
<1>1. Respuestas'
  BY PasoSinEscribir DEF IInv
<1>2. TypeOK'
  BY PasarTipo DEF IInv, TypeOK
<1>3. DocsCoherentes'
  BY DEF IInv, DocsCoherentes
<1>4. QED
  BY <1>1, <1>2, <1>3 DEF IInv

\* A step that writes one document, keeping it coherent.
LEMMA Escritura ==
    ASSUME TypeOK, DocsCoherentes, NEW q \in Cotizaciones, NEW d \in Documento,
           Coherente(d), cot' = [cot EXCEPT ![q] = d]
    PROVE  /\ cot' \in [Cotizaciones -> Documento]
           /\ cot'[q] = d
           /\ \A q2 \in Cotizaciones \ {q} : cot'[q2] = cot[q2]
           /\ DocsCoherentes'
<1>1. /\ cot' \in [Cotizaciones -> Documento] /\ cot'[q] = d
      /\ \A q2 \in Cotizaciones \ {q} : cot'[q2] = cot[q2]
  BY DEF TypeOK
<1>2. QED
  BY <1>1 DEF DocsCoherentes

LEMMA LibreTipo == Libre \in Peticion /\ Libre.fase = "libre"
BY DEF Libre, Peticion

LEMMA CambiarEstadoIInv ==
    ASSUME IInv, NEW p \in Peticiones, CambiarEstado(p) PROVE IInv'
<1>1. PICK q \in Cotizaciones, u \in Usuarios, e \in Estados,
           f \in FechasDto \cup {Nulo} :
        Pasar(p, [fase |-> "leer", q |-> q, actor |-> u, nuevo |-> e,
                  fecha |-> f, resto |-> Nulo])
  BY DEF CambiarEstado
<1>2. [fase |-> "leer", q |-> q, actor |-> u, nuevo |-> e,
       fecha |-> f, resto |-> Nulo] \in Peticion
  BY ConstantesAssumption DEF ConstantesAssumption, Peticion, Fecha
<1>3. QED
  BY <1>1, <1>2, Lectura DEF CambiarEstado

LEMMA LeerManualIInv ==
    ASSUME IInv, NEW p \in Peticiones, LeerManual(p) PROVE IInv'
<1> DEFINE s == pet[p]
           r == [fase |-> "preparar", q |-> s.q, actor |-> s.actor,
                 nuevo |-> s.nuevo, fecha |-> s.fecha, resto |-> s.resto,
                 leido |-> cot[s.q].estado]
<1>1. /\ s.q \in Cotizaciones /\ s.actor \in Usuarios /\ s.nuevo \in Estados
      /\ s.fecha \in Fecha /\ s.resto \in Fecha
  BY FasesTipo DEF LeerManual, IInv, TypeOK
<1>2. cot[s.q].estado \in Estados
  BY <1>1 DEF IInv, TypeOK, Documento
<1>3. r \in Peticion /\ r.fase = "preparar"
  BY <1>1, <1>2 DEF Peticion
<1>4. \/ Pasar(p, Libre)
      \/ Pasar(p, r)
  BY DEF LeerManual
<1> HIDE DEF r, s
<1>5. QED
  BY <1>3, <1>4, LibreTipo, Lectura DEF LeerManual

\* The date of a reopening is a date.
LEMMA FechasVigenteTipo ==
    ASSUME NEW f \in Fecha, NEW t \in Nat PROVE FechasVigente(f, t) \subseteq Fecha
BY ConstantesAssumption DEF ConstantesAssumption, FechasVigente, Fecha

LEMMA PrepararManualIInv ==
    ASSUME IInv, NEW p \in Peticiones, PrepararManual(p) PROVE IInv'
<1> DEFINE s == pet[p]
           r(f) == [fase |-> "aplicar", q |-> s.q, actor |-> s.actor,
                    nuevo |-> s.nuevo, fecha |-> f, resto |-> s.resto,
                    leido |-> s.leido, t |-> ahora]
<1>1. /\ s.q \in Cotizaciones /\ s.actor \in Usuarios /\ s.nuevo \in Estados
      /\ s.fecha \in Fecha /\ s.resto \in Fecha /\ s.leido \in Estados
      /\ ahora \in Nat
  BY FasesTipo DEF PrepararManual, IInv, TypeOK
<1>2. \A f \in Fecha : r(f) \in Peticion /\ r(f).fase = "aplicar"
  BY <1>1 DEF Peticion
<1>3. Pasar(p, Libre) \/ \E f \in Fecha : Pasar(p, r(f))
  BY <1>1, FechasVigenteTipo DEF PrepararManual
<1> HIDE DEF r, s
<1>4. CASE Pasar(p, Libre)
  BY <1>4, LibreTipo, Lectura DEF PrepararManual
<1>5. CASE \E f \in Fecha : Pasar(p, r(f))
  <2>1. PICK f \in Fecha : Pasar(p, r(f))
    BY <1>5
  <2>2. QED
    BY <1>2, <2>1, Lectura DEF PrepararManual
<1>6. QED
  BY <1>3, <1>4, <1>5

LEMMA AplicarManualIInv ==
    ASSUME IInv, NEW p \in Peticiones, AplicarManual(p) PROVE IInv'
<1> DEFINE s == pet[p]
           d == DocManual(cot[s.q], s.nuevo, s.actor, s.t, s.fecha)
           r == IF s.resto = Nulo THEN Libre
                ELSE [fase |-> "resto", q |-> s.q, resto |-> s.resto]
<1>1. /\ s.q \in Cotizaciones /\ s.actor \in Usuarios /\ s.nuevo \in Estados
      /\ s.fecha \in Fecha /\ s.resto \in Fecha /\ s.t \in Nat
  BY FasesTipo DEF AplicarManual, IInv, TypeOK
<1>2. d \in Documento /\ Coherente(d)
  BY <1>1, ManualCoherente DEF IInv, TypeOK
<1>3. r \in Peticion /\ r.fase \in {"libre", "resto"}
  BY <1>1, LibreTipo DEF Peticion, Fecha
<1>4. CASE FiltroManual(cot[s.q], s.leido)
  <2>1. /\ cot' = [cot EXCEPT ![s.q] = d] /\ Pasar(p, r)
        /\ epoca' = [epoca EXCEPT ![s.q] = @ + 1]
        /\ UNCHANGED <<ahora, barrido, avisados>>
    BY <1>4 DEF AplicarManual
  <2> HIDE DEF d, r, s
  <2>2. /\ cot' \in [Cotizaciones -> Documento] /\ DocsCoherentes'
        /\ \A q2 \in Cotizaciones \ {s.q} : cot'[q2] = cot[q2]
    BY <1>1, <1>2, <2>1, Escritura DEF IInv
  <2>3. Respuestas'
    BY <1>1, <1>3, <2>1, <2>2, PasoManual DEF IInv
  <2>4. TypeOK'
    BY <1>1, <1>3, <2>1, <2>2, PasarTipo DEF IInv, TypeOK
  <2>5. QED
    BY <2>2, <2>3, <2>4 DEF IInv
<1>5. CASE ~FiltroManual(cot[s.q], s.leido)
  <2>1. Pasar(p, Libre) /\ UNCHANGED <<ahora, cot, barrido, epoca, avisados>>
    BY <1>5 DEF AplicarManual
  <2>2. QED
    BY <2>1, LibreTipo, Lectura
<1>6. QED
  BY <1>4, <1>5

LEMMA ActualizarIInv ==
    ASSUME IInv, NEW p \in Peticiones, Actualizar(p) PROVE IInv'
<1>1. PICK q \in Cotizaciones, u \in Usuarios, e \in {"vigente", "vencida", Nulo},
           f \in FechasDto \cup {Nulo} :
        LET objetivo == EstadoObjetivo(e, f) IN
        \/ /\ objetivo # Nulo
           /\ Pasar(p, [fase |-> "leer", q |-> q, actor |-> u, nuevo |-> objetivo,
                        fecha |-> f,
                        resto |-> IF objetivo = "vigente" THEN Nulo ELSE f])
        \/ f # Nulo /\ Pasar(p, [fase |-> "resto", q |-> q, resto |-> f])
  BY DEF Actualizar
<1> DEFINE o == EstadoObjetivo(e, f)
           z == IF o = "vigente" THEN Nulo ELSE f
<1>2. f \in Fecha /\ z \in Fecha
  BY ConstantesAssumption DEF ConstantesAssumption, Fecha
<1>3. o # Nulo => o \in Estados
  BY DEF EstadoObjetivo, Estados
<1>4. f # Nulo => f \in Nat
  BY <1>2 DEF Fecha
<1> HIDE DEF o, z
<1>5. CASE o # Nulo /\ Pasar(p, [fase |-> "leer", q |-> q, actor |-> u,
                                  nuevo |-> o, fecha |-> f, resto |-> z])
  <2>1. [fase |-> "leer", q |-> q, actor |-> u, nuevo |-> o, fecha |-> f,
         resto |-> z] \in Peticion
    BY <1>2, <1>3, <1>5 DEF Peticion
  <2>2. QED
    BY <1>5, <2>1, Lectura DEF Actualizar
<1>6. CASE f # Nulo /\ Pasar(p, [fase |-> "resto", q |-> q, resto |-> f])
  <2>1. [fase |-> "resto", q |-> q, resto |-> f] \in Peticion
    BY <1>4, <1>6 DEF Peticion
  <2>2. QED
    BY <1>6, <2>1, Lectura DEF Actualizar
<1>7. QED
  BY <1>1, <1>5, <1>6 DEF o, z

LEMMA EscribirRestoIInv ==
    ASSUME IInv, NEW p \in Peticiones, EscribirResto(p) PROVE IInv'
<1> DEFINE s == pet[p]
           d == [cot[s.q] EXCEPT !.fechaVencimiento = s.resto]
<1>1. s.q \in Cotizaciones /\ s.resto \in Nat
  BY FasesTipo DEF EscribirResto, IInv, TypeOK
<1>2. d \in Documento /\ Coherente(d) /\ d.estado = cot[s.q].estado
  BY <1>1, RestoCoherente DEF IInv, TypeOK, DocsCoherentes
<1>3. /\ cot' = [cot EXCEPT ![s.q] = d] /\ Pasar(p, Libre)
      /\ UNCHANGED <<ahora, barrido, epoca, avisados>>
  BY DEF EscribirResto
<1> HIDE DEF d, s
<1>4. /\ cot' \in [Cotizaciones -> Documento] /\ DocsCoherentes'
      /\ cot'[s.q] = d /\ \A q2 \in Cotizaciones \ {s.q} : cot'[q2] = cot[q2]
  BY <1>1, <1>2, <1>3, Escritura DEF IInv
<1>5. \A q \in Cotizaciones : cot'[q].estado = cot[q].estado
  BY <1>2, <1>4
<1>6. Respuestas'
  BY <1>3, <1>5, LibreTipo, PasoSinEscribir DEF IInv
<1>7. TypeOK'
  BY <1>3, <1>4, LibreTipo, PasarTipo DEF IInv, TypeOK
<1>8. QED
  BY <1>4, <1>6, <1>7 DEF IInv

\* An answer given without writing is about the state just read.
LEMMA TerminarIInv ==
    ASSUME IInv, NEW p \in Peticiones, NEW q \in Cotizaciones, NEW e \in Decisiones,
           NEW res \in {"yaRespondida", "rechazo", "expirado"},
           Terminar(p, q, e, res), res = "yaRespondida" => cot[q].estado = e,
           UNCHANGED <<ahora, cot, barrido, epoca, avisados>>
    PROVE  IInv'
<1> DEFINE r == [fase |-> "fin", q |-> q, nuevo |-> e, epoca |-> epoca[q], res |-> res]
<1>1. /\ r \in Peticion /\ r.fase = "fin" /\ r.q = q /\ r.nuevo = e
      /\ r.epoca = epoca[q] /\ r.res = res
  BY DEF Peticion, IInv, TypeOK
<1>2. Pasar(p, r)
  BY DEF Terminar
<1> HIDE DEF r
<1>3. QED
  BY <1>1, <1>2, Lectura

LEMMA ResponderEnlaceIInv ==
    ASSUME IInv, NEW p \in Peticiones, ResponderEnlace(p) PROVE IInv'
<1>1. PICK q \in Cotizaciones, e \in Decisiones :
        /\ cot[q].magicToken # Nulo
        /\ \/ Terminar(p, q, e, "expirado")
           \/ cot[q].estado = e /\ Terminar(p, q, e, "yaRespondida")
           \/ Terminar(p, q, e, "rechazo")
           \/ Pasar(p, [fase |-> "responder", token |-> cot[q].magicToken,
                        nuevo |-> e, t |-> ahora])
  BY DEF ResponderEnlace
<1>2. UNCHANGED <<ahora, cot, barrido, epoca, avisados>>
  BY DEF ResponderEnlace
<1>3. CASE Pasar(p, [fase |-> "responder", token |-> cot[q].magicToken,
                     nuevo |-> e, t |-> ahora])
  <2>1. cot[q].magicToken \in Tokens /\ ahora \in Nat
    BY <1>1 DEF IInv, TypeOK, Documento
  <2>2. [fase |-> "responder", token |-> cot[q].magicToken, nuevo |-> e,
         t |-> ahora] \in Peticion
    BY <2>1 DEF Peticion
  <2>3. QED
    BY <1>2, <1>3, <2>2, Lectura
<1>4. QED
  BY <1>1, <1>2, <1>3, TerminarIInv

LEMMA AplicarRespuestaIInv ==
    ASSUME IInv, NEW p \in Peticiones, AplicarRespuesta(p) PROVE IInv'
<1> DEFINE s == pet[p]
<1>1. s.token \in Tokens /\ s.nuevo \in Decisiones /\ s.t \in Nat
  BY FasesTipo DEF AplicarRespuesta, IInv, TypeOK
<1>2. UNCHANGED <<ahora, barrido, epoca, avisados>>
  BY DEF AplicarRespuesta
<1>3. ASSUME NEW q \in Cotizaciones, FiltroRespuesta(cot[q], s.token, s.t),
             cot' = [cot EXCEPT ![q] = DocRespondido(@, s.nuevo, s.t)],
             Pasar(p, [fase |-> "avisar", q |-> q, nuevo |-> s.nuevo,
                       epoca |-> epoca[q]])
      PROVE  IInv'
  <2> DEFINE d == DocRespondido(cot[q], s.nuevo, s.t)
             r == [fase |-> "avisar", q |-> q, nuevo |-> s.nuevo, epoca |-> epoca[q]]
  <2>1. cot[q] \in Documento /\ Coherente(cot[q]) /\ cot[q].estado = "vigente"
    BY <1>3 DEF FiltroRespuesta, IInv, TypeOK, DocsCoherentes
  <2>2. d \in Documento /\ Coherente(d) /\ d.estado = s.nuevo
    BY <1>1, <2>1, RespuestaCoherente
  <2>3. r \in Peticion
    BY <1>1 DEF Peticion, IInv, TypeOK
  <2>4. cot' = [cot EXCEPT ![q] = d] /\ Pasar(p, r)
    BY <1>3
  <2> HIDE DEF d, s
  <2>5. /\ cot' \in [Cotizaciones -> Documento] /\ DocsCoherentes' /\ cot'[q] = d
        /\ \A q2 \in Cotizaciones \ {q} : cot'[q2] = cot[q2]
    BY <2>2, <2>4, Escritura DEF IInv
  <2>6. Respuestas'
    BY <1>1, <1>2, <2>1, <2>2, <2>4, <2>5, PasoRespuesta DEF IInv
  <2>7. TypeOK'
    BY <1>2, <2>3, <2>4, <2>5, PasarTipo DEF IInv, TypeOK
  <2>8. QED
    BY <2>5, <2>6, <2>7 DEF IInv
<1>4. ASSUME Pasar(p, [fase |-> "releer", token |-> s.token, nuevo |-> s.nuevo]),
             UNCHANGED cot
      PROVE  IInv'
  <2>1. [fase |-> "releer", token |-> s.token, nuevo |-> s.nuevo] \in Peticion
    BY <1>1 DEF Peticion
  <2> HIDE DEF s
  <2>2. QED
    BY <1>2, <1>4, <2>1, Lectura
<1>5. QED
  BY <1>3, <1>4 DEF AplicarRespuesta

LEMMA ReleerRespuestaIInv ==
    ASSUME IInv, NEW p \in Peticiones, ReleerRespuesta(p) PROVE IInv'
<1> DEFINE s == pet[p]
           res(q) == IF EnlaceExpirado(cot[q]) THEN "expirado"
                     ELSE IF cot[q].estado = s.nuevo THEN "yaRespondida"
                     ELSE "rechazo"
<1>1. s.nuevo \in Decisiones
  BY FasesTipo DEF ReleerRespuesta, IInv, TypeOK
<1>2. UNCHANGED <<ahora, cot, barrido, epoca, avisados>>
  BY DEF ReleerRespuesta
<1>3. \/ \E q \in Cotizaciones : Terminar(p, q, s.nuevo, res(q))
      \/ Pasar(p, Libre)
  BY DEF ReleerRespuesta
<1>4. \A q : /\ res(q) \in {"yaRespondida", "rechazo", "expirado"}
             /\ res(q) = "yaRespondida" => cot[q].estado = s.nuevo
  OBVIOUS
<1> HIDE DEF s, res
<1>5. QED
  BY <1>1, <1>2, <1>3, <1>4, TerminarIInv, LibreTipo, Lectura

LEMMA AvisarIInv ==
    ASSUME IInv, NEW p \in Peticiones, Avisar(p) PROVE IInv'
<1> DEFINE s == pet[p]
           r == [fase |-> "fin", q |-> s.q, nuevo |-> s.nuevo,
                 epoca |-> s.epoca, res |-> "ok"]
<1>1. s.q \in Cotizaciones /\ s.nuevo \in Decisiones /\ s.epoca \in Nat
  BY FasesTipo DEF Avisar, IInv, TypeOK
<1>2. r \in Peticion
  BY <1>1 DEF Peticion
<1>3. /\ Pasar(p, r) /\ UNCHANGED <<ahora, cot, barrido, epoca>>
      /\ avisados' \in {avisados, avisados \cup {<<s.q, s.epoca>>}}
  BY DEF Avisar
<1> HIDE DEF r, s
<1>4. TypeOK'
  BY <1>1, <1>2, <1>3, PasarTipo DEF IInv, TypeOK
<1>5. DocsCoherentes'
  BY <1>3 DEF IInv, DocsCoherentes
<1>6. QED
  BY <1>4, <1>5, PasoAviso DEF IInv

LEMMA ContinuarIInv ==
    ASSUME IInv, NEW p \in Peticiones, Continuar(p) PROVE IInv'
<1>1. CASE Cerrar(p)
  BY <1>1, LibreTipo, Lectura DEF Cerrar
<1>2. QED
  BY <1>1, LeerManualIInv, PrepararManualIInv, AplicarManualIInv, EscribirRestoIInv,
     AplicarRespuestaIInv, ReleerRespuestaIInv, AvisarIInv DEF Continuar

\* Steps that leave quotations and requests alone.
LEMMA AjenoIInv ==
    ASSUME IInv, ahora' \in Nat, barrido' \in [Barridos -> Barrido],
           UNCHANGED <<cot, pet, epoca, avisados>>
    PROVE  IInv'
<1>1. TypeOK' /\ DocsCoherentes'
  BY DEF IInv, TypeOK, DocsCoherentes
<1>2. Respuestas'
  BY DEF IInv, Respuestas, EpocasPasadas, ConfirmacionEstable, Confirmada,
     SinRespuestasContradictorias, AvisoUnico, AvisosDeDecisiones
<1>3. QED
  BY <1>1, <1>2 DEF IInv

LEMMA BarridoTipo ==
    ASSUME TypeOK, NEW b \in Barridos
    PROVE  /\ barrido[b] \in Barrido /\ SinBarrido \in Barrido
           /\ [t |-> ahora, pendientes |-> Cotizaciones] \in Barrido
           /\ \A q : [barrido[b] EXCEPT !.pendientes = barrido[b].pendientes \ {q}]
                     \in Barrido
BY DEF TypeOK, Barrido, SinBarrido, Fecha

LEMMA IniciarBarridoIInv ==
    ASSUME IInv, NEW b \in Barridos, IniciarBarrido(b) PROVE IInv'
<1>1. barrido' \in [Barridos -> Barrido]
  BY BarridoTipo DEF IniciarBarrido, IInv, TypeOK
<1>2. QED
  BY <1>1, AjenoIInv DEF IniciarBarrido, IInv, TypeOK

LEMMA BarrerDocumentoIInv ==
    ASSUME IInv, NEW b \in Barridos, NEW q \in Cotizaciones, BarrerDocumento(b, q)
    PROVE  IInv'
<1>1. barrido' \in [Barridos -> Barrido]
  BY BarridoTipo DEF BarrerDocumento, IInv, TypeOK
<1>2. UNCHANGED <<ahora, pet, epoca, avisados>>
  BY DEF BarrerDocumento
<1>3. CASE FiltroBarrido(cot[q], barrido[b].t)
  <2>1. cot[q] \in Documento /\ Coherente(cot[q]) /\ cot[q].estado = "vigente"
    BY <1>3 DEF FiltroBarrido, IInv, TypeOK, DocsCoherentes
  <2>2. cot' = [cot EXCEPT ![q] = DocVencido(cot[q])]
    BY <1>3 DEF BarrerDocumento
  <2>3. DocVencido(cot[q]) \in Documento /\ Coherente(DocVencido(cot[q]))
    BY <2>1, VencidoCoherente
  <2>4. /\ cot' \in [Cotizaciones -> Documento] /\ DocsCoherentes'
        /\ \A q2 \in Cotizaciones \ {q} : cot'[q2] = cot[q2]
    BY <2>2, <2>3, Escritura DEF IInv
  <2>5. Respuestas'
    BY <1>2, <2>1, <2>4, PasoBarrido DEF IInv
  <2>6. TypeOK'
    BY <1>1, <1>2, <2>4 DEF IInv, TypeOK
  <2>7. QED
    BY <2>4, <2>5, <2>6 DEF IInv
<1>4. CASE ~FiltroBarrido(cot[q], barrido[b].t)
  BY <1>1, <1>2, <1>4, AjenoIInv DEF BarrerDocumento, IInv, TypeOK
<1>5. QED
  BY <1>3, <1>4

LEMMA PasoIInv == IInv /\ [Next]_vars => IInv'
<1> SUFFICES ASSUME IInv, [Next]_vars PROVE IInv'
  OBVIOUS
<1>1. CASE Tick
  BY <1>1, AjenoIInv DEF Tick, IInv, TypeOK
<1>2. ASSUME NEW p \in Peticiones,
             CambiarEstado(p) \/ Actualizar(p) \/ ResponderEnlace(p) \/ Continuar(p)
      PROVE  IInv'
  BY <1>2, CambiarEstadoIInv, ActualizarIInv, ResponderEnlaceIInv, ContinuarIInv
<1>3. ASSUME NEW b \in Barridos,
             IniciarBarrido(b) \/ \E q \in Cotizaciones : BarrerDocumento(b, q)
      PROVE  IInv'
  BY <1>3, IniciarBarridoIInv, BarrerDocumentoIInv
<1>4. CASE UNCHANGED vars
  BY <1>4, AjenoIInv DEF vars, IInv, TypeOK
<1>5. QED
  BY <1>1, <1>2, <1>3, <1>4 DEF Next

-----------------------------------------------------------------------------
(* The theorems *)

\* The inductive invariant holds in every state any run of the service reaches.
THEOREM Invariante == Spec => []IInv
<1>1. QED
  BY InicioIInv, PasoIInv, PTL DEF Spec

\* Type correctness of the stored documents and of the requests in flight.
THEOREM Tipos == Spec => []TypeOK
<1>1. IInv => TypeOK
  BY DEF IInv
<1>2. QED
  BY Invariante, <1>1, PTL

\* The decision dates of every quotation, and the origin and the actor of its last
\* change, agree with its state, whoever wrote last.
THEOREM DocumentosCoherentes == Spec => []DocumentoCoherente
<1>1. IInv => DocumentoCoherente
  BY DocsImplica DEF IInv, DocumentoCoherente
<1>2. QED
  BY Invariante, <1>1, PTL

\* What a customer was told stands until a user changes the quotation.
THEOREM RespuestasFirmes == Spec => []ConfirmacionEstable
<1>1. IInv => ConfirmacionEstable
  BY DEF IInv, Respuestas
<1>2. QED
  BY Invariante, <1>1, PTL

\* No two customers are told different things of one quotation.
THEOREM RespuestasUnanimes == Spec => []SinRespuestasContradictorias
<1>1. IInv => SinRespuestasContradictorias
  BY DEF IInv, Respuestas
<1>2. QED
  BY Invariante, <1>1, PTL

\* A decision is notified at most once.
THEOREM AvisosUnicos == Spec => []AvisoUnico
<1>1. IInv => AvisoUnico
  BY DEF IInv, Respuestas
<1>2. QED
  BY Invariante, <1>1, PTL

\* Only a decision really stored is notified.
THEOREM AvisosCorrectos == Spec => []AvisosDeDecisiones
<1>1. IInv => AvisosDeDecisiones
  BY DEF IInv, Respuestas
<1>2. QED
  BY Invariante, <1>1, PTL

\* Nothing but a manual change that read the very decision replaces it.
LEMMA PasoDecision ==
    ASSUME IInv, [Next]_vars, NEW q \in Cotizaciones,
           cot[q].estadoOrigen = "magic_link", cot'[q].estado # cot[q].estado
    PROVE  \E p \in Peticiones :
             /\ pet[p].fase = "aplicar" /\ pet'[p] # pet[p]
             /\ pet[p].q = q /\ pet[p].leido = cot[q].estado
             /\ cot'[q].actor = pet[p].actor
<1>1. cot[q] \in Documento /\ Coherente(cot[q]) /\ cot[q].estado # "vigente"
  BY DEF IInv, TypeOK, DocsCoherentes, Coherente, Decisiones
<1>2. cot' # cot /\ cot'[q] # cot[q]
  OBVIOUS
<1>3. ASSUME NEW p \in Peticiones, AplicarManual(p)
      PROVE  /\ pet[p].fase = "aplicar" /\ pet'[p] # pet[p]
             /\ pet[p].q = q /\ pet[p].leido = cot[q].estado
             /\ cot'[q].actor = pet[p].actor
  <2> DEFINE s == pet[p]
             d == DocManual(cot[s.q], s.nuevo, s.actor, s.t, s.fecha)
  <2>1. /\ s.fase = "aplicar" /\ s.q \in Cotizaciones
        /\ FiltroManual(cot[s.q], s.leido)
        /\ cot' = [cot EXCEPT ![s.q] = d]
        /\ Pasar(p, IF s.resto = Nulo THEN Libre
                    ELSE [fase |-> "resto", q |-> s.q, resto |-> s.resto])
    BY <1>2, <1>3, FasesTipo DEF AplicarManual, IInv, TypeOK
  <2>2. cot'[s.q] = d /\ \A q2 \in Cotizaciones \ {s.q} : cot'[q2] = cot[q2]
    BY <2>1 DEF IInv, TypeOK
  <2>3. s.q = q
    BY <1>2, <2>2
  <2>4. d.actor = s.actor
    BY <1>1, <2>3 DEF DocManual, Documento
  <2>5. pet'[p].fase # "aplicar"
    BY <2>1 DEF Pasar, Libre, IInv, TypeOK
  <2>6. QED
    BY <2>1, <2>2, <2>3, <2>4, <2>5 DEF FiltroManual
<1>4. ASSUME NEW p \in Peticiones, EscribirResto(p)
      PROVE  FALSE
  <2>1. pet[p].q \in Cotizaciones /\ pet[p].resto \in Nat
    BY <1>4, FasesTipo DEF EscribirResto, IInv, TypeOK
  <2>2. [cot[pet[p].q] EXCEPT !.fechaVencimiento = pet[p].resto].estado
          = cot[pet[p].q].estado
    BY <2>1, RestoCoherente DEF IInv, TypeOK, DocsCoherentes
  <2>3. QED
    BY <1>4, <2>1, <2>2 DEF EscribirResto, IInv, TypeOK
<1>5. ASSUME NEW p \in Peticiones, AplicarRespuesta(p)
      PROVE  FALSE
  BY <1>1, <1>2, <1>5 DEF AplicarRespuesta, FiltroRespuesta, IInv, TypeOK
<1>6. ASSUME NEW b \in Barridos, NEW q2 \in Cotizaciones, BarrerDocumento(b, q2)
      PROVE  FALSE
  BY <1>1, <1>2, <1>6 DEF BarrerDocumento, FiltroBarrido, IInv, TypeOK
<1>7. \A p \in Peticiones : ~CambiarEstado(p) /\ ~Actualizar(p) /\ ~ResponderEnlace(p)
  BY <1>2 DEF CambiarEstado, Actualizar, ResponderEnlace
<1>8. \A p \in Peticiones : ~LeerManual(p) /\ ~PrepararManual(p)
                           /\ ~ReleerRespuesta(p) /\ ~Avisar(p) /\ ~Cerrar(p)
  BY <1>2 DEF LeerManual, PrepararManual, ReleerRespuesta, Avisar, Cerrar
<1>9. ~Tick /\ ~(UNCHANGED vars) /\ \A b \in Barridos : ~IniciarBarrido(b)
  BY <1>2 DEF Tick, vars, IniciarBarrido
<1>10. PICK p \in Peticiones : AplicarManual(p)
  BY <1>4, <1>5, <1>6, <1>7, <1>8, <1>9 DEF Next, Continuar
<1>11. QED
  BY <1>3, <1>10

\* No sweep, answer or request that read an older state overwrites a decision
\* of the customer.
THEOREM DecisionesNoPerdidas == Spec => DecisionNoPerdida
<1>1. ASSUME IInv, [Next]_vars
      PROVE  [\A q \in Cotizaciones :
                cot[q].estadoOrigen = "magic_link" /\ cot'[q].estado # cot[q].estado =>
                  \E p \in Peticiones :
                    /\ pet[p].fase = "aplicar" /\ pet'[p] # pet[p]
                    /\ pet[p].q = q /\ pet[p].leido = cot[q].estado
                    /\ cot'[q].actor = pet[p].actor]_vars
  BY <1>1, PasoDecision
<1>2. QED
  BY Invariante, <1>1, PTL DEF Spec, DecisionNoPerdida

-----------------------------------------------------------------------------
(***************************************************************************)
(* Part 2: the documents implement CicloCotizacion                         *)
(***************************************************************************)

(* What the refinement needs beyond IInv *)

\* A quotation that expires has a date to expire at.
ConFecha ==
    \A q \in Cotizaciones : cot[q].sinVigencia \/ cot[q].fechaVencimiento # Nulo

\* The instants that handlers hold are not in the future.
InstantesPasados ==
    /\ \A p \in Peticiones :
         pet[p].fase \in {"aplicar", "responder"} => pet[p].t <= ahora
    /\ \A b \in Barridos :
         barrido[b].pendientes # {} => barrido[b].t \in Nat /\ barrido[b].t <= ahora

\* A manual change that was let through changes the state, and knows the date
\* when it reopens the quotation.
CambioReal ==
    \A p \in Peticiones :
        /\ pet[p].fase \in {"preparar", "aplicar"} => pet[p].leido # pet[p].nuevo
        /\ pet[p].fase = "aplicar" /\ pet[p].nuevo = "vigente" => pet[p].fecha # Nulo

RInv == IInv /\ ConFecha /\ InstantesPasados /\ CambioReal

LEMMA InicioRInv == Init => RInv
<1> SUFFICES ASSUME Init PROVE RInv
  OBVIOUS
<1>1. ASSUME NEW q \in Cotizaciones
      PROVE  cot[q].sinVigencia \/ cot[q].fechaVencimiento # Nulo
  <2>1. PICK sv \in BOOLEAN, f \in FechasDto, tk \in Tokens \cup {Nulo} :
          cot[q] = IF tk = Nulo THEN Creada(sv, f, 0)
                   ELSE ConEnlace(Creada(sv, f, 0), tk,
                                  ResolveMagicExpiresAt(Creada(sv, f, 0)))
    BY DEF Init
  <2>2. f # Nulo
    BY ConstantesAssumption DEF ConstantesAssumption
  <2> DEFINE d == Creada(sv, f, 0)
  <2>3. d.sinVigencia = sv /\ d.fechaVencimiento = IF sv THEN Nulo ELSE f
    BY DEF Creada
  <2>4. \A x : /\ ConEnlace(d, tk, x).sinVigencia = d.sinVigencia
               /\ ConEnlace(d, tk, x).fechaVencimiento = d.fechaVencimiento
    BY DEF ConEnlace, Creada
  <2> HIDE DEF d
  <2>5. QED
    BY <2>1, <2>2, <2>3, <2>4 DEF d
<1>2. \A p \in Peticiones : pet[p].fase = "libre"
  BY DEF Init, Libre
<1>3. \A b \in Barridos : barrido[b].pendientes = {}
  BY DEF Init, SinBarrido
<1>4. QED
  BY <1>1, <1>2, <1>3, InicioIInv DEF RInv, ConFecha, InstantesPasados, CambioReal

\* What the slot of a request must satisfy for RInv.
Sano(r) ==
    /\ r.fase \in {"aplicar", "responder"} => r.t <= ahora
    /\ r.fase \in {"preparar", "aplicar"} => r.leido # r.nuevo
    /\ r.fase = "aplicar" /\ r.nuevo = "vigente" => r.fecha # Nulo

\* A step of one request.
LEMMA PasoPeticion ==
    ASSUME RInv, IInv', NEW p \in Peticiones, NEW r \in Peticion, Pasar(p, r), Sano(r),
           ahora' = ahora, barrido' = barrido, ConFecha'
    PROVE  RInv'
<1>1. /\ pet'[p] = r
      /\ \A o \in Peticiones \ {p} : pet'[o] = pet[o]
  BY PasarTipo DEF RInv, IInv
<1>2. InstantesPasados'
  BY <1>1 DEF RInv, InstantesPasados, Sano
<1>3. CambioReal'
  BY <1>1 DEF RInv, CambioReal, Sano
<1>4. QED
  BY <1>2, <1>3 DEF RInv

\* A step of one request that reads only.
LEMMA PasoLectura ==
    ASSUME RInv, IInv', NEW p \in Peticiones, NEW r \in Peticion, Pasar(p, r), Sano(r),
           UNCHANGED <<ahora, cot, barrido>>
    PROVE  RInv'
<1>1. ConFecha'
  BY DEF RInv, ConFecha
<1>2. QED
  BY <1>1, PasoPeticion

LEMMA LibreSano == Libre \in Peticion /\ Sano(Libre)
BY LibreTipo DEF Sano

LEMMA PrepararManualRInv ==
    ASSUME RInv, NEW p \in Peticiones, PrepararManual(p) PROVE RInv'
<1> DEFINE s == pet[p]
           r(f) == [fase |-> "aplicar", q |-> s.q, actor |-> s.actor,
                    nuevo |-> s.nuevo, fecha |-> f, resto |-> s.resto,
                    leido |-> s.leido, t |-> ahora]
<1>0. IInv'
  BY PrepararManualIInv DEF RInv
<1>1. /\ s.q \in Cotizaciones /\ s.actor \in Usuarios /\ s.nuevo \in Estados
      /\ s.fecha \in Fecha /\ s.resto \in Fecha /\ s.leido \in Estados
      /\ ahora \in Nat /\ s.leido # s.nuevo
  BY FasesTipo DEF PrepararManual, RInv, IInv, TypeOK, CambioReal
<1>3. \A f \in Fecha : r(f) \in Peticion
  BY <1>1 DEF Peticion
<1>4. \A f \in FechasVigente(s.fecha, ahora) : f \in Fecha /\ f # Nulo
  BY <1>1, ConstantesAssumption DEF ConstantesAssumption, FechasVigente, Fecha
<1>5. \/ Pasar(p, Libre)
      \/ \E f \in Fecha : (s.nuevo = "vigente" => f # Nulo) /\ Pasar(p, r(f))
  BY <1>1, <1>4 DEF PrepararManual
<1>6. UNCHANGED <<ahora, cot, barrido>>
  BY DEF PrepararManual
<1>7. \A f \in Fecha : (s.nuevo = "vigente" => f # Nulo) => Sano(r(f))
  BY <1>1 DEF Sano
<1> HIDE DEF r, s
<1>8. CASE Pasar(p, Libre)
  BY <1>0, <1>6, <1>8, LibreSano, PasoLectura
<1>9. CASE \E f \in Fecha : (s.nuevo = "vigente" => f # Nulo) /\ Pasar(p, r(f))
  <2>1. PICK f \in Fecha : (s.nuevo = "vigente" => f # Nulo) /\ Pasar(p, r(f))
    BY <1>9
  <2>2. QED
    BY <1>0, <1>3, <1>6, <1>7, <2>1, PasoLectura
<1>10. QED
  BY <1>5, <1>8, <1>9

LEMMA LeerManualRInv ==
    ASSUME RInv, NEW p \in Peticiones, LeerManual(p) PROVE RInv'
<1> DEFINE s == pet[p]
           r == [fase |-> "preparar", q |-> s.q, actor |-> s.actor,
                 nuevo |-> s.nuevo, fecha |-> s.fecha, resto |-> s.resto,
                 leido |-> cot[s.q].estado]
<1>0. IInv' /\ UNCHANGED <<ahora, cot, barrido>>
  BY LeerManualIInv DEF RInv, LeerManual
<1>1. /\ s.q \in Cotizaciones /\ s.actor \in Usuarios /\ s.nuevo \in Estados
      /\ s.fecha \in Fecha /\ s.resto \in Fecha
  BY FasesTipo DEF LeerManual, RInv, IInv, TypeOK
<1>2. cot[s.q].estado \in Estados
  BY <1>1 DEF RInv, IInv, TypeOK, Documento
<1>3. r \in Peticion
  BY <1>1, <1>2 DEF Peticion
<1>4. Pasar(p, Libre) \/ (cot[s.q].estado # s.nuevo /\ Pasar(p, r))
  BY DEF LeerManual
<1>5. cot[s.q].estado # s.nuevo => Sano(r)
  BY DEF Sano
<1> HIDE DEF r, s
<1>6. QED
  BY <1>0, <1>3, <1>4, <1>5, LibreSano, PasoLectura

\* Requests that start, re-read or end hold nothing that Sano speaks of, or an
\* instant just read.
LEMMA InicioRespuestaRInv ==
    ASSUME RInv, NEW p \in Peticiones,
           CambiarEstado(p) \/ Actualizar(p) \/ ResponderEnlace(p)
           \/ ReleerRespuesta(p) \/ Avisar(p) \/ Cerrar(p)
    PROVE  RInv'
<1>1. IInv'
  BY CambiarEstadoIInv, ActualizarIInv, ResponderEnlaceIInv, ContinuarIInv
     DEF RInv, Continuar
<1>2. pet' \in [Peticiones -> Peticion]
  BY <1>1 DEF IInv, TypeOK
<1>3. UNCHANGED <<ahora, cot, barrido>>
  BY DEF CambiarEstado, Actualizar, ResponderEnlace, ReleerRespuesta, Avisar, Cerrar
<1>4. pet \in [Peticiones -> Peticion] /\ ahora \in Nat
  BY DEF RInv, IInv, TypeOK
<1>5. ASSUME NEW r, Pasar(p, r), Sano(r)
      PROVE  RInv'
  <2>1. r \in Peticion
    BY <1>2, <1>4, <1>5 DEF Pasar
  <2>2. QED
    BY <1>1, <1>3, <1>5, <2>1, PasoLectura
<1>6. CASE CambiarEstado(p)
  <2>1. PICK q, u, e, f : Pasar(p, [fase |-> "leer", q |-> q, actor |-> u, nuevo |-> e,
                                    fecha |-> f, resto |-> Nulo])
    BY <1>6 DEF CambiarEstado
  <2>2. Sano([fase |-> "leer", q |-> q, actor |-> u, nuevo |-> e,
              fecha |-> f, resto |-> Nulo])
    BY DEF Sano
  <2>3. QED
    BY <1>5, <2>1, <2>2
<1>7. CASE Actualizar(p)
  <2>1. PICK q, u, e, f, x :
          \/ Pasar(p, [fase |-> "leer", q |-> q, actor |-> u, nuevo |-> e,
                       fecha |-> f, resto |-> x])
          \/ Pasar(p, [fase |-> "resto", q |-> q, resto |-> f])
    BY <1>7 DEF Actualizar
  <2>2. /\ Sano([fase |-> "leer", q |-> q, actor |-> u, nuevo |-> e,
                 fecha |-> f, resto |-> x])
        /\ Sano([fase |-> "resto", q |-> q, resto |-> f])
    BY DEF Sano
  <2>3. QED
    BY <1>5, <2>1, <2>2
<1>8. CASE ResponderEnlace(p)
  <2>1. PICK q, e : \/ \E res : Terminar(p, q, e, res)
                    \/ Pasar(p, [fase |-> "responder", token |-> cot[q].magicToken,
                                 nuevo |-> e, t |-> ahora])
    BY <1>8 DEF ResponderEnlace
  <2>2. Sano([fase |-> "responder", token |-> cot[q].magicToken, nuevo |-> e,
              t |-> ahora])
    BY <1>4 DEF Sano
  <2>3. \A res : Sano([fase |-> "fin", q |-> q, nuevo |-> e, epoca |-> epoca[q],
                      res |-> res])
    BY DEF Sano
  <2>4. QED
    BY <1>5, <2>1, <2>2, <2>3 DEF Terminar
<1>9. CASE ReleerRespuesta(p)
  <2>1. PICK q, e, res : Pasar(p, Libre) \/ Terminar(p, q, e, res)
    BY <1>9 DEF ReleerRespuesta
  <2>2. Sano([fase |-> "fin", q |-> q, nuevo |-> e, epoca |-> epoca[q], res |-> res])
    BY DEF Sano
  <2>3. QED
    BY <1>5, <2>1, <2>2, LibreSano DEF Terminar
<1>10. CASE Avisar(p)
  <2>1. PICK q, e, n : Pasar(p, [fase |-> "fin", q |-> q, nuevo |-> e, epoca |-> n,
                                 res |-> "ok"])
    BY <1>10 DEF Avisar
  <2>2. Sano([fase |-> "fin", q |-> q, nuevo |-> e, epoca |-> n, res |-> "ok"])
    BY DEF Sano
  <2>3. QED
    BY <1>5, <2>1, <2>2
<1>11. CASE Cerrar(p)
  BY <1>5, <1>11, LibreSano DEF Cerrar
<1>12. QED
  BY <1>6, <1>7, <1>8, <1>9, <1>10, <1>11

-----------------------------------------------------------------------------
(* The mapping *)

VenceDe(d) == IF d.sinVigencia THEN Nulo ELSE d.fechaVencimiento

DecididaDe(d) == IF d.fechaAceptacion # Nulo THEN d.fechaAceptacion ELSE d.fechaRechazo

EstadoM == [q \in Cotizaciones |-> cot[q].estado]
OrigenM == [q \in Cotizaciones |-> cot[q].estadoOrigen]
VenceM == [q \in Cotizaciones |-> VenceDe(cot[q])]
DecididaM == [q \in Cotizaciones |-> DecididaDe(cot[q])]

\* Two functions that differ at one point only.
LEMMA UnPunto ==
    ASSUME NEW C, NEW q \in C, NEW F, NEW G, NEW v,
           F = [x \in C |-> F[x]], G = [x \in C |-> G[x]],
           G[q] = v, \A x \in C \ {q} : G[x] = F[x]
    PROVE  G = [F EXCEPT ![q] = v]
OBVIOUS

\* Writing one document changes the mapped variables at that quotation only.
LEMMA MapaEscritura ==
    ASSUME TypeOK, NEW q \in Cotizaciones, NEW d \in Documento,
           cot' = [cot EXCEPT ![q] = d]
    PROVE  /\ EstadoM' = [EstadoM EXCEPT ![q] = d.estado]
           /\ OrigenM' = [OrigenM EXCEPT ![q] = d.estadoOrigen]
           /\ VenceM' = [VenceM EXCEPT ![q] = VenceDe(d)]
           /\ DecididaM' = [DecididaM EXCEPT ![q] = DecididaDe(d)]
<1>1. /\ cot'[q] = d /\ \A x \in Cotizaciones \ {q} : cot'[x] = cot[x]
  BY DEF TypeOK
<1>2. /\ EstadoM = [x \in Cotizaciones |-> EstadoM[x]]
      /\ EstadoM' = [x \in Cotizaciones |-> EstadoM'[x]]
      /\ EstadoM'[q] = d.estado
      /\ \A x \in Cotizaciones \ {q} : EstadoM'[x] = EstadoM[x]
  BY <1>1 DEF EstadoM
<1>3. /\ OrigenM = [x \in Cotizaciones |-> OrigenM[x]]
      /\ OrigenM' = [x \in Cotizaciones |-> OrigenM'[x]]
      /\ OrigenM'[q] = d.estadoOrigen
      /\ \A x \in Cotizaciones \ {q} : OrigenM'[x] = OrigenM[x]
  BY <1>1 DEF OrigenM
<1>4. /\ VenceM = [x \in Cotizaciones |-> VenceM[x]]
      /\ VenceM' = [x \in Cotizaciones |-> VenceM'[x]]
      /\ VenceM'[q] = VenceDe(d)
      /\ \A x \in Cotizaciones \ {q} : VenceM'[x] = VenceM[x]
  BY <1>1 DEF VenceM, VenceDe
<1>5. /\ DecididaM = [x \in Cotizaciones |-> DecididaM[x]]
      /\ DecididaM' = [x \in Cotizaciones |-> DecididaM'[x]]
      /\ DecididaM'[q] = DecididaDe(d)
      /\ \A x \in Cotizaciones \ {q} : DecididaM'[x] = DecididaM[x]
  BY <1>1 DEF DecididaM, DecididaDe
<1>6. QED
  BY <1>2, <1>3, <1>4, <1>5, UnPunto

\* A step that leaves clock and documents alone is a stutter of the life cycle.
LEMMA MapaQuieto ==
    ASSUME UNCHANGED <<ahora, cot>>
    PROVE  UNCHANGED Ciclo!vars
BY DEF Ciclo!vars

LEMMA MapaIgual ==
    ASSUME EstadoM' = EstadoM, OrigenM' = OrigenM, VenceM' = VenceM,
           DecididaM' = DecididaM, ahora' = ahora
    PROVE  UNCHANGED Ciclo!vars
BY DEF Ciclo!vars, EstadoM, OrigenM, VenceM, DecididaM, VenceDe, DecididaDe

\* The abstract actions in the terms of the mapping.
LEMMA MapaCambiaUsuario ==
    ASSUME NEW q \in Cotizaciones, NEW e \in Estados, e # EstadoM[q],
           EstadoM' = [EstadoM EXCEPT ![q] = e],
           OrigenM' = [OrigenM EXCEPT ![q] = "usuario"],
           \/ e \in Decisiones /\ \E t \in 0..ahora :
                DecididaM' = [DecididaM EXCEPT ![q] = t]
           \/ e \notin Decisiones /\ DecididaM' = [DecididaM EXCEPT ![q] = Nulo],
           \/ VenceM' = VenceM
           \/ /\ e = "vigente" /\ VenceM[q] # Nulo /\ VenceM'[q] \in Nat
              /\ VenceM' = [VenceM EXCEPT ![q] = VenceM'[q]],
           ahora' = ahora
    PROVE  Ciclo!CambiaUsuario(q)
BY DEF Ciclo!CambiaUsuario, Ciclo!Decisiones, Estados, Decisiones,
       EstadoM, OrigenM, VenceM, DecididaM, VenceDe, DecididaDe

LEMMA MapaRespondeCliente ==
    ASSUME NEW q \in Cotizaciones, NEW e \in Decisiones, NEW t \in 0..ahora,
           EstadoM[q] = "vigente", VenceM[q] = Nulo \/ t <= VenceM[q],
           EstadoM' = [EstadoM EXCEPT ![q] = e],
           OrigenM' = [OrigenM EXCEPT ![q] = "magic_link"],
           DecididaM' = [DecididaM EXCEPT ![q] = t],
           VenceM' = VenceM, ahora' = ahora
    PROVE  Ciclo!RespondeCliente(q)
BY DEF Ciclo!RespondeCliente, Ciclo!Decisiones, Decisiones,
       EstadoM, OrigenM, VenceM, DecididaM, VenceDe, DecididaDe

LEMMA MapaVence ==
    ASSUME NEW q \in Cotizaciones, EstadoM[q] = "vigente",
           VenceM[q] # Nulo, VenceM[q] < ahora,
           EstadoM' = [EstadoM EXCEPT ![q] = "vencida"],
           OrigenM' = [OrigenM EXCEPT ![q] = "cron"],
           DecididaM' = DecididaM, VenceM' = VenceM, ahora' = ahora
    PROVE  Ciclo!Vence(q)
BY DEF Ciclo!Vence, EstadoM, OrigenM, VenceM, DecididaM, VenceDe, DecididaDe

LEMMA MapaCorrigeFecha ==
    ASSUME NEW q \in Cotizaciones, VenceM[q] # Nulo, VenceM'[q] \in Nat,
           VenceM' = [VenceM EXCEPT ![q] = VenceM'[q]],
           EstadoM' = EstadoM, OrigenM' = OrigenM, DecididaM' = DecididaM,
           ahora' = ahora
    PROVE  Ciclo!CorrigeFecha(q)
BY DEF Ciclo!CorrigeFecha, EstadoM, OrigenM, VenceM, DecididaM, VenceDe, DecididaDe

-----------------------------------------------------------------------------
(* The fields that each write leaves *)

LEMMA CamposManual ==
    ASSUME NEW d \in Documento, NEW e \in Estados, NEW u \in Usuarios,
           NEW t \in Nat, NEW f \in Fecha
    PROVE  LET m == DocManual(d, e, u, t, f) IN
           /\ m.estado = e /\ m.estadoOrigen = "usuario"
           /\ m.sinVigencia = d.sinVigencia
           /\ m.fechaVencimiento = IF e = "vigente" THEN f ELSE d.fechaVencimiento
           /\ DecididaDe(m) = IF e \in Decisiones THEN t ELSE Nulo
<1> DEFINE a == IF e = "aceptada" THEN t ELSE Nulo
           r == IF e = "rechazada" THEN t ELSE Nulo
           v == IF e = "vigente" THEN f ELSE d.fechaVencimiento
           m == [d EXCEPT !.estado = e, !.estadoOrigen = "usuario", !.actor = u,
                          !.fechaAceptacion = a, !.fechaRechazo = r,
                          !.fechaVencimiento = v]
<1>1. m = DocManual(d, e, u, t, f)
  BY DEF DocManual
<1>2. (IF a # Nulo THEN a ELSE r) = IF e \in Decisiones THEN t ELSE Nulo
  BY NuloAparte DEF Decisiones
<1> HIDE DEF a, r, v
<1>3. /\ m.estado = e /\ m.estadoOrigen = "usuario"
      /\ m.fechaAceptacion = a /\ m.fechaRechazo = r
      /\ m.sinVigencia = d.sinVigencia /\ m.fechaVencimiento = v
  BY DEF Documento
<1> HIDE DEF m
<1>4. QED
  BY <1>1, <1>2, <1>3 DEF DecididaDe, v

LEMMA CamposRespuesta ==
    ASSUME NEW d \in Documento, Coherente(d), d.estado = "vigente",
           NEW e \in Decisiones, NEW t \in Nat
    PROVE  LET m == DocRespondido(d, e, t) IN
           /\ m.estado = e /\ m.estadoOrigen = "magic_link"
           /\ VenceDe(m) = VenceDe(d) /\ DecididaDe(m) = t
           /\ m.sinVigencia = d.sinVigencia
           /\ m.fechaVencimiento = d.fechaVencimiento
<1> DEFINE a == IF e = "aceptada" THEN t ELSE d.fechaAceptacion
           r == IF e = "rechazada" THEN t ELSE d.fechaRechazo
           m == [d EXCEPT !.estado = e, !.estadoOrigen = "magic_link",
                          !.actor = Nulo,
                          !.fechaAceptacion = a, !.fechaRechazo = r]
<1>1. m = DocRespondido(d, e, t)
  BY DEF DocRespondido
<1>2. (IF a # Nulo THEN a ELSE r) = t
  BY NuloAparte DEF Decisiones, Coherente
<1> HIDE DEF a, r
<1>3. /\ m.estado = e /\ m.estadoOrigen = "magic_link"
      /\ m.fechaAceptacion = a /\ m.fechaRechazo = r
      /\ m.sinVigencia = d.sinVigencia /\ m.fechaVencimiento = d.fechaVencimiento
  BY DEF Documento
<1> HIDE DEF m
<1>4. QED
  BY <1>1, <1>2, <1>3 DEF DecididaDe, VenceDe

LEMMA CamposVencido ==
    ASSUME NEW d \in Documento
    PROVE  LET m == DocVencido(d) IN
           /\ m.estado = "vencida" /\ m.estadoOrigen = "cron"
           /\ VenceDe(m) = VenceDe(d) /\ DecididaDe(m) = DecididaDe(d)
           /\ m.sinVigencia = d.sinVigencia
           /\ m.fechaVencimiento = d.fechaVencimiento
BY DEF DocVencido, Documento, DecididaDe, VenceDe

LEMMA CamposResto ==
    ASSUME NEW d \in Documento, NEW f \in Nat
    PROVE  LET m == [d EXCEPT !.fechaVencimiento = f] IN
           /\ m.estado = d.estado /\ m.estadoOrigen = d.estadoOrigen
           /\ DecididaDe(m) = DecididaDe(d) /\ m.sinVigencia = d.sinVigencia
           /\ m.fechaVencimiento = f
BY DEF Documento, DecididaDe

\* Writing a value that was already there.
LEMMA MismoValor ==
    ASSUME NEW q \in Cotizaciones
    PROVE  /\ [EstadoM EXCEPT ![q] = EstadoM[q]] = EstadoM
           /\ [OrigenM EXCEPT ![q] = OrigenM[q]] = OrigenM
           /\ [VenceM EXCEPT ![q] = VenceM[q]] = VenceM
           /\ [DecididaM EXCEPT ![q] = DecididaM[q]] = DecididaM
           /\ EstadoM[q] = cot[q].estado /\ OrigenM[q] = cot[q].estadoOrigen
           /\ VenceM[q] = VenceDe(cot[q]) /\ DecididaM[q] = DecididaDe(cot[q])
           /\ \A v : VenceM' = [VenceM EXCEPT ![q] = v] => VenceM'[q] = v
BY DEF EstadoM, OrigenM, VenceM, DecididaM

-----------------------------------------------------------------------------
(* The writes *)

\* An applied manual change is CambiaUsuario.
LEMMA ManualCiclo ==
    ASSUME RInv, NEW q \in Cotizaciones, NEW e \in Estados, NEW u \in Usuarios,
           NEW t \in Nat, t <= ahora, NEW f \in Fecha, e = "vigente" => f # Nulo,
           cot[q].estado # e, ahora' = ahora,
           cot' = [cot EXCEPT ![q] = DocManual(cot[q], e, u, t, f)]
    PROVE  ConFecha' /\ Ciclo!CambiaUsuario(q)
<1> DEFINE d == DocManual(cot[q], e, u, t, f)
<1>1. cot[q] \in Documento /\ TypeOK /\ t \in 0..ahora
  BY DEF RInv, IInv, TypeOK
<1>2. /\ d \in Documento /\ d.estado = e /\ d.estadoOrigen = "usuario"
      /\ d.sinVigencia = cot[q].sinVigencia
      /\ d.fechaVencimiento = IF e = "vigente" THEN f ELSE cot[q].fechaVencimiento
      /\ DecididaDe(d) = IF e \in Decisiones THEN t ELSE Nulo
  BY <1>1, CamposManual, ManualCoherente
<1>3. cot' = [cot EXCEPT ![q] = d]
  OBVIOUS
<1> HIDE DEF d
<1>4. d.sinVigencia \/ d.fechaVencimiento # Nulo
  BY <1>2 DEF RInv, ConFecha
<1>5. ConFecha'
  BY <1>1, <1>3, <1>4 DEF RInv, ConFecha, TypeOK
<1>6. /\ EstadoM' = [EstadoM EXCEPT ![q] = e]
      /\ OrigenM' = [OrigenM EXCEPT ![q] = "usuario"]
      /\ VenceM' = [VenceM EXCEPT ![q] = VenceDe(d)]
      /\ DecididaM' = [DecididaM EXCEPT ![q] = DecididaDe(d)]
  <2>1. TypeOK /\ d \in Documento
    BY <1>1, <1>2
  <2>2. /\ EstadoM' = [EstadoM EXCEPT ![q] = d.estado]
        /\ OrigenM' = [OrigenM EXCEPT ![q] = d.estadoOrigen]
        /\ VenceM' = [VenceM EXCEPT ![q] = VenceDe(d)]
        /\ DecididaM' = [DecididaM EXCEPT ![q] = DecididaDe(d)]
    BY <1>3, <2>1, MapaEscritura
  <2>3. QED
    BY <1>2, <2>2
<1>7. e # EstadoM[q]
  BY MismoValor
<1>8. \/ e \in Decisiones /\ \E x \in 0..ahora : DecididaM' = [DecididaM EXCEPT ![q] = x]
      \/ e \notin Decisiones /\ DecididaM' = [DecididaM EXCEPT ![q] = Nulo]
  BY <1>1, <1>2, <1>6
<1>9. \/ VenceM' = VenceM
      \/ /\ e = "vigente" /\ VenceM[q] # Nulo /\ VenceM'[q] \in Nat
         /\ VenceM' = [VenceM EXCEPT ![q] = VenceM'[q]]
  <2>1. VenceM'[q] = VenceDe(d)
    BY <1>6, MismoValor
  <2>2. CASE e = "vigente" /\ ~cot[q].sinVigencia
    <3>1. VenceDe(d) = f /\ f \in Nat
      BY <1>2, <2>2 DEF VenceDe, Fecha
    <3>2. VenceM[q] # Nulo
      BY <2>2, MismoValor DEF VenceDe, RInv, ConFecha
    <3>3. QED
      BY <1>6, <2>1, <2>2, <3>1, <3>2
  <2>3. CASE e # "vigente" \/ cot[q].sinVigencia
    <3>1. VenceDe(d) = VenceM[q]
      BY <1>2, <2>3, MismoValor DEF VenceDe
    <3>2. QED
      BY <1>6, <3>1, MismoValor
  <2>4. QED
    BY <2>2, <2>3
<1>10. Ciclo!CambiaUsuario(q)
  BY <1>6, <1>2, <1>7, <1>8, <1>9, MapaCambiaUsuario
<1>11. QED
  BY <1>5, <1>10

LEMMA AplicarManualCiclo ==
    ASSUME RInv, NEW p \in Peticiones, AplicarManual(p)
    PROVE  RInv' /\ [Ciclo!Next]_(Ciclo!vars)
<1> DEFINE s == pet[p]
           r == IF s.resto = Nulo THEN Libre
                ELSE [fase |-> "resto", q |-> s.q, resto |-> s.resto]
<1>1. /\ s.q \in Cotizaciones /\ s.actor \in Usuarios /\ s.nuevo \in Estados
      /\ s.fecha \in Fecha /\ s.resto \in Fecha /\ s.t \in Nat
      /\ s.t <= ahora /\ s.leido # s.nuevo /\ (s.nuevo = "vigente" => s.fecha # Nulo)
  BY FasesTipo DEF AplicarManual, RInv, IInv, TypeOK, InstantesPasados, CambioReal
<1>2. IInv'
  BY ContinuarIInv DEF RInv, Continuar
<1>3. r \in Peticion /\ Sano(r)
  BY <1>1, LibreSano DEF Peticion, Fecha, Sano
<1>4. ahora' = ahora /\ barrido' = barrido
  BY DEF AplicarManual
<1>5. CASE FiltroManual(cot[s.q], s.leido)
  <2>1. PICK q \in Cotizaciones, e \in Estados, u \in Usuarios, t \in Nat, f \in Fecha :
          /\ q = s.q /\ e = s.nuevo /\ u = s.actor /\ t = s.t /\ f = s.fecha
    BY <1>1
  <2>2. /\ cot' = [cot EXCEPT ![q] = DocManual(cot[q], e, u, t, f)] /\ Pasar(p, r)
        /\ cot[q].estado # e
    BY <1>1, <1>5, <2>1 DEF AplicarManual, FiltroManual
  <2>3. ConFecha' /\ Ciclo!CambiaUsuario(q)
    BY <1>1, <1>4, <2>1, <2>2, ManualCiclo
  <2>4. Ciclo!Next
    BY <2>3 DEF Ciclo!Next
  <2> HIDE DEF r
  <2>5. RInv'
    BY <1>2, <1>3, <1>4, <2>2, <2>3, PasoPeticion
  <2>6. QED
    BY <2>4, <2>5
<1>6. CASE ~FiltroManual(cot[s.q], s.leido)
  <2>1. Pasar(p, Libre) /\ UNCHANGED <<ahora, cot, barrido>>
    BY <1>6 DEF AplicarManual
  <2>2. QED
    BY <1>2, <2>1, LibreSano, PasoLectura, MapaQuieto
<1>7. QED
  BY <1>5, <1>6

\* Correcting the date moves the expiry of the life cycle, or nothing when the
\* quotation never expires.
LEMMA RestoCiclo ==
    ASSUME RInv, NEW q \in Cotizaciones, NEW f \in Nat, ahora' = ahora,
           cot' = [cot EXCEPT ![q].fechaVencimiento = f]
    PROVE  ConFecha' /\ [Ciclo!Next]_(Ciclo!vars)
<1> DEFINE d == [cot[q] EXCEPT !.fechaVencimiento = f]
<1>1. TypeOK /\ cot[q] \in Documento /\ f # Nulo
  BY NuloAparte DEF RInv, IInv, TypeOK
<1>2. /\ d.estado = cot[q].estado /\ d.estadoOrigen = cot[q].estadoOrigen
      /\ DecididaDe(d) = DecididaDe(cot[q]) /\ d.sinVigencia = cot[q].sinVigencia
      /\ d.fechaVencimiento = f
  BY <1>1, CamposResto
<1>3. d \in Documento
  BY <1>1 DEF Documento, Fecha
<1>4. cot' = [cot EXCEPT ![q] = d]
  OBVIOUS
<1> HIDE DEF d
<1>5. ConFecha'
  BY <1>1, <1>2, <1>4 DEF RInv, ConFecha, TypeOK
<1>6. /\ EstadoM' = [EstadoM EXCEPT ![q] = d.estado]
      /\ OrigenM' = [OrigenM EXCEPT ![q] = d.estadoOrigen]
      /\ VenceM' = [VenceM EXCEPT ![q] = VenceDe(d)]
      /\ DecididaM' = [DecididaM EXCEPT ![q] = DecididaDe(d)]
  BY <1>1, <1>3, <1>4, MapaEscritura
<1>7. EstadoM' = EstadoM /\ OrigenM' = OrigenM /\ DecididaM' = DecididaM
  BY <1>2, <1>6, MismoValor
<1>8. VenceM'[q] = VenceDe(d)
  BY <1>6, MismoValor
<1>9. CASE cot[q].sinVigencia
  <2>1. VenceM' = VenceM
    BY <1>2, <1>6, <1>9, MismoValor DEF VenceDe
  <2>2. QED
    BY <1>5, <1>7, <2>1, MapaIgual
<1>10. CASE ~cot[q].sinVigencia
  <2>1. VenceM[q] # Nulo /\ VenceDe(d) = f
    BY <1>2, <1>10, MismoValor DEF VenceDe, RInv, ConFecha
  <2>2. Ciclo!CorrigeFecha(q)
    BY <1>6, <1>7, <1>8, <2>1, MapaCorrigeFecha
  <2>3. QED
    BY <1>5, <2>2 DEF Ciclo!Next
<1>11. QED
  BY <1>9, <1>10

LEMMA EscribirRestoCiclo ==
    ASSUME RInv, NEW p \in Peticiones, EscribirResto(p)
    PROVE  RInv' /\ [Ciclo!Next]_(Ciclo!vars)
<1>1. pet[p].q \in Cotizaciones /\ pet[p].resto \in Nat
  BY FasesTipo DEF EscribirResto, RInv, IInv, TypeOK
<1>2. IInv'
  BY ContinuarIInv DEF RInv, Continuar
<1>3. PICK q \in Cotizaciones, f \in Nat : q = pet[p].q /\ f = pet[p].resto
  BY <1>1
<1>4. /\ cot' = [cot EXCEPT ![q].fechaVencimiento = f] /\ Pasar(p, Libre)
      /\ ahora' = ahora /\ barrido' = barrido
  BY <1>3 DEF EscribirResto
<1>5. ConFecha' /\ [Ciclo!Next]_(Ciclo!vars)
  BY <1>4, RestoCiclo
<1>6. QED
  BY <1>2, <1>4, <1>5, LibreSano, PasoPeticion

\* An applied answer is RespondeCliente.
LEMMA RespuestaCiclo ==
    ASSUME RInv, NEW q \in Cotizaciones, NEW e \in Decisiones, NEW t \in Nat,
           t <= ahora, NEW tk, FiltroRespuesta(cot[q], tk, t), ahora' = ahora,
           cot' = [cot EXCEPT ![q] = DocRespondido(cot[q], e, t)]
    PROVE  ConFecha' /\ Ciclo!RespondeCliente(q)
<1> DEFINE d == DocRespondido(cot[q], e, t)
<1>1. /\ TypeOK /\ cot[q] \in Documento /\ Coherente(cot[q])
      /\ cot[q].estado = "vigente" /\ t \in 0..ahora
  BY DEF RInv, IInv, TypeOK, DocsCoherentes, FiltroRespuesta
<1>2. /\ d.estado = e /\ d.estadoOrigen = "magic_link"
      /\ VenceDe(d) = VenceDe(cot[q]) /\ DecididaDe(d) = t
      /\ d.sinVigencia = cot[q].sinVigencia
      /\ d.fechaVencimiento = cot[q].fechaVencimiento
  BY <1>1, CamposRespuesta
<1>3. d \in Documento
  BY <1>1, RespuestaCoherente
<1>4. cot' = [cot EXCEPT ![q] = d]
  OBVIOUS
<1> HIDE DEF d
<1>5. ConFecha'
  BY <1>1, <1>2, <1>4 DEF RInv, ConFecha, TypeOK
<1>6. /\ EstadoM' = [EstadoM EXCEPT ![q] = d.estado]
      /\ OrigenM' = [OrigenM EXCEPT ![q] = d.estadoOrigen]
      /\ VenceM' = [VenceM EXCEPT ![q] = VenceDe(d)]
      /\ DecididaM' = [DecididaM EXCEPT ![q] = DecididaDe(d)]
  BY <1>1, <1>3, <1>4, MapaEscritura
<1>7. VenceM' = VenceM /\ EstadoM[q] = "vigente"
  BY <1>1, <1>2, <1>6, MismoValor
<1>8. VenceM[q] = Nulo \/ t <= VenceM[q]
  <2>1. VenceM[q] = VenceDe(cot[q])
    BY MismoValor
  <2>2. cot[q].fechaVencimiento \in Nat \cup {Nulo}
    BY <1>1 DEF Documento, Fecha
  <2>3. QED
    BY <2>1, <2>2 DEF VenceDe, FiltroRespuesta
<1>9. Ciclo!RespondeCliente(q)
  <2>1. /\ EstadoM' = [EstadoM EXCEPT ![q] = e]
        /\ OrigenM' = [OrigenM EXCEPT ![q] = "magic_link"]
        /\ DecididaM' = [DecididaM EXCEPT ![q] = t]
    BY <1>2, <1>6
  <2>2. QED
    BY <1>1, <1>7, <1>8, <2>1, MapaRespondeCliente
<1>10. QED
  BY <1>5, <1>9

LEMMA AplicarRespuestaCiclo ==
    ASSUME RInv, NEW p \in Peticiones, AplicarRespuesta(p)
    PROVE  RInv' /\ [Ciclo!Next]_(Ciclo!vars)
<1> DEFINE s == pet[p]
           avisa(q) == [fase |-> "avisar", q |-> q, nuevo |-> s.nuevo, epoca |-> epoca[q]]
           relee == [fase |-> "releer", token |-> s.token, nuevo |-> s.nuevo]
<1>1. /\ s.token \in Tokens /\ s.nuevo \in Decisiones /\ s.t \in Nat /\ s.t <= ahora
      /\ epoca \in [Cotizaciones -> Nat]
  BY FasesTipo DEF AplicarRespuesta, RInv, IInv, TypeOK, InstantesPasados
<1>2. IInv'
  BY ContinuarIInv DEF RInv, Continuar
<1>3. ahora' = ahora /\ barrido' = barrido
  BY DEF AplicarRespuesta
<1>4. /\ relee \in Peticion /\ Sano(relee)
      /\ \A q \in Cotizaciones : avisa(q) \in Peticion /\ Sano(avisa(q))
  BY <1>1 DEF Peticion, Sano
<1>5. \/ \E q \in Cotizaciones :
           /\ FiltroRespuesta(cot[q], s.token, s.t)
           /\ cot' = [cot EXCEPT ![q] = DocRespondido(cot[q], s.nuevo, s.t)]
           /\ Pasar(p, avisa(q))
      \/ Pasar(p, relee) /\ UNCHANGED cot
  BY DEF AplicarRespuesta
<1> HIDE DEF relee, avisa
<1>6. CASE \E q \in Cotizaciones :
              /\ FiltroRespuesta(cot[q], s.token, s.t)
              /\ cot' = [cot EXCEPT ![q] = DocRespondido(cot[q], s.nuevo, s.t)]
              /\ Pasar(p, avisa(q))
  <2>1. PICK q \in Cotizaciones :
              /\ FiltroRespuesta(cot[q], s.token, s.t)
              /\ cot' = [cot EXCEPT ![q] = DocRespondido(cot[q], s.nuevo, s.t)]
              /\ Pasar(p, avisa(q))
    BY <1>6
  <2>2. PICK e \in Decisiones, t \in Nat : e = s.nuevo /\ t = s.t
    BY <1>1
  <2>3. /\ t <= ahora /\ FiltroRespuesta(cot[q], s.token, t)
        /\ cot' = [cot EXCEPT ![q] = DocRespondido(cot[q], e, t)]
    BY <1>1, <2>1, <2>2
  <2>4. ConFecha' /\ Ciclo!RespondeCliente(q)
    BY <1>3, <2>3, RespuestaCiclo
  <2>5. RInv'
    BY <1>2, <1>3, <1>4, <2>1, <2>4, PasoPeticion
  <2>6. Ciclo!Next
    BY <2>4 DEF Ciclo!Next
  <2>7. QED
    BY <2>5, <2>6
<1>7. CASE Pasar(p, relee) /\ UNCHANGED cot
  BY <1>2, <1>3, <1>4, <1>7, PasoLectura, MapaQuieto
<1>8. QED
  BY <1>5, <1>6, <1>7

\* A document that the sweep expires takes the step Vence: the instant of the
\* sweep is past, so the date is before the clock too.
LEMMA VencidoCiclo ==
    ASSUME RInv, NEW q \in Cotizaciones, NEW t \in Nat, t <= ahora,
           FiltroBarrido(cot[q], t), ahora' = ahora,
           cot' = [cot EXCEPT ![q] = DocVencido(cot[q])]
    PROVE  ConFecha' /\ Ciclo!Vence(q)
<1> DEFINE d == DocVencido(cot[q])
<1>1. /\ TypeOK /\ cot[q] \in Documento /\ Coherente(cot[q]) /\ ahora \in Nat
      /\ cot[q].estado = "vigente" /\ ~cot[q].sinVigencia
      /\ cot[q].fechaVencimiento # Nulo /\ cot[q].fechaVencimiento < t
  BY DEF RInv, IInv, TypeOK, DocsCoherentes, FiltroBarrido, VigenciaSuperada
<1>2. /\ d.estado = "vencida" /\ d.estadoOrigen = "cron"
      /\ VenceDe(d) = VenceDe(cot[q]) /\ DecididaDe(d) = DecididaDe(cot[q])
      /\ d.sinVigencia = cot[q].sinVigencia
      /\ d.fechaVencimiento = cot[q].fechaVencimiento
  BY <1>1, CamposVencido
<1>3. d \in Documento
  BY <1>1, VencidoCoherente
<1>4. cot' = [cot EXCEPT ![q] = d]
  OBVIOUS
<1> HIDE DEF d
<1>5. ConFecha'
  BY <1>1, <1>2, <1>4 DEF RInv, ConFecha, TypeOK
<1>6. /\ EstadoM' = [EstadoM EXCEPT ![q] = d.estado]
      /\ OrigenM' = [OrigenM EXCEPT ![q] = d.estadoOrigen]
      /\ VenceM' = [VenceM EXCEPT ![q] = VenceDe(d)]
      /\ DecididaM' = [DecididaM EXCEPT ![q] = DecididaDe(d)]
  BY <1>1, <1>3, <1>4, MapaEscritura
<1>7. VenceM' = VenceM /\ DecididaM' = DecididaM /\ EstadoM[q] = "vigente"
  BY <1>1, <1>2, <1>6, MismoValor
<1>8. VenceM[q] # Nulo /\ VenceM[q] < ahora
  <2>1. VenceM[q] = cot[q].fechaVencimiento
    BY <1>1, MismoValor DEF VenceDe
  <2>2. cot[q].fechaVencimiento \in Nat
    BY <1>1 DEF Documento, Fecha
  <2>3. QED
    BY <1>1, <2>1, <2>2
<1>9. Ciclo!Vence(q)
  <2>1. /\ EstadoM' = [EstadoM EXCEPT ![q] = "vencida"]
        /\ OrigenM' = [OrigenM EXCEPT ![q] = "cron"]
    BY <1>2, <1>6
  <2>2. QED
    BY <1>7, <1>8, <2>1, MapaVence
<1>10. QED
  BY <1>5, <1>9

LEMMA BarrerDocumentoCiclo ==
    ASSUME RInv, NEW b \in Barridos, NEW q \in Cotizaciones, BarrerDocumento(b, q)
    PROVE  RInv' /\ [Ciclo!Next]_(Ciclo!vars)
<1>1. IInv'
  BY BarrerDocumentoIInv DEF RInv
<1>2. ahora' = ahora /\ pet' = pet /\ barrido[b].t \in Nat /\ barrido[b].t <= ahora
  BY DEF BarrerDocumento, RInv, InstantesPasados
<1>3. \A c \in Barridos : barrido'[c].pendientes # {} =>
        barrido[c].pendientes # {} /\ barrido'[c].t = barrido[c].t
  BY DEF BarrerDocumento, SinBarrido, RInv, IInv, TypeOK, Barrido
<1>4. InstantesPasados' /\ CambioReal'
  BY <1>2, <1>3 DEF RInv, InstantesPasados, CambioReal
<1>5. CASE FiltroBarrido(cot[q], barrido[b].t)
  <2>1. PICK t \in Nat : t = barrido[b].t
    BY <1>2
  <2>2. /\ t <= ahora /\ FiltroBarrido(cot[q], t)
        /\ cot' = [cot EXCEPT ![q] = DocVencido(cot[q])]
    BY <1>2, <1>5, <2>1 DEF BarrerDocumento
  <2>3. ConFecha' /\ Ciclo!Vence(q)
    BY <1>2, <2>2, VencidoCiclo
  <2>4. QED
    BY <1>1, <1>4, <2>3 DEF RInv, Ciclo!Next
<1>6. CASE ~FiltroBarrido(cot[q], barrido[b].t)
  <2>1. cot' = cot
    BY <1>6 DEF BarrerDocumento
  <2>2. ConFecha'
    BY <2>1 DEF RInv, ConFecha
  <2>3. QED
    BY <1>1, <1>2, <1>4, <2>1, <2>2, MapaQuieto DEF RInv
<1>7. QED
  BY <1>5, <1>6

LEMMA IniciarBarridoCiclo ==
    ASSUME RInv, NEW b \in Barridos, IniciarBarrido(b)
    PROVE  RInv' /\ [Ciclo!Next]_(Ciclo!vars)
<1>1. IInv' /\ UNCHANGED <<ahora, cot, pet>> /\ ahora \in Nat
  BY IniciarBarridoIInv DEF RInv, IniciarBarrido, IInv, TypeOK
<1>2. InstantesPasados'
  BY <1>1 DEF IniciarBarrido, RInv, IInv, TypeOK, InstantesPasados
<1>3. ConFecha' /\ CambioReal'
  BY <1>1 DEF RInv, ConFecha, CambioReal
<1>4. QED
  BY <1>1, <1>2, <1>3, MapaQuieto DEF RInv

\* Time passes in both.
LEMMA TickCiclo ==
    ASSUME RInv, Tick
    PROVE  RInv' /\ [Ciclo!Next]_(Ciclo!vars)
<1>1. IInv' /\ UNCHANGED <<cot, pet, barrido>> /\ ahora' = ahora + 1 /\ ahora \in Nat
  BY AjenoIInv DEF RInv, Tick, IInv, TypeOK
<1>2. InstantesPasados'
  <2>1. \A p \in Peticiones : pet[p].fase \in {"aplicar", "responder"} => pet[p].t \in Nat
    BY FasesTipo DEF RInv, IInv, TypeOK
  <2>2. QED
    BY <1>1, <2>1 DEF RInv, InstantesPasados
<1>3. ConFecha' /\ CambioReal'
  BY <1>1 DEF RInv, ConFecha, CambioReal
<1>4. Ciclo!Pasa
  BY <1>1 DEF Ciclo!Pasa
<1>5. QED
  BY <1>1, <1>2, <1>3, <1>4 DEF RInv, Ciclo!Next

\* The initial documents are those of the life cycle.
LEMMA InicioCiclo == Init => Ciclo!Init
<1> SUFFICES ASSUME Init PROVE Ciclo!Init
  OBVIOUS
<1>1. ASSUME NEW q \in Cotizaciones
      PROVE  /\ cot[q].estado = "vigente" /\ cot[q].estadoOrigen = Nulo
             /\ VenceDe(cot[q]) \in Nat \cup {Nulo} /\ DecididaDe(cot[q]) = Nulo
  <2>1. PICK sv \in BOOLEAN, f \in FechasDto, tk \in Tokens \cup {Nulo} :
          cot[q] = IF tk = Nulo THEN Creada(sv, f, 0)
                   ELSE ConEnlace(Creada(sv, f, 0), tk,
                                  ResolveMagicExpiresAt(Creada(sv, f, 0)))
    BY DEF Init
  <2>2. f \in Nat
    BY ConstantesAssumption DEF ConstantesAssumption
  <2> DEFINE d == Creada(sv, f, 0)
  <2>3. /\ d.estado = "vigente" /\ d.estadoOrigen = Nulo
        /\ VenceDe(d) \in Nat \cup {Nulo} /\ DecididaDe(d) = Nulo
    BY <2>2 DEF Creada, VenceDe, DecididaDe
  <2>4. \A x : LET m == ConEnlace(d, tk, x) IN
               /\ m.estado = d.estado /\ m.estadoOrigen = d.estadoOrigen
               /\ VenceDe(m) = VenceDe(d) /\ DecididaDe(m) = DecididaDe(d)
    BY DEF ConEnlace, Creada, VenceDe, DecididaDe
  <2> HIDE DEF d
  <2>5. QED
    BY <2>1, <2>3, <2>4 DEF d
<1>2. ahora = 0
  BY DEF Init
<1>3. /\ [q \in Cotizaciones |-> cot[q].estado] = [q \in Cotizaciones |-> "vigente"]
      /\ [q \in Cotizaciones |-> cot[q].estadoOrigen] = [q \in Cotizaciones |-> Nulo]
      /\ VenceM \in [Cotizaciones -> Nat \cup {Nulo}]
      /\ DecididaM = [q \in Cotizaciones |-> Nulo]
  BY <1>1 DEF VenceM, DecididaM
<1>4. QED
  BY <1>2, <1>3 DEF Ciclo!Init, VenceM, DecididaM, VenceDe, DecididaDe

LEMMA PasoCiclo ==
    ASSUME RInv, [Next]_vars
    PROVE  RInv' /\ [Ciclo!Next]_(Ciclo!vars)
<1>1. ASSUME NEW p \in Peticiones,
             CambiarEstado(p) \/ Actualizar(p) \/ ResponderEnlace(p)
             \/ LeerManual(p) \/ PrepararManual(p)
             \/ ReleerRespuesta(p) \/ Avisar(p) \/ Cerrar(p)
      PROVE  RInv' /\ [Ciclo!Next]_(Ciclo!vars)
  <2>1. RInv'
    BY <1>1, InicioRespuestaRInv, LeerManualRInv, PrepararManualRInv
  <2>2. UNCHANGED <<ahora, cot>>
    BY <1>1 DEF CambiarEstado, Actualizar, ResponderEnlace, LeerManual,
       PrepararManual, ReleerRespuesta, Avisar, Cerrar
  <2>3. QED
    BY <2>1, <2>2, MapaQuieto
<1>2. ASSUME NEW p \in Peticiones,
             CambiarEstado(p) \/ Actualizar(p) \/ ResponderEnlace(p) \/ Continuar(p)
      PROVE  RInv' /\ [Ciclo!Next]_(Ciclo!vars)
  BY <1>1, <1>2, AplicarManualCiclo, EscribirRestoCiclo, AplicarRespuestaCiclo
     DEF Continuar
<1>3. ASSUME NEW b \in Barridos,
             IniciarBarrido(b) \/ \E q \in Cotizaciones : BarrerDocumento(b, q)
      PROVE  RInv' /\ [Ciclo!Next]_(Ciclo!vars)
  BY <1>3, IniciarBarridoCiclo, BarrerDocumentoCiclo
<1>4. CASE UNCHANGED vars
  <2>1. UNCHANGED <<ahora, cot, pet, barrido>>
    BY <1>4 DEF vars
  <2>2. IInv'
    BY <1>4, PasoIInv DEF RInv
  <2>3. RInv'
    BY <2>1, <2>2 DEF RInv, ConFecha, InstantesPasados, CambioReal
  <2>4. QED
    BY <2>1, <2>3, MapaQuieto
<1>5. QED
  BY <1>2, <1>3, <1>4, TickCiclo DEF Next

-----------------------------------------------------------------------------
(* The theorem of the refinement *)

\* Whatever the interleaving of users, customers and sweeps, the documents
\* live the life cycle of CicloCotizacion: the customer decides once, in time
\* and only on a quotation in force; expiry takes only what is past its date.
THEOREM CicloCumplido == Spec => CumpleCiclo
<1>1. Init => RInv /\ Ciclo!Init
  BY InicioRInv, InicioCiclo
<1>2. RInv /\ [Next]_vars => RInv' /\ [Ciclo!Next]_(Ciclo!vars)
  BY PasoCiclo
<1>3. QED
  BY <1>1, <1>2, PTL DEF Spec, CumpleCiclo, Ciclo!Spec

-----------------------------------------------------------------------------
(***************************************************************************)
(* Part 3: the quotation and its mails                                     *)
(***************************************************************************)

(* The inductive invariant of the sends *)

Ultimo(q) == emisiones[q][Len(emisiones[q])]

\* Only the last link issued for a quotation may be stored in it.
UltimoGuardado ==
    \A q \in Cotizaciones :
        cot[q].magicToken # Nulo =>
            Len(emisiones[q]) > 0 /\ cot[q].magicToken = Ultimo(q)

\* Sends and deliveries are about links that were issued.
Numerados ==
    /\ \A e \in Envios : envio[e].fase \in Emitido => envio[e].n <= Len(emisiones[envio[e].q])
    /\ \A l \in entregados : l.n <= Len(emisiones[l.q])

\* Two sends of one quotation that both hold a link have overlapped.
SolapesVistos ==
    \A e, o \in Envios :
        /\ e # o /\ envio[e].fase \in Emitido /\ envio[o].fase \in Emitido
        /\ envio[e].q = envio[o].q
        => envio[e].q \in solapadas

\* The only send of a quotation holds its last link, and the quotation has it.
EnvioAlDia ==
    \A e \in Envios :
        envio[e].fase \in Emitido /\ envio[e].q \notin solapadas =>
            /\ envio[e].n = Len(emisiones[envio[e].q])
            /\ cot[envio[e].q].magicToken = envio[e].token
            /\ cot[envio[e].q].magicTokenExpiresAt = envio[e].hasta

\* While it is sent, the last link of a quotation was not confirmed yet: a
\* failure may remove it.
SinConfirmarAun ==
    \A e \in Envios, l \in entregados :
        envio[e].fase \in Emitido /\ envio[e].q \notin solapadas
        /\ l.ok /\ l.q = envio[e].q => l.n # envio[e].n

Correo ==
    /\ UltimoGuardado
    /\ Numerados
    /\ SolapesVistos
    /\ EnvioAlDia
    /\ SinConfirmarAun
    /\ EnlaceConfirmadoVale

EInv == RInv /\ TypeOKEnvio /\ Correo

-----------------------------------------------------------------------------
(* Lemmas about the records and the slots of the sends *)

\* What a send holds in each phase.
LEMMA FasesEnvio ==
    ASSUME NEW r \in Envio
    PROVE  /\ r.fase # "libre" => r.q \in Cotizaciones /\ r.hasta \in Nat
           /\ r.fase \in Emitido => r.token \in Tokens /\ r.n \in Nat
           /\ r.fase \in {"libre"} \cup Preparado \cup Emitido
BY DEF Envio, Libre, Preparado, Emitido

LEMMA LibreEnvio == Libre \in Envio /\ Libre.fase \notin Emitido
BY DEF Libre, Envio, Emitido

\* Moving one send on leaves the others alone.
LEMMA SeguirTipo ==
    ASSUME TypeOKEnvio, NEW e \in Envios, NEW r \in Envio, Seguir(e, r)
    PROVE  /\ envio' \in [Envios -> Envio]
           /\ envio'[e] = r
           /\ \A o \in Envios \ {e} : envio'[o] = envio[o]
BY DEF TypeOKEnvio, Seguir

\* A send that changes its phase only, before its link or after it.
LEMMA CambiarFase ==
    ASSUME NEW r \in Envio, NEW f
    PROVE  /\ r.fase \in Preparado /\ f \in Preparado =>
                [r EXCEPT !.fase = f] \in Envio /\ [r EXCEPT !.fase = f].fase = f
           /\ r.fase \in Emitido /\ f \in Emitido =>
                LET s == [r EXCEPT !.fase = f] IN
                /\ s \in Envio /\ s.fase = f
                /\ s.q = r.q /\ s.hasta = r.hasta /\ s.token = r.token /\ s.n = r.n
<1>1. r.fase \in Preparado => r \in [fase: Preparado, q: Cotizaciones, hasta: Nat]
  BY DEF Envio, Libre, Preparado, Emitido
<1>2. r.fase \in Emitido =>
        r \in [fase: Emitido, q: Cotizaciones, hasta: Nat, token: Tokens, n: Nat]
  BY DEF Envio, Libre, Preparado, Emitido
<1>3. ASSUME r.fase \in Preparado, f \in Preparado
      PROVE  [r EXCEPT !.fase = f] \in Envio /\ [r EXCEPT !.fase = f].fase = f
  BY <1>1, <1>3 DEF Envio
<1>4. ASSUME r.fase \in Emitido, f \in Emitido
      PROVE  LET s == [r EXCEPT !.fase = f] IN
             /\ s \in Envio /\ s.fase = f
             /\ s.q = r.q /\ s.hasta = r.hasta /\ s.token = r.token /\ s.n = r.n
  BY <1>2, <1>4 DEF Envio
<1>5. QED
  BY <1>3, <1>4

\* The write of a link, or of its absence, touches nothing else of a document.
LEMMA CamposEnlace ==
    ASSUME NEW d \in Documento, NEW tk \in Tokens \cup {Nulo}, NEW x \in Fecha
    PROVE  LET m == ConEnlace(d, tk, x) IN
           /\ m \in Documento
           /\ m.magicToken = tk /\ m.magicTokenExpiresAt = x
           /\ m.estado = d.estado /\ m.estadoOrigen = d.estadoOrigen
           /\ m.actor = d.actor /\ m.sinVigencia = d.sinVigencia
           /\ m.fechaVencimiento = d.fechaVencimiento
           /\ m.fechaAceptacion = d.fechaAceptacion /\ m.fechaRechazo = d.fechaRechazo
<1> DEFINE m == [d EXCEPT !.magicToken = tk, !.magicTokenExpiresAt = x]
<1>1. m = ConEnlace(d, tk, x)
  BY DEF ConEnlace
<1>2. m \in Documento
  BY DEF Documento
<1>3. /\ m.magicToken = tk /\ m.magicTokenExpiresAt = x
      /\ m.estado = d.estado /\ m.estadoOrigen = d.estadoOrigen
      /\ m.actor = d.actor /\ m.sinVigencia = d.sinVigencia
      /\ m.fechaVencimiento = d.fechaVencimiento
      /\ m.fechaAceptacion = d.fechaAceptacion /\ m.fechaRechazo = d.fechaRechazo
  BY DEF Documento
<1> HIDE DEF m
<1>4. QED
  BY <1>1, <1>2, <1>3

-----------------------------------------------------------------------------
(* The life cycle does not see the link *)

\* Writing the link of a quotation keeps all that was proved of the life cycle
\* and is a stutter of it.
LEMMA EscrituraEnlace ==
    ASSUME RInv, NEW q \in Cotizaciones, NEW tk \in Tokens \cup {Nulo}, NEW x \in Fecha,
           cot' = [cot EXCEPT ![q] = ConEnlace(cot[q], tk, x)],
           UNCHANGED <<ahora, pet, barrido, epoca, avisados>>
    PROVE  /\ RInv' /\ UNCHANGED Ciclo!vars
           /\ cot'[q].magicToken = tk /\ cot'[q].magicTokenExpiresAt = x
           /\ \A o \in Cotizaciones \ {q} : cot'[o] = cot[o]
           /\ \A o \in Cotizaciones : cot'[o].estado = cot[o].estado
<1> DEFINE d == ConEnlace(cot[q], tk, x)
<1>1. TypeOK /\ cot[q] \in Documento /\ Coherente(cot[q])
  BY DEF RInv, IInv, TypeOK, DocsCoherentes
<1>2. /\ d \in Documento
      /\ d.magicToken = tk /\ d.magicTokenExpiresAt = x
      /\ d.estado = cot[q].estado /\ d.estadoOrigen = cot[q].estadoOrigen
      /\ d.actor = cot[q].actor /\ d.sinVigencia = cot[q].sinVigencia
      /\ d.fechaVencimiento = cot[q].fechaVencimiento
      /\ d.fechaAceptacion = cot[q].fechaAceptacion
      /\ d.fechaRechazo = cot[q].fechaRechazo
  BY <1>1, CamposEnlace
<1>3. cot' = [cot EXCEPT ![q] = d]
  OBVIOUS
<1> HIDE DEF d
<1>4. cot'[q] = d /\ \A o \in Cotizaciones \ {q} : cot'[o] = cot[o]
  BY <1>1, <1>3 DEF TypeOK
<1>5. TypeOK'
  BY <1>1, <1>2, <1>3 DEF TypeOK
<1>6. DocsCoherentes'
  BY <1>1, <1>2, <1>4 DEF RInv, IInv, DocsCoherentes, Coherente
<1>7. \A o \in Cotizaciones : cot'[o].estado = cot[o].estado
  BY <1>2, <1>4
<1>8. Respuestas'
  <2>1. EpocasPasadas' /\ SinRespuestasContradictorias' /\ AvisoUnico'
    BY DEF RInv, IInv, Respuestas, EpocasPasadas, SinRespuestasContradictorias,
       AvisoUnico, Confirmada
  <2>2. \A p \in Peticiones : Confirmada(p) => pet[p].q \in Cotizaciones
    BY <1>1, FasesTipo DEF Confirmada, TypeOK
  <2>3. ConfirmacionEstable'
    BY <1>7, <2>2 DEF RInv, IInv, Respuestas, ConfirmacionEstable, Confirmada
  <2>4. \A a \in avisados : a[1] \in Cotizaciones
    BY <1>1 DEF TypeOK
  <2>5. AvisosDeDecisiones'
    BY <1>7, <2>4 DEF RInv, IInv, Respuestas, AvisosDeDecisiones
  <2>6. QED
    BY <2>1, <2>3, <2>5 DEF Respuestas
<1>9. ConFecha' /\ InstantesPasados' /\ CambioReal'
  BY <1>2, <1>4 DEF RInv, ConFecha, InstantesPasados, CambioReal
<1>10. UNCHANGED Ciclo!vars
  <2>1. VenceDe(d) = VenceDe(cot[q]) /\ DecididaDe(d) = DecididaDe(cot[q])
    BY <1>2 DEF VenceDe, DecididaDe
  <2>2. /\ EstadoM' = [EstadoM EXCEPT ![q] = d.estado]
        /\ OrigenM' = [OrigenM EXCEPT ![q] = d.estadoOrigen]
        /\ VenceM' = [VenceM EXCEPT ![q] = VenceDe(d)]
        /\ DecididaM' = [DecididaM EXCEPT ![q] = DecididaDe(d)]
    BY <1>1, <1>2, <1>3, MapaEscritura
  <2>3. EstadoM' = EstadoM /\ OrigenM' = OrigenM /\ VenceM' = VenceM
        /\ DecididaM' = DecididaM
    BY <1>2, <2>1, <2>2, MismoValor
  <2>4. QED
    BY <2>3, MapaIgual
<1>11. QED
  BY <1>2, <1>4, <1>5, <1>6, <1>7, <1>8, <1>9, <1>10 DEF RInv, IInv

\* No writer of the life cycle touches the link of a quotation.
LEMMA EscrituraSinEnlace ==
    ASSUME TypeOK, NEW q \in Cotizaciones, NEW d,
           d.magicToken = cot[q].magicToken,
           d.magicTokenExpiresAt = cot[q].magicTokenExpiresAt,
           cot' = [cot EXCEPT ![q] = d]
    PROVE  \A o \in Cotizaciones :
             /\ cot'[o].magicToken = cot[o].magicToken
             /\ cot'[o].magicTokenExpiresAt = cot[o].magicTokenExpiresAt
BY DEF TypeOK

LEMMA CicloSinEnlace ==
    ASSUME TypeOK, [Next]_vars
    PROVE  \A q \in Cotizaciones :
             /\ cot'[q].magicToken = cot[q].magicToken
             /\ cot'[q].magicTokenExpiresAt = cot[q].magicTokenExpiresAt
<1> DEFINE Igual == \A q \in Cotizaciones :
             /\ cot'[q].magicToken = cot[q].magicToken
             /\ cot'[q].magicTokenExpiresAt = cot[q].magicTokenExpiresAt
<1>1. ASSUME cot' = cot PROVE Igual
  BY <1>1
<1>2. ASSUME NEW p \in Peticiones, AplicarManual(p)
      PROVE  Igual
  <2> DEFINE r == pet[p]
             d == DocManual(cot[r.q], r.nuevo, r.actor, r.t, r.fecha)
  <2>1. r.q \in Cotizaciones
    BY <1>2, FasesTipo DEF AplicarManual, TypeOK
  <2>2. /\ d.magicToken = cot[r.q].magicToken
        /\ d.magicTokenExpiresAt = cot[r.q].magicTokenExpiresAt
    BY <2>1 DEF DocManual, TypeOK, Documento
  <2>3. cot' = cot \/ cot' = [cot EXCEPT ![r.q] = d]
    BY <1>2 DEF AplicarManual
  <2> HIDE DEF d, r
  <2>4. QED
    BY <1>1, <2>1, <2>2, <2>3, EscrituraSinEnlace
<1>3. ASSUME NEW p \in Peticiones, EscribirResto(p)
      PROVE  Igual
  <2> DEFINE r == pet[p]
             d == [cot[r.q] EXCEPT !.fechaVencimiento = r.resto]
  <2>1. r.q \in Cotizaciones
    BY <1>3, FasesTipo DEF EscribirResto, TypeOK
  <2>2. /\ d.magicToken = cot[r.q].magicToken
        /\ d.magicTokenExpiresAt = cot[r.q].magicTokenExpiresAt
    BY <2>1 DEF TypeOK, Documento
  <2>3. cot' = [cot EXCEPT ![r.q] = d]
    BY <1>3 DEF EscribirResto
  <2> HIDE DEF d, r
  <2>4. QED
    BY <2>1, <2>2, <2>3, EscrituraSinEnlace
<1>4. ASSUME NEW p \in Peticiones, AplicarRespuesta(p)
      PROVE  Igual
  <2> DEFINE r == pet[p]
             d(q) == DocRespondido(cot[q], r.nuevo, r.t)
  <2>1. cot' = cot \/ \E q \in Cotizaciones : cot' = [cot EXCEPT ![q] = d(q)]
    BY <1>4 DEF AplicarRespuesta
  <2>2. ASSUME NEW q \in Cotizaciones
        PROVE  /\ d(q).magicToken = cot[q].magicToken
               /\ d(q).magicTokenExpiresAt = cot[q].magicTokenExpiresAt
    BY DEF DocRespondido, TypeOK, Documento
  <2> HIDE DEF d, r
  <2>3. QED
    BY <1>1, <2>1, <2>2, EscrituraSinEnlace
<1>5. ASSUME NEW b \in Barridos, NEW q \in Cotizaciones, BarrerDocumento(b, q)
      PROVE  Igual
  <2> DEFINE d == DocVencido(cot[q])
  <2>1. cot' = cot \/ cot' = [cot EXCEPT ![q] = d]
    BY <1>5 DEF BarrerDocumento
  <2>2. /\ d.magicToken = cot[q].magicToken
        /\ d.magicTokenExpiresAt = cot[q].magicTokenExpiresAt
    BY DEF DocVencido, TypeOK, Documento
  <2> HIDE DEF d
  <2>3. QED
    BY <1>1, <2>1, <2>2, EscrituraSinEnlace
<1>6. ASSUME NEW p \in Peticiones,
             CambiarEstado(p) \/ Actualizar(p) \/ ResponderEnlace(p)
             \/ LeerManual(p) \/ PrepararManual(p)
             \/ ReleerRespuesta(p) \/ Avisar(p) \/ Cerrar(p)
      PROVE  cot' = cot
  BY <1>6 DEF CambiarEstado, Actualizar, ResponderEnlace, LeerManual,
     PrepararManual, ReleerRespuesta, Avisar, Cerrar
<1>7. ASSUME Tick \/ UNCHANGED vars \/ \E b \in Barridos : IniciarBarrido(b)
      PROVE  cot' = cot
  BY <1>7 DEF Tick, vars, IniciarBarrido
<1> HIDE DEF Igual
<1>8. Igual
  BY <1>1, <1>2, <1>3, <1>4, <1>5, <1>6, <1>7 DEF Next, Continuar
<1>9. QED
  BY <1>8 DEF Igual

-----------------------------------------------------------------------------
(* Its initial states *)

LEMMA InicioEInv == InitEnvio => EInv
<1> SUFFICES ASSUME InitEnvio PROVE EInv
  OBVIOUS
<1>1. RInv /\ TypeOK
  BY InicioRInv DEF InitEnvio, RInv, IInv
<1>2. \A e \in Envios : envio[e].fase \notin Emitido
  BY DEF InitEnvio, Libre, Emitido
<1>3. /\ entregados = {} /\ solapadas = {}
      /\ \A q \in Cotizaciones :
           emisiones[q] = IF cot[q].magicToken = Nulo THEN <<>> ELSE <<cot[q].magicToken>>
  BY DEF InitEnvio
<1>4. envio \in [Envios -> Envio]
  BY LibreEnvio DEF InitEnvio
<1>5. \A q \in Cotizaciones : cot[q].magicToken \in Tokens \cup {Nulo}
  BY <1>1 DEF TypeOK, Documento
<1>6. ASSUME NEW q \in Cotizaciones
      PROVE  emisiones[q] \in Seq(Tokens)
  <2>1. CASE cot[q].magicToken = Nulo
    <3>1. emisiones[q] = <<>>
      BY <1>3, <2>1
    <3>2. QED
      BY <3>1
  <2>2. CASE cot[q].magicToken # Nulo
    <3>1. emisiones[q] = <<cot[q].magicToken>>
      BY <1>3, <2>2
    <3>2. PICK tk \in Tokens : tk = cot[q].magicToken
      BY <1>5, <2>2
    <3>3. <<tk>> \in Seq(Tokens)
      OBVIOUS
    <3>4. QED
      BY <3>1, <3>2, <3>3
  <2>3. QED
    BY <2>1, <2>2
<1>7. emisiones \in [Cotizaciones -> Seq(Tokens)]
  BY <1>6 DEF InitEnvio
<1>8. TypeOKEnvio
  BY <1>1, <1>3, <1>4, <1>7 DEF TypeOKEnvio, InitEnvio
<1>9. UltimoGuardado
  <2>1. ASSUME NEW q \in Cotizaciones, cot[q].magicToken # Nulo
        PROVE  Len(emisiones[q]) > 0 /\ cot[q].magicToken = Ultimo(q)
    <3>1. emisiones[q] = <<cot[q].magicToken>>
      BY <1>3, <2>1
    <3>2. QED
      BY <3>1 DEF Ultimo
  <2>2. QED
    BY <2>1 DEF UltimoGuardado
<1>10. QED
  BY <1>1, <1>2, <1>3, <1>8, <1>9 DEF EInv, Correo, Numerados, SolapesVistos,
     EnvioAlDia, SinConfirmarAun, EnlaceConfirmadoVale

-----------------------------------------------------------------------------
(* Its steps *)

\* A step that leaves links, sends and deliveries alone.
LEMMA CorreoIgual ==
    ASSUME EInv, RInv', UNCHANGED <<envio, emisiones, entregados, solapadas>>,
           tenantActivo' \in BOOLEAN, correoConfigurado' \in BOOLEAN,
           \A q \in Cotizaciones :
             /\ cot'[q].magicToken = cot[q].magicToken
             /\ cot'[q].magicTokenExpiresAt = cot[q].magicTokenExpiresAt
    PROVE  EInv'
<1>1. TypeOKEnvio'
  BY DEF EInv, TypeOKEnvio, RInv, IInv
<1>2. UltimoGuardado'
  BY DEF EInv, Correo, UltimoGuardado, Ultimo
<1>3. Numerados' /\ SolapesVistos' /\ SinConfirmarAun'
  BY DEF EInv, Correo, Numerados, SolapesVistos, SinConfirmarAun
<1>4. \A e \in Envios : envio[e].fase \in Emitido => envio[e].q \in Cotizaciones
  BY FasesEnvio DEF EInv, TypeOKEnvio, Libre, Emitido
<1>5. EnvioAlDia'
  BY <1>4 DEF EInv, Correo, EnvioAlDia
<1>6. \A l \in entregados : l.q \in Cotizaciones
  BY DEF EInv, TypeOKEnvio, Enlace
<1>7. EnlaceConfirmadoVale'
  BY <1>6 DEF EInv, Correo, EnlaceConfirmadoVale
<1>8. QED
  BY <1>1, <1>2, <1>3, <1>5, <1>7 DEF EInv, Correo

\* A step of the life cycle.
LEMMA CicloEInv ==
    ASSUME EInv, [Next]_vars, UNCHANGED varsCorreo
    PROVE  EInv'
<1>1. RInv' /\ TypeOK
  BY PasoCiclo DEF EInv, RInv, IInv
<1>2. QED
  BY <1>1, CicloSinEnlace, CorreoIgual DEF EInv, TypeOKEnvio, varsCorreo

\* A step of the tenant or of its mail account.
LEMMA InquilinoEInv ==
    ASSUME EInv, SetActivo \/ UpdateEmailConfig
    PROVE  EInv'
<1>1. /\ UNCHANGED <<vars, envio, emisiones, entregados, solapadas>>
      /\ tenantActivo' \in BOOLEAN /\ correoConfigurado' \in BOOLEAN
  BY DEF SetActivo, UpdateEmailConfig, EInv, TypeOKEnvio
<1>2. RInv' /\ cot' = cot
  BY <1>1, PasoCiclo DEF EInv, vars
<1>3. QED
  BY <1>1, <1>2, CorreoIgual

\* A send goes on, keeping the link it has, or ends.
LEMMA AvanceEInv ==
    ASSUME EInv, NEW e \in Envios, NEW r \in Envio, Seguir(e, r), SinOtroCambio,
           r.fase \in Emitido =>
             /\ envio[e].fase \in Emitido
             /\ r.q = envio[e].q /\ r.hasta = envio[e].hasta
             /\ r.token = envio[e].token /\ r.n = envio[e].n
    PROVE  EInv'
<1>1. /\ envio' \in [Envios -> Envio] /\ envio'[e] = r
      /\ \A o \in Envios \ {e} : envio'[o] = envio[o]
  BY SeguirTipo DEF EInv
<1>2. \A o \in Envios : envio'[o].fase \in Emitido =>
        /\ envio[o].fase \in Emitido
        /\ envio'[o].q = envio[o].q /\ envio'[o].hasta = envio[o].hasta
        /\ envio'[o].token = envio[o].token /\ envio'[o].n = envio[o].n
  BY <1>1
<1>3. /\ UNCHANGED vars /\ UNCHANGED <<cot, emisiones, entregados, solapadas>>
      /\ UNCHANGED <<tenantActivo, correoConfigurado>>
  BY DEF SinOtroCambio, vars
<1>4. RInv'
  BY <1>3, PasoCiclo DEF EInv
<1>5. TypeOKEnvio'
  BY <1>1, <1>3, <1>4 DEF EInv, TypeOKEnvio, RInv, IInv
<1>6. UltimoGuardado' /\ EnlaceConfirmadoVale'
  BY <1>3 DEF EInv, Correo, UltimoGuardado, Ultimo, EnlaceConfirmadoVale
<1>7. Numerados' /\ SolapesVistos'
  BY <1>2, <1>3 DEF EInv, Correo, Numerados, SolapesVistos
<1>8. EnvioAlDia' /\ SinConfirmarAun'
  BY <1>2, <1>3 DEF EInv, Correo, EnvioAlDia, SinConfirmarAun
<1>9. QED
  BY <1>4, <1>5, <1>6, <1>7, <1>8 DEF EInv, Correo

\* What a send in flight holds.
LEMMA EnvioTipo ==
    ASSUME EInv, NEW e \in Envios
    PROVE  /\ envio[e] \in Envio
           /\ envio[e].fase # "libre" =>
                envio[e].q \in Cotizaciones /\ envio[e].hasta \in Nat
           /\ envio[e].fase \in Emitido => envio[e].token \in Tokens /\ envio[e].n \in Nat
BY FasesEnvio DEF EInv, TypeOKEnvio

\* The reads of the send, before its link and after, and its early ends.  The
\* date it settles is one the document has.
LEMMA LecturasEInv ==
    ASSUME EInv, NEW e \in Envios,
           \/ IniciarEnvio(e) \/ ComprobarTenant(e) \/ ComprobarCorreo(e)
           \/ FallarEmision(e) \/ RecomprobarTenant(e) \/ RecomprobarCorreo(e)
    PROVE  EInv'
<1> DEFINE r == envio[e]
<1>1. r \in Envio
  BY EnvioTipo
<1>2. CASE Seguir(e, Libre) /\ SinOtroCambio
  BY <1>2, LibreEnvio, AvanceEInv
<1>3. CASE IniciarEnvio(e)
  <2>1. PICK q \in Cotizaciones :
          /\ ResolveMagicExpiresAt(cot[q]) # Nulo
          /\ Seguir(e, [fase |-> "tenant", q |-> q,
                        hasta |-> ResolveMagicExpiresAt(cot[q])])
    BY <1>3 DEF IniciarEnvio
  <2>2. cot[q] \in Documento /\ TtlSinVigencia \in Nat
    BY ConstantesAssumption DEF EInv, RInv, IInv, TypeOK, ConstantesAssumption
  <2>3. ResolveMagicExpiresAt(cot[q]) \in Nat
    BY <2>1, <2>2 DEF ResolveMagicExpiresAt, Documento, Fecha
  <2>4. PICK h \in Nat : h = ResolveMagicExpiresAt(cot[q])
    BY <2>3
  <2> DEFINE s == [fase |-> "tenant", q |-> q, hasta |-> h]
  <2>5. s \in Envio /\ s.fase \notin Emitido
    BY DEF Envio, Preparado, Emitido
  <2>6. Seguir(e, s) /\ SinOtroCambio
    BY <1>3, <2>1, <2>4 DEF IniciarEnvio
  <2> HIDE DEF s
  <2>7. QED
    BY <2>5, <2>6, AvanceEInv
<1>4. ASSUME NEW f \in Preparado, r.fase \in Preparado,
             Seguir(e, [r EXCEPT !.fase = f]), SinOtroCambio
      PROVE  EInv'
  <2> DEFINE s == [r EXCEPT !.fase = f]
  <2>1. s \in Envio /\ s.fase \notin Emitido
    BY <1>1, <1>4, CambiarFase DEF Preparado, Emitido
  <2> HIDE DEF s
  <2>2. Seguir(e, s)
    BY <1>4 DEF s
  <2>3. QED
    BY <1>4, <2>1, <2>2, AvanceEInv
<1>5. ASSUME NEW f \in Emitido, r.fase \in Emitido,
             Seguir(e, [r EXCEPT !.fase = f]), SinOtroCambio
      PROVE  EInv'
  <2> DEFINE s == [r EXCEPT !.fase = f]
  <2>1. /\ s \in Envio /\ s.q = r.q /\ s.hasta = r.hasta
        /\ s.token = r.token /\ s.n = r.n
    BY <1>1, <1>5, CambiarFase
  <2> HIDE DEF s
  <2>2. Seguir(e, s)
    BY <1>5 DEF s
  <2>3. QED
    BY <1>5, <2>1, <2>2, AvanceEInv
<1>6. CASE ComprobarTenant(e) \/ ComprobarCorreo(e)
  <2>1. r.fase \in Preparado /\ SinOtroCambio
    BY <1>6 DEF ComprobarTenant, ComprobarCorreo, Comprobar, Preparado
  <2>2. \/ Seguir(e, Libre)
        \/ \E f \in Preparado : Seguir(e, [r EXCEPT !.fase = f])
    BY <1>6 DEF ComprobarTenant, ComprobarCorreo, Comprobar, Preparado
  <2> HIDE DEF r
  <2>3. QED
    BY <1>2, <1>4, <2>1, <2>2
<1>7. CASE RecomprobarTenant(e) \/ RecomprobarCorreo(e)
  <2>1. r.fase \in Emitido /\ SinOtroCambio
    BY <1>7 DEF RecomprobarTenant, RecomprobarCorreo, Recomprobar, Emitido
  <2>2. \E f \in Emitido : Seguir(e, [r EXCEPT !.fase = f])
    BY <1>7 DEF RecomprobarTenant, RecomprobarCorreo, Recomprobar, Emitido
  <2> HIDE DEF r
  <2>3. QED
    BY <1>5, <2>1, <2>2
<1>8. QED
  BY <1>2, <1>3, <1>6, <1>7 DEF FallarEmision

\* The new link becomes the last one and the one stored.  A send of the same
\* quotation that already holds a link makes the two overlapped.
LEMMA EmitirEInv ==
    ASSUME EInv, NEW e \in Envios, EmitirEnlace(e)
    PROVE  EInv' /\ UNCHANGED Ciclo!vars
<1>1. PICK q \in Cotizaciones, h \in Nat : q = envio[e].q /\ h = envio[e].hasta
  BY EnvioTipo DEF EmitirEnlace
<1>2. PICK tk \in Tokens :
        /\ cot' = [cot EXCEPT ![q] = ConEnlace(cot[q], tk, h)]
        /\ emisiones' = [emisiones EXCEPT ![q] = Append(emisiones[q], tk)]
        /\ Seguir(e, [fase |-> "smtpTenant", q |-> q, hasta |-> h,
                      token |-> tk, n |-> Len(emisiones[q]) + 1])
  BY <1>1 DEF EmitirEnlace
<1>3. PICK n \in Nat : n = Len(emisiones[q])
  BY DEF EInv, TypeOKEnvio
<1> DEFINE s == [fase |-> "smtpTenant", q |-> q, hasta |-> h, token |-> tk, n |-> n + 1]
<1>4. Seguir(e, s)
  BY <1>2, <1>3
<1>5. /\ s \in Envio /\ s.fase \in Emitido /\ s.q = q /\ s.hasta = h
      /\ s.token = tk /\ s.n = n + 1
  BY DEF Envio, Emitido
<1> HIDE DEF s
<1>6. /\ envio' \in [Envios -> Envio] /\ envio'[e] = s
      /\ \A o \in Envios \ {e} : envio'[o] = envio[o]
  BY <1>4, <1>5, SeguirTipo DEF EInv
<1>7. /\ UNCHANGED <<ahora, pet, barrido, epoca, avisados>>
      /\ UNCHANGED <<tenantActivo, correoConfigurado, entregados>>
  BY DEF EmitirEnlace
<1>8. /\ RInv' /\ UNCHANGED Ciclo!vars
      /\ cot'[q].magicToken = tk /\ cot'[q].magicTokenExpiresAt = h
      /\ \A x \in Cotizaciones \ {q} : cot'[x] = cot[x]
  BY <1>2, <1>7, EscrituraEnlace DEF EInv, Fecha
<1>9. /\ emisiones' \in [Cotizaciones -> Seq(Tokens)]
      /\ \A x \in Cotizaciones \ {q} : emisiones'[x] = emisiones[x]
      /\ Len(emisiones'[q]) = n + 1 /\ Ultimo(q)' = tk
  <2>1. /\ emisiones \in [Cotizaciones -> Seq(Tokens)]
        /\ Append(emisiones[q], tk) \in Seq(Tokens)
        /\ Len(Append(emisiones[q], tk)) = n + 1
        /\ Append(emisiones[q], tk)[n + 1] = tk
    BY <1>3 DEF EInv, TypeOKEnvio
  <2>2. emisiones'[q] = Append(emisiones[q], tk)
    BY <1>2, <2>1
  <2>3. QED
    BY <1>2, <2>1, <2>2 DEF Ultimo
<1>10. /\ solapadas \subseteq solapadas' /\ solapadas' \subseteq solapadas \cup {q}
       /\ \A o \in Envios \ {e} :
            envio[o].fase \in Emitido /\ envio[o].q = q => q \in solapadas'
  BY <1>1 DEF EmitirEnlace
<1>11. TypeOKEnvio'
  BY <1>6, <1>7, <1>8, <1>9, <1>10 DEF EInv, TypeOKEnvio, RInv, IInv
<1>12. UltimoGuardado'
  BY <1>3, <1>8, <1>9 DEF EInv, Correo, UltimoGuardado, Ultimo
<1>13. /\ \A o \in Envios : envio[o].fase \in Emitido =>
            envio[o].q \in Cotizaciones /\ envio[o].n \in Nat
       /\ \A l \in entregados : l.q \in Cotizaciones /\ l.n \in Nat
  BY EnvioTipo DEF EInv, TypeOKEnvio, Enlace, Emitido
<1>14. /\ \A o \in Envios : envio[o].fase \in Emitido => envio[o].n <= Len(emisiones[envio[o].q])
       /\ \A l \in entregados : l.n <= Len(emisiones[l.q])
  BY DEF EInv, Correo, Numerados
<1>15. /\ \A x \in Cotizaciones : Len(emisiones[x]) \in Nat
       /\ \A x \in Cotizaciones : Len(emisiones'[x]) \in Nat
  BY <1>9 DEF EInv, TypeOKEnvio
<1>16. \A x \in Cotizaciones : Len(emisiones[x]) <= Len(emisiones'[x])
  BY <1>3, <1>9, <1>15
<1>17. Numerados'
  <2>1. ASSUME NEW o \in Envios, envio'[o].fase \in Emitido
        PROVE  envio'[o].n <= Len(emisiones'[envio'[o].q])
    <3>1. CASE o = e
      BY <1>5, <1>6, <1>9, <3>1
    <3>2. CASE o # e
      BY <1>6, <1>13, <1>14, <1>15, <1>16, <2>1, <3>2
    <3>3. QED
      BY <3>1, <3>2
  <2>2. ASSUME NEW l \in entregados
        PROVE  l.n <= Len(emisiones'[l.q])
    BY <1>13, <1>14, <1>15, <1>16
  <2>3. QED
    BY <1>7, <2>1, <2>2 DEF Numerados
<1>18. SolapesVistos'
  <2>1. SUFFICES ASSUME NEW a \in Envios, NEW o \in Envios, a # o,
                        envio'[a].fase \in Emitido, envio'[o].fase \in Emitido,
                        envio'[a].q = envio'[o].q
                 PROVE  envio'[a].q \in solapadas'
    BY DEF SolapesVistos
  <2>2. CASE a = e
    BY <1>5, <1>6, <1>10, <2>1, <2>2
  <2>3. CASE o = e
    BY <1>5, <1>6, <1>10, <2>1, <2>3
  <2>4. CASE a # e /\ o # e
    BY <1>6, <1>10, <2>1, <2>4 DEF EInv, Correo, SolapesVistos
  <2>5. QED
    BY <2>2, <2>3, <2>4
\* A send other than e that the invariant speaks of is of another quotation.
<1>19. ASSUME NEW o \in Envios, o # e, envio'[o].fase \in Emitido,
              envio'[o].q \notin solapadas'
       PROVE  /\ envio'[o] = envio[o] /\ envio[o].q \in Cotizaciones \ {q}
              /\ envio[o].q \notin solapadas
  BY <1>6, <1>10, <1>13, <1>19
<1>20. EnvioAlDia'
  <2>1. SUFFICES ASSUME NEW o \in Envios, envio'[o].fase \in Emitido,
                        envio'[o].q \notin solapadas'
                 PROVE  /\ envio'[o].n = Len(emisiones'[envio'[o].q])
                        /\ cot'[envio'[o].q].magicToken = envio'[o].token
                        /\ cot'[envio'[o].q].magicTokenExpiresAt = envio'[o].hasta
    BY DEF EnvioAlDia
  <2>2. CASE o = e
    BY <1>5, <1>6, <1>8, <1>9, <2>2
  <2>3. CASE o # e
    <3>1. /\ envio'[o] = envio[o] /\ envio[o].q \in Cotizaciones \ {q}
          /\ envio[o].q \notin solapadas
      BY <1>19, <2>1, <2>3
    <3>2. /\ envio[o].n = Len(emisiones[envio[o].q])
          /\ cot[envio[o].q].magicToken = envio[o].token
          /\ cot[envio[o].q].magicTokenExpiresAt = envio[o].hasta
      BY <2>1, <3>1 DEF EInv, Correo, EnvioAlDia
    <3>3. QED
      BY <1>8, <1>9, <3>1, <3>2
  <2>4. QED
    BY <2>2, <2>3
<1>21. SinConfirmarAun'
  <2>1. SUFFICES ASSUME NEW o \in Envios, NEW l \in entregados,
                        envio'[o].fase \in Emitido, envio'[o].q \notin solapadas',
                        l.ok, l.q = envio'[o].q
                 PROVE  l.n # envio'[o].n
    BY <1>7 DEF SinConfirmarAun
  <2>2. CASE o = e
    <3>1. envio'[o].n = n + 1 /\ l.q = q
      BY <1>5, <1>6, <2>1, <2>2
    <3>2. l.n \in Nat /\ l.n <= n
      BY <1>3, <1>13, <1>14, <3>1
    <3>3. QED
      BY <3>1, <3>2
  <2>3. CASE o # e
    BY <1>19, <2>1, <2>3 DEF EInv, Correo, SinConfirmarAun
  <2>4. QED
    BY <2>2, <2>3
<1>22. EnlaceConfirmadoVale'
  <2>1. SUFFICES ASSUME NEW l \in entregados, l.ok, l.q \notin solapadas',
                        l.n = Len(emisiones'[l.q])
                 PROVE  /\ cot'[l.q].magicToken = l.token
                        /\ cot'[l.q].magicTokenExpiresAt = l.hasta
    BY <1>7 DEF EnlaceConfirmadoVale
  <2>2. l.q # q
    <3>1. ASSUME l.q = q PROVE FALSE
      <4>1. l.n \in Nat /\ l.n <= n /\ l.n = n + 1
        BY <1>3, <1>9, <1>13, <1>14, <2>1, <3>1
      <4>2. QED
        BY <4>1
    <3>2. QED
      BY <3>1
  <2>3. QED
    BY <1>8, <1>9, <1>10, <1>13, <2>1, <2>2 DEF EInv, Correo, EnlaceConfirmadoVale
<1>23. QED
  BY <1>8, <1>11, <1>12, <1>17, <1>18, <1>20, <1>21, <1>22 DEF EInv, Correo

\* A failed send removes the link of its quotation: not a confirmed one, unless
\* sends overlapped.
LEMMA LimpiarEInv ==
    ASSUME EInv, NEW e \in Envios, LimpiarEnlace(e)
    PROVE  EInv' /\ UNCHANGED Ciclo!vars
<1>1. /\ envio[e].fase \in Emitido /\ Seguir(e, Libre)
      /\ UNCHANGED <<ahora, pet, barrido, epoca, avisados>>
      /\ UNCHANGED <<tenantActivo, correoConfigurado, emisiones, entregados, solapadas>>
  BY DEF LimpiarEnlace, Emitido
<1>2. CASE UNCHANGED cot
  <2>1. SinOtroCambio
    BY <1>1, <1>2 DEF SinOtroCambio, vars
  <2>2. QED
    BY <1>1, <1>2, <2>1, LibreEnvio, AvanceEInv, MapaQuieto
<1>3. CASE ~UNCHANGED cot
  <2>1. PICK q \in Cotizaciones : q = envio[e].q
    BY <1>1, EnvioTipo DEF Emitido
  <2>2. cot' = [cot EXCEPT ![q] = ConEnlace(cot[q], Nulo, Nulo)]
    BY <1>3, <2>1 DEF LimpiarEnlace
  <2>3. /\ RInv' /\ UNCHANGED Ciclo!vars
        /\ cot'[q].magicToken = Nulo
        /\ \A x \in Cotizaciones \ {q} : cot'[x] = cot[x]
    BY <1>1, <2>2, EscrituraEnlace DEF EInv, Fecha
  <2>4. /\ envio' \in [Envios -> Envio] /\ envio'[e] = Libre
        /\ \A o \in Envios \ {e} : envio'[o] = envio[o]
    BY <1>1, LibreEnvio, SeguirTipo DEF EInv
  <2>5. TypeOKEnvio'
    BY <1>1, <2>3, <2>4 DEF EInv, TypeOKEnvio, RInv, IInv
  <2>6. \A o \in Envios : envio'[o].fase \in Emitido =>
          /\ o # e /\ envio'[o] = envio[o] /\ envio[o].q \in Cotizaciones
    BY <2>4, LibreEnvio, EnvioTipo DEF Emitido
  <2>7. UltimoGuardado'
    BY <1>1, <2>3 DEF EInv, Correo, UltimoGuardado, Ultimo
  <2>8. Numerados' /\ SolapesVistos' /\ SinConfirmarAun'
    BY <1>1, <2>6 DEF EInv, Correo, Numerados, SolapesVistos, SinConfirmarAun
  <2>9. EnvioAlDia'
    <3>1. SUFFICES ASSUME NEW o \in Envios, envio'[o].fase \in Emitido,
                          envio'[o].q \notin solapadas
                   PROVE  /\ envio'[o].n = Len(emisiones[envio'[o].q])
                          /\ cot'[envio'[o].q].magicToken = envio'[o].token
                          /\ cot'[envio'[o].q].magicTokenExpiresAt = envio'[o].hasta
      BY <1>1 DEF EnvioAlDia
    <3>2. o # e /\ envio'[o] = envio[o] /\ envio[o].q \in Cotizaciones
      BY <2>6, <3>1
    <3>3. envio[o].q # q
      BY <1>1, <2>1, <3>1, <3>2 DEF EInv, Correo, SolapesVistos
    <3>4. QED
      BY <2>3, <3>1, <3>2, <3>3 DEF EInv, Correo, EnvioAlDia
  <2>10. EnlaceConfirmadoVale'
    <3>1. SUFFICES ASSUME NEW l \in entregados, l.ok, l.q \notin solapadas,
                          l.n = Len(emisiones[l.q])
                   PROVE  /\ cot'[l.q].magicToken = l.token
                          /\ cot'[l.q].magicTokenExpiresAt = l.hasta
      BY <1>1 DEF EnlaceConfirmadoVale
    <3>2. l.q \in Cotizaciones
      BY DEF EInv, TypeOKEnvio, Enlace
    <3>3. l.q # q
      BY <1>1, <2>1, <3>1 DEF EInv, Correo, EnvioAlDia, SinConfirmarAun
    <3>4. QED
      BY <2>3, <3>1, <3>2, <3>3 DEF EInv, Correo, EnlaceConfirmadoVale
  <2>11. QED
    BY <2>3, <2>5, <2>7, <2>8, <2>9, <2>10 DEF EInv, Correo
<1>4. QED
  BY <1>2, <1>3

\* A confirmed mail carries the link its quotation has, unless sends overlapped.
LEMMA EnviarSmtpEInv ==
    ASSUME EInv, NEW e \in Envios, EnviarSmtp(e)
    PROVE  EInv'
<1> DEFINE r == envio[e]
           l(ok) == [q |-> r.q, token |-> r.token, hasta |-> r.hasta, n |-> r.n, ok |-> ok]
<1>1. /\ r \in Envio /\ r.fase \in Emitido
      /\ r.q \in Cotizaciones /\ r.hasta \in Nat /\ r.token \in Tokens /\ r.n \in Nat
  BY EnvioTipo DEF EnviarSmtp, Emitido
<1>2. /\ UNCHANGED vars
      /\ UNCHANGED <<cot, tenantActivo, correoConfigurado, emisiones, solapadas>>
  BY DEF EnviarSmtp, vars
<1>3. RInv'
  BY <1>2, PasoCiclo DEF EInv
<1>4. PICK s \in Envio, ok \in BOOLEAN :
        /\ Seguir(e, s)
        /\ entregados' = entregados \/ entregados' = entregados \cup {l(ok)}
        /\ s.fase \in Emitido => /\ s.q = r.q /\ s.hasta = r.hasta
                                 /\ s.token = r.token /\ s.n = r.n
                                 /\ ok = FALSE
  <2> DEFINE m == [r EXCEPT !.fase = "limpiar"]
  <2>1. m \in Envio /\ m.q = r.q /\ m.hasta = r.hasta /\ m.token = r.token /\ m.n = r.n
    BY <1>1, CambiarFase DEF Emitido
  <2>2. \/ entregados' = entregados \cup {l(TRUE)} /\ Seguir(e, Libre)
        \/ entregados' \in {entregados, entregados \cup {l(FALSE)}} /\ Seguir(e, m)
    BY DEF EnviarSmtp
  <2> HIDE DEF l, m
  <2>3. QED
    BY <2>1, <2>2, LibreEnvio
<1>5. /\ envio' \in [Envios -> Envio] /\ envio'[e] = s
      /\ \A o \in Envios \ {e} : envio'[o] = envio[o]
  BY <1>4, SeguirTipo DEF EInv
<1>6. /\ l(ok) \in Enlace /\ l(ok).q = r.q /\ l(ok).token = r.token
      /\ l(ok).hasta = r.hasta /\ l(ok).n = r.n /\ l(ok).ok = ok
  BY <1>1 DEF Enlace
<1> HIDE DEF l
<1>7. \A x \in entregados' : x \in entregados \/ x = l(ok)
  BY <1>4
<1>8. TypeOKEnvio'
  BY <1>2, <1>3, <1>5, <1>6, <1>7 DEF EInv, TypeOKEnvio, RInv, IInv
<1>9. \A o \in Envios : envio'[o].fase \in Emitido =>
        /\ envio[o].fase \in Emitido
        /\ envio'[o].q = envio[o].q /\ envio'[o].hasta = envio[o].hasta
        /\ envio'[o].token = envio[o].token /\ envio'[o].n = envio[o].n
        /\ o = e => ~ok
  BY <1>1, <1>4, <1>5
<1>10. UltimoGuardado'
  BY <1>2 DEF EInv, Correo, UltimoGuardado, Ultimo
<1>11. SolapesVistos' /\ EnvioAlDia'
  BY <1>2, <1>9 DEF EInv, Correo, SolapesVistos, EnvioAlDia
<1>12. Numerados'
  BY <1>1, <1>2, <1>6, <1>7, <1>9 DEF EInv, Correo, Numerados
<1>13. SinConfirmarAun'
  <2>1. SUFFICES ASSUME NEW o \in Envios, NEW x \in entregados',
                        envio'[o].fase \in Emitido, envio'[o].q \notin solapadas,
                        x.ok, x.q = envio'[o].q
                 PROVE  x.n # envio'[o].n
    BY <1>2 DEF SinConfirmarAun
  <2>2. CASE x \in entregados
    BY <1>9, <2>1, <2>2 DEF EInv, Correo, SinConfirmarAun
  <2>3. CASE x = l(ok)
    <3>1. o # e /\ envio[o].fase \in Emitido /\ envio[o].q = r.q /\ envio[o].q \notin solapadas
      BY <1>6, <1>9, <2>1, <2>3
    <3>2. QED
      BY <1>1, <3>1 DEF EInv, Correo, SolapesVistos
  <2>4. QED
    BY <1>7, <2>2, <2>3
<1>14. EnlaceConfirmadoVale'
  <2>1. SUFFICES ASSUME NEW x \in entregados', x.ok, x.q \notin solapadas,
                        x.n = Len(emisiones[x.q])
                 PROVE  cot[x.q].magicToken = x.token /\ cot[x.q].magicTokenExpiresAt = x.hasta
    BY <1>2 DEF EnlaceConfirmadoVale
  <2>2. CASE x \in entregados
    BY <2>1, <2>2 DEF EInv, Correo, EnlaceConfirmadoVale
  <2>3. CASE x = l(ok)
    BY <1>1, <1>6, <2>1, <2>3 DEF EInv, Correo, EnvioAlDia
  <2>4. QED
    BY <1>7, <2>2, <2>3
<1>15. QED
  BY <1>3, <1>8, <1>10, <1>11, <1>12, <1>13, <1>14 DEF EInv, Correo

\* Every step keeps the invariant, and is a step of the life cycle or a stutter of it.
LEMMA PasoEInv ==
    ASSUME EInv, [NextEnvio]_varsEnvio
    PROVE  EInv' /\ [Ciclo!Next]_(Ciclo!vars)
<1>1. ASSUME [Next]_vars, UNCHANGED varsCorreo
      PROVE  EInv' /\ [Ciclo!Next]_(Ciclo!vars)
  BY <1>1, CicloEInv, PasoCiclo DEF EInv
<1>2. ASSUME UNCHANGED vars
      PROVE  UNCHANGED Ciclo!vars
  BY <1>2, MapaQuieto DEF vars
<1>3. CASE SetActivo \/ UpdateEmailConfig
  <2>1. UNCHANGED vars
    BY <1>3 DEF SetActivo, UpdateEmailConfig
  <2>2. QED
    BY <1>2, <1>3, <2>1, InquilinoEInv
<1>4. ASSUME NEW e \in Envios,
             \/ IniciarEnvio(e) \/ ComprobarTenant(e) \/ ComprobarCorreo(e)
             \/ FallarEmision(e) \/ RecomprobarTenant(e) \/ RecomprobarCorreo(e)
             \/ EnviarSmtp(e)
      PROVE  EInv' /\ [Ciclo!Next]_(Ciclo!vars)
  <2>1. UNCHANGED vars
    BY <1>4 DEF IniciarEnvio, ComprobarTenant, ComprobarCorreo, Comprobar, FallarEmision,
       RecomprobarTenant, RecomprobarCorreo, Recomprobar, EnviarSmtp, SinOtroCambio
  <2>2. EInv'
    BY <1>4, LecturasEInv, EnviarSmtpEInv
  <2>3. QED
    BY <1>2, <2>1, <2>2
<1>5. ASSUME NEW e \in Envios, EmitirEnlace(e) \/ LimpiarEnlace(e)
      PROVE  EInv' /\ [Ciclo!Next]_(Ciclo!vars)
  BY <1>5, EmitirEInv, LimpiarEInv
<1>6. CASE UNCHANGED varsEnvio
  BY <1>1, <1>6 DEF varsEnvio
<1>7. QED
  BY <1>1, <1>3, <1>4, <1>5, <1>6 DEF NextEnvio

\* Writing or removing a link decides nothing.
LEMMA EstadosQuietos ==
    ASSUME EInv, NEW e \in Envios, EmitirEnlace(e) \/ LimpiarEnlace(e)
    PROVE  \A x \in Cotizaciones : cot'[x].estado = cot[x].estado
<1>1. PICK q \in Cotizaciones, h \in Fecha :
        q = envio[e].q /\ (EmitirEnlace(e) => h = envio[e].hasta)
  BY EnvioTipo DEF EmitirEnlace, LimpiarEnlace, Fecha
<1>2. \/ UNCHANGED cot
      \/ \E tk \in Tokens : cot' = [cot EXCEPT ![q] = ConEnlace(cot[q], tk, h)]
      \/ cot' = [cot EXCEPT ![q] = ConEnlace(cot[q], Nulo, Nulo)]
  BY <1>1 DEF EmitirEnlace, LimpiarEnlace
<1>3. UNCHANGED <<ahora, pet, barrido, epoca, avisados>>
  BY DEF EmitirEnlace, LimpiarEnlace
<1>4. QED
  BY <1>2, <1>3, EscrituraEnlace DEF EInv, Fecha

\* The customer's decision is written only by AplicarRespuesta.
LEMMA DecisionPorEnlace ==
    ASSUME EInv, [Next]_vars, NEW q \in Cotizaciones,
           cot'[q].estadoOrigen = "magic_link", cot'[q].estado # cot[q].estado
    PROVE  /\ cot[q].magicToken = Ultimo(q)
           /\ \E p \in Peticiones :
                /\ pet[p].fase = "responder" /\ pet'[p].fase = "avisar"
                /\ pet[p].token = cot[q].magicToken
<1>1. TypeOK /\ \A x \in Cotizaciones : cot[x] \in Documento
  BY DEF EInv, RInv, IInv, TypeOK
<1>2. cot' # cot
  OBVIOUS
<1>3. ASSUME NEW p \in Peticiones, AplicarManual(p)
      PROVE  FALSE
  <2> DEFINE r == pet[p]
             d == DocManual(cot[r.q], r.nuevo, r.actor, r.t, r.fecha)
  <2>1. r.q \in Cotizaciones
    BY <1>1, <1>3, FasesTipo DEF AplicarManual, TypeOK
  <2>2. d.estadoOrigen = "usuario"
    BY <1>1, <2>1 DEF DocManual, Documento
  <2>3. cot' = cot \/ cot' = [cot EXCEPT ![r.q] = d]
    BY <1>3 DEF AplicarManual
  <2> HIDE DEF d, r
  <2>4. QED
    BY <1>1, <1>2, <2>1, <2>2, <2>3 DEF TypeOK
<1>4. ASSUME NEW p \in Peticiones, EscribirResto(p)
      PROVE  FALSE
  <2> DEFINE r == pet[p]
             d == [cot[r.q] EXCEPT !.fechaVencimiento = r.resto]
  <2>1. r.q \in Cotizaciones
    BY <1>1, <1>4, FasesTipo DEF EscribirResto, TypeOK
  <2>2. d.estado = cot[r.q].estado
    BY <1>1, <2>1 DEF Documento
  <2>3. cot' = [cot EXCEPT ![r.q] = d]
    BY <1>4 DEF EscribirResto
  <2> HIDE DEF d, r
  <2>4. QED
    BY <1>1, <2>1, <2>2, <2>3 DEF TypeOK
<1>5. ASSUME NEW b \in Barridos, NEW x \in Cotizaciones, BarrerDocumento(b, x)
      PROVE  FALSE
  <2>1. DocVencido(cot[x]).estadoOrigen = "cron"
    BY <1>1, CamposVencido
  <2>2. cot' = cot \/ cot' = [cot EXCEPT ![x] = DocVencido(cot[x])]
    BY <1>5 DEF BarrerDocumento
  <2>3. QED
    BY <1>1, <1>2, <2>1, <2>2 DEF TypeOK
<1>6. \A p \in Peticiones :
        /\ ~CambiarEstado(p) /\ ~Actualizar(p) /\ ~ResponderEnlace(p)
        /\ ~LeerManual(p) /\ ~PrepararManual(p)
        /\ ~ReleerRespuesta(p) /\ ~Avisar(p) /\ ~Cerrar(p)
  BY <1>2 DEF CambiarEstado, Actualizar, ResponderEnlace, LeerManual,
     PrepararManual, ReleerRespuesta, Avisar, Cerrar
<1>7. ~Tick /\ ~(UNCHANGED vars) /\ \A b \in Barridos : ~IniciarBarrido(b)
  BY <1>2 DEF Tick, vars, IniciarBarrido
<1>8. PICK p \in Peticiones : AplicarRespuesta(p)
  BY <1>3, <1>4, <1>5, <1>6, <1>7 DEF Next, Continuar
<1>9. PICK x \in Cotizaciones :
        /\ FiltroRespuesta(cot[x], pet[p].token, pet[p].t)
        /\ cot' = [cot EXCEPT ![x] = DocRespondido(cot[x], pet[p].nuevo, pet[p].t)]
        /\ Pasar(p, [fase |-> "avisar", q |-> x, nuevo |-> pet[p].nuevo,
                     epoca |-> epoca[x]])
  BY <1>2, <1>8 DEF AplicarRespuesta
<1>10. x = q
  BY <1>1, <1>9 DEF TypeOK
<1>11. pet[p].fase = "responder" /\ pet'[p].fase = "avisar"
  BY <1>1, <1>8, <1>9 DEF AplicarRespuesta, Pasar, TypeOK
<1>12. cot[q].magicToken = pet[p].token /\ pet[p].token \in Tokens
  BY <1>1, <1>9, <1>10, <1>11, FasesTipo DEF FiltroRespuesta, TypeOK
<1>13. cot[q].magicToken # Nulo
  BY <1>12, ConstantesAssumption DEF ConstantesAssumption
<1>14. QED
  BY <1>11, <1>12, <1>13 DEF EInv, Correo, UltimoGuardado

-----------------------------------------------------------------------------
(* The theorems about the sends *)

\* The inductive invariant holds in every state the service reaches.
THEOREM InvarianteEnvio == SpecEnvio => []EInv
<1>1. EInv /\ [NextEnvio]_varsEnvio => EInv'
  BY PasoEInv
<1>2. QED
  BY InicioEInv, <1>1, PTL DEF SpecEnvio

\* Documents, requests, sends and links keep their types; in particular, no link
\* is issued for a quotation without a date for it.
THEOREM TiposEnvio == SpecEnvio => []TypeOKEnvio
<1>1. EInv => TypeOKEnvio
  BY DEF EInv
<1>2. QED
  BY InvarianteEnvio, <1>1, PTL

\* The link of the last mail that was confirmed works until the date the mail
\* names, unless two sends of the quotation overlapped: no other writer of the
\* document, no failed send and no clean-up removes or replaces it.
THEOREM EnlacesConfirmados == SpecEnvio => []EnlaceConfirmadoVale
<1>1. EInv => EnlaceConfirmadoVale
  BY DEF EInv, Correo
<1>2. QED
  BY InvarianteEnvio, <1>1, PTL

\* A decision of the customer comes in through the last link issued and no other.
THEOREM SoloElUltimoEnlace == SpecEnvio => DecideElUltimoEnlace
<1> DEFINE Decide ==
        \A q \in Cotizaciones :
          cot'[q].estadoOrigen = "magic_link" /\ cot'[q].estado # cot[q].estado =>
            /\ cot[q].magicToken = emisiones[q][Len(emisiones[q])]
            /\ \E p \in Peticiones :
                 /\ pet[p].fase = "responder" /\ pet'[p].fase = "avisar"
                 /\ pet[p].token = cot[q].magicToken
<1>1. ASSUME EInv, [NextEnvio]_varsEnvio
      PROVE  [Decide]_varsEnvio
  <2>1. ASSUME [Next]_vars
        PROVE  Decide
    BY <1>1, <2>1, DecisionPorEnlace DEF Ultimo
  <2>2. ASSUME NEW e \in Envios, EmitirEnlace(e) \/ LimpiarEnlace(e)
        PROVE  Decide
    BY <1>1, <2>2, EstadosQuietos
  <2>3. ASSUME SetActivo \/ UpdateEmailConfig \/ \E e \in Envios :
                 \/ IniciarEnvio(e) \/ ComprobarTenant(e) \/ ComprobarCorreo(e)
                 \/ FallarEmision(e) \/ RecomprobarTenant(e) \/ RecomprobarCorreo(e)
                 \/ EnviarSmtp(e)
        PROVE  UNCHANGED vars
    BY <2>3 DEF SetActivo, UpdateEmailConfig, IniciarEnvio, ComprobarTenant,
       ComprobarCorreo, Comprobar, FallarEmision, RecomprobarTenant,
       RecomprobarCorreo, Recomprobar, EnviarSmtp, SinOtroCambio
  <2> HIDE DEF Decide
  <2>4. QED
    BY <1>1, <2>1, <2>2, <2>3 DEF NextEnvio
<1>2. QED
  BY InvarianteEnvio, <1>1, PTL DEF SpecEnvio, DecideElUltimoEnlace

\* Composed with the sends, the quotation still lives the cycle of CicloCotizacion.
THEOREM CicloConEnvios == SpecEnvio => CumpleCiclo
<1>1. InitEnvio => Ciclo!Init
  BY InicioCiclo DEF InitEnvio
<1>2. EInv /\ [NextEnvio]_varsEnvio => [Ciclo!Next]_(Ciclo!vars)
  BY PasoEInv
<1>3. QED
  BY InvarianteEnvio, <1>1, <1>2, PTL DEF SpecEnvio, CumpleCiclo, Ciclo!Spec
=============================================================================
