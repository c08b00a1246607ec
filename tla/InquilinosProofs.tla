--------------------------- MODULE InquilinosProofs ---------------------------
(***************************************************************************)
(* What Inquilinos keeps for any number of tenants, mails, templates,      *)
(* requests in flight and failures.                                        *)
(*                                                                         *)
(* The argument: an onboarding past its first write is the only one on its *)
(* tenant, so what it has written there stays until it answers or deletes  *)
(* it (Propia); whatever others do in the tenant meanwhile is friendly     *)
(* (Amable): it adds to the tenant, and leaves a trace in ajenos.          *)
(***************************************************************************)
EXTENDS Inquilinos, FiniteSetTheorems, TLAPS

-----------------------------------------------------------------------------
(* The inductive invariant *)

Onboarding(r) == r.op = "onboard" /\ r.t # Nulo

\* What the phase of a request says of its fields.
Forma(r) ==
    /\ r.op = "onboard" =>
         /\ r.t = Nulo <=> r.fase = "crear"
         /\ r.correo \in Correos
         /\ r.fase \in {"crear", "config", "releerConfig", "semillas", "releer", "correo",
                        "tenant", "guardar", "compPlantillas", "compConfig", "compTenant"}
    /\ r.op = "register" =>
         r.t = Nulo /\ r.correo \in Correos /\ r.fase \in {"contar", "correo", "guardar"}
    /\ r.op = "editarConfig" =>
         r.t # Nulo /\ r.aTiempo /\ r.fase \in {"config", "releerConfig", "escribirConfig"}
    /\ r.op = "crearUsuario" =>
         /\ r.t # Nulo /\ r.aTiempo /\ r.correo \in Correos
         /\ r.fase \in {"correo", "tenant", "guardar"}
    /\ r.op = Nulo => r.t = Nulo /\ r.fase = "libre"
    /\ r.fase = "crear" => r.clave \in Claves
    /\ r.fase \in {"crear", "config", "releerConfig"} => r.n = 0

\* An onboarding past its first write finds in its tenant what it has done so far.
Propia(r) ==
    /\ resultado[r.t] = "en curso" /\ tenant[r.t] # Nulo
    /\ r.fase = "semillas" => config[r.t] # Nulo /\ 1..r.n \subseteq semilla[r.t]
    /\ r.fase \in {"releer", "correo", "tenant", "guardar"} =>
         config[r.t] # Nulo /\ semilla[r.t] = Semillas
    /\ r.fase \in {"compConfig", "compTenant"} /\ ~r.errores => semilla[r.t] = {}
    /\ r.fase = "compTenant" /\ ~r.errores /\ config[r.t] # Nulo => <<"config">> \in ajenos[r.t]

Unicas ==
    \A p, q \in Peticiones :
        Onboarding(pet[p]) /\ Onboarding(pet[q]) /\ pet[p].t = pet[q].t => p = q

\* What is known of a tenant whose onboarding has ended, and of its users.
Inquilino(t) ==
    /\ resultado[t] = "rechazado" =>
         /\ tenant[t] = Nulo /\ semilla[t] = {}
         /\ config[t] # Nulo => <<"config">> \in ajenos[t]
    /\ resultado[t] = "creado" =>
         /\ tenant[t] # Nulo /\ config[t] # Nulo /\ semilla[t] = Semillas
         /\ \E c \in Correos : usuario[c] # Nulo /\ usuario[c].tenant = t
    /\ \A c \in Correos : usuario[c] # Nulo /\ usuario[c].tenant = t =>
         resultado[t] = "creado" \/ <<"usuario", c>> \in ajenos[t]

IInv ==
    /\ TypeOK
    /\ \A p \in Peticiones : Forma(pet[p])
    /\ \A p \in Peticiones : Onboarding(pet[p]) => Propia(pet[p])
    /\ Unicas
    /\ \A t \in Tenants : Inquilino(t)

-----------------------------------------------------------------------------
(* Friendly steps *)

\* A step that others may take in a tenant: it deletes nothing, and ajenos has what
\* it adds.
Amable(t) ==
    /\ resultado'[t] = resultado[t] /\ semilla'[t] = semilla[t]
    /\ tenant[t] = Nulo <=> tenant'[t] = Nulo
    /\ config[t] # Nulo => config'[t] # Nulo
    /\ config[t] = Nulo /\ config'[t] # Nulo => <<"config">> \in ajenos'[t]
    /\ ajenos[t] \subseteq ajenos'[t]
    /\ \A c \in Correos :
        \/ usuario'[c] = usuario[c]
        \/ usuario[c] = Nulo /\ (usuario'[c].tenant = t => <<"usuario", c>> \in ajenos'[t])

\* What is stored of the tenants, and its history.
TiposDatos ==
    /\ tenant \in [Tenants -> Tenant \cup {Nulo}]
    /\ config \in [Tenants -> Contenido \cup {Nulo}]
    /\ semilla \in [Tenants -> SUBSET Semillas]
    /\ usuario \in [Correos -> Usuario \cup {Nulo}]
    /\ resultado \in [Tenants -> {"nuevo", "en curso", "creado", "rechazado", "incompleta"}]
    /\ ajenos \in [Tenants -> SUBSET Escritos]

LEMMA AmablePropia ==
    ASSUME NEW r \in Peticion, r.t \in Tenants, Amable(r.t), Propia(r)
    PROVE  Propia(r)'
<1> DEFINE t == r.t
<1>1. tenant'[t] # Nulo /\ resultado'[t] = resultado[t] /\ semilla'[t] = semilla[t]
  BY DEF Amable, Propia
<1>2. config[t] # Nulo => config'[t] # Nulo
  BY DEF Amable
<1>3. config'[t] # Nulo => (config[t] # Nulo /\ (<<"config">> \in ajenos[t] => <<"config">> \in ajenos'[t]))
                            \/ <<"config">> \in ajenos'[t]
  BY DEF Amable
<1>4. QED
  BY <1>1, <1>2, <1>3 DEF Propia

LEMMA AmableInquilino ==
    ASSUME NEW t \in Tenants, Amable(t), Inquilino(t)
    PROVE  Inquilino(t)'
<1>1. resultado'[t] = "rechazado" =>
        /\ tenant'[t] = Nulo /\ semilla'[t] = {}
        /\ config'[t] # Nulo => <<"config">> \in ajenos'[t]
  BY DEF Amable, Inquilino
<1>2. resultado'[t] = "creado" =>
        /\ tenant'[t] # Nulo /\ config'[t] # Nulo /\ semilla'[t] = Semillas
        /\ \E c \in Correos : usuario'[c] # Nulo /\ usuario'[c].tenant = t
  BY DEF Amable, Inquilino
<1>3. ASSUME NEW c \in Correos, usuario'[c] # Nulo, usuario'[c].tenant = t
      PROVE  resultado'[t] = "creado" \/ <<"usuario", c>> \in ajenos'[t]
  <2>1. CASE usuario'[c] = usuario[c]
    BY <1>3, <2>1 DEF Amable, Inquilino
  <2>2. CASE usuario'[c] # usuario[c]
    BY <1>3, <2>2 DEF Amable
  <2>3. QED
    BY <2>1, <2>2
<1>4. QED
  BY <1>1, <1>2, <1>3 DEF Inquilino

\* A step of p that is friendly to all tenants but X, where no other request is
\* onboarding.
LEMMA PasoDe ==
    ASSUME IInv, NEW p \in Peticiones, NEW r \in Peticion, Pasar(p, r), Forma(r),
           NEW X \in SUBSET Tenants,
           TiposDatos', fallos' \in 0..MaxFallos, solape' \in BOOLEAN,
           \A q \in Peticiones \ {p} : Onboarding(pet[q]) => pet[q].t \notin X,
           \A t \in Tenants \ X : Amable(t),
           \A t \in X : Inquilino(t)',
           Onboarding(r) => r.t \in X /\ Propia(r)'
    PROVE  IInv'
<1>1. /\ pet' \in [Peticiones -> Peticion] /\ pet'[p] = r
      /\ \A q \in Peticiones \ {p} : pet'[q] = pet[q] /\ pet[q] \in Peticion
  BY DEF IInv, TypeOK, Pasar
<1>2. TypeOK'
  BY <1>1 DEF TypeOK, TiposDatos
<1>3. \A q \in Peticiones : Forma(pet'[q])
  BY <1>1 DEF IInv
<1>4. ASSUME NEW q \in Peticiones, Onboarding(pet'[q]) PROVE Propia(pet[q])'
  <2>1. CASE q = p
    BY <1>1, <1>4, <2>1 DEF Propia
  <2>2. CASE q # p
    <3>0. PICK s \in Peticion : s = pet[q]
      BY <1>1, <2>2
    <3>1. pet'[q] = s /\ Onboarding(s)
      BY <1>1, <1>4, <2>2, <3>0
    <3>2. s.t \in Tenants \ X
      BY <3>0, <3>1, <2>2 DEF Onboarding, Peticion
    <3>3. Propia(s)
      BY <3>0, <3>1 DEF IInv, Propia
    <3>4. Amable(s.t)
      BY <3>2
    <3>5. Propia(s)'
      BY <3>2, <3>3, <3>4, AmablePropia
    <3>6. QED
      BY <3>1, <3>5 DEF Propia
  <2>3. QED
    BY <2>1, <2>2
<1>5. Unicas'
  <2> SUFFICES ASSUME NEW o \in Peticiones, NEW q \in Peticiones, Onboarding(pet'[o]),
                      Onboarding(pet'[q]), pet'[o].t = pet'[q].t, o # q
               PROVE  FALSE
    BY DEF Unicas, Onboarding
  <2>1. CASE o = p
    BY <1>1, <2>1
  <2>2. CASE q = p
    BY <1>1, <2>2
  <2>3. CASE o # p /\ q # p
    BY <1>1, <2>3 DEF IInv, Unicas
  <2>4. QED
    BY <2>1, <2>2, <2>3
<1>6. \A t \in Tenants : Inquilino(t)'
  BY AmableInquilino DEF IInv
<1>7. QED
  BY <1>2, <1>3, <1>4, <1>5, <1>6 DEF IInv, Onboarding

\* A step of an onboarding, which alone may write what it likes in its tenant.
LEMMA PasoPropio ==
    ASSUME IInv, NEW p \in Peticiones, NEW r \in Peticion, Pasar(p, r), Forma(r),
           TiposDatos', fallos' \in 0..MaxFallos, solape' \in BOOLEAN,
           NEW t \in Tenants, Onboarding(pet[p]), pet[p].t = t,
           \A u \in Tenants \ {t} : Amable(u), Inquilino(t)',
           Onboarding(r) => r.t = t /\ Propia(r)'
    PROVE  IInv'
<1>1. \A q \in Peticiones \ {p} : Onboarding(pet[q]) => pet[q].t \notin {t}
  BY DEF IInv, Unicas
<1>2. QED
  BY <1>1, PasoDe

\* A step that writes nothing in the tenants.
LEMMA SinDatos ==
    ASSUME IInv, NEW p \in Peticiones, NEW r \in Peticion, Pasar(p, r), Forma(r),
           UNCHANGED <<tenant, config, semilla, usuario, resultado, ajenos>>,
           fallos' \in 0..MaxFallos, solape' \in BOOLEAN,
           Onboarding(r) => Onboarding(pet[p]) /\ r.t = pet[p].t /\ Propia(r)
    PROVE  IInv'
<1>1. TiposDatos'
  BY DEF IInv, TypeOK, TiposDatos
<1>2. \A t \in Tenants : Amable(t)
  BY DEF Amable
<1>3. \A t \in Tenants : Inquilino(t)'
  BY <1>2, AmableInquilino DEF IInv
<1>4. CASE Onboarding(r)
  <2>1. r.t \in Tenants
    BY <1>4 DEF Onboarding, Peticion
  <2>2. Propia(r)'
    BY <1>2, <1>4, <2>1, AmablePropia
  <2>3. QED
    BY <1>1, <1>2, <1>3, <1>4, <2>1, <2>2, PasoPropio
<1>5. CASE ~Onboarding(r)
  <2> DEFINE X == {}
  <2>1. /\ X \in SUBSET Tenants
        /\ \A q \in Peticiones \ {p} : Onboarding(pet[q]) => pet[q].t \notin X
        /\ \A t \in Tenants \ X : Amable(t)
        /\ \A t \in X : Inquilino(t)'
    BY <1>2
  <2> HIDE DEF X
  <2>2. QED
    BY <1>1, <1>5, <2>1, PasoDe
<1>6. QED
  BY <1>4, <1>5

\* What is known of a request before its step.
LEMMA Antes ==
    ASSUME IInv, NEW p \in Peticiones
    PROVE  \E r \in Peticion : /\ r = pet[p] /\ Forma(r)
                               /\ Onboarding(r) => r.t \in Tenants /\ Propia(r)
<1>1. pet[p] \in Peticion
  BY DEF IInv, TypeOK
<1>2. Onboarding(pet[p]) => pet[p].t \in Tenants
  BY <1>1 DEF Onboarding, Peticion
<1>3. QED
  BY <1>1, <1>2 DEF IInv

LEMMA LibreForma == Libre \in Peticion /\ Forma(Libre) /\ ~Onboarding(Libre)
BY InquilinosAssumption DEF InquilinosAssumption, Libre, Peticion, Forma, Onboarding, Ops, Fases

\* After an error the request is over, or an onboarding compensates.
LEMMA FalloForma ==
    ASSUME NEW r \in Peticion, Forma(r)
    PROVE  /\ TrasFallo(r) \in Peticion /\ Forma(TrasFallo(r))
           /\ Onboarding(TrasFallo(r)) =>
                Onboarding(r) /\ TrasFallo(r).t = r.t /\ TrasFallo(r).fase = "compPlantillas"
<1>1. CASE r.op = "onboard" /\ r.t # Nulo
  <2> DEFINE s == [r EXCEPT !.fase = "compPlantillas"]
  <2>1. s \in Peticion /\ TrasFallo(r) = s
    BY <1>1 DEF Peticion, Fases, TrasFallo
  <2>2. s.op = "onboard" /\ s.t = r.t /\ s.correo = r.correo /\ s.fase = "compPlantillas"
    BY <1>1 DEF Peticion
  <2> HIDE DEF s
  <2>3. Forma(s)
    BY <1>1, <2>2, InquilinosAssumption DEF Forma, InquilinosAssumption, Ops
  <2>4. QED
    BY <1>1, <2>1, <2>2, <2>3 DEF Onboarding
<1>2. CASE ~(r.op = "onboard" /\ r.t # Nulo)
  BY <1>2, LibreForma DEF TrasFallo
<1>3. QED
  BY <1>1, <1>2

LEMMA FalloPropia ==
    ASSUME NEW r \in Peticion, Forma(r), Onboarding(TrasFallo(r)), Propia(r)
    PROVE  Propia(TrasFallo(r))
BY FalloForma DEF Propia

\* A step that leaves the handler and writes nothing.
LEMMA SaleSinDatos ==
    ASSUME IInv, NEW p \in Peticiones, Pasar(p, TrasFallo(pet[p])),
           UNCHANGED <<tenant, config, semilla, usuario, resultado, ajenos, solape>>,
           fallos' \in 0..MaxFallos
    PROVE  IInv'
<1>1. PICK r \in Peticion : /\ r = pet[p] /\ Forma(r)
                            /\ Onboarding(r) => r.t \in Tenants /\ Propia(r)
  BY Antes
<1>2. PICK s \in Peticion : s = TrasFallo(r)
  BY <1>1, FalloForma
<1>3. /\ Forma(s)
      /\ Onboarding(s) => Onboarding(r) /\ s.t = r.t /\ Propia(s)
  BY <1>1, <1>2, FalloForma, FalloPropia
<1>4. solape' \in BOOLEAN
  BY DEF IInv, TypeOK
<1>5. QED
  BY <1>1, <1>2, <1>3, <1>4, SinDatos

LEMMA FallosTipo ==
    ASSUME IInv
    PROVE  /\ fallos \in 0..MaxFallos
           /\ fallos < MaxFallos => fallos + 1 \in 0..MaxFallos
<1>1. fallos \in 0..MaxFallos
  BY DEF IInv, TypeOK
<1>2. MaxFallos \in Nat
  BY InquilinosAssumption DEF InquilinosAssumption
<1>3. QED
  BY <1>1, <1>2

-----------------------------------------------------------------------------
(* Steps that write nothing in the tenants *)

LEMMA PasoFallarLectura ==
    ASSUME IInv, NEW p \in Peticiones, FallarLectura(p)
    PROVE  IInv'
BY SaleSinDatos, FallosTipo DEF FallarLectura, Fallar, datos, historia

LEMMA PasoRechazar ==
    ASSUME IInv, NEW p \in Peticiones, Rechazar(p), UNCHANGED <<datos, historia>>
    PROVE  IInv'
BY SaleSinDatos, FallosTipo DEF Rechazar, datos, historia

\* s is the request r in the phase f.
EnFase(s, r, f) ==
    /\ s.fase = f
    /\ s.op = r.op /\ s.t = r.t /\ s.clave = r.clave /\ s.correo = r.correo
    /\ s.n = r.n /\ s.errores = r.errores /\ s.aTiempo = r.aTiempo

LEMMA ConFase ==
    ASSUME NEW r \in Peticion, NEW f \in Fases
    PROVE  \E s \in Peticion : s = [r EXCEPT !.fase = f] /\ EnFase(s, r, f)
<1> DEFINE s == [r EXCEPT !.fase = f]
<1>1. s \in Peticion /\ EnFase(s, r, f)
  BY DEF Peticion, EnFase
<1>2. QED
  BY <1>1

\* What is known of p is known of it in the phase f, too.
PuedeSeguir(p, f) ==
    \A r, s \in Peticion :
        r = pet[p] /\ Forma(r) /\ EnFase(s, r, f)
          => Forma(s) /\ (Onboarding(r) /\ Propia(r) => Propia(s))

\* A request that goes on to phase f having written nothing.
LEMMA Sigue ==
    ASSUME IInv, NEW p \in Peticiones, NEW f \in Fases, Ir(p, f),
           UNCHANGED <<tenant, config, semilla, usuario, resultado, ajenos, fallos>>,
           solape' \in BOOLEAN,
           PuedeSeguir(p, f)
    PROVE  IInv'
<1>1. PICK r \in Peticion : /\ r = pet[p] /\ Forma(r)
                            /\ Onboarding(r) => r.t \in Tenants /\ Propia(r)
  BY Antes
<1>2. PICK s \in Peticion : s = [r EXCEPT !.fase = f] /\ EnFase(s, r, f)
  BY ConFase
<1>3. Pasar(p, s)
  BY <1>1, <1>2 DEF Ir
<1>4. Forma(s) /\ (Onboarding(s) => Onboarding(r) /\ s.t = r.t /\ Propia(s))
  BY <1>1, <1>2 DEF Onboarding, PuedeSeguir, EnFase
<1>5. QED
  BY <1>1, <1>3, <1>4, SinDatos, FallosTipo

LEMMA PasoRelectura ==
    ASSUME IInv, NEW p \in Peticiones, Releer(p)
    PROVE  IInv'
<1>1. PuedeSeguir(p, "correo")
  <2> SUFFICES ASSUME NEW r \in Peticion, NEW s \in Peticion, r = pet[p], Forma(r),
                      EnFase(s, r, "correo")
               PROVE  Forma(s) /\ (Onboarding(r) /\ Propia(r) => Propia(s))
    BY DEF PuedeSeguir
  <2>1. r.fase = "releer"
    BY DEF Releer, En
  <2>2. QED
    BY <2>1, InquilinosAssumption DEF EnFase, Forma, Propia, Onboarding, InquilinosAssumption, Ops
<1>2. QED
  BY <1>1, Sigue DEF Releer, datos, historia, Fases, IInv, TypeOK

LEMMA PasoBuscarCorreo ==
    ASSUME IInv, NEW p \in Peticiones, BuscarCorreo(p)
    PROVE  IInv'
<1>1. CASE Rechazar(p)
  BY <1>1, PasoRechazar DEF BuscarCorreo
<1>2. CASE Ir(p, IF pet[p].t = Nulo THEN "guardar" ELSE "tenant") /\ UNCHANGED fallos
  <2>1. PICK f \in Fases : f = IF pet[p].t = Nulo THEN "guardar" ELSE "tenant"
    BY DEF Fases
  <2>2. PuedeSeguir(p, f)
    <3> SUFFICES ASSUME NEW r \in Peticion, NEW s \in Peticion, r = pet[p], Forma(r),
                        EnFase(s, r, f)
                 PROVE  Forma(s) /\ (Onboarding(r) /\ Propia(r) => Propia(s))
      BY DEF PuedeSeguir
    <3>1. r.fase = "correo"
      BY DEF BuscarCorreo, En
    <3>2. QED
      BY <3>1, <2>1, InquilinosAssumption DEF EnFase, Forma, Propia, Onboarding, InquilinosAssumption, Ops
  <2>3. QED
    BY <1>2, <2>1, <2>2, Sigue DEF BuscarCorreo, datos, historia, IInv, TypeOK
<1>3. QED
  BY <1>1, <1>2 DEF BuscarCorreo

LEMMA PasoComprobarTenant ==
    ASSUME IInv, NEW p \in Peticiones, ComprobarTenant(p)
    PROVE  IInv'
<1>1. CASE Rechazar(p)
  BY <1>1, PasoRechazar DEF ComprobarTenant
<1>2. CASE Ir(p, "guardar") /\ UNCHANGED fallos
  <2>1. PuedeSeguir(p, "guardar")
    <3> SUFFICES ASSUME NEW r \in Peticion, NEW s \in Peticion, r = pet[p], Forma(r),
                        EnFase(s, r, "guardar")
                 PROVE  Forma(s) /\ (Onboarding(r) /\ Propia(r) => Propia(s))
      BY DEF PuedeSeguir
    <3>1. r.fase = "tenant"
      BY DEF ComprobarTenant, En
    <3>2. QED
      BY <3>1, InquilinosAssumption DEF EnFase, Forma, Propia, Onboarding, InquilinosAssumption, Ops
  <2>2. QED
    BY <1>2, <2>1, Sigue DEF ComprobarTenant, datos, historia, Fases, IInv, TypeOK
<1>3. QED
  BY <1>1, <1>2 DEF ComprobarTenant

LEMMA PasoContar ==
    ASSUME IInv, NEW p \in Peticiones, Contar(p)
    PROVE  IInv'
<1>1. CASE Pasar(p, Libre) /\ UNCHANGED solape
  BY <1>1, LibreForma, SinDatos, FallosTipo DEF Contar, datos, IInv, TypeOK
<1>2. CASE /\ Ir(p, "correo")
           /\ solape' = (solape \/ \E q \in Peticiones \ {p} : Registrando(q))
  <2>1. PuedeSeguir(p, "correo")
    <3> SUFFICES ASSUME NEW r \in Peticion, NEW s \in Peticion, r = pet[p], Forma(r),
                        EnFase(s, r, "correo")
                 PROVE  Forma(s) /\ (Onboarding(r) /\ Propia(r) => Propia(s))
      BY DEF PuedeSeguir
    <3>1. r.fase = "contar"
      BY DEF Contar, En
    <3>2. QED
      BY <3>1, InquilinosAssumption DEF EnFase, Forma, Propia, Onboarding, InquilinosAssumption, Ops
  <2>2. QED
    BY <1>2, <2>1, Sigue DEF Contar, datos, Fases
<1>3. QED
  BY <1>1, <1>2 DEF Contar

LEMMA PasoFindOrCreateSinEfecto ==
    ASSUME IInv, NEW p \in Peticiones, FindOrCreateSinEfecto(p)
    PROVE  IInv'
<1>1. CASE Fallar(p)
  BY <1>1, SaleSinDatos, FallosTipo DEF FindOrCreateSinEfecto, Fallar, datos, historia
<1>2. CASE Ir(p, "releerConfig") /\ UNCHANGED fallos
  <2>1. PuedeSeguir(p, "releerConfig")
    <3> SUFFICES ASSUME NEW r \in Peticion, NEW s \in Peticion, r = pet[p], Forma(r),
                        EnFase(s, r, "releerConfig")
                 PROVE  Forma(s) /\ (Onboarding(r) /\ Propia(r) => Propia(s))
      BY DEF PuedeSeguir
    <3>1. r.fase = "config"
      BY DEF FindOrCreateSinEfecto, En
    <3>2. QED
      BY <3>1, InquilinosAssumption DEF EnFase, Forma, Propia, Onboarding, InquilinosAssumption, Ops
  <2>2. QED
    BY <1>2, <2>1, Sigue DEF FindOrCreateSinEfecto, datos, historia, Fases, IInv, TypeOK
<1>3. QED
  BY <1>1, <1>2 DEF FindOrCreateSinEfecto

LEMMA PasoReleerConfig ==
    ASSUME IInv, NEW p \in Peticiones, ReleerConfig(p)
    PROVE  IInv'
<1>1. CASE Rechazar(p)
  BY <1>1, PasoRechazar DEF ReleerConfig
<1>2. CASE /\ config[pet[p].t] # Nulo /\ UNCHANGED fallos
           /\ Pasar(p, SiguienteConfig(pet[p]))
  <2>1. PICK f \in Fases : f = IF pet[p].op = "onboard" THEN "semillas" ELSE "escribirConfig"
    BY DEF Fases
  <2>2. Ir(p, f)
    BY <1>2, <2>1 DEF Ir, SiguienteConfig
  <2>3. PuedeSeguir(p, f)
    <3> SUFFICES ASSUME NEW r \in Peticion, NEW s \in Peticion, r = pet[p], Forma(r),
                        EnFase(s, r, f)
                 PROVE  Forma(s) /\ (Onboarding(r) /\ Propia(r) => Propia(s))
      BY DEF PuedeSeguir
    <3>1. r.fase = "releerConfig" /\ config[r.t] # Nulo /\ r.n = 0
      BY <1>2 DEF ReleerConfig, En, Forma
    <3>2. Forma(s)
      BY <3>1, <2>1, InquilinosAssumption DEF EnFase, Forma, InquilinosAssumption, Ops
    <3>3. 1..s.n = {}
      BY <3>1 DEF EnFase
    <3>4. QED
      BY <3>1, <3>2, <3>3, <2>1 DEF EnFase, Propia, Onboarding
  <2>4. QED
    BY <1>2, <2>2, <2>3, Sigue DEF ReleerConfig, datos, historia, IInv, TypeOK
<1>3. QED
  BY <1>1, <1>2 DEF ReleerConfig

LEMMA PasoOnboard ==
    ASSUME IInv, NEW p \in Peticiones, Onboard(p)
    PROVE  IInv'
<1>1. PICK clave \in Claves, correo \in Correos :
        Pasar(p, [Libre EXCEPT !.op = "onboard", !.fase = "crear", !.clave = clave,
                               !.correo = correo])
  BY DEF Onboard
<1> DEFINE r == [Libre EXCEPT !.op = "onboard", !.fase = "crear", !.clave = clave,
                              !.correo = correo]
<1>2. /\ r \in Peticion /\ r.op = "onboard" /\ r.fase = "crear" /\ r.t = Nulo /\ r.n = 0
      /\ r.clave \in Claves /\ r.correo \in Correos
  BY LibreForma DEF Libre, Peticion, Fases, Ops
<1> HIDE DEF r
<1>3. Forma(r) /\ ~Onboarding(r)
  BY <1>2, InquilinosAssumption DEF Forma, Onboarding, InquilinosAssumption, Ops
<1>4. QED
  BY <1>1, <1>2, <1>3, SinDatos, FallosTipo DEF Onboard, datos, historia, r, IInv, TypeOK

LEMMA PasoRegister ==
    ASSUME IInv, NEW p \in Peticiones, Register(p)
    PROVE  IInv'
<1>1. PICK correo \in Correos :
        Pasar(p, [Libre EXCEPT !.op = "register", !.fase = "contar", !.correo = correo])
  BY DEF Register
<1> DEFINE r == [Libre EXCEPT !.op = "register", !.fase = "contar", !.correo = correo]
<1>2. /\ r \in Peticion /\ r.op = "register" /\ r.fase = "contar" /\ r.t = Nulo
      /\ r.correo \in Correos
  BY LibreForma DEF Libre, Peticion, Fases, Ops
<1> HIDE DEF r
<1>3. Forma(r) /\ ~Onboarding(r)
  BY <1>2, InquilinosAssumption DEF Forma, Onboarding, InquilinosAssumption, Ops
<1>4. QED
  BY <1>1, <1>2, <1>3, SinDatos, FallosTipo DEF Register, datos, historia, r, IInv, TypeOK

LEMMA PasoEntrar ==
    ASSUME IInv, NEW p \in Peticiones, Entrar(p)
    PROVE  IInv'
<1>1. PICK rol \in {"admin_sistema", "admin_tenant"}, op \in DOMAIN PrimeraFase, t \in Tenants,
           correo \in Correos :
        /\ Entra(rol, t)
        /\ Pasar(p, [Libre EXCEPT !.op = op, !.fase = PrimeraFase[op], !.t = t,
                       !.correo = IF op = "crearUsuario" THEN correo ELSE Nulo,
                       !.aTiempo = tenant[t] # Nulo])
  BY DEF Entrar
<1>2. tenant[t] # Nulo
  BY <1>1 DEF Entra, Operable
<1>3. PICK c \in Correos \cup {Nulo} :
        c = (IF op = "crearUsuario" THEN correo ELSE Nulo)
  OBVIOUS
<1>4. PICK f \in Fases : f = PrimeraFase[op]
  BY DEF PrimeraFase, Fases
<1> DEFINE r == [Libre EXCEPT !.op = op, !.fase = f, !.t = t, !.correo = c, !.aTiempo = TRUE]
<1>5. /\ r \in Peticion /\ r.op = op /\ r.fase = f /\ r.t = t /\ r.aTiempo /\ r.correo = c /\ r.n = 0
  BY LibreForma DEF Libre, Peticion, Ops, PrimeraFase
<1>6. Pasar(p, r)
  BY <1>1, <1>2, <1>3, <1>4 DEF Pasar
<1>7. \/ op = "editarConfig" /\ f = "config"
      \/ op = "crearUsuario" /\ f = "correo" /\ c \in Correos
  BY <1>3, <1>4 DEF PrimeraFase
<1> HIDE DEF r
<1>8. Forma(r) /\ ~Onboarding(r)
  BY <1>5, <1>7, InquilinosAssumption DEF Forma, Onboarding, InquilinosAssumption, Ops
<1>9. QED
  BY <1>5, <1>6, <1>8, SinDatos, FallosTipo DEF Entrar, datos, historia, IInv, TypeOK

-----------------------------------------------------------------------------
(* Steps that write in a tenant *)

\* A step of a request that is not onboarding, friendly to every tenant.
LEMMA PasoAmable ==
    ASSUME IInv, NEW p \in Peticiones, NEW r \in Peticion, Pasar(p, r), Forma(r),
           TiposDatos', fallos' \in 0..MaxFallos, solape' \in BOOLEAN,
           \A t \in Tenants : Amable(t), ~Onboarding(r)
    PROVE  IInv'
<1> DEFINE X == {}
<1>1. /\ X \in SUBSET Tenants
      /\ \A q \in Peticiones \ {p} : Onboarding(pet[q]) => pet[q].t \notin X
      /\ \A t \in Tenants \ X : Amable(t)
      /\ \A t \in X : Inquilino(t)'
  OBVIOUS
<1> HIDE DEF X
<1>2. QED
  BY <1>1, PasoDe

\* A tenant whose onboarding is still in course only has to know its users.
LEMMA EnCurso ==
    ASSUME IInv, NEW t \in Tenants, resultado[t] = "en curso",
           resultado'[t] \in {"en curso", "incompleta"},
           UNCHANGED usuario, ajenos[t] \subseteq ajenos'[t]
    PROVE  Inquilino(t)'
BY DEF IInv, Inquilino

LEMMA TiposAntes == IInv => TiposDatos /\ solape \in BOOLEAN
BY DEF IInv, TypeOK, TiposDatos

LEMMA AjenoTipo ==
    ASSUME IInv, NEW p \in Peticiones, NEW x \in Escritos, pet[p].t \in Tenants, Ajeno(p, x)
    PROVE  /\ ajenos' \in [Tenants -> SUBSET Escritos]
           /\ \A t \in Tenants : ajenos[t] \subseteq ajenos'[t]
           /\ pet[p].aTiempo => x \in ajenos'[pet[p].t]
BY TiposAntes DEF TiposDatos, Ajeno

LEMMA UpsertTipo ==
    ASSUME NEW d \in Contenido \cup {Nulo}
    PROVE  TrasUpsert(d) \in Contenido /\ TrasUpsert(d) # Nulo
BY InquilinosAssumption DEF TrasUpsert, Contenido, InquilinosAssumption

LEMMA PasoFindOrCreate ==
    ASSUME IInv, NEW p \in Peticiones, FindOrCreate(p)
    PROVE  IInv'
<1>1. PICK r \in Peticion : /\ r = pet[p] /\ Forma(r)
                            /\ Onboarding(r) => r.t \in Tenants /\ Propia(r)
  BY Antes
<1> DEFINE t == r.t
<1>2. r.fase = "config" /\ t \in Tenants /\ r.n = 0
  BY <1>1, InquilinosAssumption
     DEF FindOrCreate, En, Forma, Peticion, Ops, InquilinosAssumption
<1>0. UNCHANGED <<tenant, semilla, usuario, resultado, solape>>
  BY DEF FindOrCreate
<1>3. /\ config' \in [Tenants -> Contenido \cup {Nulo}] /\ config'[t] # Nulo
      /\ \A u \in Tenants \ {t} : config'[u] = config[u]
  BY <1>1, <1>2, TiposAntes, UpsertTipo DEF FindOrCreate, TiposDatos
<1>4. /\ ajenos' \in [Tenants -> SUBSET Escritos]
      /\ \A u \in Tenants : ajenos[u] \subseteq ajenos'[u]
      /\ r.op # "onboard" => <<"config">> \in ajenos'[t]
  <2>1. r.op # "onboard" => r.aTiempo
    BY <1>1, <1>2, InquilinosAssumption DEF Forma, Peticion, Ops
  <2>2. <<"config">> \in Escritos
    BY DEF Escritos
  <2>3. CASE r.op = "onboard"
    BY <1>1, <2>3, TiposAntes DEF FindOrCreate, TiposDatos
  <2>4. CASE r.op # "onboard"
    BY <1>1, <1>2, <2>1, <2>2, <2>4, AjenoTipo DEF FindOrCreate
  <2>5. QED
    BY <2>3, <2>4
<1>5. TiposDatos' /\ solape' \in BOOLEAN
  BY <1>3, <1>4, TiposAntes DEF FindOrCreate, TiposDatos
<1>6. /\ \A u \in Tenants \ {t} : Amable(u)
      /\ r.op # "onboard" => Amable(t)
  <2>1. ASSUME NEW u \in Tenants, u # t PROVE Amable(u)
    BY <1>0, <1>3, <1>4, <2>1 DEF Amable
  <2>2. ASSUME r.op # "onboard" PROVE Amable(t)
    BY <1>0, <1>2, <1>3, <1>4, <2>2 DEF Amable
  <2>3. QED
    BY <2>1, <2>2
<1>7. PICK f \in Fases : f = IF r.op = "onboard" THEN "semillas" ELSE "escribirConfig"
  BY DEF Fases
<1>8. PICK s \in Peticion : s = [r EXCEPT !.fase = f] /\ EnFase(s, r, f)
  BY ConFase
<1>9. /\ Forma(s)
      /\ Onboarding(s) => Propia(s)'
  <2>1. Forma(s)
    BY <1>1, <1>2, <1>7, <1>8, InquilinosAssumption DEF EnFase, Forma, InquilinosAssumption, Ops
  <2>2. 1..s.n = {}
    BY <1>2, <1>8 DEF EnFase
  <2>3. ASSUME Onboarding(s) PROVE Propia(s)'
    <3>1. Propia(r) /\ s.t = t /\ s.fase = "semillas"
      BY <1>1, <1>7, <1>8, <2>3 DEF EnFase, Onboarding
    <3>2. resultado'[t] = "en curso" /\ tenant'[t] # Nulo
      BY <1>0, <3>1 DEF Propia
    <3>3. QED
      BY <1>3, <2>2, <3>1, <3>2 DEF Propia
  <2>4. QED
    BY <2>1, <2>3
<1>10. PICK e \in Peticion : e = TrasFallo(r)
  BY <1>1, FalloForma
<1>11. /\ Forma(e)
       /\ Onboarding(e) => Onboarding(r) /\ e.t = t /\ Propia(e)'
  BY <1>1, <1>10, FalloForma DEF Propia, FindOrCreate
<1>12. /\ fallos' \in 0..MaxFallos
       /\ Pasar(p, s) \/ Pasar(p, e)
  BY <1>1, <1>7, <1>8, <1>10, FallosTipo DEF FindOrCreate, Fallar, SiguienteConfig
<1>13. CASE r.op = "onboard"
  <2>1. Onboarding(r) /\ Inquilino(t)'
    BY <1>1, <1>2, <1>4, <1>13, EnCurso, InquilinosAssumption
       DEF Onboarding, Propia, FindOrCreate, InquilinosAssumption
  <2>2. Onboarding(s) => s.t = t
    BY <1>8 DEF EnFase
  <2>3. QED
    BY <1>1, <1>2, <1>5, <1>6, <1>9, <1>11, <1>12, <2>1, <2>2, PasoPropio
<1>14. CASE r.op # "onboard"
  <2>1. ~Onboarding(s) /\ ~Onboarding(e)
    BY <1>8, <1>11, <1>14 DEF EnFase, Onboarding
  <2>2. QED
    BY <1>5, <1>6, <1>9, <1>11, <1>12, <1>14, <2>1, PasoAmable
<1>15. QED
  BY <1>13, <1>14

LEMMA PasoEscribirConfig ==
    ASSUME IInv, NEW p \in Peticiones, EscribirConfig(p)
    PROVE  IInv'
<1>1. \A t \in Tenants : config'[t] \in Contenido \cup {Nulo} /\ (config[t] = Nulo <=> config'[t] = Nulo)
  BY TiposAntes, InquilinosAssumption
     DEF EscribirConfig, TiposDatos, Contenido, InquilinosAssumption
<1>2. TiposDatos' /\ solape' \in BOOLEAN
  BY <1>1, TiposAntes DEF EscribirConfig, TiposDatos, historia
<1>3. \A t \in Tenants : Amable(t)
  BY <1>1 DEF EscribirConfig, Amable, historia
<1>4. QED
  BY <1>2, <1>3, LibreForma, FallosTipo, PasoAmable DEF EscribirConfig

LEMMA PasoSetActivo ==
    ASSUME IInv, NEW t \in Tenants, SetActivo(t)
    PROVE  IInv'
<1>0. tenant[t] \in Tenant /\ [tenant[t] EXCEPT !.activo = ~@] \in Tenant
  <2>1. tenant[t] \in Tenant
    BY TiposAntes DEF SetActivo, TiposDatos
  <2>2. QED
    BY <2>1 DEF Tenant
<1>1. tenant' \in [Tenants -> Tenant \cup {Nulo}]
  BY <1>0, TiposAntes DEF SetActivo, TiposDatos
<1>2. \A u \in Tenants : tenant'[u] = Nulo <=> tenant[u] = Nulo
  BY <1>0, TiposAntes, InquilinosAssumption DEF SetActivo, TiposDatos, InquilinosAssumption
<1>3. TypeOK'
  BY <1>1 DEF IInv, TypeOK, SetActivo, historia
<1>4. \A u \in Tenants : Amable(u)
  BY <1>2 DEF SetActivo, Amable, historia
<1>5. \A u \in Tenants : Inquilino(u)'
  BY <1>4, AmableInquilino DEF IInv
<1>6. ASSUME NEW p \in Peticiones, Onboarding(pet[p]) PROVE Propia(pet[p])'
  <2>1. PICK r \in Peticion : r = pet[p] /\ r.t \in Tenants /\ Propia(r)
    BY <1>6, Antes
  <2>2. Propia(r)'
    BY <1>4, <2>1, AmablePropia
  <2>3. QED
    BY <2>1, <2>2 DEF Propia, SetActivo
<1>7. QED
  BY <1>3, <1>5, <1>6 DEF IInv, SetActivo, Unicas, Onboarding

LEMMA PasoReiniciar ==
    ASSUME IInv, Reiniciar
    PROVE  IInv'
<1>1. \A p \in Peticiones : pet'[p] = Libre
  BY DEF Reiniciar
<1>2. TypeOK'
  BY LibreForma, FallosTipo DEF IInv, TypeOK, Reiniciar, datos, historia
<1>3. \A t \in Tenants : Inquilino(t)'
  BY DEF IInv, Inquilino, Reiniciar, datos, historia
<1>4. QED
  BY <1>1, <1>2, <1>3, LibreForma DEF IInv, Unicas, Onboarding

-----------------------------------------------------------------------------
(* The steps of an onboarding *)

LEMMA PasoCreateTenantDoc ==
    ASSUME IInv, NEW p \in Peticiones, CreateTenantDoc(p)
    PROVE  IInv'
<1>1. PICK r \in Peticion : r = pet[p] /\ Forma(r)
  BY Antes
<1>2. r.fase = "crear" /\ r.op = "onboard" /\ r.t = Nulo /\ r.clave \in Claves /\ r.n = 0
  BY <1>1, InquilinosAssumption
     DEF CreateTenantDoc, En, Forma, Peticion, Ops, InquilinosAssumption
<1>3. UNCHANGED <<config, semilla, usuario, ajenos, solape>>
  BY DEF CreateTenantDoc
<1>4. CASE /\ Rechazar(p) \/ Fallar(p)
           /\ UNCHANGED <<tenant, resultado>>
  BY <1>3, <1>4, SaleSinDatos, FallosTipo DEF Rechazar, Fallar
<1>5. CASE \E t \in Tenants :
             /\ resultado[t] = "nuevo"
             /\ tenant' = [tenant EXCEPT ![t] = [clave |-> r.clave, activo |-> FALSE]]
             /\ resultado' = [resultado EXCEPT ![t] = "en curso"]
             /\ \/ /\ Pasar(p, [r EXCEPT !.t = t, !.fase = "config", !.clave = Nulo])
                   /\ UNCHANGED fallos
                \/ Fallar(p)
  <2>1. PICK t \in Tenants :
          /\ resultado[t] = "nuevo"
          /\ tenant' = [tenant EXCEPT ![t] = [clave |-> r.clave, activo |-> FALSE]]
          /\ resultado' = [resultado EXCEPT ![t] = "en curso"]
          /\ \/ /\ Pasar(p, [r EXCEPT !.t = t, !.fase = "config", !.clave = Nulo])
                /\ UNCHANGED fallos
             \/ Fallar(p)
    BY <1>5
  <2>2. PICK d \in Tenant : d = [clave |-> r.clave, activo |-> FALSE] /\ d # Nulo
    <3>1. [clave |-> r.clave, activo |-> FALSE] \in Tenant
      BY <1>2 DEF Tenant
    <3>2. QED
      BY <3>1, InquilinosAssumption DEF InquilinosAssumption
  <2>3. /\ TiposDatos' /\ solape' \in BOOLEAN
        /\ tenant'[t] # Nulo /\ resultado'[t] = "en curso"
        /\ \A u \in Tenants \ {t} : tenant'[u] = tenant[u] /\ resultado'[u] = resultado[u]
    BY <1>3, <2>1, <2>2, TiposAntes DEF TiposDatos
  <2>4. \A u \in Tenants \ {t} : Amable(u)
    BY <1>3, <2>3 DEF Amable
  <2>5. Inquilino(t)'
    BY <1>3, <2>1, <2>3 DEF IInv, Inquilino
  <2>6. \A q \in Peticiones \ {p} : Onboarding(pet[q]) => pet[q].t \notin {t}
    BY <2>1 DEF IInv, Propia
  <2>7. CASE Fallar(p)
    <3>1. TrasFallo(r) = Libre
      BY <1>2 DEF TrasFallo
    <3>2. Pasar(p, Libre) /\ fallos' \in 0..MaxFallos
      BY <1>1, <2>7, <3>1, FallosTipo DEF Fallar
    <3>3. QED
      BY <2>3, <2>4, <2>5, <2>6, <3>2, LibreForma, PasoDe
  <2>8. CASE Pasar(p, [r EXCEPT !.t = t, !.fase = "config", !.clave = Nulo]) /\ UNCHANGED fallos
    <3> DEFINE s == [r EXCEPT !.t = t, !.fase = "config", !.clave = Nulo]
    <3>1. /\ s \in Peticion /\ s.op = "onboard" /\ s.t = t /\ s.fase = "config" /\ s.n = 0
          /\ s.correo = r.correo
      BY <1>2 DEF Peticion, Fases
    <3> HIDE DEF s
    <3>2. t # Nulo
      BY InquilinosAssumption DEF InquilinosAssumption
    <3>3. Forma(s)
      BY <1>1, <1>2, <3>1, <3>2, InquilinosAssumption DEF Forma, InquilinosAssumption, Ops
    <3>4. Propia(s)'
      BY <2>3, <3>1 DEF Propia
    <3>5. Pasar(p, s) /\ fallos' \in 0..MaxFallos
      BY <2>8, FallosTipo DEF s
    <3>6. QED
      BY <2>3, <2>4, <2>5, <2>6, <3>1, <3>3, <3>4, <3>5, PasoDe
  <2>9. QED
    BY <2>1, <2>7, <2>8
<1>6. QED
  BY <1>1, <1>4, <1>5 DEF CreateTenantDoc

\* An onboarding that fails past its first write goes on to compensate.
LEMMA PasoFalla ==
    ASSUME IInv, NEW p \in Peticiones, NEW r \in Peticion, r = pet[p], Forma(r), Onboarding(r),
           r.t \in Tenants, Pasar(p, TrasFallo(r)), TiposDatos', fallos' \in 0..MaxFallos,
           solape' \in BOOLEAN, \A u \in Tenants \ {r.t} : Amable(u),
           Inquilino(r.t)', resultado'[r.t] = "en curso", tenant'[r.t] # Nulo
    PROVE  IInv'
<1>1. PICK e \in Peticion : e = TrasFallo(r)
  BY FalloForma
<1>2. /\ Forma(e)
      /\ Onboarding(e) => e.t = r.t /\ e.fase = "compPlantillas"
  BY <1>1, FalloForma
<1>3. Onboarding(e) => Propia(e)'
  BY <1>2 DEF Propia
<1>4. PICK t \in Tenants : t = r.t
  OBVIOUS
<1>5. QED
  BY <1>1, <1>2, <1>3, <1>4, PasoPropio

LEMMA PasoSembrar ==
    ASSUME IInv, NEW p \in Peticiones, Sembrar(p)
    PROVE  IInv'
<1>1. PICK r \in Peticion : /\ r = pet[p] /\ Forma(r)
                            /\ Onboarding(r) => r.t \in Tenants /\ Propia(r)
  BY Antes
<1>2. r.fase = "semillas" /\ r.op = "onboard" /\ Onboarding(r)
  BY <1>1, InquilinosAssumption
     DEF Sembrar, En, Forma, Peticion, Ops, Onboarding, InquilinosAssumption
<1>3. PICK t \in Tenants : t = r.t
  BY <1>1, <1>2
<1>4. UNCHANGED <<tenant, config, usuario, resultado, ajenos, solape>>
  BY DEF Sembrar, historia
<1>5. r.n + 1 \in Semillas /\ r.n \in Nat /\ r.n + 1 \in 0..NumSemillas
  <2>1. r.n \in 0..NumSemillas /\ r.n < NumSemillas /\ NumSemillas \in Nat
    BY <1>1, InquilinosAssumption DEF Peticion, Sembrar, QuedanSemillas, InquilinosAssumption
  <2>2. QED
    BY <2>1 DEF Semillas
<1>6. /\ semilla' \in [Tenants -> SUBSET Semillas]
      /\ \A u \in Tenants \ {t} : semilla'[u] = semilla[u]
      /\ semilla[t] \subseteq semilla'[t]
  <2>1. CASE UNCHANGED semilla
    BY <2>1, TiposAntes DEF TiposDatos
  <2>2. CASE semilla' = [semilla EXCEPT ![t] = @ \cup {r.n + 1}]
    BY <1>5, <2>2, TiposAntes DEF TiposDatos
  <2>3. QED
    BY <1>1, <1>3, <2>1, <2>2 DEF Sembrar
<1>7. TiposDatos' /\ solape' \in BOOLEAN
  BY <1>4, <1>6, TiposAntes DEF TiposDatos
<1>8. \A u \in Tenants \ {t} : Amable(u)
  BY <1>4, <1>6 DEF Amable
<1>9. resultado'[t] = "en curso" /\ tenant'[t] # Nulo /\ config'[t] # Nulo
  BY <1>1, <1>2, <1>3, <1>4 DEF Propia
<1>10. Inquilino(t)'
  BY <1>4, <1>9, EnCurso
<1>11. CASE Fallar(p)
  BY <1>1, <1>2, <1>3, <1>7, <1>8, <1>9, <1>10, <1>11, PasoFalla, FallosTipo DEF Fallar
<1>12. CASE /\ semilla' = [semilla EXCEPT ![t] = @ \cup {r.n + 1}]
            /\ Pasar(p, [r EXCEPT !.n = @ + 1]) /\ UNCHANGED fallos
  <2> DEFINE s == [r EXCEPT !.n = @ + 1]
  <2>1. /\ s \in Peticion /\ s.fase = "semillas" /\ s.op = "onboard" /\ s.t = t
        /\ s.n = r.n + 1 /\ s.correo = r.correo
    BY <1>2, <1>3, <1>5 DEF Peticion
  <2>2. Pasar(p, s) /\ fallos' \in 0..MaxFallos
    BY <1>12, FallosTipo
  <2> HIDE DEF s
  <2>3. Forma(s)
    BY <1>1, <1>2, <1>3, <2>1, InquilinosAssumption DEF Forma, InquilinosAssumption, Ops
  <2>4. 1..s.n \subseteq semilla'[t]
    <3>1. 1..r.n \subseteq semilla[t]
      BY <1>1, <1>2, <1>3 DEF Propia
    <3>2. r.n + 1 \in semilla'[t]
      BY <1>12, TiposAntes DEF TiposDatos
    <3>3. \A k \in 1..(r.n + 1) : k \in 1..r.n \/ k = r.n + 1
      BY <1>5
    <3>4. QED
      BY <1>6, <2>1, <3>1, <3>2, <3>3
  <2>5. Propia(s)'
    BY <1>9, <2>1, <2>4 DEF Propia
  <2>6. QED
    BY <1>1, <1>2, <1>3, <1>7, <1>8, <1>10, <2>1, <2>2, <2>3, <2>5, PasoPropio
<1>13. QED
  BY <1>1, <1>3, <1>11, <1>12 DEF Sembrar

LEMMA PasoActivar ==
    ASSUME IInv, NEW p \in Peticiones, Activar(p)
    PROVE  IInv'
<1>1. PICK r \in Peticion : /\ r = pet[p] /\ Forma(r)
                            /\ Onboarding(r) => r.t \in Tenants /\ Propia(r)
  BY Antes
<1>2. r.fase = "semillas" /\ r.op = "onboard" /\ Onboarding(r)
  BY <1>1, InquilinosAssumption
     DEF Activar, En, Forma, Peticion, Ops, Onboarding, InquilinosAssumption
<1>3. PICK t \in Tenants : t = r.t
  BY <1>1, <1>2
<1>4. UNCHANGED <<config, semilla, usuario, resultado, ajenos, solape>>
  BY DEF Activar, historia
<1>5. PICK d \in Tenant : d = [tenant[t] EXCEPT !.activo = TRUE] /\ d # Nulo
  <2>1. tenant[t] \in Tenant
    BY <1>1, <1>2, <1>3, TiposAntes DEF Propia, TiposDatos
  <2>2. [tenant[t] EXCEPT !.activo = TRUE] \in Tenant
    BY <2>1 DEF Tenant
  <2>3. QED
    BY <2>2, InquilinosAssumption DEF InquilinosAssumption
<1>6. /\ tenant' \in [Tenants -> Tenant \cup {Nulo}] /\ tenant'[t] # Nulo
      /\ \A u \in Tenants \ {t} : tenant'[u] = tenant[u]
  <2>1. CASE UNCHANGED tenant
    BY <1>1, <1>2, <1>3, <2>1, TiposAntes DEF TiposDatos, Propia
  <2>2. CASE tenant' = [tenant EXCEPT ![t].activo = TRUE]
    BY <1>5, <2>2, TiposAntes DEF TiposDatos
  <2>3. QED
    BY <1>1, <1>3, <2>1, <2>2 DEF Activar
<1>7. TiposDatos' /\ solape' \in BOOLEAN
  BY <1>4, <1>6, TiposAntes DEF TiposDatos
<1>8. \A u \in Tenants \ {t} : Amable(u)
  BY <1>4, <1>6 DEF Amable
<1>9. resultado'[t] = "en curso" /\ config'[t] # Nulo
  BY <1>1, <1>2, <1>3, <1>4 DEF Propia
<1>10. Inquilino(t)'
  BY <1>4, <1>9, EnCurso
<1>11. semilla'[t] = Semillas
  <2>1. r.n \in 0..NumSemillas /\ ~(r.n < NumSemillas) /\ NumSemillas \in Nat
    BY <1>1, InquilinosAssumption DEF Peticion, Activar, QuedanSemillas, InquilinosAssumption
  <2>2. r.n = NumSemillas
    BY <2>1
  <2>3. 1..r.n \subseteq semilla[t] /\ semilla[t] \subseteq Semillas
    BY <1>1, <1>2, <1>3, TiposAntes DEF Propia, TiposDatos
  <2>4. QED
    BY <1>4, <2>2, <2>3 DEF Semillas
<1>12. CASE Fallar(p)
  BY <1>1, <1>2, <1>3, <1>6, <1>7, <1>8, <1>9, <1>10, <1>12, PasoFalla, FallosTipo DEF Fallar
<1>13. CASE Ir(p, "releer") /\ UNCHANGED fallos
  <2>1. PICK s \in Peticion : s = [r EXCEPT !.fase = "releer"] /\ EnFase(s, r, "releer")
    BY ConFase DEF Fases
  <2>2. Forma(s)
    BY <1>1, <1>2, <2>1, InquilinosAssumption DEF EnFase, Forma, InquilinosAssumption, Ops
  <2>3. Propia(s)' /\ s.t = t
    BY <1>3, <1>6, <1>9, <1>11, <2>1 DEF EnFase, Propia
  <2>4. Pasar(p, s) /\ fallos' \in 0..MaxFallos
    BY <1>1, <1>13, <2>1, FallosTipo DEF Ir
  <2>5. QED
    BY <1>1, <1>2, <1>3, <1>7, <1>8, <1>10, <2>2, <2>3, <2>4, PasoPropio
<1>14. QED
  BY <1>12, <1>13 DEF Activar

-----------------------------------------------------------------------------
(* The compensation *)

\* A request that compensates is an onboarding.
LEMMA Compensa ==
    ASSUME IInv, NEW p \in Peticiones,
           pet[p].fase \in {"compPlantillas", "compConfig", "compTenant"}
    PROVE  \E r \in Peticion :
             r = pet[p] /\ Forma(r) /\ r.op = "onboard" /\ Onboarding(r) /\ r.t \in Tenants /\ Propia(r)
<1>1. PICK r \in Peticion : /\ r = pet[p] /\ Forma(r)
                            /\ Onboarding(r) => r.t \in Tenants /\ Propia(r)
  BY Antes
<1>2. r.op = "onboard" /\ Onboarding(r)
  BY <1>1, InquilinosAssumption DEF Forma, Peticion, Ops, Onboarding, InquilinosAssumption
<1>3. QED
  BY <1>1, <1>2

\* A delete of the compensation that goes on to phase f, with or without an error.
LEMMA PasoCompensa ==
    ASSUME IInv, NEW p \in Peticiones, NEW r \in Peticion, r = pet[p], Forma(r),
           Onboarding(r), r.op = "onboard", NEW t \in Tenants, t = r.t,
           NEW f \in {"compConfig", "compTenant"},
           \/ /\ Ir(p, f) /\ UNCHANGED fallos
              /\ \A s \in Peticion : EnFase(s, r, f) => Propia(s)'
           \/ /\ fallos < MaxFallos /\ fallos' = fallos + 1
              /\ Pasar(p, [r EXCEPT !.fase = f, !.errores = TRUE]),
           TiposDatos', solape' \in BOOLEAN, UNCHANGED <<tenant, usuario, resultado, ajenos>>,
           Propia(r), \A u \in Tenants \ {t} : Amable(u)
    PROVE  IInv'
<1>1. resultado'[t] = "en curso" /\ tenant'[t] # Nulo
  BY DEF Propia
<1>2. Inquilino(t)'
  BY <1>1, EnCurso
<1>3. fallos' \in 0..MaxFallos
  BY FallosTipo
<1>4. CASE Ir(p, f) /\ \A s \in Peticion : EnFase(s, r, f) => Propia(s)'
  <2>0. f \in Fases
    BY DEF Fases
  <2>1. PICK s \in Peticion : s = [r EXCEPT !.fase = f] /\ EnFase(s, r, f)
    BY <2>0, ConFase
  <2>2. Forma(s)
    BY <2>1, InquilinosAssumption DEF EnFase, Forma, Onboarding, InquilinosAssumption, Ops
  <2>3. Pasar(p, s) /\ s.t = t /\ Propia(s)'
    BY <1>4, <2>1 DEF Ir, EnFase
  <2>4. QED
    BY <1>2, <1>3, <2>2, <2>3, PasoPropio
<1>5. CASE Pasar(p, [r EXCEPT !.fase = f, !.errores = TRUE])
  <2> DEFINE s == [r EXCEPT !.fase = f, !.errores = TRUE]
  <2>1. /\ s \in Peticion /\ s.fase = f /\ s.op = "onboard" /\ s.t = t /\ s.errores
        /\ s.correo = r.correo
    BY DEF Peticion, Fases
  <2>2. Pasar(p, s)
    BY <1>5
  <2> HIDE DEF s
  <2>3. Forma(s)
    BY <2>1, InquilinosAssumption DEF Forma, Onboarding, InquilinosAssumption, Ops
  <2>4. Propia(s)'
    BY <1>1, <2>1 DEF Propia
  <2>5. QED
    BY <1>2, <1>3, <2>1, <2>2, <2>3, <2>4, PasoPropio
<1>6. QED
  BY <1>4, <1>5

LEMMA PasoDeleteAllForTenant ==
    ASSUME IInv, NEW p \in Peticiones, DeleteAllForTenant(p)
    PROVE  IInv'
<1>1. PICK r \in Peticion : /\ r = pet[p] /\ Forma(r) /\ r.op = "onboard" /\ Onboarding(r)
                            /\ r.t \in Tenants /\ Propia(r)
  BY Compensa DEF DeleteAllForTenant, Borrar, En
<1>2. PICK t \in Tenants : t = r.t
  BY <1>1
<1>3. UNCHANGED <<tenant, config, usuario, resultado, ajenos, solape>>
  BY DEF DeleteAllForTenant, Borrar, datos, historia
<1>4. /\ semilla' \in [Tenants -> SUBSET Semillas]
      /\ \A u \in Tenants \ {t} : semilla'[u] = semilla[u]
  <2>1. UNCHANGED semilla \/ semilla' = [semilla EXCEPT ![t] = {}]
    BY <1>1, <1>2 DEF DeleteAllForTenant, Borrar, datos
  <2>2. QED
    BY <2>1, TiposAntes DEF TiposDatos
<1>5. TiposDatos' /\ solape' \in BOOLEAN
  BY <1>3, <1>4, TiposAntes DEF TiposDatos
<1>6. \A u \in Tenants \ {t} : Amable(u)
  BY <1>3, <1>4 DEF Amable
<1>7. CASE /\ Ir(p, "compConfig") /\ UNCHANGED fallos
           /\ semilla' = [semilla EXCEPT ![t] = {}]
  <2>1. semilla'[t] = {}
    BY <1>7, TiposAntes DEF TiposDatos
  <2>2. \A s \in Peticion : EnFase(s, r, "compConfig") => Propia(s)'
    BY <1>1, <1>2, <1>3, <2>1 DEF EnFase, Propia
  <2>3. QED
    BY <1>1, <1>2, <1>3, <1>5, <1>6, <1>7, <2>2, PasoCompensa
<1>8. CASE /\ fallos < MaxFallos /\ fallos' = fallos + 1
           /\ Pasar(p, [r EXCEPT !.fase = "compConfig", !.errores = TRUE])
  BY <1>1, <1>2, <1>3, <1>5, <1>6, <1>8, PasoCompensa
<1>9. QED
  BY <1>1, <1>2, <1>7, <1>8 DEF DeleteAllForTenant, Borrar

LEMMA PasoDeleteByTenantId ==
    ASSUME IInv, NEW p \in Peticiones, DeleteByTenantId(p)
    PROVE  IInv'
<1>1. PICK r \in Peticion : /\ r = pet[p] /\ Forma(r) /\ r.op = "onboard" /\ Onboarding(r)
                            /\ r.t \in Tenants /\ Propia(r)
  BY Compensa DEF DeleteByTenantId, Borrar, En
<1>2. PICK t \in Tenants : t = r.t
  BY <1>1
<1>3. UNCHANGED <<tenant, semilla, usuario, resultado, ajenos, solape>>
  BY DEF DeleteByTenantId, Borrar, datos, historia
<1>4. /\ config' \in [Tenants -> Contenido \cup {Nulo}]
      /\ \A u \in Tenants \ {t} : config'[u] = config[u]
  <2>1. UNCHANGED config \/ config' = [config EXCEPT ![t] = Nulo]
    BY <1>1, <1>2 DEF DeleteByTenantId, Borrar, datos
  <2>2. QED
    BY <2>1, TiposAntes DEF TiposDatos
<1>5. TiposDatos' /\ solape' \in BOOLEAN
  BY <1>3, <1>4, TiposAntes DEF TiposDatos
<1>6. \A u \in Tenants \ {t} : Amable(u)
  BY <1>3, <1>4 DEF Amable
<1>7. CASE /\ Ir(p, "compTenant") /\ UNCHANGED fallos
           /\ config' = [config EXCEPT ![t] = Nulo]
  <2>1. config'[t] = Nulo /\ r.fase = "compConfig"
    BY <1>1, <1>7, TiposAntes DEF TiposDatos, DeleteByTenantId, Borrar, En
  <2>2. \A s \in Peticion : EnFase(s, r, "compTenant") => Propia(s)'
    BY <1>1, <1>2, <1>3, <2>1 DEF EnFase, Propia
  <2>3. QED
    BY <1>1, <1>2, <1>3, <1>5, <1>6, <1>7, <2>2, PasoCompensa
<1>8. CASE /\ fallos < MaxFallos /\ fallos' = fallos + 1
           /\ Pasar(p, [r EXCEPT !.fase = "compTenant", !.errores = TRUE])
  BY <1>1, <1>2, <1>3, <1>5, <1>6, <1>8, PasoCompensa
<1>9. QED
  BY <1>1, <1>2, <1>7, <1>8 DEF DeleteByTenantId, Borrar

LEMMA PasoDeleteTenant ==
    ASSUME IInv, NEW p \in Peticiones, DeleteTenant(p)
    PROVE  IInv'
<1>1. PICK r \in Peticion : /\ r = pet[p] /\ Forma(r) /\ r.op = "onboard" /\ Onboarding(r)
                            /\ r.t \in Tenants /\ Propia(r)
  BY Compensa DEF DeleteTenant, En
<1>2. PICK t \in Tenants : t = r.t
  BY <1>1
<1>3. UNCHANGED <<config, semilla, usuario, ajenos, solape>> /\ Pasar(p, Libre)
  BY DEF DeleteTenant
<1>4. /\ fallos' \in 0..MaxFallos
      /\ \/ /\ tenant' = [tenant EXCEPT ![t] = Nulo] /\ ~r.errores
            /\ resultado' = [resultado EXCEPT ![t] = "rechazado"]
         \/ /\ tenant' = [tenant EXCEPT ![t] = Nulo] \/ UNCHANGED tenant
            /\ resultado' = [resultado EXCEPT ![t] = "incompleta"]
  BY <1>1, <1>2, FallosTipo DEF DeleteTenant
<1>5. /\ TiposDatos' /\ solape' \in BOOLEAN
      /\ \A u \in Tenants \ {t} : tenant'[u] = tenant[u] /\ resultado'[u] = resultado[u]
  BY <1>3, <1>4, TiposAntes DEF TiposDatos
<1>6. \A u \in Tenants \ {t} : Amable(u)
  BY <1>3, <1>5 DEF Amable
<1>7. Inquilino(t)'
  <2>1. resultado[t] = "en curso" /\ r.fase = "compTenant"
    BY <1>1, <1>2 DEF Propia, DeleteTenant, En
  <2>2. CASE resultado' = [resultado EXCEPT ![t] = "incompleta"]
    <3>1. resultado'[t] = "incompleta"
      BY <2>2, TiposAntes DEF TiposDatos
    <3>2. QED
      BY <1>3, <2>1, <3>1, EnCurso
  <2>3. CASE /\ tenant' = [tenant EXCEPT ![t] = Nulo] /\ ~r.errores
             /\ resultado' = [resultado EXCEPT ![t] = "rechazado"]
    <3>1. tenant'[t] = Nulo /\ resultado'[t] = "rechazado"
      BY <2>3, TiposAntes DEF TiposDatos
    <3>2. semilla[t] = {} /\ (config[t] # Nulo => <<"config">> \in ajenos[t])
      BY <1>1, <1>2, <2>1, <2>3 DEF Propia
    <3>3. QED
      BY <1>3, <2>1, <3>1, <3>2 DEF IInv, Inquilino
  <2>4. QED
    BY <1>4, <2>2, <2>3
<1>8. QED
  BY <1>1, <1>2, <1>3, <1>4, <1>5, <1>6, <1>7, LibreForma, PasoPropio

-----------------------------------------------------------------------------
(* The creation of a user *)

LEMMA PasoGuardarUsuario ==
    ASSUME IInv, NEW p \in Peticiones, GuardarUsuario(p)
    PROVE  IInv'
<1>1. PICK r \in Peticion : /\ r = pet[p] /\ Forma(r)
                            /\ Onboarding(r) => r.t \in Tenants /\ Propia(r)
  BY Antes
<1>2. /\ r.fase = "guardar" /\ r.correo \in Correos
      /\ r.op = "onboard" \/ r.op = "register" \/ (r.op = "crearUsuario" /\ r.aTiempo)
      /\ r.op = "register" <=> r.t = Nulo
  BY <1>1, InquilinosAssumption
     DEF GuardarUsuario, En, Forma, Peticion, Ops, InquilinosAssumption
<1>3. UNCHANGED <<tenant, config, semilla, solape>>
  BY DEF GuardarUsuario
<1>4. CASE /\ Rechazar(p) \/ Fallar(p)
           /\ UNCHANGED <<usuario, resultado, ajenos>>
  BY <1>3, <1>4, SaleSinDatos, FallosTipo DEF Rechazar, Fallar
<1> DEFINE Alta == [tenant |-> r.t]
           Anota == ajenos' = [ajenos EXCEPT ![r.t] = @ \cup {<<"usuario", r.correo>>}]
<1>5. CASE /\ usuario[r.correo] = Nulo /\ usuario' = [usuario EXCEPT ![r.correo] = Alta]
           /\ \/ Pasar(p, Libre) /\ UNCHANGED fallos
              \/ Fallar(p)
           /\ \/ /\ r.op = "onboard" /\ Pasar(p, Libre) /\ UNCHANGED ajenos
                 /\ resultado' = [resultado EXCEPT ![r.t] = "creado"]
              \/ r.t = Nulo /\ UNCHANGED <<resultado, ajenos>>
              \/ r.t # Nulo /\ Anota /\ UNCHANGED resultado
  <2>1. /\ usuario' \in [Correos -> Usuario \cup {Nulo}] /\ Alta # Nulo
        /\ usuario'[r.correo] = Alta /\ usuario[r.correo] = Nulo
        /\ \A c \in Correos \ {r.correo} : usuario'[c] = usuario[c]
    <3>1. Alta \in Usuario
      BY DEF Usuario, Peticion
    <3>2. Alta # Nulo
      BY <3>1, InquilinosAssumption DEF InquilinosAssumption
    <3> HIDE DEF Alta
    <3>3. QED
      BY <1>2, <1>5, <3>1, <3>2, TiposAntes DEF TiposDatos
  <2>2. fallos' \in 0..MaxFallos /\ solape' \in BOOLEAN
    BY <1>3, <1>5, FallosTipo, TiposAntes DEF Fallar
  <2>3. CASE r.t = Nulo /\ UNCHANGED <<resultado, ajenos>>
    <3>1. ~Onboarding(r) /\ TrasFallo(r) = Libre
      BY <2>3 DEF Onboarding, TrasFallo
    <3>2. Pasar(p, Libre)
      BY <1>1, <1>5, <3>1 DEF Fallar
    <3>3. TiposDatos'
      BY <1>3, <2>1, <2>3, TiposAntes DEF TiposDatos
    <3>4. \A t \in Tenants : Amable(t)
      <4>1. \A t \in Tenants : Alta.tenant # t
        BY <2>3, InquilinosAssumption DEF InquilinosAssumption
      <4> HIDE DEF Alta
      <4>2. QED
        BY <1>3, <2>1, <2>3, <4>1 DEF Amable
    <3>5. QED
      BY <2>2, <3>2, <3>3, <3>4, LibreForma, PasoAmable
  <2>4. CASE r.t # Nulo /\ Anota /\ UNCHANGED resultado
    <3>1. PICK t \in Tenants : t = r.t
      BY <2>4 DEF Peticion
    <3>2. /\ ajenos' \in [Tenants -> SUBSET Escritos]
          /\ \A u \in Tenants : ajenos[u] \subseteq ajenos'[u]
          /\ <<"usuario", r.correo>> \in ajenos'[t]
      <4>1. <<"usuario", r.correo>> \in Escritos
        BY <1>2 DEF Escritos
      <4>2. QED
        BY <2>4, <3>1, <4>1, TiposAntes DEF TiposDatos
    <3>3. TiposDatos'
      BY <1>3, <2>1, <2>4, <3>2, TiposAntes DEF TiposDatos
    <3>4. \A u \in Tenants : Amable(u)
      <4>1. \A u \in Tenants : Alta.tenant = u => u = t
        BY <3>1
      <4> HIDE DEF Alta
      <4>2. QED
        BY <1>3, <2>1, <2>4, <3>1, <3>2, <4>1 DEF Amable
    <3>5. CASE ~Onboarding(r)
      <4>1. TrasFallo(r) = Libre
        BY <3>5 DEF Onboarding, TrasFallo
      <4>2. Pasar(p, Libre)
        BY <1>1, <1>5, <4>1 DEF Fallar
      <4>3. QED
        BY <2>2, <3>3, <3>4, <4>2, LibreForma, PasoAmable
    <3>6. CASE Onboarding(r)
      <4>1. Inquilino(t)' /\ resultado'[t] = "en curso" /\ tenant'[t] # Nulo
        BY <1>1, <1>3, <2>4, <3>1, <3>4, <3>6, AmableInquilino DEF IInv, Propia
      <4>2. CASE Pasar(p, Libre)
        BY <1>1, <2>2, <3>1, <3>3, <3>4, <3>6, <4>1, <4>2, LibreForma, PasoPropio
      <4>3. CASE Fallar(p)
        BY <1>1, <2>2, <3>1, <3>3, <3>4, <3>6, <4>1, <4>3, PasoFalla DEF Fallar
      <4>4. QED
        BY <1>5, <4>2, <4>3
    <3>7. QED
      BY <3>5, <3>6
  <2>5. CASE /\ r.op = "onboard" /\ Pasar(p, Libre) /\ UNCHANGED ajenos
             /\ resultado' = [resultado EXCEPT ![r.t] = "creado"]
    <3>1. Onboarding(r)
      BY <1>2, <2>5 DEF Onboarding
    <3>2. PICK t \in Tenants : t = r.t
      BY <1>1, <3>1
    <3>3. /\ resultado' \in [Tenants -> {"nuevo", "en curso", "creado", "rechazado", "incompleta"}]
          /\ resultado'[t] = "creado"
          /\ \A u \in Tenants \ {t} : resultado'[u] = resultado[u]
      BY <2>5, <3>2, TiposAntes DEF TiposDatos
    <3>4. TiposDatos'
      BY <1>3, <2>1, <2>5, <3>3, TiposAntes DEF TiposDatos
    <3>5. \A u \in Tenants \ {t} : Amable(u)
      <4>1. \A u \in Tenants \ {t} : Alta.tenant # u
        BY <3>2
      <4> HIDE DEF Alta
      <4>2. QED
        BY <1>3, <2>1, <2>5, <3>3, <4>1 DEF Amable
    <3>6. Inquilino(t)'
      <4>1. tenant'[t] # Nulo /\ config'[t] # Nulo /\ semilla'[t] = Semillas
        BY <1>1, <1>2, <1>3, <3>1, <3>2 DEF Propia
      <4>2. usuario'[r.correo] # Nulo /\ usuario'[r.correo].tenant = t
        BY <2>1, <3>2
      <4>3. QED
        BY <1>2, <3>3, <4>1, <4>2 DEF Inquilino
    <3>7. QED
      BY <1>1, <2>2, <2>5, <3>1, <3>2, <3>4, <3>5, <3>6, LibreForma, PasoPropio
  <2>6. QED
    BY <1>5, <2>3, <2>4, <2>5
<1>6. QED
  <2>1. Ajeno(p, <<"usuario", r.correo>>) /\ r.op # "onboard" /\ r.t # Nulo => Anota
    BY <1>1, <1>2 DEF Ajeno
  <2> HIDE DEF Anota
  <2>2. QED
    BY <1>1, <1>2, <1>4, <1>5, <2>1 DEF GuardarUsuario, Anota

-----------------------------------------------------------------------------
(* The invariant *)

LEMMA InicioIInv == Init => IInv
<1> SUFFICES ASSUME Init PROVE IInv
  OBVIOUS
<1>1. TypeOK
  <2>1. pet \in [Peticiones -> Peticion]
    BY LibreForma DEF Init
  <2>2. fallos \in 0..MaxFallos
    BY InquilinosAssumption DEF Init, InquilinosAssumption
  <2>3. TiposDatos /\ solape \in BOOLEAN
    BY DEF Init, TiposDatos
  <2>4. QED
    BY <2>1, <2>2, <2>3 DEF TypeOK, TiposDatos
<1>2. \A t \in Tenants : Inquilino(t)
  BY DEF Init, Inquilino
<1>3. QED
  BY <1>1, <1>2, LibreForma DEF Init, IInv, Unicas

LEMMA PasoIInv == IInv /\ [Next]_vars => IInv'
<1> SUFFICES ASSUME IInv, [Next]_vars PROVE IInv'
  OBVIOUS
<1>1. ASSUME NEW p \in Peticiones,
             \/ FallarLectura(p) \/ FindOrCreate(p) \/ FindOrCreateSinEfecto(p) \/ ReleerConfig(p)
             \/ Onboard(p) \/ CreateTenantDoc(p) \/ Sembrar(p) \/ Activar(p) \/ Releer(p)
             \/ DeleteAllForTenant(p) \/ DeleteByTenantId(p) \/ DeleteTenant(p)
             \/ BuscarCorreo(p) \/ ComprobarTenant(p) \/ GuardarUsuario(p)
             \/ Register(p) \/ Contar(p)
             \/ Entrar(p) \/ EscribirConfig(p)
      PROVE  IInv'
  BY <1>1, PasoFallarLectura, PasoFindOrCreate, PasoFindOrCreateSinEfecto, PasoReleerConfig,
     PasoOnboard, PasoCreateTenantDoc, PasoSembrar, PasoActivar, PasoRelectura,
     PasoDeleteAllForTenant, PasoDeleteByTenantId, PasoDeleteTenant, PasoBuscarCorreo,
     PasoComprobarTenant, PasoGuardarUsuario, PasoRegister, PasoContar, PasoEntrar,
     PasoEscribirConfig
<1>2. CASE \E t \in Tenants : SetActivo(t)
  BY <1>2, PasoSetActivo
<1>3. CASE Reiniciar
  BY <1>3, PasoReiniciar
<1>4. CASE UNCHANGED vars
  BY <1>4 DEF vars, IInv, TypeOK, Forma, Onboarding, Propia, Unicas, Inquilino
<1>5. QED
  BY <1>1, <1>2, <1>3, <1>4 DEF Next

\* In every reachable state, what onboardings have done in their tenants is still there.
THEOREM Invariante == Spec => []IInv
BY InicioIInv, PasoIInv, PTL DEF Spec

\* Every variable keeps its type.
THEOREM TiposCorrectos == Spec => []TypeOK
<1>1. IInv => TypeOK
  BY DEF IInv
<1>2. QED
  BY <1>1, Invariante, PTL

\* A rejected onboarding whose compensation reports no error leaves nothing of the
\* tenant but what other requests wrote (compensateOnboarding).
THEOREM RechazosLimpios == Spec => []RechazoLimpio
<1>1. IInv => RechazoLimpio
  BY DEF IInv, Inquilino, RechazoLimpio, Usuarios
<1>2. QED
  BY <1>1, Invariante, PTL

\* An onboarding that answered has a complete tenant, and others leave it so.
THEOREM AltasCompletas == Spec => []AltaCompleta
<1>1. IInv => AltaCompleta
  BY DEF IInv, Inquilino, AltaCompleta, Usuarios
<1>2. QED
  BY <1>1, Invariante, PTL

-----------------------------------------------------------------------------
(* The configuration *)

LEMMA PasoEdiciones ==
    ASSUME IInv, [Next]_vars, NEW t \in Tenants, config[t] = "editado"
    PROVE  config'[t] = "editado" \/ (config'[t] = Nulo /\ resultado[t] = "en curso")
<1>1. CASE UNCHANGED config
  BY <1>1
<1>2. ASSUME NEW p \in Peticiones, FindOrCreate(p) PROVE config'[t] = "editado"
  BY <1>2, TiposAntes, InquilinosAssumption
     DEF FindOrCreate, TrasUpsert, TiposDatos, InquilinosAssumption, Contenido
<1>3. ASSUME NEW p \in Peticiones, EscribirConfig(p) PROVE config'[t] = "editado"
  BY <1>3, TiposAntes, InquilinosAssumption
     DEF EscribirConfig, TiposDatos, InquilinosAssumption, Contenido
<1>4. ASSUME NEW p \in Peticiones, DeleteByTenantId(p)
      PROVE  config'[t] = "editado" \/ (config'[t] = Nulo /\ resultado[t] = "en curso")
  <2>1. PICK r \in Peticion : r = pet[p] /\ Propia(r)
    BY <1>4, Compensa DEF DeleteByTenantId, Borrar, En
  <2>2. UNCHANGED config \/ config' = [config EXCEPT ![r.t] = Nulo]
    BY <1>4, <2>1 DEF DeleteByTenantId, Borrar, datos
  <2>3. QED
    BY <2>1, <2>2, TiposAntes DEF TiposDatos, Propia
<1>5. CASE UNCHANGED vars
  BY <1>5 DEF vars
<1>6. ASSUME NEW p \in Peticiones,
             \/ FallarLectura(p) \/ FindOrCreateSinEfecto(p) \/ ReleerConfig(p)
             \/ Onboard(p) \/ CreateTenantDoc(p) \/ Sembrar(p) \/ Activar(p) \/ Releer(p)
      PROVE  UNCHANGED config
  BY <1>6 DEF FallarLectura, FindOrCreateSinEfecto, ReleerConfig, Onboard, CreateTenantDoc,
              Sembrar, Activar, Releer, datos
<1>7. ASSUME NEW p \in Peticiones,
             \/ DeleteAllForTenant(p) \/ DeleteTenant(p)
             \/ BuscarCorreo(p) \/ ComprobarTenant(p) \/ GuardarUsuario(p)
             \/ Register(p) \/ Contar(p) \/ Entrar(p)
      PROVE  UNCHANGED config
  BY <1>7 DEF DeleteAllForTenant, Borrar, DeleteTenant, BuscarCorreo, ComprobarTenant,
              GuardarUsuario, Register, Contar, Entrar, datos
<1>8. CASE (\E u \in Tenants : SetActivo(u)) \/ Reiniciar
  BY <1>8, <1>1 DEF SetActivo, Reiniciar, datos
<1>9. QED
  BY <1>1, <1>2, <1>3, <1>4, <1>5, <1>6, <1>7, <1>8 DEF Next

\* Finding or creating the configuration never undoes an edit.
THEOREM EdicionesFirmes == Spec => EdicionesConservadas
<1>1. IInv /\ [Next]_vars =>
        [\A t \in Tenants : config[t] = "editado" =>
           \/ config'[t] = "editado"
           \/ config'[t] = Nulo /\ resultado[t] = "en curso"]_vars
  BY PasoEdiciones
<1>2. QED
  BY <1>1, Invariante, PTL DEF Spec, EdicionesConservadas

-----------------------------------------------------------------------------
(* The first administrator *)

Sistema(c) == usuario[c] # Nulo /\ usuario[c].tenant = Nulo

\* Who is past the count is alone there, and finds no administrator.
PrimerAdmin ==
    ~solape =>
        /\ \A p, q \in Peticiones : Registrando(p) /\ Registrando(q) => p = q
        /\ \A p \in Peticiones, c \in Correos : Registrando(p) => ~Sistema(c)
        /\ \A c, d \in Correos : Sistema(c) /\ Sistema(d) => c = d

\* A step after which fewer requests are registering, and no administrator is new.
LEMMA PrimerAdminIgual ==
    ASSUME PrimerAdmin, UNCHANGED <<usuario, solape>>,
           \A q \in Peticiones : Registrando(q)' => Registrando(q)
    PROVE  PrimerAdmin'
BY DEF PrimerAdmin, Sistema

\* p goes on, and if it is past the count it was so before.
NoRegistra(p) ==
    \E r : Pasar(p, r) /\ (r.op # "register" \/ r.fase = "contar" \/ Registrando(p))

LEMMA NoRegistraIgual ==
    ASSUME NEW p \in Peticiones, NoRegistra(p), TypeOK
    PROVE  \A q \in Peticiones : Registrando(q)' => Registrando(q)
<1>1. PICK r : Pasar(p, r) /\ (r.op # "register" \/ r.fase = "contar" \/ Registrando(p))
  BY DEF NoRegistra
<1>2. pet'[p] = r /\ \A q \in Peticiones \ {p} : pet'[q] = pet[q]
  BY <1>1 DEF TypeOK, Pasar
<1>3. QED
  BY <1>1, <1>2 DEF Registrando

LEMMA LibreNoRegistra == Libre.op # "register"
BY InquilinosAssumption DEF InquilinosAssumption, Libre, Ops

\* Who leaves the handler registers no more.
LEMMA FalloNoRegistra ==
    ASSUME NEW p \in Peticiones, Pasar(p, TrasFallo(pet[p])), pet[p] \in Peticion
    PROVE  NoRegistra(p)
<1>1. CASE pet[p].op = "onboard" /\ pet[p].t # Nulo
  <2>1. TrasFallo(pet[p]).op = "onboard"
    BY <1>1 DEF TrasFallo, Peticion
  <2>2. QED
    BY <2>1 DEF NoRegistra
<1>2. CASE ~(pet[p].op = "onboard" /\ pet[p].t # Nulo)
  BY <1>2, LibreNoRegistra DEF TrasFallo, NoRegistra
<1>3. QED
  BY <1>1, <1>2

\* A request of another kind, or still where it was, only goes on.
LEMMA IrNoRegistra ==
    ASSUME NEW p \in Peticiones, NEW f, Ir(p, f), pet[p] \in Peticion,
           pet[p].op # "register" \/ Registrando(p)
    PROVE  NoRegistra(p)
<1>1. [pet[p] EXCEPT !.fase = f].op = pet[p].op
  BY DEF Peticion
<1>2. QED
  BY <1>1 DEF Ir, NoRegistra

LEMMA PasosNoRegistran ==
    ASSUME IInv, NEW p \in Peticiones,
           \/ FallarLectura(p) \/ FindOrCreate(p) \/ FindOrCreateSinEfecto(p) \/ ReleerConfig(p)
           \/ Onboard(p) \/ CreateTenantDoc(p) \/ Sembrar(p) \/ Activar(p) \/ Releer(p)
           \/ DeleteAllForTenant(p) \/ DeleteByTenantId(p) \/ DeleteTenant(p)
           \/ BuscarCorreo(p) \/ ComprobarTenant(p)
           \/ Register(p) \/ Entrar(p) \/ EscribirConfig(p)
    PROVE  NoRegistra(p) /\ UNCHANGED <<usuario, solape>>
<1>1. PICK r \in Peticion : r = pet[p] /\ Forma(r)
  BY Antes
<1>2. r.fase \in {"config", "releerConfig", "semillas", "releer", "tenant", "crear",
                   "compPlantillas", "compConfig", "compTenant"} => r.op # "register"
  BY <1>1 DEF Forma
<1>3. CASE FallarLectura(p)
  BY <1>1, <1>3, FalloNoRegistra DEF FallarLectura, Fallar, datos, historia
<1>4. CASE FindOrCreate(p)
  <2>1. Pasar(p, SiguienteConfig(r)) => \E f : Ir(p, f)
    BY <1>1 DEF SiguienteConfig, Ir
  <2>2. QED
    BY <1>1, <1>2, <1>4, <2>1, FalloNoRegistra, IrNoRegistra DEF FindOrCreate, En, Fallar
<1>5. CASE FindOrCreateSinEfecto(p)
  BY <1>1, <1>2, <1>5, FalloNoRegistra, IrNoRegistra
     DEF FindOrCreateSinEfecto, En, Fallar, datos, historia
<1>6. CASE ReleerConfig(p)
  <2>1. Pasar(p, SiguienteConfig(r)) => \E f : Ir(p, f)
    BY <1>1 DEF SiguienteConfig, Ir
  <2>2. QED
    BY <1>1, <1>2, <1>6, <2>1, FalloNoRegistra, IrNoRegistra
       DEF ReleerConfig, En, Rechazar, datos, historia
<1>7. CASE Onboard(p)
  <2>1. PICK clave \in Claves, correo \in Correos :
          Pasar(p, [Libre EXCEPT !.op = "onboard", !.fase = "crear", !.clave = clave,
                                 !.correo = correo])
    BY <1>7 DEF Onboard
  <2>2. [Libre EXCEPT !.op = "onboard", !.fase = "crear", !.clave = clave,
                      !.correo = correo].op = "onboard"
    BY DEF Libre
  <2>3. QED
    BY <1>7, <2>1, <2>2 DEF NoRegistra, Onboard, datos, historia
<1>8. CASE CreateTenantDoc(p)
  <2>1. ASSUME NEW t, Pasar(p, [r EXCEPT !.t = t, !.fase = "config", !.clave = Nulo])
        PROVE  NoRegistra(p)
    <3>1. [r EXCEPT !.t = t, !.fase = "config", !.clave = Nulo].op = r.op
      BY DEF Peticion
    <3>2. QED
      BY <1>1, <1>2, <1>8, <2>1, <3>1 DEF NoRegistra, CreateTenantDoc, En
  <2>2. QED
    BY <1>1, <1>8, <2>1, FalloNoRegistra DEF CreateTenantDoc, Rechazar, Fallar
<1>9. CASE Sembrar(p)
  <2>1. ASSUME Pasar(p, [r EXCEPT !.n = @ + 1]) PROVE NoRegistra(p)
    <3>1. [r EXCEPT !.n = @ + 1].op = r.op
      BY DEF Peticion
    <3>2. QED
      BY <1>1, <1>2, <1>9, <2>1, <3>1 DEF NoRegistra, Sembrar, En
  <2>2. QED
    BY <1>1, <1>9, <2>1, FalloNoRegistra DEF Sembrar, Fallar, historia
<1>10. CASE Activar(p) \/ Releer(p)
  BY <1>1, <1>2, <1>10, FalloNoRegistra, IrNoRegistra
     DEF Activar, Releer, En, Fallar, datos, historia
<1>11. ASSUME NEW f, Pasar(p, [r EXCEPT !.fase = f, !.errores = TRUE]), r.op # "register"
       PROVE  NoRegistra(p)
  <2>1. [r EXCEPT !.fase = f, !.errores = TRUE].op = r.op
    BY DEF Peticion
  <2>2. QED
    BY <1>11, <2>1 DEF NoRegistra
<1>12. CASE DeleteAllForTenant(p) \/ DeleteByTenantId(p)
  BY <1>1, <1>2, <1>11, <1>12, IrNoRegistra
     DEF DeleteAllForTenant, DeleteByTenantId, Borrar, En, datos, historia
<1>13. CASE DeleteTenant(p) \/ EscribirConfig(p)
  BY <1>13, LibreNoRegistra DEF DeleteTenant, EscribirConfig, NoRegistra, historia
<1>14. CASE BuscarCorreo(p)
  <2>1. r.op = "register" => Registrando(p)
    BY <1>1, <1>14 DEF BuscarCorreo, En, Registrando
  <2>2. QED
    BY <1>1, <1>14, <2>1, FalloNoRegistra, IrNoRegistra
       DEF BuscarCorreo, Rechazar, datos, historia
<1>15. CASE ComprobarTenant(p)
  BY <1>1, <1>2, <1>15, FalloNoRegistra, IrNoRegistra
     DEF ComprobarTenant, Rechazar, En, datos, historia
<1>16. CASE Register(p)
  <2>1. PICK correo \in Correos :
          Pasar(p, [Libre EXCEPT !.op = "register", !.fase = "contar", !.correo = correo])
    BY <1>16 DEF Register
  <2>2. [Libre EXCEPT !.op = "register", !.fase = "contar", !.correo = correo].fase = "contar"
    BY DEF Libre
  <2>3. QED
    BY <1>16, <2>1, <2>2 DEF NoRegistra, Register, datos, historia
<1>17. CASE Entrar(p)
  <2>1. PICK op \in DOMAIN PrimeraFase, t \in Tenants, correo \in Correos :
          Pasar(p, [Libre EXCEPT !.op = op, !.fase = PrimeraFase[op], !.t = t,
                         !.correo = IF op = "crearUsuario" THEN correo ELSE Nulo,
                         !.aTiempo = tenant[t] # Nulo])
    BY <1>17 DEF Entrar
  <2>2. [Libre EXCEPT !.op = op, !.fase = PrimeraFase[op], !.t = t,
                      !.correo = IF op = "crearUsuario" THEN correo ELSE Nulo,
                      !.aTiempo = tenant[t] # Nulo].op # "register"
    BY DEF Libre, PrimeraFase
  <2>3. QED
    BY <1>17, <2>1, <2>2 DEF NoRegistra, Entrar, datos, historia
<1>18. QED
  BY <1>3, <1>4, <1>5, <1>6, <1>7, <1>8, <1>9, <1>10, <1>12, <1>13, <1>14, <1>15, <1>16, <1>17

LEMMA PrimerAdminContar ==
    ASSUME IInv, PrimerAdmin, NEW p \in Peticiones, Contar(p)
    PROVE  PrimerAdmin'
<1>1. pet[p] \in Peticion /\ ~Registrando(p)
  BY DEF IInv, TypeOK, Contar, En, Registrando
<1>2. CASE Pasar(p, Libre) /\ UNCHANGED solape
  <2>1. NoRegistra(p)
    BY <1>2, LibreNoRegistra DEF NoRegistra
  <2>2. QED
    BY <1>2, <2>1, NoRegistraIgual, PrimerAdminIgual DEF IInv, Contar, datos
<1>3. CASE /\ SinUsuarios /\ Ir(p, "correo")
           /\ solape' = (solape \/ \E q \in Peticiones \ {p} : Registrando(q))
  <2> SUFFICES ASSUME ~solape' PROVE PrimerAdmin'
    BY DEF PrimerAdmin
  <2>1. \A q \in Peticiones \ {p} : pet'[q] = pet[q] /\ ~Registrando(q)
    BY <1>3 DEF Ir, Pasar, IInv, TypeOK
  <2>2. \A q \in Peticiones \ {p} : ~Registrando(q)'
    BY <2>1 DEF Registrando
  <2>3. \A c \in Correos : ~Sistema(c)'
    BY <1>3 DEF SinUsuarios, Sistema, Contar, datos
  <2>4. QED
    BY <2>2, <2>3 DEF PrimerAdmin
<1>4. QED
  BY <1>2, <1>3 DEF Contar

LEMMA PrimerAdminGuardar ==
    ASSUME IInv, PrimerAdmin, NEW p \in Peticiones, GuardarUsuario(p)
    PROVE  PrimerAdmin'
<1>1. PICK r \in Peticion : r = pet[p] /\ Forma(r)
  BY Antes
<1>2. r.fase = "guardar" /\ r.correo \in Correos /\ (r.op = "register" <=> r.t = Nulo)
  BY <1>1, InquilinosAssumption
     DEF GuardarUsuario, En, Forma, Peticion, Ops, InquilinosAssumption
<1>3. Pasar(p, Libre) \/ Pasar(p, TrasFallo(r))
  BY <1>1 DEF GuardarUsuario, Rechazar, Fallar
<1>4. PICK s : Pasar(p, s) /\ s.op # "register"
  <2>1. TrasFallo(r).op # "register"
    BY LibreNoRegistra DEF TrasFallo, Peticion
  <2>2. QED
    BY <1>3, <2>1, LibreNoRegistra
<1>5. /\ \A q \in Peticiones : Registrando(q)' => Registrando(q) /\ q # p
      /\ UNCHANGED solape
  <2>1. pet'[p] = s /\ \A q \in Peticiones \ {p} : pet'[q] = pet[q]
    BY <1>4 DEF IInv, TypeOK, Pasar
  <2>2. QED
    BY <1>4, <2>1 DEF Registrando, GuardarUsuario
<1>6. CASE UNCHANGED usuario
  BY <1>5, <1>6, PrimerAdminIgual
<1>7. CASE usuario[r.correo] = Nulo /\ usuario' = [usuario EXCEPT ![r.correo] = [tenant |-> r.t]]
  <2>1. \A c \in Correos \ {r.correo} : Sistema(c)' <=> Sistema(c)
    BY <1>7, TiposAntes DEF IInv, TiposDatos, Sistema
  <2>2. CASE r.op = "register"
    <3>1. Registrando(p)
      BY <1>1, <1>2, <2>2 DEF Registrando
    <3>2. QED
      BY <1>5, <2>1, <3>1 DEF PrimerAdmin
  <2>3. CASE r.op # "register"
    <3>1. ~Sistema(r.correo)'
      BY <1>2, <1>7, <2>3, TiposAntes DEF TiposDatos, Sistema
    <3>2. QED
      BY <1>5, <2>1, <3>1 DEF PrimerAdmin
  <2>4. QED
    BY <2>2, <2>3
<1>8. QED
  BY <1>1, <1>6, <1>7 DEF GuardarUsuario

LEMMA PrimerAdminPaso == IInv /\ PrimerAdmin /\ [Next]_vars => PrimerAdmin'
<1> SUFFICES ASSUME IInv, PrimerAdmin, [Next]_vars PROVE PrimerAdmin'
  OBVIOUS
<1>1. ASSUME NEW p \in Peticiones,
             \/ FallarLectura(p) \/ FindOrCreate(p) \/ FindOrCreateSinEfecto(p) \/ ReleerConfig(p)
             \/ Onboard(p) \/ CreateTenantDoc(p) \/ Sembrar(p) \/ Activar(p) \/ Releer(p)
             \/ DeleteAllForTenant(p) \/ DeleteByTenantId(p) \/ DeleteTenant(p)
             \/ BuscarCorreo(p) \/ ComprobarTenant(p)
             \/ Register(p) \/ Entrar(p) \/ EscribirConfig(p)
      PROVE  PrimerAdmin'
  BY <1>1, PasosNoRegistran, NoRegistraIgual, PrimerAdminIgual DEF IInv
<1>2. CASE (\E t \in Tenants : SetActivo(t)) \/ UNCHANGED vars
  BY <1>2, PrimerAdminIgual DEF SetActivo, vars, historia, Registrando
<1>3. CASE Reiniciar
  <2>1. \A q \in Peticiones : ~Registrando(q)'
    BY <1>3, LibreNoRegistra DEF Reiniciar, Registrando
  <2>2. QED
    BY <1>3, <2>1, PrimerAdminIgual DEF Reiniciar, datos, historia
<1>4. QED
  BY <1>1, <1>2, <1>3, PrimerAdminContar, PrimerAdminGuardar DEF Next

\* Whoever has registered is the only administrator, unless two registrations
\* overlapped between the count and the save (register of AuthController).
THEOREM UnPrimerAdmin == Spec => []PrimerAdminUnico
<1>1. Init => PrimerAdmin
  BY LibreNoRegistra DEF Init, PrimerAdmin, Sistema, Registrando
<1>2. PrimerAdmin => PrimerAdminUnico
  <2> SUFFICES ASSUME PrimerAdmin, ~solape
               PROVE  ~(Cardinality({c \in Correos : usuario[c] # Nulo /\ usuario[c].tenant = Nulo}) > 1)
    BY DEF PrimerAdminUnico
  <2> DEFINE S == {c \in Correos : usuario[c] # Nulo /\ usuario[c].tenant = Nulo}
  <2>1. \A c, d \in S : c = d
    BY DEF PrimerAdmin, Sistema
  <2> HIDE DEF S
  <2>2. CASE S = {}
    BY <2>2, FS_EmptySet DEF S
  <2>3. CASE S # {}
    <3>1. PICK c : S = {c}
      BY <2>1, <2>3
    <3>2. Cardinality(S) = 1
      BY <3>1, FS_Singleton
    <3>3. QED
      BY <3>2 DEF S
  <2>4. QED
    BY <2>2, <2>3
<1>3. QED
  BY <1>1, <1>2, PrimerAdminPaso, Invariante, PTL DEF Spec
=============================================================================
