------------------------------ MODULE Inquilinos ------------------------------
(***************************************************************************)
(* Provisioning of tenants: the bootstrap registration of the first        *)
(* administrator, onboard of TenantsService with its compensation, and the *)
(* requests that other users make in a tenant meanwhile: an inactive       *)
(* tenant is already in the inventory, and an admin_sistema may enter it.  *)
(*                                                                         *)
(* Every call to the database is one step; it may fail, before or after    *)
(* its effect, and the process may stop between any two.                   *)
(***************************************************************************)
EXTENDS Naturals, FiniteSets

CONSTANTS
    Tenants,      \* ids of the tenants
    Claves,       \* values of the unique field "clave"
    Correos,      \* mails; one user each
    Peticiones,   \* requests in flight at once
    Nulo,         \* null, or not stored
    NumSemillas,  \* length of PLANTILLAS_SEED
    MaxFallos     \* bound: failed calls and restarts

VARIABLES
    tenant,     \* tenant[t]: the stored tenant, or Nulo
    config,     \* config[t]: its TenantConfig
    semilla,    \* semilla[t]: which of PLANTILLAS_SEED it has as templates
    usuario,    \* usuario[c]: the user with mail c
    pet,        \* pet[p]: progress of request p
    fallos,     \* failures so far, for the bound
    resultado,  \* history: how the onboarding of t ended
    ajenos,     \* history: ajenos[t], what other requests wrote in t, having
                \* entered while t was stored
    solape      \* history: two registrations have overlapped

vars == <<tenant, config, semilla, usuario, pet, fallos, resultado, ajenos, solape>>
historia == <<resultado, ajenos, solape>>
datos == <<tenant, config, semilla, usuario>>

-----------------------------------------------------------------------------

Semillas == 1..NumSemillas

Tenant == [clave: Claves, activo: BOOLEAN]

\* A document as its upsert creates it, or changed by a user since.
Contenido == {"inicial", "editado"}

\* An admin_sistema has no tenant.
Usuario == [tenant: Tenants \cup {Nulo}]

Ops == {"onboard", "register", "editarConfig", "crearUsuario"}

Fases == {"libre", "crear", "config", "releerConfig", "escribirConfig", "semillas",
          "releer", "contar", "correo", "tenant", "guardar",
          "compPlantillas", "compConfig", "compTenant"}

\* n counts the seeds done; errores says whether the list of the compensation has
\* an entry.  History: aTiempo, the tenant was stored when the request entered it.
Peticion ==
    [op: Ops \cup {Nulo}, fase: Fases, t: Tenants \cup {Nulo}, clave: Claves \cup {Nulo},
     correo: Correos \cup {Nulo}, n: 0..NumSemillas, errores: BOOLEAN,
     aTiempo: BOOLEAN]

\* What a request may add to a tenant.
Escritos == {<<"config">>} \cup {<<"usuario", c>> : c \in Correos}

Libre == [op |-> Nulo, fase |-> "libre", t |-> Nulo, clave |-> Nulo, correo |-> Nulo,
          n |-> 0, errores |-> FALSE, aTiempo |-> FALSE]

ASSUME InquilinosAssumption ==
    /\ NumSemillas \in Nat \ {0} /\ MaxFallos \in Nat
    /\ Nulo \notin Tenants \cup Claves \cup Correos \cup Ops \cup Contenido
    /\ Nulo \notin Tenant \cup Usuario

TypeOK ==
    /\ tenant \in [Tenants -> Tenant \cup {Nulo}]
    /\ config \in [Tenants -> Contenido \cup {Nulo}]
    /\ semilla \in [Tenants -> SUBSET Semillas]
    /\ usuario \in [Correos -> Usuario \cup {Nulo}]
    /\ pet \in [Peticiones -> Peticion]
    /\ fallos \in 0..MaxFallos
    /\ resultado \in [Tenants -> {"nuevo", "en curso", "creado", "rechazado", "incompleta"}]
    /\ ajenos \in [Tenants -> SUBSET Escritos]
    /\ solape \in BOOLEAN

Init ==
    /\ tenant = [t \in Tenants |-> Nulo]
    /\ config = [t \in Tenants |-> Nulo]
    /\ semilla = [t \in Tenants |-> {}]
    /\ usuario = [c \in Correos |-> Nulo]
    /\ pet = [p \in Peticiones |-> Libre]
    /\ fallos = 0
    /\ resultado = [t \in Tenants |-> "nuevo"]
    /\ ajenos = [t \in Tenants |-> {}]
    /\ solape = FALSE

En(p, f) == pet[p].fase = f
Pasar(p, r) == pet' = [pet EXCEPT ![p] = r]
Ir(p, f) == Pasar(p, [pet[p] EXCEPT !.fase = f])

MutTrasFallo(r) ==
    IF r.op = "onboard" /\ r.t # Nulo THEN [r EXCEPT !.fase = "compConfig"] ELSE Libre

\* An error leaves the handler; onboard compensates once it has the id.
TrasFallo(r) ==
    IF r.op = "onboard" /\ r.t # Nulo THEN [r EXCEPT !.fase = "compPlantillas"] ELSE Libre

Rechazar(p) == Pasar(p, TrasFallo(pet[p])) /\ UNCHANGED fallos

\* A call of p fails, whether or not it has had its effect.
Fallar(p) == fallos < MaxFallos /\ fallos' = fallos + 1 /\ Pasar(p, TrasFallo(pet[p]))

\* A read that fails.
FallarLectura(p) ==
    /\ pet[p].fase \in {"releerConfig", "releer", "contar", "correo", "tenant"}
    /\ Fallar(p)
    /\ UNCHANGED <<datos, historia>>

HaySistema == \E c \in Correos : usuario[c] # Nulo /\ usuario[c].tenant = Nulo

-----------------------------------------------------------------------------
(* findOrCreateForTenant *)

MutTrasUpsert(d) == "inicial"

\* An upsert with $setOnInsert.
TrasUpsert(d) == IF d = Nulo THEN "inicial" ELSE d

Ajeno(p, x) ==
    ajenos' = IF pet[p].aTiempo THEN [ajenos EXCEPT ![pet[p].t] = @ \cup {x}] ELSE ajenos

SiguienteConfig(r) ==
    [r EXCEPT !.fase = IF r.op = "onboard" THEN "semillas" ELSE "escribirConfig"]

FindOrCreate(p) ==
    LET t == pet[p].t IN
    /\ En(p, "config")
    /\ config' = [config EXCEPT ![t] = TrasUpsert(@)]
    /\ IF pet[p].op # "onboard" THEN Ajeno(p, <<"config">>) ELSE UNCHANGED ajenos
    /\ \/ Pasar(p, SiguienteConfig(pet[p])) /\ UNCHANGED fallos
       \/ Fallar(p)
    /\ UNCHANGED <<tenant, semilla, usuario, resultado, solape>>

\* Two upserts at once: the second is refused by the unique index (or the call
\* fails without effect).
FindOrCreateSinEfecto(p) ==
    /\ En(p, "config")
    /\ \/ config[pet[p].t] # Nulo /\ Ir(p, "releerConfig") /\ UNCHANGED fallos
       \/ Fallar(p)
    /\ UNCHANGED <<datos, historia>>

ReleerConfig(p) ==
    /\ En(p, "releerConfig")
    /\ IF config[pet[p].t] # Nulo
       THEN Pasar(p, SiguienteConfig(pet[p])) /\ UNCHANGED fallos
       ELSE Rechazar(p)
    /\ UNCHANGED <<datos, historia>>

-----------------------------------------------------------------------------
(* onboard *)

\* Bound: as many onboardings get past here as there are ids left.
QuedaId ==
    Cardinality({q \in Peticiones : En(q, "crear")})
      < Cardinality({t \in Tenants : resultado[t] = "nuevo"})

\* RolesGuard lets an admin_sistema in; the slug is valid.
Onboard(p) ==
    /\ En(p, "libre") /\ HaySistema /\ QuedaId
    /\ \E clave \in Claves, correo \in Correos :
         Pasar(p, [Libre EXCEPT !.op = "onboard", !.fase = "crear", !.clave = clave,
                                !.correo = correo])
    /\ UNCHANGED <<datos, fallos, historia>>

\* A clave that is taken is a 409.  The handler has the id only if the save is
\* confirmed: else the tenant stays, inactive and without compensation.
CreateTenantDoc(p) ==
    LET r == pet[p] IN
    /\ En(p, "crear")
    /\ \/ /\ \E t \in Tenants : tenant[t] # Nulo /\ tenant[t].clave = r.clave
          /\ Rechazar(p) /\ UNCHANGED <<tenant, resultado>>
       \/ /\ ~\E t \in Tenants : tenant[t] # Nulo /\ tenant[t].clave = r.clave
          /\ \E t \in Tenants :
               /\ resultado[t] = "nuevo"
               /\ tenant' = [tenant EXCEPT ![t] = [clave |-> r.clave, activo |-> FALSE]]
               /\ resultado' = [resultado EXCEPT ![t] = "en curso"]
               /\ \/ Pasar(p, [r EXCEPT !.t = t, !.fase = "config", !.clave = Nulo]) /\ UNCHANGED fallos
                  \/ Fallar(p)
       \/ Fallar(p) /\ UNCHANGED <<tenant, resultado>>
    /\ UNCHANGED <<config, semilla, usuario, ajenos, solape>>

MutQuedanSemillasMenos(n) == n + 1 < NumSemillas

QuedanSemillas(n) == n < NumSemillas

\* One upsert of ensureSeededForTenant.
Sembrar(p) ==
    LET r == pet[p] IN
    /\ En(p, "semillas") /\ QuedanSemillas(r.n)
    /\ \/ /\ semilla' = [semilla EXCEPT ![r.t] = @ \cup {r.n + 1}]
          /\ \/ Pasar(p, [r EXCEPT !.n = @ + 1]) /\ UNCHANGED fallos
             \/ Fallar(p)
       \/ Fallar(p) /\ UNCHANGED semilla
    /\ UNCHANGED <<tenant, config, usuario, historia>>

\* activateTenant: setActivo, and a findById of its own.
Activar(p) ==
    LET r == pet[p] IN
    /\ En(p, "semillas") /\ ~QuedanSemillas(r.n)
    /\ \/ /\ tenant' = [tenant EXCEPT ![r.t].activo = TRUE]
          /\ \/ Ir(p, "releer") /\ UNCHANGED fallos
             \/ Fallar(p)
       \/ Fallar(p) /\ UNCHANGED tenant
    /\ UNCHANGED <<config, semilla, usuario, historia>>

Releer(p) ==
    /\ En(p, "releer") /\ Ir(p, "correo")
    /\ UNCHANGED <<datos, fallos, historia>>

-----------------------------------------------------------------------------
(* The compensation: each delete is tried, whatever became of the one before *)

\* One delete of the compensation.
Borrar(p, fase, efecto, sig) ==
    /\ En(p, fase)
    /\ \/ efecto /\ Ir(p, sig) /\ UNCHANGED fallos
       \/ /\ fallos < MaxFallos /\ fallos' = fallos + 1
          /\ efecto \/ UNCHANGED datos
          /\ Pasar(p, [pet[p] EXCEPT !.fase = sig, !.errores = TRUE])

DeleteAllForTenant(p) ==
    /\ Borrar(p, "compPlantillas",
              /\ semilla' = [semilla EXCEPT ![pet[p].t] = {}]
              /\ UNCHANGED <<tenant, config, usuario>>, "compConfig")
    /\ UNCHANGED historia

DeleteByTenantId(p) ==
    /\ Borrar(p, "compConfig",
              /\ config' = [config EXCEPT ![pet[p].t] = Nulo]
              /\ UNCHANGED <<tenant, semilla, usuario>>, "compTenant")
    /\ UNCHANGED historia

DeleteTenant(p) ==
    LET r == pet[p] IN
    /\ En(p, "compTenant")
    /\ \/ /\ UNCHANGED fallos /\ tenant' = [tenant EXCEPT ![r.t] = Nulo]
          /\ resultado' = [resultado EXCEPT ![r.t] = IF r.errores THEN "incompleta"
                                                     ELSE "rechazado"]
       \/ /\ fallos < MaxFallos /\ fallos' = fallos + 1
          /\ tenant' = [tenant EXCEPT ![r.t] = Nulo] \/ UNCHANGED tenant
          /\ resultado' = [resultado EXCEPT ![r.t] = "incompleta"]
    /\ Pasar(p, Libre)
    /\ UNCHANGED <<config, semilla, usuario, ajenos, solape>>

-----------------------------------------------------------------------------
(* UsersService.create, the last step of onboard and of two other handlers *)

\* findOne by mail.
BuscarCorreo(p) ==
    LET r == pet[p] IN
    /\ En(p, "correo")
    /\ IF usuario[r.correo] # Nulo THEN Rechazar(p)
       ELSE Ir(p, IF r.t = Nulo THEN "guardar" ELSE "tenant") /\ UNCHANGED fallos
    /\ UNCHANGED <<datos, historia>>

Operable(t) == tenant[t] # Nulo /\ tenant[t].activo

\* resolveTenantForRole.
ComprobarTenant(p) ==
    /\ En(p, "tenant")
    /\ IF Operable(pet[p].t) THEN Ir(p, "guardar") /\ UNCHANGED fallos ELSE Rechazar(p)
    /\ UNCHANGED <<datos, historia>>

\* The mail is unique: a 409 if it has been taken meanwhile.
GuardarUsuario(p) ==
    LET r == pet[p] IN
    /\ En(p, "guardar")
    /\ \/ /\ usuario[r.correo] # Nulo
          /\ Rechazar(p) /\ UNCHANGED <<usuario, resultado, ajenos>>
       \/ Fallar(p) /\ UNCHANGED <<usuario, resultado, ajenos>>
       \/ /\ usuario[r.correo] = Nulo
          /\ usuario' = [usuario EXCEPT ![r.correo] = [tenant |-> r.t]]
          /\ \/ /\ Pasar(p, Libre) /\ UNCHANGED fallos
                /\ IF r.op = "onboard"
                   THEN resultado' = [resultado EXCEPT ![r.t] = "creado"] /\ UNCHANGED ajenos
                   ELSE /\ UNCHANGED resultado
                        /\ IF r.t = Nulo THEN UNCHANGED ajenos ELSE Ajeno(p, <<"usuario", r.correo>>)
             \/ /\ Fallar(p) /\ UNCHANGED resultado
                /\ IF r.t = Nulo THEN UNCHANGED ajenos
                   ELSE ajenos' = [ajenos EXCEPT ![r.t] = @ \cup {<<"usuario", r.correo>>}]
    /\ UNCHANGED <<tenant, config, semilla, solape>>

-----------------------------------------------------------------------------
(* register: the first administrator *)

Register(p) ==
    /\ En(p, "libre")
    /\ \E correo \in Correos :
         Pasar(p, [Libre EXCEPT !.op = "register", !.fase = "contar", !.correo = correo])
    /\ UNCHANGED <<datos, fallos, historia>>

MutSinUsuarios == Cardinality({c \in Correos : usuario[c] # Nulo}) <= 1

\* count() is zero.
SinUsuarios == \A c \in Correos : usuario[c] = Nulo

Registrando(q) == pet[q].op = "register" /\ pet[q].fase \in {"correo", "guardar"}

Contar(p) ==
    /\ En(p, "contar")
    /\ IF SinUsuarios
       THEN /\ Ir(p, "correo")
            /\ solape' = (solape \/ \E q \in Peticiones \ {p} : Registrando(q))
       ELSE Pasar(p, Libre) /\ UNCHANGED solape
    /\ UNCHANGED <<datos, fallos, resultado, ajenos>>

-----------------------------------------------------------------------------
(* Requests in a tenant *)

\* TenantContextGuard: an admin_sistema names any tenant that is stored, the
\* others have that of their JWT, which must be active too.
Entra(rol, t) ==
    IF rol = "admin_sistema" THEN tenant[t] # Nulo ELSE Operable(t)

\* A JWT outlives whatever becomes of its user.
Conocido(rol, t) ==
    IF rol = "admin_sistema" THEN HaySistema
    ELSE \E c \in Correos : usuario[c] # Nulo /\ usuario[c].tenant = t

PrimeraFase ==
    [editarConfig |-> "config", crearUsuario |-> "correo"]

\* A request comes in, with the tenant that the guard has read.
Entrar(p) ==
    /\ En(p, "libre")
    /\ \E rol \in {"admin_sistema", "admin_tenant"}, op \in DOMAIN PrimeraFase, t \in Tenants,
          correo \in Correos :
         /\ Conocido(rol, t) /\ Entra(rol, t)
         /\ Pasar(p, [Libre EXCEPT !.op = op, !.fase = PrimeraFase[op], !.t = t,
                        !.correo = IF op = "crearUsuario" THEN correo ELSE Nulo,
                        !.aTiempo = tenant[t] # Nulo])
    /\ UNCHANGED <<datos, fallos, historia>>

\* The write of updateBranding, which finds no document if it has been deleted,
\* or none at all if the body is empty, as in a request that only reads.
EscribirConfig(p) ==
    LET t == pet[p].t IN
    /\ En(p, "escribirConfig")
    /\ Pasar(p, Libre)
    /\ \/ config' = [config EXCEPT ![t] = IF @ = Nulo THEN Nulo ELSE "editado"]
       \/ UNCHANGED config
    /\ UNCHANGED <<tenant, semilla, usuario, fallos, historia>>

\* A suspension or a reactivation, in one call.
SetActivo(t) ==
    /\ HaySistema /\ tenant[t] # Nulo
    /\ tenant' = [tenant EXCEPT ![t].activo = ~@]
    /\ UNCHANGED <<config, semilla, usuario, pet, fallos, historia>>

\* The process stops and starts again: nothing resumes.
Reiniciar ==
    /\ fallos < MaxFallos /\ fallos' = fallos + 1
    /\ pet' = [p \in Peticiones |-> Libre]
    /\ UNCHANGED <<datos, historia>>

Next ==
    \/ \E p \in Peticiones :
         \/ FallarLectura(p) \/ FindOrCreate(p) \/ FindOrCreateSinEfecto(p) \/ ReleerConfig(p)
         \/ Onboard(p) \/ CreateTenantDoc(p) \/ Sembrar(p) \/ Activar(p) \/ Releer(p)
         \/ DeleteAllForTenant(p) \/ DeleteByTenantId(p) \/ DeleteTenant(p)
         \/ BuscarCorreo(p) \/ ComprobarTenant(p) \/ GuardarUsuario(p)
         \/ Register(p) \/ Contar(p)
         \/ Entrar(p) \/ EscribirConfig(p)
    \/ \E t \in Tenants : SetActivo(t)
    \/ Reiniciar

Spec == Init /\ [][Next]_vars

-----------------------------------------------------------------------------
(* Safety *)

Usuarios(t) == {c \in Correos : usuario[c] # Nulo /\ usuario[c].tenant = t}

\* "AC#2: no reportar exito limpio dejando huerfano usable": a rejected
\* onboarding whose compensation reports no error leaves no tenant, and nothing
\* of it but what requests that had entered before the deletion wrote, or a user
\* whose creation was not confirmed.
RechazoLimpio ==
    \A t \in Tenants : resultado[t] = "rechazado" =>
        /\ tenant[t] = Nulo /\ semilla[t] = {}
        /\ config[t] # Nulo => <<"config">> \in ajenos[t]
        /\ \A c \in Usuarios(t) : <<"usuario", c>> \in ajenos[t]

\* "onboard atomico": an onboarding that answered has left, and others leave, the
\* tenant with its configuration, all its templates and a user.
AltaCompleta ==
    \A t \in Tenants : resultado[t] = "creado" =>
        /\ tenant[t] # Nulo /\ config[t] # Nulo
        /\ semilla[t] = Semillas /\ Usuarios(t) # {}

\* $setOnInsert: whatever requests find or create the configuration later, and
\* in whatever order, what a user has changed in it stays; only the compensation of
\* an onboarding still in course takes it away, and then as a whole.
EdicionesConservadas ==
    [][\A t \in Tenants : config[t] = "editado" =>
         \/ config'[t] = "editado"
         \/ config'[t] = Nulo /\ resultado[t] = "en curso"]_vars

\* "Solo cuando aun no hay usuarios (count=0)": there is one registered
\* administrator at most, unless two registrations have overlapped.
PrimerAdminUnico ==
    Cardinality({c \in Correos : usuario[c] # Nulo /\ usuario[c].tenant = Nulo}) > 1 => solape
=============================================================================
