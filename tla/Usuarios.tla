------------------------------ MODULE Usuarios ------------------------------
(***************************************************************************)
(* The accounts of UsersService: create, update and softDelete as called   *)
(* by an administrator, and the update that a password reset makes without *)
(* one.  Every check (who may manage whom, the last active administrator,  *)
(* the tenant of a role) is made on what an earlier await returned, and    *)
(* the final write has no filter but the id.                               *)
(*                                                                         *)
(* A tenant may be suspended or reactivated between two steps.  The actor  *)
(* is what the JWT says, which outlives any change of its user.            *)
(***************************************************************************)
EXTENDS Integers, FiniteSets

CONSTANTS
    Usuarios,     \* ids of the accounts, stored or not yet
    Tenants,      \* ids of the tenants
    Peticiones,   \* requests in flight at once
    Nulo,         \* null, or an unset field
    Omitido,      \* a field that the body of the request leaves out
    Cuerpos,      \* bound: the bodies of update that arrive in this instance
    Operaciones   \* bound: the operations that arrive in this instance

Roles == {"admin_sistema", "admin_tenant", "operativo"}

\* An account.  "rol" and "activo" may be null: @IsOptional lets null through and
\* findByIdAndUpdate validates nothing.
Usuario == [rol: Roles \cup {Nulo}, tenant: Tenants \cup {Nulo},
            activo: BOOLEAN \cup {Nulo}]

Cuerpo == [rol: Roles \cup {Nulo, Omitido}, activo: BOOLEAN \cup {Nulo, Omitido}]
SinCambios == [rol |-> Omitido, activo |-> Omitido]

\* UsersActor: its tenant for admin_tenant, the supported one (X-Tenant-Id) for
\* admin_sistema; Nulo for the update of a password reset.
Actor == [rol: {"admin_tenant"}, tenant: Tenants]
         \cup [rol: {"admin_sistema"}, tenant: Tenants \cup {Nulo}]

ASSUME UsuariosAssumption ==
    /\ IsFiniteSet(Usuarios)
    /\ Nulo \notin Tenants /\ Omitido \notin Tenants /\ Nulo # Omitido
    /\ Omitido \notin Roles /\ Nulo \notin Roles
    /\ Nulo \notin BOOLEAN /\ Omitido \notin BOOLEAN
    /\ Nulo \notin Usuario /\ Nulo \notin Actor
    /\ Cuerpos \subseteq Cuerpo
    /\ Operaciones \subseteq {"create", "update", "softDelete", "password"}

VARIABLES
    usr,           \* usr[u]: the stored account, or Nulo
    tenantActivo,  \* tenantActivo[t]: Tenant.activo
    pet,           \* pet[p]: progress of request p
    pisadas,       \* history: accounts whose tenant is that of a role they no longer had
    rebasadas      \* history: requests overtaken since what they read or counted

vars == <<usr, tenantActivo, pet, pisadas, rebasadas>>

-----------------------------------------------------------------------------

Libre == [fase |-> "libre"]

\* A request on an account: what it still uses of the one that findById returned, and
\* the tenant it will write (Omitido for softDelete, which writes none); or one that
\* creates an account.
Peticion ==
    {Libre}
    \cup [fase: {"contar"}, u: Usuarios, dto: Cuerpo, actual: Usuario,
          tenant: Tenants \cup {Nulo, Omitido}]
    \cup [fase: {"resolver", "escribir"}, u: Usuarios, dto: Cuerpo,
          rol: Roles \cup {Nulo}, tenant: Tenants \cup {Nulo, Omitido}]
    \cup [fase: {"crear", "guardar"}, u: Usuarios, rol: Roles,
          tenant: Tenants \cup {Nulo}]

TypeOK ==
    /\ usr \in [Usuarios -> Usuario \cup {Nulo}]
    /\ tenantActivo \in [Tenants -> BOOLEAN]
    /\ pet \in [Peticiones -> Peticion]
    /\ pisadas \subseteq Usuarios
    /\ rebasadas \subseteq Peticiones

\* AD-11, the rule of resolveTenantForRole; it says nothing of a null role.
Coherente(d) == d.rol # Nulo => (d.rol = "admin_sistema" <=> d.tenant = Nulo)

EsAdminSistema(d) == d # Nulo /\ d.rol = "admin_sistema" /\ d.activo = TRUE

EsAdminTenant(d, t) ==
    d # Nulo /\ d.rol = "admin_tenant" /\ d.tenant = t /\ d.activo = TRUE

\* Accounts that the seed and earlier requests may have left.
Init ==
    /\ usr \in [Usuarios -> {d \in Usuario : /\ d.rol \in Roles /\ d.activo \in BOOLEAN
                                             /\ Coherente(d)}
                            \cup {Nulo}]
    /\ \E u \in Usuarios : EsAdminSistema(usr[u])
    /\ tenantActivo = [t \in Tenants |-> TRUE]
    /\ pet = [p \in Peticiones |-> Libre]
    /\ pisadas = {} /\ rebasadas = {}

Pasar(p, r) == pet' = [pet EXCEPT ![p] = r]

Seguir(p, r) == Pasar(p, r) /\ UNCHANGED rebasadas

Rechazar(p) == Pasar(p, Libre) /\ rebasadas' = rebasadas \ {p}

SetActivo(t) ==
    /\ tenantActivo' = [tenantActivo EXCEPT ![t] = ~@]
    /\ UNCHANGED <<usr, pet, pisadas, rebasadas>>

-----------------------------------------------------------------------------
(* Who may do what *)

\* actorFrom: the JWT of an admin_tenant is refused while its tenant is
\* suspended; an admin_sistema may support a suspended one.
Entra(a) == a.rol = "admin_tenant" => tenantActivo[a.tenant]

AssertCanManage(a, d) ==
    IF a.rol = "admin_tenant" THEN d.rol # "admin_sistema" /\ d.tenant = a.tenant
    ELSE d.rol = "admin_sistema" \/ (a.tenant # Nulo /\ d.tenant = a.tenant)

AssertAssignableRole(a, rol) ==
    a.rol = "admin_tenant" => rol \in {"operativo", "admin_tenant"}

-----------------------------------------------------------------------------
(* create *)

\* The tenant of the new account is the one of the actor, none for an
\* admin_sistema; an admin_sistema must support a tenant to create in it.
Create(p) ==
    /\ "create" \in Operaciones /\ pet[p] = Libre
    /\ \E a \in Actor, u \in Usuarios, rol \in Roles :
         /\ Entra(a) /\ AssertAssignableRole(a, rol)
         /\ rol = "admin_sistema" \/ a.tenant # Nulo
         /\ Seguir(p, [fase |-> "crear", u |-> u, rol |-> rol,
                      tenant |-> IF rol = "admin_sistema" THEN Nulo ELSE a.tenant])
    /\ UNCHANGED <<usr, tenantActivo, pisadas>>

TenantValido(t) == t # Nulo => tenantActivo[t]

ResolverAlta(p) ==
    LET r == pet[p] IN
    /\ r.fase = "crear"
    /\ IF TenantValido(r.tenant) THEN Seguir(p, [r EXCEPT !.fase = "guardar"])
                                 ELSE Rechazar(p)
    /\ UNCHANGED <<usr, tenantActivo, pisadas>>

\* A new id, or a mail that is already taken: a 409.
GuardarAlta(p) ==
    LET r == pet[p] IN
    /\ r.fase = "guardar"
    /\ \/ /\ usr[r.u] = Nulo
          /\ usr' = [usr EXCEPT ![r.u] = [rol |-> r.rol, tenant |-> r.tenant,
                                          activo |-> TRUE]]
       \/ UNCHANGED usr
    /\ Seguir(p, Libre)
    /\ UNCHANGED <<tenantActivo, pisadas>>

-----------------------------------------------------------------------------
(* update and softDelete *)

\* nextRol: a null role counts as none.
RolSiguiente(dto, rol) == IF dto.rol \in {Omitido, Nulo} THEN rol ELSE dto.rol

MutTenantSiguiente(a, dto, d) == IF a = Nulo THEN d.tenant ELSE a.tenant

\* nextTenantRaw: none for an admin_sistema, else the one of the actor, else the one
\* that was read.
TenantSiguiente(a, dto, d) ==
    IF RolSiguiente(dto, d.rol) = "admin_sistema" THEN Nulo
    ELSE IF a = Nulo THEN d.tenant
    ELSE a.tenant

MutQuita(dto, d) == dto.rol # Omitido /\ dto.rol # d.rol

\* The body takes the role away, or deactivates with false; null is neither.
Quita(dto, d) == (dto.rol # Omitido /\ dto.rol # d.rol) \/ dto.activo = FALSE

EsAdmin(d) == EsAdminSistema(d) \/ \E t \in Tenants : EsAdminTenant(d, t)

\* The request once the last administrators are safe: only update has a tenant to
\* resolve.
Comprobada(u, dto, d, t) ==
    [fase |-> IF t = Omitido THEN "escribir" ELSE "resolver",
     u |-> u, dto |-> dto, rol |-> d.rol, tenant |-> t]

\* The two asserts count the administrators only when the body takes an active one
\* away.
Leida(u, dto, d, t) ==
    IF Quita(dto, d) /\ EsAdmin(d)
    THEN [fase |-> "contar", u |-> u, dto |-> dto, actual |-> d, tenant |-> t]
    ELSE Comprobada(u, dto, d, t)

\* findById, the checks on what it returned, and what follows without another
\* await.  A request that they refuse changes nothing and takes no step.
Update(p) ==
    /\ "update" \in Operaciones /\ pet[p] = Libre
    /\ \E a \in Actor, u \in Usuarios, dto \in Cuerpos :
         /\ Entra(a) /\ usr[u] # Nulo
         /\ AssertCanManage(a, usr[u])
         /\ dto.rol # Omitido => AssertAssignableRole(a, dto.rol)
         /\ Seguir(p, Leida(u, dto, usr[u], TenantSiguiente(a, dto, usr[u])))
    /\ UNCHANGED <<usr, tenantActivo, pisadas>>

\* Its save validates the whole document, and would refuse one of a null role.
SoftDelete(p) ==
    /\ "softDelete" \in Operaciones /\ pet[p] = Libre
    /\ \E a \in Actor, u \in Usuarios :
         /\ Entra(a) /\ usr[u] # Nulo
         /\ AssertCanManage(a, usr[u])
         /\ usr[u].rol # Nulo
         /\ Seguir(p, Leida(u, [rol |-> Omitido, activo |-> FALSE], usr[u], Omitido))
    /\ UNCHANGED <<usr, tenantActivo, pisadas>>

\* resetPasswordForAdmin calls update without an actor.
CambiarClave(p) ==
    /\ "password" \in Operaciones /\ pet[p] = Libre
    /\ \E u \in Usuarios :
         /\ usr[u] # Nulo
         /\ Seguir(p, Leida(u, SinCambios, usr[u],
                           TenantSiguiente(Nulo, SinCambios, usr[u])))
    /\ UNCHANGED <<usr, tenantActivo, pisadas>>

\* What countDocuments counts.
AdminsSistema == {u \in Usuarios : EsAdminSistema(usr[u])}
AdminsTenant(t) == {u \in Usuarios : EsAdminTenant(usr[u], t)}

\* assertNotRemovingLastActiveAdmin and its counterpart for the tenant.
UltimoAdmin(d) ==
    \/ EsAdminSistema(d) /\ Cardinality(AdminsSistema) <= 1
    \/ /\ d.rol = "admin_tenant" /\ d.activo = TRUE /\ d.tenant # Nulo
       /\ Cardinality(AdminsTenant(d.tenant)) <= 1

ContarAdmins(p) ==
    LET r == pet[p] IN
    /\ r.fase = "contar"
    /\ IF UltimoAdmin(r.actual) THEN Rechazar(p)
       ELSE Seguir(p, Comprobada(r.u, r.dto, r.actual, r.tenant))
    /\ UNCHANGED <<usr, tenantActivo, pisadas>>

\* resolveTenantForRole: only an admin_sistema has no tenant, the one of any other
\* must be active, and a null role is none ("Rol no valido").
ResolverTenant(p) ==
    LET r == pet[p]
        rol == RolSiguiente(r.dto, r.rol)
    IN
    /\ r.fase = "resolver"
    /\ IF /\ rol # Nulo /\ TenantValido(r.tenant)
          /\ r.tenant = Nulo => rol = "admin_sistema"
         THEN Seguir(p, [r EXCEPT !.fase = "escribir"])
         ELSE Rechazar(p)
    /\ UNCHANGED <<usr, tenantActivo, pisadas>>

Aplicado(d, dto, t) ==
    [rol |-> IF dto.rol = Omitido THEN d.rol ELSE dto.rol,
     tenant |-> IF t = Omitido THEN d.tenant ELSE t,
     activo |-> IF dto.activo = Omitido THEN d.activo ELSE dto.activo]

\* history: a write that keeps a role the request did not read leaves there the
\* tenant of another role, until an update that does not.
PisadasTras(r) ==
    IF r.tenant = Omitido THEN pisadas
    ELSE IF r.dto.rol = Omitido /\ usr[r.u].rol # r.rol THEN pisadas \cup {r.u}
    ELSE pisadas \ {r.u}

\* An active administrator d that as n is not one any more.
Deja(d, n) ==
    \/ EsAdminSistema(d) /\ ~EsAdminSistema(n)
    \/ \E t \in Tenants : EsAdminTenant(d, t) /\ ~EsAdminTenant(n, t)

\* history: a write on account u overtakes the requests that read that account, and,
\* if an active administrator is gone with it, those past their count.
Rebasa(u, r) ==
    \/ r.fase \in {"contar", "resolver", "escribir"} /\ r.u = u
    \/ r.fase \in {"resolver", "escribir"} /\ Deja(usr[u], usr'[u])

\* findByIdAndUpdate, or save of the one field that softDelete changed; or a new
\* mail that is already taken: a 409.
Escribir(p) ==
    LET r == pet[p] IN
    /\ r.fase = "escribir"
    /\ \/ /\ usr' = [usr EXCEPT ![r.u] = Aplicado(@, r.dto, r.tenant)]
          /\ pisadas' = PisadasTras(r)
          /\ rebasadas' = (rebasadas \cup {q \in Peticiones : Rebasa(r.u, pet[q])}) \ {p}
       \/ /\ r.tenant # Omitido
          /\ rebasadas' = rebasadas \ {p}
          /\ UNCHANGED <<usr, pisadas>>
    /\ Pasar(p, Libre)
    /\ UNCHANGED tenantActivo

-----------------------------------------------------------------------------

Next ==
    \/ \E t \in Tenants : SetActivo(t)
    \/ \E p \in Peticiones :
         \/ Create(p) \/ ResolverAlta(p) \/ GuardarAlta(p)
         \/ Update(p) \/ SoftDelete(p) \/ CambiarClave(p)
         \/ ContarAdmins(p) \/ ResolverTenant(p) \/ Escribir(p)

Spec == Init /\ [][Next]_vars

-----------------------------------------------------------------------------
(* Safety *)

\* AD-11 (user.schema.ts): an admin_sistema has no fixed tenant, everybody else
\* has one, with any number of requests in flight.  The one exception is a write of
\* an update without a role whose account changed role since it was read.
RolConTenant == \A u \in Usuarios \ pisadas : usr[u] # Nulo => Coherente(usr[u])

\* A body of null "activo" that leaves the role: neither assert counts.
SinContar(r) == r.dto.activo = Nulo /\ r.dto.rol \in {Omitido, r.rol}

\* "Impide dejar el sistema sin ningun admin_sistema activo." and "Impide dejar un
\* tenant sin ningun admin_tenant activo." hold but for two ways: the write that
\* takes the last one away is of a null "activo", or of a request that another
\* overtook between its read or its count and its write.
PerdidaDeAdmin ==
    [][\/ /\ AdminsSistema # {} => AdminsSistema' # {}
          /\ \A t \in Tenants : AdminsTenant(t) # {} => AdminsTenant(t)' # {}
       \/ \E p \in Peticiones :
            /\ pet[p].fase = "escribir" /\ pet'[p] = Libre
            /\ SinContar(pet[p]) \/ p \in rebasadas]_vars
=============================================================================
