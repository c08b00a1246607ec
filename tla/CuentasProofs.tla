---------------------------- MODULE CuentasProofs ----------------------------
(***************************************************************************)
(* Proofs about the accounts of the users.  Of Usuarios: the types, and    *)
(* the rules on roles and last administrators, for any number of accounts, *)
(* tenants, bodies and requests in flight.  Of RestablecerContrasena: what *)
(* becomes of the tokens of a password reset, for any number of tokens,    *)
(* requests for a link and resets in flight.                               *)
(***************************************************************************)
EXTENDS Usuarios, RestablecerContrasena, FiniteSetTheorems, TLAPS

-----------------------------------------------------------------------------
(* Types *)

EnCurso(r) == r.fase \in {"contar", "resolver", "escribir"}

\* What a request holds in each phase.
LEMMA FasesTipo ==
    ASSUME NEW r \in Peticion
    PROVE  /\ EnCurso(r) =>
                /\ r.u \in Usuarios /\ r.dto \in Cuerpo
                /\ r.tenant \in Tenants \cup {Nulo, Omitido}
           /\ r.fase = "contar" => r.actual \in Usuario
           /\ r.fase \in {"resolver", "escribir"} => r.rol \in Roles \cup {Nulo}
           /\ r.fase \in {"crear", "guardar"} =>
                /\ r.u \in Usuarios /\ r.rol \in Roles
                /\ r.tenant \in Tenants \cup {Nulo}
BY DEF Peticion, Libre, EnCurso

LEMMA LibreTipo == Libre \in Peticion /\ Libre.fase = "libre" /\ ~EnCurso(Libre)
BY DEF Libre, Peticion, EnCurso

LEMMA PasarTipo ==
    ASSUME TypeOK, NEW p \in Peticiones, NEW r \in Peticion, Pasar(p, r)
    PROVE  /\ pet' \in [Peticiones -> Peticion] /\ pet'[p] = r
           /\ \A o \in Peticiones \ {p} : pet'[o] = pet[o]
BY DEF TypeOK, Pasar

LEMMA CuerpoTipo ==
    /\ SinCambios \in Cuerpo
    /\ [rol |-> Omitido, activo |-> FALSE] \in Cuerpo
BY DEF SinCambios, Cuerpo

\* The account that a body leaves.
LEMMA AplicadoTipo ==
    ASSUME NEW d \in Usuario, NEW dto \in Cuerpo, NEW t \in Tenants \cup {Nulo, Omitido}
    PROVE  Aplicado(d, dto, t) \in Usuario
<1>1. /\ d.rol \in Roles \cup {Nulo} /\ d.tenant \in Tenants \cup {Nulo}
      /\ d.activo \in BOOLEAN \cup {Nulo}
  BY DEF Usuario
<1>2. /\ dto.rol \in Roles \cup {Nulo, Omitido}
      /\ dto.activo \in BOOLEAN \cup {Nulo, Omitido}
  BY DEF Cuerpo
<1>3. QED
  BY <1>1, <1>2 DEF Aplicado, Usuario

LEMMA InicioTipos == Init => TypeOK
BY LibreTipo DEF Init, TypeOK

\* A request after its checks, and after its read.
LEMMA ComprobadaTipo ==
    ASSUME NEW u \in Usuarios, NEW dto \in Cuerpo, NEW d \in Usuario,
           NEW t \in Tenants \cup {Nulo, Omitido}
    PROVE  LET r == Comprobada(u, dto, d, t) IN
           /\ r \in Peticion
           /\ r.u = u /\ r.dto = dto /\ r.rol = d.rol /\ r.tenant = t
           /\ r.fase = IF t = Omitido THEN "escribir" ELSE "resolver"
<1>1. d.rol \in Roles \cup {Nulo}
  BY DEF Usuario
<1>2. QED
  BY <1>1 DEF Comprobada, Peticion

LEMMA LeidaTipo ==
    ASSUME NEW u \in Usuarios, NEW dto \in Cuerpo, NEW d \in Usuario,
           NEW t \in Tenants \cup {Nulo, Omitido}
    PROVE  LET r == Leida(u, dto, d, t) IN
           /\ r \in Peticion /\ EnCurso(r)
           /\ r.u = u /\ r.dto = dto /\ r.tenant = t
           /\ r.fase = "contar" => r.actual = d /\ Quita(dto, d)
           /\ r.fase # "contar" =>
                r = Comprobada(u, dto, d, t) /\ ~(Quita(dto, d) /\ EsAdmin(d))
<1> DEFINE c == [fase |-> "contar", u |-> u, dto |-> dto, actual |-> d, tenant |-> t]
<1>1. CASE Quita(dto, d) /\ EsAdmin(d)
  <2>1. Leida(u, dto, d, t) = c
    BY <1>1 DEF Leida
  <2>2. /\ c \in Peticion /\ c.fase = "contar" /\ c.u = u /\ c.dto = dto
        /\ c.actual = d /\ c.tenant = t
    BY DEF Peticion
  <2> HIDE DEF c
  <2>3. QED
    BY <1>1, <2>1, <2>2 DEF EnCurso
<1>2. CASE ~(Quita(dto, d) /\ EsAdmin(d))
  <2>1. Leida(u, dto, d, t) = Comprobada(u, dto, d, t)
    BY <1>2 DEF Leida
  <2>2. QED
    BY <1>2, <2>1, ComprobadaTipo DEF EnCurso
<1>3. QED
  BY <1>1, <1>2

LEMMA TenantSiguienteTipo ==
    ASSUME NEW a \in Actor \cup {Nulo}, NEW dto, NEW d \in Usuario
    PROVE  TenantSiguiente(a, dto, d) \in Tenants \cup {Nulo}
<1>1. a = Nulo \/ a.tenant \in Tenants \cup {Nulo}
  BY DEF Actor
<1>2. d.tenant \in Tenants \cup {Nulo}
  BY DEF Usuario
<1>3. QED
  BY <1>1, <1>2 DEF TenantSiguiente

\* An arrival: an account to create, or one that was read.
LEMMA Llegada ==
    ASSUME TypeOK, NEW p \in Peticiones,
           Create(p) \/ Update(p) \/ SoftDelete(p) \/ CambiarClave(p)
    PROVE  /\ UNCHANGED <<usr, tenantActivo, pisadas, rebasadas>>
           /\ \/ \E u \in Usuarios, rol \in Roles, t \in Tenants \cup {Nulo} :
                   /\ rol = "admin_sistema" <=> t = Nulo
                   /\ Pasar(p, [fase |-> "crear", u |-> u, rol |-> rol, tenant |-> t])
              \/ \E a \in Actor \cup {Nulo}, u \in Usuarios, dto \in Cuerpo,
                    t \in Tenants \cup {Nulo, Omitido} :
                   /\ usr[u] \in Usuario
                   /\ a # Nulo => AssertCanManage(a, usr[u])
                   /\ t = IF t = Omitido THEN Omitido ELSE TenantSiguiente(a, dto, usr[u])
                   /\ t = Omitido => dto.rol = Omitido
                   /\ Pasar(p, Leida(u, dto, usr[u], t))
<1>0. /\ Nulo \notin Actor /\ Nulo \notin Tenants /\ Omitido \notin Tenants /\ Nulo # Omitido
      /\ Cuerpos \subseteq Cuerpo
  BY UsuariosAssumption DEF UsuariosAssumption
<1>u. \A u \in Usuarios : usr[u] # Nulo => usr[u] \in Usuario
  BY DEF TypeOK
<1>1. CASE Create(p)
  <2>1. PICK a \in Actor, u \in Usuarios, rol \in Roles :
          /\ rol = "admin_sistema" \/ a.tenant # Nulo
          /\ Pasar(p, [fase |-> "crear", u |-> u, rol |-> rol,
                       tenant |-> IF rol = "admin_sistema" THEN Nulo ELSE a.tenant])
    BY <1>1 DEF Create, Seguir
  <2>2. a.tenant \in Tenants \cup {Nulo}
    BY DEF Actor
  <2>3. QED
    BY <1>1, <2>1, <2>2 DEF Create, Seguir
<1>2. CASE Update(p)
  <2>1. PICK a \in Actor, u \in Usuarios, dto \in Cuerpo :
          /\ usr[u] # Nulo /\ AssertCanManage(a, usr[u])
          /\ Pasar(p, Leida(u, dto, usr[u], TenantSiguiente(a, dto, usr[u])))
    BY <1>0, <1>2 DEF Update, Seguir
  <2>2. TenantSiguiente(a, dto, usr[u]) \in Tenants \cup {Nulo}
    BY <1>u, <2>1, TenantSiguienteTipo
  <2>3. QED
    BY <1>0, <1>u, <1>2, <2>1, <2>2 DEF Update, Seguir
<1>3. CASE SoftDelete(p)
  <2> DEFINE b == [rol |-> Omitido, activo |-> FALSE]
  <2>1. PICK a \in Actor, u \in Usuarios :
          /\ usr[u] # Nulo /\ AssertCanManage(a, usr[u])
          /\ Pasar(p, Leida(u, b, usr[u], Omitido))
    BY <1>3 DEF SoftDelete, Seguir
  <2>2. b \in Cuerpo /\ b.rol = Omitido
    BY CuerpoTipo
  <2> HIDE DEF b
  <2>3. QED
    BY <1>u, <1>3, <2>1, <2>2 DEF SoftDelete, Seguir
<1>4. CASE CambiarClave(p)
  <2>1. PICK u \in Usuarios :
          /\ usr[u] # Nulo
          /\ Pasar(p, Leida(u, SinCambios, usr[u],
                            TenantSiguiente(Nulo, SinCambios, usr[u])))
    BY <1>4 DEF CambiarClave, Seguir
  <2>2. TenantSiguiente(Nulo, SinCambios, usr[u]) \in Tenants \cup {Nulo}
    BY <1>u, <2>1, TenantSiguienteTipo
  <2>3. QED
    BY <1>0, <1>u, <1>4, <2>1, <2>2, CuerpoTipo DEF CambiarClave, Seguir
<1>5. QED
  BY <1>1, <1>2, <1>3, <1>4

\* An advance of a request that already read: it drops out, or goes on.
LEMMA Avance ==
    ASSUME TypeOK, NEW p \in Peticiones,
           ResolverAlta(p) \/ ContarAdmins(p) \/ ResolverTenant(p)
    PROVE  /\ UNCHANGED <<usr, tenantActivo, pisadas>>
           /\ \/ Rechazar(p)
              \/ /\ UNCHANGED rebasadas
                 /\ \/ /\ pet[p].fase = "crear"
                       /\ Pasar(p, [fase |-> "guardar", u |-> pet[p].u, rol |-> pet[p].rol,
                                    tenant |-> pet[p].tenant])
                    \/ /\ pet[p].fase = "contar" /\ ~UltimoAdmin(pet[p].actual)
                       /\ Pasar(p, Comprobada(pet[p].u, pet[p].dto, pet[p].actual,
                                              pet[p].tenant))
                    \/ /\ pet[p].fase = "resolver"
                       /\ RolSiguiente(pet[p].dto, pet[p].rol) # Nulo
                       /\ pet[p].tenant = Nulo =>
                            RolSiguiente(pet[p].dto, pet[p].rol) = "admin_sistema"
                       /\ Pasar(p, [fase |-> "escribir", u |-> pet[p].u, dto |-> pet[p].dto,
                                    rol |-> pet[p].rol, tenant |-> pet[p].tenant])
<1>1. pet[p] \in Peticion
  BY DEF TypeOK
<1>2. pet[p].fase = "crear" =>
        [pet[p] EXCEPT !.fase = "guardar"] =
          [fase |-> "guardar", u |-> pet[p].u, rol |-> pet[p].rol, tenant |-> pet[p].tenant]
  BY <1>1 DEF Peticion, Libre
<1>3. pet[p].fase = "resolver" =>
        [pet[p] EXCEPT !.fase = "escribir"] =
          [fase |-> "escribir", u |-> pet[p].u, dto |-> pet[p].dto, rol |-> pet[p].rol,
           tenant |-> pet[p].tenant]
  BY <1>1 DEF Peticion, Libre
<1>4. QED
  BY <1>2, <1>3 DEF ResolverAlta, ContarAdmins, ResolverTenant, Seguir, Rechazar

-----------------------------------------------------------------------------
(* The inductive invariant of Usuarios *)

\* As account n, the account u takes no administrator away or there is another one.
Reemplazable(u, n) ==
    /\ EsAdminSistema(usr[u]) /\ ~EsAdminSistema(n) =>
         \E v \in Usuarios \ {u} : EsAdminSistema(usr[v])
    /\ \A t \in Tenants : EsAdminTenant(usr[u], t) /\ ~EsAdminTenant(n, t) =>
         \E v \in Usuarios \ {u} : EsAdminTenant(usr[v], t)

\* The tenant a request carries is the one of the role it will leave; a softDelete
\* carries neither.
Forma(r) ==
    /\ EnCurso(r) /\ r.tenant = Omitido => r.dto.rol = Omitido /\ r.fase # "resolver"
    /\ r.fase = "contar" /\ r.tenant # Omitido =>
         (RolSiguiente(r.dto, r.actual.rol) = "admin_sistema" => r.tenant = Nulo)
    /\ r.fase = "resolver" =>
         (RolSiguiente(r.dto, r.rol) = "admin_sistema" => r.tenant = Nulo)
    /\ r.fase = "escribir" /\ r.tenant # Omitido =>
         /\ RolSiguiente(r.dto, r.rol) # Nulo
         /\ RolSiguiente(r.dto, r.rol) = "admin_sistema" <=> r.tenant = Nulo
    /\ r.fase \in {"crear", "guardar"} => (r.rol = "admin_sistema" <=> r.tenant = Nulo)

\* What a request that nobody overtook knows: the account is still as it was read, and
\* once counted its write takes no last administrator away, unless nothing counted.
Vigente(r) ==
    /\ r.fase = "contar" => usr[r.u] = r.actual
    /\ r.fase \in {"resolver", "escribir"} =>
         SinContar(r) \/ Reemplazable(r.u, Aplicado(usr[r.u], r.dto, r.tenant))

\* No account is ever removed, so what a request has read is still stored.
Bien(p) ==
    /\ EnCurso(pet[p]) => usr[pet[p].u] # Nulo
    /\ Forma(pet[p])
    /\ p \notin rebasadas => Vigente(pet[p])

IUsuarios == TypeOK /\ RolConTenant /\ \A p \in Peticiones : Bien(p)

LEMMA LibreBien == Forma(Libre) /\ Vigente(Libre)
BY LibreTipo DEF Forma, Vigente, EnCurso

\* A request that moves on to r without writing.
LEMMA PasarBien ==
    ASSUME IUsuarios, NEW p \in Peticiones, NEW r \in Peticion, Pasar(p, r),
           UNCHANGED <<usr, tenantActivo, pisadas>>,
           rebasadas' = rebasadas \/ rebasadas' = rebasadas \ {p},
           EnCurso(r) => usr[r.u] # Nulo, Forma(r), p \notin rebasadas' => Vigente(r)
    PROVE  IUsuarios'
<1>1. /\ pet' \in [Peticiones -> Peticion] /\ pet'[p] = r
      /\ \A o \in Peticiones \ {p} : pet'[o] = pet[o]
  BY PasarTipo DEF IUsuarios
<1>2. TypeOK'
  BY <1>1 DEF IUsuarios, TypeOK
<1>3. RolConTenant'
  BY DEF IUsuarios, RolConTenant
<1>4. ASSUME NEW o \in Peticiones PROVE Bien(o)'
  <2>1. CASE o = p
    BY <1>1, <2>1 DEF Bien, Vigente, Reemplazable, Forma
  <2>2. CASE o # p
    <3>1. pet'[o] = pet[o] /\ (o \notin rebasadas' => o \notin rebasadas) /\ Bien(o)
      BY <1>1, <2>2 DEF IUsuarios
    <3>2. QED
      BY <3>1 DEF Bien, Vigente, Reemplazable, Forma
  <2>3. QED
    BY <2>1, <2>2
<1>5. QED
  BY <1>2, <1>3, <1>4 DEF IUsuarios

LEMMA RechazarBien ==
    ASSUME IUsuarios, NEW p \in Peticiones, Rechazar(p),
           UNCHANGED <<usr, tenantActivo, pisadas>>
    PROVE  IUsuarios'
BY LibreTipo, LibreBien, PasarBien DEF Rechazar

\* Where an administrator is not the last one there is another.
LEMMA HayOtro ==
    ASSUME NEW S \in SUBSET Usuarios, NEW u \in S, ~(Cardinality(S) <= 1)
    PROVE  \E v \in S : v # u
<1>1. IsFiniteSet(S) /\ Cardinality(S) \in Nat
  BY UsuariosAssumption, FS_Subset, FS_CardinalityType DEF UsuariosAssumption
<1> SUFFICES ASSUME \A v \in S : v = u PROVE FALSE
  OBVIOUS
<1>2. S = {u}
  OBVIOUS
<1>3. Cardinality(S) = 1
  BY <1>2, FS_Singleton
<1>4. QED
  BY <1>3

\* The count of an account as it is stored is enough for any write on it.
LEMMA Contado ==
    ASSUME NEW u \in Usuarios, NEW n, ~UltimoAdmin(usr[u])
    PROVE  Reemplazable(u, n)
<1>1. ASSUME EsAdminSistema(usr[u])
      PROVE  \E v \in Usuarios \ {u} : EsAdminSistema(usr[v])
  <2>1. ~(Cardinality(AdminsSistema) <= 1) /\ u \in AdminsSistema
    BY <1>1 DEF UltimoAdmin, AdminsSistema
  <2>2. QED
    BY <2>1, HayOtro DEF AdminsSistema
<1>2. ASSUME NEW t \in Tenants, EsAdminTenant(usr[u], t)
      PROVE  \E v \in Usuarios \ {u} : EsAdminTenant(usr[v], t)
  <2>1. t # Nulo
    BY UsuariosAssumption DEF UsuariosAssumption
  <2>2. ~(Cardinality(AdminsTenant(t)) <= 1) /\ u \in AdminsTenant(t)
    BY <1>2, <2>1 DEF UltimoAdmin, AdminsTenant, EsAdminTenant
  <2>3. QED
    BY <2>2, HayOtro DEF AdminsTenant
<1>3. QED
  BY <1>1, <1>2 DEF Reemplazable

\* A body that takes nothing away, on the account it was checked against, needs no
\* count, unless its "activo" is null.
LEMMA SinCuenta ==
    ASSUME NEW a \in Actor \cup {Nulo}, NEW u \in Usuarios, NEW dto \in Cuerpo,
           NEW t \in Tenants \cup {Nulo, Omitido}, usr[u] \in Usuario,
           a # Nulo => AssertCanManage(a, usr[u]),
           t = IF t = Omitido THEN Omitido ELSE TenantSiguiente(a, dto, usr[u]),
           ~(Quita(dto, usr[u]) /\ EsAdmin(usr[u])),
           ~(dto.activo = Nulo /\ dto.rol \in {Omitido, usr[u].rol})
    PROVE  Reemplazable(u, Aplicado(usr[u], dto, t))
<1> DEFINE d == usr[u]
           n == Aplicado(d, dto, t)
<1>1. /\ Nulo \notin Usuario /\ Nulo \notin Roles /\ Omitido \notin Roles
      /\ Nulo \notin BOOLEAN /\ Omitido \notin BOOLEAN /\ Nulo # Omitido
      /\ Nulo \notin Tenants /\ Omitido \notin Tenants
  BY UsuariosAssumption DEF UsuariosAssumption
<1>2. /\ n.rol = IF dto.rol = Omitido THEN d.rol ELSE dto.rol
      /\ n.tenant = IF t = Omitido THEN d.tenant ELSE t
      /\ n.activo = IF dto.activo = Omitido THEN d.activo ELSE dto.activo
  BY DEF Aplicado
<1>3. n # Nulo
  BY <1>1, AplicadoTipo
<1>4. CASE ~EsAdmin(d)
  BY <1>4 DEF EsAdmin, Reemplazable
<1>5. CASE EsAdmin(d)
  <2>1. d.activo = TRUE /\ d.rol \in {"admin_sistema", "admin_tenant"} /\ d.rol \in Roles
    BY <1>5 DEF EsAdmin, EsAdminSistema, EsAdminTenant, Roles
  <2>2. dto.rol \in {Omitido, d.rol} /\ dto.activo # FALSE
    BY <1>5 DEF Quita
  <2>3. n.rol = d.rol
    BY <1>2, <2>2
  <2>4. dto.activo \in {TRUE, Omitido}
    BY <2>2 DEF Cuerpo
  <2>5. n.activo = TRUE
    BY <1>2, <2>1, <2>4
  <2>6. EsAdminSistema(d) => EsAdminSistema(n)
    BY <1>3, <2>3, <2>5 DEF EsAdminSistema
  <2>7. ASSUME NEW s \in Tenants, EsAdminTenant(d, s) PROVE EsAdminTenant(n, s)
    <3>1. d.rol = "admin_tenant" /\ d.tenant = s
      BY <2>7 DEF EsAdminTenant
    <3>2. RolSiguiente(dto, d.rol) = d.rol
      BY <2>2 DEF RolSiguiente
    <3>3. TenantSiguiente(a, dto, d) = s
      BY <3>1, <3>2 DEF TenantSiguiente, AssertCanManage
    <3>4. n.tenant = s
      BY <1>2, <3>1, <3>3
    <3>5. QED
      BY <1>3, <2>3, <2>5, <3>1, <3>4 DEF EsAdminTenant
  <2>8. QED
    BY <2>6, <2>7 DEF Reemplazable
<1>6. QED
  BY <1>4, <1>5

LEMMA LlegadaBien ==
    ASSUME IUsuarios, NEW p \in Peticiones,
           Create(p) \/ Update(p) \/ SoftDelete(p) \/ CambiarClave(p)
    PROVE  IUsuarios'
<1>0. TypeOK /\ UNCHANGED <<usr, tenantActivo, pisadas, rebasadas>>
  BY Llegada DEF IUsuarios
<1>1. CASE \E u \in Usuarios, rol \in Roles, t \in Tenants \cup {Nulo} :
             /\ rol = "admin_sistema" <=> t = Nulo
             /\ Pasar(p, [fase |-> "crear", u |-> u, rol |-> rol, tenant |-> t])
  <2>1. PICK u \in Usuarios, rol \in Roles, t \in Tenants \cup {Nulo} :
          /\ rol = "admin_sistema" <=> t = Nulo
          /\ Pasar(p, [fase |-> "crear", u |-> u, rol |-> rol, tenant |-> t])
    BY <1>1
  <2> DEFINE r == [fase |-> "crear", u |-> u, rol |-> rol, tenant |-> t]
  <2>2. r \in Peticion /\ r.fase = "crear" /\ r.rol = rol /\ r.tenant = t
    BY DEF Peticion
  <2>3. Pasar(p, r)
    BY <2>1
  <2> HIDE DEF r
  <2>4. ~EnCurso(r) /\ Forma(r) /\ Vigente(r)
    BY <2>1, <2>2 DEF EnCurso, Forma, Vigente
  <2>5. QED
    BY <1>0, <2>2, <2>3, <2>4, PasarBien
<1>2. CASE \E a \in Actor \cup {Nulo}, u \in Usuarios, dto \in Cuerpo,
              t \in Tenants \cup {Nulo, Omitido} :
             /\ usr[u] \in Usuario
             /\ a # Nulo => AssertCanManage(a, usr[u])
             /\ t = IF t = Omitido THEN Omitido ELSE TenantSiguiente(a, dto, usr[u])
             /\ t = Omitido => dto.rol = Omitido
             /\ Pasar(p, Leida(u, dto, usr[u], t))
  <2>1. PICK a \in Actor \cup {Nulo}, u \in Usuarios, dto \in Cuerpo,
             t \in Tenants \cup {Nulo, Omitido} :
          /\ usr[u] \in Usuario
          /\ a # Nulo => AssertCanManage(a, usr[u])
          /\ t = IF t = Omitido THEN Omitido ELSE TenantSiguiente(a, dto, usr[u])
          /\ t = Omitido => dto.rol = Omitido
          /\ Pasar(p, Leida(u, dto, usr[u], t))
    BY <1>2
  <2> DEFINE r == Leida(u, dto, usr[u], t)
  <2>2. /\ r \in Peticion /\ EnCurso(r)
        /\ r.u = u /\ r.dto = dto /\ r.tenant = t
        /\ r.fase = "contar" => r.actual = usr[u]
        /\ r.fase # "contar" =>
             r = Comprobada(u, dto, usr[u], t) /\ ~(Quita(dto, usr[u]) /\ EsAdmin(usr[u]))
    BY <2>1, LeidaTipo
  <2>3. r.fase # "contar" =>
          r.rol = usr[u].rol /\ r.fase = IF t = Omitido THEN "escribir" ELSE "resolver"
    BY <2>1, <2>2, ComprobadaTipo
  <2>4. Pasar(p, r)
    BY <2>1
  <2> HIDE DEF r
  <2>5. t # Omitido => (RolSiguiente(dto, usr[u].rol) = "admin_sistema" => t = Nulo)
    BY <2>1 DEF TenantSiguiente
  <2>6. Forma(r)
    BY <2>1, <2>2, <2>3, <2>5 DEF Forma, EnCurso
  <2>7. r.fase # "contar" => SinContar(r) \/ Reemplazable(u, Aplicado(usr[u], dto, t))
    BY <2>1, <2>2, <2>3, SinCuenta DEF SinContar
  <2>8. Vigente(r)
    BY <2>2, <2>7 DEF Vigente
  <2>9. usr[u] # Nulo
    BY <2>1, UsuariosAssumption DEF UsuariosAssumption
  <2>10. QED
    BY <1>0, <2>2, <2>4, <2>6, <2>8, <2>9, PasarBien
<1>3. QED
  BY <1>0, <1>1, <1>2, Llegada

LEMMA AvanceBien ==
    ASSUME IUsuarios, NEW p \in Peticiones,
           ResolverAlta(p) \/ ContarAdmins(p) \/ ResolverTenant(p)
    PROVE  IUsuarios'
<1> DEFINE r == pet[p]
<1>0. TypeOK /\ r \in Peticion /\ Bien(p) /\ UNCHANGED <<usr, tenantActivo, pisadas>>
  BY Avance DEF IUsuarios, TypeOK
<1>1. CASE Rechazar(p)
  BY <1>0, <1>1, RechazarBien
<1>2. CASE ~Rechazar(p) /\ r.fase = "crear"
  <2> DEFINE s == [fase |-> "guardar", u |-> r.u, rol |-> r.rol, tenant |-> r.tenant]
  <2>1. Pasar(p, s) /\ UNCHANGED rebasadas
    BY <1>0, <1>2, Avance
  <2>2. s \in Peticion /\ s.fase = "guardar" /\ s.rol = r.rol /\ s.tenant = r.tenant
    BY <1>0, <1>2, FasesTipo DEF Peticion
  <2> HIDE DEF s
  <2>3. ~EnCurso(s) /\ Forma(s) /\ Vigente(s)
    BY <1>0, <1>2, <2>2 DEF EnCurso, Forma, Vigente, Bien
  <2>4. QED
    BY <1>0, <2>1, <2>2, <2>3, PasarBien
<1>3. CASE ~Rechazar(p) /\ r.fase = "contar"
  <2> DEFINE s == Comprobada(r.u, r.dto, r.actual, r.tenant)
  <2>1. Pasar(p, s) /\ UNCHANGED rebasadas /\ ~UltimoAdmin(r.actual)
    BY <1>0, <1>3, Avance
  <2>2. /\ r.u \in Usuarios /\ r.dto \in Cuerpo /\ r.actual \in Usuario
        /\ r.tenant \in Tenants \cup {Nulo, Omitido} /\ usr[r.u] # Nulo
    BY <1>0, <1>3, FasesTipo DEF EnCurso, Bien
  <2>3. /\ s \in Peticion
        /\ s.u = r.u /\ s.dto = r.dto /\ s.rol = r.actual.rol /\ s.tenant = r.tenant
        /\ s.fase = IF r.tenant = Omitido THEN "escribir" ELSE "resolver"
    BY <2>2, ComprobadaTipo
  <2> HIDE DEF s
  <2>4. Forma(s)
    BY <1>0, <1>3, <2>3 DEF Forma, EnCurso, Bien
  <2>5. p \notin rebasadas => Vigente(s)
    <3>1. ASSUME p \notin rebasadas PROVE usr[r.u] = r.actual
      BY <1>0, <1>3, <3>1 DEF Bien, Vigente
    <3>2. QED
      BY <2>1, <2>2, <2>3, <3>1, Contado DEF Vigente
  <2>6. QED
    BY <1>0, <2>1, <2>2, <2>3, <2>4, <2>5, PasarBien
<1>4. CASE ~Rechazar(p) /\ r.fase = "resolver"
  <2> DEFINE s == [fase |-> "escribir", u |-> r.u, dto |-> r.dto, rol |-> r.rol,
                   tenant |-> r.tenant]
  <2>1. /\ Pasar(p, s) /\ UNCHANGED rebasadas
        /\ RolSiguiente(r.dto, r.rol) # Nulo
        /\ r.tenant = Nulo => RolSiguiente(r.dto, r.rol) = "admin_sistema"
    BY <1>0, <1>4, Avance
  <2>2. /\ s \in Peticion /\ s.fase = "escribir" /\ s.u = r.u /\ s.dto = r.dto
        /\ s.rol = r.rol /\ s.tenant = r.tenant
    BY <1>0, <1>4, FasesTipo DEF Peticion, EnCurso
  <2> HIDE DEF s
  <2>3. usr[s.u] # Nulo /\ Forma(s)
    BY <1>0, <1>4, <2>1, <2>2 DEF Forma, EnCurso, Bien
  <2>4. p \notin rebasadas => Vigente(s)
    BY <1>0, <1>4, <2>2 DEF Vigente, Bien, SinContar
  <2>5. QED
    BY <1>0, <2>1, <2>2, <2>3, <2>4, PasarBien
<1>5. QED
  BY <1>0, <1>1, <1>2, <1>3, <1>4, Avance

\* The write of a new account touches none that a request has read.
LEMMA GuardarAltaBien ==
    ASSUME IUsuarios, NEW p \in Peticiones, GuardarAlta(p)
    PROVE  IUsuarios'
<1> DEFINE r == pet[p]
           n == [rol |-> r.rol, tenant |-> r.tenant, activo |-> TRUE]
<1>1. /\ TypeOK /\ r \in Peticion /\ r.fase = "guardar" /\ Forma(r)
      /\ r.u \in Usuarios /\ Pasar(p, Libre)
      /\ UNCHANGED <<tenantActivo, pisadas, rebasadas>>
  BY FasesTipo DEF GuardarAlta, Seguir, IUsuarios, TypeOK, Bien
<1>2. CASE UNCHANGED usr
  BY <1>1, <1>2, LibreTipo, LibreBien, PasarBien
<1>3. CASE ~UNCHANGED usr
  <2>1. usr[r.u] = Nulo /\ usr' = [usr EXCEPT ![r.u] = n]
    BY <1>3 DEF GuardarAlta
  <2>2. n \in Usuario /\ n.rol = r.rol /\ n.tenant = r.tenant
    BY <1>1, FasesTipo DEF Usuario
  <2>3. Coherente(n)
    BY <1>1, <2>2 DEF Forma, Coherente
  <2> HIDE DEF n
  <2>4. /\ pet' \in [Peticiones -> Peticion] /\ pet'[p] = Libre
        /\ \A o \in Peticiones \ {p} : pet'[o] = pet[o]
    BY <1>1, LibreTipo, PasarTipo
  <2>5. TypeOK'
    BY <1>1, <2>1, <2>2, <2>4 DEF TypeOK
  <2>6. RolConTenant'
    BY <1>1, <2>1, <2>3 DEF TypeOK, IUsuarios, RolConTenant
  <2>7. ASSUME NEW o \in Peticiones PROVE Bien(o)'
    <3>1. CASE o = p
      BY <2>4, <3>1, LibreTipo DEF Bien, Forma, Vigente, EnCurso
    <3>2. CASE o # p
      <4>1. pet'[o] = pet[o] /\ Bien(o) /\ pet[o] \in Peticion
        BY <1>1, <2>4, <3>2 DEF IUsuarios, TypeOK
      <4>2. EnCurso(pet[o]) => pet[o].u \in Usuarios /\ pet[o].u # r.u
                               /\ usr'[pet[o].u] = usr[pet[o].u]
        BY <1>1, <2>1, <4>1, FasesTipo DEF Bien, TypeOK
      <4>3. \A m : \A u \in Usuarios : u # r.u /\ Reemplazable(u, m) => Reemplazable(u, m)'
        BY <1>1, <2>1 DEF Reemplazable, TypeOK, EsAdminSistema, EsAdminTenant
      <4>4. Forma(pet'[o])
        BY <4>1 DEF Bien
      <4>5. EnCurso(pet'[o]) => usr'[pet'[o].u] # Nulo
        BY <4>1, <4>2 DEF Bien
      <4>6. o \notin rebasadas' => Vigente(pet[o])'
        BY <1>1, <4>1, <4>2, <4>3 DEF Bien, Vigente, EnCurso, SinContar
      <4>7. QED
        BY <4>1, <4>4, <4>5, <4>6 DEF Bien, Forma, EnCurso, Vigente
    <3>3. QED
      BY <3>1, <3>2
  <2>8. QED
    BY <2>5, <2>6, <2>7 DEF IUsuarios
<1>4. QED
  BY <1>2, <1>3

\* The account that a write leaves has role and tenant that agree, if the account had
\* and the write left it out of pisadas.
LEMMA EscrituraCoherente ==
    ASSUME IUsuarios, NEW r \in Peticion, r.fase = "escribir", Forma(r),
           r.u \notin PisadasTras(r), usr[r.u] # Nulo
    PROVE  Coherente(Aplicado(usr[r.u], r.dto, r.tenant))
<1>1. /\ r.u \in Usuarios /\ Omitido \notin Roles /\ Nulo # Omitido
  BY FasesTipo, UsuariosAssumption DEF EnCurso, UsuariosAssumption
<1>2. CASE r.tenant = Omitido
  <2>1. r.dto.rol = Omitido /\ Coherente(usr[r.u])
    BY <1>1, <1>2 DEF Forma, EnCurso, PisadasTras, IUsuarios, RolConTenant
  <2>2. QED
    BY <1>2, <2>1 DEF Coherente, Aplicado
<1>3. CASE r.tenant # Omitido
  <2>1. /\ RolSiguiente(r.dto, r.rol) # Nulo
        /\ RolSiguiente(r.dto, r.rol) = "admin_sistema" <=> r.tenant = Nulo
    BY <1>3 DEF Forma
  <2>2. r.dto.rol = Omitido => usr[r.u].rol = r.rol
    BY <1>3 DEF PisadasTras
  <2>3. QED
    BY <1>1, <1>3, <2>1, <2>2 DEF Coherente, Aplicado, RolSiguiente
<1>4. QED
  BY <1>2, <1>3

\* A write, and those it overtakes.
LEMMA EscribirBien ==
    ASSUME IUsuarios, NEW p \in Peticiones, Escribir(p)
    PROVE  IUsuarios'
<1> DEFINE r == pet[p]
           n == Aplicado(usr[r.u], r.dto, r.tenant)
<1>1. /\ TypeOK /\ r \in Peticion /\ r.fase = "escribir" /\ Forma(r)
      /\ r.u \in Usuarios /\ usr[r.u] # Nulo /\ Pasar(p, Libre) /\ UNCHANGED tenantActivo
      /\ r.dto \in Cuerpo /\ r.tenant \in Tenants \cup {Nulo, Omitido}
  BY FasesTipo DEF Escribir, IUsuarios, TypeOK, Bien, EnCurso
<1>2. CASE UNCHANGED <<usr, pisadas>> /\ rebasadas' = rebasadas \ {p}
  BY <1>1, <1>2, LibreTipo, LibreBien, PasarBien
<1>3. CASE /\ usr' = [usr EXCEPT ![r.u] = n] /\ pisadas' = PisadasTras(r)
           /\ rebasadas' = (rebasadas \cup {q \in Peticiones : Rebasa(r.u, pet[q])}) \ {p}
  <2>1. n \in Usuario /\ n # Nulo
    BY <1>1, AplicadoTipo, UsuariosAssumption DEF TypeOK, UsuariosAssumption
  <2>2. /\ pet' \in [Peticiones -> Peticion] /\ pet'[p] = Libre
        /\ \A o \in Peticiones \ {p} : pet'[o] = pet[o]
    BY <1>1, LibreTipo, PasarTipo
  <2>3. TypeOK'
    BY <1>1, <1>3, <2>1, <2>2 DEF TypeOK, PisadasTras
  <2>4. r.u \notin PisadasTras(r) => Coherente(n)
    BY <1>1, EscrituraCoherente
  <2> HIDE DEF n
  <2>5. usr'[r.u] = n /\ \A v \in Usuarios \ {r.u} : usr'[v] = usr[v]
    BY <1>1, <1>3 DEF TypeOK
  <2>6. RolConTenant'
    <3>1. \A v \in Usuarios \ {r.u} : v \in PisadasTras(r) <=> v \in pisadas
      BY DEF PisadasTras
    <3>2. QED
      BY <1>3, <2>4, <2>5, <3>1 DEF IUsuarios, RolConTenant
  <2>7. ASSUME NEW o \in Peticiones PROVE Bien(o)'
    <3>1. CASE o = p
      BY <2>2, <3>1, LibreTipo DEF Bien, Forma, Vigente, EnCurso
    <3>2. CASE o # p
      <4>1. pet'[o] = pet[o] /\ Bien(o) /\ pet[o] \in Peticion
        BY <1>1, <2>2, <3>2 DEF IUsuarios, TypeOK
      <4>2. Forma(pet'[o]) /\ (EnCurso(pet'[o]) => usr'[pet'[o].u] # Nulo)
        BY <2>1, <2>5, <4>1, FasesTipo DEF Bien
      <4>3. ASSUME o \notin rebasadas' PROVE Vigente(pet[o])'
        <5>1. o \notin rebasadas /\ ~Rebasa(r.u, pet[o])
          BY <1>3, <3>2, <4>3
        <5>2. EnCurso(pet[o]) => pet[o].u \in Usuarios \ {r.u}
          BY <4>1, <5>1, FasesTipo DEF Rebasa, EnCurso
        <5>3. pet[o].fase \in {"resolver", "escribir"} => ~Deja(usr[r.u], n)
          BY <2>5, <5>1 DEF Rebasa
        <5>4. ~Deja(usr[r.u], n) =>
                \A v \in Usuarios :
                  /\ EsAdminSistema(usr[v]) => EsAdminSistema(usr'[v])
                  /\ \A t \in Tenants : EsAdminTenant(usr[v], t) => EsAdminTenant(usr'[v], t)
          BY <2>5 DEF Deja
        <5>5. \A m : \A u \in Usuarios \ {r.u} :
                ~Deja(usr[r.u], n) /\ Reemplazable(u, m) => Reemplazable(u, m)'
          <6> SUFFICES ASSUME NEW u \in Usuarios \ {r.u}, NEW m,
                              ~Deja(usr[r.u], n), Reemplazable(u, m)
                       PROVE  Reemplazable(u, m)'
            OBVIOUS
          <6>1. usr'[u] = usr[u]
            BY <2>5
          <6>2. ASSUME EsAdminSistema(usr'[u]), ~EsAdminSistema(m)
                PROVE  \E v \in Usuarios \ {u} : EsAdminSistema(usr'[v])
            BY <5>4, <6>1, <6>2 DEF Reemplazable
          <6>3. ASSUME NEW t \in Tenants, EsAdminTenant(usr'[u], t), ~EsAdminTenant(m, t)
                PROVE  \E v \in Usuarios \ {u} : EsAdminTenant(usr'[v], t)
            BY <5>4, <6>1, <6>3 DEF Reemplazable
          <6>4. QED
            BY <6>2, <6>3 DEF Reemplazable
        <5>6. EnCurso(pet[o]) => usr'[pet[o].u] = usr[pet[o].u]
          BY <2>5, <5>2
        <5>7. Vigente(pet[o])
          BY <4>1, <5>1 DEF Bien
        <5>8. QED
          BY <4>1, <5>2, <5>3, <5>5, <5>6, <5>7, <2>2 DEF Vigente, EnCurso, SinContar
      <4>4. QED
        BY <4>1, <4>2, <4>3 DEF Bien, Vigente, Forma, EnCurso
    <3>3. QED
      BY <3>1, <3>2
  <2>8. QED
    BY <2>3, <2>6, <2>7 DEF IUsuarios
<1>4. QED
  BY <1>2, <1>3 DEF Escribir

LEMMA InicioBien == Init => IUsuarios
<1> SUFFICES ASSUME Init PROVE IUsuarios
  OBVIOUS
<1>1. TypeOK
  BY InicioTipos
<1>2. \A p \in Peticiones : pet[p] = Libre
  BY DEF Init
<1>3. \A p \in Peticiones : Bien(p)
  BY <1>2, LibreTipo, LibreBien DEF Bien
<1>4. RolConTenant
  BY DEF Init, RolConTenant
<1>5. QED
  BY <1>1, <1>3, <1>4 DEF IUsuarios

LEMMA PasoBien == IUsuarios /\ [Next]_vars => IUsuarios'
<1> SUFFICES ASSUME IUsuarios, [Next]_vars PROVE IUsuarios'
  OBVIOUS
<1>1. CASE UNCHANGED vars
  BY <1>1 DEF vars, IUsuarios, TypeOK, RolConTenant, Bien, Vigente, Reemplazable, Forma
<1>2. CASE \E t \in Tenants : SetActivo(t)
  BY <1>2 DEF SetActivo, IUsuarios, TypeOK, RolConTenant, Bien, Vigente, Reemplazable, Forma
<1>3. ASSUME NEW p \in Peticiones,
             \/ Create(p) \/ ResolverAlta(p) \/ GuardarAlta(p)
             \/ Update(p) \/ SoftDelete(p) \/ CambiarClave(p)
             \/ ContarAdmins(p) \/ ResolverTenant(p) \/ Escribir(p)
      PROVE  IUsuarios'
  BY <1>3, LlegadaBien, AvanceBien, GuardarAltaBien, EscribirBien
<1>4. QED
  BY <1>1, <1>2, <1>3 DEF Next

\* Accounts and requests keep their types, for any number of them and whatever
\* overlaps: no write is ever made on an account that is not there.
THEOREM TiposCorrectos == Spec => []TypeOK
<1>1. IUsuarios => TypeOK
  BY DEF IUsuarios
<1>2. QED
  BY <1>1, InicioBien, PasoBien, PTL DEF Spec

\* AD-11: whatever the bodies and however the requests overlap, role and tenant of an
\* account agree, but for the write of an update without a role whose account changed
\* role since it was read, until the next update.
THEOREM RolesFirmes == Spec => []RolConTenant
<1>1. IUsuarios => RolConTenant
  BY DEF IUsuarios
<1>2. QED
  BY <1>1, InicioBien, PasoBien, PTL DEF Spec

\* The step that could remove the last administrator, of the system or of a tenant.
LEMMA PasoAdmins ==
    ASSUME IUsuarios, [Next]_vars
    PROVE  [\/ /\ AdminsSistema # {} => AdminsSistema' # {}
               /\ \A t \in Tenants : AdminsTenant(t) # {} => AdminsTenant(t)' # {}
            \/ \E p \in Peticiones :
                 /\ pet[p].fase = "escribir" /\ pet'[p] = Libre
                 /\ SinContar(pet[p]) \/ p \in rebasadas]_vars
<1>1. CASE UNCHANGED usr
  BY <1>1 DEF AdminsSistema, AdminsTenant
<1>2. ASSUME NEW p \in Peticiones, GuardarAlta(p), ~UNCHANGED usr
      PROVE  \A v \in Usuarios : usr[v] # Nulo => usr'[v] = usr[v]
  BY <1>2 DEF GuardarAlta, IUsuarios, TypeOK
<1>3. ASSUME \A v \in Usuarios : usr[v] # Nulo => usr'[v] = usr[v]
      PROVE  /\ AdminsSistema # {} => AdminsSistema' # {}
             /\ \A t \in Tenants : AdminsTenant(t) # {} => AdminsTenant(t)' # {}
  BY <1>3 DEF AdminsSistema, AdminsTenant, EsAdminSistema, EsAdminTenant
<1>4. ASSUME NEW p \in Peticiones, Escribir(p), ~UNCHANGED usr,
             ~SinContar(pet[p]), p \notin rebasadas
      PROVE  /\ AdminsSistema # {} => AdminsSistema' # {}
             /\ \A t \in Tenants : AdminsTenant(t) # {} => AdminsTenant(t)' # {}
  <2> DEFINE u == pet[p].u
             n == Aplicado(usr[u], pet[p].dto, pet[p].tenant)
  <2>1. u \in Usuarios
    BY <1>4, FasesTipo DEF Escribir, IUsuarios, TypeOK, EnCurso
  <2>2. Reemplazable(u, n)
    BY <1>4 DEF Escribir, IUsuarios, Bien, Vigente
  <2>3. usr'[u] = n /\ \A v \in Usuarios \ {u} : usr'[v] = usr[v]
    BY <1>4, <2>1 DEF Escribir, IUsuarios, TypeOK
  <2> HIDE DEF u, n
  <2>4. ASSUME AdminsSistema # {} PROVE AdminsSistema' # {}
    <3>1. PICK v \in Usuarios : EsAdminSistema(usr[v])
      BY <2>4 DEF AdminsSistema
    <3>2. \E w \in Usuarios : EsAdminSistema(usr'[w])
      BY <2>1, <2>2, <2>3, <3>1 DEF Reemplazable
    <3>3. QED
      BY <3>2 DEF AdminsSistema
  <2>5. ASSUME NEW t \in Tenants, AdminsTenant(t) # {} PROVE AdminsTenant(t)' # {}
    <3>1. PICK v \in Usuarios : EsAdminTenant(usr[v], t)
      BY <2>5 DEF AdminsTenant
    <3>2. \E w \in Usuarios : EsAdminTenant(usr'[w], t)
      BY <2>1, <2>2, <2>3, <3>1 DEF Reemplazable
    <3>3. QED
      BY <3>2 DEF AdminsTenant
  <2>6. QED
    BY <2>4, <2>5
<1>5. ASSUME NEW p \in Peticiones, Escribir(p)
      PROVE  pet[p].fase = "escribir" /\ pet'[p] = Libre
  BY <1>5, LibreTipo, PasarTipo DEF Escribir, IUsuarios
<1>6. CASE ~UNCHANGED usr
  <2>1. \E p \in Peticiones : GuardarAlta(p) \/ Escribir(p)
    BY <1>6 DEF Next, vars, SetActivo, Create, ResolverAlta, Update, SoftDelete,
                CambiarClave, ContarAdmins, ResolverTenant
  <2>2. QED
    BY <1>2, <1>3, <1>4, <1>5, <1>6, <2>1
<1>7. QED
  BY <1>1, <1>6

\* "Impide dejar el sistema sin ningun admin_sistema activo", nor a tenant without an
\* active administrator: for any bodies and any overlap, the last one goes only with
\* a null "activo" or in the write of a request that another overtook.
THEOREM AdminsFirmes == Spec => PerdidaDeAdmin
<1>1. IUsuarios /\ [Next]_vars =>
        [\/ /\ AdminsSistema # {} => AdminsSistema' # {}
            /\ \A t \in Tenants : AdminsTenant(t) # {} => AdminsTenant(t)' # {}
         \/ \E p \in Peticiones :
              /\ pet[p].fase = "escribir" /\ pet'[p] = Libre
              /\ SinContar(pet[p]) \/ p \in rebasadas]_vars
  BY PasoAdmins
<1>2. QED
  BY <1>1, InicioBien, PasoBien, PTL DEF Spec, PerdidaDeAdmin

-----------------------------------------------------------------------------
(* The tokens of a password reset: the inductive invariant *)

\* A request in flight holds a token that was issued, and not a confirmed one; one
\* that overlaps no other of its address is the only one of it, and its token is stored.
SolicitudesCoherentes ==
    \A s \in Solicitudes : sol[s].fase # "libre" =>
        /\ sol[s].token \in emitidos \ confirmados
        /\ s \notin solapadas =>
             /\ doc[sol[s].token] # SinToken
             /\ \A o \in Solicitudes :
                  sol[o].fase # "libre" /\ Email[sol[o].token] = Email[sol[s].token] => o = s

\* What is stored was issued, and what was changed or is in use was mailed.
Emitido ==
    /\ \A t \in Tokens : doc[t] # SinToken \/ usos[t] # 0 => t \in emitidos
    /\ \A c \in Cambios : cambio[c].fase # "libre" => cambio[c].token \in emitidos

Gastado(t) == doc[t] = SinToken \/ doc[t].usado

\* A reset that nothing makes doubtful is the only one with its token, and a
\* token that it spent is about to be marked, marked or gone.
CambiosCoherentes ==
    \A t \in Tokens \ dudosos :
        /\ \A c1, c2 \in EnUso(t) : c1 = c2
        /\ \A c \in EnUso(t) : cambio[c].fase = "clave" => usos[t] = 0
        /\ usos[t] # 0 => Gastado(t) \/ \E c \in EnUso(t) : cambio[c].fase = "marcar"

IInv ==
    /\ TypeOKRestablecer /\ SolicitudesCoherentes /\ Emitido /\ CambiosCoherentes
    /\ EnlaceConfirmadoGuardado /\ RevocadosInservibles /\ UnSoloUso

-----------------------------------------------------------------------------

LEMMA SolicitudTipo ==
    ASSUME NEW r \in Solicitud
    PROVE  /\ r.fase \in {"libre", "enviar", "invalidar", "limpiar"}
           /\ r.fase # "libre" => r.token \in Tokens
BY DEF Solicitud, EnReposo

LEMMA CambioTipo ==
    ASSUME NEW r \in Cambio
    PROVE  /\ r.fase \in {"libre", "clave", "marcar"}
           /\ r.fase # "libre" => r.token \in Tokens
BY DEF Cambio, EnReposo

\* The slots that the actions write are well typed.
LEMMA Ranuras ==
    /\ EnReposo \in Solicitud /\ EnReposo \in Cambio /\ EnReposo.fase = "libre"
    /\ \A t \in Tokens, f \in {"enviar", "invalidar", "limpiar"} :
         [fase |-> f, token |-> t] \in Solicitud
    /\ \A t \in Tokens, f \in {"clave", "marcar"} : [fase |-> f, token |-> t] \in Cambio
BY DEF Solicitud, Cambio, EnReposo

\* Overwriting one slot leaves the others alone.
LEMMA PasoSolicitudTipo ==
    ASSUME TypeOKRestablecer, NEW s \in Solicitudes, NEW f, NEW r \in Solicitud,
           PasoSolicitud(s, f, r)
    PROVE  /\ sol' \in [Solicitudes -> Solicitud]
           /\ sol[s].fase = f /\ sol'[s] = r
           /\ \A o \in Solicitudes \ {s} : sol'[o] = sol[o]
BY DEF TypeOKRestablecer, PasoSolicitud

LEMMA PasoCambioTipo ==
    ASSUME TypeOKRestablecer, NEW c \in Cambios, NEW f, NEW r \in Cambio, PasoCambio(c, f, r)
    PROVE  /\ cambio' \in [Cambios -> Cambio]
           /\ cambio[c].fase = f /\ cambio'[c] = r
           /\ \A o \in Cambios \ {c} : cambio'[o] = cambio[o]
BY DEF TypeOKRestablecer, PasoCambio

\* Removing documents.
LEMMA BorrarTipo ==
    ASSUME TypeOKRestablecer, NEW T, Borrar(T)
    PROVE  /\ doc' \in [Tokens -> PasswordResetToken \cup {SinToken}]
           /\ \A t \in Tokens : doc'[t] = IF t \in T THEN SinToken ELSE doc[t]
BY DEF TypeOKRestablecer, Borrar

LEMMA InicioIInv == InitRestablecer => IInv
<1> SUFFICES ASSUME InitRestablecer PROVE IInv
  OBVIOUS
<1>1. TypeOKRestablecer
  BY Ranuras DEF InitRestablecer, TypeOKRestablecer
<1>2. /\ \A s \in Solicitudes : sol[s].fase = "libre"
      /\ \A c \in Cambios : cambio[c].fase = "libre"
  BY Ranuras DEF InitRestablecer
<1>3. \A t \in Tokens : doc[t] = SinToken /\ usos[t] = 0
  BY DEF InitRestablecer
<1>4. SolicitudesCoherentes /\ Emitido /\ CambiosCoherentes
  BY <1>2, <1>3 DEF SolicitudesCoherentes, Emitido, CambiosCoherentes, EnUso
<1>5. EnlaceConfirmadoGuardado /\ RevocadosInservibles /\ UnSoloUso
  BY <1>3 DEF InitRestablecer, EnlaceConfirmadoGuardado, RevocadosInservibles, UnSoloUso
<1>6. QED
  BY <1>1, <1>4, <1>5 DEF IInv

\* Steps that leave the resets alone and keep spent tokens spent keep what is
\* known of the resets.
LEMMA CambiosIguales ==
    ASSUME IInv, UNCHANGED <<cambio, dudosos, usos>>,
           \A t \in emitidos : Gastado(t) => Gastado(t)'
    PROVE  CambiosCoherentes'
<1> SUFFICES ASSUME NEW t \in Tokens \ dudosos
             PROVE  /\ \A c1, c2 \in EnUso(t) : c1 = c2
                    /\ \A c \in EnUso(t) : cambio[c].fase = "clave" => usos[t] = 0
                    /\ usos[t] # 0 => \/ Gastado(t)'
                                      \/ \E c \in EnUso(t) : cambio[c].fase = "marcar"
  BY DEF CambiosCoherentes, EnUso
<1>1. usos[t] # 0 => t \in emitidos
  BY DEF IInv, Emitido
<1>2. QED
  BY <1>1 DEF IInv, CambiosCoherentes

LEMMA CrearTokenIInv ==
    ASSUME IInv, NEW s \in Solicitudes, CrearToken(s) PROVE IInv'
<1>1. PICK t \in Tokens \ emitidos :
        /\ PasoSolicitud(s, "libre", [fase |-> "enviar", token |-> t])
        /\ doc' = [doc EXCEPT ![t] = [usado |-> FALSE, vencido |-> FALSE]]
        /\ emitidos' = emitidos \cup {t}
        /\ LET otras == {o \in EnVuelo : sol[o].token \in MismoCorreo(t)} IN
           solapadas' = IF otras = {} THEN solapadas \ {s} ELSE solapadas \cup otras \cup {s}
  BY DEF CrearToken
<1> DEFINE otras == {o \in EnVuelo : sol[o].token \in MismoCorreo(t)}
<1> DEFINE r == [fase |-> "enviar", token |-> t]
<1>2. r \in Solicitud
  BY Ranuras
<1> HIDE DEF r
<1>3. PasoSolicitud(s, "libre", r)
  BY <1>1 DEF r
<1>4. /\ sol' \in [Solicitudes -> Solicitud]
      /\ sol[s].fase = "libre" /\ sol'[s] = r
      /\ \A o \in Solicitudes \ {s} : sol'[o] = sol[o]
  BY <1>2, <1>3, PasoSolicitudTipo DEF IInv
<1>5. r.fase = "enviar" /\ r.token = t
  BY DEF r
<1>6. /\ doc' \in [Tokens -> PasswordResetToken \cup {SinToken}]
      /\ doc'[t] \in PasswordResetToken
      /\ \A u \in Tokens \ {t} : doc'[u] = doc[u]
  BY <1>1 DEF IInv, TypeOKRestablecer, PasswordResetToken
<1>7. doc'[t] # SinToken
  BY <1>6, RestablecerAssumption DEF RestablecerAssumption, PasswordResetToken
<1>8. UNCHANGED <<cambio, entregados, confirmados, revocados, dudosos, usos>>
  BY DEF CrearToken
<1>9. solapadas' = IF otras = {} THEN solapadas \ {s} ELSE solapadas \cup otras \cup {s}
  BY <1>1
<1>10. /\ otras \subseteq Solicitudes
       /\ \A o \in Solicitudes : o \in otras <=> /\ sol[o].fase # "libre"
                                                /\ sol[o].token \in MismoCorreo(t)
  BY DEF EnVuelo
<1> HIDE DEF otras
<1>11. TypeOKRestablecer'
  BY <1>1, <1>4, <1>6, <1>8, <1>9, <1>10 DEF IInv, TypeOKRestablecer
<1>12. SolicitudesCoherentes'
  <2> SUFFICES ASSUME NEW o \in Solicitudes, sol'[o].fase # "libre"
               PROVE  /\ sol'[o].token \in emitidos' \ confirmados'
                      /\ o \notin solapadas' =>
                           /\ doc'[sol'[o].token] # SinToken
                           /\ \A x \in Solicitudes :
                                /\ sol'[x].fase # "libre"
                                /\ Email[sol'[x].token] = Email[sol'[o].token]
                                => x = o
    BY DEF SolicitudesCoherentes
  <2>1. ASSUME NEW x \in Solicitudes, sol[x].fase # "libre"
        PROVE  sol[x].token \in Tokens /\ sol[x].token # t
    BY <2>1, <1>1 DEF IInv, TypeOKRestablecer, SolicitudesCoherentes
  <2>2. CASE o = s
    <3>1. t \notin confirmados
      BY DEF IInv, TypeOKRestablecer
    <3>2. ASSUME s \notin solapadas', NEW x \in Solicitudes \ {s}, sol[x].fase # "libre"
          PROVE  Email[sol[x].token] # Email[t]
      <4>1. x \notin otras
        BY <1>9, <3>2
      <4>2. QED
        BY <1>10, <2>1, <3>2, <4>1 DEF MismoCorreo
    <3>3. QED
      BY <2>2, <3>1, <3>2, <1>1, <1>4, <1>5, <1>7, <1>8
  <2>3. CASE o # s
    <3>1. /\ sol'[o] = sol[o] /\ sol[o].token \in emitidos \ confirmados
          /\ sol[o].token \in Tokens /\ sol[o].token # t
      BY <1>4, <2>1, <2>3 DEF IInv, SolicitudesCoherentes
    <3>2. ASSUME o \notin solapadas'
          PROVE  /\ doc'[sol[o].token] # SinToken
                 /\ \A x \in Solicitudes : /\ sol'[x].fase # "libre"
                                           /\ Email[sol'[x].token] = Email[sol[o].token]
                                           => x = o
      <4>1. o \notin solapadas /\ o \notin otras
        BY <1>9, <2>3, <3>2
      <4>2. Email[sol[o].token] # Email[t]
        BY <1>4, <1>10, <2>3, <3>1, <4>1 DEF MismoCorreo
      <4>3. /\ doc[sol[o].token] # SinToken
            /\ \A x \in Solicitudes :
                 sol[x].fase # "libre" /\ Email[sol[x].token] = Email[sol[o].token] => x = o
        BY <3>1, <4>1 DEF IInv, SolicitudesCoherentes
      <4>4. QED
        BY <1>4, <1>5, <1>6, <3>1, <4>2, <4>3
    <3>3. QED
      BY <3>1, <3>2, <1>1, <1>8
  <2>4. QED
    BY <2>2, <2>3
<1>13. Emitido'
  BY <1>1, <1>6, <1>8 DEF IInv, Emitido
<1>14. CambiosCoherentes'
  <2>1. \A u \in emitidos : doc'[u] = doc[u]
    BY <1>1, <1>6 DEF IInv, TypeOKRestablecer
  <2>2. QED
    BY <2>1, <1>8, CambiosIguales DEF Gastado
<1>15. EnlaceConfirmadoGuardado' /\ RevocadosInservibles' /\ UnSoloUso'
  <2>1. \A u \in emitidos : doc'[u] = doc[u]
    BY <1>1, <1>6 DEF IInv, TypeOKRestablecer
  <2>2. confirmados \subseteq emitidos /\ revocados \subseteq emitidos
    BY DEF IInv, TypeOKRestablecer
  <2>3. QED
    BY <2>1, <2>2, <1>8
       DEF IInv, EnlaceConfirmadoGuardado, RevocadosInservibles, UnSoloUso
<1>16. QED
  BY <1>11, <1>12, <1>13, <1>14, <1>15 DEF IInv

LEMMA SendPasswordResetEmailIInv ==
    ASSUME IInv, NEW s \in Solicitudes, SendPasswordResetEmail(s) PROVE IInv'
<1> DEFINE t == sol[s].token
<1>1. sol[s] \in Solicitud /\ sol[s].fase = "enviar"
  BY DEF IInv, TypeOKRestablecer, SendPasswordResetEmail, PasoSolicitud
<1>2. t \in Tokens /\ t \in emitidos
  BY <1>1, SolicitudTipo DEF IInv, SolicitudesCoherentes
<1>3. PICK f \in {"invalidar", "limpiar"} :
        PasoSolicitud(s, "enviar", [fase |-> f, token |-> t])
  BY DEF SendPasswordResetEmail
<1> DEFINE r == [fase |-> f, token |-> t]
<1>4. r \in Solicitud /\ r.fase # "libre" /\ r.token = t
  BY <1>2, Ranuras
<1>4a. PasoSolicitud(s, "enviar", r)
  BY <1>3
<1>5. entregados' \in {entregados, entregados \cup {t}}
  BY DEF SendPasswordResetEmail
<1>6. UNCHANGED <<doc, cambio, emitidos, solapadas, confirmados, revocados, dudosos, usos>>
  BY DEF SendPasswordResetEmail
<1> HIDE DEF r
<1>7. /\ sol' \in [Solicitudes -> Solicitud]
      /\ sol'[s] = r
      /\ \A o \in Solicitudes \ {s} : sol'[o] = sol[o]
  BY <1>4, <1>4a, PasoSolicitudTipo DEF IInv
<1>8. TypeOKRestablecer'
  BY <1>2, <1>5, <1>6, <1>7 DEF IInv, TypeOKRestablecer
<1>9. SolicitudesCoherentes'
  <2>1. \A o \in Solicitudes :
          /\ sol'[o].fase # "libre" <=> sol[o].fase # "libre"
          /\ sol'[o].fase # "libre" => sol'[o].token = sol[o].token
    BY <1>1, <1>4, <1>7
  <2>2. QED
    BY <2>1, <1>6 DEF IInv, SolicitudesCoherentes
<1>10. Emitido'
  BY <1>6 DEF IInv, Emitido
<1>11. CambiosCoherentes'
  BY <1>6, CambiosIguales DEF Gastado
<1>12. EnlaceConfirmadoGuardado' /\ RevocadosInservibles' /\ UnSoloUso'
  BY <1>6 DEF IInv, EnlaceConfirmadoGuardado, RevocadosInservibles, UnSoloUso
<1>13. QED
  BY <1>8, <1>9, <1>10, <1>11, <1>12 DEF IInv

\* Freeing the slot of one request leaves the others as they were, as long as the
\* documents of other addresses stay as they are and nothing is confirmed but its
\* token, and only if it overlaps no other of its address.
LEMMA LiberarSolicitud ==
    ASSUME IInv, NEW s \in Solicitudes, NEW f \in {"invalidar", "limpiar"},
           PasoSolicitud(s, f, EnReposo), UNCHANGED <<emitidos, solapadas>>,
           confirmados' \subseteq confirmados \cup {sol[s].token},
           sol[s].token \in confirmados' => s \notin solapadas,
           \A u \in emitidos : Email[u] # Email[sol[s].token] => doc'[u] = doc[u]
    PROVE  /\ sol' \in [Solicitudes -> Solicitud]
           /\ sol[s].token \in emitidos
           /\ SolicitudesCoherentes'
<1>1. /\ sol' \in [Solicitudes -> Solicitud]
      /\ sol[s].fase = f /\ sol'[s] = EnReposo
      /\ \A o \in Solicitudes \ {s} : sol'[o] = sol[o]
  BY Ranuras, PasoSolicitudTipo DEF IInv
<1>2. sol[s].token \in emitidos
  BY <1>1 DEF IInv, SolicitudesCoherentes
<1>3. SolicitudesCoherentes'
  <2> SUFFICES ASSUME NEW o \in Solicitudes, sol'[o].fase # "libre"
               PROVE  /\ sol'[o].token \in emitidos' \ confirmados'
                      /\ o \notin solapadas' =>
                           /\ doc'[sol'[o].token] # SinToken
                           /\ \A x \in Solicitudes :
                                /\ sol'[x].fase # "libre"
                                /\ Email[sol'[x].token] = Email[sol'[o].token]
                                => x = o
    BY DEF SolicitudesCoherentes
  <2>1. o # s /\ sol'[o] = sol[o] /\ sol[o].fase # "libre" /\ sol[s].fase # "libre"
    BY <1>1, Ranuras
  <2>2. sol[o].token \in emitidos \ confirmados
    BY <2>1 DEF IInv, SolicitudesCoherentes
  <2>3. sol[o].token \notin confirmados'
    <3>1. ASSUME sol[o].token = sol[s].token PROVE s \in solapadas
      BY <2>1, <3>1 DEF IInv, SolicitudesCoherentes
    <3>2. QED
      BY <2>2, <3>1
  <2>4. ASSUME o \notin solapadas
        PROVE  /\ doc'[sol[o].token] # SinToken
               /\ \A x \in Solicitudes : /\ sol'[x].fase # "libre"
                                         /\ Email[sol'[x].token] = Email[sol[o].token]
                                         => x = o
    <3>1. /\ doc[sol[o].token] # SinToken
          /\ \A x \in Solicitudes :
               sol[x].fase # "libre" /\ Email[sol[x].token] = Email[sol[o].token] => x = o
      BY <2>1, <2>4 DEF IInv, SolicitudesCoherentes
    <3>2. Email[sol[o].token] # Email[sol[s].token]
      BY <2>1, <3>1
    <3>3. QED
      BY <1>1, <2>2, <3>1, <3>2, Ranuras
  <2>5. QED
    BY <2>1, <2>2, <2>3, <2>4
<1>4. QED
  BY <1>1, <1>2, <1>3

LEMMA InvalidarPreviosIInv ==
    ASSUME IInv, NEW s \in Solicitudes, InvalidarPrevios(s) PROVE IInv'
<1> DEFINE t == sol[s].token
<1>1. UNCHANGED <<cambio, emitidos, entregados, solapadas, dudosos, usos>>
  BY DEF InvalidarPrevios
<1>2. CASE /\ PasoSolicitud(s, "invalidar", EnReposo)
           /\ Borrar(Previos(t))
           /\ confirmados' = (confirmados \ MismoCorreo(t))
                              \cup (IF s \in solapadas THEN {} ELSE {t})
           /\ revocados' = revocados \cup ((emitidos \cap MismoCorreo(t)) \ {t})
  <2>1. t \in emitidos /\ t \in Tokens /\ t \notin confirmados
    BY <1>2 DEF IInv, TypeOKRestablecer, SolicitudesCoherentes, PasoSolicitud
  <2>2. /\ doc' \in [Tokens -> PasswordResetToken \cup {SinToken}]
        /\ \A u \in Tokens : doc'[u] = IF Email[u] = Email[t] /\ u # t
                                       THEN SinToken ELSE doc[u]
    BY <1>2, BorrarTipo DEF IInv, Previos, Guardados, MismoCorreo
  <2>3. /\ sol' \in [Solicitudes -> Solicitud]
        /\ SolicitudesCoherentes'
    <3>1. \A u \in emitidos : Email[u] # Email[t] => doc'[u] = doc[u]
      BY <2>2 DEF IInv, TypeOKRestablecer
    <3>2. /\ confirmados' \subseteq confirmados \cup {t}
          /\ t \in confirmados' => s \notin solapadas
      BY <1>2, <2>1
    <3>3. QED
      BY <1>1, <1>2, <3>1, <3>2, LiberarSolicitud
  <2>4. TypeOKRestablecer'
    BY <1>1, <1>2, <2>1, <2>2, <2>3 DEF IInv, TypeOKRestablecer
  <2>5. Emitido'
    BY <1>1, <2>2 DEF IInv, Emitido
  <2>6. CambiosCoherentes'
    <3>1. \A u \in emitidos : Gastado(u) => Gastado(u)'
      BY <2>2 DEF IInv, TypeOKRestablecer, Gastado
    <3>2. QED
      BY <3>1, <1>1, CambiosIguales
  <2>7. EnlaceConfirmadoGuardado'
    <3>1. s \notin solapadas => doc[t] # SinToken
      BY <1>2 DEF IInv, SolicitudesCoherentes, PasoSolicitud
    <3>2. \A u \in confirmados : u \in Tokens /\ doc[u] # SinToken
      BY DEF IInv, TypeOKRestablecer, EnlaceConfirmadoGuardado
    <3>3. \A u \in confirmados' : \/ u \in confirmados /\ Email[u] # Email[t]
                                  \/ u = t /\ s \notin solapadas
      BY <1>2, <3>2 DEF MismoCorreo
    <3>4. QED
      BY <2>1, <2>2, <3>1, <3>2, <3>3 DEF EnlaceConfirmadoGuardado
  <2>8. RevocadosInservibles'
    <3>1. emitidos \subseteq Tokens /\ revocados \subseteq emitidos
      BY DEF IInv, TypeOKRestablecer
    <3>2. \A u \in revocados : doc[u] = SinToken
      BY DEF IInv, RevocadosInservibles
    <3>3. QED
      BY <1>2, <2>2, <3>1, <3>2 DEF RevocadosInservibles, MismoCorreo
  <2>9. UnSoloUso'
    BY <1>1 DEF IInv, UnSoloUso
  <2>10. QED
    BY <2>3, <2>4, <2>5, <2>6, <2>7, <2>8, <2>9 DEF IInv
<1>3. CASE /\ PasoSolicitud(s, "invalidar", [fase |-> "limpiar", token |-> t])
           /\ UNCHANGED <<doc, confirmados, revocados>>
  <2> DEFINE r == [fase |-> "limpiar", token |-> t]
  <2>1. sol[s].fase = "invalidar" /\ sol[s] \in Solicitud
    BY <1>3 DEF IInv, TypeOKRestablecer, PasoSolicitud
  <2>2. r \in Solicitud /\ r.fase # "libre" /\ r.token = t
    BY <2>1, SolicitudTipo, Ranuras
  <2>3. PasoSolicitud(s, "invalidar", r)
    BY <1>3
  <2> HIDE DEF r
  <2>4. /\ sol' \in [Solicitudes -> Solicitud]
        /\ sol'[s] = r
        /\ \A o \in Solicitudes \ {s} : sol'[o] = sol[o]
    BY <2>2, <2>3, PasoSolicitudTipo DEF IInv
  <2>5. TypeOKRestablecer'
    BY <1>1, <1>3, <2>4 DEF IInv, TypeOKRestablecer
  <2>6. SolicitudesCoherentes'
    <3>1. \A o \in Solicitudes :
            /\ sol'[o].fase # "libre" <=> sol[o].fase # "libre"
            /\ sol'[o].fase # "libre" => sol'[o].token = sol[o].token
      BY <2>1, <2>2, <2>4
    <3>2. QED
      BY <3>1, <1>1, <1>3 DEF IInv, SolicitudesCoherentes
  <2>7. Emitido' /\ UnSoloUso'
    BY <1>1, <1>3 DEF IInv, Emitido, UnSoloUso
  <2>8. CambiosCoherentes'
    BY <1>1, <1>3, CambiosIguales DEF Gastado
  <2>9. EnlaceConfirmadoGuardado' /\ RevocadosInservibles'
    BY <1>3 DEF IInv, EnlaceConfirmadoGuardado, RevocadosInservibles
  <2>10. QED
    BY <2>5, <2>6, <2>7, <2>8, <2>9 DEF IInv
<1>4. QED
  BY <1>2, <1>3 DEF InvalidarPrevios

LEMMA LimpiarIInv ==
    ASSUME IInv, NEW s \in Solicitudes, Limpiar(s) PROVE IInv'
<1> DEFINE t == sol[s].token
<1>1. PasoSolicitud(s, "limpiar", EnReposo) /\ UNCHANGED <<cambio, historia>>
  BY DEF Limpiar
<1>2. sol[s].fase = "limpiar" /\ sol[s] \in Solicitud
  BY <1>1 DEF IInv, TypeOKRestablecer, PasoSolicitud
<1>3. t \in Tokens /\ t \in emitidos /\ t \notin confirmados
  BY <1>2, SolicitudTipo DEF IInv, SolicitudesCoherentes
<1>4. /\ doc' \in [Tokens -> PasswordResetToken \cup {SinToken}]
      /\ \A u \in Tokens : doc'[u] = doc[u] \/ (u = t /\ doc'[u] = SinToken)
  <2>1. CASE Borrar(Sobrante(t))
    BY <2>1, BorrarTipo DEF IInv, Sobrante
  <2>2. CASE UNCHANGED doc
    BY <2>2 DEF IInv, TypeOKRestablecer
  <2>3. QED
    BY <2>1, <2>2 DEF Limpiar
<1>5. sol' \in [Solicitudes -> Solicitud] /\ SolicitudesCoherentes'
  <2>1. \A u \in emitidos : Email[u] # Email[t] => doc'[u] = doc[u]
    BY <1>4 DEF IInv, TypeOKRestablecer
  <2>2. QED
    BY <1>1, <1>3, <2>1, LiberarSolicitud DEF historia
<1>6. TypeOKRestablecer'
  BY <1>1, <1>4, <1>5 DEF IInv, TypeOKRestablecer, historia
<1>7. Emitido' /\ UnSoloUso'
  BY <1>1, <1>4 DEF IInv, Emitido, UnSoloUso, historia
<1>8. CambiosCoherentes'
  <2>1. \A u \in emitidos : Gastado(u) => Gastado(u)'
    BY <1>4 DEF IInv, TypeOKRestablecer, Gastado
  <2>2. QED
    BY <2>1, <1>1, CambiosIguales DEF historia
<1>9. EnlaceConfirmadoGuardado' /\ RevocadosInservibles'
  <2>1. confirmados \subseteq Tokens /\ revocados \subseteq Tokens
    BY DEF IInv, TypeOKRestablecer
  <2>2. QED
    BY <2>1, <1>1, <1>3, <1>4
       DEF IInv, EnlaceConfirmadoGuardado, RevocadosInservibles, historia
<1>10. QED
  BY <1>5, <1>6, <1>7, <1>8, <1>9 DEF IInv

-----------------------------------------------------------------------------
(* Resets *)

\* What a step that leaves the requests, the confirmed and the revoked tokens
\* alone keeps, as long as no document appears or goes.
LEMMA SolicitudesIguales ==
    ASSUME IInv, UNCHANGED <<sol, emitidos, solapadas, confirmados, revocados>>,
           doc' \in [Tokens -> PasswordResetToken \cup {SinToken}],
           \A t \in Tokens : doc'[t] = SinToken <=> doc[t] = SinToken
    PROVE  SolicitudesCoherentes' /\ EnlaceConfirmadoGuardado' /\ RevocadosInservibles'
<1>1. /\ emitidos \subseteq Tokens /\ revocados \subseteq Tokens
      /\ confirmados \subseteq Tokens
  BY DEF IInv, TypeOKRestablecer
<1>2. SolicitudesCoherentes'
  BY <1>1 DEF IInv, SolicitudesCoherentes
<1>3. EnlaceConfirmadoGuardado' /\ RevocadosInservibles'
  BY <1>1 DEF IInv, EnlaceConfirmadoGuardado, RevocadosInservibles
<1>4. QED
  BY <1>2, <1>3

LEMMA BuscarTokenIInv ==
    ASSUME IInv, NEW c \in Cambios, BuscarToken(c) PROVE IInv'
<1>1. PICK t \in entregados :
        /\ Utilizable(doc[t])
        /\ PasoCambio(c, "libre", [fase |-> "clave", token |-> t])
        /\ dudosos' = IF EnUso(t) = {} THEN dudosos ELSE dudosos \cup {t}
  BY DEF BuscarToken
<1>2. t \in Tokens /\ t \in emitidos
  BY DEF IInv, TypeOKRestablecer
<1> DEFINE r == [fase |-> "clave", token |-> t]
<1>3. r \in Cambio /\ r.fase = "clave" /\ r.token = t
  BY <1>2, Ranuras
<1>4. PasoCambio(c, "libre", r)
  BY <1>1
<1> HIDE DEF r
<1>5. /\ cambio' \in [Cambios -> Cambio]
      /\ cambio[c].fase = "libre" /\ cambio'[c] = r
      /\ \A o \in Cambios \ {c} : cambio'[o] = cambio[o]
  BY <1>3, <1>4, PasoCambioTipo DEF IInv
<1>6. UNCHANGED <<doc, sol, emitidos, entregados, solapadas, confirmados, revocados, usos>>
  BY DEF BuscarToken
<1>7. TypeOKRestablecer'
  BY <1>1, <1>2, <1>5, <1>6 DEF IInv, TypeOKRestablecer
<1>8. SolicitudesCoherentes' /\ EnlaceConfirmadoGuardado' /\ RevocadosInservibles'
  BY <1>6, SolicitudesIguales DEF IInv, TypeOKRestablecer
<1>9. Emitido'
  BY <1>2, <1>3, <1>5, <1>6 DEF IInv, Emitido
<1>10. CambiosCoherentes'
  <2> SUFFICES ASSUME NEW u \in Tokens \ dudosos'
               PROVE  /\ \A c1, c2 \in EnUso(u)' : c1 = c2
                      /\ \A x \in EnUso(u)' : cambio'[x].fase = "clave" => usos'[u] = 0
                      /\ usos'[u] # 0 => \/ Gastado(u)'
                                         \/ \E x \in EnUso(u)' : cambio'[x].fase = "marcar"
    BY DEF CambiosCoherentes
  <2>1. u \in Tokens \ dudosos
    BY <1>1
  <2>2. CASE u = t
    <3>1. EnUso(t) = {}
      BY <1>1, <2>2
    <3>2. EnUso(t)' = {c}
      BY <3>1, <1>3, <1>5 DEF EnUso
    <3>3. usos[t] = 0
      BY <1>1, <2>1, <2>2, <3>1 DEF IInv, CambiosCoherentes, Gastado, Utilizable
    <3>4. QED
      BY <2>2, <3>2, <3>3, <1>6
  <2>3. CASE u # t
    <3>1. EnUso(u)' = EnUso(u) /\ c \notin EnUso(u)
      BY <2>3, <1>3, <1>5 DEF EnUso
    <3>2. EnUso(u) \subseteq Cambios
      BY DEF EnUso
    <3>3. QED
      BY <2>1, <3>1, <3>2, <1>5, <1>6 DEF IInv, CambiosCoherentes, Gastado
  <2>4. QED
    BY <2>2, <2>3
<1>11. UnSoloUso'
  BY <1>6 DEF IInv, UnSoloUso
<1>12. QED
  BY <1>7, <1>8, <1>9, <1>10, <1>11 DEF IInv

LEMMA CambiarClaveIInv ==
    ASSUME IInv, NEW c \in Cambios, GuardarClave(c) PROVE IInv'
<1> DEFINE t == cambio[c].token
<1>1. cambio[c].fase = "clave" /\ cambio[c] \in Cambio
  BY DEF GuardarClave, PasoCambio, IInv, TypeOKRestablecer
<1>2. t \in Tokens /\ t \in emitidos /\ c \in EnUso(t)
  BY <1>1, CambioTipo DEF IInv, Emitido, EnUso
<1>3. UNCHANGED <<doc, sol, emitidos, entregados, solapadas, confirmados, revocados, dudosos>>
  BY DEF GuardarClave
<1>4. SolicitudesCoherentes' /\ EnlaceConfirmadoGuardado' /\ RevocadosInservibles'
  BY <1>3, SolicitudesIguales DEF IInv, TypeOKRestablecer
<1>5. t \notin dudosos => usos[t] = 0 /\ EnUso(t) = {c}
  BY <1>1, <1>2 DEF IInv, CambiosCoherentes
<1>6. CASE /\ PasoCambio(c, "clave", [fase |-> "marcar", token |-> t])
           /\ usos' = [usos EXCEPT ![t] = IF t \in dudosos THEN @ ELSE @ + 1]
  <2> DEFINE r == [fase |-> "marcar", token |-> t]
  <2>1. r \in Cambio /\ r.fase = "marcar" /\ r.token = t
    BY <1>2, Ranuras
  <2>2. PasoCambio(c, "clave", r)
    BY <1>6
  <2> HIDE DEF r
  <2>3. /\ cambio' \in [Cambios -> Cambio] /\ cambio'[c] = r
        /\ \A o \in Cambios \ {c} : cambio'[o] = cambio[o]
    BY <2>1, <2>2, PasoCambioTipo DEF IInv
  <2>4. /\ usos' \in [Tokens -> Nat]
        /\ usos'[t] = IF t \in dudosos THEN usos[t] ELSE usos[t] + 1
        /\ \A u \in Tokens \ {t} : usos'[u] = usos[u]
    BY <1>2, <1>6 DEF IInv, TypeOKRestablecer
  <2>5. TypeOKRestablecer'
    BY <1>3, <2>3, <2>4 DEF IInv, TypeOKRestablecer
  <2>6. Emitido'
    BY <1>2, <1>3, <2>1, <2>3, <2>4 DEF IInv, Emitido
  <2>7. \A u \in Tokens : EnUso(u)' = EnUso(u)
    BY <1>1, <2>1, <2>3 DEF EnUso
  <2>8. CambiosCoherentes'
    <3> SUFFICES ASSUME NEW u \in Tokens \ dudosos
                 PROVE  /\ \A c1, c2 \in EnUso(u) : c1 = c2
                        /\ \A x \in EnUso(u) : cambio'[x].fase = "clave" => usos'[u] = 0
                        /\ usos'[u] # 0 => \/ Gastado(u)'
                                           \/ \E x \in EnUso(u) : cambio'[x].fase = "marcar"
      BY <1>3, <2>7 DEF CambiosCoherentes
    <3>1. CASE u = t
      BY <3>1, <1>5, <2>1, <2>3
    <3>2. CASE u # t
      <4>1. EnUso(u) \subseteq Cambios /\ c \notin EnUso(u)
        BY <3>2 DEF EnUso
      <4>2. QED
        BY <3>2, <4>1, <1>3, <2>3, <2>4 DEF IInv, CambiosCoherentes, Gastado
    <3>3. QED
      BY <3>1, <3>2
  <2>9. UnSoloUso'
    BY <1>5, <2>4 DEF IInv, UnSoloUso
  <2>10. QED
    BY <1>4, <2>5, <2>6, <2>8, <2>9 DEF IInv
<1>7. CASE PasoCambio(c, "clave", EnReposo) /\ UNCHANGED usos
  <2>1. /\ cambio' \in [Cambios -> Cambio] /\ cambio'[c] = EnReposo
        /\ \A o \in Cambios \ {c} : cambio'[o] = cambio[o]
    BY <1>7, Ranuras, PasoCambioTipo DEF IInv
  <2>2. TypeOKRestablecer'
    BY <1>3, <1>7, <2>1 DEF IInv, TypeOKRestablecer
  <2>3. Emitido' /\ UnSoloUso'
    BY <1>3, <1>7, <2>1, Ranuras DEF IInv, Emitido, UnSoloUso
  <2>4. CambiosCoherentes'
    <3> SUFFICES ASSUME NEW u \in Tokens \ dudosos
                 PROVE  /\ \A c1, c2 \in EnUso(u)' : c1 = c2
                        /\ \A x \in EnUso(u)' : cambio'[x].fase = "clave" => usos[u] = 0
                        /\ usos[u] # 0 => \/ Gastado(u)'
                                          \/ \E x \in EnUso(u)' : cambio'[x].fase = "marcar"
      BY <1>3, <1>7 DEF CambiosCoherentes
    <3>1. CASE u = t
      <4>1. EnUso(u)' = {}
        BY <3>1, <1>5, <2>1, Ranuras DEF EnUso
      <4>2. QED
        BY <3>1, <4>1, <1>5
    <3>2. CASE u # t
      <4>1. EnUso(u)' = EnUso(u) /\ c \notin EnUso(u)
        BY <3>2, <2>1, Ranuras DEF EnUso
      <4>2. EnUso(u) \subseteq Cambios
        BY DEF EnUso
      <4>3. QED
        BY <4>1, <4>2, <1>3, <2>1 DEF IInv, CambiosCoherentes, Gastado
    <3>3. QED
      BY <3>1, <3>2
  <2>5. QED
    BY <1>4, <2>2, <2>3, <2>4 DEF IInv
<1>8. QED
  BY <1>6, <1>7 DEF GuardarClave

LEMMA MarcarIInv ==
    ASSUME IInv, NEW c \in Cambios, Marcar(c) PROVE IInv'
<1>1. cambio[c].fase = "marcar" /\ cambio[c] \in Cambio
  BY DEF Marcar, PasoCambio, IInv, TypeOKRestablecer
<1>2. PICK t \in Tokens : t = cambio[c].token /\ t \in emitidos /\ c \in EnUso(t)
  BY <1>1, CambioTipo DEF IInv, Emitido, EnUso
<1>3. UNCHANGED <<sol, emitidos, entregados, solapadas, confirmados, revocados, usos>>
  BY DEF Marcar
<1>4. /\ cambio' \in [Cambios -> Cambio] /\ cambio'[c] = EnReposo
      /\ \A o \in Cambios \ {c} : cambio'[o] = cambio[o]
  BY Ranuras, PasoCambioTipo DEF IInv, Marcar
<1>5. /\ doc' \in [Tokens -> PasswordResetToken \cup {SinToken}]
      /\ \A u \in Tokens : doc'[u] = SinToken <=> doc[u] = SinToken
      /\ \A u \in Tokens : Gastado(u) => Gastado(u)'
      /\ t \notin dudosos' => Gastado(t)'
  <2>1. CASE doc' = [doc EXCEPT ![t] = Marcado(@)]
    <3>1. doc[t] = SinToken => Marcado(doc[t]) = SinToken
      BY DEF Marcado
    <3>2. doc[t] # SinToken => Marcado(doc[t]) \in PasswordResetToken /\ Marcado(doc[t]).usado
      <4>1. ASSUME NEW d \in PasswordResetToken, d # SinToken
            PROVE  Marcado(d) \in PasswordResetToken /\ Marcado(d).usado
        BY <4>1 DEF Marcado, PasswordResetToken
      <4>2. QED
        BY <4>1 DEF IInv, TypeOKRestablecer
    <3>3. /\ doc'[t] = Marcado(doc[t])
          /\ \A u \in Tokens \ {t} : doc'[u] = doc[u]
          /\ doc' \in [Tokens -> PasswordResetToken \cup {SinToken}]
      BY <2>1, <3>1, <3>2, <1>2 DEF IInv, TypeOKRestablecer
    <3>4. SinToken \notin PasswordResetToken
      BY RestablecerAssumption DEF RestablecerAssumption, PasswordResetToken
    <3>5. QED
      BY <3>1, <3>2, <3>3, <3>4 DEF Gastado
  <2>2. CASE dudosos' = dudosos \cup {t} /\ UNCHANGED doc
    BY <2>2 DEF IInv, TypeOKRestablecer, Gastado
  <2>3. QED
    BY <2>1, <2>2, <1>2 DEF Marcar
<1>6. dudosos' \in {dudosos, dudosos \cup {t}}
  BY <1>2 DEF Marcar
<1>7. TypeOKRestablecer'
  BY <1>2, <1>3, <1>4, <1>5, <1>6 DEF IInv, TypeOKRestablecer
<1>8. SolicitudesCoherentes' /\ EnlaceConfirmadoGuardado' /\ RevocadosInservibles'
  BY <1>3, <1>5, SolicitudesIguales
<1>9. Emitido' /\ UnSoloUso'
  BY <1>3, <1>4, <1>5, Ranuras DEF IInv, Emitido, UnSoloUso
<1>10. CambiosCoherentes'
  <2> SUFFICES ASSUME NEW u \in Tokens \ dudosos'
               PROVE  /\ \A c1, c2 \in EnUso(u)' : c1 = c2
                      /\ \A x \in EnUso(u)' : cambio'[x].fase = "clave" => usos[u] = 0
                      /\ usos[u] # 0 => \/ Gastado(u)'
                                        \/ \E x \in EnUso(u)' : cambio'[x].fase = "marcar"
    BY <1>3 DEF CambiosCoherentes
  <2>1. u \in Tokens \ dudosos
    BY <1>6
  <2>2. CASE u = t
    <3>1. EnUso(u) = {c}
      BY <2>1, <2>2, <1>2 DEF IInv, CambiosCoherentes
    <3>2. EnUso(u)' = {}
      BY <2>2, <3>1, <1>2, <1>4, Ranuras DEF EnUso
    <3>3. QED
      BY <2>2, <3>2, <1>5
  <2>3. CASE u # t
    <3>1. EnUso(u)' = EnUso(u) /\ c \notin EnUso(u)
      BY <2>3, <1>2, <1>4, Ranuras DEF EnUso
    <3>2. EnUso(u) \subseteq Cambios
      BY DEF EnUso
    <3>3. QED
      BY <2>1, <3>1, <3>2, <1>4, <1>5 DEF IInv, CambiosCoherentes
  <2>4. QED
    BY <2>2, <2>3
<1>11. QED
  BY <1>7, <1>8, <1>9, <1>10 DEF IInv

-----------------------------------------------------------------------------
(* Time and crashes *)

LEMMA VencerIInv ==
    ASSUME IInv, NEW t \in Tokens, Vencer(t) PROVE IInv'
<1>1. UNCHANGED <<sol, cambio, emitidos, entregados, solapadas, revocados, dudosos, usos>>
  BY DEF Vencer
<1>2. SinToken \notin PasswordResetToken
  BY RestablecerAssumption DEF RestablecerAssumption, PasswordResetToken
<1>3. doc[t] \in PasswordResetToken
  BY DEF Vencer, IInv, TypeOKRestablecer
<1> DEFINE v == IF doc[t].vencido THEN SinToken ELSE [doc[t] EXCEPT !.vencido = TRUE]
<1>4. /\ v \in PasswordResetToken \cup {SinToken}
      /\ v = SinToken <=> doc[t].vencido
      /\ v # SinToken => v.usado = doc[t].usado
  BY <1>2, <1>3 DEF PasswordResetToken
<1>5. doc' = [doc EXCEPT ![t] = v]
  BY DEF Vencer
<1> HIDE DEF v
<1>6. /\ doc' \in [Tokens -> PasswordResetToken \cup {SinToken}]
      /\ doc'[t] = v
      /\ \A u \in Tokens \ {t} : doc'[u] = doc[u]
  BY <1>4, <1>5 DEF IInv, TypeOKRestablecer
<1>7. confirmados' = IF doc[t].vencido THEN confirmados \ {t} ELSE confirmados
  BY DEF Vencer
<1>8. TypeOKRestablecer'
  BY <1>1, <1>3, <1>6, <1>7, <1>2 DEF IInv, TypeOKRestablecer
<1>9. SolicitudesCoherentes'
  <2> SUFFICES ASSUME NEW s \in Solicitudes, sol[s].fase # "libre"
               PROVE  /\ sol[s].token \in emitidos \ confirmados'
                      /\ s \notin solapadas =>
                           /\ doc'[sol[s].token] # SinToken
                           /\ \A o \in Solicitudes :
                                /\ sol[o].fase # "libre"
                                /\ Email[sol[o].token] = Email[sol[s].token]
                                => o = s
    BY <1>1 DEF SolicitudesCoherentes
  <2>1. sol[s].token \in emitidos /\ sol[s].token \in Tokens /\ sol[s].token # t
    BY DEF Vencer, EnVuelo, IInv, TypeOKRestablecer, SolicitudesCoherentes
  <2>2. doc'[sol[s].token] = doc[sol[s].token]
    BY <2>1, <1>6
  <2>3. QED
    BY <2>1, <2>2, <1>7 DEF IInv, SolicitudesCoherentes
<1>10. Emitido' /\ UnSoloUso'
  BY <1>1, <1>2, <1>3, <1>6 DEF IInv, Emitido, UnSoloUso
<1>11. CambiosCoherentes'
  <2>1. \A u \in emitidos : Gastado(u) => Gastado(u)'
    BY <1>2, <1>3, <1>4, <1>6 DEF IInv, TypeOKRestablecer, Gastado
  <2>2. QED
    BY <2>1, <1>1, CambiosIguales
<1>12. EnlaceConfirmadoGuardado'
  BY <1>4, <1>6, <1>7 DEF IInv, TypeOKRestablecer, EnlaceConfirmadoGuardado
<1>13. RevocadosInservibles'
  BY <1>1, <1>2, <1>3, <1>6 DEF IInv, TypeOKRestablecer, RevocadosInservibles
<1>14. QED
  BY <1>8, <1>9, <1>10, <1>11, <1>12, <1>13 DEF IInv

LEMMA ReiniciarIInv == IInv /\ Reiniciar => IInv'
<1> SUFFICES ASSUME IInv, Reiniciar PROVE IInv'
  OBVIOUS
<1>1. UNCHANGED <<doc, emitidos, entregados, solapadas, confirmados, revocados, usos>>
  BY DEF Reiniciar
<1>2. /\ sol' \in [Solicitudes -> Solicitud] /\ cambio' \in [Cambios -> Cambio]
      /\ \A s \in Solicitudes : sol'[s].fase = "libre"
      /\ \A c \in Cambios : cambio'[c].fase = "libre"
  BY Ranuras DEF Reiniciar
<1>3. dudosos' = dudosos \cup {t \in Tokens : EnUso(t) # {}}
  BY DEF Reiniciar
<1>4. \A t \in Tokens : EnUso(t) # {} => t \in emitidos
  BY DEF EnUso, IInv, Emitido
<1>5. TypeOKRestablecer'
  BY <1>1, <1>2, <1>3, <1>4 DEF IInv, TypeOKRestablecer
<1>6. SolicitudesCoherentes' /\ Emitido'
  BY <1>1, <1>2 DEF IInv, SolicitudesCoherentes, Emitido
<1>7. \A t \in Tokens : EnUso(t)' = {}
  BY <1>2 DEF EnUso
<1>8. CambiosCoherentes'
  <2> SUFFICES ASSUME NEW t \in Tokens \ dudosos', usos[t] # 0 PROVE Gastado(t)
    BY <1>1, <1>7 DEF CambiosCoherentes, Gastado
  <2>1. t \notin dudosos /\ EnUso(t) = {}
    BY <1>3
  <2>2. QED
    BY <2>1 DEF IInv, CambiosCoherentes
<1>9. EnlaceConfirmadoGuardado' /\ RevocadosInservibles' /\ UnSoloUso'
  BY <1>1 DEF IInv, EnlaceConfirmadoGuardado, RevocadosInservibles, UnSoloUso
<1>10. QED
  BY <1>5, <1>6, <1>8, <1>9 DEF IInv

LEMMA PasoIInv == IInv /\ [NextRestablecer]_varsRestablecer => IInv'
<1> SUFFICES ASSUME IInv, [NextRestablecer]_varsRestablecer PROVE IInv'
  OBVIOUS
<1>1. ASSUME NEW s \in Solicitudes,
             \/ CrearToken(s) \/ SendPasswordResetEmail(s)
             \/ InvalidarPrevios(s) \/ Limpiar(s)
      PROVE  IInv'
  BY <1>1, CrearTokenIInv, SendPasswordResetEmailIInv, InvalidarPreviosIInv, LimpiarIInv
<1>2. ASSUME NEW c \in Cambios, BuscarToken(c) \/ GuardarClave(c) \/ Marcar(c)
      PROVE  IInv'
  BY <1>2, BuscarTokenIInv, CambiarClaveIInv, MarcarIInv
<1>3. ASSUME NEW t \in Tokens, Vencer(t) PROVE IInv'
  BY <1>3, VencerIInv
<1>4. CASE Reiniciar
  BY <1>4, ReiniciarIInv
<1>5. CASE UNCHANGED varsRestablecer
  BY <1>5 DEF varsRestablecer, IInv, TypeOKRestablecer, SolicitudesCoherentes, Emitido,
              CambiosCoherentes,
              EnUso, Gastado, EnlaceConfirmadoGuardado, RevocadosInservibles, UnSoloUso
<1>6. QED
  BY <1>1, <1>2, <1>3, <1>4, <1>5 DEF NextRestablecer

-----------------------------------------------------------------------------
(* The tokens of a password reset: theorems *)

\* The inductive invariant holds of every reachable state.
THEOREM InvarianteTokens == SpecRestablecer => []IInv
BY InicioIInv, PasoIInv, PTL DEF SpecRestablecer

\* The types, whatever the number of requests and of tokens.
THEOREM TiposRestablecer == SpecRestablecer => []TypeOKRestablecer
<1>1. IInv => TypeOKRestablecer
  BY DEF IInv
<1>2. QED
  BY <1>1, InvarianteTokens, PTL

\* The link of the last request of an address that ended well stays until it expires,
\* whatever other requests and resets do or fail to do.
THEOREM EnlacesGuardados == SpecRestablecer => []EnlaceConfirmadoGuardado
<1>1. IInv => EnlaceConfirmadoGuardado
  BY DEF IInv
<1>2. QED
  BY <1>1, InvarianteTokens, PTL

\* A link never works again once a later request for the address it was issued for,
\* as typed, ended well.
THEOREM EnlacesRevocados == SpecRestablecer => []RevocadosInservibles
<1>1. IInv => RevocadosInservibles
  BY DEF IInv
<1>2. QED
  BY <1>1, InvarianteTokens, PTL

\* A link changes the password at most once, unless two resets with it overlapped
\* or one of them stopped before its mark.
THEOREM UsoUnico == SpecRestablecer => []UnSoloUso
<1>1. IInv => UnSoloUso
  BY DEF IInv
<1>2. QED
  BY <1>1, InvarianteTokens, PTL
=============================================================================
