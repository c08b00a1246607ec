--------------------------- MODULE CatalogoProofs ---------------------------
(***************************************************************************)
(* Proofs about the catalogue, for any number of tenants, categories,      *)
(* items and requests, however they overlap.                               *)
(***************************************************************************)
EXTENDS Catalogo, TLAPS

-----------------------------------------------------------------------------
(* Types *)

\* What a request holds in each phase.
LEMMA FasesTipo ==
    ASSUME NEW r \in Peticion
    PROVE  /\ r.fase = "guardar" => r.cat \in Categorias /\ r.activo \in BOOLEAN \cup {Nulo}
           /\ r.fase = "comprobar" => r.i \in Items /\ r.cat \in Categorias
           /\ r.fase = "escribir" =>
                r.i \in Items /\ r.cat \in Categorias \cup {Omitido} /\ r.activo \in ActivosDto
           /\ r.fase \in {"contar", "baja", "reactivar", "insertar", "releer"} =>
                r.cat \in Categorias
           /\ r.fase \in {"multi", "multiGuardar", "compensar", "fallida"} =>
                /\ r.codigo \in Codigos /\ r.activo \in BOOLEAN \cup {Nulo}
                /\ r.faltan \in Destinos
                /\ r.creados \in SUBSET Items /\ r.borrar \in SUBSET Items
                /\ r.restos \in SUBSET Items
BY DEF Peticion, Libre

LEMMA ActivoInicialTipo ==
    ASSUME NEW a \in ActivosDto
    PROVE  ActivoInicial(a) \in BOOLEAN \cup {Nulo}
BY CatalogoAssumption DEF ActivoInicial, CatalogoAssumption

LEMMA LibreTipo == Libre \in Peticion /\ Libre.fase = "libre"
BY DEF Libre, Peticion

LEMMA PasoPet ==
    ASSUME TypeOK, NEW p \in Peticiones, NEW f, NEW r \in Peticion, Paso(p, f, r)
    PROVE  /\ pet' \in [Peticiones -> Peticion] /\ pet'[p] = r /\ pet[p].fase = f
           /\ \A o \in Peticiones \ {p} : pet'[o] = pet[o]
BY DEF TypeOK, Paso

LEMMA ObservarTipo ==
    ASSUME TypeOK, Observar
    PROVE  rebasadas' \subseteq Peticiones /\ testigos' \in [Peticiones -> SUBSET Items]
<1>1. rebasadas' \subseteq Peticiones
  BY DEF Observar
<1>2. \A p \in Peticiones :
        (IF Quitando(p)' THEN ActivosEn(pet[p].cat)' \cap (IF Quitando(p) THEN testigos[p] ELSE Items)
                         ELSE {}) \in SUBSET Items
  BY DEF ActivosEn
<1>3. QED
  BY <1>1, <1>2 DEF Observar

\* The part of the types that the actions themselves are about.
TiposDatos ==
    /\ cat \in [Categorias -> BOOLEAN \cup {Nulo}]
    /\ item \in [Items -> Servicio \cup {Nulo, Borrado}]
    /\ pet \in [Peticiones -> Peticion]

LEMMA InicioTipos == Init => TypeOK
<1> SUFFICES ASSUME Init PROVE TypeOK
  OBVIOUS
<1>1. pet \in [Peticiones -> Peticion] /\ testigos \in [Peticiones -> SUBSET Items]
  BY LibreTipo DEF Init
<1>2. QED
  BY <1>1 DEF Init, TypeOK

\* The tenants that a multi-tenant creation has still to serve.
LEMMA DestinosTipo ==
    ASSUME NEW d \in Destinos
    PROVE  /\ Head(d) \in Tenants
           /\ Len(d) # 1 => Tail(d) \in Destinos
<1>1. CASE \E t \in Tenants : d = <<t>>
  BY <1>1
<1>2. CASE d \in Tenants \X Tenants
  <2>1. PICK t \in Tenants, u \in Tenants : d = <<t, u>>
    BY <1>2
  <2>2. Head(d) = t /\ Tail(d) = <<u>>
    BY <2>1
  <2>3. QED
    BY <2>2 DEF Destinos
<1>3. QED
  BY <1>1, <1>2 DEF Destinos

-----------------------------------------------------------------------------
(* The inductive invariant *)

EnMulti(r) == r.fase \in {"multi", "multiGuardar", "compensar", "fallida"}

\* What a multi-tenant creation saved was stored then; once it compensates, each of
\* those items is still to be deleted, is deleted, or is one whose deletion failed.
Seguida(p) ==
    LET r == pet[p] IN
    /\ EnMulti(r) => \A i \in r.creados : item[i] # Nulo
    /\ r.fase \in {"compensar", "fallida"} =>
         \A i \in r.creados : i \in r.borrar \cup r.restos \/ item[i] = Borrado
    /\ r.fase = "fallida" => r.borrar = {}

\* A removal that is about to deactivate its category has overlooked nothing.
SinTestigos == \A p \in Peticiones : pet[p].fase = "baja" => testigos[p] = {}

IInv == TypeOK /\ SinTestigos /\ \A p \in Peticiones : Seguida(p)

\* No item is forgotten, and one that a compensation deleted never comes back.
Evoluciona ==
    \A i \in Items :
        /\ item[i] # Nulo => item'[i] # Nulo
        /\ item[i] = Borrado => item'[i] = Borrado

LEMMA ValoresDistintos ==
    Nulo # Borrado /\ Nulo \notin Servicio /\ Borrado \notin Servicio
BY CatalogoAssumption DEF CatalogoAssumption, Servicio, Categorias

\* A step of p to r, whatever it writes, keeps what is known of the others.
LEMMA PasoSeguida ==
    ASSUME IInv, NEW p \in Peticiones, NEW f, NEW n \in Peticion, Paso(p, f, n),
           Evoluciona, Seguida(p)'
    PROVE  \A o \in Peticiones : Seguida(o)'
<1>1. \A o \in Peticiones \ {p} : pet'[o] = pet[o] /\ pet[o] \in Peticion
  BY PasoPet DEF IInv, TypeOK
<1>2. ASSUME NEW o \in Peticiones \ {p} PROVE Seguida(o)'
  <2>1. EnMulti(pet[o]) => pet[o].creados \in SUBSET Items
    BY <1>1, FasesTipo DEF EnMulti
  <2> DEFINE s == pet[o]
  <2>2. Seguida(o) /\ pet'[o] = s
    BY <1>1 DEF IInv
  <2>3. EnMulti(s) => \A i \in s.creados :
          /\ item'[i] # Nulo
          /\ item[i] = Borrado => item'[i] = Borrado
    BY <2>1, <2>2 DEF Seguida, Evoluciona
  <2>4. /\ s.fase \in {"compensar", "fallida"} =>
             \A i \in s.creados : i \in s.borrar \cup s.restos \/ item'[i] = Borrado
        /\ s.fase = "fallida" => s.borrar = {}
    BY <2>2, <2>3 DEF Seguida, EnMulti
  <2> HIDE DEF s
  <2>5. QED
    BY <2>2, <2>3, <2>4 DEF Seguida, EnMulti
<1>3. QED
  BY <1>2

\* A step of p that neither is nor becomes part of a multi-tenant creation.
LEMMA PasoAjeno ==
    ASSUME IInv, NEW p \in Peticiones, NEW f, NEW r \in Peticion, Paso(p, f, r),
           ~EnMulti(r),
           cat' \in [Categorias -> BOOLEAN \cup {Nulo}],
           item' \in [Items -> Servicio \cup {Nulo, Borrado}], Evoluciona
    PROVE  TiposDatos' /\ \A o \in Peticiones : Seguida(o)'
<1>1. pet' \in [Peticiones -> Peticion] /\ pet'[p] = r
  BY PasoPet DEF IInv
<1>2. Seguida(p)'
  BY <1>1 DEF Seguida, EnMulti
<1>3. QED
  BY <1>1, <1>2, PasoSeguida DEF TiposDatos

LEMMA SinEscribir ==
    ASSUME IInv, UNCHANGED <<cat, item>>
    PROVE  /\ cat' \in [Categorias -> BOOLEAN \cup {Nulo}]
           /\ item' \in [Items -> Servicio \cup {Nulo, Borrado}] /\ Evoluciona
BY DEF IInv, TypeOK, Evoluciona

-----------------------------------------------------------------------------
(* One lemma per group of actions *)

\* create, update, toggleActivo: the steps that only read.
LEMMA LecturasItem ==
    ASSUME IInv, NEW p \in Peticiones,
           Create(p) \/ Update(p) \/ ToggleActivo(p) \/ ComprobarCategoria(p)
    PROVE  TiposDatos' /\ (\A o \in Peticiones : Seguida(o)') /\ UNCHANGED <<cat, item>>
<1>1. BOOLEAN \cup {Omitido} \subseteq ActivosDto /\ ActivosDto \subseteq BOOLEAN \cup {Nulo, Omitido}
  BY CatalogoAssumption DEF CatalogoAssumption
<1>2. UNCHANGED <<cat, item>>
  BY DEF Create, Update, ToggleActivo, ComprobarCategoria
<1>3. CASE Create(p)
  <2>1. PICK c \in Categorias, a \in ActivosDto :
          Paso(p, "libre", [fase |-> "guardar", cat |-> c, activo |-> ActivoInicial(a)])
    BY <1>3 DEF Create
  <2> DEFINE r == [fase |-> "guardar", cat |-> c, activo |-> ActivoInicial(a)]
  <2>2. r \in Peticion /\ ~EnMulti(r)
    BY ActivoInicialTipo DEF Peticion, EnMulti
  <2> HIDE DEF r
  <2>3. QED
    BY <1>2, <2>1, <2>2, PasoAjeno, SinEscribir DEF r
<1>4. CASE Update(p)
  <2>1. PICK i \in Items, c \in Categorias \cup {Omitido}, a \in ActivosDto :
          /\ Guardado(item[i])
          /\ Paso(p, "libre",
                  IF c = Omitido /\ ExigeCategoria(i, c, a)
                  THEN [fase |-> "comprobar", i |-> i, cat |-> item[i].cat]
                  ELSE [fase |-> "escribir", i |-> i, cat |-> c, activo |-> a])
    BY <1>4 DEF Update
  <2> DEFINE r == [fase |-> "comprobar", i |-> i, cat |-> item[i].cat]
             s == [fase |-> "escribir", i |-> i, cat |-> c, activo |-> a]
  <2>2. r \in Peticion /\ ~EnMulti(r) /\ s \in Peticion /\ ~EnMulti(s)
    BY <2>1 DEF Guardado, Servicio, Peticion, EnMulti
  <2>3. Paso(p, "libre", r) \/ Paso(p, "libre", s)
    BY <2>1
  <2> HIDE DEF r, s
  <2>4. QED
    BY <1>2, <2>2, <2>3, PasoAjeno, SinEscribir
<1>5. CASE ToggleActivo(p)
  <2>1. PICK i \in Items :
          /\ Guardado(item[i])
          /\ Paso(p, "libre",
                  IF Activo(item[i])
                  THEN [fase |-> "escribir", i |-> i, cat |-> Omitido, activo |-> FALSE]
                  ELSE [fase |-> "comprobar", i |-> i, cat |-> item[i].cat])
    BY <1>5 DEF ToggleActivo
  <2> DEFINE r == [fase |-> "comprobar", i |-> i, cat |-> item[i].cat]
             s == [fase |-> "escribir", i |-> i, cat |-> Omitido, activo |-> FALSE]
  <2>2. r \in Peticion /\ ~EnMulti(r) /\ s \in Peticion /\ ~EnMulti(s)
    BY <2>1, CatalogoAssumption
       DEF Guardado, Servicio, Peticion, EnMulti, CatalogoAssumption
  <2>3. Paso(p, "libre", r) \/ Paso(p, "libre", s)
    BY <2>1
  <2> HIDE DEF r, s
  <2>4. QED
    BY <1>2, <2>2, <2>3, PasoAjeno, SinEscribir
<1>6. CASE ComprobarCategoria(p)
  <2> DEFINE s == [fase |-> "escribir", i |-> pet[p].i, cat |-> Omitido, activo |-> TRUE]
  <2>1. pet[p].i \in Items
    BY <1>6, FasesTipo DEF ComprobarCategoria, Paso, IInv, TypeOK
  <2>2. s \in Peticion /\ ~EnMulti(s) /\ ~EnMulti(Libre)
    BY <2>1, LibreTipo, CatalogoAssumption DEF Peticion, EnMulti, CatalogoAssumption
  <2>3. Paso(p, "comprobar", Libre) \/ Paso(p, "comprobar", s)
    BY <1>6 DEF ComprobarCategoria
  <2> HIDE DEF s
  <2>4. QED
    BY <1>2, <2>2, <2>3, LibreTipo, PasoAjeno, SinEscribir
<1>7. QED
  BY <1>2, <1>3, <1>4, <1>5, <1>6

\* Storing an item where there was none, and changing one that is stored.
LEMMA EscribirEn ==
    ASSUME IInv, NEW i \in Items, NEW d \in Servicio \cup {Borrado},
           item[i] # Borrado \/ d = Borrado, item' = [item EXCEPT ![i] = d]
    PROVE  item' \in [Items -> Servicio \cup {Nulo, Borrado}] /\ Evoluciona
BY ValoresDistintos DEF IInv, TypeOK, Evoluciona

LEMMA AplicadoTipo ==
    ASSUME NEW d \in Servicio, NEW c \in Categorias \cup {Omitido}, NEW a \in ActivosDto
    PROVE  Aplicado(d, c, a) \in Servicio
<1>1. ActivosDto \subseteq BOOLEAN \cup {Nulo, Omitido}
  BY CatalogoAssumption DEF CatalogoAssumption
<1>2. d.cat \in Categorias /\ d.activo \in BOOLEAN \cup {Nulo}
  BY DEF Servicio
<1>3. QED
  BY <1>1, <1>2 DEF Aplicado, Servicio

LEMMA LibreAjena == ~EnMulti(Libre)
BY LibreTipo DEF EnMulti

LEMMA EscriturasItem ==
    ASSUME IInv, NEW p \in Peticiones, GuardarItem(p) \/ EscribirItem(p)
    PROVE  TiposDatos' /\ (\A o \in Peticiones : Seguida(o)') /\ UNCHANGED cat
<1> DEFINE r == pet[p]
<1>1. r \in Peticion /\ UNCHANGED cat /\ cat' \in [Categorias -> BOOLEAN \cup {Nulo}]
  BY DEF IInv, TypeOK, GuardarItem, EscribirItem
<1>2. CASE UNCHANGED item
  BY <1>1, <1>2, LibreTipo, LibreAjena, PasoAjeno, SinEscribir
     DEF GuardarItem, EscribirItem
<1>3. CASE GuardarItem(p) /\ ~UNCHANGED item
  <2>1. PICK i \in Items : /\ item[i] = Nulo
                           /\ item' = [item EXCEPT ![i] = [cat |-> r.cat, activo |-> r.activo]]
    BY <1>3 DEF GuardarItem
  <2>2. [cat |-> r.cat, activo |-> r.activo] \in Servicio
    BY <1>1, <1>3, FasesTipo DEF GuardarItem, Paso, Servicio
  <2>3. item' \in [Items -> Servicio \cup {Nulo, Borrado}] /\ Evoluciona
    BY <2>1, <2>2, EscribirEn, ValoresDistintos
  <2>4. QED
    BY <1>1, <1>3, <2>3, LibreTipo, LibreAjena, PasoAjeno DEF GuardarItem
<1>4. CASE EscribirItem(p) /\ ~UNCHANGED item
  <2>1. /\ item[r.i] \in Servicio
        /\ item' = [item EXCEPT ![r.i] = Aplicado(item[r.i], r.cat, r.activo)]
    BY <1>4 DEF EscribirItem, Guardado
  <2>2. r.i \in Items /\ Aplicado(item[r.i], r.cat, r.activo) \in Servicio
    BY <1>1, <1>4, <2>1, FasesTipo, AplicadoTipo DEF EscribirItem, Paso
  <2>3. item' \in [Items -> Servicio \cup {Nulo, Borrado}] /\ Evoluciona
    BY <2>1, <2>2, EscribirEn, ValoresDistintos
  <2>4. QED
    BY <1>1, <1>4, <2>3, LibreTipo, LibreAjena, PasoAjeno DEF EscribirItem
<1>5. QED
  BY <1>2, <1>3, <1>4

LEMMA BajaItem ==
    ASSUME IInv, NEW i \in Items, RemoveItem(i)
    PROVE  /\ TiposDatos' /\ (\A o \in Peticiones : Seguida(o)')
           /\ UNCHANGED <<cat, pet>>
<1> DEFINE d == [item[i] EXCEPT !.activo = FALSE]
<1>1. item[i] \in Servicio /\ item' = [item EXCEPT ![i] = d] /\ UNCHANGED <<cat, pet>>
  BY DEF RemoveItem, Guardado
<1>2. d \in Servicio
  BY <1>1 DEF Servicio
<1> HIDE DEF d
<1>3. item' \in [Items -> Servicio \cup {Nulo, Borrado}] /\ Evoluciona
  BY <1>1, <1>2, EscribirEn, ValoresDistintos
<1>4. TiposDatos'
  BY <1>1, <1>3 DEF IInv, TypeOK, TiposDatos
<1>5. ASSUME NEW o \in Peticiones PROVE Seguida(o)'
  <2>1. Paso(o, pet[o].fase, pet[o]) /\ pet[o] \in Peticion
    BY <1>1 DEF Paso, IInv, TypeOK
  <2>2. EnMulti(pet[o]) => pet[o].creados \in SUBSET Items
    BY <2>1, FasesTipo DEF EnMulti
  <2>3. Seguida(o)
    BY DEF IInv
  <2>4. QED
    BY <1>1, <1>3, <2>2, <2>3 DEF Seguida, EnMulti, Evoluciona
<1>6. QED
  BY <1>1, <1>4, <1>5

\* The requests on categories.
LEMMA PasosCategoria ==
    ASSUME IInv, NEW p \in Peticiones,
           \/ CreateCategoria(p) \/ InsertarCategoria(p) \/ ReleerCategoria(p)
           \/ Reactivar(p) \/ RemoveCategoria(p) \/ ContarActivos(p) \/ DarBaja(p)
    PROVE  TiposDatos' /\ (\A o \in Peticiones : Seguida(o)') /\ UNCHANGED item
<1> DEFINE n(f, c) == [fase |-> f, cat |-> c]
           F == {"contar", "baja", "reactivar", "insertar", "releer"}
<1>1. UNCHANGED item /\ item' \in [Items -> Servicio \cup {Nulo, Borrado}] /\ Evoluciona
  BY DEF IInv, TypeOK, Evoluciona, CreateCategoria, InsertarCategoria, ReleerCategoria,
         Reactivar, RemoveCategoria, ContarActivos, DarBaja
<1>2. \A f \in F, c \in Categorias : n(f, c) \in Peticion /\ ~EnMulti(n(f, c))
  BY DEF Peticion, EnMulti
<1>3. pet[p].fase \in F => pet[p].cat \in Categorias
  BY FasesTipo DEF IInv, TypeOK
<1>4. cat' \in [Categorias -> BOOLEAN \cup {Nulo}]
  BY DEF IInv, TypeOK, CreateCategoria, InsertarCategoria, ReleerCategoria, Reactivar,
         RemoveCategoria, ContarActivos, DarBaja
<1>5. \E f : \/ Paso(p, f, Libre)
            \/ \E g \in F, c \in Categorias : Paso(p, f, n(g, c))
  <2>1. CASE CreateCategoria(p) \/ RemoveCategoria(p)
    BY <2>1 DEF CreateCategoria, RemoveCategoria
  <2>2. CASE InsertarCategoria(p) \/ ReleerCategoria(p)
    BY <2>2, <1>3 DEF InsertarCategoria, ReleerCategoria, Paso
  <2>3. CASE ContarActivos(p)
    BY <2>3, <1>3 DEF ContarActivos, Paso
  <2>4. CASE Reactivar(p) \/ DarBaja(p)
    BY <2>4 DEF Reactivar, DarBaja
  <2>5. QED
    BY <2>1, <2>2, <2>3, <2>4
<1> HIDE DEF n, F
<1>6. QED
  BY <1>1, <1>2, <1>4, <1>5, LibreTipo, LibreAjena, PasoAjeno

-----------------------------------------------------------------------------
(* createForTenants *)

Multi(f, k, a, fa, cr, bo, re) ==
    [fase |-> f, codigo |-> k, activo |-> a, faltan |-> fa, creados |-> cr, borrar |-> bo,
     restos |-> re]

LEMMA MultiTipo ==
    ASSUME NEW f \in {"multi", "multiGuardar", "compensar", "fallida"}, NEW k \in Codigos,
           NEW a \in BOOLEAN \cup {Nulo}, NEW fa \in Destinos, NEW cr \in SUBSET Items,
           NEW bo \in SUBSET Items, NEW re \in SUBSET Items
    PROVE  /\ Multi(f, k, a, fa, cr, bo, re) \in Peticion
           /\ EnMulti(Multi(f, k, a, fa, cr, bo, re))
BY DEF Multi, Peticion, EnMulti

LEMMA MultiSigue ==
    ASSUME NEW r \in Peticion, EnMulti(r)
    PROVE  \A x, y : [r EXCEPT !.fase = "multi", !.faltan = x, !.creados = y] =
                      Multi("multi", r.codigo, r.activo, x, y, r.borrar, r.restos)
<1> TAKE t, c
<1>1. r \in [fase: {"multi", "multiGuardar", "compensar", "fallida"}, codigo: Codigos,
             activo: BOOLEAN \cup {Nulo}, faltan: Destinos, creados: SUBSET Items,
             borrar: SUBSET Items, restos: SUBSET Items]
  BY DEF Peticion, EnMulti, Libre
<1> DEFINE q == [r EXCEPT !.fase = "multi"]
           w == [q EXCEPT !.faltan = t]
<1>2. q = Multi("multi", r.codigo, r.activo, r.faltan, r.creados, r.borrar, r.restos)
  BY <1>1 DEF Multi
<1>3. w = Multi("multi", r.codigo, r.activo, t, r.creados, r.borrar, r.restos)
  <2> HIDE DEF q
  <2>1. QED
    BY <1>2 DEF Multi
<1>4. [r EXCEPT !.fase = "multi", !.faltan = t, !.creados = c] = [w EXCEPT !.creados = c]
  BY <1>1, Zenon
<1> HIDE DEF q, w
<1>5. QED
  BY <1>3, <1>4 DEF Multi

LEMMA MultiIgual ==
    ASSUME NEW r \in Peticion, EnMulti(r)
    PROVE  /\ \A f : [r EXCEPT !.fase = f] =
                      Multi(f, r.codigo, r.activo, r.faltan, r.creados, r.borrar, r.restos)
           /\ Deshacer(r) =
                Multi("compensar", r.codigo, r.activo, r.faltan, r.creados, r.creados, r.restos)
           /\ \A i : [r EXCEPT !.fase = "multi", !.faltan = Tail(@), !.creados = @ \cup {i}] =
                 Multi("multi", r.codigo, r.activo, Tail(r.faltan), r.creados \cup {i}, r.borrar,
                       r.restos)
           /\ \A i : [r EXCEPT !.borrar = @ \ {i}] =
                 Multi(r.fase, r.codigo, r.activo, r.faltan, r.creados, r.borrar \ {i}, r.restos)
           /\ \A i : [r EXCEPT !.borrar = @ \ {i}, !.restos = @ \cup {i}] =
                 Multi(r.fase, r.codigo, r.activo, r.faltan, r.creados, r.borrar \ {i},
                       r.restos \cup {i})
<1>1. r \in [fase: {"multi", "multiGuardar", "compensar", "fallida"}, codigo: Codigos,
             activo: BOOLEAN \cup {Nulo}, faltan: Destinos, creados: SUBSET Items,
             borrar: SUBSET Items, restos: SUBSET Items]
  BY DEF Peticion, EnMulti, Libre
<1>2. r = Multi(r.fase, r.codigo, r.activo, r.faltan, r.creados, r.borrar, r.restos)
  BY <1>1 DEF Multi
<1>3. \A f : [r EXCEPT !.fase = f] =
             Multi(f, r.codigo, r.activo, r.faltan, r.creados, r.borrar, r.restos)
  BY <1>1 DEF Multi
<1>4. Deshacer(r) = Multi("compensar", r.codigo, r.activo, r.faltan, r.creados, r.creados, r.restos)
  <2> DEFINE q == [r EXCEPT !.fase = "compensar"]
  <2>1. Deshacer(r) = [q EXCEPT !.borrar = r.creados]
    BY <1>1, Zenon DEF Deshacer, Borrables
  <2>2. q = Multi("compensar", r.codigo, r.activo, r.faltan, r.creados, r.borrar, r.restos)
    BY <1>3
  <2> HIDE DEF q
  <2>3. QED
    BY <2>1, <2>2 DEF Multi
<1>5. \A i : [r EXCEPT !.fase = "multi", !.faltan = Tail(@), !.creados = @ \cup {i}] =
             Multi("multi", r.codigo, r.activo, Tail(r.faltan), r.creados \cup {i}, r.borrar,
                   r.restos)
  <2> TAKE i
  <2> DEFINE t == Tail(r.faltan)
             c == r.creados \cup {i}
  <2>1. [r EXCEPT !.fase = "multi", !.faltan = t, !.creados = c] =
          Multi("multi", r.codigo, r.activo, t, c, r.borrar, r.restos)
    <3> HIDE DEF t, c
    <3>1. \A x, y : [r EXCEPT !.fase = "multi", !.faltan = x, !.creados = y] =
                      Multi("multi", r.codigo, r.activo, x, y, r.borrar, r.restos)
      BY MultiSigue, Zenon
    <3>2. QED
      BY <3>1, Zenon
  <2>2. [r EXCEPT !.fase = "multi", !.faltan = Tail(@), !.creados = @ \cup {i}] =
          [r EXCEPT !.fase = "multi", !.faltan = Tail(r.faltan),
                    !.creados = r.creados \cup {i}]
    OBVIOUS
  <2> HIDE DEF Multi
  <2>3. QED
    BY <2>1, <2>2, Zenon
<1>6. \A i : [r EXCEPT !.borrar = @ \ {i}] =
             Multi(r.fase, r.codigo, r.activo, r.faltan, r.creados, r.borrar \ {i}, r.restos)
  BY <1>1 DEF Multi
<1>7. \A i : [r EXCEPT !.borrar = @ \ {i}, !.restos = @ \cup {i}] =
             Multi(r.fase, r.codigo, r.activo, r.faltan, r.creados, r.borrar \ {i},
                   r.restos \cup {i})
  <2> TAKE i
  <2> DEFINE q == [r EXCEPT !.borrar = @ \ {i}]
  <2>1. q = Multi(r.fase, r.codigo, r.activo, r.faltan, r.creados, r.borrar \ {i}, r.restos)
    BY <1>6
  <2>2. [r EXCEPT !.borrar = @ \ {i}, !.restos = @ \cup {i}] =
          [q EXCEPT !.restos = r.restos \cup {i}]
    BY <1>1, Zenon
  <2> HIDE DEF q
  <2>3. QED
    BY <2>1, <2>2 DEF Multi
<1>8. QED
  BY <1>3, <1>4, <1>5, <1>6, <1>7

\* A step of p inside a multi-tenant creation.
LEMMA PasoMulti ==
    ASSUME IInv, NEW p \in Peticiones, NEW f, NEW n \in Peticion, Paso(p, f, n),
           EnMulti(n), \A i \in n.creados : item'[i] # Nulo,
           n.fase \in {"compensar", "fallida"} =>
             \A i \in n.creados : i \in n.borrar \cup n.restos \/ item'[i] = Borrado,
           n.fase = "fallida" => n.borrar = {},
           UNCHANGED cat, item' \in [Items -> Servicio \cup {Nulo, Borrado}], Evoluciona
    PROVE  TiposDatos' /\ (\A o \in Peticiones : Seguida(o)') /\ pet'[p].fase # "baja"
<1>1. pet' \in [Peticiones -> Peticion] /\ pet'[p] = n
  BY PasoPet DEF IInv
<1>2. Seguida(p)'
  BY <1>1 DEF Seguida, EnMulti
<1>3. TiposDatos'
  BY <1>1 DEF TiposDatos, IInv, TypeOK
<1>4. QED
  BY <1>1, <1>2, <1>3, PasoSeguida DEF EnMulti

LEMMA InicioMulti ==
    ASSUME IInv, NEW p \in Peticiones, CreateForTenants(p)
    PROVE  TiposDatos' /\ (\A o \in Peticiones : Seguida(o)') /\ UNCHANGED <<cat, item>>
<1>1. PICK k \in Codigos, d \in Destinos, a \in BOOLEAN \cup {Nulo} :
        Paso(p, "libre", Multi("multi", k, a, d, {}, {}, {}))
  BY ActivoInicialTipo DEF CreateForTenants, Multi
<1> DEFINE n == Multi("multi", k, a, d, {}, {}, {})
<1>2. n \in Peticion /\ EnMulti(n) /\ n.creados = {} /\ n.fase = "multi"
  BY MultiTipo DEF Multi
<1>3. UNCHANGED <<cat, item>>
  BY DEF CreateForTenants
<1> HIDE DEF n
<1>4. QED
  BY <1>1, <1>2, <1>3, SinEscribir, PasoMulti DEF n

LEMMA LeerMulti ==
    ASSUME IInv, NEW p \in Peticiones, ResolverDestino(p)
    PROVE  /\ TiposDatos' /\ (\A o \in Peticiones : Seguida(o)') /\ pet'[p].fase # "baja"
           /\ UNCHANGED <<cat, item>>
<1> DEFINE r == pet[p]
           n == Multi("multiGuardar", r.codigo, r.activo, r.faltan, r.creados, r.borrar, r.restos)
           m == Multi("compensar", r.codigo, r.activo, r.faltan, r.creados, r.creados, r.restos)
<1>1. r \in Peticion /\ EnMulti(r) /\ Seguida(p)
  BY DEF IInv, TypeOK, ResolverDestino, Paso, EnMulti
<1>2. Paso(p, "multi", n) \/ Paso(p, "multi", m)
  BY <1>1, MultiIgual DEF ResolverDestino
<1>3. /\ n \in Peticion /\ EnMulti(n) /\ n.fase = "multiGuardar" /\ n.creados = r.creados
      /\ m \in Peticion /\ EnMulti(m) /\ m.fase = "compensar" /\ m.creados = r.creados
      /\ m.borrar = r.creados
  BY <1>1, FasesTipo, MultiTipo DEF EnMulti, Multi
<1>4. UNCHANGED <<cat, item>> /\ \A i \in r.creados : item'[i] # Nulo
  BY <1>1 DEF ResolverDestino, Seguida
<1> HIDE DEF n, m
<1>5. CASE Paso(p, "multi", n)
  BY <1>3, <1>4, <1>5, SinEscribir, PasoMulti
<1>6. CASE Paso(p, "multi", m)
  BY <1>3, <1>4, <1>6, SinEscribir, PasoMulti
<1>7. QED
  BY <1>2, <1>4, <1>5, <1>6

LEMMA GuardarMulti ==
    ASSUME IInv, NEW p \in Peticiones, GuardarDestino(p)
    PROVE  /\ TiposDatos' /\ (\A o \in Peticiones : Seguida(o)') /\ pet'[p].fase # "baja"
           /\ UNCHANGED cat
<1> DEFINE r == pet[p]
           m == Multi("compensar", r.codigo, r.activo, r.faltan, r.creados, r.creados, r.restos)
<1>1. r \in Peticion /\ EnMulti(r) /\ Seguida(p) /\ UNCHANGED cat
  BY DEF IInv, TypeOK, GuardarDestino, Paso, EnMulti
<1>2. /\ r.codigo \in Codigos /\ r.activo \in BOOLEAN \cup {Nulo}
      /\ r.faltan \in Destinos
      /\ r.creados \in SUBSET Items /\ r.borrar \in SUBSET Items
      /\ r.restos \in SUBSET Items /\ \A i \in r.creados : item[i] # Nulo
  BY <1>1, FasesTipo DEF EnMulti, Seguida
<1>3. CASE Paso(p, "multiGuardar", Deshacer(r)) /\ UNCHANGED item
  <2>1. /\ m \in Peticion /\ EnMulti(m) /\ m.fase = "compensar" /\ m.creados = r.creados
        /\ m.borrar = r.creados
    BY <1>2, MultiTipo DEF Multi
  <2>2. Paso(p, "multiGuardar", m)
    BY <1>1, <1>3, MultiIgual
  <2> HIDE DEF m
  <2>3. QED
    BY <1>1, <1>2, <1>3, <2>1, <2>2, SinEscribir, PasoMulti
<1>4. ASSUME NEW i \in Items, item[i] = Nulo,
             Paso(p, "multiGuardar",
                  IF Len(r.faltan) = 1 THEN Libre
                  ELSE [r EXCEPT !.fase = "multi", !.faltan = Tail(@), !.creados = @ \cup {i}]),
             item' = [item EXCEPT ![i] = [cat |-> <<Head(r.faltan), r.codigo>>,
                                          activo |-> r.activo]]
      PROVE  TiposDatos' /\ (\A o \in Peticiones : Seguida(o)') /\ pet'[p].fase # "baja"
  <2> DEFINE n == Multi("multi", r.codigo, r.activo, Tail(r.faltan), r.creados \cup {i},
                        r.borrar, r.restos)
             d == [cat |-> <<Head(r.faltan), r.codigo>>, activo |-> r.activo]
  <2>1. r.faltan \in Destinos
    BY <1>2
  <2>2. d \in Servicio
    BY <1>2, <2>1, DestinosTipo DEF Servicio, Categorias
  <2>3. /\ item' \in [Items -> Servicio \cup {Nulo, Borrado}] /\ Evoluciona
        /\ item'[i] # Nulo
    BY <1>4, <2>2, EscribirEn, ValoresDistintos DEF IInv, TypeOK
  <2>4. CASE Len(r.faltan) = 1
    <3>1. Paso(p, "multiGuardar", Libre)
      BY <1>4, <2>4
    <3>2. pet'[p].fase # "baja"
      BY <3>1, LibreTipo, PasoPet DEF IInv
    <3>3. QED
      BY <1>1, <2>3, <3>1, <3>2, LibreTipo, LibreAjena, PasoAjeno DEF IInv, TypeOK
  <2>5. CASE Len(r.faltan) # 1
    <3>1. n \in Peticion /\ EnMulti(n) /\ n.fase = "multi" /\ n.creados = r.creados \cup {i}
      BY <1>2, <2>1, <2>5, DestinosTipo, MultiTipo DEF Multi
    <3>2. Paso(p, "multiGuardar", n)
      BY <1>1, <1>4, <2>5, MultiIgual
    <3>3. \A j \in r.creados \cup {i} : item'[j] # Nulo
      BY <1>2, <2>3 DEF Evoluciona
    <3> HIDE DEF n
    <3>4. QED
      BY <1>1, <2>3, <3>1, <3>2, <3>3, PasoMulti
  <2>6. QED
    BY <2>4, <2>5
<1>5. QED
  BY <1>1, <1>3, <1>4 DEF GuardarDestino

LEMMA CompensarMulti ==
    ASSUME IInv, NEW p \in Peticiones, Compensar(p)
    PROVE  /\ TiposDatos' /\ (\A o \in Peticiones : Seguida(o)') /\ pet'[p].fase # "baja"
           /\ UNCHANGED cat
<1> DEFINE r == pet[p]
           fin == Multi("fallida", r.codigo, r.activo, r.faltan, r.creados, r.borrar, r.restos)
           n(i) == Multi("compensar", r.codigo, r.activo, r.faltan, r.creados,
                         r.borrar \ {i}, r.restos)
           m(i) == Multi("compensar", r.codigo, r.activo, r.faltan, r.creados,
                         r.borrar \ {i}, r.restos \cup {i})
<1>1. /\ r \in Peticion /\ EnMulti(r) /\ r.fase = "compensar" /\ Seguida(p)
      /\ UNCHANGED cat
  BY DEF IInv, TypeOK, Compensar, Paso, EnMulti
<1>2. /\ r.codigo \in Codigos /\ r.activo \in BOOLEAN \cup {Nulo}
      /\ r.faltan \in Destinos /\ r.creados \in SUBSET Items
      /\ r.borrar \in SUBSET Items /\ r.restos \in SUBSET Items
  BY <1>1, FasesTipo
<1>3. /\ \A i \in r.creados : item[i] # Nulo
      /\ \A i \in r.creados : i \in r.borrar \cup r.restos \/ item[i] = Borrado
  BY <1>1 DEF EnMulti, Seguida
<1>4. CASE /\ Paso(p, "compensar", [r EXCEPT !.fase = "fallida"])
           /\ r.borrar = {} /\ UNCHANGED item
  <2>1. /\ fin \in Peticion /\ EnMulti(fin) /\ fin.fase = "fallida"
        /\ fin.creados = r.creados /\ fin.borrar = r.borrar /\ fin.restos = r.restos
    BY <1>2, MultiTipo DEF Multi
  <2>2. Paso(p, "compensar", fin)
    BY <1>1, <1>4, MultiIgual
  <2> HIDE DEF fin
  <2>3. QED
    BY <1>1, <1>3, <1>4, <2>1, <2>2, SinEscribir, PasoMulti
<1>5. ASSUME NEW i \in r.borrar, Paso(p, "compensar", [r EXCEPT !.borrar = @ \ {i}]),
             item' = [item EXCEPT ![i] = Borrado]
      PROVE  TiposDatos' /\ (\A o \in Peticiones : Seguida(o)') /\ pet'[p].fase # "baja"
  <2>1. /\ n(i) \in Peticion /\ EnMulti(n(i)) /\ n(i).fase = "compensar"
        /\ n(i).creados = r.creados /\ n(i).borrar = r.borrar \ {i}
        /\ n(i).restos = r.restos
    BY <1>2, MultiTipo DEF Multi
  <2>2. Paso(p, "compensar", n(i))
    BY <1>1, <1>5, MultiIgual
  <2>3. /\ item' \in [Items -> Servicio \cup {Nulo, Borrado}] /\ Evoluciona
        /\ item'[i] = Borrado
    BY <1>2, <1>5, EscribirEn DEF IInv, TypeOK
  <2>4. \A j \in r.creados : /\ item'[j] # Nulo
                             /\ j \in (r.borrar \ {i}) \cup r.restos \/ item'[j] = Borrado
    BY <1>2, <1>3, <2>3 DEF Evoluciona
  <2> HIDE DEF n
  <2>5. QED
    BY <1>1, <2>1, <2>2, <2>3, <2>4, PasoMulti
<1>6. ASSUME NEW i \in r.borrar, UNCHANGED item,
             Paso(p, "compensar", [r EXCEPT !.borrar = @ \ {i}, !.restos = @ \cup {i}])
      PROVE  TiposDatos' /\ (\A o \in Peticiones : Seguida(o)') /\ pet'[p].fase # "baja"
  <2>1. /\ m(i) \in Peticion /\ EnMulti(m(i)) /\ m(i).fase = "compensar"
        /\ m(i).creados = r.creados /\ m(i).borrar = r.borrar \ {i}
        /\ m(i).restos = r.restos \cup {i}
    BY <1>2, MultiTipo DEF Multi
  <2>2. Paso(p, "compensar", m(i))
    BY <1>1, <1>6, MultiIgual
  <2>3. \A j \in r.creados : \/ j \in (r.borrar \ {i}) \cup (r.restos \cup {i})
                             \/ item'[j] = Borrado
    BY <1>3, <1>6
  <2> HIDE DEF m
  <2>4. QED
    BY <1>1, <1>3, <1>6, <2>1, <2>2, <2>3, SinEscribir, PasoMulti
<1>7. QED
  BY <1>1, <1>4, <1>5, <1>6 DEF Compensar

LEMMA FalloMulti ==
    ASSUME IInv, NEW p \in Peticiones, ResponderFallo(p)
    PROVE  TiposDatos' /\ (\A o \in Peticiones : Seguida(o)') /\ UNCHANGED <<cat, item>>
BY LibreTipo, LibreAjena, PasoAjeno, SinEscribir DEF ResponderFallo

-----------------------------------------------------------------------------
(* The whole step *)

LEMMA PasoDatos ==
    ASSUME IInv, (\E p \in Peticiones : PasoPeticion(p)) \/ \E i \in Items : RemoveItem(i)
    PROVE  TiposDatos' /\ \A o \in Peticiones : Seguida(o)'
<1>1. ASSUME NEW p \in Peticiones, PasoPeticion(p)
      PROVE  TiposDatos' /\ \A o \in Peticiones : Seguida(o)'
  BY <1>1, LecturasItem, EscriturasItem, PasosCategoria, InicioMulti, LeerMulti,
     GuardarMulti, CompensarMulti, FalloMulti DEF PasoPeticion
<1>2. QED
  BY <1>1, BajaItem

\* A request gets to "baja" only by ContarActivos, which has counted nothing.
LEMMA LlegaABaja ==
    ASSUME IInv, NEW p \in Peticiones, NEW o \in Peticiones, PasoPeticion(p),
           pet'[o].fase = "baja", pet[o].fase # "baja"
    PROVE  /\ pet[o].fase = "contar" /\ pet'[o].cat = pet[o].cat
           /\ ActivosEn(pet[o].cat) = {} /\ UNCHANGED <<cat, item>>
<1>1. \A f, n : Paso(p, f, n) => pet'[p] = n /\ pet[p].fase = f
  BY DEF Paso, IInv, TypeOK
<1>2. \A f, n : Paso(p, f, n) => o = p
  BY DEF Paso, IInv, TypeOK
<1>3. pet[p] \in Peticion
  BY DEF IInv, TypeOK
<1>4. CASE ContarActivos(p)
  <2>1. /\ UNCHANGED <<cat, item>> /\ pet[p].fase = "contar" /\ o = p
        /\ pet'[p] = IF Estorban(pet[p].cat) = {} THEN [fase |-> "baja", cat |-> pet[p].cat]
                                                  ELSE Libre
    BY <1>1, <1>2, <1>4 DEF ContarActivos
  <2>2. QED
    BY <2>1, LibreTipo DEF Estorban
<1>5. CASE Create(p) \/ GuardarItem(p) \/ Update(p) \/ ToggleActivo(p)
           \/ ComprobarCategoria(p) \/ EscribirItem(p)
  <2>1. \E f, n : Paso(p, f, n) /\ n.fase # "baja"
    <3>1. CASE Create(p)
      BY <3>1 DEF Create
    <3>2. CASE GuardarItem(p) \/ EscribirItem(p)
      BY <3>2, LibreTipo DEF GuardarItem, EscribirItem
    <3>3. CASE Update(p)
      <4>1. PICK i \in Items, c \in Categorias \cup {Omitido}, a \in ActivosDto :
              Paso(p, "libre",
                   IF c = Omitido /\ ExigeCategoria(i, c, a)
                   THEN [fase |-> "comprobar", i |-> i, cat |-> item[i].cat]
                   ELSE [fase |-> "escribir", i |-> i, cat |-> c, activo |-> a])
        BY <3>3 DEF Update
      <4>2. QED
        BY <4>1
    <3>4. CASE ToggleActivo(p)
      <4>1. PICK i \in Items :
              Paso(p, "libre",
                   IF Activo(item[i])
                   THEN [fase |-> "escribir", i |-> i, cat |-> Omitido, activo |-> FALSE]
                   ELSE [fase |-> "comprobar", i |-> i, cat |-> item[i].cat])
        BY <3>4 DEF ToggleActivo
      <4>2. QED
        BY <4>1
    <3>5. CASE ComprobarCategoria(p)
      BY <3>5, LibreTipo DEF ComprobarCategoria
    <3>6. QED
      BY <1>5, <3>1, <3>2, <3>3, <3>4, <3>5
  <2>2. QED
    BY <1>1, <1>2, <2>1
<1>6. CASE CreateForTenants(p) \/ ResolverDestino(p) \/ GuardarDestino(p)
           \/ Compensar(p) \/ ResponderFallo(p)
  <2>1. CASE CreateForTenants(p) \/ ResponderFallo(p)
    <3>1. \E f, n : Paso(p, f, n) /\ n.fase # "baja"
      <4>1. CASE CreateForTenants(p)
        BY <4>1 DEF CreateForTenants
      <4>2. CASE ResponderFallo(p)
        BY <4>2, LibreTipo DEF ResponderFallo
      <4>3. QED
        BY <2>1, <4>1, <4>2
    <3>2. QED
      BY <1>1, <1>2, <3>1
  <2>2. CASE ResolverDestino(p) \/ GuardarDestino(p) \/ Compensar(p)
    <3>1. pet'[p].fase # "baja"
      BY <2>2, LeerMulti, GuardarMulti, CompensarMulti
    <3>2. \E f, n : Paso(p, f, n)
      BY <2>2 DEF ResolverDestino, GuardarDestino, Compensar
    <3>3. QED
      BY <1>2, <3>1, <3>2
  <2>3. QED
    BY <1>6, <2>1, <2>2
<1>7. CASE CreateCategoria(p) \/ InsertarCategoria(p) \/ ReleerCategoria(p)
           \/ Reactivar(p) \/ RemoveCategoria(p) \/ DarBaja(p)
  <2>1. \E f, n : Paso(p, f, n) /\ n.fase # "baja"
    <3>1. CASE CreateCategoria(p)
      <4>1. PICK c \in Categorias :
              Paso(p, "libre", [fase |-> IF cat[c] = Nulo THEN "insertar" ELSE "reactivar",
                                cat |-> c])
        BY <3>1 DEF CreateCategoria
      <4>2. QED
        BY <4>1
    <3>2. CASE InsertarCategoria(p)
      BY <3>2, LibreTipo DEF InsertarCategoria
    <3>3. CASE ReleerCategoria(p)
      BY <3>3, LibreTipo DEF ReleerCategoria
    <3>4. CASE RemoveCategoria(p)
      BY <3>4 DEF RemoveCategoria
    <3>5. CASE Reactivar(p) \/ DarBaja(p)
      BY <3>5, LibreTipo DEF Reactivar, DarBaja
    <3>6. QED
      BY <1>7, <3>1, <3>2, <3>3, <3>4, <3>5
  <2>2. QED
    BY <1>1, <1>2, <2>1
<1>8. QED
  BY <1>4, <1>5, <1>6, <1>7 DEF PasoPeticion

LEMMA PasoTestigos ==
    ASSUME IInv, (\E p \in Peticiones : PasoPeticion(p)) \/ \E i \in Items : RemoveItem(i),
           Observar
    PROVE  SinTestigos'
<1> SUFFICES ASSUME NEW o \in Peticiones, pet'[o].fase = "baja" PROVE testigos'[o] = {}
  BY DEF SinTestigos
<1>1. testigos'[o] = ActivosEn(pet[o].cat)' \cap (IF Quitando(o) THEN testigos[o] ELSE Items)
  BY DEF Observar, Quitando
<1>2. CASE pet[o].fase = "baja"
  BY <1>1, <1>2 DEF IInv, SinTestigos, Quitando
<1>3. CASE pet[o].fase # "baja"
  <2>1. PICK p \in Peticiones : PasoPeticion(p)
    BY <1>3 DEF RemoveItem
  <2>2. /\ pet'[o].cat = pet[o].cat /\ ActivosEn(pet[o].cat) = {} /\ UNCHANGED item
    BY <1>3, <2>1, LlegaABaja
  <2>3. ActivosEn(pet[o].cat)' = {}
    BY <2>2 DEF ActivosEn
  <2>4. QED
    BY <1>1, <2>3
<1>4. QED
  BY <1>2, <1>3

LEMMA PasoIInv == IInv /\ [Next]_vars => IInv'
<1> SUFFICES ASSUME IInv, [Next]_vars PROVE IInv'
  OBVIOUS
<1>1. CASE UNCHANGED vars
  <2>1. UNCHANGED <<cat, item, pet, rebasadas, testigos>>
    BY <1>1 DEF vars
  <2>2. TypeOK' /\ SinTestigos'
    BY <2>1 DEF IInv, TypeOK, SinTestigos
  <2>3. \A p \in Peticiones : Seguida(p)'
    BY <2>1 DEF IInv, Seguida, EnMulti
  <2>4. QED
    BY <2>2, <2>3 DEF IInv
<1>2. CASE Next
  <2>1. TiposDatos' /\ \A o \in Peticiones : Seguida(o)'
    BY <1>2, PasoDatos DEF Next
  <2>2. rebasadas' \subseteq Peticiones /\ testigos' \in [Peticiones -> SUBSET Items]
    BY <1>2, ObservarTipo DEF Next, IInv
  <2>3. TypeOK'
    BY <2>1, <2>2 DEF TypeOK, TiposDatos
  <2>4. SinTestigos'
    BY <1>2, PasoTestigos DEF Next
  <2>5. QED
    BY <2>1, <2>3, <2>4 DEF IInv
<1>3. QED
  BY <1>1, <1>2

LEMMA InicioIInv == Init => IInv
<1> SUFFICES ASSUME Init PROVE IInv
  OBVIOUS
<1>1. \A p \in Peticiones : pet[p].fase = "libre"
  BY LibreTipo DEF Init
<1>2. QED
  BY <1>1, InicioTipos DEF IInv, SinTestigos, Seguida, EnMulti

-----------------------------------------------------------------------------

\* The inductive invariant: types, what a multi-tenant creation still has to undo,
\* and what the removal of a category has counted.
THEOREM Invariante == Spec => []IInv
<1>1. QED
  BY InicioIInv, PasoIInv, PTL DEF Spec

\* Categories, items and requests keep their types, however requests overlap.
THEOREM TiposCorrectos == Spec => []TypeOK
<1>1. IInv => TypeOK
  BY DEF IInv
<1>2. QED
  BY Invariante, <1>1, PTL

\* A failed multi-tenant creation answers when what it saved is gone, but for the
\* items whose deletion failed, whatever others did to them meanwhile.
THEOREM AltaDeshecha == Spec => []AltaFallidaSinItems
<1>1. IInv => AltaFallidaSinItems
  BY ValoresDistintos DEF IInv, Seguida, AltaFallidaSinItems, Guardado
<1>2. QED
  BY Invariante, <1>1, PTL

\* The removal of a category never overlooks an item that was active in it from the
\* arrival of the request on.
THEOREM BajaFirme == Spec => BajaSinTestigos
<1>1. IInv /\ [Next]_vars =>
        [\A p \in Peticiones :
           pet[p].fase = "baja" /\ pet'[p] # pet[p] => testigos[p] = {}]_vars
  BY DEF IInv, SinTestigos
<1>2. QED
  BY Invariante, <1>1, PTL DEF Spec, BajaSinTestigos
-----------------------------------------------------------------------------
(* The rule of the categories *)

\* What a request that nobody has overtaken read or counted still holds.
VInv == \A p \in Peticiones : p \notin rebasadas => Vigente(pet[p])

\* A step of p that leaves p with something that holds, or overtaken as it was.
Sigue(p) == \/ \E f, r : Paso(p, f, r) /\ Vigente(r)'
            \/ p \in rebasadas /\ pet'[p].fase = "escribir"

LEMMA VigenteLibre == Vigente(Libre)'
BY LibreTipo DEF Vigente

\* Items: the reads.
LEMMA LecturasVigentes ==
    ASSUME IInv, NEW p \in Peticiones, p \notin rebasadas => Vigente(pet[p]),
           Create(p) \/ Update(p) \/ ToggleActivo(p) \/ ComprobarCategoria(p)
    PROVE  Sigue(p)
<1>1. UNCHANGED <<cat, item>>
  BY DEF Create, Update, ToggleActivo, ComprobarCategoria
<1>2. CASE Create(p)
  <2>1. PICK c \in Categorias, a \in ActivosDto :
          /\ cat[c] = TRUE
          /\ Paso(p, "libre", [fase |-> "guardar", cat |-> c, activo |-> ActivoInicial(a)])
    BY <1>2 DEF Create, CategoriaActiva
  <2> DEFINE r == [fase |-> "guardar", cat |-> c, activo |-> ActivoInicial(a)]
  <2>2. r.fase = "guardar" /\ r.cat = c
    OBVIOUS
  <2> HIDE DEF r
  <2>3. Vigente(r)'
    BY <1>1, <2>1, <2>2 DEF Vigente
  <2>4. QED
    BY <2>1, <2>3 DEF Sigue, r
<1>3. CASE Update(p)
  <2>1. PICK i \in Items, c \in Categorias \cup {Omitido}, a \in ActivosDto :
          /\ Guardado(item[i])
          /\ c # Omitido => cat[c] = TRUE
          /\ Paso(p, "libre",
                  IF c = Omitido /\ ExigeCategoria(i, c, a)
                  THEN [fase |-> "comprobar", i |-> i, cat |-> item[i].cat]
                  ELSE [fase |-> "escribir", i |-> i, cat |-> c, activo |-> a])
    BY <1>3 DEF Update, CategoriaActiva
  <2>2. CASE c = Omitido /\ a = TRUE
    <3>1. PICK k : k = item[i].cat
      OBVIOUS
    <3> DEFINE r == [fase |-> "comprobar", i |-> i, cat |-> k]
    <3>2. r.fase = "comprobar" /\ r.i = i /\ r.cat = k /\ Paso(p, "libre", r)
      BY <2>1, <2>2, <3>1 DEF ExigeCategoria
    <3> HIDE DEF r
    <3>3. Vigente(r)'
      BY <1>1, <2>1, <3>1, <3>2 DEF Vigente, Guardado
    <3>4. QED
      BY <3>2, <3>3 DEF Sigue
  <2>3. CASE ~(c = Omitido /\ a = TRUE)
    <3> DEFINE r == [fase |-> "escribir", i |-> i, cat |-> c, activo |-> a]
    <3>1. /\ r.fase = "escribir" /\ r.i = i /\ r.cat = c /\ r.activo = a
          /\ Paso(p, "libre", r)
      BY <2>1, <2>3 DEF ExigeCategoria
    <3> HIDE DEF r
    <3>2. Vigente(r)'
      BY <1>1, <2>1, <2>3, <3>1 DEF Vigente, Guardado
    <3>3. QED
      BY <3>1, <3>2 DEF Sigue
  <2>4. QED
    BY <2>2, <2>3
<1>4. CASE ToggleActivo(p)
  <2>1. PICK i \in Items :
          /\ Guardado(item[i])
          /\ Paso(p, "libre",
                  IF Activo(item[i])
                  THEN [fase |-> "escribir", i |-> i, cat |-> Omitido, activo |-> FALSE]
                  ELSE [fase |-> "comprobar", i |-> i, cat |-> item[i].cat])
    BY <1>4 DEF ToggleActivo
  <2>2. PICK k : k = item[i].cat
    OBVIOUS
  <2> DEFINE r == [fase |-> "escribir", i |-> i, cat |-> Omitido, activo |-> FALSE]
             s == [fase |-> "comprobar", i |-> i, cat |-> k]
  <2>3. /\ r.fase = "escribir" /\ r.i = i /\ r.cat = Omitido /\ r.activo = FALSE
        /\ s.fase = "comprobar" /\ s.i = i /\ s.cat = k
        /\ Paso(p, "libre", r) \/ Paso(p, "libre", s)
    BY <2>1, <2>2
  <2> HIDE DEF r, s
  <2>4. Vigente(r)' /\ Vigente(s)'
    BY <1>1, <2>1, <2>2, <2>3 DEF Vigente, Guardado
  <2>5. QED
    BY <2>3, <2>4 DEF Sigue
<1>5. CASE ComprobarCategoria(p)
  <2>1. PICK i, k : i = pet[p].i /\ k = pet[p].cat
    OBVIOUS
  <2> DEFINE s == [fase |-> "escribir", i |-> i, cat |-> Omitido, activo |-> TRUE]
  <2>2. /\ s.fase = "escribir" /\ s.i = i /\ s.cat = Omitido
        /\ pet[p].fase = "comprobar"
        /\ \/ Paso(p, "comprobar", Libre)
           \/ cat[k] = TRUE /\ Paso(p, "comprobar", s)
    BY <1>5, <2>1 DEF ComprobarCategoria, CategoriaActiva, Paso
  <2> HIDE DEF s
  <2>3. CASE p \notin rebasadas
    <3>1. Guardado(item[i]) /\ item[i].cat = k
      BY <2>1, <2>2, <2>3 DEF Vigente
    <3>2. cat[k] = TRUE => Vigente(s)'
      BY <1>1, <2>2, <3>1 DEF Vigente, Guardado
    <3>3. QED
      BY <2>2, <3>2, VigenteLibre DEF Sigue
  <2>4. CASE p \in rebasadas
    <3>1. Paso(p, "comprobar", s) => pet'[p].fase = "escribir"
      BY <2>2 DEF Paso, IInv, TypeOK
    <3>2. QED
      BY <2>2, <2>4, <3>1, VigenteLibre DEF Sigue
  <2>5. QED
    BY <2>3, <2>4
<1>6. QED
  BY <1>2, <1>3, <1>4, <1>5

\* createForTenants: only the step to "multiGuardar" leaves something to rely on.
LEMMA MultiVigente ==
    ASSUME IInv, NEW p \in Peticiones,
           \/ CreateForTenants(p) \/ ResolverDestino(p) \/ GuardarDestino(p)
           \/ Compensar(p) \/ ResponderFallo(p)
    PROVE  Sigue(p)
<1>1. ASSUME NEW r, r.fase \in {"multi", "compensar", "fallida"} PROVE Vigente(r)'
  BY <1>1 DEF Vigente
<1>2. CASE CreateForTenants(p)
  <2>1. PICK k, d, a : Paso(p, "libre", Multi("multi", k, a, d, {}, {}, {}))
    BY <1>2 DEF CreateForTenants, Multi
  <2>2. Multi("multi", k, a, d, {}, {}, {}).fase = "multi"
    BY DEF Multi
  <2>3. QED
    BY <1>1, <2>1, <2>2 DEF Sigue
<1>3. CASE ResponderFallo(p)
  BY <1>3, VigenteLibre DEF ResponderFallo, Sigue
<1>4. CASE ResolverDestino(p) \/ GuardarDestino(p) \/ Compensar(p)
  <2>1. PICK r \in Peticion : r = pet[p]
    BY DEF IInv, TypeOK
  <2>2. EnMulti(r)
    BY <1>4, <2>1 DEF ResolverDestino, GuardarDestino, Compensar, Paso, EnMulti
  <2> DEFINE n == Multi("multiGuardar", r.codigo, r.activo, r.faltan, r.creados, r.borrar,
                        r.restos)
             m == Multi("compensar", r.codigo, r.activo, r.faltan, r.creados, r.creados,
                        r.restos)
  <2>3. /\ n.fase = "multiGuardar" /\ n.faltan = r.faltan /\ n.codigo = r.codigo
        /\ m.fase = "compensar"
    BY DEF Multi
  <2>4. [r EXCEPT !.fase = "multiGuardar"] = n /\ Deshacer(r) = m
    BY <2>2, MultiIgual
  <2>5. CASE ResolverDestino(p)
    <3>1. UNCHANGED cat
      BY <2>5 DEF ResolverDestino
    <3>2. \/ cat[<<Head(r.faltan), r.codigo>>] = TRUE /\ Paso(p, "multi", n)
          \/ Paso(p, "multi", m)
      BY <2>1, <2>4, <2>5 DEF ResolverDestino, CategoriaActiva
    <3> HIDE DEF n, m
    <3>3. cat[<<Head(r.faltan), r.codigo>>] = TRUE => Vigente(n)'
      BY <2>3, <3>1 DEF Vigente
    <3>4. QED
      BY <1>1, <2>3, <3>2, <3>3 DEF Sigue
  <2>6. CASE GuardarDestino(p)
    <3>1. CASE Paso(p, "multiGuardar", Deshacer(r))
      <4> HIDE DEF m
      <4>1. QED
        BY <1>1, <2>3, <2>4, <3>1 DEF Sigue
    <3>2. ASSUME NEW i, Paso(p, "multiGuardar",
                             IF Len(r.faltan) = 1 THEN Libre
                             ELSE [r EXCEPT !.fase = "multi", !.faltan = Tail(@),
                                            !.creados = @ \cup {i}])
          PROVE  Sigue(p)
      <4> DEFINE s == Multi("multi", r.codigo, r.activo, Tail(r.faltan), r.creados \cup {i},
                            r.borrar, r.restos)
      <4>1. Paso(p, "multiGuardar", Libre) \/ Paso(p, "multiGuardar", s)
        BY <2>2, <3>2, MultiIgual
      <4>2. s.fase = "multi"
        BY DEF Multi
      <4> HIDE DEF s
      <4>3. QED
        BY <1>1, <4>1, <4>2, VigenteLibre DEF Sigue
    <3>3. QED
      BY <2>1, <2>6, <3>1, <3>2 DEF GuardarDestino
  <2>7. CASE Compensar(p)
    <3>1. r.fase = "compensar"
      BY <2>1, <2>7 DEF Compensar, Paso
    <3>2. \/ Paso(p, "compensar", [r EXCEPT !.fase = "fallida"])
          \/ \E i : Paso(p, "compensar", [r EXCEPT !.borrar = @ \ {i}])
          \/ \E i : Paso(p, "compensar", [r EXCEPT !.borrar = @ \ {i}, !.restos = @ \cup {i}])
      BY <2>1, <2>7 DEF Compensar
    <3>3. CASE Paso(p, "compensar", [r EXCEPT !.fase = "fallida"])
      <4> DEFINE s == Multi("fallida", r.codigo, r.activo, r.faltan, r.creados, r.borrar,
                            r.restos)
      <4>1. Paso(p, "compensar", s) /\ s.fase = "fallida"
        BY <2>2, <3>3, MultiIgual DEF Multi
      <4> HIDE DEF s
      <4>2. QED
        BY <1>1, <4>1 DEF Sigue
    <3>4. ASSUME NEW i, Paso(p, "compensar", [r EXCEPT !.borrar = @ \ {i}])
          PROVE  Sigue(p)
      <4> DEFINE s == Multi(r.fase, r.codigo, r.activo, r.faltan, r.creados, r.borrar \ {i},
                            r.restos)
      <4>1. Paso(p, "compensar", s) /\ s.fase = r.fase
        BY <2>2, <3>4, MultiIgual DEF Multi
      <4> HIDE DEF s
      <4>2. QED
        BY <1>1, <3>1, <4>1 DEF Sigue
    <3>5. ASSUME NEW i,
                 Paso(p, "compensar", [r EXCEPT !.borrar = @ \ {i}, !.restos = @ \cup {i}])
          PROVE  Sigue(p)
      <4> DEFINE s == Multi(r.fase, r.codigo, r.activo, r.faltan, r.creados, r.borrar \ {i},
                            r.restos \cup {i})
      <4>1. Paso(p, "compensar", s) /\ s.fase = r.fase
        BY <2>2, <3>5, MultiIgual DEF Multi
      <4> HIDE DEF s
      <4>2. QED
        BY <1>1, <3>1, <4>1 DEF Sigue
    <3>6. QED
      BY <3>2, <3>3, <3>4, <3>5
  <2>8. QED
    BY <1>4, <2>5, <2>6, <2>7
<1>5. QED
  BY <1>2, <1>3, <1>4

\* Categories, and the writes of items, which end their request.
LEMMA CategoriasVigentes ==
    ASSUME IInv, NEW p \in Peticiones,
           \/ GuardarItem(p) \/ EscribirItem(p)
           \/ CreateCategoria(p) \/ InsertarCategoria(p) \/ ReleerCategoria(p)
           \/ Reactivar(p) \/ RemoveCategoria(p) \/ ContarActivos(p) \/ DarBaja(p)
    PROVE  Sigue(p)
<1> DEFINE n(f, c) == [fase |-> f, cat |-> c]
           F == {"contar", "reactivar", "insertar", "releer"}
<1>1. ASSUME NEW f \in F, NEW k PROVE Vigente(n(f, k))'
  BY <1>1 DEF Vigente
<1>2. CASE \/ GuardarItem(p) \/ EscribirItem(p) \/ Reactivar(p) \/ DarBaja(p)
  BY <1>2, VigenteLibre DEF GuardarItem, EscribirItem, Reactivar, DarBaja, Sigue
<1>3. CASE \/ CreateCategoria(p) \/ RemoveCategoria(p) \/ ReleerCategoria(p)
           \/ InsertarCategoria(p)
  <2>1. \/ \E f : Paso(p, f, Libre)
        \/ \E f, k : \E g \in F : Paso(p, f, n(g, k))
    <3>1. CASE CreateCategoria(p)
      <4>1. PICK k \in Categorias :
              Paso(p, "libre", n(IF cat[k] = Nulo THEN "insertar" ELSE "reactivar", k))
        BY <3>1 DEF CreateCategoria
      <4>2. (IF cat[k] = Nulo THEN "insertar" ELSE "reactivar") \in F
        OBVIOUS
      <4> HIDE DEF n
      <4>3. QED
        BY <4>1, <4>2
    <3>2. CASE RemoveCategoria(p)
      BY <3>2 DEF RemoveCategoria
    <3>3. CASE ReleerCategoria(p) \/ InsertarCategoria(p)
      BY <3>3 DEF ReleerCategoria, InsertarCategoria
    <3>4. QED
      BY <1>3, <3>1, <3>2, <3>3
  <2> HIDE DEF n, F
  <2>2. QED
    BY <1>1, <2>1, VigenteLibre DEF Sigue
<1>4. CASE ContarActivos(p)
  <2>1. PICK k : k = pet[p].cat
    OBVIOUS
  <2>2. /\ UNCHANGED item
        /\ \/ Paso(p, "contar", Libre)
           \/ Paso(p, "contar", n("baja", k)) /\ ActivosEn(k) = {}
    BY <1>4, <2>1 DEF ContarActivos, Estorban
  <2>3. ActivosEn(k) = {} => Vigente(n("baja", k))'
    BY <2>2 DEF Vigente, ActivosEn
  <2> HIDE DEF n
  <2>4. QED
    BY <2>2, <2>3, VigenteLibre DEF Sigue
<1>5. QED
  BY <1>2, <1>3, <1>4

LEMMA PasoVInv ==
    ASSUME IInv, VInv, Next
    PROVE  VInv'
<1>1. ASSUME NEW o \in Peticiones, pet'[o] = pet[o], o \notin rebasadas'
      PROVE  Vigente(pet[o])'
  BY <1>1 DEF Next, Observar, VInv
<1>2. ASSUME NEW p \in Peticiones, PasoPeticion(p)
      PROVE  VInv'
  <2>1. Sigue(p)
    BY <1>2, LecturasVigentes, MultiVigente, CategoriasVigentes DEF PasoPeticion, VInv
  <2>2. \E f, r : Paso(p, f, r)
    BY <1>2 DEF PasoPeticion, Create, GuardarItem, Update, ToggleActivo,
       ComprobarCategoria, EscribirItem, CreateForTenants, ResolverDestino, GuardarDestino,
       Compensar, ResponderFallo, CreateCategoria, InsertarCategoria, ReleerCategoria,
       Reactivar, RemoveCategoria, ContarActivos, DarBaja
  <2>3. \A o \in Peticiones \ {p} : pet'[o] = pet[o]
    BY <2>2 DEF Paso, IInv, TypeOK
  <2>4. ASSUME p \notin rebasadas' PROVE Vigente(pet[p])'
    <3>1. PICK f, r : Paso(p, f, r) /\ Vigente(r)'
      BY <2>1, <2>4 DEF Sigue, Next, Observar
    <3>2. pet'[p] = r
      BY <3>1 DEF Paso, IInv, TypeOK
    <3>3. QED
      BY <3>1, <3>2 DEF Vigente
  <2>5. QED
    BY <1>1, <2>3, <2>4 DEF VInv
<1>3. ASSUME NEW i \in Items, RemoveItem(i)
      PROVE  VInv'
  <2>1. UNCHANGED pet
    BY <1>3 DEF RemoveItem
  <2>2. QED
    BY <1>1, <2>1 DEF VInv
<1>4. QED
  BY <1>2, <1>3 DEF Next

-----------------------------------------------------------------------------

\* No item leaves the rule.
Mantiene == \A i \in Items : Coherente(item[i]) => Coherente(item[i])'

LEMMA QuietoMantiene ==
    ASSUME UNCHANGED <<cat, item>>
    PROVE  Mantiene
BY DEF Mantiene, Coherente, Activo, Guardado

\* A write of one item.
LEMMA EscribirMantiene ==
    ASSUME IInv, NEW i \in Items, NEW d, UNCHANGED cat, item' = [item EXCEPT ![i] = d],
           Coherente(item[i]) => (Activo(d) => cat[d.cat] = TRUE)
    PROVE  Mantiene
<1>1. \A j \in Items : item'[j] = IF j = i THEN d ELSE item[j]
  BY DEF IInv, TypeOK
<1>2. ASSUME NEW j \in Items, Coherente(item[j])
      PROVE  Activo(item'[j]) => cat[item'[j].cat] = TRUE
  BY <1>1, <1>2 DEF Coherente
<1>3. QED
  BY <1>2 DEF Mantiene, Coherente, Activo, Guardado

\* The writes of one item by a request that nobody overtook and that checked.
LEMMA ItemMantiene ==
    ASSUME IInv, NEW p \in Peticiones, Vigente(pet[p]), ~SinComprobar(pet[p]),
           GuardarItem(p) \/ EscribirItem(p)
    PROVE  Mantiene
<1> DEFINE r == pet[p]
<1>1. UNCHANGED cat
  BY DEF GuardarItem, EscribirItem
<1>2. CASE UNCHANGED item
  BY <1>1, <1>2, QuietoMantiene
<1>3. CASE GuardarItem(p) /\ ~UNCHANGED item
  <2>1. PICK i \in Items : item' = [item EXCEPT ![i] = [cat |-> r.cat, activo |-> r.activo]]
    BY <1>3 DEF GuardarItem
  <2>2. cat[r.cat] = TRUE
    BY <1>3 DEF GuardarItem, Paso, Vigente
  <2>3. QED
    BY <1>1, <2>1, <2>2, EscribirMantiene
<1>4. CASE EscribirItem(p) /\ ~UNCHANGED item
  <2>1. /\ r.fase = "escribir" /\ r \in Peticion /\ Vigente(r)
    BY <1>4 DEF EscribirItem, Paso, IInv, TypeOK
  <2>2. /\ r.i \in Items /\ r.cat \in Categorias \cup {Omitido} /\ r.activo \in ActivosDto
    BY <2>1, FasesTipo
  <2> DEFINE d == item[r.i]
             e == Aplicado(d, r.cat, r.activo)
  <2>3. item' = [item EXCEPT ![r.i] = e] /\ Guardado(d)
    BY <1>4 DEF EscribirItem
  <2>4. e.cat = (IF r.cat = Omitido THEN d.cat ELSE r.cat)
        /\ e.activo = IF r.activo = Omitido THEN d.activo ELSE r.activo
    BY DEF Aplicado
  <2>5. r.activo \in {TRUE, FALSE, Omitido} \/ r.cat # Omitido
    BY <2>1, <2>2, CatalogoAssumption DEF CatalogoAssumption, SinComprobar
  <2>6. Coherente(d) => (d.activo # FALSE => cat[d.cat] = TRUE)
    BY <2>3 DEF Coherente, Activo
  <2>7. r.cat # Omitido => cat[r.cat] = TRUE
    BY <2>1 DEF Vigente
  <2>8. r.cat = Omitido /\ r.activo = TRUE => cat[d.cat] = TRUE
    BY <2>1 DEF Vigente
  <2>9. Coherente(d) => (Activo(e) => cat[e.cat] = TRUE)
    <3> HIDE DEF d
    <3>1. Activo(e) => e.activo # FALSE
      BY DEF Activo
    <3> HIDE DEF e
    <3>2. QED
      BY <2>4, <2>5, <2>6, <2>7, <2>8, <3>1
  <2> HIDE DEF e
  <2>10. QED
    BY <1>1, <2>2, <2>3, <2>9, EscribirMantiene
<1>5. QED
  BY <1>2, <1>3, <1>4 DEF GuardarItem, EscribirItem

LEMMA MultiMantiene ==
    ASSUME IInv, NEW p \in Peticiones, Vigente(pet[p]), GuardarDestino(p) \/ Compensar(p)
    PROVE  Mantiene
<1>1. UNCHANGED cat
  BY DEF GuardarDestino, Compensar
<1>2. CASE UNCHANGED item
  BY <1>1, <1>2, QuietoMantiene
<1>3. CASE GuardarDestino(p) /\ ~UNCHANGED item
  <2>1. PICK k : k = <<Head(pet[p].faltan), pet[p].codigo>>
    OBVIOUS
  <2>2. PICK i \in Items : item' = [item EXCEPT ![i] = [cat |-> k, activo |-> pet[p].activo]]
    BY <1>3, <2>1 DEF GuardarDestino
  <2>3. cat[k] = TRUE
    BY <1>3, <2>1 DEF GuardarDestino, Paso, Vigente
  <2>4. QED
    BY <1>1, <2>2, <2>3, EscribirMantiene
<1>4. CASE Compensar(p) /\ ~UNCHANGED item
  <2>1. PICK i \in pet[p].borrar : item' = [item EXCEPT ![i] = Borrado]
    BY <1>4 DEF Compensar
  <2>2. i \in Items
    BY <1>4, <2>1, FasesTipo DEF Compensar, Paso, IInv, TypeOK
  <2>3. ~Activo(Borrado)
    BY ValoresDistintos DEF Activo, Guardado
  <2>4. QED
    BY <1>1, <2>1, <2>2, <2>3, EscribirMantiene
<1>5. QED
  BY <1>2, <1>3, <1>4

LEMMA CategoriaMantiene ==
    ASSUME IInv, NEW p \in Peticiones, Vigente(pet[p]),
           InsertarCategoria(p) \/ Reactivar(p) \/ DarBaja(p)
    PROVE  Mantiene
<1>1. UNCHANGED item
  BY DEF InsertarCategoria, Reactivar, DarBaja
<1>2. ASSUME NEW i \in Items, Activo(item[i]), cat[item[i].cat] = TRUE
      PROVE  cat'[item[i].cat] = TRUE
  <2>1. item[i].cat \in Categorias
    BY <1>2 DEF Activo, Guardado, Servicio
  <2>2. CASE InsertarCategoria(p) \/ Reactivar(p)
    BY <1>2, <2>1, <2>2 DEF InsertarCategoria, Reactivar, IInv, TypeOK
  <2>3. CASE DarBaja(p)
    <3>1. ActivosEn(pet[p].cat) = {} /\ cat' = [cat EXCEPT ![pet[p].cat] = FALSE]
      BY <2>3 DEF DarBaja, Paso, Vigente
    <3>2. item[i].cat # pet[p].cat
      BY <1>2, <3>1 DEF ActivosEn
    <3>3. QED
      BY <1>2, <2>1, <3>1, <3>2 DEF IInv, TypeOK
  <2>4. QED
    BY <2>2, <2>3
<1>3. QED
  BY <1>1, <1>2 DEF Mantiene, Coherente, Activo, Guardado

LEMMA BajaMantiene ==
    ASSUME IInv, NEW i \in Items, RemoveItem(i)
    PROVE  Mantiene
<1> DEFINE d == [item[i] EXCEPT !.activo = FALSE]
<1>1. item[i] \in Servicio /\ item' = [item EXCEPT ![i] = d] /\ UNCHANGED cat
  BY DEF RemoveItem, Guardado
<1>2. d.activo = FALSE
  BY <1>1 DEF Servicio
<1> HIDE DEF d
<1>3. QED
  BY <1>1, <1>2, EscribirMantiene DEF Activo

LEMMA PasoMantiene ==
    ASSUME IInv, VInv, NEW p \in Peticiones, PasoPeticion(p), p \notin rebasadas,
           ~SinComprobar(pet[p])
    PROVE  Mantiene
<1>1. Vigente(pet[p])
  BY DEF VInv
<1>2. CASE \/ Create(p) \/ Update(p) \/ ToggleActivo(p) \/ ComprobarCategoria(p)
           \/ CreateForTenants(p) \/ ResolverDestino(p) \/ ResponderFallo(p)
           \/ CreateCategoria(p) \/ ReleerCategoria(p) \/ RemoveCategoria(p)
           \/ ContarActivos(p)
  BY <1>2, QuietoMantiene DEF Create, Update, ToggleActivo, ComprobarCategoria,
     CreateForTenants, ResolverDestino, ResponderFallo, CreateCategoria, ReleerCategoria,
     RemoveCategoria, ContarActivos
<1>3. QED
  BY <1>1, <1>2, ItemMantiene, MultiMantiene, CategoriaMantiene DEF PasoPeticion

\* A step that writes moves its request on.
LEMMA EscribeAvanza ==
    ASSUME IInv, NEW p \in Peticiones, PasoPeticion(p), ~UNCHANGED <<cat, item>>
    PROVE  pet'[p] # pet[p]
<1>1. CASE \/ GuardarItem(p) \/ EscribirItem(p) \/ Reactivar(p) \/ DarBaja(p)
  BY <1>1, LibreTipo DEF GuardarItem, EscribirItem, Reactivar, DarBaja, Paso, IInv, TypeOK
<1>2. CASE InsertarCategoria(p)
  BY <1>2, LibreTipo DEF InsertarCategoria, Paso, IInv, TypeOK
<1>3. CASE GuardarDestino(p) \/ Compensar(p)
  <2>1. PICK r \in Peticion : r = pet[p]
    BY DEF IInv, TypeOK
  <2>2. EnMulti(r)
    BY <1>3, <2>1 DEF GuardarDestino, Compensar, Paso, EnMulti
  <2>3. CASE GuardarDestino(p)
    <3>1. PICK i \in Items :
            Paso(p, "multiGuardar",
                 IF Len(r.faltan) = 1 THEN Libre
                 ELSE [r EXCEPT !.fase = "multi", !.faltan = Tail(@), !.creados = @ \cup {i}])
      BY <2>1, <2>3 DEF GuardarDestino
    <3>2. Multi("multi", r.codigo, r.activo, Tail(r.faltan), r.creados \cup {i}, r.borrar,
                r.restos).fase = "multi"
      BY DEF Multi
    <3>3. pet'[p].fase # "multiGuardar" /\ pet[p].fase = "multiGuardar"
      BY <2>2, <3>1, <3>2, MultiIgual, LibreTipo DEF Paso, IInv, TypeOK
    <3>4. QED
      BY <3>3
  <2>4. CASE Compensar(p)
    <3>1. PICK i \in r.borrar : Paso(p, "compensar", [r EXCEPT !.borrar = @ \ {i}])
      BY <1>3, <2>1, <2>4 DEF Compensar
    <3>2. Paso(p, "compensar", Multi(r.fase, r.codigo, r.activo, r.faltan, r.creados,
                                     r.borrar \ {i}, r.restos))
      BY <2>2, <3>1, MultiIgual
    <3>3. pet'[p].borrar = r.borrar \ {i}
      BY <3>2 DEF Paso, IInv, TypeOK, Multi
    <3>4. QED
      BY <2>1, <3>1, <3>3
  <2>5. QED
    BY <1>3, <2>3, <2>4
<1>4. QED
  BY <1>1, <1>2, <1>3 DEF PasoPeticion, Create, Update, ToggleActivo, ComprobarCategoria,
     CreateForTenants, ResolverDestino, ResponderFallo, CreateCategoria, ReleerCategoria,
     RemoveCategoria, ContarActivos

\* However many requests overlap, and whatever their bodies: an item leaves the rule
\* of the categories only by the write of a request that another overtook, or by a
\* body that sets "activo" to null without a category.
THEOREM ReglaDeCategoria == Spec => ReglaSalvoRebase
<1> DEFINE Salvo == \/ \A i \in Items : Coherente(item[i]) => Coherente(item[i])'
                    \/ \E p \in Peticiones :
                         pet'[p] # pet[p] /\ (p \in rebasadas \/ SinComprobar(pet[p]))
<1>1. Init => VInv
  <2> SUFFICES ASSUME Init PROVE VInv
    OBVIOUS
  <2>1. \A p \in Peticiones : pet[p].fase = "libre"
    BY LibreTipo DEF Init
  <2>2. QED
    BY <2>1 DEF VInv, Vigente
<1>2. IInv /\ VInv /\ [Next]_vars => VInv'
  <2>1. CASE UNCHANGED vars
    BY <2>1 DEF vars, VInv, Vigente, ActivosEn, Activo, Guardado
  <2>2. QED
    BY <2>1, PasoVInv
<1>3. IInv /\ VInv /\ [Next]_vars => [Salvo]_vars
  <2> SUFFICES ASSUME IInv, VInv, Next PROVE Salvo
    OBVIOUS
  <2>1. ASSUME NEW i \in Items, RemoveItem(i) PROVE Salvo
    BY <2>1, BajaMantiene DEF Mantiene
  <2>2. ASSUME NEW p \in Peticiones, PasoPeticion(p) PROVE Salvo
    <3>1. CASE p \notin rebasadas /\ ~SinComprobar(pet[p])
      BY <2>2, <3>1, PasoMantiene DEF Mantiene
    <3>2. CASE UNCHANGED <<cat, item>>
      BY <3>2, QuietoMantiene DEF Mantiene
    <3>3. CASE ~UNCHANGED <<cat, item>> /\ (p \in rebasadas \/ SinComprobar(pet[p]))
      <4>1. pet'[p] # pet[p]
        BY <2>2, <3>3, EscribeAvanza
      <4>2. QED
        BY <3>3, <4>1
    <3>4. QED
      BY <3>1, <3>2, <3>3
  <2>3. QED
    BY <2>1, <2>2 DEF Next
<1> HIDE DEF Salvo
<1>4. QED
  BY Invariante, <1>1, <1>2, <1>3, PTL DEF Spec, ReglaSalvoRebase, Salvo
=============================================================================
