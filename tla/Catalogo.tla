------------------------------ MODULE Catalogo ------------------------------
(***************************************************************************)
(* The catalogue: the items of ServiciosService and the categories of      *)
(* CategoriasServicioService.  An item may be active only in an active     *)
(* category, a rule that spans two documents: each service reads the other *)
(* collection in one call and writes its own in a later one.               *)
(***************************************************************************)
EXTENDS Naturals, Sequences

CONSTANTS
    Tenants,
    Codigos,      \* codes of the categories, unique within a tenant
    Items,        \* ids of the items, stored or not yet
    Peticiones,   \* requests in flight at once
    Nulo,         \* null, or not stored yet
    Borrado,      \* an item that a compensation removed
    Omitido,      \* a field that the body of the request leaves out
    ActivosDto,   \* values that a body may give to "activo"
    Operaciones   \* bound: the requests that arrive in this instance

ASSUME CatalogoAssumption ==
    /\ Nulo # Omitido /\ Nulo # Borrado /\ {Nulo, Omitido} \cap BOOLEAN = {}
    /\ {Nulo, Omitido} \cap (Tenants \X Codigos) = {}
    /\ {Nulo, Borrado} \cap
         [cat: Tenants \X Codigos, activo: BOOLEAN \cup {Nulo}] = {}
    /\ BOOLEAN \cup {Omitido} \subseteq ActivosDto
    /\ ActivosDto \subseteq BOOLEAN \cup {Nulo, Omitido}
    /\ Operaciones \subseteq {"item", "multi", "categoria"}

VARIABLES
    cat,       \* cat[c]: CategoriaServicio.activo, or Nulo
    item,      \* item[i]: the stored Servicio, Nulo or Borrado
    pet,       \* pet[p]: progress of request p
    rebasadas, \* history: requests whose reading a write of another has undone
    testigos   \* history: testigos[p], the items that were active in the category
               \* that p deactivates ever since p arrived

vars == <<cat, item, pet, rebasadas, testigos>>

-----------------------------------------------------------------------------

Categorias == Tenants \X Codigos

\* "activo" may be null: @IsOptional lets it through, and the filters of the
\* code take what is not false for active.
Servicio == [cat: Categorias, activo: BOOLEAN \cup {Nulo}]

Libre == [fase |-> "libre"]

\* One or two tenants, as the code demands; each comes once, in the order of the body.
Destinos == {<<t>> : t \in Tenants} \cup {d \in Tenants \X Tenants : d[1] # d[2]}

Peticion ==
    {Libre}
    \cup [fase: {"guardar"}, cat: Categorias, activo: BOOLEAN \cup {Nulo}]
    \cup [fase: {"comprobar"}, i: Items, cat: Categorias]
    \cup [fase: {"escribir"}, i: Items, cat: Categorias \cup {Omitido}, activo: ActivosDto]
    \cup [fase: {"contar", "baja", "reactivar", "insertar", "releer"}, cat: Categorias]
    \cup [fase: {"multi", "multiGuardar", "compensar", "fallida"}, codigo: Codigos,
          activo: BOOLEAN \cup {Nulo}, faltan: Destinos, creados: SUBSET Items,
          borrar: SUBSET Items, restos: SUBSET Items]

TypeOK ==
    /\ cat \in [Categorias -> BOOLEAN \cup {Nulo}]
    /\ item \in [Items -> Servicio \cup {Nulo, Borrado}]
    /\ pet \in [Peticiones -> Peticion]
    /\ rebasadas \subseteq Peticiones /\ testigos \in [Peticiones -> SUBSET Items]

Guardado(d) == d \in Servicio

\* What the filter activo: {$ne: false} matches.
Activo(d) == Guardado(d) /\ d.activo # FALSE

ActivosEn(c) == {i \in Items : Activo(item[i]) /\ item[i].cat = c}

Coherente(d) == Activo(d) => cat[d.cat] = TRUE

Init ==
    /\ cat \in [Categorias -> BOOLEAN \cup {Nulo}]
    /\ item \in [Items -> Servicio \cup {Nulo}]
    /\ \A i \in Items : Guardado(item[i]) => cat[item[i].cat] # Nulo /\ Coherente(item[i])
    /\ pet = [p \in Peticiones |-> Libre]
    /\ rebasadas = {}
    /\ testigos = [p \in Peticiones |-> {}]

Paso(p, f, r) == pet[p].fase = f /\ pet' = [pet EXCEPT ![p] = r]

\* assertCategoriaActivaDelTenant and resolveCategoriaIdByCodigo.
CategoriaActiva(c) == cat[c] = TRUE

\* buildDocPayload: only a field left out defaults to true.
ActivoInicial(a) == IF a = Omitido THEN TRUE ELSE a

-----------------------------------------------------------------------------
(* ServiciosService: create, update, toggleActivo, remove *)

Create(p) ==
    /\ "item" \in Operaciones
    /\ \E c \in Categorias, a \in ActivosDto :
         /\ CategoriaActiva(c)
         /\ Paso(p, "libre", [fase |-> "guardar", cat |-> c, activo |-> ActivoInicial(a)])
    /\ UNCHANGED <<cat, item>>

\* A new id, or a code that is taken: a 409.
GuardarItem(p) ==
    LET r == pet[p] IN
    /\ Paso(p, "guardar", Libre)
    /\ \/ \E i \in Items :
            /\ item[i] = Nulo
            /\ item' = [item EXCEPT ![i] = [cat |-> r.cat, activo |-> r.activo]]
       \/ UNCHANGED item
    /\ UNCHANGED cat

MutExigeCategoria(i, c, a) == c # Omitido

\* update reads a category when the body names one, or reactivates the item.
ExigeCategoria(i, c, a) == c # Omitido \/ a = TRUE

\* The first read of update: the category of the body, or the item to reactivate,
\* or none.
Update(p) ==
    /\ "item" \in Operaciones
    /\ \E i \in Items, c \in Categorias \cup {Omitido}, a \in ActivosDto :
         /\ Guardado(item[i])
         /\ c # Omitido => c[1] = item[i].cat[1] /\ CategoriaActiva(c)
         /\ Paso(p, "libre",
                 IF c = Omitido /\ ExigeCategoria(i, c, a)
                 THEN [fase |-> "comprobar", i |-> i, cat |-> item[i].cat]
                 ELSE [fase |-> "escribir", i |-> i, cat |-> c, activo |-> a])
    /\ UNCHANGED <<cat, item>>

\* findOne; then save, or the check of the category.
ToggleActivo(p) ==
    /\ "item" \in Operaciones
    /\ \E i \in Items :
         /\ Guardado(item[i])
         /\ Paso(p, "libre",
                 IF Activo(item[i])
                 THEN [fase |-> "escribir", i |-> i, cat |-> Omitido, activo |-> FALSE]
                 ELSE [fase |-> "comprobar", i |-> i, cat |-> item[i].cat])
    /\ UNCHANGED <<cat, item>>

ComprobarCategoria(p) ==
    LET r == pet[p] IN
    /\ Paso(p, "comprobar",
            IF CategoriaActiva(r.cat)
            THEN [fase |-> "escribir", i |-> r.i, cat |-> Omitido, activo |-> TRUE]
            ELSE Libre)
    /\ UNCHANGED <<cat, item>>

Aplicado(d, c, a) == [cat |-> IF c = Omitido THEN d.cat ELSE c,
                      activo |-> IF a = Omitido THEN d.activo ELSE a]

\* findOneAndUpdate by id, or save; a 404 if the item was removed by a compensation.
EscribirItem(p) ==
    LET r == pet[p] IN
    /\ Paso(p, "escribir", Libre)
    /\ item' = IF Guardado(item[r.i])
               THEN [item EXCEPT ![r.i] = Aplicado(@, r.cat, r.activo)]
               ELSE item
    /\ UNCHANGED cat

\* The soft delete of an item is one write.
RemoveItem(i) ==
    /\ "item" \in Operaciones /\ Guardado(item[i])
    /\ item' = [item EXCEPT ![i].activo = FALSE]
    /\ UNCHANGED <<cat, pet>>

-----------------------------------------------------------------------------
(* createForTenants *)

\* The tenants are active and the category of the body is active where the
\* administrator works.
CreateForTenants(p) ==
    /\ "multi" \in Operaciones
    /\ \E k \in Codigos, d \in Destinos, t \in Tenants, a \in ActivosDto :
         /\ CategoriaActiva(<<t, k>>)
         /\ Paso(p, "libre", [fase |-> "multi", codigo |-> k, activo |-> ActivoInicial(a),
                              faltan |-> d, creados |-> {}, borrar |-> {}, restos |-> {}])
    /\ UNCHANGED <<cat, item>>

MutBorrables(r) == {}

\* What a failure undoes: every item saved by this request.
Borrables(r) == r.creados

Deshacer(r) == [r EXCEPT !.fase = "compensar", !.borrar = Borrables(r)]

ResolverDestino(p) ==
    LET r == pet[p] IN
    /\ Paso(p, "multi", IF CategoriaActiva(<<Head(r.faltan), r.codigo>>)
                        THEN [r EXCEPT !.fase = "multiGuardar"]
                        ELSE Deshacer(r))
    /\ UNCHANGED <<cat, item>>

GuardarDestino(p) ==
    LET r == pet[p] IN
    /\ \/ /\ Paso(p, "multiGuardar", Deshacer(r))
          /\ UNCHANGED item
       \/ \E i \in Items :
            /\ item[i] = Nulo
            /\ Paso(p, "multiGuardar",
                    IF Len(r.faltan) = 1 THEN Libre
                    ELSE [r EXCEPT !.fase = "multi", !.faltan = Tail(@),
                                   !.creados = @ \cup {i}])
            /\ item' = [item EXCEPT ![i] = [cat |-> <<Head(r.faltan), r.codigo>>,
                                            activo |-> r.activo]]
    /\ UNCHANGED cat

\* deleteOne, whose failure is ignored, for each item saved.
Compensar(p) ==
    LET r == pet[p] IN
    /\ \/ /\ Paso(p, "compensar", [r EXCEPT !.fase = "fallida"])
          /\ r.borrar = {}
          /\ UNCHANGED item
       \/ /\ r.fase = "compensar"
          /\ \E i \in r.borrar :
               \/ /\ Paso(p, "compensar", [r EXCEPT !.borrar = @ \ {i}])
                  /\ item' = [item EXCEPT ![i] = Borrado]
               \/ /\ Paso(p, "compensar", [r EXCEPT !.borrar = @ \ {i},
                                                    !.restos = @ \cup {i}])
                  /\ UNCHANGED item
    /\ UNCHANGED cat

\* The error is answered.
ResponderFallo(p) ==
    /\ Paso(p, "fallida", Libre)
    /\ UNCHANGED <<cat, item>>

-----------------------------------------------------------------------------
(* CategoriasServicioService *)

\* A code that exists and is inactive is reactivated, an active one is a 409.
CreateCategoria(p) ==
    /\ "categoria" \in Operaciones
    /\ \E c \in Categorias :
         /\ cat[c] # TRUE
         /\ Paso(p, "libre", [fase |-> IF cat[c] = Nulo THEN "insertar" ELSE "reactivar",
                              cat |-> c])
    /\ UNCHANGED <<cat, item>>

\* The unique index refuses a code that another request inserted meanwhile.
InsertarCategoria(p) ==
    LET c == pet[p].cat IN
    /\ Paso(p, "insertar", IF cat[c] = Nulo THEN Libre ELSE [fase |-> "releer", cat |-> c])
    /\ cat' = IF cat[c] = Nulo THEN [cat EXCEPT ![c] = TRUE] ELSE cat
    /\ UNCHANGED item

ReleerCategoria(p) ==
    LET c == pet[p].cat IN
    /\ Paso(p, "releer", IF cat[c] = FALSE THEN [fase |-> "reactivar", cat |-> c]
                                           ELSE Libre)
    /\ UNCHANGED <<cat, item>>

Reactivar(p) ==
    /\ Paso(p, "reactivar", Libre)
    /\ cat' = [cat EXCEPT ![pet[p].cat] = TRUE]
    /\ UNCHANGED item

RemoveCategoria(p) ==
    /\ "categoria" \in Operaciones
    /\ \E c \in Categorias :
         /\ cat[c] # Nulo
         /\ Paso(p, "libre", [fase |-> "contar", cat |-> c])
    /\ UNCHANGED <<cat, item>>

MutEstorban(c) == {i \in ActivosEn(c) : item[i].activo = TRUE}

\* The items that the removal of category c counts.
Estorban(c) == ActivosEn(c)

ContarActivos(p) ==
    LET c == pet[p].cat IN
    /\ Paso(p, "contar", IF Estorban(c) = {} THEN [fase |-> "baja", cat |-> c] ELSE Libre)
    /\ UNCHANGED <<cat, item>>

DarBaja(p) ==
    /\ Paso(p, "baja", Libre)
    /\ cat' = [cat EXCEPT ![pet[p].cat] = FALSE]
    /\ UNCHANGED item

-----------------------------------------------------------------------------

Quitando(p) == pet[p].fase \in {"contar", "baja"}

\* What request r has read or counted, and relies on, holds.
Vigente(r) ==
    /\ r.fase = "guardar" => cat[r.cat] = TRUE
    /\ r.fase = "comprobar" => Guardado(item[r.i]) /\ item[r.i].cat = r.cat
    /\ r.fase = "escribir" /\ r.cat # Omitido => cat[r.cat] = TRUE
    /\ r.fase = "escribir" /\ r.cat = Omitido /\ r.activo = TRUE =>
         Guardado(item[r.i]) /\ cat[item[r.i].cat] = TRUE
    /\ r.fase = "multiGuardar" => cat[<<Head(r.faltan), r.codigo>>] = TRUE
    /\ r.fase = "baja" => ActivosEn(r.cat) = {}

\* A request is overtaken when a step of another undoes what it relies on, from
\* then to its next reading; the category of an item is read after the item.
Observar ==
    /\ rebasadas' = {p \in Peticiones :
                       \/ p \in rebasadas /\ pet'[p] = pet[p]
                       \/ p \in rebasadas /\ pet'[p].fase = "escribir"
                       \/ pet'[p] = pet[p] /\ Vigente(pet[p]) /\ ~Vigente(pet[p])'}
    /\ testigos' = [p \in Peticiones |->
                      IF Quitando(p)'
                      THEN ActivosEn(pet[p].cat)'
                           \cap (IF Quitando(p) THEN testigos[p] ELSE Items)
                      ELSE {}]

PasoPeticion(p) ==
    \/ Create(p) \/ GuardarItem(p) \/ Update(p) \/ ToggleActivo(p)
    \/ ComprobarCategoria(p) \/ EscribirItem(p)
    \/ CreateForTenants(p) \/ ResolverDestino(p) \/ GuardarDestino(p)
    \/ Compensar(p) \/ ResponderFallo(p)
    \/ CreateCategoria(p) \/ InsertarCategoria(p) \/ ReleerCategoria(p) \/ Reactivar(p)
    \/ RemoveCategoria(p) \/ ContarActivos(p) \/ DarBaja(p)

Next ==
    /\ \/ \E p \in Peticiones : PasoPeticion(p)
       \/ \E i \in Items : RemoveItem(i)
    /\ Observar

Spec == Init /\ [][Next]_vars

-----------------------------------------------------------------------------
(* Safety *)

\* An update that sets "activo" to null and names no category: none is read, and
\* every filter takes the item for active.
SinComprobar(r) == r.fase = "escribir" /\ r.activo = Nulo /\ r.cat = Omitido

\* No active item belongs to a category that is not active (FR57), but for two ways:
\* the write that breaks the rule is of a null "activo", or of a request that another
\* overtook between what it read or counted and its write.  Every other step of
\* items, categories and multi-tenant creations, failed ones included, leaves no
\* item outside of the rule that was within it.
ReglaSalvoRebase ==
    [][\/ \A i \in Items : Coherente(item[i]) => Coherente(item[i])'
       \/ \E p \in Peticiones :
            pet'[p] # pet[p] /\ (p \in rebasadas \/ SinComprobar(pet[p]))]_vars

\* "Bloquea si hay items activos con ese categoriaId": a removal that takes
\* effect has no item that was active in the category from its arrival on.
BajaSinTestigos ==
    [][\A p \in Peticiones :
         pet[p].fase = "baja" /\ pet'[p] # pet[p] => testigos[p] = {}]_vars

\* The items that a multi-tenant creation saved before it failed are gone when
\* it answers, but for those whose deletion failed, whatever other requests did
\* to them meanwhile.
AltaFallidaSinItems ==
    \A p \in Peticiones :
        pet[p].fase = "fallida" =>
            {i \in pet[p].creados : Guardado(item[i])} \subseteq pet[p].restos
=============================================================================
