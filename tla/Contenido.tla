------------------------------ MODULE Contenido ------------------------------
(***************************************************************************)
(* What a quotation contains and where it comes from: creation from the    *)
(* catalogue (createAdminCotizacion) and from another quotation            *)
(* (repetirCotizacion), which may cancel the original afterwards.  Both    *)
(* read the catalogue line by line, in one call each, while it is edited.  *)
(***************************************************************************)
EXTENDS Naturals, Sequences, SequencesExt

CONSTANTS
    Servicios, Cotizaciones,
    Peticiones,     \* requests in flight at once
    Nulo,           \* null, or not stored
    Omitido,        \* a field that a body leaves out
    Altas,          \* bound: the bodies of createAdminCotizacion that arrive
    Repeticiones,   \* bound: the bodies of repetirCotizacion that arrive
    MaxCambios      \* bound: changes that other requests make meanwhile

VARIABLES
    servicio,   \* servicio[s]: the item of the catalogue, or Nulo
    cliente,    \* Cliente.activo of the one customer
    plantilla,  \* the one template
    cot,        \* cot[q]: the stored quotation, or Nulo
    pet,        \* pet[p]: progress of request p
    cambios,    \* changes by others so far, for the bound
    linaje,     \* history: linaje[q], the body of the repetition q comes from
    testigos,   \* history: testigos[p], what has been active since p arrived
    vista       \* history: vista[p], the original of p has been cancelled at
                \* some time since p stored its clone

vars == <<servicio, cliente, plantilla, cot, pet, cambios, linaje, testigos, vista>>
entorno == <<servicio, cliente, plantilla, cambios>>

-----------------------------------------------------------------------------

\* A version of an item or template: it stands for the name and the type, and its
\* number is the price.  The first is the one of the quotation of Init.
Ficha == 1..MaxCambios + 2

Servicio == [activo: BOOLEAN, ficha: Ficha]

Estados == {"vigente", "vencida", "aceptada", "rechazada", "cancelada"}

\* tipo: the version that tipoSnapshot was copied from, Nulo in a line of before
\* Story 6.4.
ItemCotizacion ==
    [s: Servicios, cantidad: Nat \ {0}, nombre: Ficha, precio: Ficha \cup {0},
     tipo: Ficha \cup {Nulo}]

\* flag stands for the three display flags, which follow one rule.
Cotizacion ==
    [estado: Estados, items: Seq(ItemCotizacion), total: Nat, cliente: BOOLEAN,
     plantilla: Ficha \cup {Nulo}, flag: BOOLEAN \cup {Nulo}]

ItemDto == [s: Servicios, cantidad: Nat \ {0}, precio: {0, Omitido}]

Alta ==
    [items: Seq(ItemDto), cliente: BOOLEAN, plantilla: BOOLEAN, flag: BOOLEAN \cup {Omitido}]

\* resol[s]: what the body says of the lines with service s; a service is the
\* one that takes its place.
Repeticion ==
    [modo: {"originales", "actualizados"}, cancelar: BOOLEAN,
     resol: [Servicios -> Servicios \cup {"conservar", "omitir"}]]

ASSUME ContenidoAssumption ==
    /\ IsFiniteSet(Servicios) /\ Servicios # {}
    /\ MaxCambios \in Nat
    /\ Altas \subseteq Alta /\ Repeticiones \subseteq Repeticion
    /\ \A b \in Altas : b.items # <<>>
    /\ {Nulo, Omitido} \cap BOOLEAN = {} /\ {Nulo, Omitido} \cap Ficha = {}
    /\ {"conservar", "omitir"} \cap Servicios = {}
    /\ Nulo \notin Servicio \cup Cotizacion \cup Cotizaciones
    /\ Nulo \notin [de: Cotizaciones, cuerpo: Repeticion]

Libre == [fase |-> "libre"]

\* A request that builds a quotation: the local variables of the handler.  de
\* is the source of a repetition, cuerpo its body, faltan the lines to read.
Trabajo ==
    [fase: {"cliente", "items", "plantilla", "preferencias", "guardar"},
     de: Cotizaciones \cup {Nulo}, cuerpo: Altas \cup Repeticiones,
     faltan: Seq(ItemDto \cup ItemCotizacion), items: Seq(ItemCotizacion), total: Nat,
     avisos: BOOLEAN, cliente: BOOLEAN, plantilla: Ficha \cup {Nulo},
     flag: BOOLEAN \cup {Nulo, Omitido}, lecturas: SUBSET {"cliente", "config"}]

Cancelacion ==
    [fase: {"releer", "leer", "comprobar"}, de: Cotizaciones]
    \cup [fase: {"aplicar"}, de: Cotizaciones, leido: Estados]
    \cup [fase: {"respondida"}, de: Cotizaciones, originalCancelada: BOOLEAN]

Testigo == ({"servicio"} \X Servicios \X Ficha) \cup ({"plantilla"} \X Ficha) \cup {<<"cliente">>}

Guardada(q) == cot[q] # Nulo

TypeOK ==
    /\ servicio \in [Servicios -> Servicio \cup {Nulo}]
    /\ cliente \in BOOLEAN /\ plantilla \in Servicio
    /\ cot \in [Cotizaciones -> Cotizacion \cup {Nulo}]
    /\ pet \in [Peticiones -> {Libre} \cup Trabajo \cup Cancelacion]
    /\ \A p \in Peticiones : pet[p].fase = "guardar" => pet[p].flag \in BOOLEAN
    /\ cambios \in 0..MaxCambios
    /\ linaje \in [Cotizaciones -> [de: Cotizaciones, cuerpo: Repeticiones] \cup {Nulo}]
    /\ testigos \in [Peticiones -> SUBSET Testigo]
    /\ vista \in [Peticiones -> BOOLEAN]

Suma(items) == FoldLeft(LAMBDA t, l : t + l.precio * l.cantidad, 0, items)

\* All is active, and one quotation is stored, with a line per item and maybe from
\* before types and flags were.
Init ==
    /\ servicio = [s \in Servicios |-> [activo |-> TRUE, ficha |-> 2]]
    /\ cliente = TRUE /\ plantilla = [activo |-> TRUE, ficha |-> 2]
    /\ \E q \in Cotizaciones, antigua \in BOOLEAN :
         LET ids == SetToSeq(Servicios)
             items == [n \in DOMAIN ids |->
                         [s |-> ids[n], cantidad |-> n, nombre |-> 1, precio |-> 1,
                          tipo |-> IF antigua THEN Nulo ELSE 1]]
         IN
         cot = [k \in Cotizaciones |->
                  IF k = q
                  THEN [estado |-> "vigente", items |-> items, total |-> Suma(items),
                        cliente |-> TRUE, plantilla |-> 1,
                        flag |-> IF antigua THEN Nulo ELSE FALSE]
                  ELSE Nulo]
    /\ pet = [p \in Peticiones |-> Libre]
    /\ cambios = 0
    /\ linaje = [q \in Cotizaciones |-> Nulo]
    /\ testigos = [p \in Peticiones |-> {}]
    /\ vista = [p \in Peticiones |-> FALSE]

Paso(p, f, r) == pet[p].fase = f /\ pet' = [pet EXCEPT ![p] = r]

-----------------------------------------------------------------------------
(* The lines *)

Existe(s) == servicio[s] # Nulo

Activo(s) == Existe(s) /\ servicio[s].activo

\* A line from the catalogue as it is now; a price of the body, 0 included, wins.
DeCatalogo(s, n, precio) ==
    LET f == servicio[s].ficha IN
    [s |-> s, cantidad |-> n, nombre |-> f, precio |-> IF precio = Omitido THEN f ELSE precio,
     tipo |-> f]

MutDeFuente(l) == [l EXCEPT !.tipo = IF l.tipo = Nulo THEN servicio[l.s].ficha ELSE l.tipo,
                            !.nombre = servicio[l.s].ficha]

\* A line of the source, with the prices and names it had; a line of before
\* tipoSnapshot takes the type of the catalogue.
DeFuente(l) == [l EXCEPT !.tipo = IF l.tipo = Nulo THEN servicio[l.s].ficha ELSE l.tipo]

\* The request after one more line l; sig is the phase after the last line.
ConItem(r, l, sig) ==
    [r EXCEPT !.items = Append(@, l), !.total = @ + l.precio * l.cantidad,
              !.faltan = Tail(@), !.fase = IF Len(r.faltan) = 1 THEN sig ELSE "items"]

-----------------------------------------------------------------------------
(* createAdminCotizacion *)

\* The body is complete: @ArrayMinSize(1).  Nothing is read if no customer is named.
CreateAdminCotizacion(p) ==
    /\ \E b \in Altas :
         Paso(p, "libre",
              [fase |-> IF b.cliente THEN "cliente" ELSE "items", de |-> Nulo, cuerpo |-> b,
               faltan |-> b.items, items |-> <<>>, total |-> 0, avisos |-> FALSE,
               cliente |-> b.cliente, plantilla |-> Nulo, flag |-> b.flag,
               lecturas |-> {"config"}])
    /\ UNCHANGED <<entorno, cot, linaje>>

ComprobarCliente(p) ==
    /\ Paso(p, "cliente", IF cliente THEN [pet[p] EXCEPT !.fase = "items"] ELSE Libre)
    /\ UNCHANGED <<entorno, cot, linaje>>

MutAdmisible(s) == Existe(s)

\* What buildItems, and a substitution, ask of an item: it exists and is active.
Admisible(s) == Activo(s)

\* One findOne of buildItems.
BuildItem(p) ==
    LET r == pet[p]
        d == Head(r.faltan)
    IN /\ r.fase = "items" /\ r.cuerpo \in Altas
       /\ Paso(p, "items",
               IF Admisible(d.s)
               THEN ConItem(r, DeCatalogo(d.s, d.cantidad, d.precio),
                            IF r.cuerpo.plantilla THEN "plantilla" ELSE "preferencias")
               ELSE Libre)
       /\ UNCHANGED <<entorno, cot, linaje>>

\* A deep copy of the sections, as they are now.
BuildPlantillasSnapshot(p) ==
    /\ Paso(p, "plantilla",
            IF plantilla.activo
            THEN [pet[p] EXCEPT !.plantilla = plantilla.ficha, !.fase = "preferencias"]
            ELSE Libre)
    /\ UNCHANGED <<entorno, cot, linaje>>

-----------------------------------------------------------------------------
(* repetirCotizacion *)

\* findOne of the source; any of its five states will do.
Repetir(p) ==
    /\ \E b \in Repeticiones, q \in Cotizaciones :
         /\ Guardada(q)
         /\ Paso(p, "libre",
                 [fase |-> "items", de |-> q, cuerpo |-> b, faltan |-> cot[q].items,
                  items |-> <<>>, total |-> 0, avisos |-> FALSE, cliente |-> cot[q].cliente,
                  plantilla |-> cot[q].plantilla,
                  flag |-> IF cot[q].flag = Nulo THEN Omitido ELSE cot[q].flag,
                  lecturas |-> {"cliente", "config"}])
    /\ UNCHANGED <<entorno, cot, linaje>>

\* A line of the source to leave out, or one that the user must resolve first.
SinItem(r, aviso) ==
    [r EXCEPT !.faltan = Tail(@), !.avisos = @ \/ aviso,
              !.fase = IF Len(r.faltan) = 1 THEN "preferencias" ELSE "items"]

LineaRepetida(r, l) ==
    LET como == r.cuerpo.resol[l.s]
        originales == r.cuerpo.modo = "originales"
    IN CASE como = "omitir" -> SinItem(r, FALSE)
         [] como \in Servicios ->
              IF Admisible(como)
              THEN ConItem(r, DeCatalogo(como, l.cantidad, Omitido), "preferencias")
              ELSE Libre
         [] como = "conservar" ->
              IF ~Existe(l.s) \/ (~originales /\ ~Activo(l.s)) THEN SinItem(r, TRUE)
              ELSE ConItem(r, IF originales THEN DeFuente(l)
                              ELSE DeCatalogo(l.s, l.cantidad, Omitido), "preferencias")

\* One findOne of buildRepetirItems; with the last, a warning or no line left is a 400.
BuildRepetirItem(p) ==
    LET r == LineaRepetida(pet[p], Head(pet[p].faltan)) IN
    /\ pet[p].fase = "items" /\ pet[p].cuerpo \in Repeticiones
    /\ Paso(p, "items",
            IF r.fase = "preferencias" /\ (r.avisos \/ r.items = <<>>) THEN Libre ELSE r)
    /\ UNCHANGED <<entorno, cot, linaje>>

\* A customer who is no longer active, or cannot be read, is left out.
ResolveRepetirCliente(p) ==
    LET r == pet[p] IN
    /\ r.fase = "preferencias" /\ "cliente" \in r.lecturas
    /\ \E c \in {cliente, FALSE} :
         Paso(p, "preferencias",
              [r EXCEPT !.cliente = @ /\ c, !.lecturas = @ \ {"cliente"},
                        !.fase = IF r.lecturas = {"cliente"} THEN "guardar" ELSE "preferencias"])
    /\ UNCHANGED <<entorno, cot, linaje>>

MutResolveDisplayFlag(flag, preferencia) == IF flag # Omitido THEN flag ELSE preferencia

\* Boolean of the body or the source, else preference of the tenant, else true,
\* also when the configuration cannot be read.
ResolveDisplayFlag(flag, preferencia) ==
    IF flag # Omitido THEN flag ELSE IF preferencia # Nulo THEN preferencia ELSE TRUE

\* The preferences of the tenant may change at any time: any value is read.
ResolveDisplayFlags(p) ==
    LET r == pet[p] IN
    /\ r.fase = "preferencias" /\ "config" \in r.lecturas
    /\ \E leido \in BOOLEAN \cup {Nulo} :
         Paso(p, "preferencias",
              [r EXCEPT !.flag = ResolveDisplayFlag(@, leido), !.lecturas = @ \ {"config"},
                        !.fase = IF r.lecturas = {"config"} THEN "guardar" ELSE "preferencias"])
    /\ UNCHANGED <<entorno, cot, linaje>>

-----------------------------------------------------------------------------
(* Both: the save, after the folio and the dates *)

Nueva(r) ==
    [estado |-> "vigente", items |-> r.items, total |-> r.total, cliente |-> r.cliente,
     plantilla |-> r.plantilla, flag |-> r.flag]

\* The original is read again only if the body asks to cancel it.
Guardar(p) ==
    LET r == pet[p] IN
    /\ r.fase = "guardar"
    /\ \E q \in Cotizaciones :
       /\ ~Guardada(q)
       /\ cot' = [cot EXCEPT ![q] = Nueva(r)]
       /\ IF r.de = Nulo
          THEN Paso(p, "guardar", Libre) /\ UNCHANGED linaje
          ELSE /\ linaje' = [linaje EXCEPT ![q] = [de |-> r.de, cuerpo |-> r.cuerpo]]
               /\ Paso(p, "guardar",
                       IF r.cuerpo.cancelar THEN [fase |-> "releer", de |-> r.de] ELSE Libre)
       /\ UNCHANGED entorno

\* The folio, the dates or the save fail, or the process stops.
Abandonar(p) ==
    /\ Paso(p, "guardar", Libre)
    /\ UNCHANGED <<entorno, cot, linaje>>

-----------------------------------------------------------------------------
(* The cancellation of the original: cambiarEstadoManual within a try *)

Responder(q, ok) == [fase |-> "respondida", de |-> q, originalCancelada |-> ok]

ReleerOriginal(p) ==
    LET q == pet[p].de IN
    /\ \/ Paso(p, "releer", IF cot[q].estado = "cancelada" THEN Responder(q, TRUE)
                            ELSE [fase |-> "leer", de |-> q])
       \/ Paso(p, "releer", [fase |-> "comprobar", de |-> q])
    /\ UNCHANGED <<entorno, cot, linaje>>

\* "La cotizacion ya tiene ese estado" is an error of cambiarEstadoManual.
LeerOriginal(p) ==
    LET q == pet[p].de IN
    /\ Paso(p, "leer", IF cot[q].estado = "cancelada"
                       THEN [fase |-> "comprobar", de |-> q]
                       ELSE [fase |-> "aplicar", de |-> q, leido |-> cot[q].estado])
    /\ UNCHANGED <<entorno, cot, linaje>>

\* The write by the state read; its confirmation may be lost.
CancelarOriginal(p) ==
    LET q == pet[p].de IN
    /\ pet[p].fase = "aplicar"
    /\ \/ /\ cot[q].estado = pet[p].leido
          /\ cot' = [cot EXCEPT ![q].estado = "cancelada"]
          /\ \E r \in {Responder(q, TRUE), [fase |-> "comprobar", de |-> q]} :
               Paso(p, "aplicar", r)
       \/ /\ Paso(p, "aplicar", [fase |-> "comprobar", de |-> q])
          /\ UNCHANGED cot
    /\ UNCHANGED <<entorno, linaje>>

MutTrasError(estado) == estado # "vigente"

\* The answer after an error, by the state that is read then.
TrasError(estado) == estado = "cancelada"

\* The read of the catch; if that fails too, the answer is no.
ComprobarOriginal(p) ==
    LET q == pet[p].de IN
    /\ pet[p].fase = "comprobar"
    /\ \E ok \in {TrasError(cot[q].estado), FALSE} : Paso(p, "comprobar", Responder(q, ok))
    /\ UNCHANGED <<entorno, cot, linaje>>

Terminar(p) ==
    /\ Paso(p, "respondida", Libre)
    /\ UNCHANGED <<entorno, cot, linaje>>

-----------------------------------------------------------------------------
(* What other requests change meanwhile *)

Cambio == cambios < MaxCambios /\ cambios' = cambios + 1 /\ UNCHANGED <<pet, linaje>>

EditarServicio(s) ==
    /\ Cambio /\ Existe(s)
    /\ \/ servicio' = [servicio EXCEPT ![s].ficha = @ + 1]
       \/ servicio' = [servicio EXCEPT ![s].activo = ~@]
    /\ UNCHANGED <<cliente, plantilla, cot>>

\* The compensation of createForTenants deletes an item for good.
BorrarServicio(s) ==
    /\ Cambio /\ Existe(s)
    /\ servicio' = [servicio EXCEPT ![s] = Nulo]
    /\ UNCHANGED <<cliente, plantilla, cot>>

ToggleCliente ==
    /\ Cambio /\ cliente' = ~cliente
    /\ UNCHANGED <<servicio, plantilla, cot>>

EditarPlantilla ==
    /\ Cambio
    /\ \/ plantilla' = [plantilla EXCEPT !.ficha = @ + 1]
       \/ plantilla' = [plantilla EXCEPT !.activo = ~@]
    /\ UNCHANGED <<servicio, cliente, cot>>

\* A user, the customer or the sweep changes the state (module Cotizacion).
OtroCambio(q) ==
    /\ Cambio /\ Guardada(q)
    /\ \E e \in Estados \ {cot[q].estado} : cot' = [cot EXCEPT ![q].estado = e]
    /\ UNCHANGED <<servicio, cliente, plantilla>>

-----------------------------------------------------------------------------

Construyendo(p) == "cuerpo" \in DOMAIN pet[p]

Cancelando(p) == pet[p].fase # "libre" /\ ~Construyendo(p)

ActivosAhora ==
    {<<"servicio", s, servicio[s].ficha>> : s \in {x \in Servicios : Activo(x)}}
    \cup (IF plantilla.activo THEN {<<"plantilla", plantilla.ficha>>} ELSE {})
    \cup (IF cliente THEN {<<"cliente">>} ELSE {})

Observar ==
    /\ testigos' = [p \in Peticiones |->
                      IF Construyendo(p)' THEN testigos[p] \cup ActivosAhora' ELSE {}]
    /\ vista' = [p \in Peticiones |->
                   Cancelando(p)' /\ (vista[p] \/ cot'[pet'[p].de].estado = "cancelada")]

PasoPeticion(p) ==
    \/ CreateAdminCotizacion(p) \/ ComprobarCliente(p) \/ BuildItem(p)
    \/ BuildPlantillasSnapshot(p)
    \/ Repetir(p) \/ BuildRepetirItem(p) \/ ResolveRepetirCliente(p)
    \/ ResolveDisplayFlags(p) \/ Guardar(p) \/ Abandonar(p)
    \/ ReleerOriginal(p) \/ LeerOriginal(p) \/ CancelarOriginal(p)
    \/ ComprobarOriginal(p) \/ Terminar(p)

Next ==
    /\ \/ \E p \in Peticiones : PasoPeticion(p)
       \/ \E s \in Servicios : EditarServicio(s) \/ BorrarServicio(s)
       \/ ToggleCliente \/ EditarPlantilla
       \/ \E q \in Cotizaciones : OtroCambio(q)
    /\ Observar

Spec == Init /\ [][Next]_vars

-----------------------------------------------------------------------------
(* Safety *)

\* A quotation about to be stored holds only what was active, in the version it
\* copied, at some time since its request arrived; the lines that a repetition
\* keeps at their original price are the exception.
SnapshotsVigentes ==
    \A p \in Peticiones : pet[p].fase = "guardar" =>
        LET r == pet[p]
            alta == r.de = Nulo
        IN /\ r.cliente => <<"cliente">> \in testigos[p]
           /\ alta /\ r.plantilla # Nulo => <<"plantilla", r.plantilla>> \in testigos[p]
           /\ \A n \in DOMAIN r.items :
                LET l == r.items[n] IN
                \/ /\ <<"servicio", l.s, l.nombre>> \in testigos[p]
                   /\ l.precio = l.nombre \/ (alta /\ l.precio = 0)
                \/ ~alta /\ r.cuerpo.modo = "originales" /\ r.cuerpo.resol[l.s] = "conservar"

\* Line k of a clone, which comes from line l of its source under body b.
LineaFiel(k, l, b) ==
    /\ k.cantidad = l.cantidad
    /\ IF b.resol[l.s] = "conservar"
       THEN /\ k.s = l.s
            /\ b.modo = "originales" =>
                 /\ k.nombre = l.nombre /\ k.precio = l.precio
                 /\ l.tipo # Nulo => k.tipo = l.tipo
       ELSE k.s = b.resol[l.s]

\* A clone has the lines of its source that the body did not leave out, in order
\* (f gives the line that each comes from); at original prices nothing that others
\* did to the catalogue shows in them.  Its total is the one of its lines.
ClonFiel ==
    \A q \in Cotizaciones : Guardada(q) /\ linaje[q] # Nulo =>
        LET b == linaje[q].cuerpo
            fuente == cot[linaje[q].de].items
            copia == cot[q].items
            quedan == {n \in DOMAIN fuente : b.resol[fuente[n].s] # "omitir"}
        IN /\ \E f \in [DOMAIN copia -> quedan] :
                /\ \A n \in quedan : \E m \in DOMAIN copia : f[m] = n
                /\ \A m, n \in DOMAIN copia : m < n => f[m] < f[n]
                /\ \A n \in DOMAIN copia : LineaFiel(copia[n], fuente[f[n]], b)
           /\ cot[q].plantilla = cot[linaje[q].de].plantilla
           /\ cot[q].total = Suma(copia)

\* "true si la fuente quedo o ya estaba cancelada": the answer of a repetition
\* says that the original is cancelled only if it has been since the clone exists,
\* whatever error, decision or reopening came in between.
CancelacionVeraz ==
    \A p \in Peticiones :
        pet[p].fase = "respondida" /\ pet[p].originalCancelada => vista[p]
=============================================================================
