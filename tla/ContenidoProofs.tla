--------------------------- MODULE ContenidoProofs ---------------------------
(***************************************************************************)
(* Proofs about the content of quotations, for any catalogue, number of    *)
(* quotations, requests, bodies and changes: what a quotation about to be  *)
(* stored copied was active meanwhile, and a repetition that says that it  *)
(* cancelled its original is right.                                        *)
(***************************************************************************)
EXTENDS Contenido, FiniteSetTheorems, SequenceTheorems, WellFoundedInduction, TLAPS

-----------------------------------------------------------------------------
(* The inductive invariant *)

\* The versions of the catalogue and of the template grow with the changes.
CatalogoAcotado ==
    /\ cambios \in 0..MaxCambios
    /\ servicio \in [Servicios -> Servicio \cup {Nulo}]
    /\ cliente \in BOOLEAN /\ plantilla \in Servicio
    /\ plantilla.ficha <= cambios + 2
    /\ \A s \in Servicios : Existe(s) => servicio[s].ficha <= cambios + 2

\* What the slot of a request may hold.
Solicitud == {Libre} \cup Trabajo \cup Cancelacion

Tipos ==
    /\ CatalogoAcotado
    /\ cot \in [Cotizaciones -> Cotizacion \cup {Nulo}]
    /\ pet \in [Peticiones -> Solicitud]
    /\ linaje \in [Cotizaciones -> [de: Cotizaciones, cuerpo: Repeticiones] \cup {Nulo}]
    /\ testigos \in [Peticiones -> SUBSET Testigo]
    /\ vista \in [Peticiones -> BOOLEAN]

\* A stored quotation has a line to repeat.
ConLineas == \A q \in Cotizaciones : Guardada(q) => cot[q].items # <<>>

\* Line l of the request r copies something in t, or keeps an original price.
LineaReciente(r, l, t) ==
    \/ /\ <<"servicio", l.s, l.nombre>> \in t
       /\ l.precio = l.nombre \/ (r.de = Nulo /\ l.precio = 0)
    \/ r.de # Nulo /\ r.cuerpo.modo = "originales" /\ r.cuerpo.resol[l.s] = "conservar"

\* All that r holds is in t, except a customer it has not checked yet.
Reciente(r, t) ==
    /\ r.cliente => <<"cliente">> \in t \/ r.fase = "cliente" \/ "cliente" \in r.lecturas
    /\ r.de = Nulo /\ r.plantilla # Nulo => <<"plantilla", r.plantilla>> \in t
    /\ \A n \in DOMAIN r.items : LineaReciente(r, r.items[n], t)

\* The order in which the two handlers fill the record in.
EnOrden(r) ==
    /\ r.flag \in BOOLEAN \cup {Omitido}
    /\ "config" \in r.lecturas \/ r.flag \in BOOLEAN
    /\ r.fase = "guardar" => r.lecturas = {}
    /\ r.fase \in {"plantilla", "preferencias", "guardar"} => r.items # <<>>
    /\ r.fase = "items" => r.faltan # <<>>
    /\ r.cuerpo \in Altas => r.de = Nulo
         /\ (r.fase \in {"cliente", "items"} => r.faltan \in Seq(ItemDto))
         /\ (r.fase = "cliente" => r.faltan # <<>>)
    /\ r.cuerpo \in Repeticiones => r.de \in Cotizaciones
         /\ r.fase \notin {"cliente", "plantilla"}
         /\ (r.fase = "items" => r.faltan \in Seq(ItemCotizacion))

Obra(r, t) == r \in Trabajo /\ EnOrden(r) /\ Reciente(r, t)

\* The requests that build a quotation: what is active now has been seen.
Obras ==
    \A p \in Peticiones : pet[p] \in Trabajo =>
        /\ Obra(pet[p], testigos[p])
        /\ pet[p].de # Nulo => Guardada(pet[p].de)
        /\ ActivosAhora \subseteq testigos[p]

\* The requests that cancel an original.
Bajas ==
    /\ \A p \in Peticiones : pet[p] \in Cancelacion => Guardada(pet[p].de)
    /\ CancelacionVeraz

CInv == Tipos /\ ConLineas /\ Obras /\ Bajas

-----------------------------------------------------------------------------
(* Lemmas about the constants and the records *)

LEMMA Constantes ==
    /\ MaxCambios \in Nat /\ Ficha \subseteq Nat \ {0}
    /\ Altas \subseteq Alta /\ Repeticiones \subseteq Repeticion
    /\ \A b \in Altas : b.items # <<>>
    /\ Nulo \notin BOOLEAN /\ Omitido \notin BOOLEAN
    /\ Nulo \notin Ficha /\ Omitido \notin Ficha
    /\ "conservar" \notin Servicios /\ "omitir" \notin Servicios
    /\ Nulo \notin Servicio /\ Nulo \notin Cotizacion /\ Nulo \notin Cotizaciones
BY ContenidoAssumption DEF ContenidoAssumption, Ficha

\* A body is of one of the two requests.
LEMMA Cuerpos == \A b \in Altas : b \notin Repeticiones
BY Constantes DEF Alta, Repeticion

\* The three kinds of slot are told apart by the phase.
LEMMA Fases ==
    ASSUME NEW r \in Solicitud
    PROVE  /\ r \in Trabajo <=>
                r.fase \in {"cliente", "items", "plantilla", "preferencias", "guardar"}
           /\ r \in Cancelacion <=>
                r.fase \in {"releer", "leer", "comprobar", "aplicar", "respondida"}
           /\ r = Libre <=> r.fase = "libre"
           /\ r \in Trabajo <=> "cuerpo" \in DOMAIN r
BY DEF Solicitud, Libre, Trabajo, Cancelacion

LEMMA LibreSolicitud == Libre \in Solicitud /\ Libre \notin Trabajo /\ Libre \notin Cancelacion
BY DEF Solicitud, Libre, Trabajo, Cancelacion

LEMMA CamposTrabajo ==
    ASSUME NEW r \in Trabajo
    PROVE  /\ r \in Solicitud
           /\ r.de \in Cotizaciones \cup {Nulo} /\ r.cuerpo \in Altas \cup Repeticiones
           /\ r.faltan \in Seq(ItemDto \cup ItemCotizacion)
           /\ r.items \in Seq(ItemCotizacion) /\ r.total \in Nat
           /\ r.cliente \in BOOLEAN /\ r.plantilla \in Ficha \cup {Nulo}
           /\ r.flag \in BOOLEAN \cup {Nulo, Omitido}
           /\ r.lecturas \subseteq {"cliente", "config"}
BY DEF Trabajo, Solicitud

LEMMA CamposBaja ==
    ASSUME NEW r \in Cancelacion
    PROVE  r \in Solicitud /\ r.de \in Cotizaciones
BY DEF Cancelacion, Solicitud

\* A repetition has a source and an alta has none.
LEMMA ObraDe ==
    ASSUME NEW r, NEW t, Obra(r, t)
    PROVE  /\ r.cuerpo \in Altas <=> r.de = Nulo
           /\ r.cuerpo \in Repeticiones <=> r.de \in Cotizaciones
           /\ r.cuerpo \in Altas \/ r.cuerpo \in Repeticiones
<1>1. r.cuerpo \in Altas \cup Repeticiones
  BY CamposTrabajo DEF Obra
<1>2. r.cuerpo \in Altas => r.de = Nulo
  BY DEF Obra, EnOrden
<1>3. r.cuerpo \in Repeticiones => r.de \in Cotizaciones
  BY DEF Obra, EnOrden
<1>4. QED
  BY <1>1, <1>2, <1>3, Constantes

\* Whatever else was seen, what was seen before still was.
LEMMA ObraMonotona ==
    ASSUME NEW r, NEW t, NEW u, Obra(r, t), t \subseteq u
    PROVE  Obra(r, u)
<1>1. \A l : LineaReciente(r, l, t) => LineaReciente(r, l, u)
  BY DEF LineaReciente
<1>2. QED
  BY <1>1 DEF Obra, Reciente

-----------------------------------------------------------------------------
(* The total: Suma is a fold, and what it computes takes an induction *)

\* Induction on the natural numbers, for a set.
LEMMA Induccion ==
    ASSUME NEW T, 0 \in T, \A n \in Nat : n \in T => n + 1 \in T
    PROVE  Nat \subseteq T
<1> DEFINE R == OpToRel(<, Nat)
           U == Nat \ T
<1>1. IsWellFoundedOn(R, Nat)
  BY NatLessThanWellFounded
<1>2. \A x, y \in Nat : x < y => <<x, y>> \in R
  BY DEF OpToRel
<1> HIDE DEF R
<1>3. SUFFICES ASSUME U # {} PROVE FALSE
  OBVIOUS
<1>4. PICK x \in U : \A y \in U : ~(<<y, x>> \in R)
  BY <1>1, <1>3, WFMin
<1>5. x \in Nat /\ x # 0 /\ x \notin T
  OBVIOUS
<1>6. x - 1 \in Nat /\ x - 1 < x /\ (x - 1) + 1 = x
  BY <1>5
<1>7. x - 1 \in U
  BY <1>5, <1>6
<1>8. QED
  BY <1>2, <1>4, <1>5, <1>6, <1>7

\* A set of some of the first numbers has a greatest one.
LEMMA MaximoExiste ==
    ASSUME NEW n \in Nat, NEW t \in SUBSET (1..n), t # {}
    PROVE  \E x \in t : \A y \in t : x >= y
<1> DEFINE T == {k \in Nat : \A u \in SUBSET (1..k) : u # {} => \E x \in u : \A y \in u : x >= y}
<1>1. 0 \in T
  <2>1. \A u \in SUBSET (1..0) : u = {}
    OBVIOUS
  <2>2. QED
    BY <2>1
<1>2. ASSUME NEW k \in Nat, k \in T PROVE k + 1 \in T
  <2>1. SUFFICES ASSUME NEW u \in SUBSET (1..(k + 1)), u # {}
                 PROVE  \E x \in u : \A y \in u : x >= y
    OBVIOUS
  <2>2. CASE k + 1 \in u
    BY <2>2
  <2>3. CASE k + 1 \notin u
    <3>1. u \in SUBSET (1..k)
      BY <2>3
    <3>2. QED
      BY <1>2, <2>1, <3>1
  <2>4. QED
    BY <2>2, <2>3
<1> HIDE DEF T
<1>3. n \in T
  BY <1>1, <1>2, Induccion
<1>4. QED
  BY <1>3 DEF T

\* The sums of the first elements of w, by the recursion that FoldLeft is made of:
\* h[t] is the sum over t, taken from the last element.
Tabla(w, k, h) ==
    h = [t \in SUBSET (1..k) |-> IF t = {} THEN 0 ELSE h[t \ {Max(t)}] + w[Max(t)]]

LEMMA HayTabla ==
    ASSUME NEW n \in Nat, NEW w \in [1..n -> Nat]
    PROVE  \E h : Tabla(w, n, h)
<1> DEFINE T == {k \in Nat : k <= n => \E h : Tabla(w, k, h)}
<1>1. 0 \in T
  <2> DEFINE h == [t \in SUBSET (1..0) |-> 0]
  <2>1. \A t \in SUBSET (1..0) : t = {}
    OBVIOUS
  <2>2. Tabla(w, 0, h)
    BY <2>1 DEF Tabla
  <2>3. QED
    BY <2>2
<1>2. ASSUME NEW k \in Nat, k \in T PROVE k + 1 \in T
  <2>1. SUFFICES ASSUME k + 1 <= n PROVE \E h : Tabla(w, k + 1, h)
    OBVIOUS
  <2>2. PICK h : Tabla(w, k, h)
    BY <1>2, <2>1
  <2>3. PICK m : m = k + 1
    OBVIOUS
  <2>4. /\ m \in Nat /\ m \in 1..m /\ m \notin 1..k /\ (1..m) \ {m} = 1..k
        /\ \A x \in 1..m : m >= x
    BY <2>3
  <2> DEFINE g == [t \in SUBSET (1..m) |-> IF m \in t THEN h[t \ {m}] + w[m] ELSE h[t]]
  <2>5. ASSUME NEW t \in SUBSET (1..m)
        PROVE  g[t] = IF t = {} THEN 0 ELSE g[t \ {Max(t)}] + w[Max(t)]
    <3>1. g[t] = IF m \in t THEN h[t \ {m}] + w[m] ELSE h[t]
      OBVIOUS
    <3>2. CASE m \in t
      <4>1. Max(t) = m
        <5>1. \A x \in t : m >= x
          BY <2>4
        <5>2. \A y \in t : (\A x \in t : y >= x) => y = m
          BY <2>4, <3>2
        <5>3. QED
          BY <3>2, <5>1, <5>2 DEF Max
      <4>2. t \ {m} \in SUBSET (1..m) /\ m \notin t \ {m}
        OBVIOUS
      <4>3. g[t \ {m}] = h[t \ {m}]
        BY <4>2
      <4> HIDE DEF g
      <4>4. QED
        BY <3>1, <3>2, <4>1, <4>3
    <3>3. CASE m \notin t
      <4>1. t \in SUBSET (1..k)
        BY <2>4, <3>3
      <4>2. h[t] = IF t = {} THEN 0 ELSE h[t \ {Max(t)}] + w[Max(t)]
        <5>1. PICK f : f = [u \in SUBSET (1..k) |->
                              IF u = {} THEN 0 ELSE h[u \ {Max(u)}] + w[Max(u)]]
          OBVIOUS
        <5>2. f = h
          BY <2>2, <5>1 DEF Tabla
        <5>3. f[t] = IF t = {} THEN 0 ELSE h[t \ {Max(t)}] + w[Max(t)]
          BY <4>1, <5>1
        <5>4. QED
          BY <5>2, <5>3
      <4>3. g[t \ {Max(t)}] = h[t \ {Max(t)}]
        <5>1. PICK u : u = t \ {Max(t)}
          OBVIOUS
        <5>2. u \in SUBSET (1..m) /\ m \notin u
          BY <3>3, <5>1
        <5>3. g[u] = h[u]
          BY <5>2
        <5> HIDE DEF g
        <5>4. QED
          BY <5>1, <5>3
      <4> HIDE DEF g
      <4>4. QED
        BY <3>1, <3>3, <4>2, <4>3
    <3>4. QED
      BY <3>2, <3>3
  <2>6. g = [t \in SUBSET (1..m) |-> g[t]]
    OBVIOUS
  <2> HIDE DEF g
  <2>7. Tabla(w, m, g)
    BY <2>5, <2>6, Zenon DEF Tabla
  <2>8. QED
    BY <2>3, <2>7
<1> HIDE DEF T
<1>3. n \in T
  BY <1>1, <1>2, Induccion
<1>4. QED
  BY <1>3 DEF T

Peso(l) == l.precio * l.cantidad

LEMMA PesoNat == ASSUME NEW l \in ItemCotizacion PROVE Peso(l) \in Nat
<1>1. l.precio \in Ficha \cup {0} /\ l.cantidad \in Nat
  BY DEF ItemCotizacion
<1>2. \A x, y \in Nat : x * y \in Nat
  OBVIOUS
<1>3. QED
  BY <1>1, <1>2, Constantes DEF Peso

\* The sum of a sequence of lines is reached adding them one by one.
Parciales(s, p) ==
    /\ p \in [0..Len(s) -> Nat] /\ p[0] = 0
    /\ \A i \in 1..Len(s) : p[i] = p[i - 1] + Peso(s[i])

LEMMA SumaParciales ==
    ASSUME NEW s \in Seq(ItemCotizacion)
    PROVE  \E p : Parciales(s, p) /\ Suma(s) = p[Len(s)]
<1>0. PICK n \in Nat : n = Len(s)
  OBVIOUS
<1>1. n = Len(s) /\ DOMAIN s = 1..n /\ \A i \in 1..n : s[i] \in ItemCotizacion
  <2>1. s \in [1..Len(s) -> ItemCotizacion] /\ DOMAIN s = 1..Len(s)
    BY LenProperties
  <2>2. QED
    BY <1>0, <2>1
<1> DEFINE w == [i \in 1..n |-> Peso(s[i])]
<1>2. w \in [1..n -> Nat]
  BY <1>1, PesoNat
<1>3. \A i \in 1..n : w[i] = s[i].precio * s[i].cantidad
  BY DEF Peso
<1>4. PICK h : Tabla(w, n, h)
  BY <1>2, HayTabla
<1> DEFINE Es(g) == g = [t \in SUBSET (1..n) |->
                           IF t = {} THEN 0
                           ELSE g[t \ {Max(t)}] + s[Max(t)].precio * s[Max(t)].cantidad]
<1>5. Suma(s) = (CHOOSE g : Es(g))[1..n]
  BY <1>1, Zenon DEF Suma, FoldLeft, MapThenFoldSet
<1>6. \E g : Es(g)
  <2>1. \A t \in SUBSET (1..n) : t # {} => Max(t) \in 1..n
    <3>1. SUFFICES ASSUME NEW t \in SUBSET (1..n), t # {} PROVE Max(t) \in t
      OBVIOUS
    <3>2. \E x \in t : \A y \in t : x >= y
      BY <3>1, MaximoExiste
    <3>3. QED
      BY <3>2 DEF Max
  <2>2. [t \in SUBSET (1..n) |-> IF t = {} THEN 0 ELSE h[t \ {Max(t)}] + w[Max(t)]]
        = [t \in SUBSET (1..n) |->
                           IF t = {} THEN 0
                           ELSE h[t \ {Max(t)}] + s[Max(t)].precio * s[Max(t)].cantidad]
    <3> HIDE DEF w
    <3>1. QED
      BY <1>3, <2>1
  <2>3. Es(h)
    BY <1>4, <2>2 DEF Tabla
  <2>4. QED
    BY <2>3
<1>7. PICK g : Es(g) /\ Suma(s) = g[1..n]
  BY <1>5, <1>6
<1>8. \A t \in SUBSET (1..n) :
        g[t] = IF t = {} THEN 0 ELSE g[t \ {Max(t)}] + s[Max(t)].precio * s[Max(t)].cantidad
  <2>1. PICK f : f = [t \in SUBSET (1..n) |->
                           IF t = {} THEN 0
                           ELSE g[t \ {Max(t)}] + s[Max(t)].precio * s[Max(t)].cantidad]
    OBVIOUS
  <2>2. f = g
    BY <1>7, <2>1
  <2>3. \A t \in SUBSET (1..n) :
          f[t] = IF t = {} THEN 0 ELSE g[t \ {Max(t)}] + s[Max(t)].precio * s[Max(t)].cantidad
    BY <2>1
  <2>4. QED
    BY <2>2, <2>3
<1> HIDE DEF Es
<1> DEFINE p == [i \in 0..n |-> g[1..i]]
<1>9. g[{}] = 0
  BY <1>8
<1>10. ASSUME NEW i \in 1..n
       PROVE  g[1..i] = g[1..(i - 1)] + Peso(s[i])
  <2>1. /\ 1..i \in SUBSET (1..n) /\ i \in 1..i /\ (1..i) \ {i} = 1..(i - 1)
        /\ \A y \in 1..i : i >= y
    OBVIOUS
  <2>2. 1..i # {} /\ Max(1..i) = i
    BY <2>1 DEF Max
  <2>3. g[1..i] = g[(1..i) \ {Max(1..i)}] + s[Max(1..i)].precio * s[Max(1..i)].cantidad
    BY <1>8, <2>1, <2>2
  <2>4. QED
    BY <2>1, <2>2, <2>3, Zenon DEF Peso
<1>11. \A i \in 0..n : g[1..i] \in Nat
  <2> DEFINE T == {i \in Nat : i <= n => g[1..i] \in Nat}
  <2>1. 0 \in T
    <3>1. 1..0 = {}
      OBVIOUS
    <3>2. QED
      BY <1>9, <3>1
  <2>2. ASSUME NEW i \in Nat, i \in T PROVE i + 1 \in T
    <3>1. SUFFICES ASSUME i + 1 <= n PROVE g[1..(i + 1)] \in Nat
      OBVIOUS
    <3>2. i + 1 \in 1..n /\ (i + 1) - 1 = i /\ g[1..i] \in Nat
      BY <2>2, <3>1
    <3>3. g[1..(i + 1)] = g[1..i] + Peso(s[i + 1])
      BY <1>10, <3>2
    <3>4. Peso(s[i + 1]) \in Nat
      BY <1>1, <3>2, PesoNat
    <3>5. QED
      BY <3>2, <3>3, <3>4
  <2> HIDE DEF T
  <2>3. Nat \subseteq T
    BY <2>1, <2>2, Induccion
  <2>4. QED
    BY <2>3 DEF T
<1>12. p \in [0..n -> Nat] /\ p[0] = 0 /\ p[n] = Suma(s)
  <2>1. 1..0 = {} /\ 0 \in 0..n /\ n \in 0..n
    OBVIOUS
  <2>2. QED
    BY <1>7, <1>9, <1>11, <2>1
<1>13. \A i \in 1..n : p[i] = p[i - 1] + Peso(s[i])
  <2>1. \A i \in 1..n : i \in 0..n /\ i - 1 \in 0..n
    OBVIOUS
  <2>2. \A i \in 0..n : p[i] = g[1..i]
    OBVIOUS
  <2> HIDE DEF p
  <2>3. QED
    BY <1>10, <2>1, <2>2
<1> HIDE DEF p
<1>14. QED
  BY <1>1, <1>12, <1>13 DEF Parciales

LEMMA SumaNat == ASSUME NEW s \in Seq(ItemCotizacion) PROVE Suma(s) \in Nat
BY SumaParciales DEF Parciales

LEMMA SumaVacia == Suma(<<>>) = 0
<1>1. <<>> \in Seq(ItemCotizacion) /\ Len(<<>>) = 0
  OBVIOUS
<1>2. QED
  BY <1>1, SumaParciales DEF Parciales

LEMMA SumaAppend ==
    ASSUME NEW s \in Seq(ItemCotizacion), NEW l \in ItemCotizacion
    PROVE  Suma(Append(s, l)) = Suma(s) + Peso(l)
<1>1. PICK n \in Nat : n = Len(s)
  OBVIOUS
<1>2. PICK a : a = Append(s, l)
  OBVIOUS
<1>3. /\ a \in Seq(ItemCotizacion) /\ Len(a) = n + 1 /\ a[n + 1] = l
      /\ \A i \in 1..n : a[i] = s[i]
  BY <1>1, <1>2
<1>4. PICK p : Parciales(s, p) /\ Suma(s) = p[n]
  BY <1>1, SumaParciales
<1>5. PICK q : Parciales(a, q) /\ Suma(a) = q[n + 1]
  BY <1>3, SumaParciales
<1>6. p[0] = 0 /\ \A i \in 1..n : p[i] = p[i - 1] + Peso(s[i])
  BY <1>1, <1>4 DEF Parciales
<1>7. q[0] = 0 /\ \A i \in 1..(n + 1) : q[i] = q[i - 1] + Peso(a[i])
  BY <1>3, <1>5 DEF Parciales
<1> DEFINE T == {i \in Nat : i <= n => p[i] = q[i]}
<1>8. 0 \in T
  BY <1>6, <1>7
<1>9. ASSUME NEW i \in Nat, i \in T PROVE i + 1 \in T
  <2>1. SUFFICES ASSUME i + 1 <= n PROVE p[i + 1] = q[i + 1]
    OBVIOUS
  <2>2. i + 1 \in 1..n /\ i + 1 \in 1..(n + 1) /\ (i + 1) - 1 = i /\ p[i] = q[i]
    BY <1>9, <2>1
  <2>3. a[i + 1] = s[i + 1]
    BY <1>3, <2>2
  <2>4. p[i + 1] = p[i] + Peso(s[i + 1]) /\ q[i + 1] = q[i] + Peso(a[i + 1])
    BY <1>6, <1>7, <2>2
  <2>5. QED
    BY <2>2, <2>3, <2>4
<1> HIDE DEF T
<1>10. n \in T
  BY <1>8, <1>9, Induccion
<1>11. p[n] = q[n]
  BY <1>10 DEF T
<1>12. n + 1 \in 1..(n + 1) /\ (n + 1) - 1 = n
  OBVIOUS
<1>13. q[n + 1] = q[n] + Peso(l)
  BY <1>3, <1>7, <1>12
<1>14. QED
  BY <1>2, <1>4, <1>5, <1>11, <1>13

-----------------------------------------------------------------------------
(* What every step does to the histories *)

LEMMA ActivosTipo ==
    ASSUME CatalogoAcotado
    PROVE  /\ ActivosAhora \subseteq Testigo
           /\ \A s \in Servicios : Activo(s) =>
                <<"servicio", s, servicio[s].ficha>> \in ActivosAhora
           /\ plantilla.activo => <<"plantilla", plantilla.ficha>> \in ActivosAhora
           /\ cliente => <<"cliente">> \in ActivosAhora
<1>1. \A s \in Servicios : Activo(s) => servicio[s].ficha \in Ficha
  BY DEF CatalogoAcotado, Activo, Existe, Servicio
<1>2. plantilla.ficha \in Ficha
  BY DEF CatalogoAcotado, Servicio
<1>3. ActivosAhora \subseteq Testigo
  BY <1>1, <1>2 DEF ActivosAhora, Testigo
<1>4. QED
  BY <1>3 DEF ActivosAhora

LEMMA Observado ==
    ASSUME Tipos, pet' \in [Peticiones -> Solicitud], CatalogoAcotado', Observar
    PROVE  /\ testigos' \in [Peticiones -> SUBSET Testigo]
           /\ vista' \in [Peticiones -> BOOLEAN]
           /\ \A p \in Peticiones : pet'[p] \in Trabajo =>
                testigos'[p] = testigos[p] \cup ActivosAhora'
           /\ \A p \in Peticiones : pet'[p] \in Cancelacion =>
                (vista[p] \/ cot'[pet'[p].de].estado = "cancelada" => vista'[p])
<1>1. ActivosAhora' \subseteq Testigo
  <2>1. \A s \in Servicios : Activo(s)' => servicio'[s].ficha \in Ficha
    BY DEF CatalogoAcotado, Activo, Existe, Servicio
  <2>2. plantilla'.ficha \in Ficha
    BY DEF CatalogoAcotado, Servicio
  <2>3. QED
    BY <2>1, <2>2 DEF ActivosAhora, Testigo
<1>2. \A p \in Peticiones :
        /\ pet'[p] \in Trabajo <=> "cuerpo" \in DOMAIN pet'[p]
        /\ pet'[p] \in Cancelacion => pet'[p] \notin Trabajo /\ pet'[p].fase # "libre"
  BY Fases
<1>3. \A p \in Peticiones :
        testigos'[p] = IF Construyendo(p)' THEN testigos[p] \cup ActivosAhora' ELSE {}
  BY DEF Observar
<1>4. \A p \in Peticiones :
        vista'[p] = (Cancelando(p)' /\ (vista[p] \/ cot'[pet'[p].de].estado = "cancelada"))
  BY DEF Observar
<1>5. \A p \in Peticiones :
        /\ Construyendo(p)' <=> pet'[p] \in Trabajo
        /\ pet'[p] \in Cancelacion => Cancelando(p)'
  BY <1>2 DEF Construyendo, Cancelando
<1>6. testigos' \in [Peticiones -> SUBSET Testigo]
  BY <1>1 DEF Observar, Tipos
<1>7. vista' \in [Peticiones -> BOOLEAN]
  BY DEF Observar
<1>8. QED
  BY <1>3, <1>4, <1>5, <1>6, <1>7

\* What the record of a request must satisfy after a step.
Bueno(p) ==
    /\ pet'[p] \in Trabajo =>
         /\ Obra(pet'[p], testigos[p])
         /\ pet'[p].de # Nulo => cot'[pet'[p].de] # Nulo
    /\ pet'[p] \in Cancelacion =>
         /\ cot'[pet'[p].de] # Nulo
         /\ pet'[p].fase = "respondida" /\ pet'[p].originalCancelada =>
              vista[p] \/ cot'[pet'[p].de].estado = "cancelada"

\* A step keeps the invariant when no quotation disappears and every request
\* is left alone or in a good state.
LEMMA PasoCInv ==
    ASSUME CInv, CatalogoAcotado', ConLineas', Observar,
           cot' \in [Cotizaciones -> Cotizacion \cup {Nulo}],
           \A q \in Cotizaciones : cot[q] # Nulo => cot'[q] # Nulo,
           pet' \in [Peticiones -> Solicitud],
           \A p \in Peticiones : pet'[p] = pet[p] \/ Bueno(p),
           linaje' \in [Cotizaciones -> [de: Cotizaciones, cuerpo: Repeticiones] \cup {Nulo}]
    PROVE  CInv'
<1>1. /\ testigos' \in [Peticiones -> SUBSET Testigo]
      /\ vista' \in [Peticiones -> BOOLEAN]
      /\ \A p \in Peticiones : pet'[p] \in Trabajo =>
           testigos'[p] = testigos[p] \cup ActivosAhora'
      /\ \A p \in Peticiones : pet'[p] \in Cancelacion =>
           (vista[p] \/ cot'[pet'[p].de].estado = "cancelada" => vista'[p])
  BY Observado DEF CInv
<1>2. Tipos'
  BY <1>1 DEF Tipos
<1>3. \A p \in Peticiones : Bueno(p)
  <2>1. SUFFICES ASSUME NEW p \in Peticiones, pet'[p] = pet[p] PROVE Bueno(p)
    OBVIOUS
  <2>2. CASE pet[p] \in Trabajo
    <3>1. pet[p].de \in Cotizaciones \cup {Nulo}
      BY <2>2, CamposTrabajo
    <3>2. pet[p] \notin Cancelacion
      BY <2>2, CamposTrabajo, Fases
    <3>3. QED
      BY <2>1, <2>2, <3>1, <3>2 DEF Bueno, CInv, Obras, Guardada
  <2>3. CASE pet[p] \in Cancelacion
    <3>1. pet[p].de \in Cotizaciones
      BY <2>3, CamposBaja
    <3>2. pet[p] \notin Trabajo
      BY <2>3, CamposBaja, Fases
    <3>3. QED
      BY <2>1, <2>3, <3>1, <3>2 DEF Bueno, CInv, Bajas, CancelacionVeraz, Guardada
  <2>4. QED
    BY <2>1, <2>2, <2>3 DEF Bueno
<1>4. ASSUME NEW p \in Peticiones, pet'[p] \in Trabajo
      PROVE  /\ Obra(pet'[p], testigos'[p])
             /\ pet'[p].de # Nulo => cot'[pet'[p].de] # Nulo
             /\ ActivosAhora' \subseteq testigos'[p]
  <2>1. Obra(pet'[p], testigos[p]) /\ testigos[p] \subseteq testigos'[p]
    BY <1>1, <1>3, <1>4 DEF Bueno
  <2>2. QED
    BY <1>1, <1>3, <1>4, <2>1, ObraMonotona DEF Bueno
<1>5. Obras'
  BY <1>4 DEF Obras, Guardada, Obra, EnOrden, Reciente, LineaReciente
<1>6. Bajas'
  <2>1. ASSUME NEW p \in Peticiones, pet'[p].fase = "respondida",
               pet'[p].originalCancelada
        PROVE  vista'[p]
    <3>1. pet'[p] \in Cancelacion
      BY <2>1, Fases
    <3>2. QED
      BY <1>1, <1>3, <2>1, <3>1 DEF Bueno
  <2>2. QED
    BY <1>3, <2>1 DEF Bajas, CancelacionVeraz, Bueno, Guardada
<1>7. QED
  BY <1>2, <1>5, <1>6 DEF CInv

\* A step of one request that stores nothing.
LEMMA PasoLectura ==
    ASSUME CInv, NEW p \in Peticiones, NEW r \in Solicitud, NEW f, Paso(p, f, r), Observar,
           UNCHANGED <<entorno, cot, linaje>>,
           r \in Trabajo => Obra(r, testigos[p]) /\ (r.de # Nulo => Guardada(r.de)),
           r \in Cancelacion =>
             /\ Guardada(r.de)
             /\ r.fase = "respondida" /\ r.originalCancelada =>
                  vista[p] \/ cot[r.de].estado = "cancelada"
    PROVE  CInv'
<1>1. /\ pet' \in [Peticiones -> Solicitud] /\ pet'[p] = r
      /\ \A o \in Peticiones \ {p} : pet'[o] = pet[o]
  BY DEF Paso, CInv, Tipos
<1>2. UNCHANGED <<servicio, cliente, plantilla, cambios, cot, linaje>>
  BY DEF entorno
<1>3. CatalogoAcotado' /\ ConLineas'
  BY <1>2 DEF CInv, Tipos, CatalogoAcotado, Existe, ConLineas, Guardada
<1>4. \A q \in Cotizaciones : cot[q] # Nulo => cot'[q] # Nulo
  BY <1>2
<1>5. Bueno(p)
  BY <1>1, <1>2 DEF Bueno, Guardada
<1>6. /\ cot' \in [Cotizaciones -> Cotizacion \cup {Nulo}]
      /\ linaje' \in [Cotizaciones -> [de: Cotizaciones, cuerpo: Repeticiones] \cup {Nulo}]
  BY <1>2 DEF CInv, Tipos
<1>7. QED
  BY <1>1, <1>3, <1>4, <1>5, <1>6, PasoCInv

-----------------------------------------------------------------------------
(* Lines *)

LEMMA DeCatalogoTipo ==
    ASSUME CatalogoAcotado, NEW s \in Servicios, Existe(s), NEW n \in Nat \ {0},
           NEW precio \in {0, Omitido}
    PROVE  LET l == DeCatalogo(s, n, precio) IN
           /\ l \in ItemCotizacion /\ l.s = s /\ l.nombre = servicio[s].ficha
           /\ l.precio = l.nombre \/ (precio # Omitido /\ l.precio = 0)
<1>1. servicio[s].ficha \in Ficha
  BY DEF CatalogoAcotado, Existe, Servicio
<1>2. QED
  BY <1>1 DEF DeCatalogo, ItemCotizacion

LEMMA DeFuenteTipo ==
    ASSUME CatalogoAcotado, NEW l \in ItemCotizacion, Existe(l.s)
    PROVE  DeFuente(l) \in ItemCotizacion /\ DeFuente(l).s = l.s
<1>1. servicio[l.s].ficha \in Ficha
  BY DEF CatalogoAcotado, Existe, Servicio, ItemCotizacion
<1> DEFINE x == IF l.tipo = Nulo THEN servicio[l.s].ficha ELSE l.tipo
<1>2. x \in Ficha \cup {Nulo}
  BY <1>1 DEF ItemCotizacion
<1>3. DeFuente(l) = [l EXCEPT !.tipo = x]
  BY DEF DeFuente
<1> HIDE DEF x
<1>4. QED
  BY <1>2, <1>3 DEF ItemCotizacion

LEMMA Cola ==
    ASSUME NEW S, NEW x \in Seq(S), x # <<>>
    PROVE  Head(x) \in S /\ Tail(x) \in Seq(S) /\ (Len(x) # 1 => Tail(x) # <<>>)
<1>1. Head(x) \in S /\ Tail(x) \in Seq(S) /\ Len(Tail(x)) = Len(x) - 1
  BY HeadTailProperties
<1>2. Len(x) \in Nat /\ Len(<<>>) = 0
  BY LenProperties, EmptySeq
<1>3. PICK n \in Nat : n = Len(x)
  BY <1>2
<1>4. ASSUME n # 1, Tail(x) = <<>>
      PROVE  FALSE
  <2>1. Len(Tail(x)) = 0
    BY <1>2, <1>4
  <2>2. n - 1 = 0
    BY <1>1, <1>3, <2>1
  <2>3. QED
    BY <1>4, <2>2
<1>5. QED
  BY <1>1, <1>3, <1>4

\* One line more.
LEMMA ConItemObra ==
    ASSUME NEW r, NEW t, Obra(r, t), r.fase = "items", NEW l \in ItemCotizacion,
           LineaReciente(r, l, t), NEW sig \in {"plantilla", "preferencias"},
           sig = "plantilla" => r.cuerpo \in Altas
    PROVE  LET m == ConItem(r, l, sig) IN Obra(m, t) /\ m.de = r.de /\ m.items # <<>>
<1> DEFINE a == Append(r.items, l)
           u == r.total + l.precio * l.cantidad
           k == Tail(r.faltan)
           f == IF Len(r.faltan) = 1 THEN sig ELSE "items"
           m == [r EXCEPT !.items = a, !.total = u, !.faltan = k, !.fase = f]
<1>0. /\ r \in Trabajo /\ r.faltan # <<>> /\ r.items \in Seq(ItemCotizacion)
      /\ r.faltan \in Seq(ItemDto \cup ItemCotizacion) /\ r.total \in Nat
  BY CamposTrabajo DEF Obra, EnOrden
<1>1. m = ConItem(r, l, sig)
  BY DEF ConItem
<1>2. /\ a \in Seq(ItemCotizacion) /\ a # <<>> /\ Len(a) = Len(r.items) + 1
      /\ \A n \in DOMAIN a : (n \in DOMAIN r.items /\ a[n] = r.items[n]) \/ a[n] = l
  BY <1>0
<1>3. u \in Nat
  <2>1. l.precio * l.cantidad \in Nat
    BY PesoNat DEF Peso
  <2>2. QED
    BY <1>0, <2>1
<1>4. /\ k \in Seq(ItemDto \cup ItemCotizacion)
      /\ Len(r.faltan) # 1 => k # <<>>
      /\ r.faltan \in Seq(ItemDto) => k \in Seq(ItemDto)
      /\ r.faltan \in Seq(ItemCotizacion) => k \in Seq(ItemCotizacion)
  BY <1>0, Cola
<1>5. /\ f \in {"items", "plantilla", "preferencias"}
      /\ f = "items" => Len(r.faltan) # 1
      /\ f = "plantilla" => r.cuerpo \in Altas
  OBVIOUS
<1> HIDE DEF a, u, k, f
<1>6. m \in Trabajo
  BY <1>0, <1>2, <1>3, <1>4, <1>5 DEF Trabajo
<1>7. /\ m.fase = f /\ m.de = r.de /\ m.cuerpo = r.cuerpo /\ m.faltan = k /\ m.items = a
      /\ m.cliente = r.cliente /\ m.plantilla = r.plantilla /\ m.flag = r.flag
      /\ m.lecturas = r.lecturas
  BY <1>0 DEF Trabajo
<1> HIDE DEF m
<1>8. EnOrden(m)
  BY <1>2, <1>4, <1>5, <1>7, Cuerpos DEF Obra, EnOrden
<1>9. Reciente(m, t)
  <2>1. \A x : LineaReciente(m, x, t) <=> LineaReciente(r, x, t)
    BY <1>7 DEF LineaReciente
  <2>2. \A n \in DOMAIN m.items : LineaReciente(m, m.items[n], t)
    BY <1>2, <1>7, <2>1 DEF Obra, Reciente
  <2>3. QED
    BY <1>7, <2>2 DEF Obra, Reciente
<1>10. QED
  BY <1>1, <1>2, <1>6, <1>7, <1>8, <1>9 DEF Obra

\* A line left out, of which the last must not be the only one.
LEMMA SinItemObra ==
    ASSUME NEW r, NEW t, Obra(r, t), r.fase = "items", r.cuerpo \in Repeticiones,
           NEW aviso \in BOOLEAN
    PROVE  LET m == SinItem(r, aviso) IN
           /\ m \in Trabajo /\ m.de = r.de
           /\ m.fase # "preferencias" \/ m.items # <<>> => Obra(m, t)
<1> DEFINE v == r.avisos \/ aviso
           k == Tail(r.faltan)
           f == IF Len(r.faltan) = 1 THEN "preferencias" ELSE "items"
           m == [r EXCEPT !.faltan = k, !.avisos = v, !.fase = f]
<1>0. /\ r \in Trabajo /\ r.faltan # <<>> /\ r.avisos \in BOOLEAN
      /\ r.faltan \in Seq(ItemDto \cup ItemCotizacion)
  BY CamposTrabajo DEF Obra, EnOrden, Trabajo
<1>1. m = SinItem(r, aviso)
  BY DEF SinItem
<1>2. v \in BOOLEAN
  BY <1>0
<1>3. /\ k \in Seq(ItemDto \cup ItemCotizacion)
      /\ Len(r.faltan) # 1 => k # <<>>
      /\ r.faltan \in Seq(ItemCotizacion) => k \in Seq(ItemCotizacion)
  BY <1>0, Cola
<1>4. f \in {"items", "preferencias"} /\ (f = "items" => Len(r.faltan) # 1)
  OBVIOUS
<1> HIDE DEF v, k, f
<1>5. m \in Trabajo
  BY <1>0, <1>2, <1>3, <1>4 DEF Trabajo
<1>6. /\ m.fase = f /\ m.de = r.de /\ m.cuerpo = r.cuerpo /\ m.faltan = k
      /\ m.items = r.items
      /\ m.cliente = r.cliente /\ m.plantilla = r.plantilla /\ m.flag = r.flag
      /\ m.lecturas = r.lecturas
  BY <1>0 DEF Trabajo
<1> HIDE DEF m
<1>7. m.fase # "preferencias" \/ m.items # <<>> => EnOrden(m)
  BY <1>3, <1>4, <1>6, Cuerpos DEF Obra, EnOrden
<1>8. Reciente(m, t)
  BY <1>6 DEF Obra, Reciente, LineaReciente
<1>9. QED
  BY <1>1, <1>5, <1>6, <1>7, <1>8 DEF Obra

-----------------------------------------------------------------------------
(* Initial states *)

LEMMA Vacia == \A S : <<>> \in Seq(S) /\ DOMAIN <<>> = {}
BY EmptySeq

\* The ids of the catalogue in some order.
LEMMA Ids ==
    \E n \in Nat \ {0} : SetToSeq(Servicios) \in [1..n -> Servicios]
<1>1. IsFiniteSet(Servicios) /\ Servicios # {}
  BY ContenidoAssumption DEF ContenidoAssumption
<1>2. PICK n \in Nat : n = Cardinality(Servicios)
  BY <1>1, FS_CardinalityType
<1>3. n # 0
  BY <1>1, <1>2, FS_EmptySet
<1>4. \E f \in [1..n -> Servicios] : IsInjective(f)
  BY <1>1, <1>2, FS_CardinalityType DEF ExistsBijection, Bijection, Injection
<1>5. SetToSeq(Servicios) \in [1..n -> Servicios]
  BY <1>2, <1>4 DEF SetToSeq
<1>6. QED
  BY <1>3, <1>5

LEMMA InicioCInv == Init => CInv
<1> SUFFICES ASSUME Init PROVE CInv
  OBVIOUS
<1>1. 1 \in Ficha /\ 2 \in Ficha /\ MaxCambios \in Nat
  BY Constantes DEF Ficha
<1>2. CatalogoAcotado
  <2>1. servicio \in [Servicios -> Servicio] /\ plantilla \in Servicio
    BY <1>1 DEF Init, Servicio
  <2>2. cambios = 0 /\ cliente = TRUE /\ plantilla.ficha = 2
        /\ \A s \in Servicios : servicio[s].ficha = 2
    BY DEF Init
  <2>3. QED
    BY <1>1, <2>1, <2>2 DEF CatalogoAcotado
<1>3. ASSUME NEW k \in Cotizaciones
      PROVE  cot[k] = Nulo \/ (cot[k] \in Cotizacion /\ cot[k].items # <<>>)
  <2>1. PICK n \in Nat \ {0} : SetToSeq(Servicios) \in [1..n -> Servicios]
    BY Ids
  <2> DEFINE ids == SetToSeq(Servicios)
             lineas(t) == [i \in DOMAIN ids |->
                             [s |-> ids[i], cantidad |-> i, nombre |-> 1, precio |-> 1,
                              tipo |-> t]]
  <2>2. PICK antigua \in BOOLEAN :
          \/ cot[k] = Nulo
          \/ \E t \in {Nulo, 1}, f \in {Nulo, FALSE} :
               cot[k] = [estado |-> "vigente", items |-> lineas(t),
                         total |-> Suma(lineas(t)), cliente |-> TRUE,
                         plantilla |-> 1, flag |-> f]
    <3>1. PICK q \in Cotizaciones, antigua \in BOOLEAN :
            cot = [x \in Cotizaciones |->
                     IF x = q
                     THEN [estado |-> "vigente",
                           items |-> lineas(IF antigua THEN Nulo ELSE 1),
                           total |-> Suma(lineas(IF antigua THEN Nulo ELSE 1)),
                           cliente |-> TRUE, plantilla |-> 1,
                           flag |-> IF antigua THEN Nulo ELSE FALSE]
                     ELSE Nulo]
      BY Zenon DEF Init
    <3> HIDE DEF lineas
    <3>2. QED
      BY <3>1
  <2>3. ASSUME NEW t \in {Nulo, 1}
        PROVE  lineas(t) \in Seq(ItemCotizacion) /\ lineas(t) # <<>>
    <3>1. DOMAIN ids = 1..n /\ \A i \in 1..n : ids[i] \in Servicios
      BY <2>1
    <3> HIDE DEF ids
    <3>2. lineas(t) \in [1..n -> ItemCotizacion]
      BY <1>1, <3>1 DEF ItemCotizacion
    <3>3. DOMAIN lineas(t) = 1..n
      BY <3>1
    <3> HIDE DEF lineas
    <3>4. lineas(t) \in Seq(ItemCotizacion)
      BY <3>2, SeqDef
    <3>5. 1 \in DOMAIN lineas(t)
      BY <3>3
    <3>6. QED
      BY <3>4, <3>5, Vacia
  <2> HIDE DEF lineas
  <2>4. CASE cot[k] # Nulo
    <3>1. PICK t \in {Nulo, 1}, f \in {Nulo, FALSE} :
               cot[k] = [estado |-> "vigente", items |-> lineas(t),
                         total |-> Suma(lineas(t)), cliente |-> TRUE,
                         plantilla |-> 1, flag |-> f]
      BY <2>2, <2>4
    <3>2. PICK x \in Seq(ItemCotizacion) : x = lineas(t) /\ x # <<>>
      BY <2>3
    <3>3. PICK m \in Nat : m = Suma(x)
      BY <3>2, SumaNat
    <3>4. cot[k] = [estado |-> "vigente", items |-> x, total |-> m, cliente |-> TRUE,
                    plantilla |-> 1, flag |-> f]
      BY <3>1, <3>2, <3>3
    <3>5. f \in BOOLEAN \cup {Nulo} /\ TRUE \in BOOLEAN /\ "vigente" \in Estados
      BY DEF Estados
    <3>6. cot[k] \in Cotizacion
      BY <1>1, <3>4, <3>5 DEF Cotizacion
    <3>7. cot[k].items = x
      BY <3>4
    <3>8. QED
      BY <3>2, <3>6, <3>7
  <2>5. QED
    BY <2>4
<1>4. cot = [k \in Cotizaciones |-> cot[k]]
  BY DEF Init
<1>5. cot \in [Cotizaciones -> Cotizacion \cup {Nulo}] /\ ConLineas
  BY <1>3, <1>4 DEF ConLineas, Guardada
<1>6. /\ pet \in [Peticiones -> Solicitud] /\ testigos \in [Peticiones -> SUBSET Testigo]
      /\ vista \in [Peticiones -> BOOLEAN]
      /\ linaje \in [Cotizaciones -> [de: Cotizaciones, cuerpo: Repeticiones] \cup {Nulo}]
      /\ \A p \in Peticiones : pet[p] = Libre
  BY LibreSolicitud DEF Init
<1>7. Tipos
  BY <1>2, <1>5, <1>6 DEF Tipos
<1>8. \A p \in Peticiones : pet[p].fase = "libre"
  BY <1>6 DEF Libre
<1>9. Obras /\ Bajas
  BY <1>6, <1>8, LibreSolicitud DEF Obras, Bajas, CancelacionVeraz
<1>10. QED
  BY <1>5, <1>7, <1>9 DEF CInv

-----------------------------------------------------------------------------
(* The steps of createAdminCotizacion *)

\* A request that ends, or that never began.
LEMMA FinCInv ==
    ASSUME CInv, NEW p \in Peticiones, NEW f, Paso(p, f, Libre), Observar,
           UNCHANGED <<entorno, cot, linaje>>
    PROVE  CInv'
BY LibreSolicitud, PasoLectura

LEMMA CreateAdminCInv ==
    ASSUME CInv, NEW p \in Peticiones, CreateAdminCotizacion(p), Observar PROVE CInv'
<1>1. PICK b \in Altas :
        Paso(p, "libre",
             [fase |-> IF b.cliente THEN "cliente" ELSE "items", de |-> Nulo, cuerpo |-> b,
              faltan |-> b.items, items |-> <<>>, total |-> 0, avisos |-> FALSE,
              cliente |-> b.cliente, plantilla |-> Nulo, flag |-> b.flag,
              lecturas |-> {"config"}])
  BY DEF CreateAdminCotizacion
<1>2. /\ b \in Alta /\ b.items # <<>> /\ b.items \in Seq(ItemDto)
      /\ b.cliente \in BOOLEAN /\ b.flag \in BOOLEAN \cup {Omitido}
      /\ b \notin Repeticiones
  BY Constantes, Cuerpos DEF Alta
<1>3. b.items \in Seq(ItemDto \cup ItemCotizacion)
  BY <1>2, SeqMonotonic
<1>4. PICK f \in {"cliente", "items"}, x \in Seq(ItemCotizacion) :
        f = (IF b.cliente THEN "cliente" ELSE "items") /\ x = <<>>
  BY Vacia
<1> DEFINE r == [fase |-> f, de |-> Nulo, cuerpo |-> b,
                 faltan |-> b.items, items |-> x, total |-> 0, avisos |-> FALSE,
                 cliente |-> b.cliente, plantilla |-> Nulo, flag |-> b.flag,
                 lecturas |-> {"config"}]
<1>5. r \in Trabajo
  BY <1>2, <1>3 DEF Trabajo
<1>6. /\ r.fase = f /\ r.de = Nulo /\ r.cuerpo = b /\ r.faltan = b.items /\ r.items = x
      /\ r.cliente = b.cliente /\ r.plantilla = Nulo /\ r.flag = b.flag
      /\ r.lecturas = {"config"}
  OBVIOUS
<1>7. Paso(p, "libre", r)
  BY <1>1, <1>4
<1> HIDE DEF r
<1>8. EnOrden(r)
  BY <1>2, <1>6 DEF EnOrden
<1>9. Reciente(r, testigos[p])
  BY <1>4, <1>6, Vacia DEF Reciente
<1>10. r \in Solicitud /\ r \notin Cancelacion
  BY <1>5, CamposTrabajo, Fases
<1>11. UNCHANGED <<entorno, cot, linaje>>
  BY DEF CreateAdminCotizacion
<1>12. QED
  BY <1>5, <1>6, <1>7, <1>8, <1>9, <1>10, <1>11, PasoLectura DEF Obra

\* What is known of a request that builds a quotation.
LEMMA EnObra ==
    ASSUME CInv, NEW p \in Peticiones,
           pet[p].fase \in {"cliente", "items", "plantilla", "preferencias", "guardar"}
    PROVE  /\ pet[p] \in Trabajo /\ Obra(pet[p], testigos[p])
           /\ pet[p].de # Nulo => Guardada(pet[p].de)
           /\ ActivosAhora \subseteq testigos[p] /\ CatalogoAcotado
BY Fases DEF CInv, Tipos, Obras

\* It goes on with the record m.
LEMMA SigueObra ==
    ASSUME CInv, NEW p \in Peticiones, NEW f, NEW m, Paso(p, f, m), Observar,
           f \in {"cliente", "items", "plantilla", "preferencias", "guardar"},
           m.de = pet[p].de, Obra(m, testigos[p]), UNCHANGED <<entorno, cot, linaje>>
    PROVE  CInv'
<1>1. m.de # Nulo => Guardada(m.de)
  BY EnObra DEF Paso
<1>2. m \in Solicitud /\ m \notin Cancelacion
  BY CamposTrabajo, Fases DEF Obra
<1>3. QED
  BY <1>1, <1>2, PasoLectura

LEMMA ComprobarClienteCInv ==
    ASSUME CInv, NEW p \in Peticiones, ComprobarCliente(p), Observar PROVE CInv'
<1> DEFINE r == pet[p]
           m == [r EXCEPT !.fase = "items"]
<1>1. r.fase = "cliente" /\ UNCHANGED <<entorno, cot, linaje>>
  BY DEF ComprobarCliente, Paso
<1>2. /\ r \in Trabajo /\ Obra(r, testigos[p])
      /\ ActivosAhora \subseteq testigos[p] /\ CatalogoAcotado
  BY <1>1, EnObra
<1>3. m \in Trabajo
  BY <1>2 DEF Trabajo
<1>4. /\ m.fase = "items" /\ m.de = r.de /\ m.cuerpo = r.cuerpo /\ m.faltan = r.faltan
      /\ m.items = r.items /\ m.cliente = r.cliente /\ m.plantilla = r.plantilla
      /\ m.flag = r.flag /\ m.lecturas = r.lecturas
  BY <1>2 DEF Trabajo
<1>5. Paso(p, "cliente", Libre) \/ (cliente /\ Paso(p, "cliente", m))
  BY DEF ComprobarCliente
<1> HIDE DEF m
<1>6. r.cuerpo \in Altas /\ r.cuerpo \notin Repeticiones
  BY <1>1, <1>2, ObraDe, Cuerpos DEF Obra, EnOrden
<1>7. EnOrden(m)
  BY <1>1, <1>2, <1>4, <1>6 DEF Obra, EnOrden
<1>8. cliente => Reciente(m, testigos[p])
  <2>1. cliente => <<"cliente">> \in testigos[p]
    BY <1>2, ActivosTipo
  <2>2. QED
    BY <1>2, <1>4, <2>1 DEF Obra, Reciente, LineaReciente
<1>9. CASE Paso(p, "cliente", Libre)
  BY <1>1, <1>9, FinCInv
<1>10. CASE cliente /\ Paso(p, "cliente", m)
  BY <1>1, <1>3, <1>4, <1>7, <1>8, <1>10, SigueObra DEF Obra
<1>11. QED
  BY <1>5, <1>9, <1>10

\* A line from the catalogue: its item is active now.
LEMMA DeCatalogoReciente ==
    ASSUME CInv, NEW p \in Peticiones, pet[p].fase = "items",
           NEW s \in Servicios, Admisible(s), NEW n \in Nat \ {0},
           NEW precio \in {0, Omitido},
           pet[p].de = Nulo \/ precio = Omitido
    PROVE  LET l == DeCatalogo(s, n, precio) IN
           l \in ItemCotizacion /\ LineaReciente(pet[p], l, testigos[p])
<1>1. /\ CatalogoAcotado /\ ActivosAhora \subseteq testigos[p]
  BY EnObra
<1>2. Existe(s) /\ <<"servicio", s, servicio[s].ficha>> \in ActivosAhora
  BY <1>1, ActivosTipo DEF Admisible, Activo
<1> DEFINE l == DeCatalogo(s, n, precio)
<1>3. /\ l \in ItemCotizacion /\ l.s = s /\ l.nombre = servicio[s].ficha
      /\ l.precio = l.nombre \/ (precio # Omitido /\ l.precio = 0)
  BY <1>1, <1>2, DeCatalogoTipo
<1> HIDE DEF l
<1>4. LineaReciente(pet[p], l, testigos[p])
  BY <1>1, <1>2, <1>3 DEF LineaReciente
<1>5. QED
  BY <1>3, <1>4 DEF l

LEMMA BuildItemCInv ==
    ASSUME CInv, NEW p \in Peticiones, BuildItem(p), Observar PROVE CInv'
<1> DEFINE r == pet[p]
           d == Head(r.faltan)
           sig == IF r.cuerpo.plantilla THEN "plantilla" ELSE "preferencias"
           l == DeCatalogo(d.s, d.cantidad, d.precio)
<1>1. r.fase = "items" /\ r.cuerpo \in Altas /\ UNCHANGED <<entorno, cot, linaje>>
  BY DEF BuildItem
<1>2. r \in Trabajo /\ Obra(r, testigos[p])
  BY <1>1, EnObra
<1>3. r.faltan \in Seq(ItemDto) /\ r.faltan # <<>> /\ r.de = Nulo
  BY <1>1, <1>2 DEF Obra, EnOrden
<1>4. d \in ItemDto
  BY <1>3, Cola
<1>5. d.s \in Servicios /\ d.cantidad \in Nat \ {0} /\ d.precio \in {0, Omitido}
  BY <1>4 DEF ItemDto
<1>6. \/ Paso(p, "items", Libre)
      \/ Admisible(d.s) /\ Paso(p, "items", ConItem(r, l, sig))
  BY DEF BuildItem
<1>7. sig \in {"plantilla", "preferencias"}
  OBVIOUS
<1>8. Admisible(d.s) => l \in ItemCotizacion /\ LineaReciente(r, l, testigos[p])
  BY <1>1, <1>3, <1>5, DeCatalogoReciente
<1> HIDE DEF r, l, sig, d
<1>9. CASE Paso(p, "items", Libre)
  BY <1>1, <1>9, FinCInv
<1>10. CASE Admisible(d.s) /\ Paso(p, "items", ConItem(r, l, sig))
  <2>1. Obra(ConItem(r, l, sig), testigos[p]) /\ ConItem(r, l, sig).de = r.de
    BY <1>1, <1>2, <1>7, <1>8, <1>10, ConItemObra
  <2>2. QED
    BY <1>1, <1>10, <2>1, SigueObra DEF r
<1>11. QED
  BY <1>6, <1>9, <1>10

LEMMA BuildPlantillasCInv ==
    ASSUME CInv, NEW p \in Peticiones, BuildPlantillasSnapshot(p), Observar PROVE CInv'
<1> DEFINE r == pet[p]
           m == [r EXCEPT !.plantilla = plantilla.ficha, !.fase = "preferencias"]
<1>1. r.fase = "plantilla" /\ UNCHANGED <<entorno, cot, linaje>>
  BY DEF BuildPlantillasSnapshot, Paso
<1>2. /\ r \in Trabajo /\ Obra(r, testigos[p])
      /\ ActivosAhora \subseteq testigos[p] /\ CatalogoAcotado
  BY <1>1, EnObra
<1>3. plantilla.ficha \in Ficha
  BY <1>2 DEF CatalogoAcotado, Servicio
<1>4. m \in Trabajo
  BY <1>2, <1>3 DEF Trabajo
<1>5. /\ m.fase = "preferencias" /\ m.de = r.de /\ m.cuerpo = r.cuerpo
      /\ m.items = r.items /\ m.cliente = r.cliente /\ m.plantilla = plantilla.ficha
      /\ m.flag = r.flag /\ m.lecturas = r.lecturas
  BY <1>2 DEF Trabajo
<1>6. \/ Paso(p, "plantilla", Libre)
      \/ plantilla.activo /\ Paso(p, "plantilla", m)
  BY DEF BuildPlantillasSnapshot
<1> HIDE DEF m
<1>7. EnOrden(m)
  BY <1>1, <1>2, <1>5 DEF Obra, EnOrden
<1>8. plantilla.activo => Reciente(m, testigos[p])
  <2>1. plantilla.activo => <<"plantilla", plantilla.ficha>> \in testigos[p]
    BY <1>2, ActivosTipo
  <2>2. QED
    BY <1>1, <1>2, <1>5, <2>1 DEF Obra, Reciente, LineaReciente
<1>9. CASE Paso(p, "plantilla", Libre)
  BY <1>1, <1>9, FinCInv
<1>10. CASE plantilla.activo /\ Paso(p, "plantilla", m)
  BY <1>1, <1>4, <1>5, <1>7, <1>8, <1>10, SigueObra DEF Obra
<1>11. QED
  BY <1>6, <1>9, <1>10

-----------------------------------------------------------------------------
(* The steps of repetirCotizacion *)

LEMMA RepetirCInv ==
    ASSUME CInv, NEW p \in Peticiones, Repetir(p), Observar PROVE CInv'
<1>1. PICK b \in Repeticiones, q \in Cotizaciones :
        /\ Guardada(q)
        /\ Paso(p, "libre",
                [fase |-> "items", de |-> q, cuerpo |-> b, faltan |-> cot[q].items,
                 items |-> <<>>, total |-> 0, avisos |-> FALSE, cliente |-> cot[q].cliente,
                 plantilla |-> cot[q].plantilla,
                 flag |-> IF cot[q].flag = Nulo THEN Omitido ELSE cot[q].flag,
                 lecturas |-> {"cliente", "config"}])
  BY DEF Repetir
<1>2. cot[q] \in Cotizacion /\ cot[q].items # <<>>
  BY <1>1 DEF Guardada, CInv, Tipos, ConLineas
<1>3. PICK f \in BOOLEAN \cup {Omitido} :
        f = IF cot[q].flag = Nulo THEN Omitido ELSE cot[q].flag
  BY <1>2 DEF Cotizacion
<1>4. PICK d \in Seq(ItemCotizacion), c \in BOOLEAN, k \in Ficha \cup {Nulo} :
        d = cot[q].items /\ c = cot[q].cliente /\ k = cot[q].plantilla
  BY <1>2 DEF Cotizacion
<1>5. d \in Seq(ItemDto \cup ItemCotizacion) /\ d # <<>>
  BY <1>2, <1>4, SeqMonotonic
<1>6. PICK x \in Seq(ItemCotizacion) : x = <<>>
  BY Vacia
<1> DEFINE r == [fase |-> "items", de |-> q, cuerpo |-> b, faltan |-> d,
                 items |-> x, total |-> 0, avisos |-> FALSE, cliente |-> c,
                 plantilla |-> k, flag |-> f, lecturas |-> {"cliente", "config"}]
<1>7. Paso(p, "libre", r)
  BY <1>1, <1>3, <1>4, <1>6
<1>8. r \in Trabajo
  BY <1>5 DEF Trabajo
<1>9. /\ r.fase = "items" /\ r.de = q /\ r.cuerpo = b /\ r.faltan = d /\ r.items = x
      /\ r.cliente = c /\ r.plantilla = k /\ r.flag = f
      /\ r.lecturas = {"cliente", "config"}
  OBVIOUS
<1> HIDE DEF r
<1>10. b \notin Altas
  BY Cuerpos
<1>11. EnOrden(r)
  BY <1>5, <1>9, <1>10 DEF EnOrden
<1>12. Reciente(r, testigos[p])
  BY <1>6, <1>9, Vacia, Constantes DEF Reciente
<1>13. r \in Solicitud /\ r \notin Cancelacion
  BY <1>8, CamposTrabajo, Fases
<1>14. UNCHANGED <<entorno, cot, linaje>>
  BY DEF Repetir
<1>15. QED
  BY <1>1, <1>7, <1>8, <1>9, <1>11, <1>12, <1>13, <1>14, PasoLectura DEF Obra

\* What one line of the source becomes.
LEMMA LineaRepetidaObra ==
    ASSUME CInv, NEW p \in Peticiones, pet[p].fase = "items", pet[p].cuerpo \in Repeticiones,
           NEW l \in ItemCotizacion
    PROVE  LET x == LineaRepetida(pet[p], l) IN
           \/ x = Libre
           \/ /\ x.de = pet[p].de
              /\ x.fase # "preferencias" \/ x.items # <<>> => Obra(x, testigos[p])
<1> DEFINE r == pet[p]
           t == testigos[p]
           como == r.cuerpo.resol[l.s]
           originales == r.cuerpo.modo = "originales"
           nueva(s) == ConItem(r, DeCatalogo(s, l.cantidad, Omitido), "preferencias")
           x == LineaRepetida(r, l)
           Bien(y) == /\ y.de = r.de
                      /\ y.fase # "preferencias" \/ y.items # <<>> => Obra(y, t)
<1>1. r \in Trabajo /\ Obra(r, t) /\ r.de \in Cotizaciones /\ r.de # Nulo /\ CatalogoAcotado
  BY EnObra, ObraDe, Constantes
<1>2. /\ l.s \in Servicios /\ l.cantidad \in Nat \ {0}
      /\ como \in Servicios \cup {"conservar", "omitir"}
  BY Constantes DEF ItemCotizacion, Repeticion
<1>3. \/ como = "omitir" /\ x = SinItem(r, FALSE)
      \/ como \in Servicios /\ (x = Libre \/ (Admisible(como) /\ x = nueva(como)))
      \/ /\ como = "conservar"
         /\ \/ x = SinItem(r, TRUE)
            \/ Existe(l.s) /\ originales /\ x = ConItem(r, DeFuente(l), "preferencias")
            \/ Admisible(l.s) /\ ~originales /\ x = nueva(l.s)
  <2>1. CASE como = "omitir"
    <3>1. como \notin Servicios /\ como # "conservar"
      BY <2>1, Constantes
    <3>2. x = SinItem(r, FALSE)
      BY <2>1, <3>1 DEF LineaRepetida
    <3>3. QED
      BY <2>1, <3>2
  <2>2. CASE como \in Servicios
    <3>1. como # "omitir" /\ como # "conservar"
      BY <2>2, Constantes
    <3>2. x = IF Admisible(como) THEN nueva(como) ELSE Libre
      BY <2>2, <3>1 DEF LineaRepetida
    <3> HIDE DEF x, nueva, como
    <3>3. QED
      BY <2>2, <3>2
  <2>3. CASE como = "conservar"
    <3>1. como # "omitir" /\ como \notin Servicios
      BY <2>3, Constantes
    <3>2. x = IF ~Existe(l.s) \/ (~originales /\ ~Activo(l.s)) THEN SinItem(r, TRUE)
              ELSE ConItem(r, IF originales THEN DeFuente(l)
                              ELSE DeCatalogo(l.s, l.cantidad, Omitido), "preferencias")
      BY <2>3, <3>1 DEF LineaRepetida
    <3>3. Activo(l.s) => Admisible(l.s)
      BY DEF Admisible
    <3> HIDE DEF x, como, originales
    <3>4. QED
      BY <2>3, <3>2, <3>3
  <2>4. QED
    BY <1>2, <2>1, <2>2, <2>3
<1>4. ASSUME NEW a \in BOOLEAN
      PROVE  Bien(SinItem(r, a))
  BY <1>1, SinItemObra
<1>5. ASSUME NEW s \in Servicios, Admisible(s)
      PROVE  Bien(nueva(s))
  <2>1. /\ DeCatalogo(s, l.cantidad, Omitido) \in ItemCotizacion
        /\ LineaReciente(r, DeCatalogo(s, l.cantidad, Omitido), t)
    BY <1>2, <1>5, DeCatalogoReciente
  <2>2. Obra(nueva(s), t) /\ nueva(s).de = r.de
    BY <1>1, <2>1, ConItemObra
  <2> HIDE DEF nueva
  <2>3. QED
    BY <2>2
<1>6. ASSUME Existe(l.s), originales, como = "conservar"
      PROVE  Bien(ConItem(r, DeFuente(l), "preferencias"))
  <2>1. DeFuente(l) \in ItemCotizacion /\ DeFuente(l).s = l.s
    BY <1>1, <1>6, DeFuenteTipo
  <2>2. LineaReciente(r, DeFuente(l), t)
    BY <1>1, <1>6, <2>1 DEF LineaReciente
  <2>3. /\ Obra(ConItem(r, DeFuente(l), "preferencias"), t)
        /\ ConItem(r, DeFuente(l), "preferencias").de = r.de
    BY <1>1, <2>1, <2>2, ConItemObra
  <2>4. QED
    BY <2>3
<1> HIDE DEF Bien, nueva, como, originales, x
<1>7. x = Libre \/ Bien(x)
  BY <1>2, <1>3, <1>4, <1>5, <1>6
<1>8. QED
  BY <1>7 DEF Bien, x

LEMMA BuildRepetirItemCInv ==
    ASSUME CInv, NEW p \in Peticiones, BuildRepetirItem(p), Observar PROVE CInv'
<1> DEFINE r == pet[p]
           x == LineaRepetida(r, Head(r.faltan))
<1>1. r.fase = "items" /\ r.cuerpo \in Repeticiones /\ UNCHANGED <<entorno, cot, linaje>>
  BY DEF BuildRepetirItem
<1>2. r \in Trabajo /\ Obra(r, testigos[p])
  BY <1>1, EnObra
<1>3. Head(r.faltan) \in ItemCotizacion
  BY <1>1, <1>2, Cola DEF Obra, EnOrden
<1>4. \/ x = Libre
      \/ /\ x.de = r.de
         /\ x.fase # "preferencias" \/ x.items # <<>> => Obra(x, testigos[p])
  BY <1>1, <1>3, LineaRepetidaObra
<1>5. \/ Paso(p, "items", Libre)
      \/ (x.fase # "preferencias" \/ x.items # <<>>) /\ Paso(p, "items", x)
  <2>1. Paso(p, "items",
             IF x.fase = "preferencias" /\ (x.avisos \/ x.items = <<>>) THEN Libre ELSE x)
    BY DEF BuildRepetirItem
  <2> HIDE DEF x
  <2>2. QED
    BY <2>1
<1> HIDE DEF x
<1>6. CASE Paso(p, "items", Libre) \/ (x = Libre /\ Paso(p, "items", x))
  BY <1>1, <1>6, FinCInv
<1>7. CASE x.de = r.de /\ Obra(x, testigos[p]) /\ Paso(p, "items", x)
  BY <1>1, <1>7, SigueObra
<1>8. QED
  BY <1>4, <1>5, <1>6, <1>7

\* One of the two reads made at once, after which the request may wait for the other.
LEMMA LecturaObra ==
    ASSUME NEW r, NEW t, Obra(r, t), r.fase = "preferencias",
           NEW k \in {"cliente", "config"}, NEW g, NEW m \in Trabajo,
           m.fase = g, m.de = r.de, m.cuerpo = r.cuerpo, m.items = r.items,
           m.plantilla = r.plantilla, m.lecturas = r.lecturas \ {k},
           g = IF r.lecturas = {k} THEN "guardar" ELSE "preferencias",
           m.cliente => r.cliente /\ (k = "cliente" => <<"cliente">> \in t),
           m.flag \in BOOLEAN \cup {Omitido},
           IF k = "config" THEN m.flag \in BOOLEAN ELSE m.flag = r.flag
    PROVE  Obra(m, t)
<1>1. g \in {"preferencias", "guardar"} /\ (g = "guardar" => m.lecturas = {})
  OBVIOUS
<1>2. "config" \in m.lecturas \/ m.flag \in BOOLEAN
  BY DEF Obra, EnOrden
<1>3. EnOrden(m)
  BY <1>1, <1>2 DEF Obra, EnOrden
<1>4. m.cliente => <<"cliente">> \in t \/ "cliente" \in m.lecturas
  BY DEF Obra, Reciente
<1>5. Reciente(m, t)
  BY <1>4 DEF Obra, Reciente, LineaReciente
<1>6. QED
  BY <1>3, <1>5 DEF Obra

LEMMA ResolveClienteCInv ==
    ASSUME CInv, NEW p \in Peticiones, ResolveRepetirCliente(p), Observar PROVE CInv'
<1>1. PICK r : r = pet[p]
  OBVIOUS
<1>2. /\ r.fase = "preferencias" /\ "cliente" \in r.lecturas
      /\ UNCHANGED <<entorno, cot, linaje>>
  BY <1>1 DEF ResolveRepetirCliente
<1>3. /\ r \in Trabajo /\ Obra(r, testigos[p]) /\ ActivosAhora \subseteq testigos[p]
      /\ CatalogoAcotado
  BY <1>1, <1>2, EnObra
<1>4. PICK b \in {cliente, FALSE} :
        Paso(p, "preferencias",
             [r EXCEPT !.cliente = r.cliente /\ b, !.lecturas = r.lecturas \ {"cliente"},
                       !.fase = IF r.lecturas = {"cliente"} THEN "guardar" ELSE "preferencias"])
  BY <1>1 DEF ResolveRepetirCliente
<1>5. PICK c \in BOOLEAN : c = (r.cliente /\ b)
  OBVIOUS
<1>6. PICK u : u = r.lecturas \ {"cliente"}
  OBVIOUS
<1>7. PICK g : g = IF r.lecturas = {"cliente"} THEN "guardar" ELSE "preferencias"
  OBVIOUS
<1> DEFINE m == [r EXCEPT !.cliente = c, !.lecturas = u, !.fase = g]
<1>8. Paso(p, "preferencias", m)
  BY <1>4, <1>5, <1>6, <1>7
<1>9. u \subseteq {"cliente", "config"} /\ g \in {"preferencias", "guardar"}
  BY <1>3, <1>6, <1>7, CamposTrabajo
<1>10. m \in Trabajo
  BY <1>3, <1>9 DEF Trabajo
<1>11. /\ m.fase = g /\ m.de = r.de /\ m.cuerpo = r.cuerpo /\ m.items = r.items
       /\ m.cliente = c /\ m.plantilla = r.plantilla /\ m.flag = r.flag /\ m.lecturas = u
  BY <1>3 DEF Trabajo
<1>12. c => r.cliente /\ <<"cliente">> \in testigos[p]
  BY <1>3, <1>5, ActivosTipo
<1>13. r.flag \in BOOLEAN \cup {Omitido}
  BY <1>3 DEF Obra, EnOrden
<1> HIDE DEF m
<1>14. Obra(m, testigos[p])
  BY <1>2, <1>3, <1>6, <1>7, <1>10, <1>11, <1>12, <1>13, LecturaObra
<1>15. QED
  BY <1>1, <1>2, <1>8, <1>11, <1>14, SigueObra

LEMMA ResolveFlagsCInv ==
    ASSUME CInv, NEW p \in Peticiones, ResolveDisplayFlags(p), Observar PROVE CInv'
<1>1. PICK r : r = pet[p]
  OBVIOUS
<1>2. /\ r.fase = "preferencias" /\ "config" \in r.lecturas
      /\ UNCHANGED <<entorno, cot, linaje>>
  BY <1>1 DEF ResolveDisplayFlags
<1>3. r \in Trabajo /\ Obra(r, testigos[p]) /\ r.flag \in BOOLEAN \cup {Omitido}
  BY <1>1, <1>2, EnObra DEF Obra, EnOrden
<1>4. PICK leido \in BOOLEAN \cup {Nulo} :
        Paso(p, "preferencias",
             [r EXCEPT !.flag = ResolveDisplayFlag(r.flag, leido),
                       !.lecturas = r.lecturas \ {"config"},
                       !.fase = IF r.lecturas = {"config"} THEN "guardar" ELSE "preferencias"])
  BY <1>1 DEF ResolveDisplayFlags
<1>5. PICK f \in BOOLEAN : f = ResolveDisplayFlag(r.flag, leido)
  BY <1>3 DEF ResolveDisplayFlag
<1>6. PICK u : u = r.lecturas \ {"config"}
  OBVIOUS
<1>7. PICK g : g = IF r.lecturas = {"config"} THEN "guardar" ELSE "preferencias"
  OBVIOUS
<1> DEFINE m == [r EXCEPT !.flag = f, !.lecturas = u, !.fase = g]
<1>8. Paso(p, "preferencias", m)
  BY <1>4, <1>5, <1>6, <1>7
<1>9. u \subseteq {"cliente", "config"} /\ g \in {"preferencias", "guardar"}
  BY <1>3, <1>6, <1>7, CamposTrabajo
<1>10. m \in Trabajo
  BY <1>3, <1>9 DEF Trabajo
<1>11. /\ m.fase = g /\ m.de = r.de /\ m.cuerpo = r.cuerpo /\ m.items = r.items
       /\ m.cliente = r.cliente /\ m.plantilla = r.plantilla /\ m.flag = f /\ m.lecturas = u
  BY <1>3 DEF Trabajo
<1> HIDE DEF m
<1>12. Obra(m, testigos[p])
  BY <1>2, <1>3, <1>6, <1>7, <1>10, <1>11, LecturaObra
<1>13. QED
  BY <1>1, <1>2, <1>8, <1>11, <1>12, SigueObra

-----------------------------------------------------------------------------
(* The save *)

\* What is stored is a quotation.
LEMMA NuevaTipo ==
    ASSUME CInv, NEW p \in Peticiones, pet[p].fase = "guardar"
    PROVE  Nueva(pet[p]) \in Cotizacion /\ Nueva(pet[p]).items # <<>>
<1>1. PICK r : r = pet[p]
  OBVIOUS
<1>2. r \in Trabajo /\ Obra(r, testigos[p])
  BY <1>1, EnObra
<1>3. /\ r.items \in Seq(ItemCotizacion) /\ r.total \in Nat /\ r.cliente \in BOOLEAN
      /\ r.plantilla \in Ficha \cup {Nulo}
  BY <1>2, CamposTrabajo
<1>4. r.flag \in BOOLEAN /\ r.items # <<>>
  BY <1>1, <1>2 DEF Obra, EnOrden
<1>5. "vigente" \in Estados
  BY DEF Estados
<1>6. PICK n : n = Nueva(r)
  OBVIOUS
<1>7. n.items = r.items
  BY <1>6 DEF Nueva
<1>8. n \in Cotizacion
  BY <1>3, <1>4, <1>5, <1>6 DEF Nueva, Cotizacion
<1>9. QED
  BY <1>1, <1>4, <1>6, <1>7, <1>8

LEMMA GuardarCInv ==
    ASSUME CInv, NEW p \in Peticiones, Guardar(p), Observar PROVE CInv'
<1>1. PICK r : r = pet[p]
  OBVIOUS
<1>2. r.fase = "guardar" /\ UNCHANGED entorno
  BY <1>1 DEF Guardar
<1>3. /\ r \in Trabajo /\ Obra(r, testigos[p]) /\ (r.de # Nulo => Guardada(r.de))
      /\ CatalogoAcotado
  BY <1>1, <1>2, EnObra
<1>4. PICK q \in Cotizaciones :
        /\ ~Guardada(q) /\ cot' = [cot EXCEPT ![q] = Nueva(r)]
        /\ IF r.de = Nulo
           THEN Paso(p, "guardar", Libre) /\ UNCHANGED linaje
           ELSE /\ linaje' = [linaje EXCEPT ![q] = [de |-> r.de, cuerpo |-> r.cuerpo]]
                /\ Paso(p, "guardar",
                        IF r.cuerpo.cancelar THEN [fase |-> "releer", de |-> r.de] ELSE Libre)
  BY <1>1 DEF Guardar
<1>5. PICK n : n = Nueva(r)
  OBVIOUS
<1>6. n \in Cotizacion /\ n.items # <<>>
  BY <1>1, <1>2, <1>5, NuevaTipo
<1>7. n # Nulo
  BY <1>6, Constantes
<1>8. /\ cot' \in [Cotizaciones -> Cotizacion \cup {Nulo}]
      /\ cot'[q] = n /\ \A k \in Cotizaciones \ {q} : cot'[k] = cot[k]
  BY <1>4, <1>5, <1>6 DEF CInv, Tipos
<1>9. \A k \in Cotizaciones : cot[k] # Nulo => cot'[k] # Nulo
  BY <1>7, <1>8
<1>10. linaje' \in [Cotizaciones -> [de: Cotizaciones, cuerpo: Repeticiones] \cup {Nulo}]
  <2>1. r.de # Nulo => r.de \in Cotizaciones /\ r.cuerpo \in Repeticiones
    BY <1>3, ObraDe, CamposTrabajo
  <2>2. r.de # Nulo =>
          [de |-> r.de, cuerpo |-> r.cuerpo] \in [de: Cotizaciones, cuerpo: Repeticiones]
    BY <2>1
  <2>3. PICK x : x = [de |-> r.de, cuerpo |-> r.cuerpo]
    OBVIOUS
  <2>4. linaje' = linaje \/ (r.de # Nulo /\ linaje' = [linaje EXCEPT ![q] = x])
    BY <1>4, <2>3
  <2>5. QED
    BY <2>2, <2>3, <2>4 DEF CInv, Tipos
<1>11. PICK m : /\ Paso(p, "guardar", m)
                /\ m = Libre \/ (r.de # Nulo /\ m = [fase |-> "releer", de |-> r.de])
  BY <1>4
<1>12. r.de # Nulo => r.de \in Cotizaciones /\ cot'[r.de] # Nulo
  BY <1>3, <1>9, CamposTrabajo DEF Guardada
<1>13. /\ m \in Solicitud /\ m \notin Trabajo
       /\ m \in Cancelacion => m.fase = "releer" /\ m.de = r.de /\ r.de # Nulo
  <2>1. CASE m = Libre
    BY <2>1, LibreSolicitud
  <2>2. CASE r.de # Nulo /\ m = [fase |-> "releer", de |-> r.de]
    <3>1. m \in Cancelacion /\ m.fase = "releer" /\ m.de = r.de
      BY <1>12, <2>2 DEF Cancelacion
    <3>2. QED
      BY <2>2, <3>1, CamposBaja, Fases
  <2>3. QED
    BY <1>11, <2>1, <2>2
<1>14. /\ pet' \in [Peticiones -> Solicitud] /\ pet'[p] = m
       /\ \A o \in Peticiones \ {p} : pet'[o] = pet[o]
  BY <1>11, <1>13 DEF Paso, CInv, Tipos
<1>15. Bueno(p)
  BY <1>12, <1>13, <1>14 DEF Bueno
<1>16. UNCHANGED <<servicio, cliente, plantilla, cambios>>
  BY <1>2 DEF entorno
<1>17. CatalogoAcotado'
  BY <1>3, <1>16 DEF CatalogoAcotado, Existe
<1>18. ConLineas'
  BY <1>6, <1>8 DEF CInv, ConLineas, Guardada
<1>19. QED
  BY <1>8, <1>9, <1>10, <1>14, <1>15, <1>17, <1>18, PasoCInv

LEMMA AbandonarCInv ==
    ASSUME CInv, NEW p \in Peticiones, Abandonar(p), Observar PROVE CInv'
BY FinCInv DEF Abandonar

-----------------------------------------------------------------------------
(* The cancellation of the original *)

\* What is known of a request that has stored its clone.
LEMMA EnBaja ==
    ASSUME CInv, NEW p \in Peticiones,
           pet[p].fase \in {"releer", "leer", "comprobar", "aplicar", "respondida"}
    PROVE  /\ pet[p] \in Cancelacion /\ pet[p].de \in Cotizaciones
           /\ Guardada(pet[p].de) /\ cot[pet[p].de] \in Cotizacion
<1>1. pet[p] \in Cancelacion
  BY Fases DEF CInv, Tipos
<1>2. QED
  BY <1>1, CamposBaja DEF CInv, Tipos, Bajas, Guardada

\* The records that follow it.
LEMMA Bajadas ==
    ASSUME NEW q \in Cotizaciones
    PROVE  /\ [fase |-> "leer", de |-> q] \in Cancelacion
           /\ [fase |-> "comprobar", de |-> q] \in Cancelacion
           /\ \A e \in Estados : [fase |-> "aplicar", de |-> q, leido |-> e] \in Cancelacion
           /\ \A ok \in BOOLEAN : Responder(q, ok) \in Cancelacion
BY DEF Cancelacion, Responder

\* It goes on without a write, and answers yes only if it sees the original cancelled.
LEMMA SigueBaja ==
    ASSUME CInv, NEW p \in Peticiones, NEW f, NEW m \in Cancelacion, Paso(p, f, m), Observar,
           f \in {"releer", "leer", "comprobar", "aplicar"}, m.de = pet[p].de,
           m.fase = "respondida" /\ m.originalCancelada => cot[m.de].estado = "cancelada",
           UNCHANGED <<entorno, cot, linaje>>
    PROVE  CInv'
<1>1. Guardada(m.de)
  BY EnBaja DEF Paso
<1>2. m \in Solicitud /\ m \notin Trabajo
  BY CamposBaja, Fases
<1>3. QED
  BY <1>1, <1>2, PasoLectura

LEMMA ReleerCInv ==
    ASSUME CInv, NEW p \in Peticiones, ReleerOriginal(p), Observar PROVE CInv'
<1>1. PICK q : q = pet[p].de
  OBVIOUS
<1>2. pet[p].fase = "releer" /\ UNCHANGED <<entorno, cot, linaje>>
  BY DEF ReleerOriginal, Paso
<1>3. q \in Cotizaciones
  BY <1>1, <1>2, EnBaja
<1>4. \/ cot[q].estado = "cancelada" /\ Paso(p, "releer", Responder(q, TRUE))
      \/ Paso(p, "releer", [fase |-> "leer", de |-> q])
      \/ Paso(p, "releer", [fase |-> "comprobar", de |-> q])
  BY <1>1 DEF ReleerOriginal
<1>5. PICK m \in Cancelacion :
        /\ Paso(p, "releer", m) /\ m.de = q
        /\ m.fase = "respondida" => cot[q].estado = "cancelada"
  BY <1>3, <1>4, Bajadas DEF Responder
<1>6. QED
  BY <1>1, <1>2, <1>5, SigueBaja

LEMMA LeerCInv ==
    ASSUME CInv, NEW p \in Peticiones, LeerOriginal(p), Observar PROVE CInv'
<1>1. PICK q : q = pet[p].de
  OBVIOUS
<1>2. pet[p].fase = "leer" /\ UNCHANGED <<entorno, cot, linaje>>
  BY DEF LeerOriginal, Paso
<1>3. q \in Cotizaciones /\ cot[q] \in Cotizacion
  BY <1>1, <1>2, EnBaja
<1>4. PICK e \in Estados : e = cot[q].estado
  BY <1>3 DEF Cotizacion
<1>5. \/ Paso(p, "leer", [fase |-> "comprobar", de |-> q])
      \/ Paso(p, "leer", [fase |-> "aplicar", de |-> q, leido |-> e])
  BY <1>1, <1>4 DEF LeerOriginal
<1>6. PICK m \in Cancelacion : Paso(p, "leer", m) /\ m.de = q /\ m.fase # "respondida"
  BY <1>3, <1>5, Bajadas
<1>7. QED
  BY <1>1, <1>2, <1>6, SigueBaja

LEMMA ComprobarOriginalCInv ==
    ASSUME CInv, NEW p \in Peticiones, ComprobarOriginal(p), Observar PROVE CInv'
<1>1. PICK q : q = pet[p].de
  OBVIOUS
<1>2. pet[p].fase = "comprobar" /\ UNCHANGED <<entorno, cot, linaje>>
  BY DEF ComprobarOriginal
<1>3. q \in Cotizaciones
  BY <1>1, <1>2, EnBaja
<1>4. PICK ok \in BOOLEAN :
        /\ Paso(p, "comprobar", Responder(q, ok))
        /\ ok => cot[q].estado = "cancelada"
  BY <1>1 DEF ComprobarOriginal, TrasError
<1>5. PICK m \in Cancelacion : m = Responder(q, ok)
  BY <1>3, Bajadas
<1>6. m.de = q /\ (m.fase = "respondida" /\ m.originalCancelada => cot[q].estado = "cancelada")
  BY <1>4, <1>5 DEF Responder
<1>7. QED
  BY <1>1, <1>2, <1>4, <1>5, <1>6, SigueBaja

LEMMA TerminarCInv ==
    ASSUME CInv, NEW p \in Peticiones, Terminar(p), Observar PROVE CInv'
BY FinCInv DEF Terminar

\* A change of state of one stored quotation.
LEMMA OtroEstado ==
    ASSUME CInv, NEW q \in Cotizaciones, Guardada(q), NEW e \in Estados,
           cot' = [cot EXCEPT ![q].estado = e]
    PROVE  /\ cot' \in [Cotizaciones -> Cotizacion \cup {Nulo}]
           /\ \A k \in Cotizaciones : cot[k] # Nulo => cot'[k] # Nulo
           /\ ConLineas' /\ cot'[q].estado = e
<1>1. cot \in [Cotizaciones -> Cotizacion \cup {Nulo}] /\ cot[q] \in Cotizacion
  BY DEF CInv, Tipos, Guardada
<1>2. PICK x : x = [cot[q] EXCEPT !.estado = e]
  OBVIOUS
<1>3. x \in Cotizacion /\ x.items = cot[q].items /\ x.estado = e
  BY <1>1, <1>2 DEF Cotizacion
<1>4. cot' = [cot EXCEPT ![q] = x]
  BY <1>2
<1>5. cot'[q] = x /\ \A k \in Cotizaciones \ {q} : cot'[k] = cot[k]
  BY <1>1, <1>4
<1>6. x # Nulo
  BY <1>3, Constantes
<1>7. QED
  BY <1>1, <1>3, <1>4, <1>5, <1>6 DEF CInv, ConLineas, Guardada

LEMMA CancelarCInv ==
    ASSUME CInv, NEW p \in Peticiones, CancelarOriginal(p), Observar PROVE CInv'
<1>1. PICK q : q = pet[p].de
  OBVIOUS
<1>2. pet[p].fase = "aplicar" /\ UNCHANGED <<entorno, linaje>>
  BY DEF CancelarOriginal
<1>3. q \in Cotizaciones /\ Guardada(q)
  BY <1>1, <1>2, EnBaja
<1>4. CASE UNCHANGED cot /\ Paso(p, "aplicar", [fase |-> "comprobar", de |-> q])
  <2>1. PICK m \in Cancelacion : m = [fase |-> "comprobar", de |-> q]
    BY <1>3, Bajadas
  <2>2. m.de = q /\ m.fase # "respondida"
    BY <2>1
  <2>3. QED
    BY <1>1, <1>2, <1>4, <2>1, <2>2, SigueBaja
<1>5. CASE /\ cot' = [cot EXCEPT ![q].estado = "cancelada"]
           /\ \E r \in {Responder(q, TRUE), [fase |-> "comprobar", de |-> q]} :
                Paso(p, "aplicar", r)
  <2>1. "cancelada" \in Estados
    BY DEF Estados
  <2>2. /\ cot' \in [Cotizaciones -> Cotizacion \cup {Nulo}]
        /\ \A k \in Cotizaciones : cot[k] # Nulo => cot'[k] # Nulo
        /\ ConLineas' /\ cot'[q].estado = "cancelada"
    BY <1>3, <1>5, <2>1, OtroEstado
  <2>3. PICK m \in {Responder(q, TRUE), [fase |-> "comprobar", de |-> q]} :
          Paso(p, "aplicar", m)
    BY <1>5
  <2>4. m \in Cancelacion /\ m.de = q
    <3>1. Responder(q, TRUE) \in Cancelacion /\ Responder(q, TRUE).de = q
      BY <1>3, Bajadas DEF Responder
    <3>2. PICK o : o = [fase |-> "comprobar", de |-> q]
      OBVIOUS
    <3>3. o \in Cancelacion /\ o.de = q
      BY <1>3, <3>2, Bajadas
    <3>4. QED
      BY <2>3, <3>1, <3>2, <3>3
  <2>5. m \in Solicitud /\ m \notin Trabajo
    BY <2>4, CamposBaja, Fases
  <2>6. /\ pet' \in [Peticiones -> Solicitud] /\ pet'[p] = m
        /\ \A o \in Peticiones \ {p} : pet'[o] = pet[o]
    <3>1. pet' = [pet EXCEPT ![p] = m] /\ pet \in [Peticiones -> Solicitud]
      BY <2>3 DEF Paso, CInv, Tipos
    <3>2. QED
      BY <2>5, <3>1
  <2>7. Bueno(p)
    BY <1>3, <2>2, <2>4, <2>5, <2>6 DEF Bueno, Guardada
  <2>8. UNCHANGED <<servicio, cliente, plantilla, cambios, linaje>>
    BY <1>2 DEF entorno
  <2>9. CatalogoAcotado'
    BY <2>8 DEF CInv, Tipos, CatalogoAcotado, Existe
  <2>10. linaje' \in [Cotizaciones -> [de: Cotizaciones, cuerpo: Repeticiones] \cup {Nulo}]
    BY <2>8 DEF CInv, Tipos
  <2>11. QED
    BY <2>2, <2>6, <2>7, <2>9, <2>10, PasoCInv
<1>6. QED
  BY <1>1, <1>4, <1>5 DEF CancelarOriginal

-----------------------------------------------------------------------------
(* What others change *)

LEMMA PasoAjeno ==
    ASSUME CInv, Cambio, Observar, CatalogoAcotado', UNCHANGED cot PROVE CInv'
<1>1. UNCHANGED <<pet, linaje>>
  BY DEF Cambio
<1>2. ConLineas'
  BY DEF CInv, ConLineas, Guardada
<1>3. QED
  BY <1>1, <1>2, PasoCInv DEF CInv, Tipos

LEMMA UnaVersionMas ==
    ASSUME CInv, Cambio
    PROVE  /\ cambios' \in 0..MaxCambios /\ cambios' = cambios + 1
           /\ \A v \in Ficha : v <= cambios + 2 => v + 1 \in Ficha /\ v + 1 <= cambios' + 2
                                                  /\ v <= cambios' + 2
BY Constantes DEF CInv, Tipos, CatalogoAcotado, Cambio, Ficha

LEMMA EditarServicioCInv ==
    ASSUME CInv, NEW s \in Servicios, EditarServicio(s) \/ BorrarServicio(s), Observar
    PROVE  CInv'
<1>1. /\ Cambio /\ Existe(s) /\ UNCHANGED <<cliente, plantilla, cot>>
      /\ \/ servicio' = [servicio EXCEPT ![s].ficha = servicio[s].ficha + 1]
         \/ servicio' = [servicio EXCEPT ![s].activo = ~servicio[s].activo]
         \/ servicio' = [servicio EXCEPT ![s] = Nulo]
  BY DEF EditarServicio, BorrarServicio
<1>2. CatalogoAcotado
  BY DEF CInv, Tipos
<1>3. servicio[s] \in Servicio /\ servicio[s].ficha <= cambios + 2
  BY <1>1, <1>2 DEF CatalogoAcotado, Existe
<1>4. servicio[s].ficha \in Ficha /\ servicio[s].activo \in BOOLEAN
  BY <1>3 DEF Servicio
<1>5. PICK x : /\ servicio' = [servicio EXCEPT ![s] = x]
               /\ x = Nulo \/ (x \in Servicio /\ x.ficha <= cambios' + 2)
  <2>1. CASE servicio' = [servicio EXCEPT ![s].ficha = servicio[s].ficha + 1]
    <3>1. PICK v \in Ficha : v = servicio[s].ficha + 1 /\ v <= cambios' + 2
      BY <1>1, <1>3, <1>4, UnaVersionMas
    <3>2. PICK x : x = [servicio[s] EXCEPT !.ficha = v]
      OBVIOUS
    <3>3. x \in Servicio /\ x.ficha = v
      BY <1>3, <3>2 DEF Servicio
    <3>4. servicio' = [servicio EXCEPT ![s] = x]
      BY <2>1, <3>1, <3>2
    <3>5. QED
      BY <3>1, <3>3, <3>4
  <2>2. CASE servicio' = [servicio EXCEPT ![s].activo = ~servicio[s].activo]
    <3>1. PICK v \in BOOLEAN : v = ~servicio[s].activo
      BY <1>4
    <3>2. PICK x : x = [servicio[s] EXCEPT !.activo = v]
      OBVIOUS
    <3>3. x \in Servicio /\ x.ficha = servicio[s].ficha
      BY <1>3, <3>2 DEF Servicio
    <3>4. servicio' = [servicio EXCEPT ![s] = x]
      BY <2>2, <3>1, <3>2
    <3>5. x.ficha <= cambios' + 2
      BY <1>1, <1>3, <1>4, <3>3, UnaVersionMas
    <3>6. QED
      BY <3>3, <3>4, <3>5
  <2>3. QED
    BY <1>1, <2>1, <2>2
<1>6. /\ servicio' \in [Servicios -> Servicio \cup {Nulo}] /\ servicio'[s] = x
      /\ \A o \in Servicios \ {s} : servicio'[o] = servicio[o]
  BY <1>2, <1>5 DEF CatalogoAcotado
<1>7. cambios' = cambios + 1 /\ cambios' \in 0..MaxCambios
  BY <1>1, UnaVersionMas
<1>8. \A o \in Servicios : servicio'[o] # Nulo => servicio'[o].ficha <= cambios' + 2
  <2>1. ASSUME NEW o \in Servicios \ {s}, servicio[o] # Nulo
        PROVE  servicio[o].ficha <= cambios' + 2
    <3>1. servicio[o].ficha \in Ficha /\ servicio[o].ficha <= cambios + 2
      BY <1>2, <2>1 DEF CatalogoAcotado, Existe, Servicio
    <3>2. QED
      BY <1>1, <3>1, UnaVersionMas
  <2>2. QED
    BY <1>5, <1>6, <2>1
<1>9. plantilla.ficha <= cambios' + 2
  <2>1. plantilla.ficha \in Ficha /\ plantilla.ficha <= cambios + 2
    BY <1>2 DEF CatalogoAcotado, Servicio
  <2>2. QED
    BY <1>1, <2>1, UnaVersionMas
<1>10. CatalogoAcotado'
  BY <1>1, <1>2, <1>6, <1>7, <1>8, <1>9 DEF CatalogoAcotado, Existe
<1>11. QED
  BY <1>1, <1>10, PasoAjeno

\* The catalogue stays within its bound when one change more is allowed for.
LEMMA OtraVersion ==
    ASSUME CInv, Cambio, UNCHANGED servicio
    PROVE  /\ \A s \in Servicios : servicio'[s] # Nulo => servicio'[s].ficha <= cambios' + 2
           /\ plantilla.ficha \in Ficha /\ plantilla.ficha + 1 \in Ficha
           /\ plantilla.ficha <= cambios' + 2 /\ plantilla.ficha + 1 <= cambios' + 2
<1>1. CatalogoAcotado
  BY DEF CInv, Tipos
<1>2. \A s \in Servicios : servicio[s] # Nulo =>
        servicio[s].ficha \in Ficha /\ servicio[s].ficha <= cambios + 2
  BY <1>1 DEF CatalogoAcotado, Existe, Servicio
<1>3. plantilla.ficha \in Ficha /\ plantilla.ficha <= cambios + 2
  BY <1>1 DEF CatalogoAcotado, Servicio
<1>4. QED
  BY <1>2, <1>3, UnaVersionMas

LEMMA ToggleClienteCInv ==
    ASSUME CInv, ToggleCliente, Observar PROVE CInv'
<1>1. Cambio /\ cliente' \in BOOLEAN /\ UNCHANGED <<servicio, plantilla, cot>>
  BY DEF ToggleCliente
<1>2. CatalogoAcotado'
  BY <1>1, OtraVersion, UnaVersionMas DEF CInv, Tipos, CatalogoAcotado, Existe
<1>3. QED
  BY <1>1, <1>2, PasoAjeno

LEMMA EditarPlantillaCInv ==
    ASSUME CInv, EditarPlantilla, Observar PROVE CInv'
<1>1. /\ Cambio /\ UNCHANGED <<servicio, cliente, cot>>
      /\ \/ plantilla' = [plantilla EXCEPT !.ficha = plantilla.ficha + 1]
         \/ plantilla' = [plantilla EXCEPT !.activo = ~plantilla.activo]
  BY DEF EditarPlantilla
<1>2. plantilla \in Servicio /\ plantilla.activo \in BOOLEAN
  BY DEF CInv, Tipos, CatalogoAcotado, Servicio
<1>3. PICK v \in Ficha : v = plantilla.ficha + 1
  BY <1>1, OtraVersion
<1>4. plantilla' \in Servicio /\ plantilla'.ficha \in {plantilla.ficha, v}
  BY <1>1, <1>2, <1>3 DEF Servicio
<1>5. plantilla'.ficha <= cambios' + 2
  BY <1>1, <1>3, <1>4, OtraVersion
<1>6. CatalogoAcotado'
  BY <1>1, <1>4, <1>5, OtraVersion, UnaVersionMas DEF CInv, Tipos, CatalogoAcotado, Existe
<1>7. QED
  BY <1>1, <1>6, PasoAjeno

LEMMA OtroCambioCInv ==
    ASSUME CInv, NEW q \in Cotizaciones, OtroCambio(q), Observar PROVE CInv'
<1>1. Cambio /\ Guardada(q) /\ UNCHANGED <<servicio, cliente, plantilla, pet, linaje>>
  BY DEF OtroCambio, Cambio
<1>2. PICK e \in Estados : cot' = [cot EXCEPT ![q].estado = e]
  BY DEF OtroCambio
<1>3. /\ cot' \in [Cotizaciones -> Cotizacion \cup {Nulo}]
      /\ \A k \in Cotizaciones : cot[k] # Nulo => cot'[k] # Nulo
      /\ ConLineas'
  BY <1>1, <1>2, OtroEstado
<1>4. CatalogoAcotado'
  BY <1>1, OtraVersion, UnaVersionMas DEF CInv, Tipos, CatalogoAcotado, Existe
<1>5. QED
  BY <1>1, <1>3, <1>4, PasoCInv DEF CInv, Tipos

-----------------------------------------------------------------------------
(* The theorems *)

LEMMA PeticionCInv ==
    ASSUME CInv, NEW p \in Peticiones, PasoPeticion(p), Observar PROVE CInv'
BY CreateAdminCInv, ComprobarClienteCInv, BuildItemCInv, BuildPlantillasCInv, RepetirCInv,
   BuildRepetirItemCInv, ResolveClienteCInv, ResolveFlagsCInv, GuardarCInv, AbandonarCInv,
   ReleerCInv, LeerCInv, CancelarCInv, ComprobarOriginalCInv, TerminarCInv
DEF PasoPeticion

LEMMA SiguienteCInv == CInv /\ [Next]_vars => CInv'
<1>1. ASSUME CInv, Next PROVE CInv'
  BY <1>1, PeticionCInv, EditarServicioCInv, ToggleClienteCInv, EditarPlantillaCInv,
     OtroCambioCInv DEF Next
<1>2. ASSUME CInv, UNCHANGED vars PROVE CInv'
  <2>1. UNCHANGED <<servicio, cliente, plantilla, cot, pet, cambios, linaje, testigos, vista>>
    BY <1>2 DEF vars
  <2>2. Tipos'
    BY <1>2, <2>1 DEF CInv, Tipos, CatalogoAcotado, Existe
  <2>3. ConLineas' /\ Bajas'
    BY <1>2, <2>1 DEF CInv, ConLineas, Guardada, Bajas, CancelacionVeraz
  <2>4. ActivosAhora' = ActivosAhora
    BY <2>1 DEF ActivosAhora, Activo, Existe
  <2>5. \A p \in Peticiones : pet'[p] \in Trabajo =>
          /\ Obra(pet'[p], testigos'[p])
          /\ pet'[p].de # Nulo => cot'[pet'[p].de] # Nulo
          /\ ActivosAhora' \subseteq testigos'[p]
    BY <1>2, <2>1, <2>4 DEF CInv, Obras, Guardada
  <2>6. Obras'
    BY <2>5 DEF Obras, Guardada, Obra, EnOrden, Reciente, LineaReciente
  <2>7. QED
    BY <2>2, <2>3, <2>6 DEF CInv
<1>3. QED
  BY <1>1, <1>2

\* What a request that builds a quotation holds was active since it arrived, and
\* one that cancels an original speaks the truth: the invariant that is inductive.
THEOREM InvarianteContenido == Spec => []CInv
<1>1. Init => CInv
  BY InicioCInv
<1>2. QED
  BY <1>1, SiguienteCInv, PTL DEF Spec

\* Every variable keeps its type, the total of each quotation is a number and no
\* version of an item goes beyond its bound.
THEOREM TiposContenido == Spec => []TypeOK
<1>1. CInv => TypeOK
  <2>1. ASSUME CInv, NEW p \in Peticiones, pet[p].fase = "guardar"
        PROVE  pet[p].flag \in BOOLEAN
    BY <2>1, EnObra DEF Obra, EnOrden
  <2>2. QED
    BY <2>1 DEF CInv, Tipos, CatalogoAcotado, Solicitud, TypeOK
<1>2. QED
  BY <1>1, InvarianteContenido, PTL

\* A quotation about to be stored holds only items, a customer and a template that
\* were active, in the version it copied, since its request arrived.
THEOREM SnapshotsRecientes == Spec => []SnapshotsVigentes
<1>1. ASSUME CInv, NEW p \in Peticiones, pet[p].fase = "guardar"
      PROVE  LET r == pet[p]
                 alta == r.de = Nulo
             IN /\ r.cliente => <<"cliente">> \in testigos[p]
                /\ alta /\ r.plantilla # Nulo => <<"plantilla", r.plantilla>> \in testigos[p]
                /\ \A n \in DOMAIN r.items :
                     LET l == r.items[n] IN
                     \/ /\ <<"servicio", l.s, l.nombre>> \in testigos[p]
                        /\ l.precio = l.nombre \/ (alta /\ l.precio = 0)
                     \/ ~alta /\ r.cuerpo.modo = "originales" /\ r.cuerpo.resol[l.s] = "conservar"
  <2>1. Obra(pet[p], testigos[p])
    BY <1>1, EnObra
  <2>2. pet[p].lecturas = {}
    BY <1>1, <2>1 DEF Obra, EnOrden
  <2>3. QED
    BY <1>1, <2>1, <2>2 DEF Obra, Reciente, LineaReciente
<1>2. CInv => SnapshotsVigentes
  BY <1>1 DEF SnapshotsVigentes
<1>3. QED
  BY <1>2, InvarianteContenido, PTL

\* A repetition answers that its original is cancelled only if it has been at some
\* time since the clone was stored.
THEOREM RespuestaVeraz == Spec => []CancelacionVeraz
<1>1. CInv => CancelacionVeraz
  BY DEF CInv, Bajas
<1>2. QED
  BY <1>1, InvarianteContenido, PTL

-----------------------------------------------------------------------------
(* Clones: the lines read so far are a copy of those of the source *)

\* The lines among the first k of fuente that the body b does not leave out.
Quedan(fuente, b, k) == {n \in 1..k : b.resol[fuente[n].s] # "omitir"}

\* copia is what b makes of the first k lines of fuente.
CopiaHasta(copia, fuente, b, k) ==
    \E f \in [DOMAIN copia -> Quedan(fuente, b, k)] :
        /\ \A n \in Quedan(fuente, b, k) : \E m \in DOMAIN copia : f[m] = n
        /\ \A m, n \in DOMAIN copia : m < n => f[m] < f[n]
        /\ \A n \in DOMAIN copia : LineaFiel(copia[n], fuente[f[n]], b)

\* How many lines of fuente the repetition r has read.
Leidas(r, fuente) == IF r.fase = "items" THEN Len(fuente) - Len(r.faltan) ELSE Len(fuente)

\* The repetition r of a quotation with the lines fuente and the template plt.
Copiando(r, fuente, plt) ==
    /\ r.fase = "items" =>
         /\ Len(r.faltan) <= Len(fuente)
         /\ \A i \in 1..Len(r.faltan) : r.faltan[i] = fuente[Leidas(r, fuente) + i]
    /\ r.fase # "items" => ~r.avisos
    /\ r.avisos \/ CopiaHasta(r.items, fuente, r.cuerpo, Leidas(r, fuente))
    /\ r.plantilla = plt
    /\ r.total = Suma(r.items)

\* The stored quotation c is a clone of f under the body b.
EsClon(c, f, b) ==
    /\ CopiaHasta(c.items, f.items, b, Len(f.items))
    /\ c.plantilla = f.plantilla /\ c.total = Suma(c.items)

Clones ==
    /\ \A p \in Peticiones : pet[p] \in Trabajo /\ pet[p].de # Nulo =>
         Copiando(pet[p], cot[pet[p].de].items, cot[pet[p].de].plantilla)
    /\ \A q \in Cotizaciones : cot[q] # Nulo /\ linaje[q] # Nulo =>
         cot[linaje[q].de] # Nulo /\ EsClon(cot[q], cot[linaje[q].de], linaje[q].cuerpo)
    /\ \A q \in Cotizaciones : cot[q] = Nulo => linaje[q] = Nulo

LEMMA CopiaVacia ==
    ASSUME NEW fuente, NEW b
    PROVE  CopiaHasta(<<>>, fuente, b, 0)
<1>1. Quedan(fuente, b, 0) = {}
  BY DEF Quedan
<1>2. DOMAIN <<>> = {}
  OBVIOUS
<1>3. PICK D : D = {}
  OBVIOUS
<1>4. PICK f : f = [n \in D |-> n]
  OBVIOUS
<1>5. f \in [D -> D]
  BY <1>3, <1>4
<1>6. QED
  BY <1>1, <1>2, <1>3, <1>5 DEF CopiaHasta

LEMMA CopiaSigue ==
    ASSUME NEW fuente, NEW copia \in Seq(ItemCotizacion), NEW b, NEW k \in Nat,
           CopiaHasta(copia, fuente, b, k)
    PROVE  /\ b.resol[fuente[k + 1].s] = "omitir" => CopiaHasta(copia, fuente, b, k + 1)
           /\ \A l \in ItemCotizacion :
                b.resol[fuente[k + 1].s] # "omitir" /\ LineaFiel(l, fuente[k + 1], b) =>
                  CopiaHasta(Append(copia, l), fuente, b, k + 1)
<1>1. PICK j \in Nat : j = k + 1
  OBVIOUS
<1> DEFINE Q == Quedan(fuente, b, k)
           J == Quedan(fuente, b, j)
<1>2. PICK f \in [DOMAIN copia -> Q] :
        /\ \A n \in Q : \E m \in DOMAIN copia : f[m] = n
        /\ \A m, n \in DOMAIN copia : m < n => f[m] < f[n]
        /\ \A n \in DOMAIN copia : LineaFiel(copia[n], fuente[f[n]], b)
  BY DEF CopiaHasta
<1>3. /\ Q \subseteq 1..k /\ \A n \in Q : n < j
      /\ J = IF b.resol[fuente[j].s] # "omitir" THEN Q \cup {j} ELSE Q
  BY <1>1 DEF Quedan
<1>4. CASE b.resol[fuente[j].s] = "omitir"
  <2>1. J = Q
    BY <1>3, <1>4
  <2>2. CopiaHasta(copia, fuente, b, j)
    BY <1>2, <2>1 DEF CopiaHasta
  <2>3. QED
    BY <1>1, <1>4, <2>2
<1>5. ASSUME b.resol[fuente[j].s] # "omitir", NEW l \in ItemCotizacion,
             LineaFiel(l, fuente[j], b)
      PROVE  CopiaHasta(Append(copia, l), fuente, b, j)
  <2>1. PICK c : c = Append(copia, l)
    OBVIOUS
  <2>2. PICK h \in Nat : h = Len(copia) + 1
    OBVIOUS
  <2>3. /\ DOMAIN copia = 1..(h - 1) /\ DOMAIN c = 1..h /\ c[h] = l
        /\ \A n \in 1..(h - 1) : c[n] = copia[n]
    BY <2>1, <2>2
  <2>4. h \notin DOMAIN copia /\ DOMAIN c = DOMAIN copia \cup {h}
        /\ \A n \in DOMAIN copia : n < h
    BY <2>2, <2>3
  <2>5. J = Q \cup {j}
    BY <1>3, <1>5
  <2>6. PICK g : g = [n \in DOMAIN c |-> IF n = h THEN j ELSE f[n]]
    OBVIOUS
  <2>7. /\ g[h] = j /\ \A n \in DOMAIN copia : g[n] = f[n] /\ f[n] \in Q
        /\ g \in [DOMAIN c -> J]
    BY <1>2, <2>4, <2>5, <2>6
  <2>8. \A n \in J : \E m \in DOMAIN c : g[m] = n
    BY <1>2, <2>4, <2>5, <2>7
  <2>9. ASSUME NEW m \in DOMAIN c, NEW n \in DOMAIN c, m < n
        PROVE  g[m] < g[n]
    <3>1. m \in DOMAIN copia
      BY <2>2, <2>3, <2>9
    <3>2. CASE n = h
      BY <1>3, <2>7, <3>1, <3>2
    <3>3. CASE n \in DOMAIN copia
      BY <1>2, <2>7, <2>9, <3>1, <3>3
    <3>4. QED
      BY <2>4, <3>2, <3>3
  <2>10. ASSUME NEW n \in DOMAIN c
         PROVE  LineaFiel(c[n], fuente[g[n]], b)
    <3>1. CASE n = h
      BY <1>5, <2>3, <2>7, <3>1
    <3>2. CASE n \in DOMAIN copia
      <4>1. c[n] = copia[n] /\ g[n] = f[n]
        BY <2>3, <2>7, <3>2
      <4>2. QED
        BY <1>2, <3>2, <4>1
    <3>3. QED
      BY <2>4, <3>1, <3>2
  <2>11. CopiaHasta(c, fuente, b, j)
    BY <2>7, <2>8, <2>9, <2>10 DEF CopiaHasta
  <2>12. QED
    BY <2>1, <2>11
<1>6. QED
  BY <1>1, <1>4, <1>5

\* A line that buildRepetirItems makes is faithful to the one it comes from.
LEMMA LineasFieles ==
    ASSUME NEW l \in ItemCotizacion, NEW b \in Repeticion
    PROVE  /\ b.resol[l.s] \in Servicios =>
                LineaFiel(DeCatalogo(b.resol[l.s], l.cantidad, Omitido), l, b)
           /\ b.resol[l.s] = "conservar" => LineaFiel(DeFuente(l), l, b)
           /\ b.resol[l.s] = "conservar" /\ b.modo # "originales" =>
                LineaFiel(DeCatalogo(l.s, l.cantidad, Omitido), l, b)
<1>1. "conservar" \notin Servicios
  BY Constantes
<1>2. \A s, precio : /\ DeCatalogo(s, l.cantidad, precio).s = s
                     /\ DeCatalogo(s, l.cantidad, precio).cantidad = l.cantidad
  BY DEF DeCatalogo
<1>3. PICK x : x = IF l.tipo = Nulo THEN servicio[l.s].ficha ELSE l.tipo
  OBVIOUS
<1>4. DeFuente(l) = [l EXCEPT !.tipo = x]
  BY <1>3 DEF DeFuente
<1>5. /\ DeFuente(l).s = l.s /\ DeFuente(l).cantidad = l.cantidad
      /\ DeFuente(l).nombre = l.nombre /\ DeFuente(l).precio = l.precio
      /\ DeFuente(l).tipo = x
  BY <1>4 DEF ItemCotizacion
<1>6. QED
  BY <1>1, <1>2, <1>3, <1>5 DEF LineaFiel

\* What no step changes in a quotation once it is stored.
Firme ==
    \A q \in Cotizaciones : cot[q] # Nulo =>
        /\ cot'[q] # Nulo /\ cot'[q].items = cot[q].items
        /\ cot'[q].plantilla = cot[q].plantilla /\ cot'[q].total = cot[q].total

\* A step of a request that stores nothing.
LEMMA PasoClones ==
    ASSUME CInv, Clones, NEW p \in Peticiones, NEW f, NEW m, Paso(p, f, m),
           UNCHANGED <<entorno, cot, linaje>>,
           m \in Trabajo /\ m.de # Nulo =>
             Copiando(m, cot[m.de].items, cot[m.de].plantilla)
    PROVE  Clones'
<1>1. pet \in [Peticiones -> Solicitud] /\ pet' = [pet EXCEPT ![p] = m]
  BY DEF CInv, Tipos, Paso
<1>2. \A o \in Peticiones : pet'[o] = pet[o] \/ (o = p /\ pet'[o] = m)
  BY <1>1
<1>3. \A o \in Peticiones : pet'[o] \in Trabajo /\ pet'[o].de # Nulo =>
        Copiando(pet'[o], cot[pet'[o].de].items, cot[pet'[o].de].plantilla)
  BY <1>2 DEF Clones
<1>4. \A q \in Cotizaciones : cot'[q] # Nulo /\ linaje'[q] # Nulo =>
        cot'[linaje'[q].de] # Nulo /\ EsClon(cot'[q], cot'[linaje'[q].de], linaje'[q].cuerpo)
  BY DEF Clones
<1>5. cot' = cot
  OBVIOUS
<1>6. \A o \in Peticiones : pet'[o] \in Trabajo /\ pet'[o].de # Nulo =>
        Copiando(pet'[o], cot'[pet'[o].de].items, cot'[pet'[o].de].plantilla)
  BY <1>3, <1>5
<1>7. \A q \in Cotizaciones : cot'[q] = Nulo => linaje'[q] = Nulo
  BY DEF Clones
<1>8. QED
  BY <1>4, <1>6, <1>7 DEF Clones, Copiando, Leidas, EsClon, CopiaHasta, Quedan, LineaFiel

\* A step that changes no request, or ends one, and leaves what is stored.
LEMMA FirmeClones ==
    ASSUME CInv, Clones, Firme, linaje' = linaje,
           \A q \in Cotizaciones : cot[q] = Nulo => cot'[q] = Nulo,
           \A o \in Peticiones : pet'[o] \in Trabajo => pet'[o] = pet[o]
    PROVE  Clones'
<1>1. ASSUME NEW o \in Peticiones, pet'[o] \in Trabajo, pet'[o].de # Nulo
      PROVE  Copiando(pet'[o], cot'[pet'[o].de].items, cot'[pet'[o].de].plantilla)
  <2>1. PICK r \in Trabajo : r = pet[o] /\ pet'[o] = r /\ r.de # Nulo
    BY <1>1
  <2>2. r.de \in Cotizaciones /\ cot[r.de] # Nulo
    BY <2>1, CamposTrabajo DEF CInv, Obras, Guardada
  <2>3. Copiando(r, cot[r.de].items, cot[r.de].plantilla)
    BY <2>1 DEF Clones
  <2>4. QED
    BY <2>1, <2>2, <2>3 DEF Firme
<1>2. ASSUME NEW q \in Cotizaciones, cot'[q] # Nulo, linaje'[q] # Nulo
      PROVE  cot'[linaje'[q].de] # Nulo
             /\ EsClon(cot'[q], cot'[linaje'[q].de], linaje'[q].cuerpo)
  <2>1. PICK d \in Cotizaciones : d = linaje[q].de
    BY <1>2 DEF CInv, Tipos
  <2>2. cot[q] # Nulo /\ cot[d] # Nulo /\ EsClon(cot[q], cot[d], linaje[q].cuerpo)
    BY <1>2, <2>1 DEF Clones
  <2>3. cot'[d] # Nulo /\ EsClon(cot'[q], cot'[d], linaje[q].cuerpo)
    BY <2>2 DEF Firme, EsClon
  <2>4. QED
    BY <2>1, <2>3
<1>3. \A q \in Cotizaciones : cot'[q] = Nulo => linaje'[q] = Nulo
  BY DEF Clones, Firme
<1>4. QED
  BY <1>1, <1>2, <1>3 DEF Clones, Copiando, Leidas, EsClon, CopiaHasta, Quedan, LineaFiel

\* A change of state leaves the content.
LEMMA EstadoFirme ==
    ASSUME CInv, NEW q \in Cotizaciones, cot[q] # Nulo, NEW e \in Estados,
           cot' = [cot EXCEPT ![q].estado = e]
    PROVE  Firme /\ \A k \in Cotizaciones : cot[k] = Nulo => cot'[k] = Nulo
<1>1. cot \in [Cotizaciones -> Cotizacion \cup {Nulo}] /\ cot[q] \in Cotizacion
  BY DEF CInv, Tipos
<1>2. PICK x : x = [cot[q] EXCEPT !.estado = e]
  OBVIOUS
<1>3. x \in Cotizacion
  BY <1>1, <1>2 DEF Cotizacion
<1>4. x.items = cot[q].items /\ x.plantilla = cot[q].plantilla /\ x.total = cot[q].total
  BY <1>1, <1>2 DEF Cotizacion
<1>5. cot' = [cot EXCEPT ![q] = x]
  BY <1>2
<1>6. cot'[q] = x /\ \A k \in Cotizaciones \ {q} : cot'[k] = cot[k]
  BY <1>1, <1>5
<1>7. x # Nulo
  BY <1>3, Constantes
<1>8. QED
  BY <1>4, <1>6, <1>7 DEF Firme

\* A request that builds a quotation from the catalogue copies nothing.
LEMMA AltaClones ==
    ASSUME CInv, Clones, NEW p \in Peticiones,
           ComprobarCliente(p) \/ BuildItem(p) \/ BuildPlantillasSnapshot(p)
    PROVE  Clones'
<1>1. PICK f \in {"cliente", "items", "plantilla"} :
        /\ pet[p].fase = f /\ (f = "items" => pet[p].cuerpo \in Altas)
        /\ UNCHANGED <<entorno, cot, linaje>>
  BY DEF ComprobarCliente, BuildItem, BuildPlantillasSnapshot, Paso
<1>2. Obra(pet[p], testigos[p])
  BY <1>1, EnObra
<1>3. pet[p].de = Nulo /\ pet[p] \in Trabajo
  BY <1>1, <1>2, ObraDe DEF Obra, EnOrden
<1>4. PICK m : Paso(p, f, m) /\ (m = Libre \/ m.de = pet[p].de)
  <2>1. CASE ComprobarCliente(p)
    <3>1. PICK m : m = [pet[p] EXCEPT !.fase = "items"]
      OBVIOUS
    <3>2. m.de = pet[p].de
      BY <1>3, <3>1 DEF Trabajo
    <3>3. Paso(p, "cliente", m) \/ Paso(p, "cliente", Libre)
      BY <2>1, <3>1 DEF ComprobarCliente
    <3>4. QED
      BY <1>1, <3>2, <3>3 DEF Paso
  <2>2. CASE BuildItem(p)
    <3>1. PICK l, sig : \/ Paso(p, "items", ConItem(pet[p], l, sig))
                        \/ Paso(p, "items", Libre)
      BY <2>2 DEF BuildItem
    <3>2. ConItem(pet[p], l, sig).de = pet[p].de
      BY <1>3 DEF ConItem, Trabajo
    <3>3. QED
      BY <1>1, <3>1, <3>2 DEF Paso
  <2>3. CASE BuildPlantillasSnapshot(p)
    <3>1. PICK m : m = [pet[p] EXCEPT !.plantilla = plantilla.ficha, !.fase = "preferencias"]
      OBVIOUS
    <3>2. m.de = pet[p].de
      BY <1>3, <3>1 DEF Trabajo
    <3>3. Paso(p, "plantilla", m) \/ Paso(p, "plantilla", Libre)
      BY <2>3, <3>1 DEF BuildPlantillasSnapshot
    <3>4. QED
      BY <1>1, <3>2, <3>3 DEF Paso
  <2>4. QED
    BY <2>1, <2>2, <2>3
<1>5. m \in Trabajo => m.de = Nulo
  BY <1>3, <1>4, LibreSolicitud
<1>6. QED
  BY <1>1, <1>4, <1>5, PasoClones

LEMMA CreateAdminClones ==
    ASSUME CInv, Clones, NEW p \in Peticiones, CreateAdminCotizacion(p) PROVE Clones'
<1>1. PICK m :
        /\ Paso(p, "libre", m)
        /\ \E b \in Altas : m =
             [fase |-> IF b.cliente THEN "cliente" ELSE "items", de |-> Nulo, cuerpo |-> b,
              faltan |-> b.items, items |-> <<>>, total |-> 0, avisos |-> FALSE,
              cliente |-> b.cliente, plantilla |-> Nulo, flag |-> b.flag,
              lecturas |-> {"config"}]
  BY DEF CreateAdminCotizacion
<1>2. m.de = Nulo
  BY <1>1
<1>3. UNCHANGED <<entorno, cot, linaje>>
  BY DEF CreateAdminCotizacion
<1>4. QED
  BY <1>1, <1>2, <1>3, PasoClones

LEMMA RepetirClones ==
    ASSUME CInv, Clones, NEW p \in Peticiones, Repetir(p) PROVE Clones'
<1>1. PICK m :
        /\ Paso(p, "libre", m)
        /\ \E b \in Repeticiones, q \in Cotizaciones :
             /\ Guardada(q)
             /\ m = [fase |-> "items", de |-> q, cuerpo |-> b, faltan |-> cot[q].items,
                 items |-> <<>>, total |-> 0, avisos |-> FALSE, cliente |-> cot[q].cliente,
                 plantilla |-> cot[q].plantilla,
                 flag |-> IF cot[q].flag = Nulo THEN Omitido ELSE cot[q].flag,
                 lecturas |-> {"cliente", "config"}]
  BY DEF Repetir
<1>2. PICK q \in Cotizaciones :
        /\ Guardada(q) /\ m.fase = "items" /\ m.de = q /\ m.faltan = cot[q].items
        /\ m.items = <<>> /\ m.total = 0 /\ m.plantilla = cot[q].plantilla
        /\ m.avisos = FALSE
  BY <1>1
<1>3. PICK d \in Seq(ItemCotizacion) : d = cot[q].items
  BY <1>2 DEF Guardada, CInv, Tipos, Cotizacion
<1>4. PICK n \in Nat : n = Len(d)
  BY <1>3, LenProperties
<1>5. Leidas(m, d) = 0
  BY <1>2, <1>3, <1>4 DEF Leidas
<1>6. Copiando(m, d, m.plantilla)
  BY <1>2, <1>3, <1>4, <1>5, CopiaVacia, SumaVacia DEF Copiando
<1>7. UNCHANGED <<entorno, cot, linaje>>
  BY DEF Repetir
<1>8. QED
  BY <1>1, <1>2, <1>3, <1>6, <1>7, PasoClones

\* The next line of the source, read from a repetition in progress.
LEMMA SiguienteLinea ==
    ASSUME NEW r \in Trabajo, NEW fuente \in Seq(ItemCotizacion), NEW plt,
           Copiando(r, fuente, plt), r.fase = "items", r.faltan # <<>>
    PROVE  \E k \in Nat :
             /\ k = Leidas(r, fuente) /\ Head(r.faltan) = fuente[k + 1]
             /\ \A m \in Trabajo :
                  m.fase \in {"items", "preferencias"}
                  /\ (m.fase = "items" => m.faltan = Tail(r.faltan))
                  /\ (m.fase = "preferencias" => Len(r.faltan) = 1) =>
                    /\ Leidas(m, fuente) = k + 1
                    /\ m.fase = "items" =>
                         /\ Len(m.faltan) <= Len(fuente)
                         /\ \A i \in 1..Len(m.faltan) : m.faltan[i] = fuente[k + 1 + i]
<1>1. PICK x \in Seq(ItemDto \cup ItemCotizacion) : x = r.faltan /\ x # <<>>
  BY CamposTrabajo
<1>2. PICK a \in Nat : a = Len(x) /\ a # 0
  BY <1>1, LenProperties, EmptySeq
<1>3. PICK n \in Nat : n = Len(fuente)
  BY LenProperties
<1>4. a <= n /\ \A i \in 1..a : x[i] = fuente[(n - a) + i]
  BY <1>1, <1>2, <1>3 DEF Copiando, Leidas
<1>5. PICK k \in Nat : k = n - a
  BY <1>4
<1>6. k = Leidas(r, fuente)
  BY <1>1, <1>2, <1>3, <1>5 DEF Leidas
<1>7. Head(x) = x[1]
  BY <1>1
<1>8. Head(x) = fuente[k + 1]
  BY <1>2, <1>4, <1>5, <1>7
<1>9. PICK t : t = Tail(x)
  OBVIOUS
<1>10. Len(t) = a - 1 /\ \A i \in 1..(a - 1) : t[i] = x[i + 1]
  BY <1>1, <1>2, <1>9
<1>11. \A i \in 1..(a - 1) : t[i] = fuente[k + 1 + i]
  <2>1. \A i \in 1..(a - 1) : i + 1 \in 1..a /\ k + (i + 1) = k + 1 + i
    BY <1>2, <1>5
  <2>2. QED
    BY <1>4, <1>5, <1>10, <2>1
<1>12. n - (a - 1) = k + 1 /\ a - 1 <= n /\ (a = 1 => n = k + 1)
  BY <1>2, <1>4, <1>5
<1>13. ASSUME NEW m \in Trabajo, m.fase \in {"items", "preferencias"},
              m.fase = "items" => m.faltan = t,
              m.fase = "preferencias" => a = 1
       PROVE  /\ Leidas(m, fuente) = k + 1
              /\ m.fase = "items" =>
                   /\ Len(m.faltan) <= Len(fuente)
                   /\ \A i \in 1..Len(m.faltan) : m.faltan[i] = fuente[k + 1 + i]
  <2>1. CASE m.fase = "items"
    BY <1>3, <1>10, <1>11, <1>12, <1>13, <2>1 DEF Leidas
  <2>2. CASE m.fase = "preferencias"
    BY <1>3, <1>12, <1>13, <2>2 DEF Leidas
  <2>3. QED
    BY <1>13, <2>1, <2>2
<1>14. QED
  BY <1>1, <1>2, <1>6, <1>8, <1>9, <1>13

\* A line left out.
LEMMA SinItemCopia ==
    ASSUME NEW r \in Trabajo, NEW fuente \in Seq(ItemCotizacion), NEW plt,
           Copiando(r, fuente, plt), r.fase = "items", r.faltan # <<>>,
           NEW aviso \in BOOLEAN,
           aviso \/ r.cuerpo.resol[Head(r.faltan).s] = "omitir",
           LET m == SinItem(r, aviso) IN m.fase # "preferencias" \/ ~m.avisos
    PROVE  Copiando(SinItem(r, aviso), fuente, plt)
<1>1. PICK k \in Nat :
             /\ k = Leidas(r, fuente) /\ Head(r.faltan) = fuente[k + 1]
             /\ \A m \in Trabajo :
                  m.fase \in {"items", "preferencias"}
                  /\ (m.fase = "items" => m.faltan = Tail(r.faltan))
                  /\ (m.fase = "preferencias" => Len(r.faltan) = 1) =>
                    /\ Leidas(m, fuente) = k + 1
                    /\ m.fase = "items" =>
                         /\ Len(m.faltan) <= Len(fuente)
                         /\ \A i \in 1..Len(m.faltan) : m.faltan[i] = fuente[k + 1 + i]
  BY SiguienteLinea
<1>2. PICK m : m = SinItem(r, aviso)
  OBVIOUS
<1>3. PICK v \in BOOLEAN : v = (r.avisos \/ aviso)
  OBVIOUS
<1>4. PICK t : t = Tail(r.faltan)
  OBVIOUS
<1>5. PICK g \in {"items", "preferencias"} :
        g = IF Len(r.faltan) = 1 THEN "preferencias" ELSE "items"
  OBVIOUS
<1>6. t \in Seq(ItemDto \cup ItemCotizacion)
  BY <1>4, CamposTrabajo, Cola
<1>7. m = [r EXCEPT !.faltan = t, !.avisos = v, !.fase = g]
  BY <1>2, <1>3, <1>4, <1>5 DEF SinItem
<1>8. /\ m \in Trabajo /\ m.fase = g /\ m.faltan = t /\ m.avisos = v /\ m.items = r.items
      /\ m.cuerpo = r.cuerpo /\ m.plantilla = r.plantilla /\ m.total = r.total
  BY <1>6, <1>7 DEF Trabajo
<1>9. /\ Leidas(m, fuente) = k + 1
      /\ m.fase = "items" =>
           /\ Len(m.faltan) <= Len(fuente)
           /\ \A i \in 1..Len(m.faltan) : m.faltan[i] = fuente[k + 1 + i]
  BY <1>1, <1>4, <1>5, <1>8
<1>10. m.avisos \/ CopiaHasta(m.items, fuente, m.cuerpo, k + 1)
  <2>1. SUFFICES ASSUME ~v PROVE CopiaHasta(r.items, fuente, r.cuerpo, k + 1)
    BY <1>8
  <2>2. CopiaHasta(r.items, fuente, r.cuerpo, k)
    BY <1>1, <1>3, <2>1 DEF Copiando
  <2>3. r.cuerpo.resol[fuente[k + 1].s] = "omitir"
    BY <1>1, <1>3, <2>1
  <2>4. r.items \in Seq(ItemCotizacion)
    BY CamposTrabajo
  <2>5. QED
    BY <2>2, <2>3, <2>4, CopiaSigue
<1>11. Copiando(m, fuente, plt)
  BY <1>2, <1>8, <1>9, <1>10 DEF Copiando
<1>12. QED
  BY <1>2, <1>11

\* A faithful line.
LEMMA ConItemCopia ==
    ASSUME NEW r \in Trabajo, NEW fuente \in Seq(ItemCotizacion), NEW plt,
           Copiando(r, fuente, plt), r.fase = "items", r.faltan # <<>>,
           NEW l \in ItemCotizacion,
           r.cuerpo.resol[Head(r.faltan).s] # "omitir",
           LineaFiel(l, Head(r.faltan), r.cuerpo),
           LET m == ConItem(r, l, "preferencias") IN m.fase # "preferencias" \/ ~m.avisos
    PROVE  Copiando(ConItem(r, l, "preferencias"), fuente, plt)
<1>1. PICK k \in Nat :
             /\ k = Leidas(r, fuente) /\ Head(r.faltan) = fuente[k + 1]
             /\ \A m \in Trabajo :
                  m.fase \in {"items", "preferencias"}
                  /\ (m.fase = "items" => m.faltan = Tail(r.faltan))
                  /\ (m.fase = "preferencias" => Len(r.faltan) = 1) =>
                    /\ Leidas(m, fuente) = k + 1
                    /\ m.fase = "items" =>
                         /\ Len(m.faltan) <= Len(fuente)
                         /\ \A i \in 1..Len(m.faltan) : m.faltan[i] = fuente[k + 1 + i]
  BY SiguienteLinea
<1>2. PICK m : m = ConItem(r, l, "preferencias")
  OBVIOUS
<1>3. /\ r.items \in Seq(ItemCotizacion) /\ r.total = Suma(r.items) /\ r.total \in Nat
      /\ r.faltan \in Seq(ItemDto \cup ItemCotizacion)
  <2>1. r.total = Suma(r.items)
    BY DEF Copiando
  <2>2. QED
    BY <2>1, CamposTrabajo
<1>4. PICK t \in Seq(ItemDto \cup ItemCotizacion) : t = Tail(r.faltan)
  BY <1>3, Cola
<1>5. PICK g \in {"items", "preferencias"} :
        g = IF Len(r.faltan) = 1 THEN "preferencias" ELSE "items"
  OBVIOUS
<1>6. PICK a \in Seq(ItemCotizacion) : a = Append(r.items, l)
  <2>1. Append(r.items, l) \in Seq(ItemCotizacion)
    BY <1>3, AppendProperties
  <2>2. QED
    BY <2>1
<1>7. PICK u \in Nat : u = r.total + l.precio * l.cantidad /\ u = Suma(a)
  <2>1. Suma(a) = r.total + Peso(l) /\ Peso(l) \in Nat
    BY <1>3, <1>6, SumaAppend, PesoNat
  <2>2. r.total + Peso(l) \in Nat
    BY <1>3, <2>1
  <2>3. QED
    BY <2>1, <2>2 DEF Peso
<1>8. m = [r EXCEPT !.items = a, !.total = u, !.faltan = t, !.fase = g]
  BY <1>2, <1>4, <1>5, <1>6, <1>7 DEF ConItem
<1>9. /\ m \in Trabajo /\ m.fase = g /\ m.faltan = t /\ m.avisos = r.avisos /\ m.items = a
      /\ m.cuerpo = r.cuerpo /\ m.plantilla = r.plantilla /\ m.total = u
  BY <1>8 DEF Trabajo
<1>10. /\ Leidas(m, fuente) = k + 1
       /\ m.fase = "items" =>
           /\ Len(m.faltan) <= Len(fuente)
           /\ \A i \in 1..Len(m.faltan) : m.faltan[i] = fuente[k + 1 + i]
  BY <1>1, <1>4, <1>5, <1>9
<1>11. m.avisos \/ CopiaHasta(m.items, fuente, m.cuerpo, k + 1)
  <2>1. SUFFICES ASSUME ~r.avisos PROVE CopiaHasta(a, fuente, r.cuerpo, k + 1)
    BY <1>9
  <2>2. CopiaHasta(r.items, fuente, r.cuerpo, k)
    BY <1>1, <2>1 DEF Copiando
  <2>3. QED
    BY <1>1, <1>3, <1>6, <2>2, CopiaSigue
<1>12. Copiando(m, fuente, plt)
  BY <1>2, <1>7, <1>9, <1>10, <1>11 DEF Copiando
<1>13. QED
  BY <1>2, <1>12

LEMMA BuildRepetirItemClones ==
    ASSUME CInv, Clones, NEW p \in Peticiones, BuildRepetirItem(p) PROVE Clones'
<1>1. PICK r : r = pet[p]
  OBVIOUS
<1>2. /\ r.fase = "items" /\ r.cuerpo \in Repeticiones /\ UNCHANGED <<entorno, cot, linaje>>
  BY <1>1 DEF BuildRepetirItem
<1>3. /\ r \in Trabajo /\ Obra(r, testigos[p]) /\ r.de \in Cotizaciones /\ r.de # Nulo
      /\ Guardada(r.de) /\ CatalogoAcotado
  BY <1>1, <1>2, EnObra, ObraDe, Constantes
<1>0. PICK plt : plt = cot[r.de].plantilla
  OBVIOUS
<1>4. PICK fuente \in Seq(ItemCotizacion) :
        fuente = cot[r.de].items /\ Copiando(r, fuente, plt)
  BY <1>0, <1>1, <1>3 DEF Clones, CInv, Tipos, Guardada, Cotizacion
<1>5. r.faltan # <<>>
  BY <1>2, <1>3 DEF Obra, EnOrden
<1>6. PICK l \in ItemCotizacion : l = Head(r.faltan)
  BY <1>2, <1>3, <1>5, Cola DEF Obra, EnOrden
<1>7. PICK x : x = LineaRepetida(r, l)
  OBVIOUS
<1>8. \/ Paso(p, "items", Libre)
      \/ (x.fase # "preferencias" \/ ~x.avisos) /\ Paso(p, "items", x)
  BY <1>1, <1>6, <1>7 DEF BuildRepetirItem
<1>9. PICK como : como = r.cuerpo.resol[l.s]
  OBVIOUS
<1>10. /\ r.cuerpo \in Repeticion /\ l.s \in Servicios /\ l.cantidad \in Nat \ {0}
       /\ como \in Servicios \cup {"conservar", "omitir"}
       /\ "conservar" \notin Servicios /\ "omitir" \notin Servicios
  BY <1>2, <1>9, Constantes DEF ItemCotizacion, Repeticion
<1>11. \/ x = Libre
       \/ x.de = r.de /\ (x.fase # "preferencias" \/ ~x.avisos => Copiando(x, fuente, plt))
  <2>1. CASE como = "omitir"
    <3>1. x = SinItem(r, FALSE)
      BY <1>7, <1>9, <1>10, <2>1 DEF LineaRepetida
    <3>2. x.de = r.de
      BY <1>3, <3>1 DEF SinItem, Trabajo
    <3>3. QED
      BY <1>2, <1>3, <1>4, <1>5, <1>6, <1>9, <2>1, <3>1, <3>2, SinItemCopia
  <2>2. CASE como \in Servicios
    <3>1. PICK n : n = DeCatalogo(como, l.cantidad, Omitido)
      OBVIOUS
    <3>2. x = IF Admisible(como) THEN ConItem(r, n, "preferencias") ELSE Libre
      BY <1>7, <1>9, <1>10, <2>2, <3>1 DEF LineaRepetida
    <3>3. ASSUME Admisible(como) PROVE n \in ItemCotizacion
      BY <1>3, <1>10, <2>2, <3>1, <3>3, DeCatalogoTipo DEF Admisible, Activo
    <3>4. LineaFiel(n, l, r.cuerpo)
      BY <1>9, <1>10, <2>2, <3>1, LineasFieles
    <3>5. ConItem(r, n, "preferencias").de = r.de
      BY <1>3 DEF ConItem, Trabajo
    <3>6. como # "omitir"
      BY <1>10, <2>2
    <3>7. QED
      BY <1>2, <1>3, <1>4, <1>5, <1>6, <1>9, <3>2, <3>3, <3>4, <3>5, <3>6, ConItemCopia
  <2>3. CASE como = "conservar"
    <3>1. PICK n : n = IF r.cuerpo.modo = "originales" THEN DeFuente(l)
                       ELSE DeCatalogo(l.s, l.cantidad, Omitido)
      OBVIOUS
    <3>2. \/ x = SinItem(r, TRUE)
          \/ Existe(l.s) /\ x = ConItem(r, n, "preferencias")
      BY <1>7, <1>9, <1>10, <2>3, <3>1 DEF LineaRepetida
    <3>3. Existe(l.s) => n \in ItemCotizacion
      BY <1>3, <1>10, <3>1, DeCatalogoTipo, DeFuenteTipo
    <3>4. LineaFiel(n, l, r.cuerpo)
      BY <1>9, <1>10, <2>3, <3>1, LineasFieles
    <3>5. ConItem(r, n, "preferencias").de = r.de /\ SinItem(r, TRUE).de = r.de
      BY <1>3 DEF ConItem, SinItem, Trabajo
    <3>6. como # "omitir"
      BY <2>3
    <3>7. CASE x = SinItem(r, TRUE)
      BY <1>2, <1>3, <1>4, <1>5, <3>5, <3>7, SinItemCopia
    <3>8. CASE Existe(l.s) /\ x = ConItem(r, n, "preferencias")
      BY <1>2, <1>3, <1>4, <1>5, <1>6, <1>9, <3>3, <3>4, <3>5, <3>6, <3>8, ConItemCopia
    <3>9. QED
      BY <3>2, <3>7, <3>8
  <2>4. QED
    BY <1>10, <2>1, <2>2, <2>3
<1>12. PICK m : /\ Paso(p, "items", m)
                /\ m = Libre \/ (m.de = r.de /\ Copiando(m, fuente, plt))
  BY <1>8, <1>11
<1>13. QED
  BY <1>0, <1>2, <1>4, <1>12, LibreSolicitud, PasoClones

\* The two reads that follow leave the lines alone.
LEMMA ResolveClones ==
    ASSUME CInv, Clones, NEW p \in Peticiones,
           ResolveRepetirCliente(p) \/ ResolveDisplayFlags(p)
    PROVE  Clones'
<1>1. PICK r : r = pet[p]
  OBVIOUS
<1>2. r.fase = "preferencias" /\ UNCHANGED <<entorno, cot, linaje>>
  BY <1>1 DEF ResolveRepetirCliente, ResolveDisplayFlags
<1>3. r \in Trabajo
  BY <1>1, <1>2, EnObra
<1>4. \E c, f, u, g :
        /\ g \in {"preferencias", "guardar"}
        /\ Paso(p, "preferencias",
                [r EXCEPT !.cliente = c, !.flag = f, !.lecturas = u, !.fase = g])
  <2>1. CASE ResolveRepetirCliente(p)
    <3>1. PICK c, u, g :
            /\ g \in {"preferencias", "guardar"}
            /\ Paso(p, "preferencias", [r EXCEPT !.cliente = c, !.lecturas = u, !.fase = g])
      BY <1>1, <2>1 DEF ResolveRepetirCliente
    <3>2. [r EXCEPT !.cliente = c, !.lecturas = u, !.fase = g]
          = [r EXCEPT !.cliente = c, !.flag = r.flag, !.lecturas = u, !.fase = g]
      BY <1>3 DEF Trabajo
    <3>3. Paso(p, "preferencias",
               [r EXCEPT !.cliente = c, !.flag = r.flag, !.lecturas = u, !.fase = g])
      BY <3>1, <3>2
    <3>4. QED
      BY <3>1, <3>3
  <2>2. CASE ResolveDisplayFlags(p)
    <3>1. PICK f, u, g :
            /\ g \in {"preferencias", "guardar"}
            /\ Paso(p, "preferencias", [r EXCEPT !.flag = f, !.lecturas = u, !.fase = g])
      BY <1>1, <2>2 DEF ResolveDisplayFlags
    <3>2. [r EXCEPT !.flag = f, !.lecturas = u, !.fase = g]
          = [r EXCEPT !.cliente = r.cliente, !.flag = f, !.lecturas = u, !.fase = g]
      BY <1>3 DEF Trabajo
    <3>3. Paso(p, "preferencias",
               [r EXCEPT !.cliente = r.cliente, !.flag = f, !.lecturas = u, !.fase = g])
      BY <3>1, <3>2
    <3>4. QED
      BY <3>1, <3>3
  <2>3. QED
    BY <2>1, <2>2
<1>5. PICK m : /\ Paso(p, "preferencias", m) /\ m.fase # "items"
               /\ m.de = r.de /\ m.cuerpo = r.cuerpo /\ m.items = r.items
               /\ m.avisos = r.avisos /\ m.plantilla = r.plantilla /\ m.total = r.total
  <2>1. PICK c, f, u, g :
          /\ g \in {"preferencias", "guardar"}
          /\ Paso(p, "preferencias",
                  [r EXCEPT !.cliente = c, !.flag = f, !.lecturas = u, !.fase = g])
    BY <1>4
  <2>2. PICK m : m = [r EXCEPT !.cliente = c, !.flag = f, !.lecturas = u, !.fase = g]
    OBVIOUS
  <2>3. /\ m.fase = g /\ m.de = r.de /\ m.cuerpo = r.cuerpo /\ m.items = r.items
        /\ m.avisos = r.avisos /\ m.plantilla = r.plantilla /\ m.total = r.total
    BY <1>3, <2>2 DEF Trabajo
  <2>4. QED
    BY <2>1, <2>2, <2>3
<1>6. r.de # Nulo => Copiando(m, cot[r.de].items, cot[r.de].plantilla)
  <2>1. SUFFICES ASSUME r.de # Nulo PROVE Copiando(m, cot[r.de].items, cot[r.de].plantilla)
    OBVIOUS
  <2>2. Copiando(r, cot[r.de].items, cot[r.de].plantilla)
    BY <1>1, <1>3, <2>1 DEF Clones
  <2>3. QED
    BY <1>2, <1>5, <2>2 DEF Copiando, Leidas
<1>7. QED
  BY <1>2, <1>5, <1>6, PasoClones

LEMMA GuardarClones ==
    ASSUME CInv, Clones, NEW p \in Peticiones, Guardar(p) PROVE Clones'
<1>1. PICK r : r = pet[p]
  OBVIOUS
<1>2. r.fase = "guardar"
  BY <1>1 DEF Guardar
<1>3. r \in Trabajo /\ (r.de # Nulo => r.de \in Cotizaciones /\ cot[r.de] # Nulo)
  BY <1>1, <1>2, EnObra, CamposTrabajo DEF Guardada
<1>4. PICK q \in Cotizaciones :
        /\ cot[q] = Nulo /\ cot' = [cot EXCEPT ![q] = Nueva(r)]
        /\ IF r.de = Nulo
           THEN Paso(p, "guardar", Libre) /\ UNCHANGED linaje
           ELSE /\ linaje' = [linaje EXCEPT ![q] = [de |-> r.de, cuerpo |-> r.cuerpo]]
                /\ Paso(p, "guardar",
                        IF r.cuerpo.cancelar THEN [fase |-> "releer", de |-> r.de] ELSE Libre)
  BY <1>1 DEF Guardar, Guardada
<1>5. PICK n : n = Nueva(r)
  OBVIOUS
<1>6. /\ cot'[q] = n /\ \A k \in Cotizaciones \ {q} : cot'[k] = cot[k]
      /\ n.items = r.items /\ n.plantilla = r.plantilla /\ n.total = r.total
  BY <1>4, <1>5 DEF CInv, Tipos, Nueva
<1>7. PICK m : /\ Paso(p, "guardar", m)
               /\ m = Libre \/ m = [fase |-> "releer", de |-> r.de]
  BY <1>4
<1>8. m \notin Trabajo
  BY <1>7 DEF Libre, Trabajo
<1>9. \A o \in Peticiones : pet'[o] \in Trabajo => pet'[o] = pet[o]
  <2>1. pet' = [pet EXCEPT ![p] = m] /\ pet \in [Peticiones -> Solicitud]
    BY <1>7 DEF Paso, CInv, Tipos
  <2>2. QED
    BY <1>8, <2>1
<1>10. ASSUME NEW o \in Peticiones, pet'[o] \in Trabajo, pet'[o].de # Nulo
       PROVE  Copiando(pet'[o], cot'[pet'[o].de].items, cot'[pet'[o].de].plantilla)
  <2>1. PICK x \in Trabajo : x = pet[o] /\ pet'[o] = x /\ x.de # Nulo
    BY <1>9, <1>10
  <2>2. x.de \in Cotizaciones /\ cot[x.de] # Nulo
    BY <2>1, CamposTrabajo DEF CInv, Obras, Guardada
  <2>3. cot'[x.de] = cot[x.de]
    BY <1>4, <1>6, <2>2
  <2>4. Copiando(x, cot[x.de].items, cot[x.de].plantilla)
    BY <2>1 DEF Clones
  <2>5. QED
    BY <2>1, <2>3, <2>4
<1>11. ASSUME NEW k \in Cotizaciones, cot'[k] # Nulo, linaje'[k] # Nulo
       PROVE  cot'[linaje'[k].de] # Nulo
              /\ EsClon(cot'[k], cot'[linaje'[k].de], linaje'[k].cuerpo)
  <2>1. CASE k # q \/ r.de = Nulo
    <3>1. CASE k # q
      <4>1. linaje'[k] = linaje[k]
        <5>1. PICK z : linaje' = linaje \/ linaje' = [linaje EXCEPT ![q] = z]
          BY <1>4
        <5>2. QED
          BY <3>1, <5>1 DEF CInv, Tipos
      <4>2. PICK d \in Cotizaciones : d = linaje[k].de
        BY <1>11, <4>1 DEF CInv, Tipos
      <4>3. cot[d] # Nulo /\ EsClon(cot[k], cot[d], linaje[k].cuerpo)
        BY <1>6, <1>11, <3>1, <4>1, <4>2 DEF Clones
      <4>4. cot'[d] = cot[d] /\ cot'[k] = cot[k]
        BY <1>4, <1>6, <3>1, <4>3
      <4>5. QED
        BY <4>1, <4>2, <4>3, <4>4
    <3>2. CASE k = q /\ r.de = Nulo
      BY <1>4, <1>11, <3>2 DEF Clones
    <3>3. QED
      BY <2>1, <3>1, <3>2
  <2>2. CASE k = q /\ r.de # Nulo
    <3>1. PICK z : z = [de |-> r.de, cuerpo |-> r.cuerpo]
      OBVIOUS
    <3>2. linaje'[k] = z /\ z.de = r.de /\ z.cuerpo = r.cuerpo
      BY <1>4, <2>2, <3>1 DEF CInv, Tipos
    <3>3. cot'[r.de] = cot[r.de] /\ cot[r.de] # Nulo
      BY <1>3, <1>4, <1>6, <2>2
    <3>4. Copiando(r, cot[r.de].items, cot[r.de].plantilla)
      BY <1>1, <1>3, <2>2 DEF Clones
    <3>5. EsClon(n, cot[r.de], r.cuerpo)
      BY <1>2, <1>6, <3>4 DEF Copiando, Leidas, EsClon
    <3>6. QED
      BY <1>6, <2>2, <3>2, <3>3, <3>5
  <2>3. QED
    BY <2>1, <2>2
<1>12. \A k \in Cotizaciones : cot'[k] = Nulo => linaje'[k] = Nulo
  <2>1. SUFFICES ASSUME NEW k \in Cotizaciones, cot'[k] = Nulo PROVE linaje'[k] = Nulo
    OBVIOUS
  <2>2. k # q
    <3>1. n \in Cotizacion
      BY <1>1, <1>2, <1>5, NuevaTipo
    <3>2. QED
      BY <1>6, <2>1, <3>1, Constantes
  <2>3. PICK z : linaje' = linaje \/ linaje' = [linaje EXCEPT ![q] = z]
    BY <1>4
  <2>4. linaje'[k] = linaje[k] /\ cot[k] = Nulo
    BY <1>6, <2>1, <2>2, <2>3 DEF CInv, Tipos
  <2>5. QED
    BY <2>4 DEF Clones
<1>13. QED
  BY <1>10, <1>11, <1>12
  DEF Clones, Copiando, Leidas, EsClon, CopiaHasta, Quedan, LineaFiel

\* The steps that build nothing and store nothing.
LEMMA BajaClones ==
    ASSUME CInv, Clones, NEW p \in Peticiones,
           \/ Abandonar(p) \/ ReleerOriginal(p) \/ LeerOriginal(p) \/ CancelarOriginal(p)
           \/ ComprobarOriginal(p) \/ Terminar(p)
    PROVE  Clones'
<1>1. PICK q : q = pet[p].de
  OBVIOUS
<1>2. \E f, m : /\ Paso(p, f, m) /\ m.fase \notin {"cliente", "items", "plantilla",
                                                   "preferencias", "guardar"}
                /\ linaje' = linaje
                /\ \/ UNCHANGED cot
                   \/ /\ pet[p].fase = "aplicar"
                      /\ cot' = [cot EXCEPT ![q].estado = "cancelada"]
  <2>1. CASE Abandonar(p) \/ Terminar(p)
    BY <2>1 DEF Abandonar, Terminar, Libre
  <2>2. CASE ReleerOriginal(p)
    BY <1>1, <2>2 DEF ReleerOriginal, Responder
  <2>3. CASE LeerOriginal(p)
    <3>1. \/ Paso(p, "leer", [fase |-> "comprobar", de |-> q])
          \/ Paso(p, "leer", [fase |-> "aplicar", de |-> q, leido |-> cot[q].estado])
      BY <1>1, <2>3 DEF LeerOriginal
    <3>2. UNCHANGED <<cot, linaje>>
      BY <2>3 DEF LeerOriginal
    <3>3. QED
      BY <3>1, <3>2
  <2>4. CASE CancelarOriginal(p)
    <3>1. \/ Paso(p, "aplicar", Responder(q, TRUE))
          \/ Paso(p, "aplicar", [fase |-> "comprobar", de |-> q])
      BY <1>1, <2>4 DEF CancelarOriginal
    <3>2. /\ pet[p].fase = "aplicar" /\ linaje' = linaje
          /\ UNCHANGED cot \/ cot' = [cot EXCEPT ![q].estado = "cancelada"]
      BY <1>1, <2>4 DEF CancelarOriginal
    <3>3. QED
      BY <3>1, <3>2 DEF Responder
  <2>5. CASE ComprobarOriginal(p)
    BY <1>1, <2>5 DEF ComprobarOriginal, Responder
  <2>6. QED
    BY <2>1, <2>2, <2>3, <2>4, <2>5
<1>3. PICK f, m : /\ Paso(p, f, m) /\ m.fase \notin {"cliente", "items", "plantilla",
                                                     "preferencias", "guardar"}
                  /\ linaje' = linaje
                  /\ \/ UNCHANGED cot
                     \/ /\ pet[p].fase = "aplicar"
                        /\ cot' = [cot EXCEPT ![q].estado = "cancelada"]
  BY <1>2
<1>4. \A o \in Peticiones : pet'[o] \in Trabajo => pet'[o] = pet[o]
  <2>1. pet' = [pet EXCEPT ![p] = m] /\ pet \in [Peticiones -> Solicitud]
    BY <1>3 DEF Paso, CInv, Tipos
  <2>2. m \notin Trabajo
    BY <1>3 DEF Trabajo
  <2>3. QED
    BY <2>1, <2>2
<1>5. Firme /\ \A k \in Cotizaciones : cot[k] = Nulo => cot'[k] = Nulo
  <2>1. CASE UNCHANGED cot
    BY <2>1 DEF Firme
  <2>2. CASE /\ pet[p].fase = "aplicar"
             /\ cot' = [cot EXCEPT ![q].estado = "cancelada"]
    <3>1. q \in Cotizaciones /\ cot[q] # Nulo /\ "cancelada" \in Estados
      BY <1>1, <2>2, EnBaja DEF Guardada, Estados
    <3>2. QED
      BY <2>2, <3>1, EstadoFirme
  <2>3. QED
    BY <1>3, <2>1, <2>2
<1>6. QED
  BY <1>3, <1>4, <1>5, FirmeClones

\* What others change is not in any quotation, or is only its state.
LEMMA AjenoClones ==
    ASSUME CInv, Clones,
           \/ \E s \in Servicios : EditarServicio(s) \/ BorrarServicio(s)
           \/ ToggleCliente \/ EditarPlantilla
           \/ \E q \in Cotizaciones : OtroCambio(q)
    PROVE  Clones'
<1>1. UNCHANGED <<pet, linaje>>
  BY DEF EditarServicio, BorrarServicio, ToggleCliente, EditarPlantilla, OtroCambio, Cambio
<1>2. UNCHANGED cot
      \/ \E q \in Cotizaciones, e \in Estados : cot[q] # Nulo /\ cot' = [cot EXCEPT ![q].estado = e]
  <2>1. CASE \E q \in Cotizaciones : OtroCambio(q)
    <3>1. PICK q \in Cotizaciones : OtroCambio(q)
      BY <2>1
    <3>2. cot[q] # Nulo /\ \E e \in Estados : cot' = [cot EXCEPT ![q].estado = e]
      BY <3>1 DEF OtroCambio, Guardada
    <3>3. QED
      BY <3>2
  <2>2. CASE \/ \E s \in Servicios : EditarServicio(s) \/ BorrarServicio(s)
             \/ ToggleCliente \/ EditarPlantilla
    BY <2>2 DEF EditarServicio, BorrarServicio, ToggleCliente, EditarPlantilla
  <2>3. QED
    BY <2>1, <2>2
<1>3. Firme /\ \A k \in Cotizaciones : cot[k] = Nulo => cot'[k] = Nulo
  <2>1. CASE UNCHANGED cot
    BY <2>1 DEF Firme
  <2>2. CASE \E q \in Cotizaciones, e \in Estados :
               cot[q] # Nulo /\ cot' = [cot EXCEPT ![q].estado = e]
    BY <2>2, EstadoFirme
  <2>3. QED
    BY <1>2, <2>1, <2>2
<1>4. QED
  BY <1>1, <1>3, FirmeClones

LEMMA SiguienteClones == CInv /\ Clones /\ [Next]_vars => Clones'
<1>1. ASSUME CInv, Clones, NEW p \in Peticiones, PasoPeticion(p) PROVE Clones'
  BY <1>1, CreateAdminClones, AltaClones, RepetirClones, BuildRepetirItemClones,
     ResolveClones, GuardarClones, BajaClones
  DEF PasoPeticion
<1>2. ASSUME CInv, Clones, Next PROVE Clones'
  BY <1>1, <1>2, AjenoClones DEF Next
<1>3. ASSUME CInv, Clones, UNCHANGED vars PROVE Clones'
  <2>1. UNCHANGED <<pet, cot, linaje>>
    BY <1>3 DEF vars
  <2>2. Firme /\ \A k \in Cotizaciones : cot[k] = Nulo => cot'[k] = Nulo
    BY <2>1 DEF Firme
  <2>3. QED
    BY <1>3, <2>1, <2>2, FirmeClones
<1>4. QED
  BY <1>2, <1>3

\* A clone has the lines of its source that its body did not leave out, in order
\* and at original prices unchanged, its template, and the total of its lines,
\* whatever others do to the catalogue while it is copied.
THEOREM ClonFielAlOriginal == Spec => []ClonFiel
<1>1. Init => Clones
  <2>1. SUFFICES ASSUME Init PROVE Clones
    OBVIOUS
  <2>2. /\ pet = [p \in Peticiones |-> Libre]
        /\ linaje = [q \in Cotizaciones |-> Nulo]
    BY <2>1 DEF Init
  <2>3. \A p \in Peticiones : pet[p] \notin Trabajo
    BY <2>2, LibreSolicitud
  <2>4. \A q \in Cotizaciones : linaje[q] = Nulo
    BY <2>2
  <2>5. QED
    BY <2>3, <2>4 DEF Clones
<1>2. ASSUME CInv, Clones, NEW q \in Cotizaciones, Guardada(q), linaje[q] # Nulo
      PROVE  LET b == linaje[q].cuerpo
                 fuente == cot[linaje[q].de].items
                 copia == cot[q].items
                 quedan == {n \in DOMAIN fuente : b.resol[fuente[n].s] # "omitir"}
             IN /\ \E f \in [DOMAIN copia -> quedan] :
                     /\ \A n \in quedan : \E m \in DOMAIN copia : f[m] = n
                     /\ \A m, n \in DOMAIN copia : m < n => f[m] < f[n]
                     /\ \A n \in DOMAIN copia : LineaFiel(copia[n], fuente[f[n]], b)
                /\ cot[q].plantilla = cot[linaje[q].de].plantilla
                /\ cot[q].total = Suma(copia)
  <2>1. PICK b : b = linaje[q].cuerpo
    OBVIOUS
  <2>2. PICK d \in Cotizaciones : d = linaje[q].de
    BY <1>2 DEF CInv, Tipos
  <2>3. cot[d] # Nulo /\ EsClon(cot[q], cot[d], b)
    BY <1>2, <2>1, <2>2 DEF Clones, Guardada
  <2>4. PICK fuente \in Seq(ItemCotizacion) : fuente = cot[d].items
    <3>1. cot[d] \in Cotizacion
      BY <1>2, <2>3 DEF CInv, Tipos
    <3>2. QED
      BY <3>1 DEF Cotizacion
  <2>5. CopiaHasta(cot[q].items, fuente, b, Len(fuente))
    BY <2>3, <2>4 DEF EsClon
  <2>6. Quedan(fuente, b, Len(fuente))
        = {n \in DOMAIN fuente : b.resol[fuente[n].s] # "omitir"}
    BY <2>4 DEF Quedan
  <2>7. PICK quedan : quedan = {n \in DOMAIN fuente : b.resol[fuente[n].s] # "omitir"}
    OBVIOUS
  <2>8. \E f \in [DOMAIN cot[q].items -> quedan] :
          /\ \A n \in quedan : \E m \in DOMAIN cot[q].items : f[m] = n
          /\ \A m, n \in DOMAIN cot[q].items : m < n => f[m] < f[n]
          /\ \A n \in DOMAIN cot[q].items : LineaFiel(cot[q].items[n], fuente[f[n]], b)
    BY <2>5, <2>6, <2>7 DEF CopiaHasta
  <2>9. cot[q].plantilla = cot[d].plantilla /\ cot[q].total = Suma(cot[q].items)
    BY <2>3 DEF EsClon
  <2>10. QED
    BY <2>1, <2>2, <2>4, <2>7, <2>8, <2>9
<1>3. CInv /\ Clones => ClonFiel
  BY <1>2 DEF ClonFiel
<1>4. QED
  BY <1>1, <1>3, SiguienteClones, InvarianteContenido, PTL DEF Spec
=============================================================================
