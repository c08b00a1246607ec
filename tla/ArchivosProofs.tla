---------------------------- MODULE ArchivosProofs ----------------------------
(***************************************************************************)
(* Proofs about Archivos: types, no trace of an upload that was answered   *)
(* with an error, no image for a service, and pictures in order: those     *)
(* that nobody is changing, and those that a guest's page shows.           *)
(***************************************************************************)
EXTENDS Archivos, FiniteSetTheorems, TLAPS

Peticion == {Libre} \cup Subida \cup Borrado \cup Vaciado \cup CambioTipo

\* What a request in flight may be, by its phase.
LEMMA Fases ==
    ASSUME NEW r \in Peticion
    PROVE  /\ r.fase = "comprobar" => r \in Subida \cup Borrado
           /\ r.op = "subir" => r \in Subida
           /\ r.op = "quitar" => r \in Borrado
           /\ r.op = "vaciar" => r \in Vaciado
           /\ r.op = "tipo" => r \in CambioTipo
           /\ r.op = "tipo" /\ r.fase = "escribir" => r.tipo \in {"producto", "servicio"}
           /\ r # Libre => r.x \in Ranuras /\ r.x # Nulo
           /\ r.op = "tipo" => r.x \in Items
BY ArchivosAssumption DEF Peticion, Libre, Subida, Borrado, Vaciado, CambioTipo, Ranuras

LEMMA Ranura == Items \subseteq Ranuras /\ "logo" \in Ranuras /\ "banco" \in Ranuras
BY DEF Ranuras

-----------------------------------------------------------------------------
(* Types *)

\* An upload for an item has the one extension of an item.
ItemsWebp ==
    \A p \in Peticiones :
        pet[p].op = "subir" /\ pet[p].x \in Items => pet[p].ext = ExtItem

TInv == TypeOK /\ ItemsWebp

TipoDatos ==
    /\ url \in [Ranuras -> Exts \cup {Nulo}]
    /\ disco \in [Ranuras -> [Exts -> Version \cup {Nulo}]]
    /\ tipo \in [Items -> {"producto", "servicio", Nulo}]
    /\ utiles \in BOOLEAN
    /\ \A i \in Items, e \in Exts \ {ExtItem} : url[i] # e /\ disco[i][e] = Nulo

TipoPet == pet \in [Peticiones -> Peticion] /\ ItemsWebp

TipoPagina == pagina \in {Cerrada} \cup Pagina

TipoResto ==
    /\ subidas \in 0..MaxSubidas /\ otras \in 0..MaxOtras /\ fallos \in 0..MaxFallos
    /\ ultima \in [Ranuras -> Version] /\ erradas \subseteq Version
    /\ averiada \in [Ranuras -> BOOLEAN]

TipoHistoria ==
    /\ revuelta \in [Ranuras -> BOOLEAN] /\ sucia \in [Ranuras -> BOOLEAN]
    /\ movida \subseteq Ranuras

LEMMA TInvPartes == TInv <=> TipoDatos /\ TipoPet /\ TipoPagina /\ TipoResto /\ TipoHistoria
BY DEF TInv, TypeOK, TipoDatos, TipoPet, TipoPagina, TipoResto, TipoHistoria, Peticion

LEMMA TInvInicial == Init => TInv
<1> SUFFICES ASSUME Init PROVE TInv
  OBVIOUS
<1>1. TipoDatos /\ TipoResto
  BY ArchivosAssumption, Ranura DEF Init, TipoDatos, TipoResto, Version
<1>2. TipoPet
  BY ArchivosAssumption DEF Init, TipoPet, ItemsWebp, Peticion, Libre
<1>3. TipoPagina /\ TipoHistoria
  BY DEF Init, TipoPagina, TipoHistoria
<1>4. QED
  BY <1>1, <1>2, <1>3, TInvPartes

\* The history of a step of any kind.
LEMMA TipoObservar == ASSUME TInv, Observar PROVE TipoHistoria'
BY DEF Observar, TInv, TypeOK, TipoHistoria, Sobre, Rehecha

LEMMA TipoFallo ==
    ASSUME fallos \in 0..MaxFallos, SinFallo \/ Fallo PROVE fallos' \in 0..MaxFallos
BY ArchivosAssumption DEF SinFallo, Fallo

\* Removing files keeps the type of the disk and takes no new file to it.
LEMMA TipoBorrar ==
    ASSUME NEW x \in Ranuras, NEW d \in [Exts -> Version \cup {Nulo}], NEW es \in SUBSET Exts,
           TInv, Borrar(x, d, es),
           x \in Items => \A e \in Exts \ {ExtItem} : d[e] = Nulo
    PROVE  /\ disco' \in [Ranuras -> [Exts -> Version \cup {Nulo}]]
           /\ \A i \in Items, e \in Exts \ {ExtItem} : disco'[i][e] = Nulo
           /\ averiada' \in [Ranuras -> BOOLEAN] /\ fallos' \in 0..MaxFallos
<1>1. SinArchivos(d, es) \in [Exts -> Version \cup {Nulo}]
  BY DEF SinArchivos
<1>2. x \in Items => \A e \in Exts \ {ExtItem} : SinArchivos(d, es)[e] = Nulo
  BY DEF SinArchivos
<1>a. fallos \in 0..MaxFallos /\ averiada \in [Ranuras -> BOOLEAN]
  BY DEF TInv, TypeOK
<1>b. averiada' \in [Ranuras -> BOOLEAN]
  BY <1>a DEF Borrar, Averiar
<1>3. fallos' \in 0..MaxFallos /\ averiada' \in [Ranuras -> BOOLEAN]
  BY <1>a, <1>b, TipoFallo DEF Borrar
<1>4. PICK d2 \in [Exts -> Version \cup {Nulo}] :
        /\ disco' = [disco EXCEPT ![x] = d2]
        /\ x \in Items => \A e \in Exts \ {ExtItem} : d2[e] = Nulo
  <2>1. CASE disco' = [disco EXCEPT ![x] = SinArchivos(d, es)]
    BY <1>1, <1>2, <2>1
  <2>2. CASE disco' = [disco EXCEPT ![x] = d]
    BY <2>2
  <2>3. QED
    BY <2>1, <2>2 DEF Borrar
<1>5. QED
  BY <1>3, <1>4, Ranura DEF TInv, TypeOK

\* What an answer or a step of a request leaves in its place.
LEMMA TipoPasar ==
    ASSUME TInv, NEW p \in Peticiones, NEW r \in Peticion, Pasar(p, r),
           r.op = "subir" /\ r.x \in Items => r.ext = ExtItem
    PROVE  TipoPet'
BY DEF TInv, TypeOK, TipoPet, ItemsWebp, Pasar, Peticion

LEMMA TipoIr ==
    ASSUME TInv, NEW p \in Peticiones, NEW f, Ir(p, f),
           [pet[p] EXCEPT !.fase = f] \in Peticion
    PROVE  TipoPet'
<1> DEFINE r == [pet[p] EXCEPT !.fase = f]
<1>1. pet[p] \in Peticion /\ (pet[p].op = "subir" /\ pet[p].x \in Items => pet[p].ext = ExtItem)
  BY DEF TInv, TypeOK, ItemsWebp, Peticion
<1>2. pet' = [pet EXCEPT ![p] = r]
  BY DEF Ir
<1>3. r.op = "subir" => pet[p] \in Subida
  <2>1. CASE pet[p] \in Subida
    BY <2>1
  <2>2. CASE pet[p] \notin Subida
    BY <1>1, <2>2, ArchivosAssumption DEF Peticion, Libre, Borrado, Vaciado, CambioTipo
  <2>3. QED
    BY <2>1, <2>2
<1>4. r.op = "subir" /\ r.x \in Items => r.ext = ExtItem
  BY <1>1, <1>3 DEF Subida
<1>5. QED
  BY <1>2, <1>4, TipoPasar DEF Pasar

LEMMA LibreTipo == Libre \in Peticion /\ Libre.op # "subir" /\ Libre.op = Nulo
BY ArchivosAssumption DEF Peticion, Libre

LEMMA TipoErrar ==
    ASSUME TInv, NEW p \in Peticiones, Errar(p)
    PROVE  TipoPet' /\ erradas' \subseteq Version
<1>1. TipoPet'
  BY LibreTipo, TipoPasar DEF Errar
<1>2. pet[p].op = "subir" => pet[p].v \in Version
  BY Fases DEF TInv, TypeOK, Peticion, Subida
<1>3. QED
  BY <1>1, <1>2 DEF Errar, TInv, TypeOK

\* What a step of a request has to keep.
Tipos == TipoDatos /\ TipoPet /\ TipoResto

LEMMA TipoSubir == ASSUME TInv, NEW p \in Peticiones, Subir(p) PROVE Tipos'
<1>a. PICK x \in Ranuras : \E e \in ExtsDe(x) :
        Pasar(p, [op |-> "subir", x |-> x, ext |-> e, v |-> subidas + 1,
                  fase |-> IF x \in Items THEN "comprobar" ELSE "escribir"])
  BY DEF Subir
<1>1. PICK e \in ExtsDe(x) :
        Pasar(p, [op |-> "subir", x |-> x, ext |-> e, v |-> subidas + 1,
                  fase |-> IF x \in Items THEN "comprobar" ELSE "escribir"])
  BY <1>a
<1> DEFINE r == [op |-> "subir", x |-> x, ext |-> e, v |-> subidas + 1,
                 fase |-> IF x \in Items THEN "comprobar" ELSE "escribir"]
<1>2. subidas + 1 \in Version \ {0} /\ subidas' \in 0..MaxSubidas
  BY ArchivosAssumption DEF Subir, TInv, TypeOK, Version
<1>3. e \in Exts /\ (x \in Items => e = ExtItem)
  BY ArchivosAssumption DEF ExtsDe
<1>4. r \in Peticion
  BY <1>2, <1>3 DEF Peticion, Subida
<1>5. TipoPet'
  BY <1>1, <1>3, <1>4, TipoPasar
<1>6. QED
  BY <1>2, <1>5 DEF Subir, Tipos, TipoDatos, TipoResto, TInv, TypeOK, datos

LEMMA TipoComprobar == ASSUME TInv, NEW p \in Peticiones, Comprobar(p) PROVE Tipos'
<1>1. TipoPet' /\ erradas' \subseteq Version
  <2>1. CASE Errar(p)
    BY <2>1, TipoErrar
  <2>2. CASE Ir(p, IF pet[p].op = "subir" THEN "escribir" ELSE "borrarUrl") /\ UNCHANGED erradas
    <3>1. pet[p] \in Subida \cup Borrado
      BY Fases DEF Comprobar, TInv, TypeOK, Peticion
    <3>2. [pet[p] EXCEPT !.fase = IF pet[p].op = "subir" THEN "escribir" ELSE "borrarUrl"]
            \in Peticion
      BY <3>1 DEF Peticion, Subida, Borrado
    <3>3. QED
      BY <2>2, <3>2, TipoIr DEF TInv, TypeOK
  <2>3. QED
    BY <2>1, <2>2 DEF Comprobar
<1>2. QED
  BY <1>1 DEF Comprobar, Tipos, TipoDatos, TipoResto, TInv, TypeOK, datos, cuentas

LEMMA TipoEscribir == ASSUME TInv, NEW p \in Peticiones, Escribir(p) PROVE Tipos'
<1> DEFINE r == pet[p]
           d == [disco[r.x] EXCEPT ![r.ext] = r.v]
<1>1. r \in Subida /\ r.x \in Ranuras /\ r.ext \in Exts /\ r.v \in Version
  BY Fases DEF Escribir, En, TInv, TypeOK, Peticion, Subida
<1>2. r.x \in Items => r.ext = ExtItem
  BY <1>1 DEF Subida, TInv, ItemsWebp
<1>3. CASE /\ Borrar(r.x, d, Sobrantes(r.x, r.ext))
           /\ Ir(p, "guardar") /\ UNCHANGED erradas
  <2>1. d \in [Exts -> Version \cup {Nulo}]
    BY <1>1 DEF TInv, TypeOK
  <2>2. r.x \in Items => \A e \in Exts \ {ExtItem} : d[e] = Nulo
    BY <1>1, <1>2 DEF TInv, TypeOK
  <2>3. Sobrantes(r.x, r.ext) \in SUBSET Exts
    BY DEF Sobrantes
  <2>4. /\ disco' \in [Ranuras -> [Exts -> Version \cup {Nulo}]]
        /\ \A i \in Items, e \in Exts \ {ExtItem} : disco'[i][e] = Nulo
        /\ averiada' \in [Ranuras -> BOOLEAN] /\ fallos' \in 0..MaxFallos
    BY <1>1, <1>3, <2>1, <2>2, <2>3, TipoBorrar
  <2>5. [r EXCEPT !.fase = "guardar"] \in Peticion
    BY <1>1 DEF Subida, Peticion
  <2>6. TipoPet'
    BY <1>3, <2>5, TipoIr
  <2>7. QED
    BY <1>3, <2>4, <2>6 DEF Escribir, Tipos, TipoDatos, TipoResto, TInv, TypeOK
<1>4. CASE /\ Fallo /\ Averiar(r.x) /\ Errar(p)
           /\ \/ UNCHANGED disco
              \/ disco' = [disco EXCEPT ![r.x][r.ext] = 0]
  <2>1. TipoPet' /\ erradas' \subseteq Version
    BY <1>4, TipoErrar
  <2>2. fallos' \in 0..MaxFallos
    BY <1>4, TipoFallo DEF TInv, TypeOK
  <2>3. averiada' \in [Ranuras -> BOOLEAN]
    BY <1>1, <1>4 DEF Averiar, TInv, TypeOK
  <2>4. 0 \in Version
    BY ArchivosAssumption DEF Version
  <2>5. /\ disco' \in [Ranuras -> [Exts -> Version \cup {Nulo}]]
        /\ \A i \in Items, e \in Exts \ {ExtItem} : disco'[i][e] = Nulo
    <3>1. CASE disco' = [disco EXCEPT ![r.x] = [disco[r.x] EXCEPT ![r.ext] = 0]]
      BY <1>1, <1>2, <2>4, <3>1, Ranura DEF TInv, TypeOK
    <3>2. CASE UNCHANGED disco
      BY <3>2 DEF TInv, TypeOK
    <3>3. QED
      BY <1>4, <3>1, <3>2
  <2>6. QED
    BY <2>1, <2>2, <2>3, <2>5 DEF Escribir, Tipos, TipoDatos, TipoResto, TInv, TypeOK
<1>5. QED
  BY <1>3, <1>4 DEF Escribir

LEMMA TipoGuardar == ASSUME TInv, NEW p \in Peticiones, Guardar(p) PROVE Tipos'
<1> DEFINE r == pet[p]
<1>1. r \in Subida /\ r.x \in Ranuras /\ r.ext \in Exts /\ r.v \in Version
  BY Fases DEF Guardar, En, TInv, TypeOK, Peticion, Subida
<1>2. r.x \in Items => r.ext = ExtItem
  BY <1>1 DEF Subida, TInv, ItemsWebp
<1>3. [r EXCEPT !.fase = "deshacer"] \in Peticion
  BY <1>1 DEF Subida, Peticion
<1>4. TipoPet'
  BY <1>3, TipoIr, TipoPasar, LibreTipo DEF Guardar
<1>5. fallos' \in 0..MaxFallos
  BY TipoFallo DEF Guardar, TInv, TypeOK
<1>6. ultima' \in [Ranuras -> Version]
  BY <1>1 DEF Guardar, TInv, TypeOK
<1>7. url' \in [Ranuras -> Exts \cup {Nulo}] /\ \A i \in Items, e \in Exts \ {ExtItem} : url'[i] # e
  <2>1. CASE url' = [url EXCEPT ![r.x] = r.ext]
    BY <1>1, <1>2, <2>1, Ranura DEF TInv, TypeOK
  <2>2. CASE UNCHANGED url
    BY <2>2 DEF TInv, TypeOK
  <2>3. QED
    BY <2>1, <2>2 DEF Guardar
<1>8. QED
  BY <1>4, <1>5, <1>6, <1>7 DEF Guardar, Tipos, TipoDatos, TipoResto, TInv, TypeOK

LEMMA TipoDeshacer == ASSUME TInv, NEW p \in Peticiones, Deshacer(p) PROVE Tipos'
<1> DEFINE r == pet[p]
<1>1. r \in Subida /\ r.x \in Ranuras /\ r.ext \in Exts
  BY Fases DEF Deshacer, En, TInv, TypeOK, Peticion, Subida
<1>2. /\ disco' \in [Ranuras -> [Exts -> Version \cup {Nulo}]]
      /\ \A i \in Items, e \in Exts \ {ExtItem} : disco'[i][e] = Nulo
      /\ averiada' \in [Ranuras -> BOOLEAN] /\ fallos' \in 0..MaxFallos
  <2>1. ADeshacer(r) \in SUBSET Exts /\ disco[r.x] \in [Exts -> Version \cup {Nulo}]
    BY <1>1 DEF ADeshacer, TInv, TypeOK
  <2>2. r.x \in Items => \A e \in Exts \ {ExtItem} : disco[r.x][e] = Nulo
    BY DEF TInv, TypeOK
  <2>3. Borrar(r.x, disco[r.x], ADeshacer(r))
    BY DEF Deshacer
  <2>4. QED
    BY <1>1, <2>1, <2>2, <2>3, TipoBorrar
<1>3. TipoPet' /\ erradas' \subseteq Version
  BY TipoErrar DEF Deshacer
<1>4. QED
  BY <1>2, <1>3 DEF Deshacer, Tipos, TipoDatos, TipoResto, TInv, TypeOK

LEMMA TipoQuitar == ASSUME TInv, NEW p \in Peticiones, Quitar(p) PROVE Tipos'
<1>1. PICK x \in Ranuras :
        Pasar(p, [op |-> "quitar", x |-> x,
                  fase |-> IF x \in Items THEN "comprobar" ELSE "borrarUrl"])
  BY DEF Quitar
<1>2. [op |-> "quitar", x |-> x, fase |-> IF x \in Items THEN "comprobar" ELSE "borrarUrl"]
        \in Peticion
  BY DEF Peticion, Borrado
<1>3. TipoPet'
  BY <1>1, <1>2, TipoPasar
<1>4. otras' \in 0..MaxOtras
  BY ArchivosAssumption DEF Quitar, Otra, TInv, TypeOK
<1>5. QED
  BY <1>3, <1>4 DEF Quitar, Otra, Tipos, TipoDatos, TipoResto, TInv, TypeOK, datos

LEMMA TipoQuitarUrl == ASSUME TInv, NEW p \in Peticiones, QuitarUrl(p) PROVE Tipos'
<1> DEFINE r == pet[p]
<1>1. r \in Borrado
  BY Fases DEF QuitarUrl, En, TInv, TypeOK, Peticion
<1>2. [r EXCEPT !.fase = "borrarArchivo"] \in Peticion
  BY <1>1 DEF Borrado, Peticion
<1>3. TipoPet'
  BY <1>2, TipoIr, TipoPasar, LibreTipo DEF QuitarUrl
<1>4. fallos' \in 0..MaxFallos
  BY TipoFallo DEF QuitarUrl, TInv, TypeOK
<1>5. url' \in [Ranuras -> Exts \cup {Nulo}] /\ \A i \in Items, e \in Exts \ {ExtItem} : url'[i] # e
  <2>1. CASE url' = [url EXCEPT ![r.x] = Nulo]
    BY <2>1, ArchivosAssumption DEF TInv, TypeOK, Ranuras
  <2>2. CASE UNCHANGED url
    BY <2>2 DEF TInv, TypeOK
  <2>3. QED
    BY <2>1, <2>2 DEF QuitarUrl
<1>6. QED
  BY <1>3, <1>4, <1>5 DEF QuitarUrl, Tipos, TipoDatos, TipoResto, TInv, TypeOK

LEMMA TipoVaciar == ASSUME TInv, NEW p \in Peticiones, Vaciar(p) PROVE Tipos'
<1>1. [op |-> "vaciar", x |-> "banco", fase |-> "borrarArchivo"] \in Peticion
  BY DEF Peticion, Vaciado
<1>2. TipoPet'
  BY <1>1, TipoPasar DEF Vaciar
<1>3. otras' \in 0..MaxOtras
  BY ArchivosAssumption DEF Vaciar, Otra, TInv, TypeOK
<1>4. QED
  BY <1>2, <1>3 DEF Vaciar, Otra, Tipos, TipoDatos, TipoResto, TInv, TypeOK, datos

LEMMA TipoBorrarArchivo == ASSUME TInv, NEW p \in Peticiones, BorrarArchivo(p) PROVE Tipos'
<1> DEFINE r == pet[p]
<1>1. r \in Borrado \cup Vaciado \cup CambioTipo /\ r.x \in Ranuras
  BY DEF BorrarArchivo, TInv, TypeOK, Libre, Subida, Borrado, Vaciado, CambioTipo, Ranuras
<1>2. /\ disco' \in [Ranuras -> [Exts -> Version \cup {Nulo}]]
      /\ \A i \in Items, e \in Exts \ {ExtItem} : disco'[i][e] = Nulo
      /\ averiada' \in [Ranuras -> BOOLEAN] /\ fallos' \in 0..MaxFallos
  <2>1. disco[r.x] \in [Exts -> Version \cup {Nulo}]
    BY <1>1 DEF TInv, TypeOK
  <2>2. r.x \in Items => \A e \in Exts \ {ExtItem} : disco[r.x][e] = Nulo
    BY DEF TInv, TypeOK
  <2>3. Borrar(r.x, disco[r.x], Exts)
    BY DEF BorrarArchivo
  <2>4. QED
    BY <1>1, <2>1, <2>2, <2>3, TipoBorrar
<1>3. TipoPet'
  <2>1. CASE Pasar(p, Libre)
    BY <2>1, TipoPasar, LibreTipo
  <2>2. CASE r.op = "vaciar" /\ Ir(p, "borrarUrl")
    <3>1. [r EXCEPT !.fase = "borrarUrl"] \in Peticion
      BY <2>2, Fases DEF Vaciado, Peticion, TInv, TypeOK
    <3>2. QED
      BY <2>2, <3>1, TipoIr
  <2>3. QED
    BY <2>1, <2>2 DEF BorrarArchivo, FaseTrasBorrar
<1>4. QED
  BY <1>2, <1>3 DEF BorrarArchivo, Tipos, TipoDatos, TipoResto, TInv, TypeOK

LEMMA TipoVaciarBancarios ==
    ASSUME TInv, NEW p \in Peticiones, VaciarBancarios(p) PROVE Tipos'
<1>1. TipoPet'
  BY TipoPasar, LibreTipo DEF VaciarBancarios
<1>2. fallos' \in 0..MaxFallos
  BY TipoFallo DEF VaciarBancarios, TInv, TypeOK
<1>3. /\ url' \in [Ranuras -> Exts \cup {Nulo}] /\ utiles' \in BOOLEAN
      /\ \A i \in Items, e \in Exts \ {ExtItem} : url'[i] # e
  <2>1. CASE url' = [url EXCEPT !["banco"] = Nulo] /\ utiles' = FALSE
    BY <2>1, ArchivosAssumption DEF TInv, TypeOK, Ranuras
  <2>2. CASE UNCHANGED <<url, utiles>>
    BY <2>2 DEF TInv, TypeOK
  <2>3. QED
    BY <2>1, <2>2 DEF VaciarBancarios
<1>4. QED
  BY <1>1, <1>2, <1>3 DEF VaciarBancarios, Tipos, TipoDatos, TipoResto, TInv, TypeOK

LEMMA TipoEditarBancarios == ASSUME TInv, EditarBancarios PROVE Tipos'
<1>1. otras' \in 0..MaxOtras
  BY ArchivosAssumption DEF EditarBancarios, Otra, TInv, TypeOK
<1>2. utiles' \in BOOLEAN
  BY DEF EditarBancarios
<1>3. TipoPet'
  BY DEF EditarBancarios, TipoPet, ItemsWebp, TInv, TypeOK, Peticion
<1>4. QED
  BY <1>1, <1>2, <1>3 DEF EditarBancarios, Otra, Tipos, TipoDatos, TipoResto, TInv, TypeOK

LEMMA TipoPedirTipo == ASSUME TInv, NEW p \in Peticiones, PedirTipo(p) PROVE Tipos'
<1>1. PICK i \in Items, t \in {"producto", "servicio"} :
        Pasar(p, [op |-> "tipo", x |-> i, fase |-> "escribir", tipo |-> t])
  BY DEF PedirTipo
<1>2. [op |-> "tipo", x |-> i, fase |-> "escribir", tipo |-> t] \in Peticion
  BY DEF Peticion, CambioTipo
<1>3. TipoPet'
  BY <1>1, <1>2, TipoPasar
<1>4. otras' \in 0..MaxOtras
  BY ArchivosAssumption DEF PedirTipo, Otra, TInv, TypeOK
<1>5. QED
  BY <1>3, <1>4 DEF PedirTipo, Otra, Tipos, TipoDatos, TipoResto, TInv, TypeOK, datos

LEMMA TipoCambiarTipo == ASSUME TInv, NEW p \in Peticiones, CambiarTipo(p) PROVE Tipos'
<1> DEFINE r == pet[p]
<1>1. r.x \in Items /\ r.tipo \in {"producto", "servicio"}
  BY Fases DEF CambiarTipo, En, TInv, TypeOK, Peticion
<1>2. [op |-> "tipo", x |-> r.x, fase |-> "borrarArchivo"] \in Peticion
  BY <1>1 DEF Peticion, CambioTipo
<1>3. TipoPet'
  BY <1>2, TipoPasar, LibreTipo DEF CambiarTipo
<1>4. fallos' \in 0..MaxFallos
  BY TipoFallo DEF CambiarTipo, TInv, TypeOK
<1>5. tipo' \in [Items -> {"producto", "servicio", Nulo}]
  BY <1>1 DEF CambiarTipo, TInv, TypeOK
<1>6. url' \in [Ranuras -> Exts \cup {Nulo}] /\ \A i \in Items, e \in Exts \ {ExtItem} : url'[i] # e
  <2>1. CASE url' = [url EXCEPT ![r.x] = UrlTrasTipo(@, r.tipo)]
    BY <1>1, <2>1, Ranura, ArchivosAssumption DEF UrlTrasTipo, TInv, TypeOK
  <2>2. CASE UNCHANGED url
    BY <2>2 DEF TInv, TypeOK
  <2>3. QED
    BY <2>1, <2>2 DEF CambiarTipo
<1>7. QED
  BY <1>3, <1>4, <1>5, <1>6 DEF CambiarTipo, Tipos, TipoDatos, TipoResto, TInv, TypeOK

LEMMA TipoBorrarItem == ASSUME TInv, NEW i \in Items, BorrarItem(i) PROVE Tipos'
<1>1. otras' \in 0..MaxOtras
  BY ArchivosAssumption DEF BorrarItem, Otra, TInv, TypeOK
<1>2. tipo' \in [Items -> {"producto", "servicio", Nulo}]
  BY DEF BorrarItem, TInv, TypeOK
<1>3. url' \in [Ranuras -> Exts \cup {Nulo}]
      /\ \A j \in Items, e \in Exts \ {ExtItem} : url'[j] # e
  BY Ranura, ArchivosAssumption DEF BorrarItem, TInv, TypeOK
<1>4. TipoPet'
  BY DEF BorrarItem, TipoPet, ItemsWebp, TInv, TypeOK, Peticion
<1>5. QED
  BY <1>1, <1>2, <1>3, <1>4 DEF BorrarItem, Otra, Tipos, TipoDatos, TipoResto, TInv, TypeOK

LEMMA TipoFallarAntes == ASSUME TInv, NEW p \in Peticiones, FallarAntes(p) PROVE Tipos'
<1>1. TipoPet' /\ erradas' \subseteq Version
  BY TipoErrar DEF FallarAntes
<1>2. fallos' \in 0..MaxFallos
  BY TipoFallo DEF FallarAntes, TInv, TypeOK
<1>3. QED
  BY <1>1, <1>2 DEF FallarAntes, Tipos, TipoDatos, TipoResto, TInv, TypeOK, datos

LEMMA TipoReiniciar == ASSUME TInv, Reiniciar PROVE Tipos'
<1>1. fallos' \in 0..MaxFallos
  BY TipoFallo DEF Reiniciar, TInv, TypeOK
<1>2. TipoPet'
  BY LibreTipo DEF Reiniciar, TipoPet, ItemsWebp
<1>3. QED
  BY <1>1, <1>2 DEF Reiniciar, Tipos, TipoDatos, TipoResto, TInv, TypeOK, datos

LEMMA TipoFotos == ASSUME TInv, NEW xs \in SUBSET Ranuras PROVE Fotos(xs) \subseteq Ranuras \X Exts
BY DEF Fotos, TInv, TypeOK

\* A step of the visit leaves the rest as it is.
LEMMA TipoNavegar ==
    ASSUME TInv, NEW r \in {Cerrada} \cup Pagina, Navegar(r),
           otras' \in 0..MaxOtras, fallos' \in 0..MaxFallos, UNCHANGED subidas
    PROVE  Tipos' /\ TipoPagina'
<1>1. TipoPagina'
  BY DEF Navegar, TipoPagina
<1>2. TipoPet'
  BY DEF Navegar, TipoPet, ItemsWebp, TInv, TypeOK, Peticion
<1>3. QED
  BY <1>1, <1>2 DEF Navegar, Tipos, TipoDatos, TipoResto, TInv, TypeOK, datos

LEMMA TipoPasoPagina == ASSUME TInv, PasoPagina PROVE Tipos' /\ TipoPagina'
<1>a. subidas \in 0..MaxSubidas /\ otras \in 0..MaxOtras /\ fallos \in 0..MaxFallos
  BY DEF TInv, TypeOK
<1>b. pagina.fase # "cerrada" => pagina \in Pagina
  BY DEF TInv, TypeOK, Cerrada
<1>1. CASE AbrirPagina
  <2>1. PICK imagenes \in BOOLEAN, bancarios \in BOOLEAN :
          Navegar([fase |-> IF imagenes THEN "items" ELSE "config", imagenes |-> imagenes,
                   bancarios |-> bancarios, fotos |-> {}, rotas |-> {}])
    BY <1>1 DEF AbrirPagina
  <2>2. [fase |-> IF imagenes THEN "items" ELSE "config", imagenes |-> imagenes,
         bancarios |-> bancarios, fotos |-> {}, rotas |-> {}] \in Pagina
    BY DEF Pagina
  <2>3. otras' \in 0..MaxOtras /\ fallos' = fallos /\ subidas' = subidas
    BY <1>1, <1>a, ArchivosAssumption DEF AbrirPagina, Otra
  <2>4. QED
    BY <1>a, <2>1, <2>2, <2>3, TipoNavegar
<1>2. CASE LeerItems
  <2>1. pagina \in Pagina
    BY <1>2, <1>b DEF LeerItems
  <2>2. fallos' \in 0..MaxFallos
    BY <1>2, <1>a, TipoFallo DEF LeerItems
  <2>3. [pagina EXCEPT !.fase = "config", !.fotos = Fotos(Items)] \in Pagina
    BY <2>1, TipoFotos, Ranura DEF Pagina
  <2>4. [pagina EXCEPT !.fase = "config"] \in Pagina
    BY <2>1 DEF Pagina
  <2>5. QED
    BY <1>2, <1>a, <2>2, <2>3, <2>4, TipoNavegar DEF LeerItems
<1>3. CASE LeerConfig
  <2>1. pagina \in Pagina
    BY <1>3, <1>b DEF LeerConfig
  <2>2. fallos' \in 0..MaxFallos
    BY <1>3, <1>a, TipoFallo DEF LeerConfig
  <2>3. FotosConfig \subseteq Ranuras \X Exts
    BY TipoFotos, Ranura DEF FotosConfig
  <2>4. [pagina EXCEPT !.fase = "cargar", !.fotos = @ \cup FotosConfig] \in Pagina
    BY <2>1, <2>3 DEF Pagina
  <2>5. [pagina EXCEPT !.fase = "cargar"] \in Pagina
    BY <2>1 DEF Pagina
  <2>6. QED
    BY <1>3, <1>a, <2>2, <2>4, <2>5, TipoNavegar DEF LeerConfig
<1>4. CASE Cargar
  <2>1. pagina \in Pagina
    BY <1>4, <1>b DEF Cargar
  <2>2. PICK f \in pagina.fotos :
          Navegar([pagina EXCEPT
                     !.fotos = @ \ {f},
                     !.rotas = IF disco[f[1]][f[2]] = Nulo THEN @ \cup {f} ELSE @])
    BY <1>4 DEF Cargar
  <2>3. [pagina EXCEPT
           !.fotos = @ \ {f},
           !.rotas = IF disco[f[1]][f[2]] = Nulo THEN @ \cup {f} ELSE @] \in Pagina
    BY <2>1 DEF Pagina
  <2>4. QED
    BY <1>4, <1>a, <2>2, <2>3, TipoNavegar DEF Cargar, cuentas
<1>5. CASE CerrarPagina
  BY <1>5, <1>a, TipoNavegar DEF CerrarPagina, cuentas
<1>6. QED
  BY <1>1, <1>2, <1>3, <1>4, <1>5 DEF PasoPagina

LEMMA TipoPasoPeticion == ASSUME TInv, NEW p \in Peticiones, PasoPeticion(p) PROVE Tipos'
<1>1. CASE Subir(p)
  BY <1>1, TipoSubir
<1>2. CASE Comprobar(p)
  BY <1>2, TipoComprobar
<1>3. CASE Escribir(p)
  BY <1>3, TipoEscribir
<1>4. CASE Guardar(p)
  BY <1>4, TipoGuardar
<1>5. CASE Deshacer(p)
  BY <1>5, TipoDeshacer
<1>6. CASE Quitar(p)
  BY <1>6, TipoQuitar
<1>7. CASE QuitarUrl(p)
  BY <1>7, TipoQuitarUrl
<1>8. CASE Vaciar(p)
  BY <1>8, TipoVaciar
<1>9. CASE BorrarArchivo(p)
  BY <1>9, TipoBorrarArchivo
<1>10. CASE VaciarBancarios(p)
  BY <1>10, TipoVaciarBancarios
<1>11. CASE PedirTipo(p)
  BY <1>11, TipoPedirTipo
<1>12. CASE CambiarTipo(p)
  BY <1>12, TipoCambiarTipo
<1>13. CASE FallarAntes(p)
  BY <1>13, TipoFallarAntes
<1>14. QED
  BY <1>1, <1>2, <1>3, <1>4, <1>5, <1>6, <1>7, <1>8, <1>9, <1>10, <1>11, <1>12, <1>13
     DEF PasoPeticion

LEMMA TInvPaso == TInv /\ [Next]_vars => TInv'
<1> SUFFICES ASSUME TInv, [Next]_vars PROVE TInv'
  OBVIOUS
<1>1. CASE Next
  <2>1. TipoHistoria'
    BY <1>1, TipoObservar DEF Next
  <2>2. CASE PasoPagina
    BY <2>1, <2>2, TipoPasoPagina, TInvPartes DEF Tipos, TipoDatos, TipoPet, TipoPagina, TipoResto,
       TipoHistoria, TInv, TypeOK, ItemsWebp, Peticion
  <2>3. CASE ~PasoPagina
    <3>1. TipoPagina'
      BY <1>1, <2>3 DEF Next, TInv, TypeOK, TipoPagina
    <3>2. Tipos'
      BY <1>1, <2>3, TipoPasoPeticion, TipoEditarBancarios, TipoBorrarItem, TipoReiniciar DEF Next
    <3>3. QED
      BY <2>1, <3>1, <3>2 DEF Tipos, TipoDatos, TipoPet, TipoPagina, TipoResto,
         TipoHistoria, TInv, TypeOK, Peticion
  <2>4. QED
    BY <2>2, <2>3
<1>2. CASE UNCHANGED vars
  BY <1>2 DEF vars, datos, cuentas, historia, TInv, TypeOK, ItemsWebp
<1>3. QED
  BY <1>1, <1>2

\* Every variable keeps the type that TypeOK gives it, whatever overlaps or fails.
THEOREM TiposCorrectos == Spec => []TypeOK
<1>1. Spec => []TInv
  BY TInvInicial, TInvPaso, PTL DEF Spec
<1>2. TInv => TypeOK
  BY DEF TInv
<1>3. QED
  BY <1>1, <1>2, PTL

-----------------------------------------------------------------------------
(* The bytes of a failed upload *)

Subiendo(p) == pet[p].op = "subir"

\* Uploads are numbered as they come, and each number is in flight once.
Numeradas ==
    /\ erradas \subseteq 1..subidas
    /\ \A p \in Peticiones : Subiendo(p) => pet[p].v <= subidas /\ pet[p].v \notin erradas
    /\ \A p, q \in Peticiones : Subiendo(p) /\ Subiendo(q) /\ p # q => pet[p].v # pet[q].v
    /\ \A x \in Ranuras, e \in Exts : disco[x][e] # Nulo => disco[x][e] <= subidas

\* The bytes of an upload in flight are in its own file, once it is written.
Escritas ==
    \A p \in Peticiones, x \in Ranuras, e \in Exts :
        Subiendo(p) /\ disco[x][e] = pet[p].v =>
            x = pet[p].x /\ e = pet[p].ext /\ pet[p].fase \in {"guardar", "deshacer"}

FInv == Numeradas /\ Escritas /\ FallidaNoQueda

LEMMA FInvInicial == Init => FInv
BY ArchivosAssumption DEF Init, FInv, Numeradas, Escritas, FallidaNoQueda, Subiendo, Libre

LEMMA EnVuelo ==
    ASSUME TInv, NEW p \in Peticiones, Subiendo(p)
    PROVE  /\ pet[p].v \in Version \ {0} /\ pet[p].v \in Nat /\ pet[p].v # Nulo
           /\ pet[p].x \in Ranuras /\ pet[p].ext \in Exts
<1>1. pet[p] \in Subida
  BY Fases DEF Subiendo, TInv, TypeOK, Peticion
<1>2. QED
  BY <1>1, ArchivosAssumption DEF Subida, Version

\* A step that writes no bytes: files are kept, cut short or removed, uploads go on
\* or end, and those that end in an error leave their bytes only on a faulty disk.
SubidasSiguen ==
    \A p \in Peticiones :
        pet'[p].op = "subir" =>
            /\ Subiendo(p) /\ pet'[p].v = pet[p].v
            /\ pet'[p].x = pet[p].x /\ pet'[p].ext = pet[p].ext
            /\ pet[p].fase \in {"guardar", "deshacer"} => pet'[p].fase \in {"guardar", "deshacer"}

DiscoSinNuevas ==
    /\ \A x \in Ranuras, e \in Exts : disco'[x][e] \in {disco[x][e], Nulo, 0}
    /\ \A x \in Ranuras : averiada[x] => averiada'[x]

SinBytes == subidas' = subidas /\ SubidasSiguen /\ DiscoSinNuevas

\* The uploads that the step answers with an error.
Erradas(p) ==
    /\ erradas' = IF Subiendo(p) THEN erradas \cup {pet[p].v} ELSE erradas
    /\ pet'[p].op # "subir"
    /\ \A x \in Ranuras, e \in Exts :
         Subiendo(p) /\ disco'[x][e] = pet[p].v => averiada'[x]

LEMMA SinBytesConserva ==
    ASSUME TInv, FInv, SinBytes,
           erradas' = erradas \/ \E p \in Peticiones : Erradas(p)
    PROVE  FInv'
<1>a. Nulo \notin Version /\ Version \subseteq Nat /\ erradas \subseteq 1..subidas /\ subidas \in Nat
  BY ArchivosAssumption DEF Version, FInv, Numeradas, TInv, TypeOK
<1>b. \A x \in Ranuras, e \in Exts : disco[x][e] \in Version \cup {Nulo}
  BY DEF TInv, TypeOK
<1>1. ASSUME NEW q \in Peticiones, pet'[q].op = "subir"
      PROVE  pet'[q].v <= subidas' /\ pet'[q].v \notin erradas'
  <2>1. Subiendo(q) /\ pet'[q].v = pet[q].v /\ pet[q].v <= subidas /\ pet[q].v \notin erradas
    BY <1>1 DEF SinBytes, SubidasSiguen, DiscoSinNuevas, FInv, Numeradas
  <2>2. ASSUME NEW p \in Peticiones, Erradas(p) PROVE pet'[q].v \notin erradas'
    BY <1>1, <2>1, <2>2 DEF Erradas, FInv, Numeradas
  <2>3. QED
    BY <2>1, <2>2 DEF SinBytes, SubidasSiguen, DiscoSinNuevas
<1>2. erradas' \subseteq 1..subidas'
  <2>1. ASSUME NEW p \in Peticiones, Erradas(p) PROVE erradas' \subseteq 1..subidas'
    <3>1. Subiendo(p) => pet[p].v \in 1..subidas
      <4>1. Subiendo(p) => pet[p].v \in Nat /\ pet[p].v # 0
        BY EnVuelo
      <4>2. QED
        BY <1>a, <4>1 DEF FInv, Numeradas
    <3>2. QED
      BY <1>a, <2>1, <3>1 DEF Erradas, SinBytes, SubidasSiguen, DiscoSinNuevas
  <2>2. QED
    BY <1>a, <2>1 DEF SinBytes, SubidasSiguen, DiscoSinNuevas
<1>3. \A p, q \in Peticiones :
        pet'[p].op = "subir" /\ pet'[q].op = "subir" /\ p # q => pet'[p].v # pet'[q].v
  BY DEF SinBytes, SubidasSiguen, DiscoSinNuevas, FInv, Numeradas
<1>4. \A x \in Ranuras, e \in Exts : disco'[x][e] # Nulo => disco'[x][e] <= subidas'
  BY <1>a, <1>b DEF SinBytes, SubidasSiguen, DiscoSinNuevas, FInv, Numeradas
<1>5. ASSUME NEW q \in Peticiones, NEW x \in Ranuras, NEW e \in Exts,
             pet'[q].op = "subir", disco'[x][e] = pet'[q].v
      PROVE  x = pet'[q].x /\ e = pet'[q].ext /\ pet'[q].fase \in {"guardar", "deshacer"}
  <2>1. Subiendo(q) /\ pet'[q].v = pet[q].v
    BY <1>5 DEF SinBytes, SubidasSiguen, DiscoSinNuevas
  <2>2. disco[x][e] = pet[q].v
    BY <1>5, <2>1, EnVuelo DEF SinBytes, SubidasSiguen, DiscoSinNuevas
  <2>3. QED
    BY <1>5, <2>1, <2>2 DEF SinBytes, SubidasSiguen, DiscoSinNuevas, FInv, Escritas
<1>6. ASSUME NEW x \in Ranuras, NEW e \in Exts, disco'[x][e] \in erradas'
      PROVE  averiada'[x]
  <2>a. 1..subidas' \subseteq Version \ {0}
    BY <1>a, ArchivosAssumption DEF SinBytes, SubidasSiguen, DiscoSinNuevas, TInv, TypeOK, Version
  <2>1. disco'[x][e] # 0 /\ disco'[x][e] # Nulo
    BY <1>2, <1>6, <1>a, <2>a
  <2>2. disco'[x][e] = disco[x][e]
    BY <2>1 DEF SinBytes, SubidasSiguen, DiscoSinNuevas
  <2>3. CASE disco[x][e] \in erradas
    BY <2>3 DEF SinBytes, SubidasSiguen, DiscoSinNuevas, FInv, FallidaNoQueda
  <2>4. CASE disco[x][e] \notin erradas
    BY <1>6, <2>2, <2>4 DEF Erradas
  <2>5. QED
    BY <2>3, <2>4
<1>7. QED
  BY <1>1, <1>2, <1>3, <1>4, <1>5, <1>6 DEF FInv, Numeradas, Escritas, FallidaNoQueda, Subiendo

LEMMA PasarSigue ==
    ASSUME TInv, NEW p \in Peticiones, NEW r, Pasar(p, r), r.op # "subir"
    PROVE  SubidasSiguen
BY DEF Pasar, SubidasSiguen, Subiendo, TInv, TypeOK

LEMMA IrSigue ==
    ASSUME TInv, NEW p \in Peticiones, NEW f, Ir(p, f),
           Subiendo(p) /\ pet[p].fase \in {"guardar", "deshacer"} => f \in {"guardar", "deshacer"}
    PROVE  SubidasSiguen
<1>1. pet' = [pet EXCEPT ![p] = [pet[p] EXCEPT !.fase = f]]
  BY DEF Ir
<1>2. pet \in [Peticiones -> Peticion]
  BY DEF TInv, TypeOK, Peticion
<1>3. CASE pet[p] \in Subida
  BY <1>1, <1>2, <1>3 DEF SubidasSiguen, Subiendo, Subida
<1>4. CASE pet[p] \notin Subida
  <2>1. pet'[p].op # "subir"
    BY <1>1, <1>2, <1>4, ArchivosAssumption DEF Peticion, Libre, Borrado, Vaciado, CambioTipo
  <2>2. QED
    BY <1>1, <1>2, <2>1 DEF SubidasSiguen, Subiendo
<1>5. QED
  BY <1>3, <1>4

LEMMA BorrarQuita ==
    ASSUME TInv, NEW x \in Ranuras, NEW d \in [Exts -> Version \cup {Nulo}], NEW es \in SUBSET Exts,
           Borrar(x, d, es)
    PROVE  /\ \E d2 \in [Exts -> Version \cup {Nulo}] :
                /\ disco' = [disco EXCEPT ![x] = d2]
                /\ \A e \in Exts : d2[e] \in {d[e], Nulo}
                /\ \A e \in es : d2[e] = Nulo \/ averiada'[x]
           /\ \A y \in Ranuras : averiada[y] => averiada'[y]
<1>1. SinArchivos(d, es) \in [Exts -> Version \cup {Nulo}]
  BY DEF SinArchivos
<1>2. CASE disco' = [disco EXCEPT ![x] = SinArchivos(d, es)] /\ UNCHANGED averiada
  BY <1>1, <1>2 DEF SinArchivos
<1>3. CASE disco' = [disco EXCEPT ![x] = d] /\ Averiar(x)
  BY <1>3 DEF Averiar, TInv, TypeOK
<1>4. QED
  BY <1>2, <1>3 DEF Borrar

\* Removing files of x as they are.
LEMMA BorrarSinNuevas ==
    ASSUME TInv, NEW x \in Ranuras, NEW es \in SUBSET Exts, Borrar(x, disco[x], es)
    PROVE  DiscoSinNuevas /\ \A e \in es : disco'[x][e] = Nulo \/ averiada'[x]
<1>1. disco[x] \in [Exts -> Version \cup {Nulo}]
  BY DEF TInv, TypeOK
<1>2. PICK d2 \in [Exts -> Version \cup {Nulo}] :
        /\ disco' = [disco EXCEPT ![x] = d2]
        /\ \A e \in Exts : d2[e] \in {disco[x][e], Nulo}
        /\ \A e \in es : d2[e] = Nulo \/ averiada'[x]
  BY <1>1, BorrarQuita
<1>3. \A y \in Ranuras : averiada[y] => averiada'[y]
  BY <1>1, BorrarQuita
<1>4. disco'[x] = d2 /\ \A y \in Ranuras \ {x} : disco'[y] = disco[y]
  BY <1>2 DEF TInv, TypeOK
<1>5. QED
  BY <1>2, <1>3, <1>4 DEF DiscoSinNuevas

LEMMA LibreSigue == ASSUME TInv, NEW p \in Peticiones, Pasar(p, Libre) PROVE SubidasSiguen /\ pet'[p].op # "subir"
BY PasarSigue, LibreTipo DEF Pasar, TInv, TypeOK

\* An upload that fails before its bytes are written leaves none.
LEMMA SinEscribir ==
    ASSUME TInv, FInv, NEW p \in Peticiones, pet[p].fase \notin {"guardar", "deshacer"}
    PROVE  \A x \in Ranuras, e \in Exts : Subiendo(p) => disco[x][e] # pet[p].v
BY DEF FInv, Escritas

LEMMA FSubir == ASSUME TInv, FInv, NEW p \in Peticiones, Subir(p) PROVE FInv'
<1>a. PICK x \in Ranuras : \E e \in ExtsDe(x) :
        Pasar(p, [op |-> "subir", x |-> x, ext |-> e, v |-> subidas + 1,
                  fase |-> IF x \in Items THEN "comprobar" ELSE "escribir"])
  BY DEF Subir
<1>1. PICK e \in ExtsDe(x) :
        Pasar(p, [op |-> "subir", x |-> x, ext |-> e, v |-> subidas + 1,
                  fase |-> IF x \in Items THEN "comprobar" ELSE "escribir"])
  BY <1>a
<1>2. /\ pet'[p].op = "subir" /\ pet'[p].v = subidas + 1
      /\ \A q \in Peticiones \ {p} : pet'[q] = pet[q]
  BY <1>1 DEF Pasar, TInv, TypeOK
<1>3. /\ UNCHANGED <<disco, erradas, averiada>> /\ subidas' = subidas + 1
      /\ subidas \in Nat /\ erradas \subseteq 1..subidas
  BY DEF Subir, TInv, TypeOK, FInv, Numeradas, datos
<1>b. 1..subidas \subseteq Nat /\ 1..subidas \subseteq 1..(subidas + 1)
  BY <1>3
<1>c. \A y \in Ranuras, f \in Exts : disco[y][f] # Nulo => disco[y][f] \in Nat /\ disco[y][f] <= subidas
  BY DEF TInv, TypeOK, Version, FInv, Numeradas
<1>d. \A q \in Peticiones : Subiendo(q) => pet[q].v \in Nat /\ pet[q].v <= subidas /\ pet[q].v \notin erradas
  BY EnVuelo DEF FInv, Numeradas
<1>4. Numeradas'
  <2>1. \A q \in Peticiones : pet'[q].op = "subir" => pet'[q].v <= subidas' /\ pet'[q].v \notin erradas'
    BY <1>2, <1>3, <1>d DEF Subiendo
  <2>2. \A q, q2 \in Peticiones :
          pet'[q].op = "subir" /\ pet'[q2].op = "subir" /\ q # q2 => pet'[q].v # pet'[q2].v
    BY <1>2, <1>3, <1>d DEF Subiendo, FInv, Numeradas
  <2>3. \A y \in Ranuras, f \in Exts : disco'[y][f] # Nulo => disco'[y][f] <= subidas'
    BY <1>3, <1>c
  <2>4. QED
    BY <1>3, <1>b, <2>1, <2>2, <2>3 DEF Numeradas, Subiendo
<1>5. Escritas'
  <2>1. \A y \in Ranuras, f \in Exts : disco'[y][f] # pet'[p].v
    <3>1. subidas + 1 # Nulo
      BY <1>2, ArchivosAssumption DEF Subir, TInv, TypeOK, Version
    <3>2. QED
      BY <1>2, <1>3, <1>c, <3>1
  <2>2. QED
    BY <1>2, <1>3, <2>1 DEF Escritas, Subiendo, FInv
<1>6. FallidaNoQueda'
  BY <1>3 DEF FInv, FallidaNoQueda
<1>7. QED
  BY <1>4, <1>5, <1>6 DEF FInv

LEMMA FErrarAntes ==
    ASSUME TInv, FInv, NEW p \in Peticiones, Errar(p), pet[p].fase \notin {"guardar", "deshacer"},
           UNCHANGED subidas, DiscoSinNuevas
    PROVE  FInv'
<1>1. SubidasSiguen /\ pet'[p].op # "subir"
  BY LibreSigue DEF Errar
<1>2. \A x \in Ranuras, e \in Exts : Subiendo(p) => disco'[x][e] # pet[p].v
  BY SinEscribir, EnVuelo DEF DiscoSinNuevas
<1>3. Erradas(p)
  BY <1>1, <1>2 DEF Errar, Erradas, Subiendo
<1>4. QED
  BY <1>1, <1>3, SinBytesConserva DEF SinBytes

LEMMA FComprobar == ASSUME TInv, FInv, NEW p \in Peticiones, Comprobar(p) PROVE FInv'
<1>1. DiscoSinNuevas /\ UNCHANGED subidas /\ pet[p].fase = "comprobar"
  BY DEF Comprobar, DiscoSinNuevas, datos, cuentas
<1>2. CASE Errar(p)
  BY <1>1, <1>2, FErrarAntes
<1>3. CASE Ir(p, IF pet[p].op = "subir" THEN "escribir" ELSE "borrarUrl") /\ UNCHANGED erradas
  <2>1. SubidasSiguen
    BY <1>1, <1>3, IrSigue
  <2>2. QED
    BY <1>1, <1>3, <2>1, SinBytesConserva DEF SinBytes
<1>4. QED
  BY <1>2, <1>3 DEF Comprobar

LEMMA FEscribir == ASSUME TInv, FInv, NEW p \in Peticiones, Escribir(p) PROVE FInv'
<1> DEFINE r == pet[p]
           d == [disco[r.x] EXCEPT ![r.ext] = r.v]
<1>1. /\ Subiendo(p) /\ r.x \in Ranuras /\ r.ext \in Exts /\ r.v \in Version \ {0} /\ r.v \in Nat
      /\ r.fase = "escribir" /\ UNCHANGED subidas
  BY EnVuelo DEF Escribir, En, Subiendo
<1>2. CASE /\ Fallo /\ Averiar(r.x) /\ Errar(p)
           /\ \/ UNCHANGED disco
              \/ disco' = [disco EXCEPT ![r.x][r.ext] = 0]
  <2>a. \A y \in Ranuras : averiada[y] => averiada'[y]
    BY <1>2 DEF Averiar, TInv, TypeOK
  <2>1. DiscoSinNuevas
    <3>1. CASE disco' = [disco EXCEPT ![r.x] = [disco[r.x] EXCEPT ![r.ext] = 0]]
      <4>1. disco'[r.x] = [disco[r.x] EXCEPT ![r.ext] = 0]
            /\ \A y \in Ranuras \ {r.x} : disco'[y] = disco[y]
        BY <1>1, <3>1 DEF TInv, TypeOK
      <4>2. \A e \in Exts : disco'[r.x][e] \in {disco[r.x][e], 0}
        BY <1>1, <4>1 DEF TInv, TypeOK
      <4>3. QED
        BY <2>a, <4>1, <4>2 DEF DiscoSinNuevas
    <3>2. CASE UNCHANGED disco
      BY <2>a, <3>2 DEF DiscoSinNuevas
    <3>3. QED
      BY <1>2, <3>1, <3>2
  <2>2. QED
    BY <1>1, <1>2, <2>1, FErrarAntes
<1>3. CASE /\ Borrar(r.x, d, Sobrantes(r.x, r.ext))
           /\ Ir(p, "guardar") /\ UNCHANGED erradas
  <2>1. d \in [Exts -> Version \cup {Nulo}] /\ Sobrantes(r.x, r.ext) \in SUBSET Exts
    BY <1>1 DEF Sobrantes, TInv, TypeOK
  <2>2. PICK d2 \in [Exts -> Version \cup {Nulo}] :
          /\ disco' = [disco EXCEPT ![r.x] = d2]
          /\ \A e \in Exts : d2[e] \in {d[e], Nulo}
    BY <1>1, <1>3, <2>1, BorrarQuita
  <2>3. \A y \in Ranuras : averiada[y] => averiada'[y]
    BY <1>1, <1>3, <2>1, BorrarQuita
  <2>4. \A y \in Ranuras, e \in Exts :
          \/ disco'[y][e] \in {disco[y][e], Nulo}
          \/ y = r.x /\ e = r.ext /\ disco'[y][e] = r.v
    BY <1>1, <2>1, <2>2 DEF TInv, TypeOK
  <2>5. SubidasSiguen
    BY <1>1, <1>3, IrSigue
  <2>6. pet'[p].fase = "guardar"
    BY <1>3 DEF Ir, TInv, TypeOK, Libre, Subida, Borrado, Vaciado, CambioTipo
  <2>7. r.v <= subidas /\ r.v \notin erradas
    BY <1>1 DEF FInv, Numeradas
  <2>8. Numeradas'
    <3>1. \A y \in Ranuras, e \in Exts : disco'[y][e] # Nulo => disco'[y][e] <= subidas
      BY <2>4, <2>7 DEF FInv, Numeradas
    <3>2. QED
      BY <1>1, <1>3, <2>5, <3>1 DEF FInv, Numeradas, SubidasSiguen, Subiendo
  <2>9. Escritas'
    <3>1. ASSUME NEW q \in Peticiones, NEW y \in Ranuras, NEW e \in Exts,
                 pet'[q].op = "subir", disco'[y][e] = pet'[q].v
          PROVE  y = pet'[q].x /\ e = pet'[q].ext /\ pet'[q].fase \in {"guardar", "deshacer"}
      <4>1. /\ Subiendo(q) /\ pet'[q].v = pet[q].v /\ pet'[q].x = pet[q].x /\ pet'[q].ext = pet[q].ext
            /\ pet[q].fase \in {"guardar", "deshacer"} => pet'[q].fase \in {"guardar", "deshacer"}
        BY <3>1, <2>5 DEF SubidasSiguen
      <4>2. pet[q].v # Nulo
        BY <4>1, EnVuelo
      <4>3. CASE disco[y][e] = pet[q].v
        BY <4>1, <4>3 DEF FInv, Escritas
      <4>4. CASE disco[y][e] # pet[q].v
        <5>1. y = r.x /\ e = r.ext /\ r.v = pet[q].v
          BY <2>4, <3>1, <4>1, <4>2, <4>4
        <5>2. q = p
          BY <1>1, <4>1, <5>1 DEF FInv, Numeradas
        <5>3. QED
          BY <2>6, <4>1, <5>1, <5>2
      <4>5. QED
        BY <4>3, <4>4
    <3>2. QED
      BY <3>1 DEF Escritas, Subiendo
  <2>10. FallidaNoQueda'
    <3>1. Nulo \notin erradas
      BY ArchivosAssumption DEF TInv, TypeOK
    <3>2. QED
      BY <1>3, <2>3, <2>4, <2>7, <3>1 DEF FInv, FallidaNoQueda
  <2>11. QED
    BY <2>8, <2>9, <2>10 DEF FInv
<1>4. QED
  BY <1>2, <1>3 DEF Escribir

LEMMA FGuardar == ASSUME TInv, FInv, NEW p \in Peticiones, Guardar(p) PROVE FInv'
<1>1. UNCHANGED <<disco, erradas, averiada, subidas>>
  BY DEF Guardar
<1>2. Pasar(p, Libre) \/ Ir(p, "deshacer")
  BY DEF Guardar
<1>3. SubidasSiguen
  BY <1>2, LibreSigue, IrSigue
<1>4. DiscoSinNuevas
  BY <1>1 DEF DiscoSinNuevas
<1>5. QED
  BY <1>1, <1>3, <1>4, SinBytesConserva DEF SinBytes

LEMMA FDeshacer == ASSUME TInv, FInv, NEW p \in Peticiones, Deshacer(p) PROVE FInv'
<1> DEFINE r == pet[p]
<1>1. Subiendo(p) /\ r.x \in Ranuras /\ r.ext \in Exts /\ r.v # Nulo
  BY EnVuelo DEF Deshacer, En, Subiendo
<1>2. DiscoSinNuevas /\ (disco'[r.x][r.ext] = Nulo \/ averiada'[r.x])
  BY <1>1, BorrarSinNuevas DEF Deshacer, ADeshacer
<1>3. SubidasSiguen /\ pet'[p].op # "subir"
  BY LibreSigue DEF Deshacer, Errar
<1>4. ASSUME NEW x \in Ranuras, NEW e \in Exts, disco'[x][e] = r.v
      PROVE  averiada'[x]
  <2>1. disco[x][e] = r.v
    BY <1>1, <1>2, <1>4, EnVuelo DEF DiscoSinNuevas
  <2>2. x = r.x /\ e = r.ext
    BY <1>1, <2>1 DEF FInv, Escritas
  <2>3. QED
    BY <1>1, <1>2, <1>4, <2>2
<1>5. Erradas(p)
  BY <1>1, <1>3, <1>4 DEF Deshacer, Errar, Erradas, Subiendo
<1>6. QED
  BY <1>2, <1>3, <1>5, SinBytesConserva DEF SinBytes, Deshacer

LEMMA FBorrarArchivo == ASSUME TInv, FInv, NEW p \in Peticiones, BorrarArchivo(p) PROVE FInv'
<1>1. pet[p].x \in Ranuras /\ pet[p].fase = "borrarArchivo"
  BY DEF BorrarArchivo, TInv, TypeOK, Libre, Subida, Borrado, Vaciado, CambioTipo, Ranuras
<1>2. DiscoSinNuevas
  BY <1>1, BorrarSinNuevas DEF BorrarArchivo
<1>3. ~Subiendo(p)
  BY <1>1, Fases DEF Subiendo, TInv, TypeOK, Peticion, Subida
<1>4. SubidasSiguen
  BY <1>3, LibreSigue, IrSigue DEF BorrarArchivo
<1>5. QED
  BY <1>2, <1>4, SinBytesConserva DEF SinBytes, BorrarArchivo

LEMMA FFallarAntes == ASSUME TInv, FInv, NEW p \in Peticiones, FallarAntes(p) PROVE FInv'
<1>1. DiscoSinNuevas
  BY DEF FallarAntes, datos, DiscoSinNuevas
<1>2. pet[p].fase \notin {"guardar", "deshacer"}
  BY DEF FallarAntes, En
<1>3. QED
  BY <1>1, <1>2, FErrarAntes DEF FallarAntes

\* The steps that neither upload nor touch a file.
LEMMA FResto ==
    ASSUME TInv, FInv, UNCHANGED <<disco, subidas, erradas, averiada>>, SubidasSiguen
    PROVE  FInv'
BY SinBytesConserva DEF SinBytes, DiscoSinNuevas

LEMMA FPasoPeticion == ASSUME TInv, FInv, NEW p \in Peticiones, PasoPeticion(p) PROVE FInv'
<1>1. CASE Quitar(p)
  <2>1. SubidasSiguen
    BY <1>1, PasarSigue DEF Quitar
  <2>2. QED
    BY <1>1, <2>1, FResto DEF Quitar, Otra, datos
<1>2. CASE QuitarUrl(p)
  <2>1. ~Subiendo(p)
    BY <1>2 DEF QuitarUrl, En, Subiendo
  <2>2. SubidasSiguen
    BY <1>2, <2>1, LibreSigue, IrSigue DEF QuitarUrl
  <2>3. QED
    BY <1>2, <2>2, FResto DEF QuitarUrl
<1>3. CASE Vaciar(p)
  <2>1. SubidasSiguen
    BY <1>3, PasarSigue DEF Vaciar
  <2>2. QED
    BY <1>3, <2>1, FResto DEF Vaciar, Otra, datos
<1>4. CASE VaciarBancarios(p)
  <2>1. SubidasSiguen
    BY <1>4, LibreSigue DEF VaciarBancarios
  <2>2. QED
    BY <1>4, <2>1, FResto DEF VaciarBancarios
<1>5. CASE PedirTipo(p)
  <2>1. SubidasSiguen
    BY <1>5, PasarSigue DEF PedirTipo
  <2>2. QED
    BY <1>5, <2>1, FResto DEF PedirTipo, Otra, datos
<1>6. CASE CambiarTipo(p)
  <2>1. Pasar(p, Libre) \/ Pasar(p, [op |-> "tipo", x |-> pet[p].x, fase |-> "borrarArchivo"])
    BY <1>6 DEF CambiarTipo
  <2>2. SubidasSiguen
    BY <2>1, LibreSigue, PasarSigue
  <2>3. QED
    BY <1>6, <2>2, FResto DEF CambiarTipo
<1>7. QED
  BY <1>1, <1>2, <1>3, <1>4, <1>5, <1>6, FSubir, FComprobar, FEscribir, FGuardar, FDeshacer,
     FBorrarArchivo, FFallarAntes DEF PasoPeticion

LEMMA FInvPaso == TInv /\ FInv /\ [Next]_vars => FInv'
<1> SUFFICES ASSUME TInv, FInv, [Next]_vars PROVE FInv'
  OBVIOUS
<1>a. pet' = pet => SubidasSiguen
  BY DEF SubidasSiguen, Subiendo
<1>1. CASE \E p \in Peticiones : PasoPeticion(p)
  BY <1>1, FPasoPeticion
<1>2. CASE EditarBancarios
  BY <1>2, <1>a, FResto DEF EditarBancarios, Otra
<1>3. CASE \E i \in Items : BorrarItem(i)
  BY <1>3, <1>a, FResto DEF BorrarItem, Otra
<1>4. CASE Reiniciar
  <2>1. SubidasSiguen
    BY <1>4, LibreTipo DEF Reiniciar, SubidasSiguen
  <2>2. QED
    BY <1>4, <2>1, FResto DEF Reiniciar, datos
<1>5. CASE PasoPagina
  BY <1>5, <1>a, FResto DEF PasoPagina, AbrirPagina, LeerItems, LeerConfig, Cargar, CerrarPagina,
     Navegar, Otra, datos, cuentas
<1>6. CASE UNCHANGED vars
  BY <1>6, <1>a, FResto DEF vars, datos, cuentas
<1>7. QED
  BY <1>1, <1>2, <1>3, <1>4, <1>5, <1>6 DEF Next

\* However many uploads, removals and type changes overlap, and wherever they fail, the
\* bytes of an upload that was answered with an error are on disk only where a file
\* could not be written or removed: the clean-up of uploadImagen, saveLogo and
\* saveBankLogo never leaves them behind.
THEOREM SinRestosDeFallidas == Spec => []FallidaNoQueda
<1>1. Init => TInv /\ FInv
  BY TInvInicial, FInvInicial
<1>2. TInv /\ FInv /\ [Next]_vars => (TInv /\ FInv)'
  BY TInvPaso, FInvPaso
<1>3. TInv /\ FInv => FallidaNoQueda
  BY DEF FInv
<1>4. QED
  BY <1>1, <1>2, <1>3, PTL DEF Spec

-----------------------------------------------------------------------------
(* No image for a service *)

\* Requests on one picture at once have been seen to overlap.
Solapadas ==
    \A x \in Ranuras, p, q \in Peticiones :
        p # q /\ pet[p].x = x /\ pet[q].x = x => revuelta[x]

\* An upload past the check of its item is for a product, or the type of the item
\* was changed by a request that overlapped it.
HalladoProducto ==
    \A i \in Items, p \in Peticiones :
        /\ Subiendo(p) /\ pet[p].x = i /\ pet[p].fase \in {"escribir", "guardar"}
        /\ tipo[i] = "servicio"
        => revuelta[i]

RInv == Solapadas /\ HalladoProducto

LEMMA RInvInicial == Init => RInv
BY ArchivosAssumption DEF Init, RInv, Solapadas, HalladoProducto, Subiendo, Libre

LEMMA SolapadasPaso == ASSUME TInv, Observar PROVE Solapadas'
<1> SUFFICES ASSUME NEW x \in Ranuras, NEW p \in Peticiones, NEW q \in Peticiones,
                    p # q, pet'[p].x = x, pet'[q].x = x
             PROVE  revuelta'[x]
  BY DEF Solapadas
<1> DEFINE S == Sobre(pet', x)
<1>1. p \in S /\ q \in S /\ S \in SUBSET Peticiones
  BY DEF Sobre
<1>2. IsFiniteSet(S) /\ Cardinality(S) \in Nat
  BY <1>1, ArchivosAssumption, FS_Subset, FS_CardinalityType
<1>3. Cardinality(S) # 0
  BY <1>1, <1>2, FS_EmptySet
<1>4. Cardinality(S) # 1
  BY <1>1, <1>2, FS_Singleton
<1>5. Cardinality(S) > 1
  BY <1>2, <1>3, <1>4
<1>6. QED
  BY <1>5 DEF Observar

\* A picture that a request is at keeps its history.
LEMMA RevueltaSigue ==
    ASSUME TInv, Observar, NEW x \in Ranuras, NEW p \in Peticiones, pet[p].x = x, revuelta[x]
    PROVE  revuelta'[x]
BY DEF Observar, Sobre

\* A step of a request leaves the other requests alone.
LEMMA PasoPropio ==
    ASSUME TInv, NEW p \in Peticiones, PasoPeticion(p), NEW q \in Peticiones, q # p
    PROVE  pet'[q] = pet[q]
BY DEF PasoPeticion, Subir, Comprobar, Escribir, Guardar, Deshacer, Quitar, QuitarUrl, Vaciar,
   BorrarArchivo, VaciarBancarios, PedirTipo, CambiarTipo, FallarAntes, Errar, Ir, Pasar, TInv, TypeOK

\* Only a change of type, by a request on the item, makes a service of an item.
LEMMA PasoTipo ==
    ASSUME TInv, NEW p \in Peticiones, PasoPeticion(p), NEW i \in Items, tipo'[i] # tipo[i]
    PROVE  En(p, "tipo", "escribir") /\ pet[p].x = i
<1>1. CASE CambiarTipo(p)
  BY <1>1 DEF CambiarTipo, TInv, TypeOK
<1>2. CASE ~CambiarTipo(p)
  BY <1>2 DEF PasoPeticion, Subir, Comprobar, Escribir, Guardar, Deshacer, Quitar, QuitarUrl, Vaciar,
     BorrarArchivo, VaciarBancarios, PedirTipo, FallarAntes, datos
<1>3. QED
  BY <1>1, <1>2

\* An upload comes past the check from a product only, and past the write from there.
LEMMA PasoSubida ==
    ASSUME TInv, NEW p \in Peticiones, PasoPeticion(p), pet'[p].op = "subir",
           pet'[p].x \in Items, pet'[p].fase \in {"escribir", "guardar"}
    PROVE  /\ Subiendo(p) /\ pet'[p].x = pet[p].x
           /\ tipo'[pet[p].x] = tipo[pet[p].x]
           /\ \/ pet[p].fase \in {"escribir", "guardar"}
              \/ tipo[pet[p].x] = "producto"
<1>l. Pasar(p, Libre) => pet'[p].op # "subir"
  BY LibreSigue
<1>1. CASE Comprobar(p)
  <2>1. ~Errar(p)
    BY <1>l DEF Errar
  <2>2. Ir(p, IF pet[p].op = "subir" THEN "escribir" ELSE "borrarUrl") /\ AdmiteImagen(pet[p].x)
        /\ UNCHANGED tipo
    BY <1>1, <2>1 DEF Comprobar, datos
  <2>3. SubidasSiguen
    BY <1>1, <2>2, IrSigue DEF Comprobar
  <2>4. QED
    BY <2>2, <2>3 DEF SubidasSiguen, AdmiteImagen
<1>2. CASE Escribir(p)
  <2>1. ~Errar(p)
    BY <1>l DEF Errar
  <2>2. Ir(p, "guardar") /\ UNCHANGED tipo /\ pet[p].fase = "escribir"
    BY <1>2, <2>1 DEF Escribir, En
  <2>3. SubidasSiguen
    BY <2>2, IrSigue
  <2>4. QED
    BY <2>2, <2>3 DEF SubidasSiguen
<1>3. CASE Guardar(p)
  <2>1. UNCHANGED tipo /\ pet[p].fase = "guardar" /\ (Pasar(p, Libre) \/ Ir(p, "deshacer"))
    BY <1>3 DEF Guardar, En
  <2>2. SubidasSiguen
    BY <2>1, LibreSigue, IrSigue
  <2>3. QED
    BY <2>1, <2>2 DEF SubidasSiguen
<1>4. CASE Subir(p)
  <2>1. PICK x \in Ranuras : \E e \in ExtsDe(x) :
          Pasar(p, [op |-> "subir", x |-> x, ext |-> e, v |-> subidas + 1,
                    fase |-> IF x \in Items THEN "comprobar" ELSE "escribir"])
    BY <1>4 DEF Subir
  <2>2. QED
    BY <2>1 DEF Pasar, TInv, TypeOK
<1>5. CASE Deshacer(p) \/ VaciarBancarios(p) \/ FallarAntes(p)
  BY <1>5, <1>l DEF Deshacer, VaciarBancarios, FallarAntes, Errar
<1>6. CASE Quitar(p)
  <2>1. PICK x \in Ranuras :
          Pasar(p, [op |-> "quitar", x |-> x,
                    fase |-> IF x \in Items THEN "comprobar" ELSE "borrarUrl"])
    BY <1>6 DEF Quitar
  <2>2. QED
    BY <2>1 DEF Pasar, TInv, TypeOK
<1>7. CASE Vaciar(p)
  BY <1>7 DEF Vaciar, Pasar, TInv, TypeOK
<1>8. CASE PedirTipo(p)
  <2>1. PICK i \in Items, t \in {"producto", "servicio"} :
          Pasar(p, [op |-> "tipo", x |-> i, fase |-> "escribir", tipo |-> t])
    BY <1>8 DEF PedirTipo
  <2>2. QED
    BY <2>1 DEF Pasar, TInv, TypeOK
<1>9. CASE CambiarTipo(p)
  <2>1. Pasar(p, Libre) \/ Pasar(p, [op |-> "tipo", x |-> pet[p].x, fase |-> "borrarArchivo"])
    BY <1>9 DEF CambiarTipo
  <2>2. QED
    BY <2>1, <1>l DEF Pasar, TInv, TypeOK
<1>10. CASE QuitarUrl(p)
  <2>1. ~Subiendo(p)
    BY <1>10 DEF QuitarUrl, En, Subiendo
  <2>2. SubidasSiguen
    BY <1>10, <2>1, LibreSigue, IrSigue DEF QuitarUrl
  <2>3. QED
    BY <2>1, <2>2 DEF SubidasSiguen
<1>11. CASE BorrarArchivo(p)
  <2>1. ~Subiendo(p)
    BY <1>11, Fases DEF BorrarArchivo, Subiendo, TInv, TypeOK, Peticion, Subida
  <2>2. SubidasSiguen
    BY <1>11, <2>1, LibreSigue, IrSigue DEF BorrarArchivo
  <2>3. QED
    BY <2>1, <2>2 DEF SubidasSiguen
<1>12. QED
  BY <1>1, <1>2, <1>3, <1>4, <1>5, <1>6, <1>7, <1>8, <1>9, <1>10, <1>11 DEF PasoPeticion

LEMMA HalladoPaso == ASSUME TInv, RInv, Next PROVE HalladoProducto'
<1> SUFFICES ASSUME NEW i \in Items, NEW p \in Peticiones,
                    pet'[p].op = "subir", pet'[p].x = i, pet'[p].fase \in {"escribir", "guardar"},
                    tipo'[i] = "servicio"
             PROVE  revuelta'[i]
  BY DEF HalladoProducto, Subiendo
<1>1. Observar /\ i \in Ranuras
  BY Ranura DEF Next
<1>2. ASSUME pet[p].x = i, revuelta[i] PROVE revuelta'[i]
  BY <1>1, <1>2, RevueltaSigue
<1>3. CASE pet'[p] = pet[p] /\ tipo'[i] = tipo[i]
  BY <1>2, <1>3 DEF RInv, HalladoProducto, Subiendo
<1>4. CASE PasoPeticion(p)
  <2>1. /\ Subiendo(p) /\ pet[p].x = i /\ tipo'[i] = tipo[i]
        /\ pet[p].fase \in {"escribir", "guardar"} \/ tipo[i] = "producto"
    BY <1>4, PasoSubida
  <2>2. QED
    BY <1>2, <2>1 DEF RInv, HalladoProducto
<1>5. ASSUME NEW q \in Peticiones, q # p, PasoPeticion(q) PROVE revuelta'[i]
  <2>1. pet'[p] = pet[p]
    BY <1>5, PasoPropio
  <2>2. CASE tipo'[i] = tipo[i]
    BY <1>3, <2>1, <2>2
  <2>3. CASE tipo'[i] # tipo[i]
    BY <1>1, <1>2, <1>5, <2>1, <2>3, PasoTipo DEF RInv, Solapadas
  <2>4. QED
    BY <2>2, <2>3
<1>6. CASE EditarBancarios \/ PasoPagina
  BY <1>3, <1>6 DEF EditarBancarios, PasoPagina, AbrirPagina, LeerItems, LeerConfig, Cargar,
     CerrarPagina, Navegar, datos
<1>7. ASSUME NEW j \in Items, BorrarItem(j) PROVE revuelta'[i]
  <2>1. tipo'[i] = tipo[i]
    BY <1>7, ArchivosAssumption DEF BorrarItem, TInv, TypeOK
  <2>2. QED
    BY <1>3, <1>7, <2>1 DEF BorrarItem
<1>8. CASE Reiniciar
  BY <1>8, LibreTipo DEF Reiniciar
<1>9. QED
  BY <1>4, <1>5, <1>6, <1>7, <1>8 DEF Next

LEMMA RInvPaso == TInv /\ RInv /\ [Next]_vars => RInv'
<1>1. ASSUME TInv, RInv, Next PROVE RInv'
  BY <1>1, HalladoPaso, SolapadasPaso DEF RInv, Next
<1>2. ASSUME RInv, UNCHANGED vars PROVE RInv'
  BY <1>2 DEF RInv, Solapadas, HalladoProducto, Subiendo, vars, datos, historia
<1>3. QED
  BY <1>1, <1>2

LEMMA ImagenPaso ==
    ASSUME TInv, RInv, Next, NEW i \in Items, url'[i] # url[i], tipo'[i] = "servicio"
    PROVE  url'[i] = Nulo \/ revuelta[i]
<1>a. i \in Ranuras
  BY Ranura
<1>1. ASSUME NEW p \in Peticiones, PasoPeticion(p) PROVE url'[i] = Nulo \/ revuelta[i]
  <2>1. CASE Guardar(p)
    BY <1>a, <2>1 DEF Guardar, En, RInv, HalladoProducto, Subiendo, TInv, TypeOK
  <2>2. CASE CambiarTipo(p)
    <3>1. /\ url' = [url EXCEPT ![pet[p].x] = UrlTrasTipo(@, pet[p].tipo)]
          /\ tipo' = [tipo EXCEPT ![pet[p].x] = pet[p].tipo]
      BY <2>2 DEF CambiarTipo
    <3>2. pet[p].x = i
      BY <1>a, <3>1 DEF TInv, TypeOK
    <3>3. pet[p].tipo = "servicio"
      BY <3>1, <3>2 DEF TInv, TypeOK
    <3>4. QED
      BY <1>a, <3>1, <3>2, <3>3 DEF UrlTrasTipo, TInv, TypeOK
  <2>3. CASE QuitarUrl(p)
    BY <1>a, <2>3 DEF QuitarUrl, TInv, TypeOK
  <2>4. CASE VaciarBancarios(p)
    BY <1>a, <2>4 DEF VaciarBancarios, TInv, TypeOK
  <2>5. CASE UNCHANGED url
    BY <2>5
  <2>6. QED
    BY <1>1, <2>1, <2>2, <2>3, <2>4, <2>5 DEF PasoPeticion, Subir, Comprobar, Escribir, Deshacer,
       Quitar, Vaciar, BorrarArchivo, PedirTipo, FallarAntes, datos
<1>2. ASSUME NEW j \in Items, BorrarItem(j) PROVE url'[i] = Nulo
  BY <1>a, <1>2 DEF BorrarItem, TInv, TypeOK
<1>3. ~EditarBancarios /\ ~Reiniciar /\ ~PasoPagina
  BY DEF EditarBancarios, Reiniciar, PasoPagina, AbrirPagina, LeerItems, LeerConfig, Cargar,
     CerrarPagina, Navegar, datos
<1>4. QED
  BY <1>1, <1>2, <1>3 DEF Next

\* A service is given no image: the write of the URL asks nothing of the type, and still
\* it meets a service only where another request on the item ran at the same time.
THEOREM ServicioSinImagen == Spec => ImagenDeProducto
<1>1. Init => TInv /\ RInv
  BY TInvInicial, RInvInicial
<1>2. TInv /\ RInv /\ [Next]_vars => (TInv /\ RInv)'
  BY TInvPaso, RInvPaso
<1>3. TInv /\ RInv /\ [Next]_vars =>
        [\A i \in Items : url'[i] # url[i] /\ tipo'[i] = "servicio" =>
            url'[i] = Nulo \/ revuelta[i]]_vars
  BY ImagenPaso
<1>4. QED
  BY <1>1, <1>2, <1>3, PTL DEF Spec, ImagenDeProducto
-----------------------------------------------------------------------------
(* Pictures that nobody is changing *)

\* The picture of x as the property wants it.
EnOrden(x) ==
    /\ disco[x] = [e \in Exts |-> IF e = url[x] THEN ultima[x] ELSE Nulo]
    /\ x \in Items /\ tipo[x] = "servicio" => url[x] = Nulo

Intacta(x) == ~sucia[x] => EnOrden(x)

\* The request has written nothing about its picture yet.
SinTocar(r) ==
    \/ r.fase \in {"comprobar", "escribir"}
    \/ r.op = "quitar" /\ r.fase = "borrarUrl"
    \/ r.op = "vaciar" /\ r.fase = "borrarArchivo"

\* How far a request that is alone with its picture, and has not failed, has taken it.
Lleva(r) ==
    /\ SinTocar(r) => Intacta(r.x)
    /\ r.fase = "guardar" =>
         disco[r.x] = [e \in Exts |-> IF e = r.ext THEN r.v ELSE Nulo]
    /\ r.fase = "deshacer" => r.x \in Items /\ tipo[r.x] = Nulo
    /\ r.op \in {"quitar", "tipo"} /\ r.fase = "borrarArchivo" => url[r.x] = Nulo
    /\ r.op = "vaciar" /\ r.fase = "borrarUrl" => disco[r.x] = [e \in Exts |-> Nulo]

\* What is known of one picture.
Sabida(x) ==
    /\ revuelta[x] => sucia[x]
    /\ x \in Items /\ tipo[x] = Nulo => sucia[x]
    /\ Sobre(pet, x) = {} => Intacta(x)
    /\ ~revuelta[x] => \A p \in Sobre(pet, x) : Lleva(pet[p])

CInv == \A x \in Ranuras : Sabida(x)

\* A guest has been sent pictures that exist, or that somebody is changing.
PagInv ==
    pagina # Cerrada =>
        /\ \A x \in Ranuras \ movida : Sobre(pet, x) = {} /\ ~sucia[x]
        /\ \A f \in pagina.fotos : f[1] \in movida \/ disco[f[1]][f[2]] # Nulo
        /\ \A f \in pagina.rotas : f[1] \in movida
LEMMA CInvInicial == Init => CInv
BY ArchivosAssumption
   DEF Init, CInv, Sabida, Intacta, EnOrden, Sobre, Libre, Ranuras

\* Overlaps, failures and the deletion of the item leave a picture dirty.
LEMMA Ensucia ==
    ASSUME Observar, NEW x \in Ranuras
    PROVE  /\ revuelta'[x] => sucia'[x]
           /\ x \in Items /\ tipo'[x] = Nulo => sucia'[x]
           /\ sucia[x] /\ ~Rehecha(x) => sucia'[x]
BY DEF Observar

\* A picture is mended only by the last step of a request on it.
LEMMA SinRehacer ==
    ASSUME NEW x \in Ranuras,
           \A p \in Sobre(pet, x) :
               \/ pet'[p] = pet[p] /\ pet[p] # Libre
               \/ pet[p].fase \notin {"guardar", "borrarArchivo"} /\ ~En(p, "vaciar", "borrarUrl")
    PROVE  ~Rehecha(x)
BY DEF Rehecha, En

LEMMA SobreNoLibre ==
    ASSUME NEW x \in Ranuras, NEW p \in Sobre(pet, x) PROVE pet[p] # Libre
BY ArchivosAssumption DEF Sobre, Libre

\* A step that is not about x.
LEMMA Aparte ==
    ASSUME TInv, Observar, NEW x \in Ranuras, Sabida(x),
           disco'[x] = disco[x], url'[x] = url[x], ultima'[x] = ultima[x],
           x \in Items => tipo'[x] = tipo[x],
           \A q \in Peticiones : pet[q].x = x \/ pet'[q].x = x => pet'[q] = pet[q]
    PROVE  Sabida(x)'
<1>1. sucia[x] => sucia'[x]
  BY Ensucia, SinRehacer, SobreNoLibre DEF Sobre
<1>2. Intacta(x) => Intacta(x)'
  BY <1>1 DEF Intacta, EnOrden
<1>3. Sobre(pet', x) = Sobre(pet, x)
  BY DEF Sobre
<1>4. Sobre(pet', x) = {} => Intacta(x)'
  BY <1>2, <1>3 DEF Sabida
<1>5. ASSUME ~revuelta'[x], NEW p \in Sobre(pet', x) PROVE Lleva(pet[p])'
  <2>1. p \in Sobre(pet, x) /\ ~revuelta[x] /\ pet'[p] = pet[p] /\ pet[p].x = x
    BY <1>3, <1>5, RevueltaSigue DEF Sobre
  <2>2. PICK r : r = pet[p] /\ r = pet'[p] /\ r.x = x /\ Lleva(r)
    BY <2>1 DEF Sabida
  <2>3. Lleva(r)'
    BY <1>2, <2>2, Ranura DEF Lleva, SinTocar
  <2>4. QED
    BY <2>2, <2>3 DEF Lleva, SinTocar
<1>6. QED
  BY <1>4, <1>5, Ensucia DEF Sabida, Sobre

\* A request that is alone with its picture and does not fail.
LEMMA ASolas ==
    ASSUME TInv, RInv, Observar, NEW p \in Peticiones, NEW x \in Ranuras, pet[p].x = x,
           pet'[p] # pet[p], ~revuelta'[x]
    PROVE  /\ ~revuelta[x] /\ fallos' = fallos
           /\ \A q \in Peticiones : pet[q].x = x => q = p
<1>1. p \in Sobre(pet, x)
  BY DEF Sobre
<1>2. ~revuelta[x] /\ fallos' = fallos
  BY <1>1 DEF Observar
<1>3. QED
  BY <1>2 DEF RInv, Solapadas

LEMMA SinFallar == ASSUME TInv, fallos' = fallos PROVE ~Fallo
BY ArchivosAssumption DEF Fallo, TInv, TypeOK

\* What the step of such a request leaves: a picture in order, or a request further on.
Deja(p, x) ==
    \/ pet'[p] = Libre /\ Intacta(x)'
    \/ \E r : pet'[p] = r /\ r.x = x /\ Lleva(r)'

\* What is known of it before.
Sola(p, x) ==
    /\ Observar /\ pet[p].x = x /\ fallos' = fallos /\ ~revuelta[x]
    /\ \A q \in Peticiones : pet[q].x = x => q = p
    /\ Sabida(x)

LEMMA SolaLleva ==
    ASSUME NEW p \in Peticiones, NEW x \in Ranuras, Sola(p, x)
    PROVE  /\ Lleva(pet[p])
           /\ pet[p].fase \notin {"guardar", "borrarArchivo"} /\ ~En(p, "vaciar", "borrarUrl") =>
                (sucia[x] => sucia'[x])
<1>1. Lleva(pet[p])
  BY DEF Sola, Sabida, Sobre
<1>2. Sobre(pet, x) = {p}
  BY DEF Sola, Sobre
<1>3. QED
  BY <1>1, <1>2, Ensucia, SinRehacer DEF Sola

LEMMA DejaIr ==
    ASSUME TInv, NEW p \in Peticiones, NEW x, pet[p].x = x, NEW f, Ir(p, f),
           pet[p] # Libre
    PROVE  \E r : /\ r = [pet[p] EXCEPT !.fase = f] /\ pet'[p] = r /\ r.x = x /\ r.fase = f
                  /\ r.op = pet[p].op
                  /\ pet[p].op = "subir" => r.ext = pet[p].ext /\ r.v = pet[p].v
<1> DEFINE r == [pet[p] EXCEPT !.fase = f]
<1>1. pet'[p] = r /\ pet[p] \in Peticion
  BY DEF Ir, TInv, TypeOK, Peticion
<1>2. /\ r.x = x /\ r.fase = f /\ r.op = pet[p].op
      /\ pet[p].op = "subir" => r.ext = pet[p].ext /\ r.v = pet[p].v
  BY <1>1, ArchivosAssumption DEF Peticion, Subida, Borrado, Vaciado, CambioTipo
<1> HIDE DEF r
<1>3. QED
  BY <1>1, <1>2 DEF r

LEMMA DejaComprobar ==
    ASSUME TInv, NEW p \in Peticiones, NEW x \in Ranuras, Sola(p, x), Comprobar(p)
    PROVE  Deja(p, x)
<1>1. pet[p].fase = "comprobar" /\ UNCHANGED <<url, disco, tipo, ultima>> /\ pet[p].x = x
  BY DEF Comprobar, datos, Sola
<1>2. Intacta(x)'
  <2>1. Intacta(x) /\ (sucia[x] => sucia'[x])
    BY <1>1, SolaLleva DEF Lleva, SinTocar, En
  <2>2. QED
    BY <1>1, <2>1 DEF Intacta, EnOrden
<1>3. CASE Pasar(p, Libre)
  BY <1>2, <1>3 DEF Deja, Pasar, TInv, TypeOK
<1>4. CASE Ir(p, IF pet[p].op = "subir" THEN "escribir" ELSE "borrarUrl")
  <2>1. pet[p] # Libre /\ pet[p] \in Subida \cup Borrado
    BY <1>1, Fases DEF Libre, TInv, TypeOK, Peticion
  <2>2. PICK r : /\ pet'[p] = r /\ r.x = x /\ r.op = pet[p].op
                 /\ r.fase = IF pet[p].op = "subir" THEN "escribir" ELSE "borrarUrl"
    BY <1>1, <1>4, <2>1, DejaIr
  <2>3. r.op \in {"subir", "quitar"}
    BY <2>1, <2>2 DEF Subida, Borrado
  <2>4. Lleva(r)'
    BY <1>2, <2>2, <2>3 DEF Lleva
  <2>5. QED
    BY <2>2, <2>4 DEF Deja
<1>5. QED
  BY <1>3, <1>4 DEF Comprobar, Errar

LEMMA DejaEscribir ==
    ASSUME TInv, NEW p \in Peticiones, NEW x \in Ranuras, Sola(p, x), Escribir(p)
    PROVE  Deja(p, x)
<1>1. pet[p].op = "subir" /\ pet[p].x = x /\ pet[p].ext \in Exts
  BY Fases DEF Escribir, En, Sola, TInv, TypeOK, Peticion, Subida
<1> DEFINE d == [disco[x] EXCEPT ![pet[p].ext] = pet[p].v]
<1>2. Ir(p, "guardar") /\ disco' = [disco EXCEPT ![x] = SinArchivos(d, Exts \ {pet[p].ext})]
  BY <1>1, SinFallar DEF Escribir, Sola, Borrar, Sobrantes
<1>3. PICK r : /\ pet'[p] = r /\ r.x = x /\ r.fase = "guardar" /\ r.op = "subir"
               /\ r.ext = pet[p].ext /\ r.v = pet[p].v
  BY <1>1, <1>2, DejaIr, ArchivosAssumption DEF Libre
<1>4. disco'[x] = [e \in Exts |-> IF e = r.ext THEN r.v ELSE Nulo]
  <2>1. disco'[x] = SinArchivos(d, Exts \ {r.ext})
    BY <1>2, <1>3 DEF TInv, TypeOK
  <2>2. disco[x] \in [Exts -> Version \cup {Nulo}]
    BY DEF TInv, TypeOK
  <2>3. SinArchivos(d, Exts \ {r.ext}) = [e \in Exts |-> IF e = r.ext THEN r.v ELSE Nulo]
    BY <1>1, <1>3, <2>2 DEF SinArchivos
  <2>4. QED
    BY <2>1, <2>3
<1>5. Lleva(r)'
  BY <1>3, <1>4 DEF Lleva, SinTocar
<1>6. QED
  BY <1>3, <1>5 DEF Deja

LEMMA DejaGuardar ==
    ASSUME TInv, RInv, NEW p \in Peticiones, NEW x \in Ranuras, Sola(p, x), Guardar(p)
    PROVE  Deja(p, x)
<1>1. /\ pet[p].op = "subir" /\ pet[p].fase = "guardar" /\ pet[p].x = x
      /\ pet[p].ext \in Exts /\ pet[p].v \in Version /\ UNCHANGED <<disco, tipo>>
      /\ disco[x] = [e \in Exts |-> IF e = pet[p].ext THEN pet[p].v ELSE Nulo]
  <2>1. pet[p] \in Subida /\ pet[p].fase = "guardar"
    BY Fases DEF Guardar, En, TInv, TypeOK, Peticion
  <2>2. Lleva(pet[p])
    BY SolaLleva
  <2>3. QED
    BY <2>1, <2>2 DEF Guardar, Sola, Lleva, Subida
<1>2. CASE Guardada(x) /\ Pasar(p, Libre) /\ url' = [url EXCEPT ![x] = pet[p].ext]
           /\ ultima' = [ultima EXCEPT ![x] = pet[p].v]
  <2>1. url'[x] = pet[p].ext /\ ultima'[x] = pet[p].v
    BY <1>2 DEF TInv, TypeOK
  <2>2. x \in Items => tipo[x] # "servicio"
    BY <1>1 DEF RInv, HalladoProducto, Subiendo, Sola
  <2>3. EnOrden(x)'
    BY <1>1, <2>1, <2>2 DEF EnOrden
  <2>4. QED
    BY <1>2, <2>3 DEF Deja, Intacta, Pasar, TInv, TypeOK
<1>3. CASE ~Guardada(x) /\ Ir(p, "deshacer")
  <2>1. PICK r : pet'[p] = r /\ r.x = x /\ r.fase = "deshacer" /\ r.op = "subir"
    BY <1>1, <1>3, DejaIr, ArchivosAssumption DEF Libre
  <2>2. x \in Items /\ tipo'[x] = Nulo
    BY <1>1, <1>3 DEF Guardada
  <2>3. Lleva(r)'
    BY <2>1, <2>2 DEF Lleva, SinTocar
  <2>4. QED
    BY <2>1, <2>3 DEF Deja
<1>4. QED
  BY <1>1, <1>2, <1>3, SinFallar DEF Guardar, Sola

\* The last step of a request on an item that is gone.
LEMMA DejaSinItem ==
    ASSUME NEW p \in Peticiones, NEW x \in Items, Observar, pet'[p] = Libre, tipo'[x] = Nulo
    PROVE  Deja(p, x)
BY Ensucia, Ranura DEF Deja, Intacta

LEMMA DejaDeshacer ==
    ASSUME TInv, NEW p \in Peticiones, NEW x \in Ranuras, Sola(p, x), Deshacer(p)
    PROVE  Deja(p, x)
<1>1. x \in Items /\ tipo[x] = Nulo
  BY SolaLleva DEF Deshacer, En, Lleva, Sola
<1>2. UNCHANGED tipo /\ pet'[p] = Libre
  BY DEF Deshacer, Errar, Pasar, TInv, TypeOK
<1>3. QED
  BY <1>1, <1>2, DejaSinItem DEF Sola

LEMMA DejaQuitarUrl ==
    ASSUME TInv, NEW p \in Peticiones, NEW x \in Ranuras, Sola(p, x), QuitarUrl(p)
    PROVE  Deja(p, x)
<1>1. pet[p].op = "quitar" /\ pet[p].x = x /\ url' = [url EXCEPT ![x] = Nulo] /\ UNCHANGED tipo
  BY SinFallar DEF QuitarUrl, En, Sola
<1>2. CASE Guardada(x) /\ Ir(p, "borrarArchivo")
  <2>1. PICK r : pet'[p] = r /\ r.x = x /\ r.fase = "borrarArchivo" /\ r.op = "quitar"
    BY <1>1, <1>2, DejaIr, ArchivosAssumption DEF Libre
  <2>2. url'[x] = Nulo
    BY <1>1 DEF TInv, TypeOK
  <2>3. Lleva(r)'
    BY <2>1, <2>2 DEF Lleva, SinTocar
  <2>4. QED
    BY <2>1, <2>3 DEF Deja
<1>3. CASE ~Guardada(x) /\ Pasar(p, Libre)
  BY <1>1, <1>3, DejaSinItem DEF Guardada, Pasar, Sola, TInv, TypeOK
<1>4. QED
  BY <1>1, <1>2, <1>3, SinFallar DEF QuitarUrl, Sola

LEMMA DejaBorrarArchivo ==
    ASSUME TInv, NEW p \in Peticiones, NEW x \in Ranuras, Sola(p, x), BorrarArchivo(p)
    PROVE  Deja(p, x)
<1>1. /\ pet[p].fase = "borrarArchivo" /\ pet[p].x = x /\ UNCHANGED <<url, tipo>>
      /\ pet[p].op \in {"quitar", "vaciar", "tipo"} /\ pet[p] # Libre
  BY DEF BorrarArchivo, Sola, TInv, TypeOK, Libre, Subida, Borrado, Vaciado, CambioTipo
<1>2. disco'[x] = [e \in Exts |-> Nulo]
  <2>1. disco' = [disco EXCEPT ![x] = SinArchivos(disco[x], Exts)]
    BY <1>1, SinFallar DEF BorrarArchivo, Borrar, Sola
  <2>2. QED
    BY <2>1 DEF SinArchivos, TInv, TypeOK
<1>3. CASE pet[p].op = "vaciar"
  <2>1. Ir(p, "borrarUrl")
    BY <1>3 DEF BorrarArchivo, FaseTrasBorrar
  <2>2. PICK r : pet'[p] = r /\ r.x = x /\ r.fase = "borrarUrl" /\ r.op = "vaciar"
    BY <1>1, <1>3, <2>1, DejaIr
  <2>3. Lleva(r)'
    BY <1>2, <2>2 DEF Lleva, SinTocar
  <2>4. QED
    BY <2>2, <2>3 DEF Deja
<1>4. CASE pet[p].op \in {"quitar", "tipo"}
  <2>1. url'[x] = Nulo
    BY <1>1, <1>4, SolaLleva DEF Lleva
  <2>2. EnOrden(x)'
    BY <1>2, <2>1, ArchivosAssumption DEF EnOrden
  <2>3. pet'[p] = Libre
    BY <1>4 DEF BorrarArchivo, FaseTrasBorrar, Pasar, TInv, TypeOK
  <2>4. QED
    BY <2>2, <2>3 DEF Deja, Intacta
<1>5. QED
  BY <1>1, <1>3, <1>4

LEMMA DejaVaciarBancarios ==
    ASSUME TInv, NEW p \in Peticiones, NEW x \in Ranuras, Sola(p, x), VaciarBancarios(p)
    PROVE  Deja(p, x)
<1>1. pet[p] \in Vaciado /\ pet[p].op = "vaciar" /\ pet[p].fase = "borrarUrl"
  BY Fases DEF VaciarBancarios, En, TInv, TypeOK, Peticion
<1>2. x = "banco" /\ UNCHANGED disco /\ url' = [url EXCEPT !["banco"] = Nulo]
      /\ disco[x] = [e \in Exts |-> Nulo]
  BY <1>1, SinFallar, SolaLleva DEF VaciarBancarios, Sola, Vaciado, Lleva
<1>3. EnOrden(x)'
  BY <1>2, ArchivosAssumption DEF EnOrden, TInv, TypeOK
<1>4. QED
  BY <1>3 DEF Deja, Intacta, VaciarBancarios, Pasar, TInv, TypeOK

LEMMA DejaCambiarTipo ==
    ASSUME TInv, NEW p \in Peticiones, NEW x \in Ranuras, Sola(p, x), CambiarTipo(p)
    PROVE  Deja(p, x)
<1>1. /\ pet[p].op = "tipo" /\ pet[p].fase = "escribir" /\ pet[p].x = x /\ x \in Items
      /\ pet[p].tipo \in {"producto", "servicio"} /\ UNCHANGED <<disco, ultima>>
  BY Fases DEF CambiarTipo, En, Sola, TInv, TypeOK, Peticion
<1>2. Intacta(x) /\ (sucia[x] => sucia'[x])
  BY <1>1, SolaLleva DEF Lleva, SinTocar, En
<1>3. CASE tipo[x] = Nulo
  BY <1>1, <1>3, DejaSinItem DEF CambiarTipo, Pasar, Sola, TInv, TypeOK
<1>4. CASE tipo[x] # Nulo
  <2>1. /\ tipo'[x] = pet[p].tipo /\ url'[x] = UrlTrasTipo(url[x], pet[p].tipo)
        /\ IF pet[p].tipo = "servicio"
           THEN Pasar(p, [op |-> "tipo", x |-> x, fase |-> "borrarArchivo"])
           ELSE Pasar(p, Libre)
    BY <1>1, <1>4, SinFallar DEF CambiarTipo, Sola, TInv, TypeOK
  <2>2. CASE pet[p].tipo = "servicio"
    <3> DEFINE r == [op |-> "tipo", x |-> x, fase |-> "borrarArchivo"]
    <3>1. pet'[p] = r /\ url'[x] = Nulo /\ r.op = "tipo" /\ r.x = x /\ r.fase = "borrarArchivo"
      BY <2>1, <2>2 DEF Pasar, UrlTrasTipo, TInv, TypeOK
    <3> HIDE DEF r
    <3>2. Lleva(r)'
      BY <3>1 DEF Lleva, SinTocar
    <3>3. QED
      BY <3>1, <3>2 DEF Deja
  <2>3. CASE pet[p].tipo = "producto"
    <3>1. pet'[p] = Libre /\ url'[x] = url[x] /\ tipo'[x] = "producto"
      BY <2>1, <2>3 DEF Pasar, UrlTrasTipo, TInv, TypeOK
    <3>2. Intacta(x)'
      BY <1>1, <1>2, <3>1 DEF Intacta, EnOrden
    <3>3. QED
      BY <3>1, <3>2 DEF Deja
  <2>4. QED
    BY <1>1, <2>2, <2>3
<1>5. QED
  BY <1>3, <1>4
\* A step of a request that is alone with its picture.
LEMMA DejaPaso ==
    ASSUME TInv, RInv, NEW p \in Peticiones, NEW x \in Ranuras, Sola(p, x), PasoPeticion(p)
    PROVE  Deja(p, x)
<1>1. pet[p] # Libre /\ ~FallarAntes(p)
  BY SinFallar, ArchivosAssumption DEF FallarAntes, Sola, Libre
<1>2. ~Subir(p) /\ ~Quitar(p) /\ ~Vaciar(p) /\ ~PedirTipo(p)
  BY <1>1 DEF Subir, Quitar, Vaciar, PedirTipo
<1>3. QED
  BY <1>1, <1>2, DejaComprobar, DejaEscribir, DejaGuardar, DejaDeshacer, DejaQuitarUrl,
     DejaBorrarArchivo, DejaVaciarBancarios, DejaCambiarTipo DEF PasoPeticion

\* Every step of a request changes it.
LEMMA PasoCambia ==
    ASSUME TInv, NEW p \in Peticiones, PasoPeticion(p), pet[p] # Libre
    PROVE  pet'[p] # pet[p]
<1>1. pet[p] \in Peticion
  BY DEF TInv, TypeOK, Peticion
<1>l. Pasar(p, Libre) => pet'[p] # pet[p]
  BY DEF Pasar, TInv, TypeOK
<1>i. ASSUME NEW f, Ir(p, f), f # pet[p].fase PROVE pet'[p] # pet[p]
  BY <1>i, DejaIr
<1>2. CASE Comprobar(p)
  BY <1>2, <1>l, <1>i DEF Comprobar, Errar
<1>3. CASE Escribir(p) \/ Guardar(p) \/ Deshacer(p)
  BY <1>3, <1>l, <1>i DEF Escribir, Guardar, Deshacer, Errar, En
<1>4. CASE QuitarUrl(p) \/ VaciarBancarios(p)
  BY <1>4, <1>l, <1>i DEF QuitarUrl, VaciarBancarios, En
<1>5. CASE BorrarArchivo(p)
  BY <1>5, <1>l, <1>i DEF BorrarArchivo, FaseTrasBorrar
<1>6. CASE CambiarTipo(p)
  <2>1. Pasar(p, Libre) \/ Pasar(p, [op |-> "tipo", x |-> pet[p].x, fase |-> "borrarArchivo"])
    BY <1>6 DEF CambiarTipo
  <2>2. pet[p].fase = "escribir"
    BY <1>6 DEF CambiarTipo, En
  <2>3. QED
    BY <1>l, <2>1, <2>2 DEF Pasar, TInv, TypeOK
<1>7. CASE FallarAntes(p)
  BY <1>7, <1>l DEF FallarAntes, Errar
<1>8. QED
  BY <1>2, <1>3, <1>4, <1>5, <1>6, <1>7
     DEF PasoPeticion, Subir, Quitar, Vaciar, PedirTipo

\* A request writes about its own picture only.
LEMMA PasoLejos ==
    ASSUME TInv, NEW p \in Peticiones, PasoPeticion(p), NEW x \in Ranuras, pet[p].x # x
    PROVE  /\ disco'[x] = disco[x] /\ url'[x] = url[x] /\ ultima'[x] = ultima[x]
           /\ x \in Items => tipo'[x] = tipo[x]
<1>t. x \in Items => tipo'[x] = tipo[x]
  BY PasoTipo
<1>b. ASSUME NEW y, NEW d, NEW es, y # x, Borrar(y, d, es) PROVE disco'[x] = disco[x]
  BY <1>b DEF Borrar, TInv, TypeOK
<1>1. CASE Escribir(p)
  BY <1>1, <1>t, <1>b DEF Escribir, TInv, TypeOK
<1>2. CASE Guardar(p)
  BY <1>2, <1>t DEF Guardar, TInv, TypeOK
<1>3. CASE Deshacer(p) \/ BorrarArchivo(p)
  BY <1>3, <1>t, <1>b DEF Deshacer, BorrarArchivo
<1>4. CASE QuitarUrl(p) \/ CambiarTipo(p)
  BY <1>4, <1>t DEF QuitarUrl, CambiarTipo, TInv, TypeOK
<1>5. CASE VaciarBancarios(p)
  <2>1. pet[p].x = "banco"
    BY <1>5, Fases DEF VaciarBancarios, En, Vaciado, TInv, TypeOK, Peticion
  <2>2. QED
    BY <1>5, <1>t, <2>1 DEF VaciarBancarios, TInv, TypeOK
<1>6. CASE Subir(p) \/ Comprobar(p) \/ Quitar(p) \/ Vaciar(p) \/ PedirTipo(p) \/ FallarAntes(p)
  BY <1>6, <1>t DEF Subir, Comprobar, Quitar, Vaciar, PedirTipo, FallarAntes, datos
<1>7. QED
  BY <1>1, <1>2, <1>3, <1>4, <1>5, <1>6 DEF PasoPeticion

\* A request stays with its picture until it ends.
LEMMA MismaRanura ==
    ASSUME TInv, NEW p \in Peticiones, PasoPeticion(p), pet[p] # Libre
    PROVE  pet'[p] = Libre \/ pet'[p].x = pet[p].x
<1>l. Pasar(p, Libre) => pet'[p] = Libre
  BY DEF Pasar, TInv, TypeOK
<1>i. ASSUME NEW f, Ir(p, f) PROVE pet'[p].x = pet[p].x
  BY <1>i, DejaIr
<1>1. CASE CambiarTipo(p)
  <2>1. Pasar(p, Libre) \/ Pasar(p, [op |-> "tipo", x |-> pet[p].x, fase |-> "borrarArchivo"])
    BY <1>1 DEF CambiarTipo
  <2>2. QED
    BY <1>l, <2>1 DEF Pasar, TInv, TypeOK
<1>2. CASE ~CambiarTipo(p)
  BY <1>2, <1>l, <1>i
     DEF PasoPeticion, Subir, Quitar, Vaciar, PedirTipo, Comprobar, Escribir, Guardar, Deshacer,
         QuitarUrl, BorrarArchivo, VaciarBancarios, FallarAntes, Errar
<1>3. QED
  BY <1>1, <1>2

\* A request that arrives has touched nothing.
LEMMA LlegaSinTocar ==
    ASSUME TInv, NEW p \in Peticiones, PasoPeticion(p), pet[p] = Libre
    PROVE  /\ UNCHANGED <<url, disco, tipo, ultima>>
           /\ SinTocar(pet'[p]) /\ pet'[p].fase \notin {"guardar", "deshacer"}
           /\ ~(pet'[p].op \in {"quitar", "tipo"} /\ pet'[p].fase = "borrarArchivo")
           /\ ~(pet'[p].op = "vaciar" /\ pet'[p].fase = "borrarUrl")
<1>0. Subir(p) \/ Quitar(p) \/ Vaciar(p) \/ PedirTipo(p)
  BY ArchivosAssumption DEF PasoPeticion, Comprobar, Escribir, Guardar, Deshacer, QuitarUrl,
     BorrarArchivo, VaciarBancarios, CambiarTipo, FallarAntes, En, Libre
<1>1. UNCHANGED <<url, disco, tipo, ultima>>
  BY <1>0 DEF Subir, Quitar, Vaciar, PedirTipo, datos
<1>2. CASE Subir(p)
  <2>1. PICK x \in Ranuras : \E e \in ExtsDe(x) :
          Pasar(p, [op |-> "subir", x |-> x, ext |-> e, v |-> subidas + 1,
                    fase |-> IF x \in Items THEN "comprobar" ELSE "escribir"])
    BY <1>2 DEF Subir
  <2>2. QED
    BY <1>1, <2>1 DEF Pasar, SinTocar, TInv, TypeOK
<1>3. CASE Quitar(p)
  <2>1. PICK x \in Ranuras :
          Pasar(p, [op |-> "quitar", x |-> x,
                    fase |-> IF x \in Items THEN "comprobar" ELSE "borrarUrl"])
    BY <1>3 DEF Quitar
  <2>2. QED
    BY <1>1, <2>1 DEF Pasar, SinTocar, TInv, TypeOK
<1>4. CASE Vaciar(p)
  BY <1>1, <1>4 DEF Vaciar, Pasar, SinTocar, TInv, TypeOK
<1>5. CASE PedirTipo(p)
  <2>1. PICK i \in Items, t \in {"producto", "servicio"} :
          Pasar(p, [op |-> "tipo", x |-> i, fase |-> "escribir", tipo |-> t])
    BY <1>5 DEF PedirTipo
  <2>2. QED
    BY <1>1, <2>1 DEF Pasar, SinTocar, TInv, TypeOK
<1>6. QED
  BY <1>0, <1>2, <1>3, <1>4, <1>5

LEMMA SabidaPeticion ==
    ASSUME TInv, RInv, CInv, Observar, Solapadas', NEW p \in Peticiones, PasoPeticion(p),
           NEW x \in Ranuras
    PROVE  Sabida(x)'
<1>o. \A q \in Peticiones \ {p} : pet'[q] = pet[q]
  BY PasoPropio
<1>s. Sabida(x)
  BY DEF CInv
<1>n. Libre.x # x
  BY ArchivosAssumption DEF Libre
<1>1. CASE pet[p].x # x /\ pet'[p].x # x
  BY <1>1, <1>o, <1>s, PasoLejos, Aparte
<1>2. CASE pet[p].x = x
  <2>1. pet[p] # Libre /\ pet'[p] # pet[p]
    BY <1>2, <1>n, PasoCambia
  <2>2. CASE revuelta'[x]
    BY <2>2, Ensucia DEF Sabida, Intacta
  <2>3. CASE ~revuelta'[x]
    <3>1. Sola(p, x)
      BY <1>2, <1>s, <2>1, <2>3, ASolas DEF Sola
    <3>2. Deja(p, x)
      BY <3>1, DejaPaso
    <3>3. \A q \in Peticiones : pet'[q].x = x => q = p
      BY <1>o, <3>1 DEF Sola
    <3>4. CASE pet'[p] = Libre
      <4>1. Sobre(pet', x) = {}
        BY <1>n, <3>3, <3>4 DEF Sobre
      <4>2. Intacta(x)'
        BY <1>n, <3>2, <3>4 DEF Deja
      <4>3. QED
        BY <4>1, <4>2, Ensucia DEF Sabida, Sobre
    <3>5. CASE pet'[p] # Libre
      <4>1. PICK r : pet'[p] = r /\ r.x = x /\ Lleva(r)'
        BY <3>2, <3>5 DEF Deja
      <4>2. Sobre(pet', x) = {p}
        BY <3>3, <4>1 DEF Sobre
      <4>3. Lleva(pet[p])'
        BY <4>1 DEF Lleva, SinTocar
      <4>4. QED
        BY <4>2, <4>3, Ensucia DEF Sabida, Sobre
    <3>6. QED
      BY <3>4, <3>5
  <2>4. QED
    BY <2>2, <2>3
<1>3. CASE pet[p].x # x /\ pet'[p].x = x
  <2>1. pet[p] = Libre
    BY <1>3, <1>n, MismaRanura
  <2>2. CASE revuelta'[x]
    BY <2>2, Ensucia DEF Sabida, Intacta
  <2>3. CASE ~revuelta'[x]
    <3>1. \A q \in Peticiones : pet'[q].x = x => q = p
      BY <1>3, <2>3 DEF Solapadas
    <3>2. Sobre(pet, x) = {}
      BY <1>3, <1>o, <3>1 DEF Sobre
    <3>3. /\ UNCHANGED <<url, disco, tipo, ultima>>
          /\ SinTocar(pet'[p]) /\ pet'[p].fase \notin {"guardar", "deshacer"}
          /\ ~(pet'[p].op \in {"quitar", "tipo"} /\ pet'[p].fase = "borrarArchivo")
          /\ ~(pet'[p].op = "vaciar" /\ pet'[p].fase = "borrarUrl")
      BY <2>1, LlegaSinTocar
    <3>4. Intacta(x) /\ (sucia[x] => sucia'[x])
      BY <1>s, <3>2, Ensucia, SinRehacer DEF Sabida
    <3>5. Intacta(x)'
      BY <3>3, <3>4 DEF Intacta, EnOrden
    <3>6. PICK r : r = pet'[p] /\ r.x = x
      BY <1>3
    <3>7. Lleva(r)'
      BY <3>3, <3>5, <3>6 DEF Lleva
    <3>8. Lleva(pet[p])'
      BY <3>6, <3>7 DEF Lleva, SinTocar
    <3>9. Sobre(pet', x) = {p}
      BY <1>3, <3>1 DEF Sobre
    <3>10. QED
      BY <3>8, <3>9, Ensucia DEF Sabida, Sobre
  <2>4. QED
    BY <2>2, <2>3
<1>4. QED
  BY <1>1, <1>2, <1>3

LEMMA SabidaBorrarItem ==
    ASSUME TInv, CInv, Observar, NEW i \in Items, BorrarItem(i), NEW x \in Ranuras
    PROVE  Sabida(x)'
<1>s. Sabida(x) /\ UNCHANGED <<disco, pet, ultima>>
  BY DEF CInv, BorrarItem
<1>1. CASE x # i
  BY <1>1, <1>s, Aparte, Ranura DEF BorrarItem, TInv, TypeOK
<1>2. CASE x = i
  <2>1. tipo'[x] = Nulo /\ url'[x] = Nulo /\ x \in Items
    BY <1>2, Ranura DEF BorrarItem, TInv, TypeOK
  <2>2. sucia'[x] /\ Intacta(x)'
    BY <2>1, Ensucia DEF Intacta
  <2>3. ASSUME ~revuelta'[x], NEW p \in Sobre(pet, x) PROVE Lleva(pet[p])'
    <3>1. p \in Peticiones /\ pet[p].x = x /\ ~revuelta[x]
      BY <2>3, RevueltaSigue DEF Sobre
    <3>2. PICK r : r = pet[p] /\ r = pet'[p] /\ r.x = x /\ Lleva(r)
      BY <1>s, <2>3, <3>1 DEF Sabida
    <3>3. Lleva(r)'
      BY <1>s, <2>1, <2>2, <3>2 DEF Lleva
    <3>4. QED
      BY <3>2, <3>3 DEF Lleva, SinTocar
  <2>4. Sobre(pet', x) = Sobre(pet, x)
    BY <1>s DEF Sobre
  <2>5. QED
    BY <2>2, <2>3, <2>4 DEF Sabida, Sobre
<1>3. QED
  BY <1>1, <1>2

LEMMA SabidaReiniciar ==
    ASSUME TInv, CInv, Observar, Reiniciar, NEW x \in Ranuras
    PROVE  Sabida(x)'
<1>1. /\ UNCHANGED <<url, disco, tipo, ultima>> /\ fallos' # fallos
      /\ \A p \in Peticiones : pet'[p] = Libre
  BY SinFallar DEF Reiniciar, datos, Fallo, TInv, TypeOK
<1>2. Sobre(pet', x) = {}
  BY <1>1, ArchivosAssumption DEF Sobre, Libre
<1>3. Intacta(x)'
  <2>1. CASE Sobre(pet, x) = {}
    BY <1>1, <2>1, Ensucia, SinRehacer DEF CInv, Sabida, Intacta, EnOrden
  <2>2. ASSUME NEW p \in Sobre(pet, x) PROVE Intacta(x)'
    <3>1. pet'[p] # pet[p]
      BY <1>1, <2>2, SobreNoLibre DEF Sobre
    <3>2. revuelta'[x]
      BY <1>1, <3>1 DEF Observar
    <3>3. QED
      BY <3>2, Ensucia DEF Intacta
  <2>3. QED
    BY <2>1, <2>2
<1>4. QED
  BY <1>2, <1>3, Ensucia DEF Sabida, Sobre

LEMMA CInvPaso == TInv /\ RInv /\ CInv /\ [Next]_vars => CInv'
<1>1. ASSUME TInv, RInv, CInv, Next PROVE CInv'
  <2> SUFFICES ASSUME NEW x \in Ranuras PROVE Sabida(x)'
    BY DEF CInv
  <2>1. Observar /\ Solapadas'
    BY <1>1, SolapadasPaso DEF Next
  <2>2. CASE \E p \in Peticiones : PasoPeticion(p)
    BY <1>1, <2>1, <2>2, SabidaPeticion
  <2>3. CASE \E i \in Items : BorrarItem(i)
    BY <1>1, <2>1, <2>3, SabidaBorrarItem
  <2>4. CASE Reiniciar
    BY <1>1, <2>1, <2>4, SabidaReiniciar
  <2>5. CASE EditarBancarios \/ PasoPagina
    <3>1. UNCHANGED <<url, disco, tipo, pet, ultima>>
      BY <2>5 DEF EditarBancarios, PasoPagina, AbrirPagina, LeerItems, LeerConfig, Cargar,
         CerrarPagina, Navegar, datos
    <3>2. QED
      BY <1>1, <2>1, <3>1, Aparte DEF CInv
  <2>6. QED
    BY <1>1, <2>2, <2>3, <2>4, <2>5 DEF Next
<1>2. ASSUME CInv, UNCHANGED vars PROVE CInv'
  BY <1>2 DEF CInv, Sabida, Intacta, EnOrden, Lleva, SinTocar, Sobre, vars, datos, historia
<1>3. QED
  BY <1>1, <1>2

\* A picture that nobody is changing is in order, unless requests on it overlapped or
\* failed and none has written it alone since.
THEOREM ImagenCoherente == Spec => []Coherente
<1>1. Init => TInv /\ RInv /\ CInv
  BY TInvInicial, RInvInicial, CInvInicial
<1>2. TInv /\ RInv /\ CInv /\ [Next]_vars => (TInv /\ RInv /\ CInv)'
  BY TInvPaso, RInvPaso, CInvPaso
<1>3. CInv => Coherente
  BY DEF CInv, Sabida, Intacta, EnOrden, Coherente
<1>4. QED
  BY <1>1, <1>2, <1>3, PTL DEF Spec
-----------------------------------------------------------------------------
(* The pictures of the public page *)

\* A picture that is not in use nor dirty after the step either has the file of its URL.
LEMMA FotoExiste ==
    ASSUME TInv', CInv', NEW x \in Ranuras, Sobre(pet', x) = {}, ~sucia'[x], url'[x] # Nulo
    PROVE  disco'[x][url'[x]] # Nulo
<1>1. EnOrden(x)'
  BY DEF CInv, Sabida, Intacta, Sobre
<1>2. url'[x] \in Exts /\ ultima'[x] \in Version
  BY DEF TInv, TypeOK
<1>3. QED
  BY <1>1, <1>2, ArchivosAssumption DEF EnOrden

LEMMA FotosExisten ==
    ASSUME TInv', CInv', NEW xs \in SUBSET Ranuras, UNCHANGED url,
           \A x \in Ranuras \ movida' : Sobre(pet', x) = {} /\ ~sucia'[x]
    PROVE  \A f \in Fotos(xs) : f[1] \in movida' \/ disco'[f[1]][f[2]] # Nulo
<1> SUFFICES ASSUME NEW f \in Fotos(xs), f[1] \notin movida' PROVE disco'[f[1]][f[2]] # Nulo
  OBVIOUS
<1>1. PICK x \in xs : f = <<x, url[x]>> /\ url[x] # Nulo
  BY DEF Fotos
<1>2. f[1] = x /\ f[2] = url[x] /\ x \in Ranuras
  BY <1>1
<1>3. QED
  BY <1>1, <1>2, FotoExiste

\* A file is written or removed by a request on its picture only.
LEMMA DiscoQuieto ==
    ASSUME TInv, Next, NEW x \in Ranuras, Sobre(pet, x) = {}
    PROVE  disco'[x] = disco[x]
<1>1. ASSUME NEW p \in Peticiones, PasoPeticion(p) PROVE disco'[x] = disco[x]
  BY <1>1, PasoLejos DEF Sobre
<1>2. CASE EditarBancarios \/ Reiniciar \/ \E i \in Items : BorrarItem(i)
  BY <1>2 DEF EditarBancarios, Reiniciar, BorrarItem, datos
<1>3. CASE PasoPagina
  BY <1>3 DEF PasoPagina, AbrirPagina, LeerItems, LeerConfig, Cargar, CerrarPagina, Navegar, datos
<1>4. QED
  BY <1>1, <1>2, <1>3 DEF Next

\* The pictures of a page stay good, or known to be moving, whatever the step.
LEMMA FotosSiguen ==
    ASSUME TInv, Next, PagInv, pagina # Cerrada, movida \subseteq movida'
    PROVE  \A f \in pagina.fotos : f[1] \in movida' \/ disco'[f[1]][f[2]] # Nulo
<1> SUFFICES ASSUME NEW f \in pagina.fotos, f[1] \notin movida' PROVE disco'[f[1]][f[2]] # Nulo
  OBVIOUS
<1>1. f[1] \in Ranuras
  BY DEF TInv, TypeOK, Pagina
<1>2. Sobre(pet, f[1]) = {} /\ disco[f[1]][f[2]] # Nulo
  BY <1>1 DEF PagInv
<1>3. QED
  BY <1>1, <1>2, DiscoQuieto

LEMMA PagInvNext == ASSUME TInv, TInv', CInv', PagInv, Next PROVE PagInv'
<1> SUFFICES ASSUME pagina' # Cerrada PROVE PagInv'
  BY DEF PagInv
<1>1. movida' = movida \cup {x \in Ranuras : sucia'[x] \/ Sobre(pet', x) # {}}
  BY DEF Next, Observar
<1>2. \A x \in Ranuras \ movida' : Sobre(pet', x) = {} /\ ~sucia'[x]
  BY <1>1
<1>3. SUFFICES /\ \A f \in pagina'.fotos : f[1] \in movida' \/ disco'[f[1]][f[2]] # Nulo
               /\ \A f \in pagina'.rotas : f[1] \in movida'
  BY <1>2 DEF PagInv, Sobre
<1>4. pagina # Cerrada =>
        /\ \A f \in pagina.fotos : f[1] \in movida' \/ disco'[f[1]][f[2]] # Nulo
        /\ \A f \in pagina.rotas : f[1] \in movida'
  BY <1>1, FotosSiguen DEF PagInv
<1>5. CASE pagina' = pagina
  BY <1>4, <1>5
<1>6. CASE PasoPagina
  <2>1. UNCHANGED <<url, disco, pet>>
    BY <1>6 DEF PasoPagina, AbrirPagina, LeerItems, LeerConfig, Cargar, CerrarPagina, Navegar,
       datos
  <2>2. pagina.fase # "cerrada" => pagina # Cerrada /\ pagina \in Pagina
    BY DEF TInv, TypeOK, Cerrada
  <2>3. CASE AbrirPagina
    <3>1. PICK imagenes \in BOOLEAN, bancarios \in BOOLEAN :
            Navegar([fase |-> IF imagenes THEN "items" ELSE "config", imagenes |-> imagenes,
                     bancarios |-> bancarios, fotos |-> {}, rotas |-> {}])
      BY <2>3 DEF AbrirPagina
    <3>2. pagina'.fotos = {} /\ pagina'.rotas = {}
      BY <3>1 DEF Navegar
    <3>3. QED
      BY <3>2
  <2>4. CASE LeerItems
    <3>1. pagina # Cerrada /\ pagina \in Pagina
      BY <2>2, <2>4 DEF LeerItems
    <3>2. pagina'.rotas = pagina.rotas /\ pagina'.fotos \in {pagina.fotos, Fotos(Items)}
      BY <2>4, <3>1 DEF LeerItems, Navegar, Pagina
    <3>3. \A f \in Fotos(Items) : f[1] \in movida' \/ disco'[f[1]][f[2]] # Nulo
      BY <1>2, <2>1, FotosExisten, Ranura
    <3>4. QED
      BY <1>4, <3>1, <3>2, <3>3
  <2>5. CASE LeerConfig
    <3>1. pagina # Cerrada /\ pagina \in Pagina
      BY <2>2, <2>5 DEF LeerConfig
    <3> DEFINE xs == {"logo"} \cup IF pagina.bancarios /\ utiles THEN {"banco"} ELSE {}
    <3>2. /\ pagina'.rotas = pagina.rotas
          /\ pagina'.fotos \in {pagina.fotos, pagina.fotos \cup Fotos(xs)}
      BY <2>5, <3>1 DEF LeerConfig, Navegar, Pagina, FotosConfig
    <3>3. xs \in SUBSET Ranuras
      BY Ranura
    <3> HIDE DEF xs
    <3>4. \A f \in Fotos(xs) : f[1] \in movida' \/ disco'[f[1]][f[2]] # Nulo
      BY <1>2, <2>1, <3>3, FotosExisten
    <3>5. QED
      BY <1>4, <3>1, <3>2, <3>4
  <2>6. CASE Cargar
    <3>1. pagina # Cerrada /\ pagina \in Pagina
      BY <2>2, <2>6 DEF Cargar
    <3>2. PICK f \in pagina.fotos :
            /\ pagina'.fotos = pagina.fotos \ {f}
            /\ pagina'.rotas = IF disco[f[1]][f[2]] = Nulo THEN pagina.rotas \cup {f}
                                                           ELSE pagina.rotas
      BY <2>6, <3>1 DEF Cargar, Navegar, Pagina
    <3>3. QED
      BY <1>4, <2>1, <3>1, <3>2
  <2>7. CASE CerrarPagina
    BY <2>7 DEF CerrarPagina, Navegar
  <2>8. QED
    BY <1>6, <2>3, <2>4, <2>5, <2>6, <2>7 DEF PasoPagina
<1>7. QED
  BY <1>5, <1>6 DEF Next

\* The public page has a broken picture only if something was changing it during the
\* visit, or had left it dirty before.
THEOREM PaginaEntera == Spec => []PaginaSinRotas
<1>1. Init => TInv /\ RInv /\ CInv /\ PagInv
  BY TInvInicial, RInvInicial, CInvInicial DEF Init, PagInv
<1>2. TInv /\ RInv /\ CInv /\ [Next]_vars => (TInv /\ RInv /\ CInv)'
  BY TInvPaso, RInvPaso, CInvPaso
<1>3. TInv /\ TInv' /\ CInv' /\ PagInv /\ [Next]_vars => PagInv'
  <2>1. ASSUME PagInv, UNCHANGED vars PROVE PagInv'
    BY <2>1 DEF PagInv, Sobre, vars, datos, historia
  <2>2. QED
    BY <2>1, PagInvNext
<1>4. PagInv => PaginaSinRotas
  BY DEF PagInv, PaginaSinRotas
<1>5. QED
  BY <1>1, <1>2, <1>3, <1>4, PTL DEF Spec
=============================================================================
