------------------------------- MODULE Archivos -------------------------------
(***************************************************************************)
(* The pictures of a tenant: its logo, the logo of its bank and the image  *)
(* of each product.  The document names a picture by URL, the file lies    *)
(* on disk, and the two are written apart: TenantConfigService (saveLogo,  *)
(* clearLogo, saveBankLogo, clearBankLogo, updateVigenciaBancarios),       *)
(* ServiciosService (uploadImagen, clearImagen, update), and the public    *)
(* page (toPublicDto), which shows pictures while they change.             *)
(*                                                                         *)
(* Code between two awaits is one step: the files are written and removed  *)
(* by synchronous calls.                                                   *)
(***************************************************************************)
EXTENDS Naturals, FiniteSets

CONSTANTS
    Items,        \* items of the catalogue
    Exts,         \* extensions that an upload may have; an item has one
    ExtItem,      \* ".webp": the one that sharp writes
    Peticiones,   \* requests in flight at once
    Nulo,         \* not set, not stored, no file
    MaxSubidas,   \* bound: uploads
    MaxOtras,     \* bound: other requests, and visits of the page
    MaxFallos     \* bound: failed calls and restarts

VARIABLES
    url,       \* url[x]: extension of the URL that the document has for x
    disco,     \* disco[x][e]: the upload whose bytes the file has
    tipo,      \* tipo[i]: "producto" or "servicio", Nulo if i is deleted
    utiles,    \* hasBancariosUtiles of the texts of the bank data
    pet,       \* pet[p]: progress of request p
    pagina,    \* the visit of a guest to the public page
    subidas, otras, fallos,  \* for the bounds
    ultima,    \* history: ultima[x], the last upload of x that was confirmed
    erradas,   \* history: uploads answered with an error
    averiada,  \* history: x has had a file that could not be written or removed
    revuelta,  \* history: requests on x have overlapped or failed since x was idle
    sucia,     \* history: what they left behind has not been mended yet
    movida     \* history: slots that were dirty or in use during the visit

datos == <<url, disco, tipo, utiles>>
cuentas == <<subidas, otras, fallos>>
historia == <<revuelta, sucia, movida>>
vars == <<datos, pet, pagina, cuentas, ultima, erradas, averiada, historia>>

-----------------------------------------------------------------------------

Ranuras == {"logo", "banco"} \cup Items

ExtsDe(x) == IF x \in Items THEN {ExtItem} ELSE Exts

\* 0: a file that was cut short.
Version == 0..MaxSubidas

Subida == [op: {"subir"}, x: Ranuras, fase: {"comprobar", "escribir", "guardar", "deshacer"},
           ext: Exts, v: Version \ {0}]

Borrado == [op: {"quitar"}, x: Ranuras, fase: {"comprobar", "borrarUrl", "borrarArchivo"}]

Vaciado == [op: {"vaciar"}, x: {"banco"}, fase: {"borrarArchivo", "borrarUrl"}]

CambioTipo == [op: {"tipo"}, x: Items, fase: {"escribir"}, tipo: {"producto", "servicio"}]
                \cup [op: {"tipo"}, x: Items, fase: {"borrarArchivo"}]

Libre == [op |-> Nulo, x |-> Nulo, fase |-> "libre"]

\* fotos: the pictures that the browser has to load; rotas: those it did not find.
Pagina == [fase: {"items", "config", "cargar"}, imagenes: BOOLEAN, bancarios: BOOLEAN,
           fotos: SUBSET (Ranuras \X Exts), rotas: SUBSET (Ranuras \X Exts)]

Cerrada == [fase |-> "cerrada"]

ASSUME ArchivosAssumption ==
    /\ IsFiniteSet(Peticiones)
    /\ MaxSubidas \in Nat /\ MaxOtras \in Nat /\ MaxFallos \in Nat
    /\ ExtItem \in Exts
    /\ {"logo", "banco"} \cap Items = {}
    /\ Nulo \notin Exts /\ Nulo \notin Ranuras /\ Nulo \notin Version
    /\ Nulo \notin {"subir", "quitar", "vaciar", "tipo", "producto", "servicio"}

TypeOK ==
    /\ url \in [Ranuras -> Exts \cup {Nulo}]
    /\ disco \in [Ranuras -> [Exts -> Version \cup {Nulo}]]
    /\ tipo \in [Items -> {"producto", "servicio", Nulo}]
    /\ utiles \in BOOLEAN
    /\ pet \in [Peticiones -> {Libre} \cup Subida \cup Borrado \cup Vaciado \cup CambioTipo]
    /\ pagina \in {Cerrada} \cup Pagina
    /\ subidas \in 0..MaxSubidas /\ otras \in 0..MaxOtras /\ fallos \in 0..MaxFallos
    /\ ultima \in [Ranuras -> Version] /\ erradas \subseteq Version
    /\ averiada \in [Ranuras -> BOOLEAN]
    /\ revuelta \in [Ranuras -> BOOLEAN] /\ sucia \in [Ranuras -> BOOLEAN]
    /\ movida \subseteq Ranuras
    /\ \A i \in Items, e \in Exts \ {ExtItem} : url[i] # e /\ disco[i][e] = Nulo

Init ==
    /\ url = [x \in Ranuras |-> Nulo]
    /\ disco = [x \in Ranuras |-> [e \in Exts |-> Nulo]]
    /\ tipo \in [Items -> {"producto", "servicio"}]
    /\ utiles = TRUE
    /\ pet = [p \in Peticiones |-> Libre]
    /\ pagina = Cerrada
    /\ subidas = 0 /\ otras = 0 /\ fallos = 0
    /\ ultima = [x \in Ranuras |-> 0] /\ erradas = {}
    /\ averiada = [x \in Ranuras |-> FALSE]
    /\ revuelta = [x \in Ranuras |-> FALSE] /\ sucia = [x \in Ranuras |-> FALSE]
    /\ movida = {}

-----------------------------------------------------------------------------

En(p, op, f) == pet[p].op = op /\ pet[p].fase = f
Ir(p, f) == pet' = [pet EXCEPT ![p].fase = f]
Pasar(p, r) == pet' = [pet EXCEPT ![p] = r]

SinFallo == UNCHANGED fallos
Fallo == fallos < MaxFallos /\ fallos' = fallos + 1

\* The answer is an error.
Errar(p) ==
    /\ Pasar(p, Libre)
    /\ erradas' = IF pet[p].op = "subir" THEN erradas \cup {pet[p].v} ELSE erradas

Averiar(x) == averiada' = [averiada EXCEPT ![x] = TRUE]

\* removeLogoFiles, removeBankLogoFiles, or unlinkQuiet of the one file of an item:
\* of the files of d those with an extension in es are gone.
SinArchivos(d, es) == [e \in Exts |-> IF e \in es THEN Nulo ELSE d[e]]

\* An unlink may fail, and nobody is told.
Borrar(x, d, es) ==
    \/ disco' = [disco EXCEPT ![x] = SinArchivos(d, es)] /\ SinFallo /\ UNCHANGED averiada
    \/ /\ \E e \in es : d[e] # Nulo
       /\ disco' = [disco EXCEPT ![x] = d] /\ Fallo /\ Averiar(x)

-----------------------------------------------------------------------------
(* Uploads: saveLogo, saveBankLogo, uploadImagen *)

Subir(p) ==
    /\ pet[p] = Libre /\ subidas < MaxSubidas
    /\ subidas' = subidas + 1
    /\ \E x \in Ranuras : \E e \in ExtsDe(x) :
         Pasar(p, [op |-> "subir", x |-> x, ext |-> e, v |-> subidas + 1,
                   fase |-> IF x \in Items THEN "comprobar" ELSE "escribir"])
    /\ UNCHANGED <<datos, otras, fallos, ultima, erradas, averiada>>

MutAdmiteImagen(i) == tipo[i] # Nulo

\* Only a product has an image.
AdmiteImagen(i) == tipo[i] = "producto"

\* findOne of uploadImagen and clearImagen.
Comprobar(p) ==
    LET r == pet[p] IN
    /\ r.fase = "comprobar"
    /\ IF AdmiteImagen(r.x)
       THEN Ir(p, IF r.op = "subir" THEN "escribir" ELSE "borrarUrl") /\ UNCHANGED erradas
       ELSE Errar(p)
    /\ UNCHANGED <<datos, cuentas, ultima, averiada>>

\* The files of other extensions that an upload replaces.
Sobrantes(x, e) == Exts \ {e}

\* writeBufferFile, after the configuration or the conversion by sharp, then the
\* removal of what it replaces; a file that cannot be written is a 400.
Escribir(p) ==
    LET r == pet[p]
        d == [disco[r.x] EXCEPT ![r.ext] = r.v]
    IN /\ En(p, "subir", "escribir")
       /\ \/ /\ Borrar(r.x, d, Sobrantes(r.x, r.ext))
             /\ Ir(p, "guardar") /\ UNCHANGED erradas
          \/ /\ Fallo /\ Averiar(r.x) /\ Errar(p)
             /\ \/ UNCHANGED disco
                \/ disco' = [disco EXCEPT ![r.x][r.ext] = 0]
       /\ UNCHANGED <<url, tipo, utiles, subidas, otras, ultima>>

\* The item may be gone; the configuration is not.
Guardada(x) == x \notin {i \in Items : tipo[i] = Nulo}

\* The write of the URL; it asks nothing of the type of the item.
Guardar(p) ==
    LET r == pet[p] IN
    /\ En(p, "subir", "guardar")
    /\ \/ /\ Guardada(r.x)
          /\ url' = [url EXCEPT ![r.x] = r.ext]
          /\ \/ /\ Pasar(p, Libre) /\ SinFallo
                /\ ultima' = [ultima EXCEPT ![r.x] = r.v]
             \/ Ir(p, "deshacer") /\ Fallo /\ UNCHANGED ultima
       \/ /\ ~Guardada(r.x)
          /\ Ir(p, "deshacer") /\ SinFallo /\ UNCHANGED <<url, ultima>>
       \/ Ir(p, "deshacer") /\ Fallo /\ UNCHANGED <<url, ultima>>
    /\ UNCHANGED <<disco, tipo, utiles, subidas, otras, erradas, averiada>>

MutADeshacer(r) == IF url[r.x] = r.ext THEN {} ELSE {r.ext}

\* What the upload removes after an error: its file, whoever wrote it last.
ADeshacer(r) == {r.ext}

Deshacer(p) ==
    LET r == pet[p] IN
    /\ En(p, "subir", "deshacer")
    /\ Borrar(r.x, disco[r.x], ADeshacer(r))
    /\ Errar(p)
    /\ UNCHANGED <<url, tipo, utiles, subidas, otras, ultima>>

-----------------------------------------------------------------------------
(* Removals *)

Otra == otras < MaxOtras /\ otras' = otras + 1 /\ UNCHANGED <<subidas, fallos>>

\* clearLogo, clearBankLogo, clearImagen.
Quitar(p) ==
    /\ pet[p] = Libre /\ Otra
    /\ \E x \in Ranuras :
         Pasar(p, [op |-> "quitar", x |-> x,
                   fase |-> IF x \in Items THEN "comprobar" ELSE "borrarUrl"])
    /\ UNCHANGED <<datos, ultima, erradas, averiada>>

\* The document first.
QuitarUrl(p) ==
    LET r == pet[p] IN
    /\ En(p, "quitar", "borrarUrl")
    /\ \/ /\ url' = [url EXCEPT ![r.x] = Nulo]
          /\ \/ SinFallo /\ IF Guardada(r.x) THEN Ir(p, "borrarArchivo") ELSE Pasar(p, Libre)
             \/ Fallo /\ Pasar(p, Libre)
       \/ Fallo /\ Pasar(p, Libre) /\ UNCHANGED url
    /\ UNCHANGED <<disco, tipo, utiles, subidas, otras, ultima, erradas, averiada>>

\* updateVigenciaBancarios with bancarios: null.
Vaciar(p) ==
    /\ pet[p] = Libre /\ Otra
    /\ Pasar(p, [op |-> "vaciar", x |-> "banco", fase |-> "borrarArchivo"])
    /\ UNCHANGED <<datos, ultima, erradas, averiada>>

MutFaseTrasBorrar(r) == "libre"

\* The files go last, but for a wipe of the bank data, where they go first.
FaseTrasBorrar(r) == IF r.op = "vaciar" THEN "borrarUrl" ELSE "libre"

BorrarArchivo(p) ==
    LET r == pet[p] IN
    /\ r.fase = "borrarArchivo"
    /\ Borrar(r.x, disco[r.x], Exts)
    /\ IF FaseTrasBorrar(r) = "libre" THEN Pasar(p, Libre) ELSE Ir(p, FaseTrasBorrar(r))
    /\ UNCHANGED <<url, tipo, utiles, subidas, otras, ultima, erradas>>

\* $unset of the whole of bancarios.
VaciarBancarios(p) ==
    /\ En(p, "vaciar", "borrarUrl")
    /\ Pasar(p, Libre)
    /\ \/ /\ url' = [url EXCEPT !["banco"] = Nulo] /\ utiles' = FALSE
          /\ SinFallo \/ Fallo
       \/ Fallo /\ UNCHANGED <<url, utiles>>
    /\ UNCHANGED <<disco, tipo, subidas, otras, ultima, erradas, averiada>>

\* The texts of the bank data, one write.
EditarBancarios ==
    /\ Otra /\ utiles' = ~utiles
    /\ UNCHANGED <<url, disco, tipo, pet, ultima, erradas, averiada>>

\* update of an item with a type.
PedirTipo(p) ==
    /\ pet[p] = Libre /\ Otra
    /\ \E i \in Items, t \in {"producto", "servicio"} :
         Pasar(p, [op |-> "tipo", x |-> i, fase |-> "escribir", tipo |-> t])
    /\ UNCHANGED <<datos, ultima, erradas, averiada>>

MutUrlTrasTipo(u, t) == u

\* A service has no image.
UrlTrasTipo(u, t) == IF t = "servicio" THEN Nulo ELSE u

CambiarTipo(p) ==
    LET r == pet[p] IN
    /\ En(p, "tipo", "escribir")
    /\ \/ /\ tipo[r.x] # Nulo
          /\ tipo' = [tipo EXCEPT ![r.x] = r.tipo]
          /\ url' = [url EXCEPT ![r.x] = UrlTrasTipo(@, r.tipo)]
          /\ \/ /\ SinFallo
                /\ IF r.tipo = "servicio"
                   THEN Pasar(p, [op |-> "tipo", x |-> r.x, fase |-> "borrarArchivo"])
                   ELSE Pasar(p, Libre)
             \/ Fallo /\ Pasar(p, Libre)
       \/ /\ tipo[r.x] = Nulo
          /\ Pasar(p, Libre) /\ SinFallo /\ UNCHANGED <<tipo, url>>
    /\ UNCHANGED <<disco, utiles, subidas, otras, ultima, erradas, averiada>>

\* The compensation of createForTenants deletes an item, and no file.
BorrarItem(i) ==
    /\ Otra /\ tipo[i] # Nulo
    /\ tipo' = [tipo EXCEPT ![i] = Nulo] /\ url' = [url EXCEPT ![i] = Nulo]
    /\ UNCHANGED <<disco, utiles, pet, ultima, erradas, averiada>>

-----------------------------------------------------------------------------

\* A call before the first effect fails: the configuration, the item, sharp.
FallarAntes(p) ==
    /\ pet[p].fase \in {"comprobar", "escribir"} \/ En(p, "vaciar", "borrarArchivo")
    /\ Fallo /\ Errar(p)
    /\ UNCHANGED <<datos, subidas, otras, ultima, averiada>>

\* The process stops and starts again.
Reiniciar ==
    /\ Fallo
    /\ pet' = [p \in Peticiones |-> Libre]
    /\ UNCHANGED <<datos, subidas, otras, ultima, erradas, averiada>>

-----------------------------------------------------------------------------
(* The public page: one quotation with a line for each item *)

Navegar(r) ==
    /\ pagina' = r
    /\ UNCHANGED <<datos, pet, ultima, erradas, averiada>>

\* The quotation, with its display flags.
AbrirPagina ==
    /\ pagina = Cerrada /\ Otra
    /\ \E imagenes, bancarios \in BOOLEAN :
         Navegar([fase |-> IF imagenes THEN "items" ELSE "config", imagenes |-> imagenes,
                  bancarios |-> bancarios, fotos |-> {}, rotas |-> {}])

Fotos(xs) == {<<x, url[x]>> : x \in {y \in xs : url[y] # Nulo}}

\* findImagenMetaByIds; without it the page has no images.
LeerItems ==
    /\ pagina.fase = "items"
    /\ \/ SinFallo /\ Navegar([pagina EXCEPT !.fase = "config", !.fotos = Fotos(Items)])
       \/ Fallo /\ Navegar([pagina EXCEPT !.fase = "config"])
    /\ UNCHANGED <<subidas, otras>>

\* findByTenantId; the logo of the bank is shown with the bank data only.
FotosConfig == Fotos({"logo"} \cup IF pagina.bancarios /\ utiles THEN {"banco"} ELSE {})

LeerConfig ==
    /\ pagina.fase = "config"
    /\ \/ SinFallo /\ Navegar([pagina EXCEPT !.fase = "cargar", !.fotos = @ \cup FotosConfig])
       \/ Fallo /\ Navegar([pagina EXCEPT !.fase = "cargar"])
    /\ UNCHANGED <<subidas, otras>>

\* The browser asks for one picture.
Cargar ==
    /\ pagina.fase = "cargar"
    /\ \E f \in pagina.fotos :
         Navegar([pagina EXCEPT
                    !.fotos = @ \ {f},
                    !.rotas = IF disco[f[1]][f[2]] = Nulo THEN @ \cup {f} ELSE @])
    /\ UNCHANGED cuentas

CerrarPagina ==
    /\ pagina.fase = "cargar" /\ pagina.fotos = {}
    /\ Navegar(Cerrada) /\ UNCHANGED cuentas

-----------------------------------------------------------------------------
(* History *)

Sobre(pp, x) == {p \in Peticiones : pp[p].x = x}

\* A request that writes all there is about x ends well.
Rehecha(x) ==
    \E p \in Sobre(pet, x) :
        /\ pet'[p] = Libre /\ fallos' = fallos /\ Guardada(x)
        /\ \/ En(p, "subir", "guardar") \/ En(p, "vaciar", "borrarUrl")
           \/ pet[p].op \in {"quitar", "tipo"} /\ pet[p].fase = "borrarArchivo"

Observar ==
    /\ revuelta' = [x \in Ranuras |->
                      \/ Cardinality(Sobre(pet', x)) > 1
                      \/ Sobre(pet, x) # {}
                         /\ \/ revuelta[x]
                            \/ fallos' # fallos /\ \E p \in Sobre(pet, x) : pet'[p] # pet[p]]
    /\ sucia' = [x \in Ranuras |->
                   \/ revuelta'[x]
                   \/ x \in Items /\ tipo'[x] = Nulo
                   \/ sucia[x] /\ ~Rehecha(x)]
    /\ movida' = IF pagina' = Cerrada THEN {}
                 ELSE movida \cup {x \in Ranuras : sucia'[x] \/ Sobre(pet', x) # {}}

PasoPeticion(p) ==
    \/ Subir(p) \/ Comprobar(p) \/ Escribir(p) \/ Guardar(p) \/ Deshacer(p)
    \/ Quitar(p) \/ QuitarUrl(p) \/ Vaciar(p) \/ BorrarArchivo(p) \/ VaciarBancarios(p)
    \/ PedirTipo(p) \/ CambiarTipo(p) \/ FallarAntes(p)

PasoPagina ==
    AbrirPagina \/ LeerItems \/ LeerConfig \/ Cargar \/ CerrarPagina

Next ==
    /\ \/ (\/ \E p \in Peticiones : PasoPeticion(p)
           \/ EditarBancarios
           \/ \E i \in Items : BorrarItem(i)
           \/ Reiniciar) /\ UNCHANGED pagina
       \/ PasoPagina
    /\ Observar

Spec == Init /\ [][Next]_vars

-----------------------------------------------------------------------------
(* Safety *)

\* A picture that nobody is changing is coherent, unless requests on it overlapped
\* or failed and none has written it alone since: the file of the URL, with the
\* bytes of the last upload that was confirmed, and no other; and a service has none.
Coherente ==
    \A x \in Ranuras : Sobre(pet, x) = {} /\ ~sucia[x] =>
        /\ disco[x] = [e \in Exts |-> IF e = url[x] THEN ultima[x] ELSE Nulo]
        /\ x \in Items /\ tipo[x] = "servicio" => url[x] = Nulo

\* Whatever overlaps, the bytes of an upload that was answered with an error are
\* not on disk, unless the disk itself failed.
FallidaNoQueda ==
    \A x \in Ranuras, e \in Exts : disco[x][e] \in erradas => averiada[x]

\* "Story 8.1: servicio no lleva imagen": a step gives a service a URL only as the
\* end of an upload that had found a product.
ImagenDeProducto ==
    [][\A i \in Items : url'[i] # url[i] /\ tipo'[i] = "servicio" =>
          url'[i] = Nulo \/ revuelta[i]]_vars

\* The page has a broken picture only if something was changing it during the visit,
\* or had left it dirty before.
PaginaSinRotas ==
    pagina # Cerrada => \A f \in pagina.rotas : f[1] \in movida
=============================================================================
