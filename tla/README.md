# TLA+ specification of the quotation backend

This directory holds a formal model of the NestJS/Mongoose backend of `src/`: a
multi-tenant system in which users of a tenant create quotations
(*cotizaciones*), send them by mail with a magic link, and customers accept or
reject them through that link. The modules are written from the code; the names
of actions, fields and states are those of the code, in the language of the code
(Spanish), without accents.

Check a module with `tlc -config X.cfg MCModule` and the proofs with
`tlapm XProofs.tla`. `PROJECT.json` maps every definition to the lines it models.

## The system

The backend is one Node process per host over one MongoDB. A request handler is
sequential JavaScript between two `await`s; at each `await` any other request,
in this process or another, may run. A single `findOneAndUpdate`, `updateOne` or
`save` of one document is atomic; nothing else is, no transaction is used, and
`updateMany` is atomic document by document only. So a handler is modelled as
one action per database (or SMTP) call, and the state it carries in local
variables from one call to the next is a record per request.

| Component | State | Operations | Hard part | Correct when |
|---|---|---|---|---|
| Quotation life cycle (`cotizaciones.service.ts`) | the `Cotizacion` document: state, origin and actor of the last change, decision dates, expiry, magic token and its expiry | `cambiarEstadoManual` (and its admin shortcuts), `update`, `responderByMagicToken`, `markExpiredQuotations` (cron and HTTP) | four kinds of writers race; each writes from an old read | a customer decides once, in time, only a quotation in force; nothing overwrites a decision without having read it; dates and provenance agree with the state |
| Sending by mail (`enviarCorreoConPdf`, `emails.service.ts`) | magic token of the document; tenant active, mail account | check, issue token, SMTP, clean up | the token is stored before the mail goes out and removed if it fails; checks go stale; sends overlap | the link of the last clean mail is the one that works |
| Folios (`counters.service.ts`) | a counter per tenant and year, unique index on folios | find, scan, upsert, raise, increment, save | upsert races, old quotations without counter, calls that fail in between | no collision, no gap between the numbers returned |
| Quotation content (`createAdminCotizacion`, `repetirCotizacion`) | lines, totals, snapshots of the catalogue, display flags; two documents when repeating | read customer, items, template and preferences one by one, save; clone, then cancel the original | the catalogue changes between the reads; two writes and no rollback | snapshots were active when read; a clone keeps what its source had; the answer on the original is true |
| Password reset (`password-reset.service.ts`) | reset tokens, password | issue, invalidate, use | check then act; crash between two writes | a token works once |
| Users (`users.service.ts`) | role, active, tenant | create, update, soft delete | "last active administrator" is a count before the write | an active administrator is left |
| Login and guards (`auth/`, `tenant-context.guard.ts`) | JWT, first administrator | register, validate, guard | a token outlives a deactivation; count, then create | one first administrator; suspended tenants are shut out |
| Tenants (`tenants.service.ts`) | tenant active | suspend, onboard with compensation | multi-document creation, crash in between | onboarding is all or nothing, as far as the code promises |
| Tenant configuration (`tenant-config.service.ts`) | one document and two logo files per tenant | find or create, branding, bank data, mail account, logos | duplicate creation; file and document are written apart | one configuration per tenant, no edit lost to a creation; files match it |
| Catalogue (`servicios/`) | services with their images, categories | create, update, toggle, remove, upload | category deactivated while a service is created; type changed while an image is uploaded | active services belong to active categories; services have no image |
| Category migration (`servicios/migration`) | catalogue of one tenant | script run | crash and rerun | rerun converges |
| Metrics and lists (`metrics.service.ts`, `findAll`) | none | thirteen queries per answer, page by page | no common snapshot | figures agree but for the writes in between; a walk misses nothing that stayed |
| Internal notes | an array of the quotation | push, edit, remove | the elements have no `_id` | – |
| Clients, contacts, templates, dashboard | one document per write, or read only | CRUD, counts | little | – |

Interactions: `CotizacionesService` calls `CountersService` (folio),
`TenantConfigService` (default validity, mail account), `TenantsService` (is the
tenant active), `UsersService` (name of the actor) and `EmailsService` (mail).
The customer reaches `responderByMagicToken` without a session, by the token only.

## Modules

| Module | Models | Runs | Proofs |
|---|---|---|---|
| `CicloCotizacion` | abstract: what the life cycle promises, one step per change | – | – |
| `Cotizacion` | the document and every writer of its state, one action per call | `ciclo`, `vencimiento` | `CotizacionProofs` |
| `EnvioCorreo` | sending by mail, composed with `Cotizacion` (EXTENDS it and runs its `Next`) | `envio`, `enlace_entregado` | `CotizacionProofs` |
| `AsignadorFolios` | abstract: each folio is the next of its series | – | – |
| `Folios` | `nextFolio` and the save that uses the folio | `folios` | `FoliosProofs` |
| `Usuarios` | the accounts: create, update, soft delete and the update of a password reset | `usuarios` | `CuentasProofs` |
| `RestablecerContrasena` | the reset tokens of one account and their use | `restablecer` | `CuentasProofs` |
| `Catalogo` | whether items and categories are active, multi-tenant creation | `catalogo` | `CatalogoProofs` |
| `Contenido` | what a quotation contains: creation from the catalogue, repetition, cancellation of the original | `contenido` | `ContenidoProofs` |
| `Inquilinos` | provisioning of a tenant with its compensation, first administrator, requests in a tenant | `inquilinos` | `InquilinosProofs` |
| `Archivos` | logos and images: document and file, and the public page that shows them | `archivos` | `ArchivosProofs` |
| `Consultas` | figures computed by several queries, lists read page by page | `consultas` | `ConsultasProofs` |

The `MC*` modules only add the model values that symmetry needs. A definition
whose name begins with `Mut` is a plausible bug: it is used by no
specification, and replacing the definition it is named after by it must make a
property fail (see `mutants` in `PROJECT.json`).

### Cotizacion

`cot[q]` is the stored document. `pet[p]` is a request slot: its `fase` says at
which `await` the handler is and the other fields are its local variables.

| Code | Actions |
|---|---|
| `cambiarEstadoManual`, called by `PATCH :id/estado` and the admin shortcuts | `CambiarEstado` (request arrives) → `LeerManual` (`findOne`, 400 if already there) → `PrepararManual` (`now`, `resolveFechaVigenteManual`) → `AplicarManual` (`findOneAndUpdate` filtered by the state read) |
| `update` | `Actualizar` (its own `findOne`, `EstadoObjetivo`) → the three steps above when the state changes → `EscribirResto` (the second write, with no filter on the state) |
| `responderByMagicToken` | `ResponderEnlace` (`findOneByMagicTokenRaw` and the checks) → `AplicarRespuesta` (conditional write by token, state and date) → `Avisar` (notification, its failure swallowed) or `ReleerRespuesta` (the write lost a race) → `Cerrar` |
| `markExpiredQuotations`, by cron or HTTP | `IniciarBarrido` (takes `now`) → `BarrerDocumento` per document, in any order |

`ahora` is the wall clock; `Tick` advances it between any two steps. A date is
a number. Documents start as `create` or `repetir` leave them (`Creada`), sent or
not yet. `epoca` and `avisados` are history variables: they count the manual
changes of a quotation and record the notifications; no guard of the system
reads them, except the bound `MaxCambios`.

What the properties say:

- `DocumentoCoherente` (`FechasCoherentes` and `ProcedenciaCoherente`): after any
  interleaving the decision dates and the origin and actor of the last change agree
  with the state. The writers rely on each other for it: the answer of the customer clears no date,
  because it may only follow a reopening that did.
- `ConfirmacionEstable`, `SinRespuestasContradictorias`: what a customer was told
  ("accepted", also through the re-read after a lost race) stands until a user
  changes it, and two answers in flight are never both confirmed when they differ.
- `AvisoUnico`, `AvisosDeDecisiones`: one notification per decision, and only of
  decisions stored.
- `DecisionNoPerdida`: a decision of the customer is only replaced by a manual
  change that had read that decision.
- `CumpleCiclo`: the documents implement `CicloCotizacion` (refinement mapping
  `Ciclo`: expiry is `Nulo` when `sinVigencia`, the decision date is whichever of
  the two dates is set).
- `VencimientoEventual`: a quotation past its date does not stay in force for ever.

### EnvioCorreo

`envio[e]` is a send in flight: `IniciarEnvio` (the only read of the document;
the expiry of the link is settled here), `ComprobarTenant`, `ComprobarCorreo`,
`EmitirEnlace` (unconditional write of a fresh token), `RecomprobarTenant` and
`RecomprobarCorreo` (the same reads again, inside `createTenantTransporter`),
`EnviarSmtp` (accepted; refused; accepted with the confirmation lost) and
`LimpiarEnlace` (`$unset` by id, which may fail too). `SetActivo` and
`UpdateEmailConfig` may happen between any two of them; the latter may make the account
usable or not at any time, since a removal of its user that read the configuration
before the secret was stored writes with no filter but the tenant
(`tenant-config.service.ts:319` and `:376`). `emisiones`, `entregados`
and `solapadas` are history variables.

`EnlaceConfirmadoVale` excludes quotations on which two sends overlapped: the
overlap is a hazard the code does not handle (two tokens, the loser's clean-up
removes the winner's link); `enlace_entregado` shows what one later send does. `DecideElUltimoEnlace`
has no such exclusion. `CumpleCiclo`, checked here too, shows that replacing links
never breaks the life cycle.

### Folios

A series is a tenant and a year. `Pedir`, `Escanear`, `Insertar`, `Subir` and
`Incrementar` are the database calls of `nextFolio`; `Guardar` is the save of the
quotation under the unique index and `Fallar` any failure before it. Quotations
older than the counters are arbitrary (`Init`). `SinColision`: the unique index
never rejects a save. `ContadorListo`: the counter covers every stored folio as
soon as a request goes on to increment it. `CumpleAsignador`: the numbers
returned implement `AsignadorFolios`. Burned numbers (a failure after the
increment) are in the model: the promise is about folios returned, not stored.

### Usuarios

`usr[u]` is the account (role, tenant, `activo`; role and `activo` may be null: the
DTO lets null through and the write validates nothing). A request carries the actor of
its JWT, which is *not* an account of the model: a token outlives any change of its
user. `update` is `Update` (`findById` and the checks on the actor) → `ContarAdmins`
(the two `assertNotRemovingLast...`, which count only when the body takes an active
administrator away) → `ResolverTenant` → `Escribir` (by id, no other filter);
`softDelete` and the update of a password reset share these steps; `create` is
`Create` → `ResolverAlta` → `GuardarAlta`. `SetActivo` suspends a tenant between any
two. `pisadas` and `rebasadas` are history.

The code does not keep its two rules without exception, and the properties say exactly
what it does keep, for any bodies and with requests that overlap (`usuarios`):

- `PerdidaDeAdmin`: the last active administrator, of the system or of a tenant, goes
  in two ways only. One is a body with `activo: null`, which the DTO admits and no
  check takes for a deactivation: one such request is enough. The other is the write of
  a request that another overtook, having written the same account since it was read
  or taken another administrator away since the count (two administrators who
  deactivate each other, each counted as the other's replacement). A request that
  reads, counts and writes with nobody in between never does it.
- `RolConTenant`: role and tenant agree, but on an account whose role changed between
  the read and the write of an update that leaves the role alone (a password reset is
  one), until the next update of it.

### RestablecerContrasena

`doc[t]` is a stored token. A request for a link is `CrearToken` →
`SendPasswordResetEmail` → `InvalidarPrevios`, with `Limpiar` after a failure; a
reset is `BuscarToken` → `GuardarClave` → `Marcar`. Whether the account is active
is not a variable: it may change at any time, so the one read of it at the start of
each handler may return either, and belongs to its first action. Every call may
fail; `Reiniciar` drops all that is in flight; `Vencer` expires a token and, the
second time, is the TTL index. `Email[t]` is the address as it was typed in the
request that was issued `t`: `findByEmail` normalises it, so every spelling finds the
account, but tokens are stored, removed and looked up under the one that was typed.
The other variables are history.

`EnlaceConfirmadoGuardado` is the promise of the comments of the code: only a later
request for the same spelling that ended well takes a mailed link away. It speaks of
requests that overlapped no other, because two that overlap remove each other's token.
`RevocadosInservibles` says that once a request ended well, no link issued before it
for the address as typed opens the account, though a reset in flight may still save
its token. A link issued for `A@x.com` does survive a later request for `a@x.com` of
the same account, in the code (`password-reset.service.ts:61` and `:75-81`) and in the
run, which has both spellings.
`UnSoloUso` is what single use amounts to in this code: the look-up, the change and the mark are three calls, so it
excludes tokens whose resets overlapped or stopped before the mark (`dudosos`).

### Catalogo

`cat[c]` is the state of the category of a tenant and a code, `item[i]` an item with
its category. Creations and updates of items check the category in one call
(`Create`, `Update`, `ComprobarCategoria`) and write in another (`GuardarItem`,
`EscribirItem`); `RemoveCategoria` → `ContarActivos` → `DarBaja` counts items and
then writes the category; `CreateForTenants` saves tenant by tenant
(`ResolverDestino`, `GuardarDestino`) and compensates (`Compensar`). `testigos` and
`rebasadas` are history.

The rule that an active item is in an active category (`Coherente`) is not kept without
exception either, and `ReglaSalvoRebase` says when it may break: by an update that sets
`activo` to null and names no category, which the DTO admits, for which no category is
read, and which makes an inactive item active to every filter (one such request is
enough); or by the write of a request that another overtook between what it read or
counted and that write. No other step of items, categories or multi-tenant creations
takes an item out of the rule. What races cannot break is `BajaSinTestigos`, an item
active all the while a removal is handled is never overlooked, and
`AltaFallidaSinItems`.

### Contenido

`pet[p]` is a request that builds a quotation. A creation is
`CreateAdminCotizacion` → `ComprobarCliente` → `BuildItem` per line →
`BuildPlantillasSnapshot` → `ResolveDisplayFlags` → `Guardar`; a repetition is
`Repetir` (reads the source) → `BuildRepetirItem` per line → `ResolveRepetirCliente`
and `ResolveDisplayFlags`, in any order since they share a `Promise.all` → `Guardar`
→ the cancellation of the original (`ReleerOriginal`, `LeerOriginal`,
`CancelarOriginal`, and `ComprobarOriginal` after any error). Between any two,
`EditarServicio`, `BorrarServicio`, `ToggleCliente`, `EditarPlantilla` and
`OtroCambio` stand for all that others may do. A version of an item (`Ficha`) stands
for its name, type and price; one flag stands for the three, which follow one rule.

`SnapshotsVigentes`: every snapshot about to be stored was active, in that very
version, at some time since the request arrived (`testigos` is the history of it).
`ClonFiel`: line by line, what a clone owes its source and what the body changes.
`CancelacionVeraz`: an answer with `originalCancelada` is only given if the original
was cancelled at some time since the clone exists; a lost confirmation, a decision of
the customer or a reopening may come in between.

### Inquilinos

`Onboard` → `CreateTenantDoc` → `FindOrCreate` (an upsert, and `ReleerConfig` after a
duplicate key) → `Sembrar` per template → `Activar` → `Releer` → `BuscarCorreo` →
`ComprobarTenant` → `GuardarUsuario`; an error goes to `DeleteAllForTenant` →
`DeleteByTenantId` → `DeleteTenant`, each of which may fail too. `Register` →
`Contar` is the first administrator. `Entrar` is the guard in front of a request of
another user, which may reach the tenant while it is provisioned (an `admin_sistema`
may enter an inactive one). Each call may fail before or after its effect;
`Reiniciar` drops all that is in flight.

`RechazoLimpio`: a rejection whose compensation reports no error leaves nothing but
what others wrote there meanwhile (`ajenos`). `AltaCompleta`: an onboarding that
answered has left the tenant whole, and nobody takes anything of it away.
`EdicionesConservadas`: an edited configuration is never put back; only the
compensation of an onboarding still in course takes it away, as a whole.
`PrimerAdminUnico`: the registration without a session makes one administrator unless
two overlapped.

### Archivos

A slot (`Ranuras`) is the logo, the logo of the bank or the image of an item: `url[x]`
is what the document says, `disco[x][e]` which upload's bytes the file with extension
`e` has (0: cut short). An upload is `Subir` → `Comprobar` (items) → `Escribir` →
`Guardar`, or `Deshacer` after an error; a removal `Quitar` → `QuitarUrl` →
`BorrarArchivo`; a wipe of the bank data `Vaciar` → `BorrarArchivo` →
`VaciarBancarios`, the other way round; a change of type `PedirTipo` → `CambiarTipo` →
`BorrarArchivo`. File operations are synchronous, so code between two awaits is one
step. A guest opens the page (`AbrirPagina`, `LeerItems`, `LeerConfig`) and the
browser asks for one picture after the other (`Cargar`).

`Coherente`: a slot at rest has the file of its URL, with the bytes of the last
confirmed upload, and no other, unless requests on it overlapped or failed and none
has written it alone since (`sucia`): what the races leave is mended by the next lone
request. `FallidaNoQueda`: the bytes of an upload answered with an error are nowhere,
whatever overlaps, unless the disk failed. `ImagenDeProducto`: a service gets a URL
only when another request overlapped the upload. `PaginaSinRotas`: a visit shows a
broken picture only if something changed it during the visit or left it dirty.

### Consultas

`Respuesta` has the queries of `getTotalsMetrics`, each answered at an instant of its
own by `Consultar`; a reading observes a set of them (`Grupos`), since how the others
are ordered changes nothing for it. `FindAll` and `SiguientePagina` read a list page
by page, ties of `fechaCreacion` in any order; the caller that walks the pages is a
client of the service. An aggregation is taken to see one instant.

`ConteosConCambios` bounds by the number of writes in between (`cambios`) how far the
parts of an answer may disagree. `ImportesCuadran` and `ResumenesCuadran` say that
queries and endpoints written apart agree on a store at rest, old lines without type
or subtotal included. `RecorridoCompleto`: a walk sees all that stayed in the list,
but for one per quotation that left it; creations during the walk only repeat lines.

## Runs, bounds and what they show

All passing runs are exhaustive within the bounds. The type invariant of each module
is `TypeOK` (`TypeOKEnvio` in `EnvioCorreo`); where TLAPS proves it the run does not
repeat it. Deadlock is checked in all but
`archivos`, where the bounds on requests are used up.

| Run | Instance | Shows |
|---|---|---|
| `ciclo` | 1 quotation, 2 requests of any kind, 1 sweep, clock 0..2, 1 manual change per quotation, so that a decided one is reopened and answered again | coherence, stable answers, no decision lost or notified twice, refinement of the life cycle |
| `vencimiento` | 2 quotations never sent, 1 request, fairness | eventual expiry |
| `envio` | 2 sends, 2 tokens, tenant and mail incidents, 1 answer in flight | link of a clean mail works, last link decides, life cycle kept while links are replaced |
| `usuarios` | 2 accounts, 1 tenant, 2 requests in flight, any number in sequence, bodies of one field with `activo` null too | role and tenant agree, last administrators kept, but for the named ways |
| `restablecer` | 3 tokens under two spellings of the address, 2 requests, 2 resets, failures and restarts | mailed links kept, revoked and spent ones not used again |
| `catalogo` | 2 tenants, 1 code, 2 items, null among the values of `activo`, 2 requests in flight | active items in active categories but for the named ways; removals see active items; failed creations leave nothing |
| `contenido` | 2 items, 2 quotations, 1 creation or repetition (4 bodies) in flight, 2 changes by others, source with or without the later fields | snapshots, clones and answers agree with what was read |
| `inquilinos` | 2 tenants, 2 mails, 2 seeds, 2 requests in flight, 1 failure or restart | clean rejections, complete tenants, one first administrator, edits kept |
| `archivos` | both logos and 1 item, 2 extensions, 2 uploads, 2 other requests or visits, 2 in flight, 1 failure | files agree with documents, failed uploads gone, pages without broken pictures |
| `consultas` | 4 quotations of one tenant and 1 of another, 3 writes, 4 instants, pages of 1 | figures agree up to writes in between, walks are complete |
| `folios` | 2 series, 3 requests, stored folios up to 2, numbers up to 4 | no collision, no gap |

Why the bounds are enough to be interesting: the races of this code are between
two writers of one document, plus the sweep; each write is conditional on one
document, so one quotation and two slots produce every pair of handlers at every
pair of `await`s, and `MaxCambios` = 1 lets an answer be followed by a reopening.
A clock of 0..2 with dates 0 and 1 has quotations before, at and past their date.
`Nulo` tokens and two fresh ones let a link be replaced once and removed. For the
safety properties the theorems remove the bounds altogether.

`contenido` has one request because what others do to the catalogue and to the original
is in the actions `Editar...`, `Toggle...` and `OtroCambio`, two of which may fall
anywhere in it. In `archivos` and `inquilinos` two requests in flight give every pair
of handlers at every pair of awaits; one failure on top of them reaches every
compensation, also while another request is in the tenant or the slot. The store of
`consultas` begins with the older quotations accepted, so that three writes suffice to
take any of them through another state; its lines are of both types and without type.

In `usuarios` two accounts are the two administrators who take each other away, of the
system or of the tenant, in sequences of calls as long as one likes; in `catalogo` two
items are one to each category, or two in one. Three tokens are two that race to
replace each other and one under another spelling.

`CONSTANTS` that are bounds: `TiempoMax`, `MaxCambios`, `Entradas` (kinds of
request in the instance), `Incidencias`, `PrevioMax`, `SeqMax`,
`Cuerpos`, `ActivosDto`, `Operaciones`, `Altas`, `Repeticiones`, `MaxFallos`, `MaxSubidas`,
`MaxOtras`, `MaxEscrituras`, `MaxInstante`, `Filtros`, `Grupos`, `EstadosPrevios`.
Symmetry is over request slots, sends, tokens, accounts, mails, tenants, quotations and items, never in a run that checks liveness.

### Disagreements between the code and what it says

One run expects a violation of a statement found in the source: `enlace_entregado`.
The mail says until when its link is valid; a later send that fails takes the link away.

Others were met while modelling. The models have the behaviour, and no property is
stated that the code would break:

- `cotizacion.schema.ts:119` says that `fechaVencimiento` is absent when `sinVigencia`;
  reopening or editing the quotation writes one, and the public page then shows
  "vencida" once it is past although the answer is still taken.
- `users.service.ts:79` and `:103` say that the checks prevent leaving the system, or a
  tenant, without an active administrator ("Impide dejar ..."); one body with
  `activo: null` gets past them, and so does a second removal in flight.
- `password-reset.service.ts:74` says that the invalidation keeps the new token; that of
  a concurrent request goes too, and the previous ones of another spelling of the
  address stay.
- `categorias-servicio.service.ts:227` says that a category with active items is not
  removed; an item may become active between the count and the write, and one of an
  inactive category becomes active by a body with `activo: null`
  (`servicios.service.ts:411`).
- `repetir-cotizacion.dto.ts` says of the date "No enviar si sinVigencia=true (BE
  responde 400)"; the code ignores the date.
- `servicios.service.ts:592` writes the URL of an image by id only: an item that became a
  service since the check keeps it until the file is taken away.
- A failed upload with the extension of the file that is there removes that file; the
  document goes on naming it until the next upload.
- Onboarding compensates by deleting templates, configuration and tenant: users that
  others created there, or whose creation was not confirmed, stay; a creation of the
  tenant that is not confirmed leaves an inactive tenant that keeps its `clave`.
- `getServicesMetrics` gives an item the type of the first line it meets, though the
  quantities of both are summed; a conversion rate may exceed 1 if writes come between
  the queries; quotations of the same instant have no order across pages.
- The link of a quotation keeps its old date when the quotation is extended; two updates
  of an account in flight may leave a role without its tenant; two resets in flight may
  use one token twice.

### Fairness

`FairSpec` assumes weak fairness of the sweep only: the cron fires every day and
the database answers each update of an `updateMany`. Nothing is assumed of users
and customers, nor that any request ends.

## Proofs

TLAPS checks, for every value of the constants satisfying `ConstantesAssumption`
(absent is not a date, a user nor a token; dates are naturals),
`FoliosAssumption`, `RestablecerAssumption` (null is not a token nor a document),
`ArchivosAssumption` (null is neither an extension nor a slot, the logos are not items,
requests are finitely many), `UsuariosAssumption` (accounts are finitely many, null and
omitted are none of the other values), `CatalogoAssumption` and `InquilinosAssumption`
(null is none of the other values), `EnvioAssumption`, `ConsultasAssumption` (the
quotations are finitely many, null is not a state, a page has a place; what a
quotation, a filter and a day of the calendar consist of), and `ContenidoAssumption` (null
and omitted are none of the other values; a body has a line, as the DTO demands; the
items of the catalogue are finitely many and there is one, without which no line could
be written):

| Theorem | States |
|---|---|
| `CotizacionProofs!Tipos` | `Spec => []TypeOK` |
| `CotizacionProofs!DocumentosCoherentes` | `[]DocumentoCoherente` |
| `CotizacionProofs!RespuestasFirmes`, `RespuestasUnanimes` | `[]ConfirmacionEstable`, `[]SinRespuestasContradictorias` |
| `CotizacionProofs!AvisosUnicos`, `AvisosCorrectos` | `[]AvisoUnico`, `[]AvisosDeDecisiones` |
| `CotizacionProofs!DecisionesNoPerdidas` | `Spec => DecisionNoPerdida` |
| `CotizacionProofs!CicloCumplido` | `Spec => CumpleCiclo`, the implementation of `CicloCotizacion` |
| `CotizacionProofs!TiposEnvio` | `SpecEnvio => []TypeOKEnvio` |
| `CotizacionProofs!EnlacesConfirmados` | `SpecEnvio => []EnlaceConfirmadoVale` |
| `CotizacionProofs!SoloElUltimoEnlace` | `SpecEnvio => DecideElUltimoEnlace` |
| `CotizacionProofs!CicloConEnvios` | `SpecEnvio => CumpleCiclo`: the mails keep the life cycle |
| `FoliosProofs!TiposCorrectos` | `Spec => []TypeOK` |
| `FoliosProofs!FoliosSinColision`, `ContadorPreparado` | `[]SinColision`, `[]ContadorListo` |
| `FoliosProofs!FoliosCumplen` | `Spec => CumpleAsignador` |
| `CuentasProofs!TiposRestablecer` | `SpecRestablecer => []TypeOKRestablecer` |
| `CuentasProofs!EnlacesGuardados`, `EnlacesRevocados` | `[]EnlaceConfirmadoGuardado`, `[]RevocadosInservibles` |
| `CuentasProofs!UsoUnico` | `[]UnSoloUso` |
| `ArchivosProofs!TiposCorrectos` | `Spec => []TypeOK` |
| `ArchivosProofs!SinRestosDeFallidas` | `[]FallidaNoQueda` |
| `ArchivosProofs!ServicioSinImagen` | `Spec => ImagenDeProducto` |
| `ArchivosProofs!ImagenCoherente`, `PaginaEntera` | `[]Coherente`, `[]PaginaSinRotas` |
| `CuentasProofs!TiposCorrectos` | `Spec => []TypeOK` |
| `CuentasProofs!RolesFirmes` | `Spec => []RolConTenant` |
| `CuentasProofs!AdminsFirmes` | `Spec => PerdidaDeAdmin` |
| `CatalogoProofs!TiposCorrectos` | `Spec => []TypeOK` |
| `CatalogoProofs!AltaDeshecha`, `BajaFirme` | `[]AltaFallidaSinItems`, `Spec => BajaSinTestigos` |
| `CatalogoProofs!ReglaDeCategoria` | `Spec => ReglaSalvoRebase` |
| `ContenidoProofs!TiposContenido` | `Spec => []TypeOK` |
| `ContenidoProofs!SnapshotsRecientes` | `[]SnapshotsVigentes` |
| `ContenidoProofs!RespuestaVeraz` | `[]CancelacionVeraz` |
| `ContenidoProofs!ClonFielAlOriginal` | `[]ClonFiel` |
| `InquilinosProofs!TiposCorrectos` | `Spec => []TypeOK` |
| `InquilinosProofs!RechazosLimpios`, `AltasCompletas` | `[]RechazoLimpio`, `[]AltaCompleta` |
| `InquilinosProofs!EdicionesFirmes`, `UnPrimerAdmin` | `Spec => EdicionesConservadas`, `[]PrimerAdminUnico` |
| `ConsultasProofs!TiposConsultas` | `Spec => []TypeOK` |
| `ConsultasProofs!PaseoCompleto` | `[]RecorridoCompleto` |
| `ConsultasProofs!ResumenesDeAcuerdo` | `[]ResumenesCuadran` |
| `ConsultasProofs!ImportesDeAcuerdo` | `TotalesDeLineas => (Spec => []ImportesCuadran)` |
| `ConsultasProofs!ConteosAcotados` | `[]ConteosConCambios` |

The argument for `Cotizacion`: the inductive invariant is `IInv` = types, a
coherence predicate of each document (`Coherente`, kept by each of the four
writes under the guard of its filter), and `Respuestas`, which relates the
requests to the documents. `ConfirmacionEstable` is not inductive alone: that a
new answer cannot contradict a confirmed one needs that epochs held by requests
and notifications are never in the future, and that an answer is applied only to
a quotation in force, which has no confirmed answer of its epoch. The refinement
needs three facts more (`RInv`): a quotation that expires has a date; the
instants that handlers and sweeps hold are not in the future (otherwise a sweep
could expire something before its date); and a manual change let through changes
the state. Every write is then one abstract action (`AplicarManual` →
`CambiaUsuario`, `AplicarRespuesta` → `RespondeCliente`, `BarrerDocumento` →
`Vence`, `EscribirResto` → `CorrigeFecha`, `Tick` → `Pasa`) and every other step a
stutter.

For `EnvioCorreo`, where any number of sends overlap: only the last link issued for a
quotation may be stored in it (`UltimoGuardado`), since a send stores the link it has
just issued and everything else that touches the field empties it. This alone gives
`DecideElUltimoEnlace`. For `EnlaceConfirmadoVale` the invariant follows a send from
its link to its answer: unless it overlapped another, it holds the last link and the
quotation has it (`EnvioAlDia`), and nobody was told yet that this link is good
(`SinConfirmarAun`), so that the clean-up of a failure cannot take a confirmed link
away. That two sends past the issue have been seen to overlap (`SolapesVistos`) is
what makes "unless" usable. The life cycle needs no new invariant: a step of a send
changes the token and its date only, which `Ciclo` does not look at.

For `Folios`: the counter, once there, covers what is stored, what is in flight and what was
returned, or the request that inserted it still holds the maximum it will raise
it to; numbers in flight are distinct because each is the counter's value at its
own increment.

For `RestablecerContrasena`, per address as typed: that the confirmed link stays stored
is not inductive alone. The request that confirms it must be known to find it still there, which
holds because a request that overlapped no other of its address is alone there and its token is stored
(`SolicitudesCoherentes`), and every other request in flight cleans up a token that is
not the confirmed one. For the single use, `CambiosCoherentes` says of each token
that nothing made doubtful: one reset holds it at most, one that still has to write
finds no earlier use, and a token that was used is marked, gone, or held by a
reset that is about to mark it.

For `Archivos`: `FallidaNoQueda` alone says nothing of an upload still in flight, whose
bytes may be on disk when it fails. `FInv` adds that every upload has a number of its
own that no failed one had (`Numeradas`), and that its bytes are in its own file only,
once it is past the write (`Escritas`): so an upload that fails earlier has nothing to
leave, and one that fails later removes the only file that could have it. A step that
writes no bytes keeps `FInv` (`SinBytesConserva`), which leaves two actions to look at.
`ImagenDeProducto` follows from `RInv`: two requests on one slot are seen to overlap
(`Solapadas`), and an upload past the check is for a product, unless the type was
changed by a request that overlapped it (`HalladoProducto`).

`Coherente` is about pictures at rest and races do break it, so `CInv` says of each
picture how far the one request that is alone with it, and did not fail, has taken it
(`Lleva`): before its first write the picture is as at rest (`Intacta`), between
the file and the document the bytes are there under the new name and no other, and so
on. A second request makes the picture `revuelta` and with it `sucia`, of which nothing
is claimed until the next lone request has ended. `PagInv` adds, of a visit, that a
picture that nothing touched since the page was sent is at rest and clean.

For `Usuarios`: no hypothesis on the requests but that their bodies are of the DTO. The
types hold since no handler writes an account it has not found. The invariant
`IUsuarios` says of each request what its form entails (`Forma`: the tenant it
carries is the one of the role it will leave) and, as long as no other overtook it,
what it has established so far (`Vigente`): the account is still as it was read, and
once past the count, if the write takes an active administrator away another one is
there (`Reemplazable`), unless its null `activo` made nothing count. Every write of
another either leaves that alone or puts the request in `rebasadas`, by the
definition of `Rebasa` (`EscribirBien`). That a count above one means another
administrator needs a finite set of accounts. Suspensions between the steps touch no
account.

For `Catalogo`, where requests overlap freely: `Seguida` follows what a multi-tenant
creation has saved through its compensation (still to delete, deleted, or left because
the delete failed), and `Evoluciona` says that no step of anybody forgets an item or
brings back a deleted one. `SinTestigos` says that a removal past its count has no
item left that was active all the while: the count would have seen it.
`ReglaDeCategoria` is about what a request may rely on. `VInv` says that what a request
that nobody overtook was told still holds (`Vigente`): the category that was found
active is, the item about to be written is in the category that was checked, the
category about to be removed has no active item. A step of another that undoes it puts
the request in `rebasadas`, so only steps of the request itself are left to look at
(`Sigue`), and a write by one that holds on to something valid leaves every item within
the rule, unless it sets `activo` to null without a category.

For `Contenido`: the witnesses of a request (`testigos`) only grow and always hold what is active
now (`Obras`), so that whatever a step copies is among them; a version of an item has
one price, which makes the price copied with a name that of the same version. For
`CancelacionVeraz` it is enough that `vista` remembers a cancellation. `ClonFiel` needs
a second layer (`Clones`): the lines read so far are a faithful copy of a prefix of the
source, the lines still to read are the rest of it, and the total is the sum of the
copy. The source may be cancelled or reopened meanwhile but nobody changes its lines
(`Firme`). That appending a line adds its amount to `Suma`, a fold, takes induction
(`SumaAppend`). The induction theorems of the library have an operator parameter
and cannot be used; the lemma `Induccion` is the same principle for a set of numbers,
from the well-foundedness of `<` (`WFMin`, `NatLessThanWellFounded`), and `HayTabla`
proves with it that the recursion of the fold has a solution.

For `Inquilinos`: an onboarding past its first write is the only one on its tenant
(`Unicas`), so what it has written there is still there (`Propia`), phase by phase.
Whatever others do meanwhile is friendly (`Amable`): it deletes nothing and `ajenos`
records what it adds. So one lemma (`PasoDe`) serves every action: a step that is
friendly to all tenants but one, where no other onboarding is, only has to be looked
at in that one. When the onboarding ends, `Propia` of its last phase is what
`Inquilino` claims of a rejected or a complete tenant. `PrimerAdminUnico` has an
invariant of its own: until two registrations overlap, whoever is past the count is
alone there and finds no administrator.

For `Consultas`, where a store may hold any number of quotations: `RecorridoCompleto` is
about the end of a walk, and `Paseo` says it of every page. Of the quotations that
belong before place `pagina * Limite`, by the number of those that come before them,
the walk has missed at most as many as have left (`Perdidas`): each one that leaves
pulls one more across the border, a new one pushes some back, and a page, however it
orders the ties, shows all that belong to it and share their instant with nobody.
At the last page everything belongs before that place. `ConteosConCambios` compares
figures of several instants, so `ConInv` says it of the figures the reading would have
if it ended now (`Valores`: what was answered, or what would be): the figures of one
instant nest, and a write moves each by one at most, which `cambios` allows for. A
query only fixes a figure. `ImportesCuadran` needs that what was answered is still what
would be (`AlDiaInv`), and then that the total of each quotation is that of its lines
(`TotalesDeLineas`). The model leaves totals and lines of the store unrelated, the code
adds one up from the other whenever it saves a quotation (`buildItems`,
`buildRepetirItems`), so it is a hypothesis of that theorem alone; the store of the
run satisfies it. `ResumenesCuadran` is about one instant and follows from the types.
The algebra of sums and counts over finite sets is proved first, without a recursive
operator: a sum over a set is one over the classes of any key, it grows with the set
and with the terms, by an induction on the subsets of a finite set (`InduccionFinita`),
again the principle for a set and not for an operator.

`RestablecerContrasena` and `Usuarios` share the module `CuentasProofs`, which is why the definitions
of the former that both need carry its name (`SpecRestablecer`).

Only model-checked: liveness (`VencimientoEventual`), which the prover does not cover,
and the run that looks for a counterexample (`enlace_entregado`). Every invariant and
every action property of the other runs is a theorem.

## Abstractions and what is not modelled

- The documents carry the fields that decide something. The time stamps
  `estadoOrigenAt` and `fechaEstado*`, which are written and never read by a
  guard (`update` even lets the client set some of them), are left out, and so
  are contact data and recipients. Items, totals and flags are in `Contenido`.
- The name of the actor (`resolveActorNombre`) falls back to the mail on error, so
  the read has no effect on control and is folded in `PrepararManual`.
- A database error ends a request at the next call it would have made; in
  `Cotizacion` that is a request that stops, which safety covers since no step is
  ever forced. `Folios` has it as an action, since the slot is then reused.
- The year of a folio, its format `COT-year-NNNN` and the parser of stored folios
  are abstracted to a series and a number. The scan is one read.
- Tenancy (`tenantId` in every filter) is not a variable of `Cotizacion`: all
  quotations of an instance belong to one tenant.

- A database call that fails is modelled as one that did nothing.
- In `Usuarios` the bodies carry role and `activo`, null included; names and mails are
  left out but for the refusal of a taken mail. A tenant in the body that is not the
  one of the actor is always refused, so it is left out too.
- `RestablecerContrasena` takes the update of the password, whose reads are in
  `Usuarios`, as one step that may be refused, and assumes that the mail server times
  out well before the hour a token lasts.
- `Catalogo` identifies a category with its code: the change of a code is left out.
  The images of the products are in `Archivos`.
- `Contenido` has one template and one customer; validity and recipients of a clone are
  left out. A repetition cannot name another customer, so neither can its body here.
- `Inquilinos` leaves out edits of templates and users, which neither onboarding nor its
  compensation reads; the slug and the mail are valid.
- `Archivos` has no deletion of a configuration, and bank data are only "worth showing or
  not". A file operation that fails on a sound disk does not exist; a write that fails
  may leave a truncated file.
- `Consultas` leaves out the text search, the sort orders other than the default, and the
  averages derived from the figures it has.
- Internal notes are not modelled: an array of type `[Object]` gives its elements no
  `_id`, so their edit and removal never find one and only the append is left. The
  category migration, the CRUD of clients, contacts and templates, and the counters of
  the dashboard are single reads or writes with nothing to race with.

## Plan

1. Composition: `Contenido` with `Cotizacion` and `Folios` in place of `OtroCambio`.
2. The change of the code of a category, the category migration (crash and rerun).
3. An abstract specification of the accounts, which the requests that nobody overtakes
   implement.
