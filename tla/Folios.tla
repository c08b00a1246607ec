------------------------------- MODULE Folios -------------------------------
(***************************************************************************)
(* The folio of a new quotation: CountersService.nextFolio, called by      *)
(* createAdminCotizacion and repetirCotizacion, and the save that uses the *)
(* folio under the unique index on (tenantId, folio).                      *)
(*                                                                         *)
(* A series is a tenant and a year; a request takes the year once, when it *)
(* enters nextFolio, so its whole run is about one series.                 *)
(***************************************************************************)
EXTENDS Integers

CONSTANTS
    Series,       \* pairs of a tenant and a year
    Peticiones,   \* requests that create a quotation at once
    Nulo,         \* no counter yet, nothing read yet
    PrevioMax,    \* bound: highest folio number stored before the counters
    SeqMax        \* bound: the last number this instance gives out

ASSUME FoliosAssumption ==
    Nulo \notin Nat /\ PrevioMax \in Nat /\ SeqMax \in Nat

VARIABLES
    contador,   \* contador[s]: seq of the counter document, or Nulo
    guardados,  \* folios <<series, number>> of the stored quotations
    pet,        \* pet[p]: progress of request p
    emitidos    \* history: folios stored at the start or returned by nextFolio

vars == <<contador, guardados, pet, emitidos>>

Folio == Series \X (Nat \ {0})

Libre == [fase |-> "libre"]

Peticion ==
    {Libre}
    \cup [fase: {"escanear", "incrementar"}, s: Series]
    \cup [fase: {"insertar", "subir"}, s: Series, maximo: Nat]
    \cup [fase: {"guardar"}, s: Series, n: Nat \ {0}]

TypeOK ==
    /\ contador \in [Series -> Nat \cup {Nulo}]
    /\ guardados \subseteq Folio
    /\ pet \in [Peticiones -> Peticion]
    /\ emitidos \subseteq Folio

\* The quotations that were there before the counters existed.
Init ==
    /\ contador = [s \in Series |-> Nulo]
    /\ guardados \in SUBSET (Series \X (1..PrevioMax))
    /\ pet = [p \in Peticiones |-> Libre]
    /\ emitidos = guardados

Pasar(p, r) == pet' = [pet EXCEPT ![p] = r]

-----------------------------------------------------------------------------
(* nextFolio *)

\* The request enters nextFolio; ensureCounter looks for the counter.
Pedir(p) ==
    /\ pet[p].fase = "libre"
    /\ \E s \in Series :
         Pasar(p, [fase |-> IF contador[s] = Nulo THEN "escanear" ELSE "incrementar",
                   s |-> s])
    /\ UNCHANGED <<contador, guardados, emitidos>>

MutEsMaximo(m, s) == m = 0

\* m is the highest number stored in series s, 0 when there is none.
EsMaximo(m, s) ==
    /\ m = 0 \/ <<s, m>> \in guardados
    /\ \A f \in guardados : f[1] = s => f[2] <= m

Escanear(p) ==
    LET r == pet[p] IN
    /\ r.fase = "escanear"
    /\ \E m \in {0} \cup {f[2] : f \in guardados} :
         EsMaximo(m, r.s) /\ Pasar(p, [fase |-> "insertar", s |-> r.s, maximo |-> m])
    /\ UNCHANGED <<contador, guardados, emitidos>>

MutValorInsertado(actual, m) == m

\* $setOnInsert: a counter that is already there keeps its value.
ValorInsertado(actual, m) == IF actual = Nulo THEN m ELSE actual

\* The upsert; the duplicate key error of a lost race is swallowed.
Insertar(p) ==
    LET r == pet[p] IN
    /\ r.fase = "insertar"
    /\ contador' = [contador EXCEPT ![r.s] = ValorInsertado(@, r.maximo)]
    /\ Pasar(p, [r EXCEPT !.fase = "subir"])
    /\ UNCHANGED <<guardados, emitidos>>

\* $max with the number that was scanned.
Subir(p) ==
    LET r == pet[p] IN
    /\ r.fase = "subir"
    /\ contador' = [contador EXCEPT ![r.s] = IF @ < r.maximo THEN r.maximo ELSE @]
    /\ Pasar(p, [fase |-> "incrementar", s |-> r.s])
    /\ UNCHANGED <<guardados, emitidos>>

MutDevuelto(seq) == seq

\* findOneAndUpdate with { new: true } returns the value after the increment.
Devuelto(seq) == seq + 1

\* $inc: the value returned is the folio of this request.  When the counter is
\* not there, or the update fails, it is a 500.
Incrementar(p) ==
    LET r == pet[p]
        n == Devuelto(contador[r.s])
    IN
    /\ r.fase = "incrementar"
    /\ \/ /\ contador[r.s] # Nulo /\ contador[r.s] < SeqMax
          /\ contador' = [contador EXCEPT ![r.s] = @ + 1]
          /\ emitidos' = emitidos \cup {<<r.s, n>>}
          /\ Pasar(p, [fase |-> "guardar", s |-> r.s, n |-> n])
       \/ /\ Pasar(p, Libre)
          /\ UNCHANGED <<contador, emitidos>>
    /\ UNCHANGED guardados

-----------------------------------------------------------------------------
(* The rest of create and repetir *)

\* A database call of nextFolio fails, or a validation that comes after the
\* folio, or the save: the request ends, and a number it held is lost.
Fallar(p) ==
    /\ pet[p].fase \in {"escanear", "insertar", "subir", "guardar"}
    /\ Pasar(p, Libre)
    /\ UNCHANGED <<contador, guardados, emitidos>>

\* The save, which the unique index rejects for a folio already stored.
Guardar(p) ==
    LET f == <<pet[p].s, pet[p].n>> IN
    /\ pet[p].fase = "guardar"
    /\ f \notin guardados
    /\ guardados' = guardados \cup {f}
    /\ Pasar(p, Libre)
    /\ UNCHANGED <<contador, emitidos>>

-----------------------------------------------------------------------------

Next ==
    \E p \in Peticiones :
        \/ Pedir(p) \/ Escanear(p) \/ Insertar(p) \/ Subir(p) \/ Incrementar(p)
        \/ Fallar(p) \/ Guardar(p)

Spec == Init /\ [][Next]_vars

-----------------------------------------------------------------------------

\* The save of a new quotation is never rejected by the unique index: the folio
\* it carries is nobody else's, stored or in flight.
SinColision ==
    \A p \in Peticiones : pet[p].fase = "guardar" =>
        /\ <<pet[p].s, pet[p].n>> \notin guardados
        /\ \A o \in Peticiones \ {p} :
             pet[o].fase = "guardar" /\ pet[o].s = pet[p].s => pet[o].n # pet[p].n

\* Once a request has made sure of its counter, the counter is there and covers
\* every stored quotation of the series, whoever created it.
ContadorListo ==
    \A p \in Peticiones : pet[p].fase = "incrementar" =>
        /\ contador[pet[p].s] # Nulo
        /\ \A f \in guardados : f[1] = pet[p].s => f[2] <= contador[pet[p].s]

\* The folios returned implement the numbering of AsignadorFolios.
Asignador == INSTANCE AsignadorFolios

CumpleAsignador == Asignador!Spec
=============================================================================
