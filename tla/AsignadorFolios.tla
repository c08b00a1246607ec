--------------------------- MODULE AsignadorFolios ---------------------------
(***************************************************************************)
(* What the numbering of quotations promises: within each series (a tenant *)
(* and a year) every folio given out is the next number after all those of *)
(* the series, so none is given twice and none is skipped.                 *)
(***************************************************************************)
EXTENDS Integers

CONSTANT Series

VARIABLE emitidos   \* the folios <<series, number>> given out so far

Init == emitidos \subseteq Series \X (Nat \ {0})

\* The first number of the series, or the one after a number of it.
Siguiente(s) == {1} \cup {f[2] + 1 : f \in {g \in emitidos : g[1] = s}}

Emitir(s) ==
    \E n \in Siguiente(s) :
        /\ \A f \in emitidos : f[1] = s => f[2] < n
        /\ emitidos' = emitidos \cup {<<s, n>>}

Next == \E s \in Series : Emitir(s)

Spec == Init /\ [][Next]_emitidos
=============================================================================
