------------------------------ MODULE MCArchivos ------------------------------
(* Archivos for TLC: the requests are interchangeable. *)
EXTENDS Archivos, TLC

Simetria == Permutations(Peticiones)
=============================================================================
