---------------------------- MODULE MCContenido ----------------------------
EXTENDS Contenido, TLC

CONSTANTS s1, s2, q1, q2

MCAltas ==
    {[items |-> <<[s |-> s1, cantidad |-> 2, precio |-> 0],
                  [s |-> s2, cantidad |-> 1, precio |-> Omitido]>>,
      cliente |-> TRUE, plantilla |-> TRUE, flag |-> Omitido]}

Cuerpo(m, c, a, b) == [modo |-> m, cancelar |-> c, resol |-> (s1 :> a @@ s2 :> b)]

MCRepeticiones ==
    {Cuerpo("originales", TRUE, "conservar", "conservar"),
     Cuerpo("originales", FALSE, s2, "omitir"),
     Cuerpo("actualizados", TRUE, "conservar", s1),
     Cuerpo("actualizados", FALSE, "conservar", "conservar")}

Simetria == Permutations({q1, q2})
=============================================================================
