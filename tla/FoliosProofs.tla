---------------------------- MODULE FoliosProofs ----------------------------
(***************************************************************************)
(* Proofs about the folios, for any number of series and requests and any  *)
(* quotations stored before the counters existed.                          *)
(***************************************************************************)
EXTENDS Folios, TLAPS

-----------------------------------------------------------------------------
(* The inductive invariant *)

\* The numbers of series s given out are at most n, and n is the last of them.
Hasta(s, n) ==
    /\ n = 0 \/ <<s, n>> \in emitidos
    /\ \A f \in emitidos : f[1] = s => f[2] <= n

\* A counter is exactly the last folio given out in its series.
ContadorExacto == \A s \in Series : contador[s] # Nulo => Hasta(s, contador[s])

\* While a series has no counter nobody gave out a folio in it.
SinContador ==
    \A s \in Series : contador[s] = Nulo =>
        \A f \in emitidos : f[1] = s => f \in guardados

\* What a request scanned: all there is until somebody creates the counter,
\* and never more than the counter afterwards.
MaximoLeido ==
    \A p \in Peticiones : pet[p].fase \in {"insertar", "subir"} =>
        LET r == pet[p] IN
        IF contador[r.s] = Nulo THEN r.fase = "insertar" /\ Hasta(r.s, r.maximo)
                                ELSE r.maximo <= contador[r.s]

\* A folio in flight was given out to its request alone and is not stored.
EnVuelo ==
    /\ guardados \subseteq emitidos
    /\ \A p \in Peticiones : pet[p].fase = "guardar" =>
         <<pet[p].s, pet[p].n>> \in emitidos /\ contador[pet[p].s] # Nulo
    /\ \A p \in Peticiones : pet[p].fase = "incrementar" => contador[pet[p].s] # Nulo
    /\ SinColision

IInv == TypeOK /\ ContadorExacto /\ SinContador /\ MaximoLeido /\ EnVuelo

-----------------------------------------------------------------------------

\* What a request holds in each phase.
LEMMA FasesTipo ==
    ASSUME NEW r \in Peticion
    PROVE  /\ r.fase # "libre" => r.s \in Series
           /\ r.fase \in {"insertar", "subir"} =>
                /\ r.maximo \in Nat
                /\ [r EXCEPT !.fase = "subir"] =
                     [fase |-> "subir", s |-> r.s, maximo |-> r.maximo]
           /\ r.fase = "guardar" => r.n \in Nat \ {0}
BY DEF Peticion, Libre

LEMMA LibreTipo == Libre \in Peticion /\ Libre.fase = "libre"
BY DEF Libre, Peticion

\* Overwriting the slot of one request.
LEMMA PasarTipo ==
    ASSUME TypeOK, NEW p \in Peticiones, NEW r \in Peticion, Pasar(p, r)
    PROVE  /\ pet' \in [Peticiones -> Peticion]
           /\ pet'[p] = r
           /\ \A o \in Peticiones \ {p} : pet'[o] = pet[o]
BY DEF TypeOK, Pasar

LEMMA InicioIInv == Init => IInv
<1> SUFFICES ASSUME Init PROVE IInv
  OBVIOUS
<1>1. TypeOK
  <2>1. guardados \subseteq Folio
    BY FoliosAssumption DEF Init, FoliosAssumption, Folio
  <2>2. QED
    BY <2>1, LibreTipo DEF Init, TypeOK
<1>2. \A p \in Peticiones : pet[p].fase = "libre"
  BY LibreTipo DEF Init
<1>3. \A s \in Series : contador[s] = Nulo
  BY DEF Init
<1>4. emitidos = guardados
  BY DEF Init
<1>5. QED
  BY <1>1, <1>2, <1>3, <1>4
     DEF IInv, ContadorExacto, SinContador, MaximoLeido, EnVuelo, SinColision

\* A request that moves on without touching counters, quotations or folios.
LEMMA PasoSinEscribir ==
    ASSUME IInv, NEW p \in Peticiones, NEW r \in Peticion, Pasar(p, r),
           r.fase \notin {"subir", "guardar"},
           r.fase = "insertar" => IF contador[r.s] = Nulo THEN Hasta(r.s, r.maximo)
                                  ELSE r.maximo <= contador[r.s],
           r.fase = "incrementar" => contador[r.s] # Nulo,
           UNCHANGED <<contador, guardados, emitidos>>
    PROVE  IInv'
<1>1. /\ pet' \in [Peticiones -> Peticion] /\ pet'[p] = r
      /\ \A o \in Peticiones \ {p} : pet'[o] = pet[o]
  BY PasarTipo DEF IInv
<1>2. TypeOK' /\ ContadorExacto' /\ SinContador'
  BY <1>1 DEF IInv, TypeOK, ContadorExacto, SinContador, Hasta
<1>3. MaximoLeido'
  <2> SUFFICES ASSUME NEW o \in Peticiones, pet'[o].fase \in {"insertar", "subir"}
               PROVE  IF contador[pet'[o].s] = Nulo
                        THEN pet'[o].fase = "insertar" /\ Hasta(pet'[o].s, pet'[o].maximo)
                        ELSE pet'[o].maximo <= contador[pet'[o].s]
    BY DEF MaximoLeido, Hasta
  <2>1. CASE o = p
    BY <2>1, <1>1
  <2>2. CASE o # p
    BY <2>2, <1>1 DEF IInv, MaximoLeido
  <2>3. QED
    BY <2>1, <2>2
<1>4. EnVuelo'
  BY <1>1 DEF IInv, EnVuelo, SinColision
<1>5. QED
  BY <1>2, <1>3, <1>4 DEF IInv

LEMMA PedirIInv ==
    ASSUME IInv, NEW p \in Peticiones, Pedir(p) PROVE IInv'
<1>1. PICK s \in Series :
        Pasar(p, [fase |-> IF contador[s] = Nulo THEN "escanear" ELSE "incrementar",
                  s |-> s])
  BY DEF Pedir
<1> DEFINE r == [fase |-> IF contador[s] = Nulo THEN "escanear" ELSE "incrementar",
                 s |-> s]
<1>2. /\ r \in Peticion /\ r.s = s /\ r.fase \in {"escanear", "incrementar"}
      /\ r.fase = "incrementar" => contador[s] # Nulo
  BY DEF Peticion
<1> HIDE DEF r
<1>3. QED
  BY <1>1, <1>2, PasoSinEscribir DEF Pedir, r

LEMMA EscanearIInv ==
    ASSUME IInv, NEW p \in Peticiones, Escanear(p) PROVE IInv'
<1> DEFINE s == pet[p].s
<1>1. s \in Series
  BY FasesTipo DEF Escanear, IInv, TypeOK
<1>2. PICK m \in {0} \cup {f[2] : f \in guardados} :
        EsMaximo(m, s) /\ Pasar(p, [fase |-> "insertar", s |-> s, maximo |-> m])
  BY DEF Escanear
<1>3. m \in Nat
  BY DEF IInv, TypeOK, Folio
<1> DEFINE r == [fase |-> "insertar", s |-> s, maximo |-> m]
<1>4. r \in Peticion /\ r.fase = "insertar" /\ r.s = s /\ r.maximo = m
  BY <1>1, <1>3 DEF Peticion
<1> HIDE DEF r, s
<1>5. CASE contador[s] = Nulo
  <2>1. Hasta(s, m)
    BY <1>1, <1>2, <1>5 DEF IInv, SinContador, EnVuelo, EsMaximo, Hasta
  <2>2. QED
    BY <1>2, <1>4, <1>5, <2>1, PasoSinEscribir DEF Escanear, r
<1>6. CASE contador[s] # Nulo
  <2>1. contador[s] \in Nat /\ Hasta(s, contador[s])
    BY <1>1, <1>6 DEF IInv, TypeOK, ContadorExacto
  <2>2. m = 0 \/ <<s, m>> \in emitidos
    BY <1>2 DEF EsMaximo, IInv, EnVuelo
  <2>3. <<s, m>>[1] = s /\ <<s, m>>[2] = m
    OBVIOUS
  <2>4. m <= contador[s]
    BY <1>3, <2>1, <2>2, <2>3 DEF Hasta
  <2>5. QED
    BY <1>2, <1>4, <1>6, <2>4, PasoSinEscribir DEF Escanear, r
<1>7. QED
  BY <1>5, <1>6

\* Creating the counter: its value is the last folio of the series.
LEMMA InsertarIInv ==
    ASSUME IInv, NEW p \in Peticiones, Insertar(p) PROVE IInv'
<1> DEFINE s == pet[p].s
           m == pet[p].maximo
           r == [fase |-> "subir", s |-> s, maximo |-> m]
           v == ValorInsertado(contador[s], m)
<1>1. s \in Series /\ m \in Nat
  BY FasesTipo DEF Insertar, IInv, TypeOK
<1>2. /\ contador' = [contador EXCEPT ![s] = v] /\ Pasar(p, r)
      /\ UNCHANGED <<guardados, emitidos>>
  BY FasesTipo DEF Insertar, IInv, TypeOK
<1>3. r \in Peticion /\ r.fase = "subir" /\ r.s = s /\ r.maximo = m
  BY <1>1 DEF Peticion
<1>4. v \in Nat /\ m <= v /\ (contador[s] # Nulo => v = contador[s])
                /\ (contador[s] = Nulo => v = m /\ Hasta(s, m))
  BY <1>1 DEF ValorInsertado, IInv, TypeOK, MaximoLeido, Insertar
<1> HIDE DEF r, v, s, m
<1>5. /\ contador' \in [Series -> Nat \cup {Nulo}] /\ contador'[s] = v
      /\ \A x \in Series \ {s} : contador'[x] = contador[x]
  BY <1>1, <1>2, <1>4 DEF IInv, TypeOK
<1>6. /\ pet' \in [Peticiones -> Peticion] /\ pet'[p] = r
      /\ \A o \in Peticiones \ {p} : pet'[o] = pet[o]
  BY <1>2, <1>3, PasarTipo DEF IInv
<1>7. TypeOK'
  BY <1>2, <1>5, <1>6 DEF IInv, TypeOK
<1>8. ContadorExacto'
  <2>1. Hasta(s, v)
    BY <1>1, <1>4 DEF IInv, ContadorExacto
  <2>2. \A x \in Series : contador'[x] # Nulo => Hasta(x, contador'[x])
    BY <1>5, <2>1 DEF IInv, ContadorExacto
  <2>3. QED
    BY <1>2, <2>2 DEF ContadorExacto, Hasta
<1>9. SinContador'
  BY <1>2, <1>4, <1>5, FoliosAssumption DEF IInv, SinContador, FoliosAssumption
<1>10. v # Nulo
  BY <1>4, FoliosAssumption DEF FoliosAssumption
<1>11. MaximoLeido'
  <2> SUFFICES ASSUME NEW o \in Peticiones, pet'[o].fase \in {"insertar", "subir"}
               PROVE  IF contador'[pet'[o].s] = Nulo
                        THEN pet'[o].fase = "insertar" /\ Hasta(pet'[o].s, pet'[o].maximo)
                        ELSE pet'[o].maximo <= contador'[pet'[o].s]
    BY <1>2 DEF MaximoLeido, Hasta
  <2>1. CASE o = p
    BY <2>1, <1>3, <1>4, <1>5, <1>6, <1>10
  <2>2. CASE o # p
    <3>1. pet'[o] = pet[o] /\ pet[o].s \in Series /\ pet[o].maximo \in Nat
      BY <2>2, <1>6, FasesTipo DEF IInv, TypeOK
    <3>2. CASE pet[o].s # s
      BY <3>1, <3>2, <1>5 DEF IInv, MaximoLeido
    <3>3. CASE pet[o].s = s /\ contador[s] # Nulo
      BY <3>1, <3>3, <1>4, <1>5 DEF IInv, MaximoLeido
    <3>4. CASE pet[o].s = s /\ contador[s] = Nulo
      <4>1. Hasta(s, pet[o].maximo) /\ Hasta(s, m)
        BY <3>1, <3>4, <1>4 DEF IInv, MaximoLeido
      <4>2. <<s, pet[o].maximo>>[1] = s /\ <<s, pet[o].maximo>>[2] = pet[o].maximo
        OBVIOUS
      <4>3. pet[o].maximo <= m
        BY <1>1, <3>1, <4>1, <4>2 DEF Hasta
      <4>4. QED
        BY <3>1, <3>4, <4>3, <1>4, <1>5, <1>10
    <3>5. QED
      BY <3>2, <3>3, <3>4
  <2>3. QED
    BY <2>1, <2>2
<1>12. EnVuelo'
  <2>1. \A x \in Series : contador[x] # Nulo => contador'[x] # Nulo
    BY <1>5, <1>10
  <2>2. \A o \in Peticiones : pet[o].fase \in {"guardar", "incrementar"} =>
          pet[o].s \in Series
    BY FasesTipo DEF IInv, TypeOK
  <2>3. QED
    BY <1>2, <1>3, <1>6, <2>1, <2>2 DEF IInv, EnVuelo, SinColision
<1>13. QED
  BY <1>7, <1>8, <1>9, <1>11, <1>12 DEF IInv

\* Raising the counter never changes it: the scan is at most its value.
LEMMA SubirIInv ==
    ASSUME IInv, NEW p \in Peticiones, Subir(p) PROVE IInv'
<1> DEFINE s == pet[p].s
           m == pet[p].maximo
           r == [fase |-> "incrementar", s |-> s]
<1>1. s \in Series /\ m \in Nat
  BY FasesTipo DEF Subir, IInv, TypeOK
<1>2. contador[s] # Nulo /\ contador[s] \in Nat /\ m <= contador[s]
  BY <1>1 DEF Subir, IInv, TypeOK, MaximoLeido
<1>3. contador' = [contador EXCEPT ![s] = IF contador[s] < m THEN m ELSE contador[s]]
  BY DEF Subir
<1>4. contador' = contador
  BY <1>1, <1>2, <1>3 DEF IInv, TypeOK
<1>5. r \in Peticion /\ r.fase = "incrementar" /\ r.s = s
  BY <1>1 DEF Peticion
<1>6. Pasar(p, r) /\ UNCHANGED <<guardados, emitidos>>
  BY DEF Subir
<1> HIDE DEF r, s, m
<1>7. QED
  BY <1>2, <1>4, <1>5, <1>6, PasoSinEscribir

\* What a successful increment does: the folio is the next of its series.
LEMMA IncrementoSigue ==
    ASSUME IInv, NEW p \in Peticiones, pet[p].fase = "incrementar",
           contador[pet[p].s] # Nulo
    PROVE  LET s == pet[p].s
               n == contador[s] + 1
           IN /\ s \in Series /\ contador[s] \in Nat /\ n \in Nat \ {0}
              /\ Devuelto(contador[s]) = n
              /\ \A f \in emitidos : f[1] = s => f[2] < n
              /\ contador[s] = 0 \/ <<s, contador[s]>> \in emitidos
              /\ <<s, n>> \notin emitidos
<1> DEFINE s == pet[p].s
           n == contador[s] + 1
<1>1. s \in Series
  BY FasesTipo DEF IInv, TypeOK
<1>2. contador[s] \in Nat /\ Hasta(s, contador[s])
  BY <1>1 DEF IInv, TypeOK, ContadorExacto
<1> HIDE DEF s
<1>3. \A f \in emitidos : f[1] = s => f[2] < n
  BY <1>2 DEF Hasta, IInv, TypeOK, Folio
<1>4. <<s, n>>[1] = s /\ <<s, n>>[2] = n
  OBVIOUS
<1>5. <<s, n>> \notin emitidos
  BY <1>2, <1>3, <1>4
<1>6. QED
  BY <1>1, <1>2, <1>3, <1>5 DEF Hasta, Devuelto, s

LEMMA IncrementarIInv ==
    ASSUME IInv, NEW p \in Peticiones, Incrementar(p) PROVE IInv'
<1> DEFINE s == pet[p].s
           c == contador[s]
           n == c + 1
           r == [fase |-> "guardar", s |-> s, n |-> n]
<1>0. pet[p].fase = "incrementar"
  BY DEF Incrementar
<1>1. CASE c # Nulo /\ contador' # contador
  <2>1. /\ s \in Series /\ c \in Nat /\ n \in Nat \ {0}
        /\ \A f \in emitidos : f[1] = s => f[2] < n
        /\ <<s, n>> \notin emitidos /\ Devuelto(c) = n
    BY <1>0, <1>1, IncrementoSigue
  <2>2. /\ contador' = [contador EXCEPT ![s] = n]
        /\ emitidos' = emitidos \cup {<<s, n>>}
        /\ Pasar(p, r) /\ guardados' = guardados
    BY <1>1, <2>1 DEF Incrementar
  <2>3. r \in Peticion /\ r.fase = "guardar" /\ r.s = s /\ r.n = n
    BY <2>1 DEF Peticion
  <2> HIDE DEF r, n, c, s
  <2>4. /\ contador' \in [Series -> Nat \cup {Nulo}] /\ contador'[s] = n
        /\ \A x \in Series \ {s} : contador'[x] = contador[x]
    BY <2>1, <2>2 DEF IInv, TypeOK
  <2>5. /\ pet' \in [Peticiones -> Peticion] /\ pet'[p] = r
        /\ \A o \in Peticiones \ {p} : pet'[o] = pet[o]
    BY <2>2, <2>3, PasarTipo DEF IInv
  <2>6. n # Nulo
    BY <2>1, FoliosAssumption DEF FoliosAssumption
  <2>7. <<s, n>>[1] = s /\ <<s, n>>[2] = n
    OBVIOUS
  <2>8. TypeOK'
    BY <2>1, <2>2, <2>4, <2>5 DEF IInv, TypeOK, Folio
  <2>9. ContadorExacto'
    <3> SUFFICES ASSUME NEW x \in Series, contador'[x] # Nulo
                 PROVE  /\ contador'[x] = 0 \/ <<x, contador'[x]>> \in emitidos'
                        /\ \A f \in emitidos' : f[1] = x => f[2] <= contador'[x]
      BY DEF ContadorExacto, Hasta
    <3>1. CASE x = s
      BY <3>1, <2>1, <2>2, <2>4, <2>7 DEF IInv, TypeOK, Folio
    <3>2. CASE x # s
      BY <3>2, <2>2, <2>4, <2>7 DEF IInv, ContadorExacto, Hasta
    <3>3. QED
      BY <3>1, <3>2
  <2>10. SinContador'
    BY <2>2, <2>4, <2>6, <2>7 DEF IInv, SinContador
  <2>11. MaximoLeido'
    <3> SUFFICES ASSUME NEW o \in Peticiones, pet'[o].fase \in {"insertar", "subir"}
                 PROVE  IF contador'[pet'[o].s] = Nulo
                          THEN /\ pet'[o].fase = "insertar"
                               /\ \/ pet'[o].maximo = 0
                                  \/ <<pet'[o].s, pet'[o].maximo>> \in emitidos'
                               /\ \A f \in emitidos' :
                                    f[1] = pet'[o].s => f[2] <= pet'[o].maximo
                          ELSE pet'[o].maximo <= contador'[pet'[o].s]
      BY DEF MaximoLeido, Hasta
    <3>1. o # p /\ pet'[o] = pet[o] /\ pet[o].s \in Series /\ pet[o].maximo \in Nat
      BY <2>3, <2>5, FasesTipo DEF IInv, TypeOK
    <3>2. CASE pet[o].s = s
      BY <3>1, <3>2, <1>1, <2>1, <2>4, <2>6 DEF IInv, MaximoLeido, n, c
    <3>3. CASE pet[o].s # s /\ contador[pet[o].s] # Nulo
      BY <3>1, <3>3, <2>4 DEF IInv, MaximoLeido
    <3>4. CASE pet[o].s # s /\ contador[pet[o].s] = Nulo
      <4>1. pet[o].fase = "insertar" /\ Hasta(pet[o].s, pet[o].maximo)
        BY <3>1, <3>4 DEF IInv, MaximoLeido
      <4>2. /\ pet[o].maximo = 0 \/ <<pet[o].s, pet[o].maximo>> \in emitidos'
            /\ \A f \in emitidos' : f[1] = pet[o].s => f[2] <= pet[o].maximo
        BY <3>4, <4>1, <2>2, <2>7 DEF Hasta
      <4>3. QED
        BY <3>1, <3>4, <4>1, <4>2, <2>4
    <3>5. QED
      BY <3>2, <3>3, <3>4
  <2>12. EnVuelo'
    <3>1. \A x \in Series : contador[x] # Nulo => contador'[x] # Nulo
      BY <2>4, <2>6
    <3>2. \A o \in Peticiones : pet[o].fase \in {"guardar", "incrementar"} =>
            pet[o].s \in Series
      BY FasesTipo DEF IInv, TypeOK
    <3>3. guardados' \subseteq emitidos' /\ emitidos \subseteq emitidos'
      BY <2>2 DEF IInv, EnVuelo
    <3>4. \A o \in Peticiones : pet'[o].fase \in {"guardar", "incrementar"} =>
            o = p \/ pet'[o] = pet[o]
      BY <2>5
    <3>5. \A o \in Peticiones : pet'[o].fase = "guardar" =>
            <<pet'[o].s, pet'[o].n>> \in emitidos' /\ contador'[pet'[o].s] # Nulo
      BY <2>2, <2>3, <2>4, <2>5, <2>6, <3>1, <3>2, <3>3 DEF IInv, EnVuelo
    <3>6. \A o \in Peticiones : pet'[o].fase = "incrementar" => contador'[pet'[o].s] # Nulo
      BY <2>3, <2>5, <3>1, <3>2 DEF IInv, EnVuelo
    <3>7. \A o \in Peticiones \ {p} : pet[o].fase = "guardar" =>
            <<pet[o].s, pet[o].n>> # <<s, n>>
      BY <2>1 DEF IInv, EnVuelo
    <3>8. SinColision'
      <4>1. <<s, n>> \notin guardados
        BY <2>1 DEF IInv, EnVuelo
      <4>2. QED
        BY <2>2, <2>3, <2>5, <3>7, <4>1 DEF IInv, EnVuelo, SinColision
    <3>9. QED
      BY <3>3, <3>5, <3>6, <3>8 DEF EnVuelo
  <2>13. QED
    BY <2>8, <2>9, <2>10, <2>11, <2>12 DEF IInv
<1>2. CASE c = Nulo \/ contador' = contador
  <2>1. CASE Pasar(p, Libre) /\ UNCHANGED <<contador, guardados, emitidos>>
    BY <2>1, LibreTipo, PasoSinEscribir
  <2>2. CASE c # Nulo /\ contador' = [contador EXCEPT ![s] = contador[s] + 1]
    <3>1. s \in Series /\ c \in Nat /\ contador'[s] = c + 1
      BY <1>0, <2>2, IncrementoSigue DEF IInv, TypeOK
    <3>2. QED
      BY <1>2, <2>2, <3>1
  <2>3. QED
    BY <2>1, <2>2 DEF Incrementar
<1>3. QED
  BY <1>1, <1>2

LEMMA GuardarIInv ==
    ASSUME IInv, NEW p \in Peticiones, Guardar(p) PROVE IInv'
<1> DEFINE s == pet[p].s
           n == pet[p].n
<1>1. /\ pet[p].fase = "guardar" /\ s \in Series /\ n \in Nat \ {0}
      /\ <<s, n>> \in emitidos /\ contador[s] # Nulo
  BY FasesTipo DEF Guardar, IInv, TypeOK, EnVuelo
<1>2. /\ guardados' = guardados \cup {<<s, n>>} /\ Pasar(p, Libre)
      /\ UNCHANGED <<contador, emitidos>>
  BY DEF Guardar
<1>3. /\ pet' \in [Peticiones -> Peticion] /\ pet'[p] = Libre
      /\ \A o \in Peticiones \ {p} : pet'[o] = pet[o]
  BY <1>2, LibreTipo, PasarTipo DEF IInv
<1>4. \A o \in Peticiones \ {p} : pet[o].fase = "guardar" =>
        <<pet[o].s, pet[o].n>> # <<s, n>>
  BY <1>1 DEF IInv, EnVuelo, SinColision
<1> HIDE DEF s, n
<1>5. TypeOK'
  BY <1>1, <1>2, <1>3 DEF IInv, TypeOK, Folio
<1>6. ContadorExacto' /\ SinContador'
  BY <1>2 DEF IInv, ContadorExacto, SinContador, Hasta
<1>7. MaximoLeido'
  BY <1>2, <1>3, LibreTipo DEF IInv, MaximoLeido, Hasta
<1>8. EnVuelo'
  BY <1>1, <1>2, <1>3, <1>4, LibreTipo DEF IInv, EnVuelo, SinColision
<1>9. QED
  BY <1>5, <1>6, <1>7, <1>8 DEF IInv

LEMMA PasoIInv == IInv /\ [Next]_vars => IInv'
<1> SUFFICES ASSUME IInv, [Next]_vars PROVE IInv'
  OBVIOUS
<1>1. CASE UNCHANGED vars
  BY <1>1 DEF vars, IInv, TypeOK, ContadorExacto, SinContador, MaximoLeido, EnVuelo,
              SinColision, Hasta
<1>2. ASSUME NEW p \in Peticiones, Fallar(p)
      PROVE  IInv'
  BY <1>2, LibreTipo, PasoSinEscribir DEF Fallar
<1>3. QED
  BY <1>1, <1>2, PedirIInv, EscanearIInv, InsertarIInv, SubirIInv, IncrementarIInv,
     GuardarIInv DEF Next

-----------------------------------------------------------------------------
(* The theorems *)

\* The inductive invariant holds however requests interleave.
THEOREM Invariante == Spec => []IInv
<1>1. QED
  BY InicioIInv, PasoIInv, PTL DEF Spec

\* Counters, stored folios and requests keep their types, for any number of them.
THEOREM TiposCorrectos == Spec => []TypeOK
<1>1. IInv => TypeOK
  BY DEF IInv
<1>2. QED
  BY Invariante, <1>1, PTL

\* No save of a quotation is rejected for its folio: no two requests, and no
\* request and a stored quotation, have the same one.
THEOREM FoliosSinColision == Spec => []SinColision
<1>1. IInv => SinColision
  BY DEF IInv, EnVuelo
<1>2. QED
  BY Invariante, <1>1, PTL

\* A request that passed ensureCounter increments a counter that covers every
\* quotation of its series.
THEOREM ContadorPreparado == Spec => []ContadorListo
<1>1. ASSUME IInv, NEW p \in Peticiones, pet[p].fase = "incrementar"
      PROVE  /\ contador[pet[p].s] # Nulo
             /\ \A f \in guardados : f[1] = pet[p].s => f[2] <= contador[pet[p].s]
  <2>1. contador[pet[p].s] # Nulo /\ pet[p].s \in Series
    BY <1>1, FasesTipo DEF IInv, TypeOK, EnVuelo
  <2>2. QED
    BY <1>1, <2>1 DEF IInv, ContadorExacto, Hasta, EnVuelo
<1>2. IInv => ContadorListo
  BY <1>1 DEF ContadorListo
<1>3. QED
  BY Invariante, <1>2, PTL

\* Every step gives out no folio or exactly the next one of its series.
LEMMA PasoAsignador == IInv /\ [Next]_vars => [Asignador!Next]_emitidos
<1> SUFFICES ASSUME IInv, [Next]_vars, emitidos' # emitidos PROVE Asignador!Next
  OBVIOUS
<1>1. PICK p \in Peticiones : Incrementar(p)
  BY DEF Next, vars, Pedir, Escanear, Insertar, Subir, Fallar, Guardar
<1> DEFINE s == pet[p].s
           n == contador[s] + 1
<1>2. /\ contador[s] # Nulo /\ pet[p].fase = "incrementar"
      /\ emitidos' = emitidos \cup {<<s, Devuelto(contador[s])>>}
  BY <1>1 DEF Incrementar
<1>3. /\ s \in Series /\ contador[s] \in Nat /\ Devuelto(contador[s]) = n
      /\ \A f \in emitidos : f[1] = s => f[2] < n
      /\ contador[s] = 0 \/ <<s, contador[s]>> \in emitidos
  BY <1>2, IncrementoSigue
<1>4. n \in Asignador!Siguiente(s)
  <2>1. CASE contador[s] = 0
    BY <2>1 DEF Asignador!Siguiente
  <2>2. CASE <<s, contador[s]>> \in emitidos
    <3>1. <<s, contador[s]>>[1] = s /\ <<s, contador[s]>>[2] = contador[s]
      OBVIOUS
    <3>2. <<s, contador[s]>> \in {g \in emitidos : g[1] = s}
      BY <2>2, <3>1
    <3>3. n = <<s, contador[s]>>[2] + 1
      BY <3>1
    <3>4. QED
      BY <3>2, <3>3 DEF Asignador!Siguiente
  <2>3. QED
    BY <1>3, <2>1, <2>2
<1> HIDE DEF n, s
<1>5. Asignador!Emitir(s)
  BY <1>2, <1>3, <1>4 DEF Asignador!Emitir
<1>6. QED
  BY <1>3, <1>5 DEF Asignador!Next

\* nextFolio implements the numbering of AsignadorFolios: each folio of a series
\* is given out once, in order and without gaps.
THEOREM FoliosCumplen == Spec => CumpleAsignador
<1>1. Init => Asignador!Init
  <2> SUFFICES ASSUME Init PROVE Asignador!Init
    OBVIOUS
  <2>1. TypeOK
    BY InicioIInv DEF IInv
  <2>2. QED
    BY <2>1 DEF TypeOK, Folio, Asignador!Init
<1>2. QED
  BY <1>1, Invariante, PasoAsignador, PTL DEF Spec, CumpleAsignador, Asignador!Spec
=============================================================================
