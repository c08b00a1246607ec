--------------------------- MODULE ConsultasProofs ---------------------------
(***************************************************************************)
(* Proofs about the readings of all the quotations of a tenant, for any    *)
(* number of quotations, lines, clients, filters, writes and page size:    *)
(* the figures of several queries, the summaries and the walk of a list.   *)
(***************************************************************************)
EXTENDS Consultas, FiniteSetTheorems, WellFoundedInduction, TLAPS

-----------------------------------------------------------------------------
(* Induction, as a fact about the set of the values that have the property *)

\* Induction on the natural numbers, for a set.
LEMMA Induccion ==
    ASSUME NEW T, 0 \in T, \A n \in Nat : n \in T => n + 1 \in T
    PROVE  Nat \subseteq T
<1> DEFINE R == OpToRel(<, Nat)
           U == Nat \ T
<1>1. IsWellFoundedOn(R, Nat)
  BY NatLessThanWellFounded
<1>2. \A x, y \in Nat : x < y => <<x, y>> \in R
  BY DEF OpToRel
<1> HIDE DEF R
<1>3. SUFFICES ASSUME U # {} PROVE FALSE
  OBVIOUS
<1>4. PICK x \in U : \A y \in U : ~(<<y, x>> \in R)
  BY <1>1, <1>3, WFMin
<1>5. x \in Nat /\ x # 0 /\ x \notin T
  OBVIOUS
<1>6. x - 1 \in Nat /\ x - 1 < x /\ (x - 1) + 1 = x
  BY <1>5
<1>7. x - 1 \in U
  BY <1>5, <1>6
<1>8. QED
  BY <1>2, <1>4, <1>5, <1>6, <1>7

\* Induction on the subsets of a finite set, element by element, for a set of them.
LEMMA InduccionFinita ==
    ASSUME NEW S, IsFiniteSet(S), NEW T, {} \in T,
           \A U \in SUBSET S : \A x \in S \ U : U \in T => U \cup {x} \in T
    PROVE  SUBSET S \subseteq T
<1> DEFINE N == {n \in Nat : \A U \in SUBSET S : Cardinality(U) = n => U \in T}
<1>1. \A U \in SUBSET S : IsFiniteSet(U) /\ Cardinality(U) \in Nat
  BY FS_Subset, FS_CardinalityType
<1>2. 0 \in N
  <2>1. ASSUME NEW U \in SUBSET S, Cardinality(U) = 0 PROVE U = {}
    <3>1. IsFiniteSet(U)
      BY <1>1
    <3>2. QED
      BY <2>1, <3>1, FS_EmptySet
  <2>2. QED
    BY <2>1
<1>3. ASSUME NEW n \in Nat, n \in N PROVE n + 1 \in N
  <2>1. SUFFICES ASSUME NEW U \in SUBSET S, Cardinality(U) = n + 1 PROVE U \in T
    OBVIOUS
  <2>2. U # {}
    <3>1. Cardinality({}) = 0
      BY FS_EmptySet
    <3>2. QED
      BY <1>3, <2>1, <3>1
  <2>3. PICK x \in U : TRUE
    BY <2>2
  <2>4. Cardinality(U \ {x}) = n
    <3>1. IsFiniteSet(U)
      BY <1>1
    <3>2. Cardinality(U \ {x}) = Cardinality(U) - 1
      BY <3>1, FS_RemoveElement
    <3>3. QED
      BY <2>1, <3>2
  <2>5. U \ {x} \in SUBSET S /\ x \in S \ (U \ {x}) /\ (U \ {x}) \cup {x} = U
    BY <2>3
  <2>6. U \ {x} \in T
    BY <1>3, <2>4, <2>5
  <2>7. QED
    BY <2>5, <2>6
<1> HIDE DEF N
<1>4. Nat \subseteq N
  BY <1>2, <1>3, Induccion
<1>5. SUFFICES ASSUME NEW U \in SUBSET S PROVE U \in T
  OBVIOUS
<1>6. Cardinality(U) \in N
  BY <1>1, <1>4
<1>7. QED
  BY <1>6 DEF N

-----------------------------------------------------------------------------
(* Sums of a function over a finite set *)

\* The element that the recursion takes first.
Elegido(t) == CHOOSE x \in t : TRUE

\* The sums over the subsets of S, by the recursion that SumFunctionOnSet is made of.
Recorre(f, S, h) ==
    h = [t \in SUBSET S |->
           IF t = {} THEN 0
           ELSE f[Elegido(t)] + h[t \ {Elegido(t)}]]

LEMMA RecorreEn ==
    ASSUME NEW f, NEW S, NEW h, Recorre(f, S, h), NEW t \in SUBSET S
    PROVE  h[t] = IF t = {} THEN 0
                  ELSE f[Elegido(t)] + h[t \ {Elegido(t)}]
<1>1. PICK g : g = [u \in SUBSET S |->
           IF u = {} THEN 0
           ELSE f[Elegido(u)] + h[u \ {Elegido(u)}]]
  OBVIOUS
<1>2. g = h
  BY <1>1 DEF Recorre
<1>3. g[t] = IF t = {} THEN 0
             ELSE f[Elegido(t)] + h[t \ {Elegido(t)}]
  BY <1>1
<1>4. QED
  BY <1>2, <1>3

LEMMA HayRecorrido ==
    ASSUME NEW f, NEW S, IsFiniteSet(S)
    PROVE  \E h : Recorre(f, S, h)
<1> DEFINE G(n) == {t \in SUBSET S : Cardinality(t) <= n}
           c(t) == Elegido(t)
           Paso(h, t) == IF t = {} THEN 0 ELSE f[c(t)] + h[t \ {c(t)}]
           N == {n \in Nat : \E h : \A t \in G(n) : h[t] = Paso(h, t)}
<1>1. \A t \in SUBSET S : IsFiniteSet(t) /\ Cardinality(t) \in Nat
  BY FS_Subset, FS_CardinalityType
<1>2. 0 \in N
  <2> DEFINE h == [t \in SUBSET S |-> 0]
  <2>1. \A t \in G(0) : t = {}
    BY <1>1, FS_EmptySet
  <2>2. \A t \in G(0) : h[t] = Paso(h, t)
    BY <2>1
  <2>3. QED
    BY <2>2
<1>3. ASSUME NEW n \in Nat, n \in N PROVE n + 1 \in N
  <2>1. PICK h : \A t \in G(n) : h[t] = Paso(h, t)
    BY <1>3
  <2> DEFINE g == [t \in G(n + 1) |-> Paso(h, t)]
  <2>2. \A t \in G(n) : t \in G(n + 1)
    BY <1>1
  <2>3. \A t \in G(n) : g[t] = h[t]
    BY <2>1, <2>2
  <2>4. ASSUME NEW t \in G(n + 1), t # {} PROVE t \ {c(t)} \in G(n)
    <3>1. PICK y : y = c(t)
      OBVIOUS
    <3>2. y \in t
      BY <2>4, <3>1 DEF Elegido
    <3>3. t \in SUBSET S /\ Cardinality(t) <= n + 1
      OBVIOUS
    <3>4. Cardinality(t \ {y}) = Cardinality(t) - 1 /\ t \ {y} \in SUBSET S
      BY <1>1, <3>2, <3>3, FS_RemoveElement
    <3>5. Cardinality(t \ {y}) <= n
      BY <1>1, <3>3, <3>4
    <3>6. QED
      BY <3>1, <3>4, <3>5
  <2>5. ASSUME NEW t \in G(n + 1) PROVE g[t] = Paso(g, t)
    <3>1. g[t] = Paso(h, t)
      OBVIOUS
    <3>2. t # {} => g[t \ {c(t)}] = h[t \ {c(t)}]
      BY <2>3, <2>4
    <3> HIDE DEF g, c, G
    <3>3. QED
      BY <3>1, <3>2
  <2> HIDE DEF g, Paso, G
  <2>6. QED
    BY <2>5
<1> HIDE DEF N
<1>4. Cardinality(S) \in N
  BY <1>1, <1>2, <1>3, Induccion
<1>5. PICK h : \A t \in G(Cardinality(S)) : h[t] = Paso(h, t)
  BY <1>4 DEF N
<1>6. SUBSET S = G(Cardinality(S))
  BY <1>1, FS_Subset
<1> DEFINE k == [t \in SUBSET S |-> h[t]]
<1>7. ASSUME NEW t \in SUBSET S PROVE k[t] = Paso(k, t)
  <2>1. t \ {c(t)} \in SUBSET S
    OBVIOUS
  <2>2. k[t] = h[t] /\ k[t \ {c(t)}] = h[t \ {c(t)}]
    BY <2>1
  <2>3. h[t] = Paso(h, t)
    BY <1>5, <1>6
  <2> HIDE DEF k, c
  <2>4. QED
    BY <2>2, <2>3
<1>8. k = [t \in SUBSET S |-> k[t]]
  OBVIOUS
<1>9. k = [t \in SUBSET S |-> Paso(k, t)]
  <2> HIDE DEF Paso, G
  <2>1. [t \in SUBSET S |-> k[t]] = [t \in SUBSET S |-> Paso(k, t)]
    <3> HIDE DEF k
    <3>1. QED
      BY <1>7
  <2>2. QED
    BY <1>8, <2>1
<1> HIDE DEF k
<1>10. QED
  BY <1>9 DEF Recorre

\* Any two ways to write the sums down agree.
LEMMA RecorridosIguales ==
    ASSUME NEW f, NEW S, IsFiniteSet(S), NEW R \in SUBSET S,
           NEW h, Recorre(f, S, h), NEW g, Recorre(f, R, g)
    PROVE  \A t \in SUBSET R : g[t] = h[t]
<1> DEFINE N == {n \in Nat : \A t \in SUBSET R : Cardinality(t) = n => g[t] = h[t]}
<1>1. \A t \in SUBSET R : t \in SUBSET S /\ IsFiniteSet(t) /\ Cardinality(t) \in Nat
  BY FS_Subset, FS_CardinalityType
<1>2. 0 \in N
  <2>1. ASSUME NEW t \in SUBSET R, Cardinality(t) = 0 PROVE t = {}
    <3>1. IsFiniteSet(t)
      BY <1>1
    <3>2. QED
      BY <2>1, <3>1, FS_EmptySet
  <2>2. g[{}] = 0 /\ h[{}] = 0
    BY RecorreEn
  <2>3. QED
    BY <2>1, <2>2
<1>3. ASSUME NEW n \in Nat, n \in N PROVE n + 1 \in N
  <2>1. SUFFICES ASSUME NEW t \in SUBSET R, Cardinality(t) = n + 1 PROVE g[t] = h[t]
    OBVIOUS
  <2>2. t # {}
    <3>1. Cardinality({}) = 0
      BY FS_EmptySet
    <3>2. QED
      BY <1>3, <2>1, <3>1
  <2>3. PICK y : y = Elegido(t)
    OBVIOUS
  <2>4. y \in t
    BY <2>2, <2>3 DEF Elegido
  <2>5. Cardinality(t \ {y}) = n /\ t \ {y} \in SUBSET R
    <3>1. IsFiniteSet(t)
      BY <1>1
    <3>2. Cardinality(t \ {y}) = Cardinality(t) - 1
      BY <2>4, <3>1, FS_RemoveElement
    <3>3. QED
      BY <2>1, <3>2
  <2>6. g[t \ {y}] = h[t \ {y}]
    BY <1>3, <2>5
  <2>7. g[t] = f[y] + g[t \ {y}]
    BY <2>2, <2>3, RecorreEn
  <2>8. h[t] = f[y] + h[t \ {y}]
    <3>1. t \in SUBSET S
      BY <1>1
    <3>2. h[t] = IF t = {} THEN 0
                 ELSE f[Elegido(t)] + h[t \ {Elegido(t)}]
      BY <3>1, RecorreEn
    <3>3. QED
      BY <2>2, <2>3, <3>2
  <2>9. QED
    BY <2>6, <2>7, <2>8
<1> HIDE DEF N
<1>4. Nat \subseteq N
  BY <1>2, <1>3, Induccion
<1>5. SUFFICES ASSUME NEW t \in SUBSET R PROVE g[t] = h[t]
  OBVIOUS
<1>6. Cardinality(t) \in N
  BY <1>1, <1>4
<1>7. QED
  BY <1>6 DEF N

\* Sum is what the library computes.
LEMMA SumaRecorrida ==
    ASSUME NEW f, NEW S, IsFiniteSet(S), NEW h, Recorre(f, S, h), NEW t \in SUBSET S
    PROVE  SumFunctionOnSet(f, t) = h[t]
<1> DEFINE Es(g) == g = [s \in SUBSET t |->
                           IF s = {} THEN 0
                           ELSE f[CHOOSE x \in s : TRUE] + g[s \ {CHOOSE x \in s : TRUE}]]
<1>1. SumFunctionOnSet(f, t) = (CHOOSE g : Es(g))[t]
  BY Zenon DEF SumFunctionOnSet, FoldFunctionOnSet, MapThenFoldSet
<1>2. \A g : Es(g) <=> Recorre(f, t, g)
  BY DEF Recorre, Elegido
<1>3. IsFiniteSet(t)
  BY FS_Subset
<1>4. \E g : Es(g)
  <2>1. PICK g : Recorre(f, t, g)
    BY <1>3, HayRecorrido
  <2>2. Es(g)
    BY <1>2, <2>1
  <2> HIDE DEF Es
  <2>3. QED
    BY <2>2
<1>5. PICK g : Es(g) /\ SumFunctionOnSet(f, t) = g[t]
  BY <1>1, <1>4
<1>6. Recorre(f, t, g)
  BY <1>2, <1>5
<1>7. QED
  BY <1>5, <1>6, RecorridosIguales

LEMMA SumaVacia == ASSUME NEW f PROVE SumFunctionOnSet(f, {}) = 0
<1>1. IsFiniteSet({}) /\ {} \in SUBSET {}
  BY FS_EmptySet
<1>2. PICK h : Recorre(f, {}, h)
  BY <1>1, HayRecorrido
<1>3. SumFunctionOnSet(f, {}) = h[{}]
  BY <1>1, <1>2, SumaRecorrida
<1>4. h[{}] = 0
  BY <1>1, <1>2, RecorreEn
<1>5. QED
  BY <1>3, <1>4

\* The last element added is the one that CHOOSE takes first.
LEMMA SumaElegida ==
    ASSUME NEW f, NEW S, IsFiniteSet(S), S # {}
    PROVE  \E y \in S : SumFunctionOnSet(f, S) = f[y] + SumFunctionOnSet(f, S \ {y})
<1>1. PICK y : y = Elegido(S)
  OBVIOUS
<1>2. y \in S
  BY <1>1 DEF Elegido
<1>3. PICK h : Recorre(f, S, h)
  BY HayRecorrido
<1>4. SumFunctionOnSet(f, S) = h[S] /\ SumFunctionOnSet(f, S \ {y}) = h[S \ {y}]
  BY <1>3, SumaRecorrida
<1>5. h[S] = IF S = {} THEN 0 ELSE f[Elegido(S)] + h[S \ {Elegido(S)}]
  BY <1>3, RecorreEn
<1>6. h[S] = f[y] + h[S \ {y}]
  BY <1>1, <1>5
<1>7. QED
  BY <1>2, <1>4, <1>6

\* Any element may be the last.
LEMMA SumaQuitando ==
    ASSUME NEW f, NEW S, IsFiniteSet(S), \A x \in S : f[x] \in Nat
    PROVE  /\ SumFunctionOnSet(f, S) \in Nat
           /\ \A x \in S : SumFunctionOnSet(f, S) = f[x] + SumFunctionOnSet(f, S \ {x})
<1> DEFINE T == {U \in SUBSET S :
                   /\ SumFunctionOnSet(f, U) \in Nat
                   /\ \A x \in U : SumFunctionOnSet(f, U) = f[x] + SumFunctionOnSet(f, U \ {x})}
           N == {n \in Nat : \A U \in SUBSET S : Cardinality(U) <= n => U \in T}
<1>1. \A U \in SUBSET S : IsFiniteSet(U) /\ Cardinality(U) \in Nat
  BY FS_Subset, FS_CardinalityType
<1>2. 0 \in N
  <2>1. ASSUME NEW U \in SUBSET S, Cardinality(U) <= 0 PROVE U = {}
    <3>1. IsFiniteSet(U) /\ Cardinality(U) = 0
      BY <1>1, <2>1
    <3>2. QED
      BY <2>1, <3>1, FS_EmptySet
  <2>2. {} \in T
    BY SumaVacia
  <2> HIDE DEF T
  <2>3. QED
    BY <2>1, <2>2
<1>3. ASSUME NEW n \in Nat, n \in N PROVE n + 1 \in N
  <2>1. SUFFICES ASSUME NEW U \in SUBSET S, Cardinality(U) = n + 1 PROVE U \in T
    <3>1. \A U \in SUBSET S : Cardinality(U) <= n + 1 => Cardinality(U) <= n \/ Cardinality(U) = n + 1
      BY <1>1
    <3> HIDE DEF T
    <3>2. QED
      BY <1>3, <3>1
  <2>2. IsFiniteSet(U) /\ U # {}
    <3>1. Cardinality({}) = 0
      BY FS_EmptySet
    <3>2. QED
      BY <1>1, <1>3, <2>1, <3>1
  <2>3. ASSUME NEW x \in U PROVE U \ {x} \in T
    <3>1. Cardinality(U \ {x}) = Cardinality(U) - 1
      BY <2>2, FS_RemoveElement
    <3>2. Cardinality(U \ {x}) <= n /\ U \ {x} \in SUBSET S
      BY <2>1, <3>1
    <3> HIDE DEF T
    <3>3. QED
      BY <1>3, <3>2
  <2>4. PICK y \in U : SumFunctionOnSet(f, U) = f[y] + SumFunctionOnSet(f, U \ {y})
    BY <2>2, SumaElegida
  <2>5. SumFunctionOnSet(f, U \ {y}) \in Nat
    BY <2>3
  <2>6. SumFunctionOnSet(f, U) \in Nat
    BY <2>4, <2>5
  <2>7. ASSUME NEW x \in U, x # y
        PROVE  SumFunctionOnSet(f, U) = f[x] + SumFunctionOnSet(f, U \ {x})
    <3>1. x \in U \ {y} /\ y \in U \ {x} /\ (U \ {y}) \ {x} = (U \ {x}) \ {y}
      BY <2>7
    <3>2. SumFunctionOnSet(f, U \ {y}) = f[x] + SumFunctionOnSet(f, (U \ {y}) \ {x})
      BY <2>3, <3>1
    <3>3. SumFunctionOnSet(f, U \ {x}) = f[y] + SumFunctionOnSet(f, (U \ {x}) \ {y})
      BY <2>3, <3>1
    <3>4. SumFunctionOnSet(f, (U \ {x}) \ {y}) \in Nat
      <4>1. PICK W : W = (U \ {x}) \ {y}
        OBVIOUS
      <4>2. W \in SUBSET S /\ W \in SUBSET (U \ {x})
        BY <4>1
      <4>3. IsFiniteSet(U \ {x}) /\ Cardinality(U \ {x}) = Cardinality(U) - 1
        BY <2>2, FS_RemoveElement
      <4>4. Cardinality(W) <= Cardinality(U \ {x})
        BY <4>2, <4>3, FS_Subset
      <4>5. Cardinality(W) <= n
        BY <1>1, <2>1, <4>2, <4>3, <4>4
      <4>6. W \in T
        BY <1>3, <4>2, <4>5
      <4>7. QED
        BY <4>1, <4>6
    <3>5. PICK s : s = SumFunctionOnSet(f, (U \ {x}) \ {y})
      OBVIOUS
    <3>6. f[x] \in Nat /\ f[y] \in Nat /\ s \in Nat
      BY <3>4, <3>5
    <3>7. /\ SumFunctionOnSet(f, U \ {y}) = f[x] + s
          /\ SumFunctionOnSet(f, U \ {x}) = f[y] + s
      BY <3>1, <3>2, <3>3, <3>5
    <3>8. QED
      BY <2>4, <3>6, <3>7
  <2>8. QED
    BY <2>4, <2>6, <2>7
<1> HIDE DEF N
<1>4. Cardinality(S) \in N /\ Cardinality(S) <= Cardinality(S)
  BY <1>1, <1>2, <1>3, Induccion
<1>5. S \in T
  BY <1>4 DEF N
<1>6. QED
  BY <1>5

\* Only the values on the set matter.
LEMMA SumaIgual ==
    ASSUME NEW f, NEW g, NEW S, IsFiniteSet(S),
           \A x \in S : f[x] \in Nat /\ g[x] = f[x]
    PROVE  SumFunctionOnSet(g, S) = SumFunctionOnSet(f, S)
<1> DEFINE T == {U \in SUBSET S : SumFunctionOnSet(g, U) = SumFunctionOnSet(f, U)}
<1>1. {} \in T
  BY SumaVacia
<1>2. ASSUME NEW U \in SUBSET S, NEW x \in S \ U, U \in T PROVE U \cup {x} \in T
  <2>1. PICK V : V = U \cup {x}
    OBVIOUS
  <2>2. V \in SUBSET S /\ x \in V /\ V \ {x} = U /\ IsFiniteSet(V)
    BY <2>1, FS_Subset
  <2>3. SumFunctionOnSet(f, V) = f[x] + SumFunctionOnSet(f, U)
    BY <2>2, SumaQuitando
  <2>4. SumFunctionOnSet(g, V) = g[x] + SumFunctionOnSet(g, U)
    BY <2>2, SumaQuitando
  <2>5. SumFunctionOnSet(g, U) = SumFunctionOnSet(f, U)
    BY <1>2
  <2>6. QED
    BY <2>1, <2>2, <2>3, <2>4, <2>5
<1> HIDE DEF T
<1>3. S \in T
  BY <1>1, <1>2, InduccionFinita
<1>4. QED
  BY <1>3 DEF T

LEMMA SumaCeros ==
    ASSUME NEW f, NEW S, IsFiniteSet(S), \A x \in S : f[x] = 0
    PROVE  SumFunctionOnSet(f, S) = 0
<1> DEFINE T == {U \in SUBSET S : SumFunctionOnSet(f, U) = 0}
<1>1. {} \in T
  BY SumaVacia
<1>2. ASSUME NEW U \in SUBSET S, NEW x \in S \ U, U \in T PROVE U \cup {x} \in T
  <2>1. PICK V : V = U \cup {x}
    OBVIOUS
  <2>2. V \in SUBSET S /\ x \in V /\ V \ {x} = U /\ IsFiniteSet(V)
    BY <2>1, FS_Subset
  <2>3. SumFunctionOnSet(f, V) = f[x] + SumFunctionOnSet(f, U)
    BY <2>2, SumaQuitando
  <2>4. QED
    BY <1>2, <2>1, <2>2, <2>3
<1> HIDE DEF T
<1>3. S \in T
  BY <1>1, <1>2, InduccionFinita
<1>4. QED
  BY <1>3 DEF T

\* A part of a sum is not above it.
LEMMA SumaCrece ==
    ASSUME NEW f, NEW S, IsFiniteSet(S), \A x \in S : f[x] \in Nat, NEW R \in SUBSET S
    PROVE  SumFunctionOnSet(f, R) <= SumFunctionOnSet(f, S)
<1> DEFINE T == {U \in SUBSET S : SumFunctionOnSet(f, U \cap R) <= SumFunctionOnSet(f, U)}
<1>1. {} \in T
  <2>1. {} \cap R = {}
    OBVIOUS
  <2>2. QED
    BY <2>1, SumaVacia
<1>2. ASSUME NEW U \in SUBSET S, NEW x \in S \ U, U \in T PROVE U \cup {x} \in T
  <2>1. PICK V : V = U \cup {x}
    OBVIOUS
  <2>2. V \in SUBSET S /\ x \in V /\ V \ {x} = U /\ IsFiniteSet(V) /\ V \cap R \in SUBSET S
    BY <2>1, FS_Subset
  <2>3. SumFunctionOnSet(f, V) = f[x] + SumFunctionOnSet(f, U) /\ f[x] \in Nat
    BY <2>2, SumaQuitando
  <2>4. IsFiniteSet(U \cap R) /\ IsFiniteSet(V \cap R) /\ IsFiniteSet(U)
    BY <2>2, FS_Subset
  <2>5. SumFunctionOnSet(f, U \cap R) \in Nat /\ SumFunctionOnSet(f, U) \in Nat
    BY <2>4, SumaQuitando
  <2>6. SumFunctionOnSet(f, U \cap R) <= SumFunctionOnSet(f, U)
    BY <1>2
  <2>7. CASE x \in R
    <3>1. x \in V \cap R /\ (V \cap R) \ {x} = U \cap R
      BY <2>1, <2>7
    <3>2. \A y \in V \cap R : f[y] \in Nat
      BY <2>2
    <3>3. SumFunctionOnSet(f, V \cap R) = f[x] + SumFunctionOnSet(f, U \cap R)
      BY <2>4, <3>1, <3>2, SumaQuitando
    <3>4. SumFunctionOnSet(f, V \cap R) <= SumFunctionOnSet(f, V)
      BY <2>3, <2>5, <2>6, <3>3
    <3>5. QED
      BY <2>1, <2>2, <3>4
  <2>8. CASE x \notin R
    <3>1. V \cap R = U \cap R
      BY <2>1, <2>8
    <3>2. SumFunctionOnSet(f, V \cap R) = SumFunctionOnSet(f, U \cap R)
      BY <3>1
    <3>3. SumFunctionOnSet(f, V \cap R) <= SumFunctionOnSet(f, V)
      BY <2>3, <2>5, <2>6, <3>2
    <3>4. QED
      BY <2>1, <2>2, <3>3
  <2>9. QED
    BY <2>7, <2>8
<1> HIDE DEF T
<1>3. S \in T
  BY <1>1, <1>2, InduccionFinita
<1>4. S \cap R = R
  OBVIOUS
<1>5. QED
  BY <1>3, <1>4 DEF T

\* The elements of U with the key b.
Clase(U, k, b) == {x \in U : k[x] = b}

\* A sum may be added class by class.
LEMMA SumaPorClases ==
    ASSUME NEW f, NEW S, IsFiniteSet(S), \A x \in S : f[x] \in Nat,
           NEW B, IsFiniteSet(B), NEW k, \A x \in S : k[x] \in B
    PROVE  SumFunctionOnSet([b \in B |-> SumFunctionOnSet(f, Clase(S, k, b))], B)
             = SumFunctionOnSet(f, S)
<1> DEFINE P(U) == [b \in B |-> SumFunctionOnSet(f, Clase(U, k, b))]
           T == {U \in SUBSET S : SumFunctionOnSet(P(U), B) = SumFunctionOnSet(f, U)}
<1>1. {} \in T
  <2>1. \A b \in B : Clase({}, k, b) = {}
    BY DEF Clase
  <2>2. \A b \in B : P({})[b] = 0
    BY <2>1, SumaVacia
  <2> HIDE DEF P
  <2>3. SumFunctionOnSet(P({}), B) = 0
    BY <2>2, SumaCeros
  <2>4. QED
    BY <2>3, SumaVacia
<1>2. ASSUME NEW U \in SUBSET S, NEW b \in B
      PROVE  /\ IsFiniteSet(Clase(U, k, b)) /\ Clase(U, k, b) \in SUBSET S
             /\ SumFunctionOnSet(f, Clase(U, k, b)) \in Nat
  <2>1. Clase(U, k, b) \in SUBSET S
    BY DEF Clase
  <2>2. IsFiniteSet(Clase(U, k, b))
    BY <2>1, FS_Subset
  <2>3. QED
    BY <2>1, <2>2, SumaQuitando
<1>3. ASSUME NEW U \in SUBSET S, NEW x \in S \ U, U \in T PROVE U \cup {x} \in T
  <2>1. PICK V : V = U \cup {x}
    OBVIOUS
  <2>2. V \in SUBSET S /\ x \in V /\ V \ {x} = U /\ IsFiniteSet(V) /\ IsFiniteSet(U)
    BY <2>1, FS_Subset
  <2>3. SumFunctionOnSet(f, V) = f[x] + SumFunctionOnSet(f, U) /\ f[x] \in Nat
    BY <2>2, SumaQuitando
  <2>4. PICK c \in B : c = k[x]
    OBVIOUS
  <2>5. \A b \in B \ {c} : Clase(V, k, b) = Clase(U, k, b)
    BY <2>1, <2>4 DEF Clase
  <2>6. x \in Clase(V, k, c) /\ Clase(V, k, c) \ {x} = Clase(U, k, c)
    BY <2>1, <2>4 DEF Clase
  <2>7. SumFunctionOnSet(f, Clase(V, k, c)) = f[x] + SumFunctionOnSet(f, Clase(U, k, c))
    <3>1. IsFiniteSet(Clase(V, k, c)) /\ \A y \in Clase(V, k, c) : f[y] \in Nat
      BY <1>2, <2>2
    <3>2. QED
      BY <2>6, <3>1, SumaQuitando
  <2>8. /\ \A b \in B : P(U)[b] \in Nat /\ P(V)[b] \in Nat
        /\ \A b \in B \ {c} : P(V)[b] = P(U)[b]
        /\ P(V)[c] = f[x] + P(U)[c]
    BY <1>2, <2>2, <2>5, <2>7
  <2> HIDE DEF P
  <2>9. PICK p : p = P(U)
    OBVIOUS
  <2>10. PICK v : v = P(V)
    OBVIOUS
  <2>11. /\ \A b \in B : p[b] \in Nat
         /\ \A b \in B : v[b] \in Nat
         /\ \A b \in B \ {c} : v[b] = p[b]
         /\ v[c] = f[x] + p[c]
    BY <2>8, <2>9, <2>10
  <2>12. SumFunctionOnSet(p, B) = p[c] + SumFunctionOnSet(p, B \ {c})
    BY <2>11, SumaQuitando
  <2>13. SumFunctionOnSet(v, B) = v[c] + SumFunctionOnSet(v, B \ {c})
    BY <2>11, SumaQuitando
  <2>14. /\ SumFunctionOnSet(v, B \ {c}) = SumFunctionOnSet(p, B \ {c})
         /\ SumFunctionOnSet(p, B \ {c}) \in Nat
    <3>1. IsFiniteSet(B \ {c}) /\ \A b \in B \ {c} : p[b] \in Nat /\ v[b] = p[b]
      BY <2>11, FS_RemoveElement
    <3>2. QED
      BY <3>1, SumaIgual, SumaQuitando
  <2>15. SumFunctionOnSet(p, B) = SumFunctionOnSet(f, U)
    BY <1>3, <2>9
  <2>16. p[c] \in Nat
    BY <2>11
  <2>17. SumFunctionOnSet(v, B) = SumFunctionOnSet(f, V)
    BY <2>3, <2>11, <2>12, <2>13, <2>14, <2>15, <2>16
  <2>18. QED
    BY <2>1, <2>2, <2>10, <2>17
<1> HIDE DEF T
<1>4. S \in T
  BY <1>1, <1>3, InduccionFinita
<1>5. QED
  BY <1>4 DEF T

\* Cardinality is the sum of ones.
LEMMA CardinalSuma ==
    ASSUME NEW f, NEW S, IsFiniteSet(S), \A x \in S : f[x] = 1
    PROVE  SumFunctionOnSet(f, S) = Cardinality(S)
<1> DEFINE T == {U \in SUBSET S : SumFunctionOnSet(f, U) = Cardinality(U)}
<1>1. {} \in T
  BY SumaVacia, FS_EmptySet
<1>2. ASSUME NEW U \in SUBSET S, NEW x \in S \ U, U \in T PROVE U \cup {x} \in T
  <2>1. PICK V : V = U \cup {x}
    OBVIOUS
  <2>2. V \in SUBSET S /\ x \in V /\ V \ {x} = U /\ IsFiniteSet(V) /\ IsFiniteSet(U)
    BY <2>1, FS_Subset
  <2>3. SumFunctionOnSet(f, V) = f[x] + SumFunctionOnSet(f, U)
    BY <2>2, SumaQuitando
  <2>4. Cardinality(V) = Cardinality(U) + 1 /\ Cardinality(U) \in Nat
    <3>1. Cardinality(U) = Cardinality(V) - 1
      BY <2>2, FS_RemoveElement
    <3>2. Cardinality(V) \in Nat /\ Cardinality(U) \in Nat
      BY <2>2, FS_CardinalityType
    <3>3. QED
      BY <3>1, <3>2
  <2>5. QED
    BY <1>2, <2>1, <2>2, <2>3, <2>4
<1> HIDE DEF T
<1>3. S \in T
  BY <1>1, <1>2, InduccionFinita
<1>4. QED
  BY <1>3 DEF T

LEMMA CardinalPorClases ==
    ASSUME NEW S, IsFiniteSet(S), NEW B, IsFiniteSet(B), NEW k, \A x \in S : k[x] \in B
    PROVE  SumFunctionOnSet([b \in B |-> Cardinality(Clase(S, k, b))], B) = Cardinality(S)
<1> DEFINE f == [x \in S |-> 1]
<1>1. \A x \in S : f[x] = 1
  OBVIOUS
<1> HIDE DEF f
<1>2. ASSUME NEW b \in B PROVE SumFunctionOnSet(f, Clase(S, k, b)) = Cardinality(Clase(S, k, b))
  <2>1. Clase(S, k, b) \in SUBSET S
    BY DEF Clase
  <2>2. IsFiniteSet(Clase(S, k, b))
    BY <2>1, FS_Subset
  <2>3. QED
    BY <1>1, <2>1, <2>2, CardinalSuma
<1>3. [b \in B |-> SumFunctionOnSet(f, Clase(S, k, b))] = [b \in B |-> Cardinality(Clase(S, k, b))]
  BY <1>2
<1>4. SumFunctionOnSet([b \in B |-> SumFunctionOnSet(f, Clase(S, k, b))], B)
        = SumFunctionOnSet(f, S)
  BY <1>1, SumaPorClases
<1>5. QED
  BY <1>1, <1>3, <1>4, CardinalSuma

LEMMA ImagenFinita ==
    ASSUME NEW S, IsFiniteSet(S), NEW g
    PROVE  IsFiniteSet({g[x] : x \in S})
<1> DEFINE h == [x \in S |-> g[x]]
           T == {g[x] : x \in S}
<1>1. h \in Surjection(S, T)
  BY DEF Surjection
<1>2. QED
  BY <1>1, FS_Surjection

\* A finite set of numbers has a greatest one.
LEMMA MaximoFinito ==
    ASSUME NEW S, IsFiniteSet(S), S # {}, S \subseteq Int
    PROVE  Max(S) \in S /\ \A y \in S : Max(S) >= y
<1> DEFINE T == {U \in SUBSET S : U # {} => \E x \in U : \A y \in U : x >= y}
<1>1. {} \in T
  OBVIOUS
<1>2. ASSUME NEW U \in SUBSET S, NEW x \in S \ U, U \in T PROVE U \cup {x} \in T
  <2>1. CASE U = {}
    BY <2>1
  <2>2. CASE U # {}
    <3>1. PICK z \in U : \A y \in U : z >= y
      BY <1>2, <2>2
    <3>2. z \in Int /\ x \in Int /\ \A y \in U : y \in Int
      OBVIOUS
    <3>3. CASE z >= x
      BY <3>1, <3>3
    <3>4. CASE ~(z >= x)
      <4>1. \A y \in U \cup {x} : x >= y
        BY <3>1, <3>2, <3>4
      <4>2. QED
        BY <4>1
    <3>5. QED
      BY <3>3, <3>4
  <2>3. QED
    BY <2>1, <2>2
<1> HIDE DEF T
<1>3. S \in T
  BY <1>1, <1>2, InduccionFinita
<1>4. \E x \in S : \A y \in S : x >= y
  BY <1>3 DEF T
<1>5. QED
  BY <1>4 DEF Max

LEMMA MaximoDeDos ==
    ASSUME NEW a \in Int, NEW b \in Int
    PROVE  Max({a, b}) = IF a >= b THEN a ELSE b
<1>1. IsFiniteSet({a, b})
  <2>1. IsFiniteSet({a} \cup {b})
    BY FS_Singleton, FS_AddElement
  <2>2. {a} \cup {b} = {a, b}
    OBVIOUS
  <2>3. QED
    BY <2>1, <2>2
<1>2. Max({a, b}) \in {a, b} /\ \A y \in {a, b} : Max({a, b}) >= y
  BY <1>1, MaximoFinito
<1>3. QED
  BY <1>2

LEMMA MinimoDeDos ==
    ASSUME NEW a \in Int, NEW b \in Int
    PROVE  Min({a, b}) = IF a <= b THEN a ELSE b
<1>1. \E x \in {a, b} : \A y \in {a, b} : x <= y
  <2>1. a <= b \/ b <= a
    OBVIOUS
  <2>2. QED
    BY <2>1
<1>2. Min({a, b}) \in {a, b} /\ \A y \in {a, b} : Min({a, b}) <= y
  BY <1>1 DEF Min
<1>3. QED
  BY <1>2

-----------------------------------------------------------------------------
(* The store *)

LEMMA Supuestos ==
    /\ IsFiniteSet(Cotizaciones) /\ Nulo \notin Estados
    /\ MaxInstante \in Nat /\ Estrena \in Instante /\ MaxEscrituras \in Nat
    /\ Limite \in Nat \ {0}
    /\ \A q \in Cotizaciones :
         /\ Datos[q].tenant \in Tenants /\ Datos[q].fecha \in Instante
         /\ Datos[q].total \in Nat /\ Datos[q].lineas \in Seq(Linea)
    /\ EstadosPrevios \subseteq Estados /\ Filtros \subseteq Filtro
    /\ \A g \in Grupos : g \subseteq ConsultasTotales
BY ConsultasAssumption DEF ConsultasAssumption

LEMMA Fechas ==
    ASSUME NEW t \in Instante
    PROVE  /\ t \in Nat /\ t <= MaxInstante /\ MaxInstante \in Nat
           /\ Calendario[t] \in [anio: Int, mes: Int, dia: Int, finDia: Int]
           /\ Calendario[t].anio <= Calendario[t].mes /\ Calendario[t].mes <= Calendario[t].dia
           /\ Calendario[t].dia <= t /\ t < Calendario[t].finDia
BY ConsultasAssumption DEF ConsultasAssumption, Instante

LEMMA EncontradasFinitas ==
    ASSUME NEW tn, NEW cotas, NEW es
    PROVE  /\ Encontradas(tn, cotas, es) \in SUBSET Cotizaciones
           /\ IsFiniteSet(Encontradas(tn, cotas, es))
           /\ Cardinality(Encontradas(tn, cotas, es)) \in Nat
<1>1. Encontradas(tn, cotas, es) \in SUBSET Cotizaciones
  BY DEF Encontradas
<1>2. IsFiniteSet(Encontradas(tn, cotas, es))
  BY <1>1, Supuestos, FS_Subset
<1>3. QED
  BY <1>1, <1>2, FS_CardinalityType

\* All the lines there are.
Todas == UNION {{q} \X DOMAIN Datos[q].lineas : q \in Cotizaciones}

LEMMA TodasFinitas == IsFiniteSet(Todas)
<1>0. PICK g : g = [q \in Cotizaciones |-> {q} \X DOMAIN Datos[q].lineas]
  OBVIOUS
<1> DEFINE T == {g[q] : q \in Cotizaciones}
<1>1. IsFiniteSet(T)
  BY Supuestos, ImagenFinita
<1>2. ASSUME NEW q \in Cotizaciones PROVE IsFiniteSet(g[q])
  <2>1. DOMAIN Datos[q].lineas = 1..Len(Datos[q].lineas) /\ Len(Datos[q].lineas) \in Nat
    BY Supuestos
  <2>2. IsFiniteSet(DOMAIN Datos[q].lineas)
    BY <2>1, FS_Interval
  <2>3. IsFiniteSet({q})
    BY FS_Singleton
  <2>4. QED
    BY <1>0, <2>2, <2>3, FS_Product
<1>3. Todas = UNION T
  <2>1. T = {{q} \X DOMAIN Datos[q].lineas : q \in Cotizaciones}
    BY <1>0
  <2> HIDE DEF T
  <2>2. QED
    BY <2>1 DEF Todas
<1>4. \A t \in T : IsFiniteSet(t)
  BY <1>2
<1> HIDE DEF T
<1>5. QED
  BY <1>1, <1>3, <1>4, FS_UNION

LEMMA LineaTipos ==
    ASSUME NEW l \in Todas
    PROVE  /\ l[1] \in Cotizaciones /\ l[2] \in DOMAIN Datos[l[1]].lineas
           /\ l = <<l[1], l[2]>>
           /\ LineaDe(l) \in Linea
           /\ ItemSubtotal(l) \in Nat /\ LineaDe(l).cantidad \in Nat
           /\ LineaDe(l).servicio \in Servicios /\ Bucket(l) \in Buckets
<1>1. PICK q \in Cotizaciones : l \in {q} \X DOMAIN Datos[q].lineas
  BY DEF Todas
<1>2. l[1] = q /\ l[2] \in DOMAIN Datos[q].lineas /\ l = <<l[1], l[2]>>
  BY <1>1
<1>3. Datos[q].lineas \in Seq(Linea)
  BY Supuestos
<1>4. Datos[q].lineas[l[2]] \in Linea
  BY <1>2, <1>3
<1>5. LineaDe(l) \in Linea
  BY <1>2, <1>4 DEF LineaDe
<1>6. LineaDe(l).cantidad \in Nat /\ LineaDe(l).precio \in Nat
      /\ LineaDe(l).subtotal \in Nat \cup {Nulo}
  BY <1>5 DEF Linea
<1>7. ItemSubtotal(l) \in Nat
  <2>1. \A x, y \in Nat : x * y \in Nat
    OBVIOUS
  <2>2. QED
    BY <1>6, <2>1 DEF ItemSubtotal
<1>8. LineaDe(l).servicio \in Servicios
  BY <1>2 DEF Servicios, LineaDe
<1>9. Bucket(l) \in Buckets
  BY DEF Bucket, Buckets
<1>10. QED
  BY <1>2, <1>5, <1>6, <1>7, <1>8, <1>9

LEMMA ServiciosFinitos == IsFiniteSet(Servicios)
<1> DEFINE g == [l \in Todas |-> LineaDe(l).servicio]
           T == {g[l] : l \in Todas}
<1>1. IsFiniteSet(T)
  BY TodasFinitas, ImagenFinita
<1>2. ASSUME NEW s \in Servicios PROVE s \in T
  <2>1. PICK q \in Cotizaciones :
          \E i \in DOMAIN Datos[q].lineas : s = Datos[q].lineas[i].servicio
    BY DEF Servicios
  <2>7. PICK i \in DOMAIN Datos[q].lineas : s = Datos[q].lineas[i].servicio
    BY <2>1
  <2>2. PICK l : l = <<q, i>>
    OBVIOUS
  <2>3. l \in {q} \X DOMAIN Datos[q].lineas
    BY <2>7, <2>2
  <2>4. l \in Todas
    BY <2>3 DEF Todas
  <2>5. LineaDe(l).servicio = s
    BY <2>7, <2>2 DEF LineaDe
  <2>6. QED
    BY <2>4, <2>5
<1> HIDE DEF T
<1>3. QED
  BY <1>1, <1>2, FS_Subset

LEMMA ClientesFinitos == IsFiniteSet(Clientes)
<1> DEFINE g == [q \in Cotizaciones |-> Datos[q].cliente]
           T == {g[q] : q \in Cotizaciones}
<1>1. IsFiniteSet(T)
  BY Supuestos, ImagenFinita
<1>2. Clientes \in SUBSET T
  BY DEF Clientes
<1> HIDE DEF T
<1>3. QED
  BY <1>1, <1>2, FS_Subset

LEMMA LineasFinitas ==
    ASSUME NEW qs \in SUBSET Cotizaciones, NEW f
    PROVE  LineasDe(qs, f) \in SUBSET Todas /\ IsFiniteSet(LineasDe(qs, f))
<1>1. LineasDe(qs, f) \in SUBSET Todas
  BY DEF LineasDe, Todas
<1>2. QED
  BY <1>1, TodasFinitas, FS_Subset

LEMMA ImporteNat ==
    ASSUME NEW ls \in SUBSET Todas
    PROVE  Importe(ls) \in Nat /\ Veces(ls) \in Nat
<1>1. IsFiniteSet(ls)
  BY TodasFinitas, FS_Subset
<1> DEFINE s == [l \in ls |-> ItemSubtotal(l)]
           v == [l \in ls |-> LineaDe(l).cantidad]
<1>2. \A l \in ls : s[l] \in Nat /\ v[l] \in Nat
  BY LineaTipos
<1>3. DOMAIN s = ls /\ DOMAIN v = ls
  OBVIOUS
<1>4. Importe(ls) = SumFunctionOnSet(s, ls) /\ Veces(ls) = SumFunctionOnSet(v, ls)
  BY <1>3 DEF Importe, Veces, SumFunction
<1> HIDE DEF s, v
<1>5. QED
  BY <1>1, <1>2, <1>4, SumaQuitando

LEMMA PrimeroMayor ==
    ASSUME NEW D, IsFiniteSet(D), NEW v \in [D -> Nat]
    PROVE  /\ Primero(v) \in Nat /\ \A x \in D : v[x] <= Primero(v)
           /\ Primero(v) = 0 \/ \E x \in D : Primero(v) = v[x]
<1> DEFINE I == {v[x] : x \in D}
<1>1. IsFiniteSet(I)
  BY ImagenFinita
<1>2. IsFiniteSet(I \cup {0}) /\ I \cup {0} = {0} \cup I
  BY <1>1, FS_AddElement
<1>3. I \subseteq Nat /\ DOMAIN v = D
  OBVIOUS
<1>4. Primero(v) = Max({0} \cup I)
  BY <1>3 DEF Primero
<1>5. /\ Max({0} \cup I) \in {0} \cup I
      /\ \A y \in {0} \cup I : Max({0} \cup I) >= y
  <2>1. PICK A : A = {0} \cup I
    OBVIOUS
  <2>2. IsFiniteSet(A) /\ A # {} /\ A \subseteq Int
    BY <1>2, <1>3, <2>1
  <2>3. QED
    BY <2>1, <2>2, MaximoFinito
<1>6. \A x \in D : v[x] \in I
  OBVIOUS
<1>7. \A y \in I : y \in Nat /\ \E x \in D : y = v[x]
  OBVIOUS
<1> HIDE DEF I
<1>8. PICK m : m = Max({0} \cup I)
  OBVIOUS
<1>9. m \in {0} \cup I /\ \A y \in {0} \cup I : m >= y
  BY <1>5, <1>8
<1>10. m \in Nat
  BY <1>7, <1>9
<1>11. QED
  BY <1>4, <1>6, <1>7, <1>8, <1>9, <1>10

-----------------------------------------------------------------------------
(* The answers of the queries *)

\* The bounds of a query that asks for [t, u) on top of the filter f.
Entre(f, t, u) == WithMatch(BuildMatch(f), [gte |-> t, lte |-> MaxInstante, lt |-> u])

\* The end of time: the upper bound of the queries that have none.
Fin == MaxInstante + 1

\* What each query answers.
LEMMA RespuestasConteo ==
    ASSUME NEW tn, NEW f, NEW a
    PROVE  /\ Respuesta("hoy", tn, f, a)
                = Cardinality(Encontradas(tn, Entre(f, Calendario[a].dia, Calendario[a].finDia), Estados))
           /\ Respuesta("mes", tn, f, a)
                = Cardinality(Encontradas(tn, Entre(f, Calendario[a].mes, Fin), Estados))
           /\ Respuesta("anio", tn, f, a)
                = Cardinality(Encontradas(tn, Entre(f, Calendario[a].anio, Fin), Estados))
           /\ Respuesta("totales", tn, f, a) = Cardinality(Encontradas(tn, Entre(f, 0, Fin), Estados))
<1>1. ASSUME NEW t
      PROVE  [SinCotas EXCEPT !.gte = t] = [gte |-> t, lte |-> MaxInstante, lt |-> Fin]
  <2>1. PICK u : u = Fin
    OBVIOUS
  <2>2. SinCotas = [gte |-> 0, lte |-> MaxInstante, lt |-> u]
    BY <2>1 DEF SinCotas, Fin
  <2>3. [[gte |-> 0, lte |-> MaxInstante, lt |-> u] EXCEPT !.gte = t]
          = [gte |-> t, lte |-> MaxInstante, lt |-> u]
    OBVIOUS
  <2>4. QED
    BY <2>1, <2>2, <2>3
<1>2. [[SinCotas EXCEPT !.gte = Calendario[a].dia] EXCEPT !.lt = Calendario[a].finDia]
        = [gte |-> Calendario[a].dia, lte |-> MaxInstante, lt |-> Calendario[a].finDia]
  <2>1. PICK u : u = Fin
    OBVIOUS
  <2>2. [SinCotas EXCEPT !.gte = Calendario[a].dia]
          = [gte |-> Calendario[a].dia, lte |-> MaxInstante, lt |-> u]
    BY <1>1, <2>1
  <2>3. \A x, y : [[gte |-> x, lte |-> MaxInstante, lt |-> u] EXCEPT !.lt = y]
          = [gte |-> x, lte |-> MaxInstante, lt |-> y]
    OBVIOUS
  <2>4. QED
    BY <2>2, <2>3
<1>3. SinCotas = [gte |-> 0, lte |-> MaxInstante, lt |-> Fin]
  BY DEF SinCotas, Fin
<1>4. Respuesta("hoy", tn, f, a)
        = Cardinality(Encontradas(tn, Entre(f, Calendario[a].dia, Calendario[a].finDia), Estados))
  BY <1>2 DEF Respuesta, Entre
<1>5. Respuesta("mes", tn, f, a)
        = Cardinality(Encontradas(tn, Entre(f, Calendario[a].mes, Fin), Estados))
  BY <1>1 DEF Respuesta, Entre
<1>6. Respuesta("anio", tn, f, a)
        = Cardinality(Encontradas(tn, Entre(f, Calendario[a].anio, Fin), Estados))
  BY <1>1 DEF Respuesta, Entre
<1>7. Respuesta("totales", tn, f, a) = Cardinality(Encontradas(tn, Entre(f, 0, Fin), Estados))
  BY <1>3 DEF Respuesta, Entre
<1>8. QED
  BY <1>4, <1>5, <1>6, <1>7

LEMMA RespuestasEstado ==
    ASSUME NEW tn, NEW f, NEW a
    PROVE  /\ Respuesta("aceptadas", tn, f, a)
                = Cardinality(Encontradas(tn, Entre(f, 0, Fin), {"aceptada"}))
           /\ Respuesta("rechazadas", tn, f, a)
                = Cardinality(Encontradas(tn, Entre(f, 0, Fin), {"rechazada"}))
           /\ Respuesta("canceladas", tn, f, a)
                = Cardinality(Encontradas(tn, Entre(f, 0, Fin), {"cancelada"}))
<1>1. SinCotas = [gte |-> 0, lte |-> MaxInstante, lt |-> Fin]
  BY DEF SinCotas, Fin
<1>2. QED
  BY <1>1 DEF Respuesta, Entre

LEMMA RespuestasCliente ==
    ASSUME NEW tn, NEW f, NEW a
    PROVE  /\ Respuesta("mayorSolicitante", tn, f, a)
                = Primero(PorCliente(Encontradas(tn, Entre(f, 0, Fin), Estados)))
           /\ Respuesta("masActivoMes", tn, f, a)
                = Primero(PorCliente(Encontradas(tn, Entre(f, Calendario[a].mes, Fin), Estados)))
<1>1. PICK E : E = Encontradas(tn, Entre(f, 0, Fin), Estados)
  OBVIOUS
<1>2. PICK M : M = Encontradas(tn, Entre(f, Calendario[a].mes, Fin), Estados)
  OBVIOUS
<1>3. Encontradas(tn, WithMatch(BuildMatch(f), SinCotas), Estados) = E
  BY <1>1 DEF Entre, Fin, SinCotas
<1>4. Encontradas(tn, WithMatch(BuildMatch(f), [SinCotas EXCEPT !.gte = Calendario[a].mes]),
                  Estados) = M
  BY <1>2 DEF Entre, Fin, SinCotas
<1>5. Respuesta("mayorSolicitante", tn, f, a) = Primero(PorCliente(E))
  BY <1>3 DEF Respuesta
<1>6. Respuesta("masActivoMes", tn, f, a) = Primero(PorCliente(M))
  BY <1>4 DEF Respuesta
<1>7. QED
  BY <1>1, <1>2, <1>5, <1>6

LEMMA RespuestasLineas ==
    ASSUME NEW tn, NEW f, NEW a
    PROVE  /\ Respuesta("masSolicitado", tn, f, a) = Primero(ServicesMetrics(tn, f))
           /\ Respuesta("masRentable", tn, f, a) = Primero(RentaPorServicio(tn, f))
           /\ Respuesta("desglose", tn, f, a) = Desglose(tn, f)
BY DEF Respuesta

\* The total of each of the quotations qs.
Totales(qs) == [q \in qs |-> Datos[q].total]

LEMMA RespuestaIngresos ==
    ASSUME NEW tn, NEW f, NEW a
    PROVE  Respuesta("ingresos", tn, f, a)
             = SumFunctionOnSet(Totales(Encontradas(tn, Entre(f, 0, Fin), {"aceptada"})),
                                Encontradas(tn, Entre(f, 0, Fin), {"aceptada"}))
<1>1. PICK E : E = Encontradas(tn, Entre(f, 0, Fin), {"aceptada"})
  OBVIOUS
<1>2. Encontradas(tn, WithMatch(BuildMatch(f), SinCotas), {"aceptada"}) = E
  BY <1>1 DEF Entre, Fin, SinCotas
<1>3. Respuesta("ingresos", tn, f, a) = SumFunction(Totales(E))
  BY <1>2 DEF Respuesta, Totales
<1>4. DOMAIN Totales(E) = E
  BY DEF Totales
<1>5. SumFunction(Totales(E)) = SumFunctionOnSet(Totales(E), E)
  BY <1>4 DEF SumFunction
<1>6. QED
  BY <1>1, <1>3, <1>5

LEMMA PorClienteNat ==
    ASSUME NEW qs \in SUBSET Cotizaciones
    PROVE  /\ PorCliente(qs) \in [Clientes -> Nat]
           /\ \A c \in Clientes :
                /\ PorCliente(qs)[c] = Cardinality({q \in qs : Datos[q].cliente = c})
                /\ PorCliente(qs)[c] <= Cardinality(qs)
<1>1. ASSUME NEW c \in Clientes
      PROVE  /\ Cardinality({q \in qs : Datos[q].cliente = c}) \in Nat
             /\ Cardinality({q \in qs : Datos[q].cliente = c}) <= Cardinality(qs)
  <2>1. PICK T : T = {q \in qs : Datos[q].cliente = c}
    OBVIOUS
  <2>2. T \in SUBSET qs /\ IsFiniteSet(qs)
    BY <2>1, Supuestos, FS_Subset
  <2>3. IsFiniteSet(T) /\ Cardinality(T) <= Cardinality(qs)
    BY <2>2, FS_Subset
  <2>4. QED
    BY <2>1, <2>3, FS_CardinalityType
<1>2. QED
  BY <1>1 DEF PorCliente

\* The accepted lines that a reading adds up.
LEMMA AceptadasFinitas ==
    ASSUME NEW tn, NEW f
    PROVE  Aceptadas(tn, f) \in SUBSET Todas /\ IsFiniteSet(Aceptadas(tn, f))
BY EncontradasFinitas, LineasFinitas DEF Aceptadas

LEMMA PorServicioNat ==
    ASSUME NEW tn, NEW f
    PROVE  /\ ServicesMetrics(tn, f) \in [Servicios -> Nat]
           /\ RentaPorServicio(tn, f) \in [Servicios -> Nat]
<1>1. \A s : {l \in Aceptadas(tn, f) : LineaDe(l).servicio = s} \in SUBSET Todas
  BY AceptadasFinitas
<1>2. QED
  BY <1>1, ImporteNat DEF ServicesMetrics, RentaPorServicio

LEMMA DesgloseTipo ==
    ASSUME NEW tn, NEW f
    PROVE  Desglose(tn, f) \in DesglosePorTipo
<1>1. ASSUME NEW b \in Buckets
      PROVE  [ingresos |-> Importe({l \in Aceptadas(tn, f) : Bucket(l) = b}),
              veces |-> Veces({l \in Aceptadas(tn, f) : Bucket(l) = b})]
                \in [ingresos: Nat, veces: Nat]
  <2>1. {l \in Aceptadas(tn, f) : Bucket(l) = b} \in SUBSET Todas
    BY AceptadasFinitas
  <2>2. QED
    BY <2>1, ImporteNat
<1>2. QED
  BY <1>1 DEF Desglose, DesglosePorTipo

LEMMA RespuestaTipo ==
    ASSUME NEW tn, NEW f, NEW a, NEW c \in ConsultasTotales
    PROVE  Respuesta(c, tn, f, a) \in IF c = "desglose" THEN DesglosePorTipo ELSE Nat
<1>1. CASE c \in {"hoy", "mes", "anio", "totales"}
  BY <1>1, RespuestasConteo, EncontradasFinitas
<1>2. CASE c \in {"aceptadas", "rechazadas", "canceladas"}
  BY <1>2, RespuestasEstado, EncontradasFinitas
<1>3. CASE c \in {"mayorSolicitante", "masActivoMes"}
  <2>1. \A qs \in SUBSET Cotizaciones : Primero(PorCliente(qs)) \in Nat
    BY PorClienteNat, ClientesFinitos, PrimeroMayor
  <2>2. Respuesta(c, tn, f, a) \in Nat
    BY <1>3, <2>1, RespuestasCliente, EncontradasFinitas
  <2>3. QED
    BY <1>3, <2>2
<1>4. CASE c \in {"masSolicitado", "masRentable"}
  <2>1. Primero(ServicesMetrics(tn, f)) \in Nat /\ Primero(RentaPorServicio(tn, f)) \in Nat
    BY PorServicioNat, ServiciosFinitos, PrimeroMayor
  <2>2. QED
    BY <1>4, <2>1, RespuestasLineas
<1>5. CASE c = "ingresos"
  <2>1. PICK E : E = Encontradas(tn, Entre(f, 0, Fin), {"aceptada"})
    OBVIOUS
  <2>2. E \in SUBSET Cotizaciones /\ IsFiniteSet(E)
    BY <2>1, EncontradasFinitas
  <2>3. \A q \in E : Totales(E)[q] \in Nat
    BY <2>2, Supuestos DEF Totales
  <2>4. SumFunctionOnSet(Totales(E), E) \in Nat
    BY <2>2, <2>3, SumaQuitando
  <2>5. QED
    BY <1>5, <2>1, <2>4, RespuestaIngresos
<1>6. CASE c = "desglose"
  BY <1>6, RespuestasLineas, DesgloseTipo
<1>7. QED
  BY <1>1, <1>2, <1>3, <1>4, <1>5, <1>6 DEF ConsultasTotales, Conteos

-----------------------------------------------------------------------------
(* Types *)

\* A reading of figures in progress.
Metricas ==
    [op: {"metricas"}, tenant: Tenants, filtro: Filtros, ahora: Instante, grupo: Grupos,
     res: UNION {[d -> Nat \cup DesglosePorTipo] : d \in SUBSET ConsultasTotales}]

\* What the variable lectura may hold.
Lectura == {Libre} \cup Metricas \cup Listado

\* Inductive invariant of the types: TypeOK says less of the fields of the reading.
TInv == TypeOK /\ lectura \in Lectura

\* The three kinds of reading are told apart by op.
LEMMA Clases ==
    ASSUME NEW r \in Lectura
    PROVE  /\ r.op = "libre" <=> r = Libre
           /\ r.op = "metricas" <=> r \in Metricas
           /\ r.op = "listado" <=> r \in Listado
           /\ r \in Metricas => r # Libre /\ r \notin Listado
           /\ r \in Listado => r # Libre /\ r \notin Metricas
           /\ r # Libre => r.tenant \in Tenants
BY DEF Lectura, Libre, Metricas, Listado

LEMMA LecturaTipos ==
    ASSUME NEW r \in Metricas
    PROVE  /\ r.tenant \in Tenants /\ r.filtro \in Filtros /\ r.ahora \in Instante
           /\ r.grupo \in Grupos /\ r.grupo \subseteq ConsultasTotales
           /\ DOMAIN r.res \subseteq ConsultasTotales
           /\ r.res \in [DOMAIN r.res -> Nat \cup DesglosePorTipo]
<1>1. PICK d \in SUBSET ConsultasTotales : r.res \in [d -> Nat \cup DesglosePorTipo]
  BY DEF Metricas
<1>2. r.grupo \in Grupos
  BY DEF Metricas
<1>3. r.grupo \subseteq ConsultasTotales
  BY <1>2, Supuestos
<1>4. QED
  BY <1>1, <1>2, <1>3 DEF Metricas

\* What a state of one kind has to satisfy.
LEMMA TiposDe ==
    ASSUME TInv
    PROVE  /\ estado \in [Cotizaciones -> Estados \cup {Nulo}]
           /\ reloj \in Instante /\ escrituras \in Nat /\ escrituras <= MaxEscrituras
           /\ cambios \in Nat /\ cambios <= escrituras /\ salidas \in Nat /\ salidas <= cambios
           /\ previas \subseteq Cotizaciones
           /\ lectura.op = "metricas" =>
                /\ DOMAIN lectura.res \subseteq lectura.grupo
                /\ \A c \in DOMAIN lectura.res :
                     lectura.res[c] \in IF c = "desglose" THEN DesglosePorTipo ELSE Nat
BY Supuestos DEF TInv, TypeOK

\* The answers that the reading r has are of their types.
Respuestas(r) ==
    r \in Metricas =>
        /\ DOMAIN r.res \subseteq r.grupo
        /\ \A c \in DOMAIN r.res :
             r.res[c] \in IF c = "desglose" THEN DesglosePorTipo ELSE Nat

LEMMA LecturaBien ==
    ASSUME NEW r \in Lectura, Respuestas(r)
    PROVE  CASE r.op = "metricas" ->
                  /\ DOMAIN r.res \subseteq r.grupo
                  /\ \A c \in DOMAIN r.res :
                       r.res[c] \in IF c = "desglose" THEN DesglosePorTipo ELSE Nat
             [] r.op = "listado" -> r \in Listado
             [] OTHER -> r = Libre
<1>1. CASE r = Libre
  <2>1. r.op # "metricas" /\ r.op # "listado"
    BY <1>1, Clases
  <2>2. QED
    BY <1>1, <2>1
<1>2. CASE r \in Metricas
  <2>1. r.op = "metricas" /\ r.op # "listado"
    BY <1>2, Clases
  <2>2. QED
    BY <1>2, <2>1 DEF Respuestas
<1>3. CASE r \in Listado
  <2>1. r.op # "metricas" /\ r.op = "listado"
    BY <1>3, Clases
  <2>2. QED
    BY <1>3, <2>1
<1>4. QED
  BY <1>1, <1>2, <1>3 DEF Lectura

LEMMA InicioTipos == Init => TInv
<1>1. SUFFICES ASSUME Init PROVE TInv
  OBVIOUS
<1>2. estado \in [Cotizaciones -> Estados \cup {Nulo}]
  BY <1>1, Supuestos DEF Init
<1>3. lectura \in Lectura /\ lectura \notin Metricas
  BY <1>1, Clases DEF Init, Lectura
<1>4. reloj \in Instante /\ escrituras \in 0..MaxEscrituras
  BY <1>1, Supuestos DEF Init
<1>5. cambios \in 0..escrituras /\ salidas \in 0..cambios /\ previas \subseteq Cotizaciones
  BY <1>1 DEF Init
<1>6. Respuestas(lectura)
  BY <1>3 DEF Respuestas
<1>7. QED
  BY <1>2, <1>3, <1>4, <1>5, <1>6, LecturaBien DEF TInv, TypeOK

\* Reading touches neither the store nor the clock.
LEMMA LeerTipos ==
    ASSUME TInv, NEW r \in Lectura, Leer(r), Respuestas(r),
           cambios' \in 0..escrituras, salidas' \in 0..cambios',
           previas' \subseteq Cotizaciones
    PROVE  TInv'
<1>1. /\ estado' \in [Cotizaciones -> Estados \cup {Nulo}]
      /\ reloj' \in Instante /\ escrituras' \in 0..MaxEscrituras
      /\ cambios' \in 0..escrituras'
  BY TiposDe, Supuestos DEF Leer
<1>2. lectura' = r
  BY DEF Leer
<1>3. lectura' \in Lectura /\ Respuestas(lectura')
  BY <1>2
<1>4. QED
  BY <1>1, <1>3, LecturaBien DEF TInv, TypeOK

\* The answer of one query is added to the reading.
LEMMA ConRespuesta ==
    ASSUME NEW r \in Metricas, NEW c \in r.grupo, NEW x, NEW s,
           x \in IF c = "desglose" THEN DesglosePorTipo ELSE Nat,
           Respuestas(r),
           s = [r EXCEPT !.res = [d \in DOMAIN @ \cup {c} |-> IF d = c THEN x ELSE @[d]]]
    PROVE  /\ s \in Metricas /\ s.tenant = r.tenant /\ s.filtro = r.filtro /\ s.ahora = r.ahora
           /\ s.grupo = r.grupo /\ DOMAIN s.res = DOMAIN r.res \cup {c}
           /\ s.res[c] = x
           /\ \A d \in DOMAIN r.res : d # c => s.res[d] = r.res[d]
           /\ Respuestas(s)
<1>1. PICK res : res = [d \in DOMAIN r.res \cup {c} |-> IF d = c THEN x ELSE r.res[d]]
  OBVIOUS
<1>2. s = [r EXCEPT !.res = res]
  BY <1>1
<1>3. /\ DOMAIN res = DOMAIN r.res \cup {c} /\ res[c] = x
      /\ \A d \in DOMAIN r.res : d # c => res[d] = r.res[d]
  BY <1>1
<1>4. DOMAIN res \subseteq ConsultasTotales
  BY <1>3, LecturaTipos
<1>5. \A d \in DOMAIN res : res[d] \in IF d = "desglose" THEN DesglosePorTipo ELSE Nat
  BY <1>1, <1>3 DEF Respuestas
<1>6. res \in [DOMAIN res -> Nat \cup DesglosePorTipo]
  BY <1>1, <1>5
<1>7. res \in UNION {[d -> Nat \cup DesglosePorTipo] : d \in SUBSET ConsultasTotales}
  BY <1>4, <1>6
<1>8. /\ s \in Metricas /\ s.res = res /\ s.tenant = r.tenant /\ s.filtro = r.filtro
      /\ s.ahora = r.ahora /\ s.grupo = r.grupo
  BY <1>2, <1>7 DEF Metricas
<1>9. QED
  BY <1>3, <1>5, <1>8 DEF Respuestas

LEMMA Paginacion ==
    ASSUME NEW n \in Nat
    PROVE  /\ TotalPages(n) \in Nat \ {0}
           /\ \A k \in Nat : k >= TotalPages(n) => k * Limite >= n
<1>1. PICK l \in Nat \ {0} : l = Limite
  BY Supuestos
<1>2. PICK d : d = (n + l - 1) \div l
  OBVIOUS
<1>3. d \in Int /\ l * d <= n + l - 1 /\ n + l - 1 < l * d + l
  <2>1. n + l - 1 \in Int
    OBVIOUS
  <2>2. PICK m \in Int : m = n + l - 1
    BY <2>1
  <2>3. m \div l \in Int /\ l * (m \div l) <= m /\ m < l * (m \div l) + l
    <3>1. m = l * (m \div l) + (m % l) /\ m % l \in 0..(l - 1)
      OBVIOUS
    <3>2. m \div l \in Int
      OBVIOUS
    <3>3. QED
      BY <3>1, <3>2
  <2>4. QED
    BY <1>2, <2>2, <2>3
<1>4. TotalPages(n) = Max({1, d})
  BY <1>1, <1>2 DEF TotalPages
<1>5. TotalPages(n) = IF 1 >= d THEN 1 ELSE d
  BY <1>3, <1>4, MaximoDeDos
<1>6. TotalPages(n) \in Nat \ {0} /\ TotalPages(n) >= d
  BY <1>3, <1>5
<1>7. ASSUME NEW k \in Nat, k >= TotalPages(n) PROVE k * Limite >= n
  <2>1. k >= d
    BY <1>3, <1>6, <1>7
  <2>2. l * k >= l * d
    <3>1. \A x \in Nat, a, b \in Int : a >= b => x * a >= x * b
      OBVIOUS
    <3>2. QED
      BY <1>3, <2>1, <3>1
  <2>3. l * k = k * l /\ l * k \in Int /\ l * d \in Int
    BY <1>3
  <2>4. QED
    BY <1>1, <1>3, <2>2, <2>3
<1>8. QED
  BY <1>6, <1>7

LEMMA ListaFinita ==
    ASSUME NEW r
    PROVE  /\ Lista(r) \in SUBSET Cotizaciones /\ IsFiniteSet(Lista(r))
           /\ Cardinality(Lista(r)) \in Nat
           /\ \A q \in Lista(r) : Datos[q].tenant = r.tenant
<1>1. \A es : \A q \in Encontradas(r.tenant, SinCotas, es) : Datos[q].tenant = r.tenant
  BY DEF Encontradas
<1>2. QED
  BY <1>1, EncontradasFinitas DEF Lista

\* What a page adds to a walk.
LEMMA PaginaTipo ==
    ASSUME NEW r \in Listado, NEW s \in ConPagina(r)
    PROVE  /\ s \in Listado /\ s.tenant = r.tenant /\ s.estado = r.estado /\ s.pagina = r.pagina
           /\ \E p \in Paginas(r) : s.vistas = r.vistas \cup p
           /\ s.paginas = TotalPages(Cardinality(Lista(r)))
<1>1. PICK p \in Paginas(r) :
        s = [r EXCEPT !.vistas = @ \cup p, !.paginas = TotalPages(Cardinality(Lista(r)))]
  BY DEF ConPagina
<1>2. PICK n : n = TotalPages(Cardinality(Lista(r)))
  OBVIOUS
<1>3. n \in Nat \ {0}
  BY <1>2, ListaFinita, Paginacion
<1>4. PICK v : v = r.vistas \cup p
  OBVIOUS
<1>5. p \in SUBSET Lista(r)
  BY DEF Paginas
<1>6. v \in SUBSET Cotizaciones
  BY <1>4, <1>5, ListaFinita DEF Listado
<1>7. s = [r EXCEPT !.vistas = v, !.paginas = n]
  BY <1>1, <1>2, <1>4
<1>8. s \in Listado /\ s.tenant = r.tenant /\ s.estado = r.estado /\ s.pagina = r.pagina
      /\ s.vistas = v /\ s.paginas = n
  BY <1>3, <1>6, <1>7 DEF Listado
<1>9. QED
  BY <1>2, <1>4, <1>8

LEMMA SinHistoriaTipos ==
    ASSUME TInv, SinHistoria
    PROVE  cambios' \in 0..escrituras /\ salidas' \in 0..cambios' /\ previas' \subseteq Cotizaciones
BY TiposDe DEF SinHistoria

LEMMA MetricasTipos == TInv /\ GetTotalsMetrics => TInv'
<1>1. SUFFICES ASSUME TInv, GetTotalsMetrics PROVE TInv'
  OBVIOUS
<1>2. PICK tn \in Tenants, f \in Filtros, g \in Grupos :
        Leer([op |-> "metricas", tenant |-> tn, filtro |-> f, ahora |-> reloj,
              grupo |-> g, res |-> <<>>])
  BY <1>1 DEF GetTotalsMetrics
<1>3. PICK r : r = [op |-> "metricas", tenant |-> tn, filtro |-> f, ahora |-> reloj,
                    grupo |-> g, res |-> <<>>]
  OBVIOUS
<1>4. <<>> \in UNION {[d -> Nat \cup DesglosePorTipo] : d \in SUBSET ConsultasTotales}
  <2>1. <<>> \in [{} -> Nat \cup DesglosePorTipo] /\ {} \in SUBSET ConsultasTotales
    OBVIOUS
  <2>2. QED
    BY <2>1
<1>5. r \in Metricas /\ r \in Lectura
  BY <1>1, <1>3, <1>4, TiposDe DEF Metricas, Lectura
<1>6. Respuestas(r)
  <2>1. DOMAIN r.res = {}
    BY <1>3
  <2>2. QED
    BY <2>1 DEF Respuestas
<1>7. SinHistoria
  BY <1>1 DEF GetTotalsMetrics
<1>8. QED
  BY <1>1, <1>2, <1>3, <1>5, <1>6, <1>7, SinHistoriaTipos, LeerTipos

\* What a query does to the reading.
LEMMA ConsultarEs ==
    ASSUME TInv, Consultar
    PROVE  /\ lectura \in Metricas
           /\ \E c \in lectura.grupo \ DOMAIN lectura.res :
                /\ lectura' \in Metricas /\ Respuestas(lectura')
                /\ lectura'.tenant = lectura.tenant /\ lectura'.filtro = lectura.filtro
                /\ lectura'.ahora = lectura.ahora
                /\ DOMAIN lectura'.res = DOMAIN lectura.res \cup {c}
                /\ lectura'.res[c] = Respuesta(c, lectura.tenant, lectura.filtro, lectura.ahora)
                /\ \A d \in DOMAIN lectura.res : lectura'.res[d] = lectura.res[d]
           /\ UNCHANGED <<estado, reloj, escrituras, cambios, previas, salidas>>
<1>1. lectura \in Metricas
  BY Clases DEF Consultar, TInv
<1>2. PICK c \in Pendientes :
         lectura' = [lectura EXCEPT !.res = [d \in DOMAIN @ \cup {c} |->
              IF d = c THEN Respuesta(c, lectura.tenant, lectura.filtro, lectura.ahora)
                       ELSE @[d]]]
  BY DEF Consultar, Leer
<1>3. c \in lectura.grupo \ DOMAIN lectura.res
  BY DEF Pendientes
<1>4. PICK x : x = Respuesta(c, lectura.tenant, lectura.filtro, lectura.ahora)
  OBVIOUS
<1>5. c \in ConsultasTotales
  BY <1>1, <1>3, LecturaTipos
<1>6. x \in IF c = "desglose" THEN DesglosePorTipo ELSE Nat
  BY <1>4, <1>5, RespuestaTipo
<1>7. Respuestas(lectura)
  BY <1>1, TiposDe, Clases DEF Respuestas, TInv
<1>8. PICK s : s = [lectura EXCEPT !.res = [d \in DOMAIN @ \cup {c} |->
                                              IF d = c THEN x ELSE @[d]]]
  OBVIOUS
<1>9. lectura' = s
  BY <1>2, <1>4, <1>8
<1>10. /\ s \in Metricas /\ s.tenant = lectura.tenant /\ s.filtro = lectura.filtro
       /\ s.ahora = lectura.ahora /\ DOMAIN s.res = DOMAIN lectura.res \cup {c}
       /\ s.res[c] = x /\ \A d \in DOMAIN lectura.res : d # c => s.res[d] = lectura.res[d]
       /\ Respuestas(s)
  BY <1>1, <1>3, <1>6, <1>7, <1>8, ConRespuesta
<1>11. UNCHANGED <<estado, reloj, escrituras, cambios, previas, salidas>>
  BY DEF Consultar, Leer
<1>12. QED
  BY <1>1, <1>3, <1>4, <1>9, <1>10, <1>11

LEMMA ConsultarTipos == TInv /\ Consultar => TInv'
<1>1. SUFFICES ASSUME TInv, Consultar PROVE TInv'
  OBVIOUS
<1>2. /\ lectura' \in Lectura /\ Respuestas(lectura')
      /\ UNCHANGED <<estado, reloj, escrituras, cambios, previas, salidas>>
  BY <1>1, ConsultarEs DEF Lectura
<1>3. QED
  BY <1>1, <1>2, TiposDe, LecturaBien DEF TInv, TypeOK

LEMMA FindAllEs ==
    ASSUME TInv, FindAll
    PROVE  /\ \E r \in Listado :
                /\ r.pagina = 1 /\ r.vistas = {}
                /\ lectura' \in ConPagina(r) /\ previas' = Lista(r)
           /\ cambios' = 0 /\ salidas' = 0
           /\ UNCHANGED <<estado, reloj, escrituras>>
<1>1. PICK tn \in Tenants, e \in Estados \cup {Nulo} :
        LET r == [op |-> "listado", tenant |-> tn, estado |-> e, pagina |-> 1,
                  paginas |-> 1, vistas |-> {}]
        IN (\E s \in ConPagina(r) : Leer(s)) /\ previas' = Lista(r)
  BY DEF FindAll
<1>2. PICK r : r = [op |-> "listado", tenant |-> tn, estado |-> e, pagina |-> 1,
                    paginas |-> 1, vistas |-> {}]
  OBVIOUS
<1>3. r \in Listado /\ r.pagina = 1 /\ r.vistas = {}
  BY <1>2 DEF Listado
<1>4. PICK s \in ConPagina(r) : Leer(s)
  BY <1>1, <1>2
<1>5. lectura' = s /\ UNCHANGED <<estado, reloj, escrituras>>
  BY <1>4 DEF Leer
<1>6. previas' = Lista(r)
  BY <1>1, <1>2
<1>7. cambios' = 0 /\ salidas' = 0
  BY DEF FindAll
<1>8. QED
  BY <1>3, <1>4, <1>5, <1>6, <1>7

LEMMA FindAllTipos == TInv /\ FindAll => TInv'
<1>1. SUFFICES ASSUME TInv, FindAll PROVE TInv'
  OBVIOUS
<1>2. PICK r \in Listado : lectura' \in ConPagina(r) /\ previas' = Lista(r)
  BY <1>1, FindAllEs
<1>3. lectura' \in Listado
  BY <1>2, PaginaTipo
<1>4. lectura' \in Lectura /\ Respuestas(lectura')
  <2>1. lectura' \in Lectura
    BY <1>3 DEF Lectura
  <2>2. lectura' \notin Metricas
    BY <1>3, <2>1, Clases
  <2>3. QED
    BY <2>1, <2>2 DEF Respuestas
<1>5. /\ cambios' = 0 /\ salidas' = 0 /\ previas' \subseteq Cotizaciones
      /\ UNCHANGED <<estado, reloj, escrituras>>
  BY <1>1, <1>2, FindAllEs, ListaFinita
<1>6. /\ estado' \in [Cotizaciones -> Estados \cup {Nulo}] /\ reloj' \in Instante
      /\ escrituras' \in 0..MaxEscrituras /\ cambios' \in 0..escrituras'
      /\ salidas' \in 0..cambios'
  BY <1>1, <1>5, TiposDe, Supuestos
<1>7. QED
  BY <1>4, <1>5, <1>6, LecturaBien DEF TInv, TypeOK

\* The next page of a walk.
LEMMA SiguienteEs ==
    ASSUME TInv, SiguientePagina
    PROVE  /\ lectura \in Listado
           /\ \E r \in Listado :
                /\ r = [lectura EXCEPT !.pagina = @ + 1]
                /\ r.pagina = lectura.pagina + 1 /\ r.vistas = lectura.vistas
                /\ r.tenant = lectura.tenant /\ r.estado = lectura.estado
                /\ lectura' \in ConPagina(r)
           /\ UNCHANGED <<estado, reloj, escrituras, cambios, previas, salidas>>
<1>1. lectura \in Listado
  BY Clases DEF SiguientePagina, TInv
<1>2. PICK r : r = [lectura EXCEPT !.pagina = @ + 1]
  OBVIOUS
<1>3. /\ r \in Listado /\ r.pagina = lectura.pagina + 1 /\ r.vistas = lectura.vistas
      /\ r.tenant = lectura.tenant /\ r.estado = lectura.estado
  BY <1>1, <1>2 DEF Listado
<1>4. PICK s \in ConPagina(r) : Leer(s)
  BY <1>2 DEF SiguientePagina
<1>5. lectura' = s /\ UNCHANGED <<estado, reloj, escrituras>>
  BY <1>4 DEF Leer
<1>6. UNCHANGED <<cambios, previas, salidas>>
  BY DEF SiguientePagina
<1>7. QED
  BY <1>1, <1>2, <1>3, <1>4, <1>5, <1>6

LEMMA SiguienteTipos == TInv /\ SiguientePagina => TInv'
<1>1. SUFFICES ASSUME TInv, SiguientePagina PROVE TInv'
  OBVIOUS
<1>2. PICK r \in Listado : lectura' \in ConPagina(r)
  BY <1>1, SiguienteEs
<1>3. lectura' \in Lectura /\ Respuestas(lectura')
  <2>1. lectura' \in Listado
    BY <1>2, PaginaTipo
  <2>2. lectura' \in Lectura
    BY <2>1 DEF Lectura
  <2>3. lectura' \notin Metricas
    BY <2>1, <2>2, Clases
  <2>4. QED
    BY <2>2, <2>3 DEF Respuestas
<1>4. UNCHANGED <<estado, reloj, escrituras, cambios, previas, salidas>>
  BY <1>1, SiguienteEs
<1>5. QED
  BY <1>1, <1>3, <1>4, LecturaBien DEF TInv, TypeOK

LEMMA TerminarTipos == TInv /\ Terminar => TInv'
<1>1. SUFFICES ASSUME TInv, Terminar PROVE TInv'
  OBVIOUS
<1>2. Leer(Libre) /\ SinHistoria
  BY <1>1 DEF Terminar
<1>3. Libre \in Lectura /\ Libre \notin Metricas
  BY Clases DEF Lectura
<1>4. Respuestas(Libre)
  BY <1>3 DEF Respuestas
<1>5. QED
  BY <1>1, <1>2, <1>3, <1>4, SinHistoriaTipos, LeerTipos

\* What every write does to the histories.
LEMMA EscribirEs ==
    ASSUME TInv, NEW q \in Cotizaciones, NEW e, Escribir(q, e)
    PROVE  /\ escrituras' = escrituras + 1 /\ escrituras < MaxEscrituras
           /\ UNCHANGED <<reloj, lectura>>
           /\ estado' = [estado EXCEPT ![q] = e]
           /\ cambios' = IF lectura # Libre /\ lectura.tenant = Datos[q].tenant
                         THEN cambios + 1 ELSE cambios
           /\ \/ UNCHANGED <<previas, salidas>>
              \/ /\ lectura \in Listado /\ lectura.tenant = Datos[q].tenant
                 /\ previas' = previas \ {q} /\ salidas' = salidas + 1
                 /\ cambios' = cambios + 1
<1>1. ASSUME lectura.op = "listado", q \in Lista(lectura)
      PROVE  lectura \in Listado /\ lectura.tenant = Datos[q].tenant /\ lectura # Libre
  BY <1>1, Clases, ListaFinita DEF TInv
<1>2. QED
  BY <1>1 DEF Escribir

LEMMA EscribirTipos ==
    ASSUME TInv, NEW q \in Cotizaciones, NEW e \in Estados, Escribir(q, e)
    PROVE  TInv'
<1>1. /\ escrituras' \in 0..MaxEscrituras /\ escrituras' = escrituras + 1
      /\ reloj' \in Instante
      /\ estado' \in [Cotizaciones -> Estados \cup {Nulo}]
  BY TiposDe, EscribirEs, Supuestos
<1>2. cambios' \in 0..escrituras' /\ salidas' \in 0..cambios' /\ previas' \subseteq Cotizaciones
  <2>1. cambios' = cambios \/ cambios' = cambios + 1
    BY EscribirEs
  <2>2. UNCHANGED <<previas, salidas>>
        \/ (previas' = previas \ {q} /\ salidas' = salidas + 1 /\ cambios' = cambios + 1)
    BY EscribirEs
  <2>3. QED
    BY <1>1, <2>1, <2>2, TiposDe
<1>3. lectura' = lectura
  BY EscribirEs
<1>4. lectura' \in Lectura /\ Respuestas(lectura')
  BY <1>3, TiposDe, Clases DEF Respuestas, TInv
<1>5. QED
  BY <1>1, <1>2, <1>4, LecturaBien DEF TInv, TypeOK

\* Whoever writes, it is one quotation and one of the five states.
LEMMA Escritor ==
    ASSUME TInv, NEW q \in Cotizaciones, Crear(q) \/ CambiarEstado(q)
    PROVE  \E e \in Estados :
             /\ Escribir(q, e) /\ e # estado[q]
             /\ estado[q] = Nulo => e = "vigente"
BY Supuestos DEF Crear, CambiarEstado, Estados

LEMMA TickTipos == TInv /\ Tick => TInv'
<1>1. SUFFICES ASSUME TInv, Tick PROVE TInv'
  OBVIOUS
<1>2. reloj' \in Instante /\ UNCHANGED <<estado, lectura, escrituras, cambios, previas, salidas>>
  BY <1>1, TiposDe, Supuestos DEF Tick, Instante
<1>3. lectura' \in Lectura /\ Respuestas(lectura')
  BY <1>1, <1>2, TiposDe, Clases DEF Respuestas, TInv
<1>4. QED
  BY <1>1, <1>2, <1>3, LecturaBien DEF TInv, TypeOK

LEMMA PasoTipos == TInv /\ [Next]_vars => TInv'
<1>1. SUFFICES ASSUME TInv, [Next]_vars PROVE TInv'
  OBVIOUS
<1>2. CASE \E q \in Cotizaciones : Crear(q) \/ CambiarEstado(q)
  BY <1>1, <1>2, Escritor, EscribirTipos
<1>3. CASE UNCHANGED vars
  <2>1. UNCHANGED <<estado, reloj, lectura, escrituras, cambios, previas, salidas>>
    BY <1>3 DEF vars
  <2>2. QED
    BY <1>1, <2>1 DEF TInv, TypeOK
<1>4. QED
  BY <1>1, <1>2, <1>3, MetricasTipos, ConsultarTipos, FindAllTipos, SiguienteTipos,
     TerminarTipos, TickTipos DEF Next

LEMMA TiposSiempre == Spec => []TInv
<1>1. Init => TInv
  BY InicioTipos
<1>2. QED
  BY <1>1, PasoTipos, PTL DEF Spec

\* Readings, store and histories keep their types: every answer is a number or a
\* breakdown and every page is one of the list, for any store and whatever is written.
THEOREM TiposConsultas == Spec => []TypeOK
<1>1. TInv => TypeOK
  BY DEF TInv
<1>2. QED
  BY <1>1, TiposSiempre, PTL

-----------------------------------------------------------------------------
(* Walks *)

\* The quotations of the list of r that come before q.
Delante(r, q) == {p \in Lista(r) : Datos[p].fecha > Datos[q].fecha}

\* The quotations that a walk should have seen by its place in the list.
Perdidas(r) ==
    {q \in previas \ r.vistas : Unica(q) /\ Cardinality(Delante(r, q)) < r.pagina * Limite}

\* Those that it has not seen at all.
Olvidadas(r) == {q \in previas \ r.vistas : Unica(q)}

\* A walk has lost no more of what its pages have gone past than the quotations that
\* left the list; at the last page that is all of them.
Paseo(r) ==
    /\ previas \subseteq Lista(r)
    /\ Cardinality(Perdidas(r)) <= salidas
    /\ r.pagina >= r.paginas => Cardinality(Olvidadas(r)) <= salidas

\* Inductive invariant of the walks.
RecInv == TInv /\ (lectura \in Listado => lectura.pagina # 0 /\ Paseo(lectura))

LEMMA DelanteFinitas ==
    ASSUME NEW r, NEW q
    PROVE  /\ Delante(r, q) \in SUBSET Lista(r) /\ IsFiniteSet(Delante(r, q))
           /\ Cardinality(Delante(r, q)) \in Nat
<1>1. Delante(r, q) \in SUBSET Lista(r)
  BY DEF Delante
<1>2. IsFiniteSet(Delante(r, q))
  BY <1>1, ListaFinita, FS_Subset
<1>3. QED
  BY <1>1, <1>2, FS_CardinalityType

LEMMA PreviasFinitas ==
    ASSUME TInv, NEW S \in SUBSET previas
    PROVE  IsFiniteSet(S) /\ Cardinality(S) \in Nat
<1>1. S \in SUBSET Cotizaciones
  BY TiposDe
<1>2. IsFiniteSet(S)
  BY <1>1, Supuestos, FS_Subset
<1>3. QED
  BY <1>2, FS_CardinalityType

\* A quotation of the list whose instant nobody shares is before or after any other.
LEMMA Ordenadas ==
    ASSUME NEW r, NEW q \in Lista(r), Unica(q), NEW p \in Lista(r), p # q
    PROVE  /\ Datos[p].fecha \in Nat /\ Datos[q].fecha \in Nat
           /\ Datos[p].fecha # Datos[q].fecha
<1>1. p \in Cotizaciones /\ q \in Cotizaciones
  BY ListaFinita
<1>2. Datos[p].tenant = Datos[q].tenant
  BY ListaFinita
<1>3. estado[p] # Nulo
  BY Supuestos DEF Lista, Encontradas
<1>4. QED
  BY <1>1, <1>2, <1>3, Supuestos DEF Unica, Instante

\* A page shows what it has to: an unseen quotation before its end was before its start.
LEMMA PaginaLee ==
    ASSUME NEW r \in Listado, r.pagina # 0, NEW p \in Paginas(r),
           NEW q \in Lista(r) \ p, Unica(q),
           Cardinality(Delante(r, q)) < r.pagina * Limite
    PROVE  Cardinality(Delante(r, q)) < (r.pagina - 1) * Limite
<1>1. PICK L : L = Lista(r)
  OBVIOUS
<1>2. PICK antes \in SUBSET (L \ p) :
        /\ Cardinality(antes) = Min({Skip(r.pagina), Cardinality(L)})
        /\ Cardinality(p) = Min({Limite, Cardinality(L \ antes)})
        /\ \A a \in antes, o \in p : Datos[a].fecha >= Datos[o].fecha
        /\ \A a \in antes \cup p, o \in L \ (p \cup antes) : Datos[a].fecha >= Datos[o].fecha
  BY <1>1 DEF Paginas
<1>3. p \in SUBSET L /\ q \in L /\ q \notin p
  BY <1>1 DEF Paginas
<1>4. IsFiniteSet(L) /\ IsFiniteSet(antes) /\ IsFiniteSet(p) /\ IsFiniteSet(L \ antes)
  BY <1>1, <1>3, ListaFinita, FS_Subset
<1>5. /\ Cardinality(L) \in Nat /\ Cardinality(antes) \in Nat /\ Cardinality(p) \in Nat
      /\ Cardinality(L \ antes) \in Nat
  BY <1>4, FS_CardinalityType
<1>6. PICK k \in Nat : k = r.pagina /\ k # 0
  BY DEF Listado
<1>7. PICK m \in Nat : m = (k - 1) * Limite
  <2>1. k - 1 \in Nat /\ Limite \in Nat
    BY <1>6, Supuestos
  <2>2. \A x, y \in Nat : x * y \in Nat
    OBVIOUS
  <2>3. QED
    BY <2>1, <2>2
<1>8. k * Limite = m + Limite /\ Limite \in Nat
  <2>1. PICK l \in Nat : l = Limite
    BY Supuestos
  <2>2. k * l = (k - 1) * l + l
    OBVIOUS
  <2>3. QED
    BY <1>7, <2>1, <2>2
<1>9. Cardinality(antes) = IF m <= Cardinality(L) THEN m ELSE Cardinality(L)
  BY <1>2, <1>5, <1>6, <1>7, MinimoDeDos DEF Skip
<1>10. Cardinality(p) = IF Limite <= Cardinality(L \ antes) THEN Limite
                        ELSE Cardinality(L \ antes)
  <2>1. PICK a \in Nat : a = Limite
    BY <1>8
  <2>2. PICK b \in Nat : b = Cardinality(L \ antes)
    BY <1>5
  <2>3. Cardinality(p) = Min({a, b})
    BY <1>2, <2>1, <2>2
  <2>4. a \in Int /\ b \in Int
    OBVIOUS
  <2>5. Min({a, b}) = IF a <= b THEN a ELSE b
    BY <2>4, MinimoDeDos
  <2>6. QED
    BY <2>1, <2>2, <2>3, <2>5
<1>11. Delante(r, q) = {x \in L : Datos[x].fecha > Datos[q].fecha}
  BY <1>1 DEF Delante
<1>12. \A x \in L \ {q} : /\ Datos[x].fecha \in Nat /\ Datos[q].fecha \in Nat
                          /\ Datos[x].fecha # Datos[q].fecha
  BY <1>1, <1>3, Ordenadas
<1>13. q \in antes
  <2>1. SUFFICES ASSUME q \notin antes PROVE FALSE
    OBVIOUS
  <2>2. antes \cup p \subseteq Delante(r, q)
    <3>1. \A a \in antes \cup p : Datos[a].fecha >= Datos[q].fecha /\ a \in L \ {q}
      BY <1>2, <1>3, <2>1
    <3>2. \A a \in antes \cup p : Datos[a].fecha > Datos[q].fecha /\ a \in L
      BY <1>12, <3>1
    <3>3. QED
      BY <1>11, <3>2
  <2>3. Cardinality(antes \cup p) = Cardinality(antes) + Cardinality(p)
    <3>1. antes \cap p = {}
      BY <1>2
    <3>2. Cardinality(antes \cup p) = Cardinality(antes) + Cardinality(p) - Cardinality(antes \cap p)
      BY <1>4, FS_Union
    <3>3. Cardinality(antes \cap p) = 0
      BY <3>1, FS_EmptySet
    <3>4. QED
      BY <1>5, <3>2, <3>3
  <2>4. Cardinality(antes \cup p) <= Cardinality(Delante(r, q))
    BY <2>2, DelanteFinitas, FS_Subset
  <2>5. antes # L /\ p # L \ antes /\ p \in SUBSET (L \ antes)
    BY <1>2, <1>3, <2>1
  <2>6. Cardinality(antes) < Cardinality(L)
    <3>1. Cardinality(antes) <= Cardinality(L) /\ Cardinality(antes) # Cardinality(L)
      BY <1>2, <1>4, <2>5, FS_Subset
    <3>2. QED
      BY <1>5, <3>1
  <2>7. Cardinality(p) < Cardinality(L \ antes)
    <3>1. Cardinality(p) <= Cardinality(L \ antes) /\ Cardinality(p) # Cardinality(L \ antes)
      BY <1>4, <2>5, FS_Subset
    <3>2. QED
      BY <1>5, <3>1
  <2>8. Cardinality(antes) = m /\ Cardinality(p) = Limite
    BY <1>5, <1>9, <1>10, <2>6, <2>7
  <2>9. m + Limite <= Cardinality(Delante(r, q))
    BY <2>3, <2>4, <2>8
  <2>10. Cardinality(Delante(r, q)) < m + Limite
    BY <1>6, <1>8
  <2>11. QED
    BY <1>8, <2>9, <2>10, DelanteFinitas
<1>14. Delante(r, q) \in SUBSET (antes \ {q})
  <2>1. SUFFICES ASSUME NEW x \in Delante(r, q) PROVE x \in antes /\ x # q
    OBVIOUS
  <2>2. x \in L /\ Datos[x].fecha > Datos[q].fecha
    BY <1>11
  <2>3. Datos[q].fecha \in Nat
    BY <1>3, <1>1, ListaFinita, Supuestos DEF Instante
  <2>4. x # q
    BY <2>2, <2>3
  <2>5. Datos[x].fecha \in Nat
    BY <1>12, <2>2, <2>4
  <2>6. CASE x \in p
    <3>1. Datos[q].fecha >= Datos[x].fecha
      BY <1>2, <1>13, <2>6
    <3>2. QED
      BY <2>2, <2>3, <2>5, <3>1
  <2>7. CASE x \notin p /\ x \notin antes
    <3>1. Datos[q].fecha >= Datos[x].fecha
      BY <1>2, <1>13, <2>2, <2>7
    <3>2. QED
      BY <2>2, <2>3, <2>5, <3>1
  <2>8. QED
    BY <2>4, <2>6, <2>7
<1>15. Cardinality(antes \ {q}) = Cardinality(antes) - 1 /\ IsFiniteSet(antes \ {q})
  BY <1>4, <1>13, FS_RemoveElement
<1>16. Cardinality(Delante(r, q)) <= Cardinality(antes) - 1
  BY <1>14, <1>15, FS_Subset
<1>17. Cardinality(antes) <= m
  BY <1>5, <1>9
<1>18. Cardinality(Delante(r, q)) < m
  BY <1>5, <1>16, <1>17, DelanteFinitas
<1>19. QED
  BY <1>6, <1>7, <1>18

\* Two quotations of the list that nobody ties have different numbers of them before.
LEMMA LugaresDistintos ==
    ASSUME NEW r, NEW x \in Lista(r), NEW y \in Lista(r), x # y, Unica(x)
    PROVE  Cardinality(Delante(r, x)) # Cardinality(Delante(r, y))
<1>1. \A a, b \in Lista(r) :
        /\ Datos[a].fecha \in Nat /\ Datos[b].fecha \in Nat
        /\ Datos[a].fecha > Datos[b].fecha =>
             Cardinality(Delante(r, a)) < Cardinality(Delante(r, b))
  <2>1. TAKE a, b \in Lista(r)
  <2>2. \A z \in Lista(r) : Datos[z].fecha \in Nat
    BY ListaFinita, Supuestos DEF Instante
  <2>3. ASSUME Datos[a].fecha > Datos[b].fecha
        PROVE  Cardinality(Delante(r, a)) < Cardinality(Delante(r, b))
    <3>1. Delante(r, a) \in SUBSET Delante(r, b)
      BY <2>2, <2>3 DEF Delante
    <3>2. a \in Delante(r, b) /\ a \notin Delante(r, a)
      BY <2>2, <2>3 DEF Delante
    <3>3. /\ Cardinality(Delante(r, a)) <= Cardinality(Delante(r, b))
          /\ Cardinality(Delante(r, a)) = Cardinality(Delante(r, b)) =>
               Delante(r, a) = Delante(r, b)
      BY <3>1, DelanteFinitas, FS_Subset
    <3>4. QED
      BY <3>2, <3>3, DelanteFinitas
  <2>4. QED
    BY <2>2, <2>3
<1>2. Datos[x].fecha # Datos[y].fecha
  BY Ordenadas
<1>3. Datos[x].fecha > Datos[y].fecha \/ Datos[y].fecha > Datos[x].fecha
  BY <1>1, <1>2
<1>4. QED
  BY <1>1, <1>3, DelanteFinitas

\* What a write does to the list.
LEMMA ListaTrasEscribir ==
    ASSUME TInv, NEW q \in Cotizaciones, NEW e \in Estados, Escribir(q, e), NEW r
    PROVE  /\ Lista(r) \ {q} = Lista(r)' \ {q}
           /\ \A x : Unica(x)' => Unica(x)
<1>1. estado' = [estado EXCEPT ![q] = e] /\ estado \in [Cotizaciones -> Estados \cup {Nulo}]
  BY EscribirEs, TiposDe
<1>2. \A x \in Cotizaciones \ {q} : estado'[x] = estado[x]
  BY <1>1
<1>3. e # Nulo /\ estado'[q] = e
  BY <1>1, Supuestos
<1>4. \A x \in Cotizaciones : estado[x] # Nulo => estado'[x] # Nulo
  BY <1>2, <1>3
<1>5. Lista(r) \ {q} = Lista(r)' \ {q}
  BY <1>2 DEF Lista, Encontradas
<1>6. \A x : Unica(x)' => Unica(x)
  BY <1>4 DEF Unica
<1>7. QED
  BY <1>5, <1>6

\* A write that takes nothing out of the list leaves nobody behind.
LEMMA PaseoSiCrece ==
    ASSUME TInv, NEW r \in Listado, Paseo(r), UNCHANGED <<previas, salidas>>,
           Lista(r) \subseteq Lista(r)', IsFiniteSet(Lista(r)'),
           \A x : Unica(x)' => Unica(x)
    PROVE  Paseo(r)'
<1>1. \A x : Delante(r, x) \in SUBSET Delante(r, x)'
  BY DEF Delante
<1>2. \A x : IsFiniteSet(Delante(r, x)')
  <2>1. \A x : Delante(r, x)' \in SUBSET (Lista(r)')
    BY DEF Delante
  <2>2. QED
    BY <2>1, FS_Subset
<1>3. \A x : /\ Cardinality(Delante(r, x)) <= Cardinality(Delante(r, x)')
             /\ Cardinality(Delante(r, x)) \in Nat /\ Cardinality(Delante(r, x)') \in Nat
  BY <1>1, <1>2, FS_Subset, FS_CardinalityType, DelanteFinitas
<1>4. PICK n \in Nat : n = r.pagina * Limite
  <2>1. r.pagina \in Nat /\ Limite \in Nat
    BY Supuestos DEF Listado
  <2>2. \A a, b \in Nat : a * b \in Nat
    OBVIOUS
  <2>3. QED
    BY <2>1, <2>2
<1>5. \A x : Cardinality(Delante(r, x)') < n => Cardinality(Delante(r, x)) < n
  BY <1>3
<1>6. Perdidas(r)' \in SUBSET Perdidas(r)
  BY <1>4, <1>5 DEF Perdidas
<1>7. Olvidadas(r)' \in SUBSET Olvidadas(r)
  BY DEF Olvidadas
<1>8. Perdidas(r) \in SUBSET previas /\ Olvidadas(r) \in SUBSET previas
  BY DEF Perdidas, Olvidadas
<1>9. /\ Cardinality(Perdidas(r)') <= Cardinality(Perdidas(r))
      /\ Cardinality(Olvidadas(r)') <= Cardinality(Olvidadas(r))
      /\ IsFiniteSet(Perdidas(r)') /\ IsFiniteSet(Olvidadas(r)')
  BY <1>6, <1>7, <1>8, PreviasFinitas, FS_Subset
<1>10. /\ Cardinality(Perdidas(r)') \in Nat /\ Cardinality(Olvidadas(r)') \in Nat
       /\ Cardinality(Perdidas(r)) \in Nat /\ Cardinality(Olvidadas(r)) \in Nat
  BY <1>8, <1>9, PreviasFinitas, FS_CardinalityType
<1>11. previas' \subseteq Lista(r)'
  BY DEF Paseo
<1>12. salidas' = salidas /\ salidas \in Nat
  BY TiposDe
<1>13. QED
  BY <1>9, <1>10, <1>11, <1>12 DEF Paseo

\* When a quotation leaves the list the places of those behind it move up by one: at
\* most one that nobody ties slips past the pages already read.
LEMMA PaseoSiSale ==
    ASSUME TInv, NEW r \in Listado, Paseo(r), NEW q \in Cotizaciones,
           Lista(r)' = Lista(r) \ {q}, previas' = previas \ {q}, salidas' = salidas + 1,
           \A x : Unica(x)' => Unica(x)
    PROVE  Paseo(r)'
<1>1. \A x : Delante(r, x)' = Delante(r, x) \ {q}
  BY DEF Delante
<1>2. \A x : /\ IsFiniteSet(Delante(r, x)) /\ Cardinality(Delante(r, x)) \in Nat
             /\ Cardinality(Delante(r, x)') \in Nat
             /\ Cardinality(Delante(r, x)) <= Cardinality(Delante(r, x)') + 1
  <2>1. TAKE x
  <2>2. IsFiniteSet(Delante(r, x)) /\ Cardinality(Delante(r, x)) \in Nat
    BY DelanteFinitas
  <2>3. /\ IsFiniteSet(Delante(r, x) \ {q})
        /\ Cardinality(Delante(r, x) \ {q}) = IF q \in Delante(r, x)
                                              THEN Cardinality(Delante(r, x)) - 1
                                              ELSE Cardinality(Delante(r, x))
    BY <2>2, FS_RemoveElement
  <2>4. Cardinality(Delante(r, x) \ {q}) \in Nat
    BY <2>3, FS_CardinalityType
  <2>5. PICK m \in Nat : m = Cardinality(Delante(r, x))
    BY <2>2
  <2>6. PICK l \in Nat : l = Cardinality(Delante(r, x) \ {q})
    BY <2>4
  <2>7. l = m \/ l = m - 1
    BY <2>3, <2>5, <2>6
  <2>8. m <= l + 1
    BY <2>7
  <2>9. Cardinality(Delante(r, x)') = l
    BY <1>1, <2>6
  <2>10. QED
    BY <2>2, <2>5, <2>8, <2>9
<1>3. PICK n \in Nat : n = r.pagina * Limite
  <2>1. r.pagina \in Nat /\ Limite \in Nat
    BY Supuestos DEF Listado
  <2>2. \A a, b \in Nat : a * b \in Nat
    OBVIOUS
  <2>3. QED
    BY <2>1, <2>2
<1> DEFINE Nuevas == Perdidas(r)' \ Perdidas(r)
<1>4. \A x \in Nuevas : /\ x \in Lista(r) /\ Unica(x)
                        /\ Cardinality(Delante(r, x)) = n
  <2>1. TAKE x \in Nuevas
  <2>2. x \in previas \ r.vistas /\ Unica(x) /\ Cardinality(Delante(r, x)') < n
    BY <1>3 DEF Perdidas
  <2>3. ~(Cardinality(Delante(r, x)) < n)
    BY <1>3, <2>2 DEF Perdidas
  <2>4. x \in Lista(r)
    BY <2>2 DEF Paseo
  <2>5. QED
    BY <1>2, <2>2, <2>3, <2>4
<1>5. \A x, y \in Nuevas : x = y
  BY <1>4, LugaresDistintos
<1> HIDE DEF Nuevas
<1>6. IsFiniteSet(Nuevas) /\ Cardinality(Nuevas) \in 0..1
  <2>1. CASE Nuevas = {}
    BY <2>1, FS_EmptySet
  <2>2. CASE Nuevas # {}
    <3>1. PICK x : Nuevas = {x}
      BY <1>5, <2>2
    <3>2. IsFiniteSet({x}) /\ Cardinality({x}) = 1
      BY FS_Singleton
    <3>3. QED
      BY <3>1, <3>2
  <2>3. QED
    BY <2>1, <2>2
<1>7. Perdidas(r)' \in SUBSET (Perdidas(r) \cup Nuevas)
  BY DEF Nuevas
<1>8. Olvidadas(r)' \in SUBSET Olvidadas(r)
  BY DEF Olvidadas
<1>9. Perdidas(r) \in SUBSET previas /\ Olvidadas(r) \in SUBSET previas
  BY DEF Perdidas, Olvidadas
<1>10. /\ IsFiniteSet(Perdidas(r)) /\ Cardinality(Perdidas(r)) \in Nat
       /\ IsFiniteSet(Olvidadas(r)) /\ Cardinality(Olvidadas(r)) \in Nat
  BY <1>9, PreviasFinitas
<1>11. /\ IsFiniteSet(Perdidas(r) \cup Nuevas)
       /\ Cardinality(Perdidas(r) \cup Nuevas) <= Cardinality(Perdidas(r)) + 1
  <2>1. /\ IsFiniteSet(Perdidas(r) \cup Nuevas)
        /\ Cardinality(Perdidas(r) \cup Nuevas)
             = Cardinality(Perdidas(r)) + Cardinality(Nuevas)
                 - Cardinality(Perdidas(r) \cap Nuevas)
    BY <1>6, <1>10, FS_Union
  <2>2. Cardinality(Perdidas(r) \cap Nuevas) \in Nat
    BY <1>6, FS_Subset, FS_CardinalityType
  <2>3. QED
    BY <1>6, <1>10, <2>1, <2>2
<1>12. /\ Cardinality(Perdidas(r)') <= Cardinality(Perdidas(r) \cup Nuevas)
       /\ Cardinality(Olvidadas(r)') <= Cardinality(Olvidadas(r))
       /\ IsFiniteSet(Perdidas(r)') /\ IsFiniteSet(Olvidadas(r)')
  BY <1>7, <1>8, <1>10, <1>11, FS_Subset
<1>13. /\ Cardinality(Perdidas(r)') \in Nat /\ Cardinality(Olvidadas(r)') \in Nat
       /\ Cardinality(Perdidas(r) \cup Nuevas) \in Nat
  BY <1>11, <1>12, FS_CardinalityType
<1>14. Cardinality(Perdidas(r)') <= Cardinality(Perdidas(r)) + 1
  BY <1>10, <1>11, <1>12, <1>13
<1>15. previas' \subseteq Lista(r)'
  BY DEF Paseo
<1>16. salidas \in Nat
  BY TiposDe
<1>17. Cardinality(Perdidas(r)) <= salidas
       /\ (r.pagina >= r.paginas => Cardinality(Olvidadas(r)) <= salidas)
  BY DEF Paseo
<1>18. Cardinality(Perdidas(r)') <= salidas'
  BY <1>10, <1>13, <1>14, <1>16, <1>17
<1>19. r.pagina >= r.paginas => Cardinality(Olvidadas(r)') <= salidas'
  BY <1>10, <1>12, <1>13, <1>16, <1>17
<1>20. QED
  BY <1>15, <1>18, <1>19 DEF Paseo

LEMMA EscribirPaseo ==
    ASSUME RecInv, NEW q \in Cotizaciones, NEW e \in Estados, Escribir(q, e)
    PROVE  RecInv'
<1>1. TInv /\ TInv'
  BY EscribirTipos DEF RecInv
<1>2. PICK r : r = lectura
  OBVIOUS
<1>3. lectura' = r
  BY <1>1, <1>2, EscribirEs
<1>4. SUFFICES ASSUME r \in Listado PROVE r.pagina # 0 /\ Paseo(r)'
  BY <1>1, <1>2, <1>3 DEF RecInv
<1>5. r.pagina # 0 /\ Paseo(r)
  BY <1>2, <1>4 DEF RecInv
<1>6. r.op = "listado"
  BY <1>4 DEF Listado
<1>7. Lista(r) \ {q} = Lista(r)' \ {q} /\ \A x : Unica(x)' => Unica(x)
  BY <1>1, ListaTrasEscribir
<1>8. /\ q \in Lista(r) \ Lista(r)' => previas' = previas \ {q} /\ salidas' = salidas + 1
      /\ q \notin Lista(r) \ Lista(r)' => UNCHANGED <<previas, salidas>>
  <2>1. Lista(lectura)' = Lista(r)'
    BY <1>3 DEF Lista
  <2>2. QED
    BY <1>2, <1>6, <2>1 DEF Escribir
<1>9. CASE q \in Lista(r) \ Lista(r)'
  <2>1. Lista(r)' = Lista(r) \ {q}
    BY <1>7, <1>9
  <2>2. QED
    BY <1>1, <1>4, <1>5, <1>7, <1>8, <1>9, <2>1, PaseoSiSale
<1>10. CASE q \notin Lista(r) \ Lista(r)'
  <2>1. Lista(r) \subseteq Lista(r)'
    BY <1>7, <1>10
  <2>2. IsFiniteSet(Lista(r)')
    <3>1. Lista(r)' \in SUBSET Cotizaciones
      BY DEF Lista, Encontradas
    <3>2. QED
      BY <3>1, Supuestos, FS_Subset
  <2>3. QED
    BY <1>1, <1>4, <1>5, <1>7, <1>8, <1>10, <2>1, <2>2, PaseoSiCrece
<1>11. QED
  BY <1>5, <1>9, <1>10

\* The place in the list of a quotation, and the store, are the same after a reading.
LEMMA MismaLista ==
    ASSUME UNCHANGED estado, NEW r
    PROVE  /\ Lista(r)' = Lista(r)
           /\ \A x : Delante(r, x)' = Delante(r, x)
           /\ \A x : Unica(x)' = Unica(x)
BY DEF Lista, Encontradas, Delante, Unica

\* Two readings of the same tenant and filter have the same list.
LEMMA ListaDe ==
    ASSUME NEW r, NEW s, s.tenant = r.tenant, s.estado = r.estado
    PROVE  Lista(s) = Lista(r) /\ \A x : Delante(s, x) = Delante(r, x)
BY DEF Lista, Delante

\* After a page nobody before its end is missing but those missing before its start,
\* and when it is the last page nobody else is.
LEMMA TrasPagina ==
    ASSUME NEW r \in Listado, r.pagina # 0, NEW s \in ConPagina(r),
           NEW v \in SUBSET Lista(r), NEW q \in v \ s.vistas, Unica(q)
    PROVE  /\ Cardinality(Delante(s, q)) < s.pagina * Limite =>
                /\ q \notin r.vistas
                /\ Cardinality(Delante(r, q)) < (r.pagina - 1) * Limite
           /\ s.pagina >= s.paginas => Cardinality(Delante(s, q)) < s.pagina * Limite
<1>1. /\ s \in Listado /\ s.tenant = r.tenant /\ s.estado = r.estado /\ s.pagina = r.pagina
      /\ s.paginas = TotalPages(Cardinality(Lista(r)))
  BY PaginaTipo
<1>2. PICK p \in Paginas(r) : s.vistas = r.vistas \cup p
  BY PaginaTipo
<1>3. Lista(s) = Lista(r) /\ \A x : Delante(s, x) = Delante(r, x)
  BY <1>1, ListaDe
<1>4. ASSUME Cardinality(Delante(s, q)) < s.pagina * Limite
      PROVE  q \notin r.vistas /\ Cardinality(Delante(r, q)) < (r.pagina - 1) * Limite
  <2>1. Cardinality(Delante(r, q)) < r.pagina * Limite
    BY <1>1, <1>3, <1>4
  <2>2. q \in Lista(r) \ p /\ q \notin r.vistas
    BY <1>2
  <2>3. Cardinality(Delante(r, q)) < (r.pagina - 1) * Limite
    BY <2>1, <2>2, PaginaLee
  <2>4. QED
    BY <2>2, <2>3
<1>5. ASSUME s.pagina >= s.paginas
      PROVE  Cardinality(Delante(s, q)) < s.pagina * Limite
  <2>1. q \in Lista(r)
    OBVIOUS
  <2>2. PICK n \in Nat : n = Cardinality(Lista(r))
    BY ListaFinita
  <2>3. r.pagina \in Nat /\ r.pagina >= TotalPages(n)
    BY <1>1, <1>5, <2>2 DEF Listado
  <2>4. r.pagina * Limite >= n
    BY <2>3, Paginacion
  <2>5. Cardinality(Delante(r, q)) < n
    <3>1. q \notin Delante(r, q)
      <4>1. Datos[q].fecha \in Nat
        BY <2>1, ListaFinita, Supuestos DEF Instante
      <4>2. QED
        BY <4>1 DEF Delante
    <3>2. Delante(r, q) # Lista(r)
      BY <2>1, <3>1
    <3>3. /\ Cardinality(Delante(r, q)) <= n
          /\ Cardinality(Delante(r, q)) # n
      BY <2>2, <3>2, DelanteFinitas, ListaFinita, FS_Subset
    <3>4. QED
      BY <3>3, DelanteFinitas
  <2>6. PICK m \in Nat : m = r.pagina * Limite
    <3>1. r.pagina \in Nat /\ Limite \in Nat
      BY <2>3, Supuestos
    <3>2. \A a, b \in Nat : a * b \in Nat
      OBVIOUS
    <3>3. QED
      BY <3>1, <3>2
  <2>7. Cardinality(Delante(r, q)) < m
    BY <2>4, <2>5, <2>6, DelanteFinitas
  <2>8. QED
    BY <1>1, <1>3, <2>6, <2>7
<1>6. QED
  BY <1>4, <1>5

\* An answer keeps the walk when those that were missing before its page were few.
LEMMA PaseoTrasPagina ==
    ASSUME NEW r \in Listado, r.pagina # 0, NEW s \in ConPagina(r),
           UNCHANGED estado, NEW v \in SUBSET Lista(r), previas' = v,
           salidas' \in Nat, NEW B, IsFiniteSet(B), Cardinality(B) <= salidas',
           \A q \in v \ r.vistas :
              Unica(q) /\ Cardinality(Delante(r, q)) < (r.pagina - 1) * Limite => q \in B
    PROVE  s.pagina # 0 /\ Paseo(s)'
<1>1. s.tenant = r.tenant /\ s.estado = r.estado /\ s.pagina = r.pagina
  BY PaginaTipo
<1>2. Lista(s)' = Lista(r)
  BY <1>1, ListaDe, MismaLista
<1>3. \A q \in v \ s.vistas : Unica(q) /\ Cardinality(Delante(s, q)) < s.pagina * Limite
                                => q \in B
  <2>1. TAKE q \in v \ s.vistas
  <2>2. HAVE Unica(q) /\ Cardinality(Delante(s, q)) < s.pagina * Limite
  <2>3. q \notin r.vistas /\ Cardinality(Delante(r, q)) < (r.pagina - 1) * Limite
    BY <2>2, TrasPagina
  <2>4. QED
    BY <2>2, <2>3
<1>4. s.pagina >= s.paginas =>
        \A q \in v \ s.vistas : Unica(q) => Cardinality(Delante(s, q)) < s.pagina * Limite
  BY TrasPagina
<1>5. \A x : Delante(s, x)' = Delante(s, x) /\ Unica(x)' = Unica(x)
  BY MismaLista
<1>6. Perdidas(s)' \in SUBSET B
  BY <1>3, <1>5 DEF Perdidas
<1>7. s.pagina >= s.paginas => Olvidadas(s)' \in SUBSET B
  BY <1>3, <1>4, <1>5 DEF Olvidadas
<1>8. \A S \in SUBSET B : Cardinality(S) <= salidas'
  <2>1. TAKE S \in SUBSET B
  <2>2. /\ IsFiniteSet(S) /\ Cardinality(S) <= Cardinality(B)
        /\ Cardinality(S) \in Nat /\ Cardinality(B) \in Nat
    BY FS_Subset, FS_CardinalityType
  <2>3. QED
    BY <2>2
<1>9. QED
  BY <1>1, <1>2, <1>6, <1>7, <1>8 DEF Paseo

LEMMA FindAllPaseo == RecInv /\ FindAll => RecInv'
<1>1. SUFFICES ASSUME RecInv, FindAll PROVE RecInv'
  OBVIOUS
<1>2. TInv /\ TInv'
  BY <1>1, FindAllTipos DEF RecInv
<1>3. PICK r \in Listado : /\ r.pagina = 1 /\ r.vistas = {}
                           /\ lectura' \in ConPagina(r) /\ previas' = Lista(r)
  BY <1>1, <1>2, FindAllEs
<1>4. PICK s \in ConPagina(r) : lectura' = s
  BY <1>3
<1>5. salidas' = 0 /\ UNCHANGED estado
  BY <1>1, <1>2, FindAllEs
<1>6. IsFiniteSet({}) /\ Cardinality({}) = 0
  BY FS_EmptySet
<1>7. \A q : ~(Cardinality(Delante(r, q)) < (r.pagina - 1) * Limite)
  <2>1. (r.pagina - 1) * Limite = 0
    <3>1. PICK l \in Nat : l = Limite
      BY Supuestos
    <3>2. (1 - 1) * l = 0
      OBVIOUS
    <3>3. QED
      BY <1>3, <3>1, <3>2
  <2>2. \A n \in Nat : ~(n < 0)
    OBVIOUS
  <2>3. QED
    BY <2>1, <2>2, DelanteFinitas
<1>8. s.pagina # 0 /\ Paseo(s)'
  <2>1. PICK B : B = {}
    OBVIOUS
  <2>2. IsFiniteSet(B) /\ Cardinality(B) <= salidas' /\ salidas' \in Nat
    BY <1>5, <1>6, <2>1
  <2>3. PICK v \in SUBSET Lista(r) : v = Lista(r)
    OBVIOUS
  <2>4. previas' = v /\ r.pagina # 0
    BY <1>3, <2>3
  <2>5. QED
    BY <1>5, <1>7, <2>2, <2>4, PaseoTrasPagina
<1>9. QED
  BY <1>2, <1>4, <1>8 DEF RecInv, Paseo, Perdidas, Olvidadas, Lista, Delante

LEMMA SiguientePaseo == RecInv /\ SiguientePagina => RecInv'
<1>1. SUFFICES ASSUME RecInv, SiguientePagina PROVE RecInv'
  OBVIOUS
<1>2. TInv /\ TInv'
  BY <1>1, SiguienteTipos DEF RecInv
<1>3. PICK r \in Listado :
        /\ r.pagina = lectura.pagina + 1 /\ r.vistas = lectura.vistas
        /\ r.tenant = lectura.tenant /\ r.estado = lectura.estado
        /\ lectura' \in ConPagina(r)
  BY <1>1, <1>2, SiguienteEs
<1>4. lectura \in Listado /\ UNCHANGED <<estado, previas, salidas>>
  BY <1>1, <1>2, SiguienteEs
<1>5. PICK s \in ConPagina(r) : lectura' = s
  BY <1>3
<1>6. PICK o \in Listado : o = lectura
  BY <1>4
<1>7. o.pagina \in Nat /\ r.pagina # 0 /\ r.pagina - 1 = o.pagina
  BY <1>3, <1>6 DEF Listado
<1>8. Paseo(o)
  BY <1>1, <1>6 DEF RecInv
<1>9. Lista(r) = Lista(o) /\ \A x : Delante(r, x) = Delante(o, x)
  BY <1>3, <1>6, ListaDe
<1>10. PICK v : v = previas
  OBVIOUS
<1>11. v \in SUBSET Lista(r) /\ previas' = v
  BY <1>4, <1>8, <1>9, <1>10 DEF Paseo
<1>12. PICK B : B = Perdidas(o)
  OBVIOUS
<1>13. IsFiniteSet(B) /\ Cardinality(B) <= salidas'
  <2>1. Perdidas(o) \in SUBSET previas
    BY DEF Perdidas
  <2>2. QED
    BY <1>2, <1>4, <1>8, <1>12, <2>1, PreviasFinitas DEF Paseo
<1>14. \A q \in v \ r.vistas :
         Unica(q) /\ Cardinality(Delante(r, q)) < (r.pagina - 1) * Limite => q \in B
  BY <1>3, <1>6, <1>7, <1>9, <1>10, <1>12 DEF Perdidas
<1>15. salidas' \in Nat
  BY <1>2, <1>4, TiposDe
<1>16. s.pagina # 0 /\ Paseo(s)'
  BY <1>4, <1>7, <1>11, <1>13, <1>14, <1>15, PaseoTrasPagina
<1>17. QED
  BY <1>2, <1>5, <1>16 DEF RecInv, Paseo, Perdidas, Olvidadas, Lista, Delante

\* A step that leaves no walk behind it.
LEMMA SinPaseo ==
    ASSUME RecInv, GetTotalsMetrics \/ Consultar \/ Terminar
    PROVE  RecInv'
<1>1. TInv /\ TInv'
  BY MetricasTipos, ConsultarTipos, TerminarTipos DEF RecInv
<1>2. lectura' \in Lectura
  BY <1>1 DEF TInv
<1>3. lectura' \notin Listado
  <2>1. CASE GetTotalsMetrics
    <3>1. lectura'.op = "metricas"
      BY <2>1 DEF GetTotalsMetrics, Leer
    <3>2. QED
      BY <3>1 DEF Listado
  <2>2. CASE Consultar
    <3>1. lectura' \in Metricas
      BY <1>1, <2>2, ConsultarEs
    <3>2. QED
      BY <1>2, <3>1, Clases
  <2>3. CASE Terminar
    <3>1. lectura' = Libre
      BY <2>3 DEF Terminar, Leer
    <3>2. QED
      BY <1>2, <3>1, Clases
  <2>4. QED
    BY <2>1, <2>2, <2>3
<1>4. QED
  BY <1>1, <1>3 DEF RecInv

\* The walk does not see the clock.
LEMMA QuietoPaseo ==
    ASSUME RecInv, TInv', UNCHANGED <<estado, lectura, previas, salidas>>
    PROVE  RecInv'
<1>1. PICK r : r = lectura
  OBVIOUS
<1>2. Paseo(r)' = Paseo(r)
  BY MismaLista DEF Paseo, Perdidas, Olvidadas
<1>3. Paseo(lectura)' = Paseo(r)'
  BY <1>1 DEF Paseo, Perdidas, Olvidadas, Lista, Delante
<1>4. QED
  BY <1>1, <1>2, <1>3 DEF RecInv

LEMMA PasoPaseo == RecInv /\ [Next]_vars => RecInv'
<1>1. SUFFICES ASSUME RecInv, [Next]_vars PROVE RecInv'
  OBVIOUS
<1>2. TInv /\ TInv'
  BY <1>1, PasoTipos DEF RecInv
<1>3. CASE \E q \in Cotizaciones : Crear(q) \/ CambiarEstado(q)
  BY <1>1, <1>2, <1>3, Escritor, EscribirPaseo
<1>4. CASE UNCHANGED vars \/ Tick
  <2>1. UNCHANGED <<estado, lectura, previas, salidas>>
    BY <1>4 DEF vars, Tick
  <2>2. QED
    BY <1>1, <1>2, <2>1, QuietoPaseo
<1>5. QED
  BY <1>1, <1>3, <1>4, FindAllPaseo, SiguientePaseo, SinPaseo DEF Next

LEMMA PaseoSiempre == Spec => []RecInv
<1>1. Init => RecInv
  <2>1. SUFFICES ASSUME Init PROVE RecInv
    OBVIOUS
  <2>2. TInv /\ lectura = Libre
    BY <2>1, InicioTipos DEF Init
  <2>3. Libre \notin Listado
    BY Clases DEF Lectura
  <2>4. QED
    BY <2>2, <2>3 DEF RecInv
<1>2. QED
  BY <1>1, PasoPaseo, PTL DEF Spec

\* Whoever reads all the pages of the list, of whatever size, has seen every quotation
\* that was in it all along but for one for each that left it and for those that share
\* their instant: pages by skip lose nothing to what is created meanwhile.
THEOREM PaseoCompleto == Spec => []RecorridoCompleto
<1>1. RecInv => RecorridoCompleto
  <2>1. SUFFICES ASSUME RecInv, lectura.op = "listado", lectura.pagina >= lectura.paginas
                 PROVE  Cardinality({q \in previas \ lectura.vistas : Unica(q)}) <= salidas
    BY DEF RecorridoCompleto
  <2>2. lectura \in Listado
    BY <2>1, Clases DEF RecInv, TInv
  <2>3. QED
    BY <2>1, <2>2 DEF RecInv, Paseo, Olvidadas
<1>2. QED
  BY <1>1, PaseoSiempre, PTL

-----------------------------------------------------------------------------
(* The summaries *)

\* The functions that Veces and Importe sum.
Cantidades(ls) == [l \in ls |-> LineaDe(l).cantidad]
Subtotales(ls) == [l \in ls |-> ItemSubtotal(l)]

LEMMA SumasDeLineas ==
    ASSUME NEW ls
    PROVE  /\ Veces(ls) = SumFunctionOnSet(Cantidades(ls), ls)
           /\ Importe(ls) = SumFunctionOnSet(Subtotales(ls), ls)
<1>1. DOMAIN Cantidades(ls) = ls /\ DOMAIN Subtotales(ls) = ls
  BY DEF Cantidades, Subtotales
<1>2. Veces(ls) = SumFunction(Cantidades(ls)) /\ Importe(ls) = SumFunction(Subtotales(ls))
  BY DEF Veces, Importe, Cantidades, Subtotales
<1>3. QED
  BY <1>1, <1>2 DEF SumFunction

\* The sum over some lines is the sum of those of each of their classes.
LEMMA SumasPorClase ==
    ASSUME NEW ls \in SUBSET Todas, NEW B, IsFiniteSet(B), NEW k, \A l \in ls : k[l] \in B
    PROVE  /\ SumFunction([b \in B |-> Veces(Clase(ls, k, b))]) = Veces(ls)
           /\ SumFunction([b \in B |-> Importe(Clase(ls, k, b))]) = Importe(ls)
<1>1. IsFiniteSet(ls)
  BY TodasFinitas, FS_Subset
<1>2. \A l \in ls : Cantidades(ls)[l] \in Nat /\ Subtotales(ls)[l] \in Nat
  BY LineaTipos DEF Cantidades, Subtotales
<1>3. ASSUME NEW c \in SUBSET ls
      PROVE  /\ Veces(c) = SumFunctionOnSet(Cantidades(ls), c)
             /\ Importe(c) = SumFunctionOnSet(Subtotales(ls), c)
  <2>1. IsFiniteSet(c)
    BY <1>1, FS_Subset
  <2>2. \A l \in c : Cantidades(ls)[l] \in Nat /\ Cantidades(c)[l] = Cantidades(ls)[l]
    BY <1>2 DEF Cantidades
  <2>3. \A l \in c : Subtotales(ls)[l] \in Nat /\ Subtotales(c)[l] = Subtotales(ls)[l]
    BY <1>2 DEF Subtotales
  <2>4. SumFunctionOnSet(Cantidades(c), c) = SumFunctionOnSet(Cantidades(ls), c)
    BY <2>1, <2>2, SumaIgual
  <2>5. SumFunctionOnSet(Subtotales(c), c) = SumFunctionOnSet(Subtotales(ls), c)
    BY <2>1, <2>3, SumaIgual
  <2>6. QED
    BY <2>4, <2>5, SumasDeLineas
<1>4. \A b \in B : Clase(ls, k, b) \in SUBSET ls
  BY DEF Clase
<1>5. /\ [b \in B |-> Veces(Clase(ls, k, b))]
           = [b \in B |-> SumFunctionOnSet(Cantidades(ls), Clase(ls, k, b))]
      /\ [b \in B |-> Importe(Clase(ls, k, b))]
           = [b \in B |-> SumFunctionOnSet(Subtotales(ls), Clase(ls, k, b))]
  BY <1>3, <1>4
<1>6. \A g : DOMAIN g = B => SumFunction(g) = SumFunctionOnSet(g, B)
  BY DEF SumFunction
<1>7. /\ SumFunctionOnSet([b \in B |-> SumFunctionOnSet(Cantidades(ls), Clase(ls, k, b))], B)
           = SumFunctionOnSet(Cantidades(ls), ls)
      /\ SumFunctionOnSet([b \in B |-> SumFunctionOnSet(Subtotales(ls), Clase(ls, k, b))], B)
           = SumFunctionOnSet(Subtotales(ls), ls)
  BY <1>1, <1>2, SumaPorClases
<1>8. PICK u : u = [b \in B |-> Veces(Clase(ls, k, b))]
  OBVIOUS
<1>9. PICK w : w = [b \in B |-> Importe(Clase(ls, k, b))]
  OBVIOUS
<1>10. SumFunction(u) = Veces(ls)
  <2>1. DOMAIN u = B
    BY <1>8
  <2>2. SumFunction(u) = SumFunctionOnSet(u, B)
    BY <1>6, <2>1
  <2>3. QED
    BY <1>5, <1>7, <1>8, <2>2, SumasDeLineas
<1>11. SumFunction(w) = Importe(ls)
  <2>1. DOMAIN w = B
    BY <1>9
  <2>2. SumFunction(w) = SumFunctionOnSet(w, B)
    BY <1>6, <2>1
  <2>3. QED
    BY <1>5, <1>7, <1>9, <2>2, SumasDeLineas
<1>12. QED
  BY <1>8, <1>9, <1>10, <1>11

\* The buckets of the breakdown, and the items, share out the accepted lines.
LEMMA DesgloseSuma ==
    ASSUME NEW tn, NEW f
    PROVE  /\ SumaBuckets(Desglose(tn, f)).veces = Veces(Aceptadas(tn, f))
           /\ SumaBuckets(Desglose(tn, f)).ingresos = Importe(Aceptadas(tn, f))
           /\ SumFunction(ServicesMetrics(tn, f)) = Veces(Aceptadas(tn, f))
           /\ SumFunction(RentaPorServicio(tn, f)) = Importe(Aceptadas(tn, f))
<1>1. PICK ls : ls = Aceptadas(tn, f)
  OBVIOUS
<1>2. ls \in SUBSET Todas
  BY <1>1, AceptadasFinitas
<1>3. PICK k : k = [l \in ls |-> Bucket(l)]
  OBVIOUS
<1>4. PICK s : s = [l \in ls |-> LineaDe(l).servicio]
  OBVIOUS
<1>5. /\ \A l \in ls : k[l] = Bucket(l) /\ k[l] \in Buckets
      /\ \A l \in ls : s[l] = LineaDe(l).servicio /\ s[l] \in Servicios
  BY <1>2, <1>3, <1>4, LineaTipos
<1>6. \A b : {l \in ls : Bucket(l) = b} = Clase(ls, k, b)
  BY <1>5 DEF Clase
<1>7. \A x : {l \in ls : LineaDe(l).servicio = x} = Clase(ls, s, x)
  BY <1>5 DEF Clase
<1>8. IsFiniteSet(Buckets)
  <2>1. Buckets = ({"producto"} \cup {"servicio"}) \cup {"sinTipo"}
    BY DEF Buckets, Tipos
  <2>2. QED
    BY <2>1, FS_Singleton, FS_AddElement, FS_Union
<1>9. PICK d : d = Desglose(tn, f)
  OBVIOUS
<1>10. \A b \in Buckets : d[b] = [ingresos |-> Importe(Clase(ls, k, b)),
                                  veces |-> Veces(Clase(ls, k, b))]
  BY <1>1, <1>6, <1>9 DEF Desglose
<1>11. /\ [b \in Buckets |-> d[b].veces] = [b \in Buckets |-> Veces(Clase(ls, k, b))]
       /\ [b \in Buckets |-> d[b].ingresos] = [b \in Buckets |-> Importe(Clase(ls, k, b))]
  <2>1. \A b \in Buckets : /\ d[b].veces = Veces(Clase(ls, k, b))
                           /\ d[b].ingresos = Importe(Clase(ls, k, b))
    <3>1. TAKE b \in Buckets
    <3>2. PICK x : x = Importe(Clase(ls, k, b))
      OBVIOUS
    <3>3. PICK y : y = Veces(Clase(ls, k, b))
      OBVIOUS
    <3>4. d[b] = [ingresos |-> x, veces |-> y]
      BY <1>10, <3>2, <3>3
    <3>5. QED
      BY <3>2, <3>3, <3>4
  <2>2. [b \in Buckets |-> d[b].veces] = [b \in Buckets |-> Veces(Clase(ls, k, b))]
    BY <2>1
  <2>3. [b \in Buckets |-> d[b].ingresos] = [b \in Buckets |-> Importe(Clase(ls, k, b))]
    BY <2>1
  <2>4. QED
    BY <2>2, <2>3
<1>12. /\ SumaBuckets(d).veces = SumFunction([b \in Buckets |-> d[b].veces])
       /\ SumaBuckets(d).ingresos = SumFunction([b \in Buckets |-> d[b].ingresos])
  BY DEF SumaBuckets
<1>13. SumaBuckets(d).veces = Veces(ls) /\ SumaBuckets(d).ingresos = Importe(ls)
  <2>1. /\ SumFunction([b \in Buckets |-> Veces(Clase(ls, k, b))]) = Veces(ls)
        /\ SumFunction([b \in Buckets |-> Importe(Clase(ls, k, b))]) = Importe(ls)
    BY <1>2, <1>5, <1>8, SumasPorClase
  <2>2. QED
    BY <1>11, <1>12, <2>1
<1>14. /\ ServicesMetrics(tn, f) = [x \in Servicios |-> Veces(Clase(ls, s, x))]
       /\ RentaPorServicio(tn, f) = [x \in Servicios |-> Importe(Clase(ls, s, x))]
  BY <1>1, <1>7 DEF ServicesMetrics, RentaPorServicio
<1>15. /\ SumFunction([x \in Servicios |-> Veces(Clase(ls, s, x))]) = Veces(ls)
       /\ SumFunction([x \in Servicios |-> Importe(Clase(ls, s, x))]) = Importe(ls)
  BY <1>2, <1>5, ServiciosFinitos, SumasPorClase
<1>16. QED
  BY <1>1, <1>9, <1>13, <1>14, <1>15

LEMMA ImporteVacio == Importe({}) = 0 /\ Veces({}) = 0
BY SumasDeLineas, SumaVacia

\* The breakdown of a filter by type is the bucket of that type.
LEMMA DesgloseDeUnTipo ==
    ASSUME NEW tn, NEW f \in Filtro, NEW b \in Buckets
    PROVE  Desglose(tn, f)[b] = IF f.tipo \in {b, Nulo}
                                THEN Desglose(tn, [f EXCEPT !.tipo = Nulo])[b]
                                ELSE [ingresos |-> 0, veces |-> 0]
<1>1. CASE f.tipo = Nulo
  <2>1. [f EXCEPT !.tipo = Nulo] = f
    BY <1>1 DEF Filtro
  <2>2. QED
    BY <1>1, <2>1
<1>2. CASE f.tipo # Nulo
  <2>1. f.tipo \in Tipos /\ "sinTipo" \notin Tipos
    BY <1>2 DEF Filtro, Tipos
  <2>2. PICK g : g = [f EXCEPT !.tipo = Nulo]
    OBVIOUS
  <2>3. g.desde = f.desde /\ g.hasta = f.hasta /\ g.tipo = Nulo
    BY <2>2 DEF Filtro
  <2>4. PICK qs : qs = Encontradas(tn, BuildMatch(f), {"aceptada"})
    OBVIOUS
  <2>5. qs = Encontradas(tn, BuildMatch(g), {"aceptada"})
    BY <2>3, <2>4 DEF BuildMatch
  <2>6. Aceptadas(tn, f) = LineasDe(qs, f) /\ Aceptadas(tn, g) = LineasDe(qs, g)
    BY <2>4, <2>5 DEF Aceptadas
  <2>7. \A l \in LineasDe(qs, f) : Bucket(l) = f.tipo
    BY <1>2, <2>1 DEF LineasDe, Bucket, LineaDe
  <2>8. CASE f.tipo = b
    <3>1. {l \in LineasDe(qs, f) : Bucket(l) = b} = {l \in LineasDe(qs, g) : Bucket(l) = b}
      <4>1. LineasDe(qs, f) \subseteq LineasDe(qs, g)
        BY <2>3 DEF LineasDe
      <4>2. \A l \in LineasDe(qs, g) : Bucket(l) = b => l \in LineasDe(qs, f)
        BY <2>1, <2>8 DEF LineasDe, Bucket, LineaDe
      <4>3. QED
        BY <4>1, <4>2
    <3>2. Desglose(tn, f)[b] = Desglose(tn, g)[b]
      BY <2>6, <3>1 DEF Desglose
    <3>3. QED
      BY <2>2, <2>8, <3>2
  <2>9. CASE f.tipo # b
    <3>1. {l \in LineasDe(qs, f) : Bucket(l) = b} = {}
      BY <2>7, <2>9
    <3>2. Desglose(tn, f)[b] = [ingresos |-> Importe({}), veces |-> Veces({})]
      BY <2>6, <3>1 DEF Desglose
    <3>3. QED
      BY <1>2, <2>9, <3>2, ImporteVacio
  <2>10. QED
    BY <2>8, <2>9
<1>3. QED
  BY <1>1, <1>2

\* Those of the clients and those of the guests are all.
LEMMA ClientesSuman ==
    ASSUME NEW qs \in SUBSET Cotizaciones
    PROVE  SumFunction(PorCliente(qs)) + Cardinality({q \in qs : Datos[q].cliente = Nulo})
             = Cardinality(qs)
<1>1. PICK S : S = {q \in qs : Datos[q].cliente # Nulo}
  OBVIOUS
<1>2. PICK I : I = {q \in qs : Datos[q].cliente = Nulo}
  OBVIOUS
<1>3. /\ S \in SUBSET qs /\ I \in SUBSET qs /\ S \cup I = qs /\ S \cap I = {}
      /\ IsFiniteSet(qs)
  BY <1>1, <1>2, Supuestos, FS_Subset
<1>4. IsFiniteSet(S) /\ IsFiniteSet(I)
  BY <1>3, FS_Subset
<1>5. PICK k : k = [q \in S |-> Datos[q].cliente]
  OBVIOUS
<1>6. \A q \in S : k[q] = Datos[q].cliente /\ k[q] \in Clientes
  BY <1>1, <1>5 DEF Clientes
<1>7. \A c \in Clientes : {q \in qs : Datos[q].cliente = c} = Clase(S, k, c)
  BY <1>1, <1>6 DEF Clase, Clientes
<1>8. PorCliente(qs) = [c \in Clientes |-> Cardinality(Clase(S, k, c))]
  BY <1>7 DEF PorCliente
<1>9. SumFunctionOnSet([c \in Clientes |-> Cardinality(Clase(S, k, c))], Clientes)
        = Cardinality(S)
  BY <1>4, <1>6, ClientesFinitos, CardinalPorClases
<1>10. SumFunction(PorCliente(qs)) = Cardinality(S)
  <2>1. DOMAIN PorCliente(qs) = Clientes
    BY DEF PorCliente
  <2>2. SumFunction(PorCliente(qs)) = SumFunctionOnSet(PorCliente(qs), Clientes)
    BY <2>1 DEF SumFunction
  <2>3. QED
    BY <1>8, <1>9, <2>2
<1>11. Cardinality(qs) = Cardinality(S) + Cardinality(I)
  <2>1. Cardinality(S \cup I) = Cardinality(S) + Cardinality(I) - Cardinality(S \cap I)
    BY <1>4, FS_Union
  <2>2. Cardinality(S \cap I) = 0
    BY <1>3, FS_EmptySet
  <2>3. Cardinality(S) \in Nat /\ Cardinality(I) \in Nat
    BY <1>4, FS_CardinalityType
  <2>4. QED
    BY <1>3, <2>1, <2>2, <2>3
<1>12. QED
  BY <1>2, <1>10, <1>11

\* The items sold, the breakdown by type and the clients add up to the same lines and
\* quotations, for any catalogue, clients and filters.
THEOREM ResumenesDeAcuerdo == Spec => []ResumenesCuadran
<1>1. ResumenesCuadran
  <2>1. SUFFICES ASSUME NEW tn \in Tenants, NEW f \in Filtros
                 PROVE  /\ SumaBuckets(Desglose(tn, f)).veces = SumFunction(ServicesMetrics(tn, f))
                        /\ \A b \in Buckets :
                             Desglose(tn, f)[b] = IF f.tipo \in {b, Nulo}
                                THEN Desglose(tn, [f EXCEPT !.tipo = Nulo])[b]
                                ELSE [ingresos |-> 0, veces |-> 0]
                        /\ SumFunction(ClientsMetrics(tn, f))
                             + Cardinality({q \in Encontradas(tn, BuildMatch(f), Estados) :
                                              Datos[q].cliente = Nulo})
                             = Cardinality(Encontradas(tn, BuildMatch(f), Estados))
    BY DEF ResumenesCuadran
  <2>2. SumaBuckets(Desglose(tn, f)).veces = SumFunction(ServicesMetrics(tn, f))
    BY DesgloseSuma
  <2>3. f \in Filtro
    BY Supuestos
  <2>4. \A b \in Buckets : Desglose(tn, f)[b] = IF f.tipo \in {b, Nulo}
                                THEN Desglose(tn, [f EXCEPT !.tipo = Nulo])[b]
                                ELSE [ingresos |-> 0, veces |-> 0]
    BY <2>3, DesgloseDeUnTipo
  <2>5. Encontradas(tn, BuildMatch(f), Estados) \in SUBSET Cotizaciones
    BY EncontradasFinitas
  <2>6. QED
    BY <2>2, <2>4, <2>5, ClientesSuman DEF ClientsMetrics
<1>2. QED
  BY <1>1, PTL

-----------------------------------------------------------------------------
(* The figures while others write *)

\* What each query answers, in this state and in the next one.
LoQueResponden ==
    \A tn, f, a :
      /\ Respuesta("hoy", tn, f, a)
           = Cardinality(Encontradas(tn, Entre(f, Calendario[a].dia, Calendario[a].finDia), Estados))
      /\ Respuesta("mes", tn, f, a)
           = Cardinality(Encontradas(tn, Entre(f, Calendario[a].mes, Fin), Estados))
      /\ Respuesta("anio", tn, f, a)
           = Cardinality(Encontradas(tn, Entre(f, Calendario[a].anio, Fin), Estados))
      /\ Respuesta("totales", tn, f, a) = Cardinality(Encontradas(tn, Entre(f, 0, Fin), Estados))
      /\ Respuesta("aceptadas", tn, f, a)
           = Cardinality(Encontradas(tn, Entre(f, 0, Fin), {"aceptada"}))
      /\ Respuesta("rechazadas", tn, f, a)
           = Cardinality(Encontradas(tn, Entre(f, 0, Fin), {"rechazada"}))
      /\ Respuesta("canceladas", tn, f, a)
           = Cardinality(Encontradas(tn, Entre(f, 0, Fin), {"cancelada"}))
      /\ Respuesta("mayorSolicitante", tn, f, a)
           = Primero(PorCliente(Encontradas(tn, Entre(f, 0, Fin), Estados)))
      /\ Respuesta("masActivoMes", tn, f, a)
           = Primero(PorCliente(Encontradas(tn, Entre(f, Calendario[a].mes, Fin), Estados)))
      /\ Respuesta("masSolicitado", tn, f, a) = Primero(ServicesMetrics(tn, f))
      /\ Respuesta("masRentable", tn, f, a) = Primero(RentaPorServicio(tn, f))
      /\ Respuesta("desglose", tn, f, a) = Desglose(tn, f)
      /\ Respuesta("ingresos", tn, f, a)
           = SumFunctionOnSet(Totales(Encontradas(tn, Entre(f, 0, Fin), {"aceptada"})),
                              Encontradas(tn, Entre(f, 0, Fin), {"aceptada"}))

LEMMA Responden == LoQueResponden
BY RespuestasConteo, RespuestasEstado, RespuestasCliente, RespuestasLineas, RespuestaIngresos
   DEF LoQueResponden

LEMMA RespondenEnton == LoQueResponden'
BY Responden, PTL

\* The answers depend on what the tenant of the reading has, and on nothing else.
LEMMA RespuestaIgual ==
    ASSUME NEW tn, \A cotas, es : Encontradas(tn, cotas, es)' = Encontradas(tn, cotas, es),
           NEW f, NEW a, NEW c \in ConsultasTotales
    PROVE  Respuesta(c, tn, f, a)' = Respuesta(c, tn, f, a)
<1>1. CASE c \in {"hoy", "mes", "anio", "totales"}
  BY <1>1, Responden, RespondenEnton DEF LoQueResponden
<1>2. CASE c \in {"aceptadas", "rechazadas", "canceladas"}
  BY <1>2, Responden, RespondenEnton DEF LoQueResponden
<1>3. CASE c \in {"mayorSolicitante", "masActivoMes"}
  BY <1>3, Responden, RespondenEnton DEF LoQueResponden
<1>4. CASE c \in {"masSolicitado", "masRentable", "desglose"}
  <2>1. Aceptadas(tn, f)' = Aceptadas(tn, f)
    BY DEF Aceptadas
  <2>2. /\ ServicesMetrics(tn, f)' = ServicesMetrics(tn, f)
        /\ RentaPorServicio(tn, f)' = RentaPorServicio(tn, f)
        /\ Desglose(tn, f)' = Desglose(tn, f)
    BY <2>1 DEF ServicesMetrics, RentaPorServicio, Desglose
  <2>3. QED
    BY <1>4, <2>2, Responden, RespondenEnton DEF LoQueResponden
<1>5. CASE c = "ingresos"
  BY <1>5, Responden, RespondenEnton DEF LoQueResponden
<1>6. QED
  BY <1>1, <1>2, <1>3, <1>4, <1>5 DEF ConsultasTotales, Conteos

\* Where the bounds of a reading put a quotation.
LEMMA EnEntre ==
    ASSUME NEW f \in Filtro, NEW t \in Int, NEW u \in Int
    PROVE  /\ Entre(f, t, u).gte \in Int /\ Entre(f, t, u).lte \in Int
           /\ Entre(f, t, u).lt \in Int
           /\ \A x \in Instante :
                (/\ Entre(f, t, u).gte <= x /\ x <= Entre(f, t, u).lte /\ x < Entre(f, t, u).lt)
                  <=> /\ BuildMatch(f).gte <= x /\ x <= BuildMatch(f).lte /\ t <= x /\ x < u
           /\ \A x \in Instante : x < BuildMatch(f).lt
<1>1. MaxInstante \in Nat
  BY Supuestos
<1>2. PICK g \in Int : g = IF f.desde = Nulo THEN 0 ELSE f.desde
  BY DEF Filtro, Instante
<1>3. PICK h \in Int : h = (IF f.hasta = Nulo THEN MaxInstante ELSE f.hasta) /\ h <= MaxInstante
  BY <1>1 DEF Filtro, Instante
<1>4. PICK m : m = MaxInstante + 1
  OBVIOUS
<1>5. SinCotas = [gte |-> 0, lte |-> MaxInstante, lt |-> m]
  BY <1>4 DEF SinCotas
<1>6. BuildMatch(f) = [gte |-> g, lte |-> h, lt |-> m]
  <2>1. SinCotas.gte = 0 /\ SinCotas.lte = MaxInstante
    BY <1>5
  <2>2. BuildMatch(f) = [[SinCotas EXCEPT !.gte = g] EXCEPT !.lte = h]
    BY <1>2, <1>3, <2>1 DEF BuildMatch
  <2>3. QED
    BY <1>5, <2>2
<1>7. Entre(f, t, u) = [gte |-> Max({g, t}), lte |-> Min({h, MaxInstante}), lt |-> Min({m, u})]
  BY <1>6 DEF Entre, WithMatch
<1>8. PICK x \in Int : x = Max({g, t}) /\ x = IF g >= t THEN g ELSE t
  BY MaximoDeDos
<1>9. Min({h, MaxInstante}) = h
  BY <1>1, <1>3, MinimoDeDos
<1>10. m \in Int
  BY <1>1, <1>4
<1>11. PICK y \in Int : y = Min({m, u}) /\ y = IF m <= u THEN m ELSE u
  BY <1>10, MinimoDeDos
<1>12. Entre(f, t, u) = [gte |-> x, lte |-> h, lt |-> y]
  BY <1>7, <1>8, <1>9, <1>11
<1>13. /\ Entre(f, t, u).gte = x /\ Entre(f, t, u).lte = h /\ Entre(f, t, u).lt = y
       /\ BuildMatch(f).gte = g /\ BuildMatch(f).lte = h /\ BuildMatch(f).lt = m
  BY <1>6, <1>12
<1>14. \A z \in Instante : z \in Nat /\ z < m
  BY <1>1, <1>4 DEF Instante
<1>15. QED
  BY <1>8, <1>10, <1>11, <1>13, <1>14

\* A reading of a part of the time finds a part of the quotations.
LEMMA EntreCrece ==
    ASSUME NEW f \in Filtro, NEW t \in Int, NEW u \in Int, NEW v \in Int, NEW w \in Int,
           NEW tn, NEW es,
           \A x \in Instante : t <= x /\ x < u => v <= x /\ x < w
    PROVE  Encontradas(tn, Entre(f, t, u), es) \in SUBSET Encontradas(tn, Entre(f, v, w), es)
<1>1. \A q \in Cotizaciones : Datos[q].fecha \in Instante
  BY Supuestos
<1>2. \A x \in Instante :
        (/\ Entre(f, t, u).gte <= x /\ x <= Entre(f, t, u).lte /\ x < Entre(f, t, u).lt)
          => (/\ Entre(f, v, w).gte <= x /\ x <= Entre(f, v, w).lte /\ x < Entre(f, v, w).lt)
  BY EnEntre
<1>3. QED
  BY <1>1, <1>2 DEF Encontradas

\* The bounds of the whole time add none.
LEMMA SinMasCotas ==
    ASSUME NEW f \in Filtro, NEW tn, NEW es
    PROVE  Encontradas(tn, Entre(f, 0, Fin), es) = Encontradas(tn, BuildMatch(f), es)
<1>1. \A q \in Cotizaciones : Datos[q].fecha \in Instante
  BY Supuestos
<1>2. 0 \in Int /\ Fin \in Int
  BY Supuestos DEF Fin
<1>3. \A x \in Instante : 0 <= x /\ x < Fin
  BY Supuestos DEF Instante, Fin
<1>4. \A x \in Instante :
        (/\ Entre(f, 0, Fin).gte <= x /\ x <= Entre(f, 0, Fin).lte /\ x < Entre(f, 0, Fin).lt)
          <=> (/\ BuildMatch(f).gte <= x /\ x <= BuildMatch(f).lte /\ x < BuildMatch(f).lt)
  BY <1>2, <1>3, EnEntre
<1>5. QED
  BY <1>1, <1>4 DEF Encontradas

LEMMA EstadosDistintos ==
    ASSUME TInv, NEW q \in Cotizaciones, NEW e \in Estados, Escribir(q, e)
    PROVE  /\ estado' = [estado EXCEPT ![q] = e]
           /\ estado'[q] = e /\ \A p \in Cotizaciones \ {q} : estado'[p] = estado[p]
BY TiposDe, EscribirEs

\* A write of another tenant changes no answer of this one.
LEMMA RespuestaAjena ==
    ASSUME TInv, NEW q \in Cotizaciones, NEW e \in Estados, Escribir(q, e),
           NEW tn, Datos[q].tenant # tn, NEW f, NEW a, NEW c \in ConsultasTotales
    PROVE  Respuesta(c, tn, f, a)' = Respuesta(c, tn, f, a)
<1>1. \A cotas, es : Encontradas(tn, cotas, es)' = Encontradas(tn, cotas, es)
  BY EstadosDistintos DEF Encontradas
<1>2. QED
  BY <1>1, RespuestaIgual

LEMMA RespuestaQuieta ==
    ASSUME UNCHANGED estado, NEW tn, NEW f, NEW a, NEW c \in ConsultasTotales
    PROVE  Respuesta(c, tn, f, a)' = Respuesta(c, tn, f, a)
<1>1. \A cotas, es : Encontradas(tn, cotas, es)' = Encontradas(tn, cotas, es)
  BY DEF Encontradas
<1>2. QED
  BY <1>1, RespuestaIgual

\* While no write of its tenant came in between, what a reading was answered is what it
\* would be answered now.
AlDia(r) == \A c \in DOMAIN r.res : r.res[c] = Respuesta(c, r.tenant, r.filtro, r.ahora)

\* Inductive invariant of the amounts.
AlDiaInv == TInv /\ (lectura \in Metricas /\ cambios = 0 => AlDia(lectura))

LEMMA ConsultarAlDia == AlDiaInv /\ Consultar => AlDiaInv'
<1>1. SUFFICES ASSUME AlDiaInv, Consultar, cambios' = 0 PROVE AlDia(lectura)'
  BY ConsultarTipos DEF AlDiaInv
<1>2. TInv
  BY <1>1 DEF AlDiaInv
<1>3. PICK r : r = lectura
  OBVIOUS
<1>4. PICK s : s = lectura'
  OBVIOUS
<1>5. PICK c \in r.grupo \ DOMAIN r.res :
        /\ s \in Metricas /\ Respuestas(s)
        /\ s.tenant = r.tenant /\ s.filtro = r.filtro /\ s.ahora = r.ahora
        /\ DOMAIN s.res = DOMAIN r.res \cup {c}
        /\ s.res[c] = Respuesta(c, r.tenant, r.filtro, r.ahora)
        /\ \A d \in DOMAIN r.res : s.res[d] = r.res[d]
  BY <1>1, <1>2, <1>3, <1>4, ConsultarEs
<1>6. r \in Metricas /\ UNCHANGED <<estado, cambios>>
  BY <1>1, <1>2, <1>3, ConsultarEs
<1>7. AlDia(r)
  BY <1>1, <1>3, <1>6 DEF AlDiaInv
<1>8. \A d \in DOMAIN s.res : s.res[d] = Respuesta(d, s.tenant, s.filtro, s.ahora)
  BY <1>5, <1>7 DEF AlDia
<1>9. DOMAIN s.res \subseteq ConsultasTotales
  BY <1>5, LecturaTipos
<1>10. \A d \in DOMAIN s.res : s.res[d] = Respuesta(d, s.tenant, s.filtro, s.ahora)'
  BY <1>6, <1>8, <1>9, RespuestaQuieta
<1>11. AlDia(s)'
  BY <1>10 DEF AlDia
<1>12. QED
  BY <1>4, <1>11 DEF AlDia

LEMMA EscribirAlDia ==
    ASSUME AlDiaInv, NEW q \in Cotizaciones, NEW e \in Estados, Escribir(q, e)
    PROVE  AlDiaInv'
<1>1. TInv /\ TInv'
  BY EscribirTipos DEF AlDiaInv
<1>2. PICK r : r = lectura
  OBVIOUS
<1>3. lectura' = r
  BY <1>1, <1>2, EscribirEs
<1>4. SUFFICES ASSUME r \in Metricas, cambios' = 0 PROVE AlDia(r)'
  BY <1>1, <1>3 DEF AlDiaInv, AlDia
<1>5. r # Libre
  BY <1>4, Clases DEF Lectura
<1>6. Datos[q].tenant # r.tenant /\ cambios = 0
  <2>1. cambios' = IF r # Libre /\ r.tenant = Datos[q].tenant THEN cambios + 1 ELSE cambios
    BY <1>1, <1>2, EscribirEs
  <2>2. cambios \in Nat
    BY <1>1, TiposDe
  <2>3. QED
    BY <1>4, <1>5, <2>1, <2>2
<1>7. AlDia(r)
  BY <1>2, <1>4, <1>6 DEF AlDiaInv
<1>8. \A c \in DOMAIN r.res : c \in ConsultasTotales
  BY <1>4, LecturaTipos
<1>9. \A c \in DOMAIN r.res : r.res[c] = Respuesta(c, r.tenant, r.filtro, r.ahora)'
  BY <1>1, <1>6, <1>7, <1>8, RespuestaAjena DEF AlDia
<1>10. QED
  BY <1>9 DEF AlDia

\* A step that leaves no answers behind it.
LEMMA SinRespuestas ==
    ASSUME TInv, GetTotalsMetrics \/ FindAll \/ SiguientePagina \/ Terminar
    PROVE  TInv' /\ (lectura' \in Metricas => DOMAIN lectura'.res = {} /\ cambios' = 0)
<1>1. TInv'
  BY MetricasTipos, FindAllTipos, SiguienteTipos, TerminarTipos
<1>2. lectura' \in Lectura
  BY <1>1 DEF TInv
<1>3. CASE GetTotalsMetrics
  <2>1. DOMAIN lectura'.res = {}
    <3>1. PICK tn \in Tenants, f \in Filtros, g \in Grupos :
            lectura' = [op |-> "metricas", tenant |-> tn, filtro |-> f, ahora |-> reloj,
                        grupo |-> g, res |-> <<>>]
      BY <1>3 DEF GetTotalsMetrics, Leer
    <3>2. lectura'.res = <<>>
      BY <3>1
    <3>3. DOMAIN <<>> = {}
      OBVIOUS
    <3>4. QED
      BY <3>2, <3>3
  <2>2. QED
    BY <1>1, <1>3, <2>1 DEF GetTotalsMetrics, SinHistoria
<1>4. CASE FindAll
  <2>1. lectura' \in Listado
    BY <1>4, FindAllEs, PaginaTipo
  <2>2. QED
    BY <1>1, <1>2, <2>1, Clases
<1>5. CASE SiguientePagina
  <2>1. lectura' \in Listado
    BY <1>5, SiguienteEs, PaginaTipo
  <2>2. QED
    BY <1>1, <1>2, <2>1, Clases
<1>6. CASE Terminar
  <2>1. lectura' = Libre
    BY <1>6 DEF Terminar, Leer
  <2>2. QED
    BY <1>1, <1>2, <2>1, Clases
<1>7. QED
  BY <1>3, <1>4, <1>5, <1>6

LEMMA PasoAlDia == AlDiaInv /\ [Next]_vars => AlDiaInv'
<1>1. SUFFICES ASSUME AlDiaInv, [Next]_vars PROVE AlDiaInv'
  OBVIOUS
<1>2. TInv /\ TInv'
  BY <1>1, PasoTipos DEF AlDiaInv
<1>3. CASE \E q \in Cotizaciones : Crear(q) \/ CambiarEstado(q)
  BY <1>1, <1>2, <1>3, Escritor, EscribirAlDia
<1>4. CASE UNCHANGED vars \/ Tick
  <2>1. UNCHANGED <<estado, lectura, cambios>>
    BY <1>4 DEF vars, Tick
  <2>2. PICK r : r = lectura
    OBVIOUS
  <2>3. SUFFICES ASSUME r \in Metricas, cambios = 0 PROVE AlDia(r)'
    BY <1>2, <2>1, <2>2 DEF AlDiaInv, AlDia
  <2>4. AlDia(r) /\ DOMAIN r.res \subseteq ConsultasTotales
    BY <1>1, <2>2, <2>3, LecturaTipos DEF AlDiaInv
  <2>5. QED
    BY <2>1, <2>4, RespuestaQuieta DEF AlDia
<1>5. CASE GetTotalsMetrics \/ FindAll \/ SiguientePagina \/ Terminar
  <2>1. lectura' \in Metricas => DOMAIN lectura'.res = {}
    BY <1>2, <1>5, SinRespuestas
  <2>2. QED
    BY <1>2, <2>1 DEF AlDiaInv, AlDia
<1>6. CASE Consultar
  BY <1>1, <1>6, ConsultarAlDia
<1>7. QED
  BY <1>1, <1>3, <1>4, <1>5, <1>6 DEF Next

LEMMA ImporteCrece ==
    ASSUME NEW ls \in SUBSET Todas, NEW c \in SUBSET ls
    PROVE  Importe(c) <= Importe(ls) /\ Veces(c) <= Veces(ls)
<1>1. IsFiniteSet(ls) /\ IsFiniteSet(c)
  BY TodasFinitas, FS_Subset
<1>2. \A l \in ls : Cantidades(ls)[l] \in Nat /\ Subtotales(ls)[l] \in Nat
  BY LineaTipos DEF Cantidades, Subtotales
<1>3. \A l \in c : Cantidades(c)[l] = Cantidades(ls)[l] /\ Subtotales(c)[l] = Subtotales(ls)[l]
  BY DEF Cantidades, Subtotales
<1>4. SumFunctionOnSet(Cantidades(c), c) = SumFunctionOnSet(Cantidades(ls), c)
  BY <1>1, <1>2, <1>3, SumaIgual
<1>5. SumFunctionOnSet(Subtotales(c), c) = SumFunctionOnSet(Subtotales(ls), c)
  BY <1>1, <1>2, <1>3, SumaIgual
<1>6. SumFunctionOnSet(Cantidades(ls), c) <= SumFunctionOnSet(Cantidades(ls), ls)
  BY <1>1, <1>2, SumaCrece
<1>7. SumFunctionOnSet(Subtotales(ls), c) <= SumFunctionOnSet(Subtotales(ls), ls)
  BY <1>1, <1>2, SumaCrece
<1>8. QED
  BY <1>4, <1>5, <1>6, <1>7, SumasDeLineas

\* No item outdoes the sum of the breakdown.
LEMMA PrimeroNoSupera ==
    ASSUME NEW tn, NEW f
    PROVE  /\ Primero(RentaPorServicio(tn, f)) <= Importe(Aceptadas(tn, f))
           /\ Primero(ServicesMetrics(tn, f)) <= Veces(Aceptadas(tn, f))
<1>1. PICK ls \in SUBSET Todas : ls = Aceptadas(tn, f)
  BY AceptadasFinitas
<1>2. Importe(ls) \in Nat /\ Veces(ls) \in Nat
  BY ImporteNat
<1>3. \A s \in Servicios : /\ RentaPorServicio(tn, f)[s] <= Importe(ls)
                           /\ ServicesMetrics(tn, f)[s] <= Veces(ls)
  <2>1. TAKE s \in Servicios
  <2>2. PICK c \in SUBSET ls : c = {l \in ls : LineaDe(l).servicio = s}
    OBVIOUS
  <2>3. RentaPorServicio(tn, f)[s] = Importe(c) /\ ServicesMetrics(tn, f)[s] = Veces(c)
    BY <1>1, <2>2 DEF RentaPorServicio, ServicesMetrics
  <2>4. QED
    BY <2>3, ImporteCrece
<1>4. /\ RentaPorServicio(tn, f) \in [Servicios -> Nat]
      /\ ServicesMetrics(tn, f) \in [Servicios -> Nat]
  BY PorServicioNat
<1>5. ASSUME NEW v \in [Servicios -> Nat], NEW n \in Nat, \A s \in Servicios : v[s] <= n
      PROVE  Primero(v) <= n
  <2>1. Primero(v) = 0 \/ \E s \in Servicios : Primero(v) = v[s]
    BY ServiciosFinitos, PrimeroMayor
  <2>2. QED
    BY <1>5, <2>1
<1>6. Primero(RentaPorServicio(tn, f)) <= Importe(ls)
  BY <1>2, <1>3, <1>4, <1>5
<1>7. Primero(ServicesMetrics(tn, f)) <= Veces(ls)
  BY <1>2, <1>3, <1>4, <1>5
<1>8. QED
  BY <1>1, <1>6, <1>7

\* The total of a quotation is that of its lines: what buildItems saves.
TotalesDeLineas ==
    \A q \in Cotizaciones : Datos[q].total = Importe({q} \X DOMAIN Datos[q].lineas)

\* Then the totals of some quotations add up to all their lines.
LEMMA IngresosDeLineas ==
    ASSUME TotalesDeLineas, NEW qs \in SUBSET Cotizaciones, NEW f, f.tipo = Nulo
    PROVE  SumFunctionOnSet(Totales(qs), qs) = Importe(LineasDe(qs, f))
<1>1. PICK ls \in SUBSET Todas : ls = LineasDe(qs, f)
  BY LineasFinitas
<1>2. ls = UNION {{q} \X DOMAIN Datos[q].lineas : q \in qs}
  BY <1>1 DEF LineasDe
<1>3. PICK k : k = [l \in ls |-> l[1]]
  OBVIOUS
<1>4. \A l \in ls : k[l] \in qs /\ k[l] = l[1]
  BY <1>2, <1>3
<1>5. \A q \in qs : Clase(ls, k, q) = {q} \X DOMAIN Datos[q].lineas
  <2>1. TAKE q \in qs
  <2>2. ASSUME NEW l \in Clase(ls, k, q) PROVE l \in {q} \X DOMAIN Datos[q].lineas
    BY <1>2, <1>4, <2>2 DEF Clase
  <2>3. ASSUME NEW l \in {q} \X DOMAIN Datos[q].lineas PROVE l \in Clase(ls, k, q)
    <3>1. l \in ls /\ l[1] = q
      BY <1>2, <2>3
    <3>2. QED
      BY <1>4, <3>1 DEF Clase
  <2>4. QED
    BY <2>2, <2>3
<1>6. IsFiniteSet(qs)
  BY Supuestos, FS_Subset
<1>7. SumFunction([q \in qs |-> Importe(Clase(ls, k, q))]) = Importe(ls)
  BY <1>4, <1>6, SumasPorClase
<1>8. Totales(qs) = [q \in qs |-> Importe(Clase(ls, k, q))]
  BY <1>5 DEF Totales, TotalesDeLineas
<1>9. DOMAIN Totales(qs) = qs
  BY DEF Totales
<1>10. SumFunction(Totales(qs)) = SumFunctionOnSet(Totales(qs), qs)
  BY <1>9 DEF SumFunction
<1>11. QED
  BY <1>1, <1>7, <1>8, <1>10

\* When no write of the tenant came between its queries, the income of an answer is the
\* sum of its breakdown, and no item outdoes it, for any lines and prices, as long as
\* the total of a quotation is that of its lines, which is how buildItems leaves it.
THEOREM ImportesDeAcuerdo ==
    ASSUME TotalesDeLineas
    PROVE  Spec => []ImportesCuadran
<1>1. Init => AlDiaInv
  <2>1. SUFFICES ASSUME Init PROVE AlDiaInv
    OBVIOUS
  <2>2. TInv /\ lectura = Libre
    BY <2>1, InicioTipos DEF Init
  <2>3. QED
    BY <2>2, Clases DEF AlDiaInv, Lectura
<1>2. Spec => []AlDiaInv
  BY <1>1, PasoAlDia, PTL DEF Spec
<1>3. AlDiaInv => ImportesCuadran
  <2>1. SUFFICES ASSUME AlDiaInv,
                        Hay({"ingresos", "desglose", "masRentable", "masSolicitado"}),
                        cambios = 0
                 PROVE  LET suma == SumaBuckets(lectura.res["desglose"]) IN
                        /\ lectura.filtro.tipo = Nulo => lectura.res["ingresos"] = suma.ingresos
                        /\ lectura.res["masRentable"] <= suma.ingresos
                        /\ lectura.res["masSolicitado"] <= suma.veces
    BY DEF ImportesCuadran
  <2>2. PICK r : r = lectura
    OBVIOUS
  <2>3. r \in Metricas
    BY <2>1, <2>2, Clases DEF AlDiaInv, TInv, Hay
  <2>4. AlDia(r) /\ {"ingresos", "desglose", "masRentable", "masSolicitado"} \subseteq DOMAIN r.res
    BY <2>1, <2>2, <2>3 DEF AlDiaInv, Hay
  <2>5. r.filtro \in Filtro
    BY <2>3, LecturaTipos, Supuestos
  <2>6. PICK d : d = r.res["desglose"]
    OBVIOUS
  <2>7. d = Desglose(r.tenant, r.filtro)
    BY <2>4, <2>6, RespuestasLineas DEF AlDia
  <2>8. /\ SumaBuckets(d).veces = Veces(Aceptadas(r.tenant, r.filtro))
        /\ SumaBuckets(d).ingresos = Importe(Aceptadas(r.tenant, r.filtro))
    BY <2>7, DesgloseSuma
  <2>9. /\ r.res["masRentable"] = Primero(RentaPorServicio(r.tenant, r.filtro))
        /\ r.res["masSolicitado"] = Primero(ServicesMetrics(r.tenant, r.filtro))
    BY <2>4, RespuestasLineas DEF AlDia
  <2>10. ASSUME r.filtro.tipo = Nulo
         PROVE  r.res["ingresos"] = Importe(Aceptadas(r.tenant, r.filtro))
    <3>1. PICK E : E = Encontradas(r.tenant, BuildMatch(r.filtro), {"aceptada"})
      OBVIOUS
    <3>2. E \in SUBSET Cotizaciones
      BY <3>1, EncontradasFinitas
    <3>3. Encontradas(r.tenant, Entre(r.filtro, 0, Fin), {"aceptada"}) = E
      BY <2>5, <3>1, SinMasCotas
    <3>4. r.res["ingresos"] = SumFunctionOnSet(Totales(E), E)
      BY <2>4, <3>3, RespuestaIngresos DEF AlDia
    <3>5. Importe(LineasDe(E, r.filtro)) = SumFunctionOnSet(Totales(E), E)
      BY <2>10, <3>2, IngresosDeLineas
    <3>6. QED
      BY <3>1, <3>4, <3>5 DEF Aceptadas
  <2>11. QED
    BY <2>2, <2>6, <2>8, <2>9, <2>10, PrimeroNoSupera
<1>4. QED
  BY <1>2, <1>3, PTL

\* One more at most.
LEMMA UnoMas ==
    ASSUME NEW S, IsFiniteSet(S), NEW q, NEW T \in SUBSET (S \cup {q})
    PROVE  /\ IsFiniteSet(T) /\ Cardinality(S) \in Nat /\ Cardinality(T) \in Nat
           /\ Cardinality(T) <= Cardinality(S) + 1
           /\ S \subseteq T => Cardinality(S) <= Cardinality(T)
           /\ T \subseteq S => Cardinality(T) <= Cardinality(S)
<1>1. /\ IsFiniteSet(S \cup {q})
      /\ Cardinality(S \cup {q}) = IF q \in S THEN Cardinality(S) ELSE Cardinality(S) + 1
  BY FS_AddElement
<1>2. IsFiniteSet(T) /\ Cardinality(T) <= Cardinality(S \cup {q})
  BY <1>1, FS_Subset
<1>3. /\ Cardinality(S) \in Nat /\ Cardinality(T) \in Nat
      /\ Cardinality(S \cup {q}) \in Nat
  BY <1>1, <1>2, FS_CardinalityType
<1>4. Cardinality(T) <= Cardinality(S) + 1
  BY <1>1, <1>2, <1>3
<1>5. S \subseteq T => Cardinality(S) <= Cardinality(T)
  BY <1>2, FS_Subset
<1>6. T \subseteq S => Cardinality(T) <= Cardinality(S)
  BY FS_Subset
<1>7. QED
  BY <1>2, <1>3, <1>4, <1>5, <1>6

\* The client with most quotations when there is one quotation more at most.
LEMMA PrimeroCrece ==
    ASSUME NEW S \in SUBSET Cotizaciones, NEW T \in SUBSET Cotizaciones, S \subseteq T
    PROVE  /\ Primero(PorCliente(S)) \in Nat /\ Primero(PorCliente(T)) \in Nat
           /\ Primero(PorCliente(S)) <= Primero(PorCliente(T))
           /\ \A q : T \subseteq S \cup {q} =>
                       Primero(PorCliente(T)) <= Primero(PorCliente(S)) + 1
           /\ Primero(PorCliente(T)) <= Cardinality(T)
<1>1. PICK s \in [Clientes -> Nat] : s = PorCliente(S)
  BY PorClienteNat
<1>2. PICK t \in [Clientes -> Nat] : t = PorCliente(T)
  BY PorClienteNat
<1>3. /\ Primero(s) \in Nat /\ \A x \in Clientes : s[x] <= Primero(s)
      /\ Primero(s) = 0 \/ \E x \in Clientes : Primero(s) = s[x]
  BY ClientesFinitos, PrimeroMayor
<1>4. /\ Primero(t) \in Nat /\ \A x \in Clientes : t[x] <= Primero(t)
      /\ Primero(t) = 0 \/ \E x \in Clientes : Primero(t) = t[x]
  BY ClientesFinitos, PrimeroMayor
<1>5. IsFiniteSet(S) /\ IsFiniteSet(T) /\ Cardinality(T) \in Nat
  BY Supuestos, FS_Subset, FS_CardinalityType
<1>6. ASSUME NEW x \in Clientes
      PROVE  /\ s[x] <= t[x] /\ t[x] <= Cardinality(T)
             /\ \A q : T \subseteq S \cup {q} => t[x] <= s[x] + 1
  <2>1. PICK A : A = {q \in S : Datos[q].cliente = x}
    OBVIOUS
  <2>2. PICK B : B = {q \in T : Datos[q].cliente = x}
    OBVIOUS
  <2>3. s[x] = Cardinality(A) /\ t[x] = Cardinality(B) /\ t[x] <= Cardinality(T)
    BY <1>1, <1>2, <2>1, <2>2, PorClienteNat
  <2>4. A \in SUBSET B /\ A \in SUBSET S /\ B \in SUBSET T
    BY <2>1, <2>2
  <2>5. IsFiniteSet(A) /\ IsFiniteSet(B)
    BY <1>5, <2>4, FS_Subset
  <2>6. Cardinality(A) <= Cardinality(B)
    BY <2>4, <2>5, FS_Subset
  <2>7. ASSUME NEW q, T \subseteq S \cup {q} PROVE Cardinality(B) <= Cardinality(A) + 1
    <3>1. B \in SUBSET (A \cup {q})
      BY <2>1, <2>2, <2>7
    <3>2. QED
      BY <2>5, <3>1, UnoMas
  <2>8. QED
    BY <2>3, <2>6, <2>7
<1>7. Primero(s) <= Primero(t)
  <2>1. CASE Primero(s) = 0
    BY <1>4, <2>1
  <2>2. CASE \E x \in Clientes : Primero(s) = s[x]
    <3>1. PICK x \in Clientes : Primero(s) = s[x]
      BY <2>2
    <3>2. s[x] <= t[x] /\ t[x] <= Primero(t) /\ s[x] \in Nat /\ t[x] \in Nat
      BY <1>4, <1>6
    <3>3. QED
      BY <1>4, <3>1, <3>2
  <2>3. QED
    BY <1>3, <2>1, <2>2
<1>8. Primero(t) <= Cardinality(T)
  <2>1. CASE Primero(t) = 0
    BY <1>5, <2>1
  <2>2. CASE \E x \in Clientes : Primero(t) = t[x]
    BY <1>6, <2>2
  <2>3. QED
    BY <1>4, <2>1, <2>2
<1>9. ASSUME NEW q, T \subseteq S \cup {q} PROVE Primero(t) <= Primero(s) + 1
  <2>1. CASE Primero(t) = 0
    BY <1>3, <2>1
  <2>2. CASE \E x \in Clientes : Primero(t) = t[x]
    <3>1. PICK x \in Clientes : Primero(t) = t[x]
      BY <2>2
    <3>2. t[x] <= s[x] + 1 /\ s[x] <= Primero(s) /\ s[x] \in Nat /\ t[x] \in Nat
      BY <1>3, <1>6, <1>9
    <3>3. QED
      BY <1>3, <3>1, <3>2
  <2>3. QED
    BY <1>4, <2>1, <2>2
<1>10. QED
  BY <1>1, <1>2, <1>3, <1>4, <1>7, <1>8, <1>9

\* The figures that a write can only raise, those that count one state, and its state.
Crecientes == {"hoy", "mes", "anio", "totales", "mayorSolicitante", "masActivoMes"}
PorEstado == {"aceptadas", "rechazadas", "canceladas"}
DelEstado(c) == CASE c = "aceptadas" -> "aceptada"
                  [] c = "rechazadas" -> "rechazada"
                  [] OTHER -> "cancelada"

\* A write takes no quotation away and adds one at most.
LEMMA EscribirCrece ==
    ASSUME TInv, NEW q \in Cotizaciones, NEW e \in Estados, Escribir(q, e), NEW tn
    PROVE  /\ \A cotas :
                /\ Encontradas(tn, cotas, Estados) \subseteq Encontradas(tn, cotas, Estados)'
                /\ Encontradas(tn, cotas, Estados)' \in
                     SUBSET (Encontradas(tn, cotas, Estados) \cup {q})
                /\ Encontradas(tn, cotas, Estados)' \in SUBSET Cotizaciones
           /\ \A cotas, s :
                /\ Encontradas(tn, cotas, {s})' \in SUBSET (Encontradas(tn, cotas, {s}) \cup {q})
                /\ e # s => Encontradas(tn, cotas, {s})' \subseteq Encontradas(tn, cotas, {s})
BY EstadosDistintos DEF Encontradas

LEMMA RespuestaCrece ==
    ASSUME TInv, NEW q \in Cotizaciones, NEW e \in Estados, Escribir(q, e),
           NEW tn, NEW f, NEW a
    PROVE  \A c \in Crecientes :
             /\ Respuesta(c, tn, f, a) \in Nat /\ Respuesta(c, tn, f, a)' \in Nat
             /\ Respuesta(c, tn, f, a) <= Respuesta(c, tn, f, a)'
             /\ Respuesta(c, tn, f, a)' <= Respuesta(c, tn, f, a) + 1
<1>1. ASSUME NEW cotas
      PROVE  /\ Cardinality(Encontradas(tn, cotas, Estados)) \in Nat
             /\ Cardinality(Encontradas(tn, cotas, Estados)') \in Nat
             /\ Cardinality(Encontradas(tn, cotas, Estados))
                  <= Cardinality(Encontradas(tn, cotas, Estados)')
             /\ Cardinality(Encontradas(tn, cotas, Estados)')
                  <= Cardinality(Encontradas(tn, cotas, Estados)) + 1
  <2>1. PICK S : S = Encontradas(tn, cotas, Estados)
    OBVIOUS
  <2>2. PICK T : T = Encontradas(tn, cotas, Estados)'
    OBVIOUS
  <2>3. S \subseteq T /\ T \in SUBSET (S \cup {q}) /\ IsFiniteSet(S)
    BY <2>1, <2>2, EscribirCrece, EncontradasFinitas
  <2>4. /\ Cardinality(S) \in Nat /\ Cardinality(T) \in Nat
        /\ Cardinality(S) <= Cardinality(T) /\ Cardinality(T) <= Cardinality(S) + 1
    BY <2>3, UnoMas
  <2>5. QED
    BY <2>1, <2>2, <2>4
<1>2. ASSUME NEW cotas
      PROVE  /\ Primero(PorCliente(Encontradas(tn, cotas, Estados))) \in Nat
             /\ Primero(PorCliente(Encontradas(tn, cotas, Estados)')) \in Nat
             /\ Primero(PorCliente(Encontradas(tn, cotas, Estados)))
                  <= Primero(PorCliente(Encontradas(tn, cotas, Estados)'))
             /\ Primero(PorCliente(Encontradas(tn, cotas, Estados)'))
                  <= Primero(PorCliente(Encontradas(tn, cotas, Estados))) + 1
  BY EscribirCrece, EncontradasFinitas, PrimeroCrece
<1>3. \A c \in {"hoy", "mes", "anio", "totales"} :
             /\ Respuesta(c, tn, f, a) \in Nat /\ Respuesta(c, tn, f, a)' \in Nat
             /\ Respuesta(c, tn, f, a) <= Respuesta(c, tn, f, a)'
             /\ Respuesta(c, tn, f, a)' <= Respuesta(c, tn, f, a) + 1
  BY <1>1, Responden, RespondenEnton DEF LoQueResponden
<1>4. \A c \in {"mayorSolicitante", "masActivoMes"} :
             /\ Respuesta(c, tn, f, a) \in Nat /\ Respuesta(c, tn, f, a)' \in Nat
             /\ Respuesta(c, tn, f, a) <= Respuesta(c, tn, f, a)'
             /\ Respuesta(c, tn, f, a)' <= Respuesta(c, tn, f, a) + 1
  BY <1>2, Responden, RespondenEnton DEF LoQueResponden
<1>5. QED
  BY <1>3, <1>4 DEF Crecientes

\* Of the three states that are counted only the new one of a write can gain.
LEMMA RespuestaPorEstado ==
    ASSUME TInv, NEW q \in Cotizaciones, NEW e \in Estados, Escribir(q, e),
           NEW tn, NEW f, NEW a
    PROVE  \A c \in PorEstado :
             /\ Respuesta(c, tn, f, a) \in Nat /\ Respuesta(c, tn, f, a)' \in Nat
             /\ Respuesta(c, tn, f, a)' <= Respuesta(c, tn, f, a) + 1
             /\ e # DelEstado(c) => Respuesta(c, tn, f, a)' <= Respuesta(c, tn, f, a)
<1>1. ASSUME NEW cotas, NEW s
      PROVE  /\ Cardinality(Encontradas(tn, cotas, {s})) \in Nat
             /\ Cardinality(Encontradas(tn, cotas, {s})') \in Nat
             /\ Cardinality(Encontradas(tn, cotas, {s})')
                  <= Cardinality(Encontradas(tn, cotas, {s})) + 1
             /\ e # s => Cardinality(Encontradas(tn, cotas, {s})')
                           <= Cardinality(Encontradas(tn, cotas, {s}))
  <2>1. PICK S : S = Encontradas(tn, cotas, {s})
    OBVIOUS
  <2>2. PICK T : T = Encontradas(tn, cotas, {s})'
    OBVIOUS
  <2>3. T \in SUBSET (S \cup {q}) /\ IsFiniteSet(S) /\ (e # s => T \subseteq S)
    BY <2>1, <2>2, EscribirCrece, EncontradasFinitas
  <2>4. /\ Cardinality(S) \in Nat /\ Cardinality(T) \in Nat
        /\ Cardinality(T) <= Cardinality(S) + 1
        /\ T \subseteq S => Cardinality(T) <= Cardinality(S)
    BY <2>3, UnoMas
  <2>5. QED
    BY <2>1, <2>2, <2>3, <2>4
<1>2. \A c \in PorEstado :
        /\ Respuesta(c, tn, f, a)
             = Cardinality(Encontradas(tn, Entre(f, 0, Fin), {DelEstado(c)}))
        /\ Respuesta(c, tn, f, a)'
             = Cardinality(Encontradas(tn, Entre(f, 0, Fin), {DelEstado(c)})')
  <2>1. DelEstado("aceptadas") = "aceptada" /\ DelEstado("rechazadas") = "rechazada"
        /\ DelEstado("canceladas") = "cancelada"
    BY DEF DelEstado
  <2>2. /\ Respuesta("aceptadas", tn, f, a)
             = Cardinality(Encontradas(tn, Entre(f, 0, Fin), {"aceptada"}))
        /\ Respuesta("rechazadas", tn, f, a)
             = Cardinality(Encontradas(tn, Entre(f, 0, Fin), {"rechazada"}))
        /\ Respuesta("canceladas", tn, f, a)
             = Cardinality(Encontradas(tn, Entre(f, 0, Fin), {"cancelada"}))
    BY Responden DEF LoQueResponden
  <2>3. /\ Respuesta("aceptadas", tn, f, a)'
             = Cardinality(Encontradas(tn, Entre(f, 0, Fin), {"aceptada"})')
        /\ Respuesta("rechazadas", tn, f, a)'
             = Cardinality(Encontradas(tn, Entre(f, 0, Fin), {"rechazada"})')
        /\ Respuesta("canceladas", tn, f, a)'
             = Cardinality(Encontradas(tn, Entre(f, 0, Fin), {"cancelada"})')
    BY RespondenEnton DEF LoQueResponden
  <2>4. TAKE c \in PorEstado
  <2>5. CASE c = "aceptadas"
    BY <2>1, <2>2, <2>3, <2>5
  <2>6. CASE c = "rechazadas"
    BY <2>1, <2>2, <2>3, <2>6
  <2>7. CASE c = "canceladas"
    BY <2>1, <2>2, <2>3, <2>7
  <2>8. QED
    BY <2>5, <2>6, <2>7 DEF PorEstado
<1>3. QED
  <2>1. TAKE c \in PorEstado
  <2>2. PICK s : s = DelEstado(c)
    OBVIOUS
  <2>3. PICK cotas : cotas = Entre(f, 0, Fin)
    OBVIOUS
  <2>4. Respuesta(c, tn, f, a) = Cardinality(Encontradas(tn, cotas, {s}))
        /\ Respuesta(c, tn, f, a)' = Cardinality(Encontradas(tn, cotas, {s})')
    BY <1>2, <2>2, <2>3
  <2>5. QED
    BY <1>1, <2>2, <2>4

\* The figures that ConteosConCambios compares.
Cuentas == Crecientes \cup PorEstado

\* The figures nest up to n.
Acotadas(v, n) ==
    /\ v["hoy"] <= v["mes"] + n /\ v["mes"] <= v["anio"] + n /\ v["anio"] <= v["totales"] + n
    /\ v["aceptadas"] + v["rechazadas"] + v["canceladas"] <= v["totales"] + n
    /\ v["masActivoMes"] <= v["mayorSolicitante"] + n
    /\ v["mayorSolicitante"] <= v["totales"] + n
    /\ v["masActivoMes"] <= v["mes"] + n

\* What a query of the reading answered, or would answer if the server came to it now.
Vale(r, c) ==
    IF c \in DOMAIN r.res THEN r.res[c] ELSE Respuesta(c, r.tenant, r.filtro, r.ahora)

\* The figures of the reading as if it ended now.
Valores(r) == [c \in Cuentas |-> Vale(r, c)]

\* Inductive invariant of the counts: even ended now, the reading would nest.
ConInv == TInv /\ (lectura \in Metricas => Acotadas(Valores(lectura), cambios))

LEMMA CuentasSon ==
    /\ Cuentas \subseteq ConsultasTotales /\ "desglose" \notin Cuentas
    /\ \A c \in PorEstado : c \notin Crecientes
    /\ {"hoy", "mes", "anio", "totales", "mayorSolicitante", "masActivoMes",
        "aceptadas", "rechazadas", "canceladas"} = Cuentas
BY DEF Cuentas, Crecientes, PorEstado, ConsultasTotales, Conteos

LEMMA ValoresNat ==
    ASSUME NEW r \in Metricas, Respuestas(r)
    PROVE  Valores(r) \in [Cuentas -> Nat]
<1>1. ASSUME NEW c \in Cuentas PROVE Vale(r, c) \in Nat
  <2>1. c \in ConsultasTotales /\ c # "desglose"
    BY CuentasSon
  <2>2. Respuesta(c, r.tenant, r.filtro, r.ahora) \in Nat
    BY <2>1, RespuestaTipo
  <2>3. c \in DOMAIN r.res => r.res[c] \in Nat
    BY <2>1 DEF Respuestas
  <2>4. QED
    BY <2>2, <2>3 DEF Vale
<1>2. QED
  BY <1>1 DEF Valores

LEMMA ValoresNatEnton ==
    ASSUME NEW r \in Metricas, Respuestas(r)
    PROVE  Valores(r)' \in [Cuentas -> Nat]
<1>1. (\A x \in Metricas : Respuestas(x) => Valores(x) \in [Cuentas -> Nat])'
  <2>1. \A x \in Metricas : Respuestas(x) => Valores(x) \in [Cuentas -> Nat]
    BY ValoresNat
  <2>2. QED
    BY <2>1, PTL
<1>2. QED
  BY <1>1 DEF Respuestas

\* Three parts of a set that have nothing in common.
LEMMA TresPartes ==
    ASSUME NEW T, IsFiniteSet(T), NEW A \in SUBSET T, NEW B \in SUBSET T, NEW C \in SUBSET T,
           A \cap B = {}, A \cap C = {}, B \cap C = {}
    PROVE  Cardinality(A) + Cardinality(B) + Cardinality(C) <= Cardinality(T)
<1>1. IsFiniteSet(A) /\ IsFiniteSet(B) /\ IsFiniteSet(C)
  BY FS_Subset
<1>2. /\ IsFiniteSet(A \cup B)
      /\ Cardinality(A \cup B) = Cardinality(A) + Cardinality(B) - Cardinality(A \cap B)
  BY <1>1, FS_Union
<1>3. /\ IsFiniteSet((A \cup B) \cup C)
      /\ Cardinality((A \cup B) \cup C)
           = Cardinality(A \cup B) + Cardinality(C) - Cardinality((A \cup B) \cap C)
  BY <1>1, <1>2, FS_Union
<1>4. (A \cup B) \cap C = {}
  OBVIOUS
<1>5. Cardinality(A \cap B) = 0 /\ Cardinality((A \cup B) \cap C) = 0
  BY <1>4, FS_EmptySet
<1>6. (A \cup B) \cup C \in SUBSET T
  OBVIOUS
<1>7. Cardinality((A \cup B) \cup C) <= Cardinality(T)
  BY <1>6, FS_Subset
<1>8. /\ Cardinality(A) \in Nat /\ Cardinality(B) \in Nat /\ Cardinality(C) \in Nat
      /\ Cardinality(A \cup B) \in Nat /\ Cardinality(T) \in Nat
  BY <1>1, <1>2, FS_CardinalityType
<1>9. QED
  BY <1>2, <1>3, <1>5, <1>7, <1>8

\* The answers of one instant nest.
LEMMA RespuestasAcotadas ==
    ASSUME NEW tn, NEW f \in Filtro, NEW a \in Instante
    PROVE  Acotadas([c \in Cuentas |-> Respuesta(c, tn, f, a)], 0)
<1>1. PICK cal \in [anio: Int, mes: Int, dia: Int, finDia: Int] :
        /\ cal = Calendario[a] /\ cal.anio <= cal.mes /\ cal.mes <= cal.dia
  BY Fechas
<1>2. \A x \in Instante : x \in Nat /\ 0 <= x /\ x < Fin
  BY Supuestos DEF Instante, Fin
<1>3. Fin \in Int /\ 0 \in Int
  BY Supuestos DEF Fin
<1>4. PICK H : H = Encontradas(tn, Entre(f, cal.dia, cal.finDia), Estados)
  OBVIOUS
<1>5. PICK M : M = Encontradas(tn, Entre(f, cal.mes, Fin), Estados)
  OBVIOUS
<1>6. PICK A : A = Encontradas(tn, Entre(f, cal.anio, Fin), Estados)
  OBVIOUS
<1>7. PICK T : T = Encontradas(tn, Entre(f, 0, Fin), Estados)
  OBVIOUS
<1>8. cal.dia \in Int /\ cal.finDia \in Int /\ cal.mes \in Int /\ cal.anio \in Int
  OBVIOUS
<1>9. H \in SUBSET M
  <2>1. \A x \in Instante : cal.dia <= x /\ x < cal.finDia => cal.mes <= x /\ x < Fin
    BY <1>1, <1>2, <1>8
  <2>2. QED
    BY <1>3, <1>4, <1>5, <1>8, <2>1, EntreCrece
<1>10. M \in SUBSET A
  <2>1. \A x \in Instante : cal.mes <= x /\ x < Fin => cal.anio <= x /\ x < Fin
    BY <1>1, <1>2, <1>8
  <2>2. QED
    BY <1>3, <1>5, <1>6, <1>8, <2>1, EntreCrece
<1>11. A \in SUBSET T
  <2>1. \A x \in Instante : cal.anio <= x /\ x < Fin => 0 <= x /\ x < Fin
    BY <1>2
  <2>2. QED
    BY <1>3, <1>6, <1>7, <1>8, <2>1, EntreCrece
<1>12. /\ H \in SUBSET Cotizaciones /\ M \in SUBSET Cotizaciones /\ A \in SUBSET Cotizaciones
       /\ T \in SUBSET Cotizaciones
       /\ IsFiniteSet(H) /\ IsFiniteSet(M) /\ IsFiniteSet(A) /\ IsFiniteSet(T)
       /\ Cardinality(H) \in Nat /\ Cardinality(M) \in Nat /\ Cardinality(A) \in Nat
       /\ Cardinality(T) \in Nat
  BY <1>4, <1>5, <1>6, <1>7, EncontradasFinitas
<1>13. /\ Cardinality(H) <= Cardinality(M) /\ Cardinality(M) <= Cardinality(A)
       /\ Cardinality(A) <= Cardinality(T)
  BY <1>9, <1>10, <1>11, <1>12, FS_Subset
<1>14. PICK X : X = Encontradas(tn, Entre(f, 0, Fin), {"aceptada"})
  OBVIOUS
<1>15. PICK Y : Y = Encontradas(tn, Entre(f, 0, Fin), {"rechazada"})
  OBVIOUS
<1>16. PICK Z : Z = Encontradas(tn, Entre(f, 0, Fin), {"cancelada"})
  OBVIOUS
<1>17. /\ X \in SUBSET T /\ Y \in SUBSET T /\ Z \in SUBSET T
       /\ X \cap Y = {} /\ X \cap Z = {} /\ Y \cap Z = {}
  BY <1>7, <1>14, <1>15, <1>16 DEF Encontradas, Estados
<1>18. Cardinality(X) + Cardinality(Y) + Cardinality(Z) <= Cardinality(T)
  BY <1>12, <1>17, TresPartes
<1>19. /\ Primero(PorCliente(M)) \in Nat /\ Primero(PorCliente(T)) \in Nat
       /\ Primero(PorCliente(M)) <= Primero(PorCliente(T))
       /\ Primero(PorCliente(T)) <= Cardinality(T)
       /\ Primero(PorCliente(M)) <= Cardinality(M)
  BY <1>10, <1>11, <1>12, PrimeroCrece
<1>20. PICK v : v = [c \in Cuentas |-> Respuesta(c, tn, f, a)]
  OBVIOUS
<1>21. \A c \in Cuentas : v[c] = Respuesta(c, tn, f, a)
  BY <1>20
<1>22. /\ v["hoy"] = Cardinality(H) /\ v["mes"] = Cardinality(M) /\ v["anio"] = Cardinality(A)
       /\ v["totales"] = Cardinality(T) /\ v["aceptadas"] = Cardinality(X)
       /\ v["rechazadas"] = Cardinality(Y) /\ v["canceladas"] = Cardinality(Z)
       /\ v["mayorSolicitante"] = Primero(PorCliente(T))
       /\ v["masActivoMes"] = Primero(PorCliente(M))
  <2>1. /\ v["hoy"] = Respuesta("hoy", tn, f, a) /\ v["mes"] = Respuesta("mes", tn, f, a)
        /\ v["anio"] = Respuesta("anio", tn, f, a)
        /\ v["totales"] = Respuesta("totales", tn, f, a)
        /\ v["aceptadas"] = Respuesta("aceptadas", tn, f, a)
        /\ v["rechazadas"] = Respuesta("rechazadas", tn, f, a)
        /\ v["canceladas"] = Respuesta("canceladas", tn, f, a)
        /\ v["mayorSolicitante"] = Respuesta("mayorSolicitante", tn, f, a)
        /\ v["masActivoMes"] = Respuesta("masActivoMes", tn, f, a)
    BY <1>21, CuentasSon
  <2>2. QED
    BY <1>1, <1>4, <1>5, <1>6, <1>7, <1>14, <1>15, <1>16, <2>1, Responden
       DEF LoQueResponden
<1>23. Acotadas(v, 0)
  BY <1>12, <1>13, <1>18, <1>19, <1>22 DEF Acotadas
<1>24. QED
  BY <1>20, <1>23

\* A reading without answers would be answered in agreement.
LEMMA AlEmpezar ==
    TInv /\ (lectura \in Metricas => DOMAIN lectura.res = {}) => ConInv
<1>1. SUFFICES ASSUME TInv, lectura \in Metricas, DOMAIN lectura.res = {}
               PROVE  Acotadas(Valores(lectura), cambios)
  BY DEF ConInv
<1>2. PICK r : r = lectura
  OBVIOUS
<1>3. r.filtro \in Filtro /\ r.ahora \in Instante
  BY <1>1, <1>2, LecturaTipos, Supuestos
<1>4. PICK v : v = [c \in Cuentas |-> Respuesta(c, r.tenant, r.filtro, r.ahora)]
  OBVIOUS
<1>5. Valores(r) = v
  BY <1>1, <1>2, <1>4 DEF Valores, Vale
<1>6. Acotadas(v, 0)
  BY <1>3, <1>4, RespuestasAcotadas
<1>7. Respuestas(r)
  BY <1>1, <1>2, TiposDe, Clases DEF Respuestas, TInv
<1>8. v \in [Cuentas -> Nat]
  BY <1>1, <1>2, <1>5, <1>7, ValoresNat
<1>9. cambios \in Nat
  BY <1>1, TiposDe
<1>10. \A x \in Nat, y \in Nat : x <= y + 0 => x <= y + cambios
  BY <1>9
<1>11. /\ v["hoy"] \in Nat /\ v["mes"] \in Nat /\ v["anio"] \in Nat /\ v["totales"] \in Nat
       /\ v["aceptadas"] \in Nat /\ v["rechazadas"] \in Nat /\ v["canceladas"] \in Nat
       /\ v["mayorSolicitante"] \in Nat /\ v["masActivoMes"] \in Nat
  BY <1>8, CuentasSon
<1>12. Acotadas(v, cambios)
  BY <1>6, <1>10, <1>11 DEF Acotadas
<1>13. QED
  BY <1>2, <1>5, <1>12

LEMMA AlEmpezarEnton ==
    (TInv /\ (lectura \in Metricas => DOMAIN lectura.res = {}) => ConInv)'
BY AlEmpezar, PTL

\* A query is answered what it was worth.
LEMMA ConsultarAcotadas == ConInv /\ Consultar => ConInv'
<1>1. SUFFICES ASSUME ConInv, Consultar PROVE Acotadas(Valores(lectura), cambios)'
  BY ConsultarTipos DEF ConInv
<1>2. TInv
  BY <1>1 DEF ConInv
<1>3. PICK r : r = lectura
  OBVIOUS
<1>4. PICK s : s = lectura'
  OBVIOUS
<1>5. PICK c \in r.grupo \ DOMAIN r.res :
        /\ s.tenant = r.tenant /\ s.filtro = r.filtro /\ s.ahora = r.ahora
        /\ DOMAIN s.res = DOMAIN r.res \cup {c}
        /\ s.res[c] = Respuesta(c, r.tenant, r.filtro, r.ahora)
        /\ \A d \in DOMAIN r.res : s.res[d] = r.res[d]
  BY <1>1, <1>2, <1>3, <1>4, ConsultarEs
<1>6. r \in Metricas /\ UNCHANGED <<estado, cambios>>
  BY <1>1, <1>2, <1>3, ConsultarEs
<1>7. ASSUME NEW d \in Cuentas PROVE Vale(s, d)' = Vale(r, d)
  <2>1. d \in ConsultasTotales
    BY CuentasSon
  <2>2. Respuesta(d, r.tenant, r.filtro, r.ahora)' = Respuesta(d, r.tenant, r.filtro, r.ahora)
    BY <1>6, <2>1, RespuestaQuieta
  <2>3. Respuesta(d, s.tenant, s.filtro, s.ahora)' = Respuesta(d, r.tenant, r.filtro, r.ahora)
    BY <1>5, <2>2
  <2>4. CASE d \in DOMAIN r.res
    BY <1>5, <2>4 DEF Vale
  <2>5. CASE d = c
    BY <1>5, <2>5 DEF Vale
  <2>6. CASE d \notin DOMAIN s.res
    BY <1>5, <2>3, <2>6 DEF Vale
  <2>7. QED
    BY <1>5, <2>4, <2>5, <2>6
<1>8. Valores(s)' = Valores(r)
  BY <1>7 DEF Valores
<1>9. Acotadas(Valores(r), cambios)
  BY <1>1, <1>3, <1>6 DEF ConInv
<1>10. Valores(lectura)' = Valores(s)'
  BY <1>4 DEF Valores, Vale
<1>11. PICK v : v = Valores(r)
  OBVIOUS
<1>12. PICK n : n = cambios
  OBVIOUS
<1>13. Valores(lectura)' = v /\ cambios' = n /\ Acotadas(v, n)
  BY <1>6, <1>8, <1>9, <1>10, <1>11, <1>12
<1>14. QED
  BY <1>13 DEF Acotadas

\* A write moves each figure by one at most, upwards those over all states, and only
\* one of the three over one state gains.
LEMMA AcotadasTrasUno ==
    ASSUME NEW v \in [Cuentas -> Nat], NEW w \in [Cuentas -> Nat], NEW n \in Nat,
           Acotadas(v, n), NEW e,
           \A c \in Crecientes : v[c] <= w[c] /\ w[c] <= v[c] + 1,
           \A c \in PorEstado : /\ w[c] <= v[c] + 1
                                /\ e # DelEstado(c) => w[c] <= v[c]
    PROVE  Acotadas(w, n + 1)
<1>1. /\ v["hoy"] \in Nat /\ v["mes"] \in Nat /\ v["anio"] \in Nat /\ v["totales"] \in Nat
      /\ v["aceptadas"] \in Nat /\ v["rechazadas"] \in Nat /\ v["canceladas"] \in Nat
      /\ v["mayorSolicitante"] \in Nat /\ v["masActivoMes"] \in Nat
      /\ w["hoy"] \in Nat /\ w["mes"] \in Nat /\ w["anio"] \in Nat /\ w["totales"] \in Nat
      /\ w["aceptadas"] \in Nat /\ w["rechazadas"] \in Nat /\ w["canceladas"] \in Nat
      /\ w["mayorSolicitante"] \in Nat /\ w["masActivoMes"] \in Nat
  BY CuentasSon
<1>2. /\ v["hoy"] <= w["hoy"] /\ w["hoy"] <= v["hoy"] + 1
      /\ v["mes"] <= w["mes"] /\ w["mes"] <= v["mes"] + 1
      /\ v["anio"] <= w["anio"] /\ w["anio"] <= v["anio"] + 1
      /\ v["totales"] <= w["totales"] /\ w["totales"] <= v["totales"] + 1
      /\ v["mayorSolicitante"] <= w["mayorSolicitante"]
      /\ w["mayorSolicitante"] <= v["mayorSolicitante"] + 1
      /\ v["masActivoMes"] <= w["masActivoMes"] /\ w["masActivoMes"] <= v["masActivoMes"] + 1
  BY DEF Crecientes
<1>3. w["aceptadas"] + w["rechazadas"] + w["canceladas"]
        <= v["aceptadas"] + v["rechazadas"] + v["canceladas"] + 1
  <2>1. /\ w["aceptadas"] <= v["aceptadas"] + 1 /\ w["rechazadas"] <= v["rechazadas"] + 1
        /\ w["canceladas"] <= v["canceladas"] + 1
        /\ e # "aceptada" => w["aceptadas"] <= v["aceptadas"]
        /\ e # "rechazada" => w["rechazadas"] <= v["rechazadas"]
        /\ e # "cancelada" => w["canceladas"] <= v["canceladas"]
    BY DEF PorEstado, DelEstado
  <2>2. CASE e = "aceptada"
    BY <1>1, <2>1, <2>2
  <2>3. CASE e = "rechazada"
    BY <1>1, <2>1, <2>3
  <2>4. CASE e # "aceptada" /\ e # "rechazada"
    BY <1>1, <2>1, <2>4
  <2>5. QED
    BY <2>2, <2>3, <2>4
<1>4. QED
  BY <1>1, <1>2, <1>3 DEF Acotadas

LEMMA EscribirAcotadas ==
    ASSUME ConInv, NEW q \in Cotizaciones, NEW e \in Estados, Escribir(q, e)
    PROVE  ConInv'
<1>1. TInv /\ TInv'
  BY EscribirTipos DEF ConInv
<1>2. PICK r : r = lectura
  OBVIOUS
<1>3. lectura' = r
  BY <1>1, <1>2, EscribirEs
<1>4. SUFFICES ASSUME r \in Metricas PROVE Acotadas(Valores(lectura), cambios)'
  BY <1>1, <1>3 DEF ConInv
<1>5. Respuestas(r)
  BY <1>1, <1>2, <1>4, TiposDe, Clases DEF Respuestas, TInv
<1>6. PICK v \in [Cuentas -> Nat] : v = Valores(r)
  BY <1>4, <1>5, ValoresNat
<1>7. PICK w \in [Cuentas -> Nat] : w = Valores(r)'
  BY <1>4, <1>5, ValoresNatEnton
<1>8. Valores(lectura)' = w
  BY <1>3, <1>7 DEF Valores, Vale
<1>9. PICK n \in Nat : n = cambios
  BY <1>1, TiposDe
<1>10. Acotadas(v, n)
  BY <1>2, <1>4, <1>6, <1>9 DEF ConInv
<1>11. r # Libre
  BY <1>4, Clases DEF Lectura
<1>12. cambios' = IF r.tenant = Datos[q].tenant THEN n + 1 ELSE n
  BY <1>1, <1>2, <1>9, <1>11, EscribirEs
<1>13. \A c \in Cuentas : v[c] = Vale(r, c) /\ w[c] = Vale(r, c)'
  BY <1>6, <1>7 DEF Valores
<1>14. CASE r.tenant # Datos[q].tenant
  <2>1. \A c \in Cuentas : w[c] = v[c]
    <3>1. TAKE c \in Cuentas
    <3>2. Respuesta(c, r.tenant, r.filtro, r.ahora)' = Respuesta(c, r.tenant, r.filtro, r.ahora)
      BY <1>1, <1>14, CuentasSon, RespuestaAjena
    <3>3. QED
      BY <1>13, <3>2 DEF Vale
  <2>2. w = v
    BY <2>1
  <2>3. Valores(lectura)' = v /\ cambios' = n
    BY <1>8, <1>12, <1>14, <2>2
  <2>4. QED
    BY <1>10, <2>3 DEF Acotadas
<1>15. CASE r.tenant = Datos[q].tenant
  <2>1. \A c \in Crecientes : v[c] <= w[c] /\ w[c] <= v[c] + 1
    <3>1. TAKE c \in Crecientes
    <3>2. c \in Cuentas /\ v[c] \in Nat /\ w[c] \in Nat
      BY DEF Cuentas
    <3>3. /\ Respuesta(c, r.tenant, r.filtro, r.ahora)
               <= Respuesta(c, r.tenant, r.filtro, r.ahora)'
          /\ Respuesta(c, r.tenant, r.filtro, r.ahora)'
               <= Respuesta(c, r.tenant, r.filtro, r.ahora) + 1
      BY <1>1, RespuestaCrece
    <3>4. CASE c \in DOMAIN r.res
      <4>1. w[c] = v[c]
        BY <1>13, <3>2, <3>4 DEF Vale
      <4>2. QED
        BY <3>2, <4>1
    <3>5. CASE c \notin DOMAIN r.res
      BY <1>13, <3>2, <3>3, <3>5 DEF Vale
    <3>6. QED
      BY <3>4, <3>5
  <2>2. \A c \in PorEstado : w[c] <= v[c] + 1 /\ (e # DelEstado(c) => w[c] <= v[c])
    <3>1. TAKE c \in PorEstado
    <3>2. c \in Cuentas /\ v[c] \in Nat /\ w[c] \in Nat
      BY DEF Cuentas
    <3>3. /\ Respuesta(c, r.tenant, r.filtro, r.ahora)'
               <= Respuesta(c, r.tenant, r.filtro, r.ahora) + 1
          /\ e # DelEstado(c) => Respuesta(c, r.tenant, r.filtro, r.ahora)'
                                   <= Respuesta(c, r.tenant, r.filtro, r.ahora)
      BY <1>1, RespuestaPorEstado
    <3>4. CASE c \in DOMAIN r.res
      <4>1. w[c] = v[c]
        BY <1>13, <3>2, <3>4 DEF Vale
      <4>2. QED
        BY <3>2, <4>1
    <3>5. CASE c \notin DOMAIN r.res
      BY <1>13, <3>2, <3>3, <3>5 DEF Vale
    <3>6. QED
      BY <3>4, <3>5
  <2>3. Acotadas(w, n + 1)
    BY <1>10, <2>1, <2>2, AcotadasTrasUno
  <2>4. PICK m : m = n + 1
    OBVIOUS
  <2>5. Valores(lectura)' = w /\ cambios' = m /\ Acotadas(w, m)
    BY <1>8, <1>12, <1>15, <2>3, <2>4
  <2>6. QED
    BY <2>5 DEF Acotadas
<1>16. QED
  BY <1>14, <1>15

LEMMA PasoConteos == ConInv /\ [Next]_vars => ConInv'
<1>1. SUFFICES ASSUME ConInv, [Next]_vars PROVE ConInv'
  OBVIOUS
<1>2. TInv /\ TInv'
  BY <1>1, PasoTipos DEF ConInv
<1>3. CASE \E q \in Cotizaciones : Crear(q) \/ CambiarEstado(q)
  BY <1>1, <1>2, <1>3, Escritor, EscribirAcotadas
<1>4. CASE UNCHANGED vars \/ Tick
  <2>1. UNCHANGED <<estado, lectura, cambios>>
    BY <1>4 DEF vars, Tick
  <2>2. PICK r : r = lectura
    OBVIOUS
  <2>3. SUFFICES ASSUME r \in Metricas PROVE Acotadas(Valores(lectura), cambios)'
    BY <1>2, <2>1, <2>2 DEF ConInv
  <2>4. \A c \in Cuentas : Vale(r, c)' = Vale(r, c)
    <3>1. TAKE c \in Cuentas
    <3>2. Respuesta(c, r.tenant, r.filtro, r.ahora)' = Respuesta(c, r.tenant, r.filtro, r.ahora)
      BY <2>1, CuentasSon, RespuestaQuieta
    <3>3. QED
      BY <3>2 DEF Vale
  <2>5. PICK v : v = Valores(r)
    OBVIOUS
  <2>6. PICK n : n = cambios
    OBVIOUS
  <2>7. Valores(lectura)' = Valores(r)'
    BY <2>1, <2>2 DEF Valores, Vale
  <2>8. Valores(r)' = v
    BY <2>4, <2>5 DEF Valores
  <2>9. Acotadas(v, n)
    BY <1>1, <2>2, <2>3, <2>5, <2>6 DEF ConInv
  <2>10. Valores(lectura)' = v /\ cambios' = n
    BY <2>1, <2>6, <2>7, <2>8
  <2>11. QED
    BY <2>9, <2>10 DEF Acotadas
<1>5. CASE GetTotalsMetrics \/ FindAll \/ SiguientePagina \/ Terminar
  BY <1>2, <1>5, SinRespuestas, AlEmpezarEnton
<1>6. CASE Consultar
  BY <1>1, <1>6, ConsultarAcotadas
<1>7. QED
  BY <1>1, <1>3, <1>4, <1>5, <1>6 DEF Next

LEMMA ConteosSiempre == Spec => []ConInv
<1>1. Init => ConInv
  <2>1. SUFFICES ASSUME Init PROVE ConInv
    OBVIOUS
  <2>2. TInv /\ lectura = Libre
    BY <2>1, InicioTipos DEF Init
  <2>3. QED
    BY <2>2, Clases DEF ConInv, Lectura
<1>2. QED
  BY <1>1, PasoConteos, PTL DEF Spec

\* The figures of one answer differ from those of one instant by at most the writes of
\* the tenant between its queries, in whatever order the server takes them.
THEOREM ConteosAcotados == Spec => []ConteosConCambios
<1>1. ConInv => ConteosConCambios
  <2>1. SUFFICES ASSUME ConInv, lectura.op = "metricas" PROVE ConteosConCambios
    BY DEF ConteosConCambios, Hay
  <2>2. PICK r : r = lectura
    OBVIOUS
  <2>3. r \in Metricas /\ TInv
    BY <2>1, <2>2, Clases DEF ConInv, TInv
  <2>4. Respuestas(r)
    BY <2>1, <2>2, <2>3, TiposDe DEF Respuestas
  <2>5. PICK v \in [Cuentas -> Nat] : v = Valores(r)
    BY <2>3, <2>4, ValoresNat
  <2>6. PICK n \in Nat : n = cambios
    BY <2>3, TiposDe
  <2>7. Acotadas(v, n)
    BY <2>1, <2>2, <2>3, <2>5, <2>6 DEF ConInv
  <2>8. \A c \in Cuentas : c \in DOMAIN r.res => r.res[c] = v[c] /\ v[c] \in Nat
    BY <2>5 DEF Valores, Vale
  <2>9. ASSUME {"aceptadas", "rechazadas", "canceladas", "totales"} \subseteq DOMAIN r.res
        PROVE  r.res["aceptadas"] <= OfertasValidas(r.res) + n
    <3>1. PICK t \in Nat : t = r.res["totales"] /\ t = v["totales"]
      BY <2>8, <2>9, CuentasSon
    <3>2. PICK x \in Nat : x = r.res["aceptadas"] /\ x = v["aceptadas"]
      BY <2>8, <2>9, CuentasSon
    <3>3. PICK z \in Nat : z = r.res["canceladas"] /\ z = v["canceladas"]
      BY <2>8, <2>9, CuentasSon
    <3>4. PICK y \in Nat : y = v["rechazadas"]
      BY <2>8, <2>9, CuentasSon
    <3>5. x + y + z <= t + n
      BY <2>7, <3>1, <3>2, <3>3, <3>4 DEF Acotadas
    <3>6. t - z \in Int /\ 0 \in Int
      OBVIOUS
    <3>7. OfertasValidas(r.res) = IF 0 >= t - z THEN 0 ELSE t - z
      BY <3>1, <3>3, <3>6, MaximoDeDos DEF OfertasValidas
    <3>8. QED
      BY <3>2, <3>5, <3>6, <3>7
  <2>10. Hay({"hoy", "mes", "anio", "totales"}) =>
           /\ r.res["hoy"] <= r.res["mes"] + n
           /\ r.res["mes"] <= r.res["anio"] + n
           /\ r.res["anio"] <= r.res["totales"] + n
    BY <2>2, <2>7, <2>8, CuentasSon DEF Hay, Acotadas
  <2>11. Hay({"aceptadas", "rechazadas", "canceladas", "totales"}) =>
           r.res["aceptadas"] + r.res["rechazadas"] + r.res["canceladas"]
              <= r.res["totales"] + n
    BY <2>2, <2>7, <2>8, CuentasSon DEF Hay, Acotadas
  <2>12. Hay({"masActivoMes", "mayorSolicitante", "mes", "totales"}) =>
           /\ r.res["masActivoMes"] <= r.res["mayorSolicitante"] + n
           /\ r.res["mayorSolicitante"] <= r.res["totales"] + n
           /\ r.res["masActivoMes"] <= r.res["mes"] + n
    BY <2>2, <2>7, <2>8, CuentasSon DEF Hay, Acotadas
  <2>13. QED
    BY <2>2, <2>6, <2>9, <2>10, <2>11, <2>12 DEF ConteosConCambios, Hay
<1>2. QED
  BY <1>1, ConteosSiempre, PTL
==============================================================================
