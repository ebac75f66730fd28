-------------------------- MODULE Cronograma_proofs --------------------------
(***************************************************************************)
(* What is concluded lies on a day gone by (ConcluidaEmDia), what is       *)
(* studied is not charged again (EstudadoNaoVolta) and what is marked as   *)
(* studied ahead of time is concluded (AntecipadaConcluida), for every     *)
(* syllabus, planner, notebook, calendar and sequence of requests.         *)
(*                                                                         *)
(* The argument: every request ends with emDiaComOEstudado before its      *)
(* write, and what that returns is in order whatever schedule it is given  *)
(* (EmDiaDeixaEmOrdem), because arranging the studied blocks puts every    *)
(* row in order and the packing that follows moves rows only between days  *)
(* after the last one a concluded block may lie on (VindasBoas).  What is  *)
(* left are the steps without it: a day passing, undoing a conclusion,     *)
(* clearing the records, a first reading and the requests a failure or a   *)
(* refusal cuts in two, after which `interrompida' says so.                *)
(*                                                                         *)
(* On the same shape of the rows rest the other theorems: no id or place   *)
(* twice, no request but a trade ever refused, the days gone by kept, and, *)
(* with a planner that covers the syllabus, no topic ever lost.            *)
(***************************************************************************)
EXTENDS Cronograma, TLAPS, FiniteSetTheorems, SequenceTheorems, WellFoundedInduction

-----------------------------------------------------------------------------
(* Counting and ordering: `EmSequencia', `SubFila'.                        *)

\* Induction over the numbers up to n, the property given as a set of numbers.
LEMMA InducaoAte ==
    ASSUME NEW n \in Nat, NEW T, 0 \in T,
           \A k \in 0 .. n : k # n /\ k \in T => k + 1 \in T
    PROVE  0 .. n \subseteq T
<1> DEFINE F == {k \in 0 .. n : k \notin T}
<1> SUFFICES ASSUME F # {} PROVE FALSE
  OBVIOUS
<1>1. F \subseteq Nat
  OBVIOUS
<1>2. PICK k \in F : \A j \in F : ~(<<j, k>> \in OpToRel(<, Nat))
  BY <1>1, WFMin, NatLessThanWellFounded
<1>3. k \in 1 .. n
  OBVIOUS
<1>4. k - 1 \in F
  <2>1. k - 1 \in 0 .. n /\ k - 1 # n /\ (k - 1) + 1 = k
    BY <1>3
  <2> QED BY <2>1
<1>5. <<k - 1, k>> \in OpToRel(<, Nat)
  BY <1>3, <1>4 DEF OpToRel
<1> QED BY <1>2, <1>4, <1>5

OrdemTotal(R, S) ==
    /\ \A x, y \in S : <<x, y>> \in R \/ <<y, x>> \in R
    /\ \A x, y \in S : <<x, y>> \in R /\ <<y, x>> \in R => x = y
    /\ \A x, y, z \in S : <<x, y>> \in R /\ <<y, z>> \in R => <<x, z>> \in R

\* The turn of x in S under the order R: how many come up to it.
Turno(S, R, x) == Cardinality({y \in S : <<y, x>> \in R})

\* Every element has a turn of its own, and the turns are 1 to the size of S.
Enfileira(R, S) ==
    /\ Cardinality(S) \in Nat
    /\ \A x \in S : Turno(S, R, x) \in 1 .. Cardinality(S)
    /\ \A x, z \in S : Turno(S, R, x) = Turno(S, R, z) => x = z
    /\ \A k \in 1 .. Cardinality(S) : \E x \in S : Turno(S, R, x) = k

\* Under a total order every element of a finite set has a turn of its own,
\* and the turns are 1 to the size of the set.
LEMMA Turnos ==
    ASSUME NEW S, IsFiniteSet(S), NEW R, OrdemTotal(R, S)
    PROVE  Enfileira(R, S)
<1> DEFINE ate(x) == {y \in S : <<y, x>> \in R}
           n == Cardinality(S)
           f == [x \in S |-> Turno(S, R, x)]
<1>1. n \in Nat
  BY FS_CardinalityType
<1>2. \A x \in S : IsFiniteSet(ate(x)) /\ Cardinality(ate(x)) \in 1 .. n
  <2> TAKE x \in S
  <2>1. ate(x) \in SUBSET S /\ x \in ate(x)
    BY DEF OrdemTotal
  <2>2. IsFiniteSet(ate(x)) /\ Cardinality(ate(x)) <= n
    BY <2>1, FS_Subset
  <2>3. Cardinality(ate(x)) \in Nat /\ Cardinality(ate(x)) # 0
    BY <2>1, <2>2, FS_CardinalityType, FS_EmptySet
  <2> QED BY <1>1, <2>2, <2>3
<1>3. \A x \in S : Turno(S, R, x) \in 1 .. n
  BY <1>2 DEF Turno
<1>4. \A x, z \in S : Turno(S, R, x) = Turno(S, R, z) => x = z
  <2>1. ASSUME NEW x \in S, NEW z \in S, <<x, z>> \in R, Cardinality(ate(x)) = Cardinality(ate(z))
        PROVE  x = z
    <3>1. ate(x) \in SUBSET ate(z)
      BY <2>1 DEF OrdemTotal
    <3>2. ate(x) = ate(z)
      BY <3>1, <2>1, <1>2, FS_Subset
    <3>3. z \in ate(x)
      BY <3>2 DEF OrdemTotal
    <3> QED BY <3>3, <2>1 DEF OrdemTotal
  <2> QED BY <2>1 DEF Turno, OrdemTotal
<1>5. f \in Injection(S, 1 .. n)
  <2>1. f \in [S -> 1 .. n]
    BY <1>3
  <2>2. \A a, b \in DOMAIN f : f[a] = f[b] => a = b
    BY <1>4
  <2> HIDE DEF f, n
  <2> QED BY <2>1, <2>2 DEF Injection, IsInjective
<1>6. IsFiniteSet(1 .. n) /\ Cardinality(1 .. n) = n
  BY <1>1, FS_Interval
<1>7. f \in Surjection(S, 1 .. n)
  BY <1>5, <1>6, FS_Injection
<1>8. \A k \in 1 .. n : \E x \in S : f[x] = k
  <2> HIDE DEF f, n
  <2> QED BY <1>7 DEF Surjection
<1> QED BY <1>1, <1>3, <1>4, <1>8 DEF Enfileira

MenorIgual(S) == {p \in S \X S : p[1] <= p[2]}

\* A finite set of numbers in increasing order: the k-th is the one whose turn
\* is k.
LEMMA EmSequenciaVez ==
    ASSUME NEW S \in SUBSET Int, IsFiniteSet(S)
    PROVE  /\ Enfileira(MenorIgual(S), S)
           /\ EmSequencia(S) \in [1 .. Cardinality(S) -> S]
           /\ \A k \in 1 .. Cardinality(S) : Turno(S, MenorIgual(S), EmSequencia(S)[k]) = k
<1> DEFINE vez == {<<Cardinality({y \in S : y <= x}), x>> : x \in S}
           e == [k \in 1 .. Cardinality(S) |-> CHOOSE x \in S : <<k, x>> \in vez]
<1>1. \A x \in S : Turno(S, MenorIgual(S), x) = Cardinality({y \in S : y <= x})
  <2> TAKE x \in S
  <2>1. {y \in S : <<y, x>> \in MenorIgual(S)} = {y \in S : y <= x}
    BY DEF MenorIgual
  <2> QED BY <2>1 DEF Turno
<1>2. Enfileira(MenorIgual(S), S)
  <2>1. OrdemTotal(MenorIgual(S), S)
    BY DEF OrdemTotal, MenorIgual
  <2> QED BY <2>1, Turnos
<1>3. vez = {<<Turno(S, MenorIgual(S), x), x>> : x \in S}
  BY <1>1
<1>4. \A k \in 1 .. Cardinality(S) : \E x \in S : Turno(S, MenorIgual(S), x) = k
  BY <1>2 DEF Enfileira
<1>5. \A k \in 1 .. Cardinality(S) : \E x \in S : <<k, x>> \in vez
  <2> HIDE DEF vez
  <2> QED BY <1>3, <1>4
<1>6. \A x \in S, k \in 1 .. Cardinality(S) : <<k, x>> \in vez => Turno(S, MenorIgual(S), x) = k
  <2> HIDE DEF vez
  <2> QED BY <1>3
<1>7. e = EmSequencia(S)
  BY DEF EmSequencia
<1> HIDE DEF vez
<1>8. \A k \in 1 .. Cardinality(S) : e[k] \in S /\ <<k, e[k]>> \in vez
  BY <1>5
<1>9. e \in [1 .. Cardinality(S) -> S]
  BY <1>8
<1> HIDE DEF e
<1>10. \A k \in 1 .. Cardinality(S) : Turno(S, MenorIgual(S), e[k]) = k
  BY <1>6, <1>8
<1> QED BY <1>2, <1>7, <1>9, <1>10

\* All of the numbers, and nothing else.
LEMMA EmSequenciaTodos ==
    ASSUME NEW S \in SUBSET Int, IsFiniteSet(S)
    PROVE  /\ EmSequencia(S) \in Seq(S)
           /\ Len(EmSequencia(S)) = Cardinality(S)
           /\ ToSet(EmSequencia(S)) = S
<1> DEFINE e == EmSequencia(S)
<1>1. /\ Cardinality(S) \in Nat
      /\ \A x \in S : Turno(S, MenorIgual(S), x) \in 1 .. Cardinality(S)
      /\ \A x, z \in S : Turno(S, MenorIgual(S), x) = Turno(S, MenorIgual(S), z) => x = z
  BY EmSequenciaVez DEF Enfileira
<1>2. /\ e \in [1 .. Cardinality(S) -> S]
      /\ \A k \in 1 .. Cardinality(S) : Turno(S, MenorIgual(S), e[k]) = k
  BY EmSequenciaVez
<1> HIDE DEF e
<1>3. e \in Seq(S) /\ Len(e) = Cardinality(S) /\ DOMAIN e = 1 .. Cardinality(S)
  BY <1>1, <1>2, SeqDef
<1> DEFINE t(x) == Turno(S, MenorIgual(S), x)
<1> HIDE DEF t
<1>4. /\ \A x \in S : t(x) \in 1 .. Cardinality(S)
      /\ \A x, z \in S : t(x) = t(z) => x = z
      /\ \A k \in 1 .. Cardinality(S) : e[k] \in S /\ t(e[k]) = k
  BY <1>1, <1>2 DEF t
<1>5. \A x \in S : e[t(x)] = x
  <2> TAKE x \in S
  <2>1. t(x) \in 1 .. Cardinality(S)
    BY <1>4
  <2>2. e[t(x)] \in S /\ t(e[t(x)]) = t(x)
    BY <1>4, <2>1
  <2> DEFINE y == e[t(x)]
  <2>3. y \in S /\ t(y) = t(x)
    BY <2>2
  <2> HIDE DEF y
  <2>4. y = x
    BY <1>4, <2>3
  <2> QED BY <2>4 DEF y
<1>6. ToSet(e) = S
  <2>1. ASSUME NEW x \in S PROVE x \in ToSet(e)
    <3>1. t(x) \in DOMAIN e /\ e[t(x)] = x
      BY <1>3, <1>4, <1>5
    <3> QED BY <3>1 DEF ToSet
  <2>2. ToSet(e) \subseteq S
    BY <1>3, <1>4 DEF ToSet
  <2> QED BY <2>1, <2>2
<1> QED BY <1>3, <1>6 DEF e

\* None of them twice.
LEMMA EmSequenciaUmaVez ==
    ASSUME NEW S \in SUBSET Int, IsFiniteSet(S),
           NEW j \in DOMAIN EmSequencia(S), NEW k \in DOMAIN EmSequencia(S),
           EmSequencia(S)[j] = EmSequencia(S)[k]
    PROVE  j = k
<1>1. /\ DOMAIN EmSequencia(S) = 1 .. Cardinality(S)
      /\ \A i \in 1 .. Cardinality(S) : Turno(S, MenorIgual(S), EmSequencia(S)[i]) = i
  BY EmSequenciaVez
<1> QED BY <1>1

\* Filtering keeps the elements at the chosen places, and no other.
LEMMA SubFilaDoLugar ==
    ASSUME NEW T, NEW fila \in Seq(T), NEW escolha \in SUBSET DOMAIN fila
    PROVE  /\ SubFila(fila, escolha) \in Seq(T)
           /\ ToSet(SubFila(fila, escolha)) = {fila[i] : i \in escolha}
           /\ Len(SubFila(fila, escolha)) = Cardinality(escolha)
<1> DEFINE ls == EmSequencia(escolha)
<1>1. DOMAIN fila = 1 .. Len(fila) /\ Len(fila) \in Nat
  BY LenProperties
<1>2. escolha \in SUBSET Int /\ IsFiniteSet(escolha)
  <2>1. IsFiniteSet(1 .. Len(fila))
    BY <1>1, FS_Interval
  <2>2. escolha \in SUBSET (1 .. Len(fila))
    BY <1>1
  <2> QED BY <1>1, <2>1, <2>2, FS_Subset
<1>3. ls \in Seq(escolha) /\ Len(ls) = Cardinality(escolha) /\ ToSet(ls) = escolha
  BY <1>2, EmSequenciaTodos
<1>4. SubFila(fila, escolha) = [k \in DOMAIN ls |-> fila[ls[k]]]
  BY DEF SubFila
<1> HIDE DEF ls
<1>5. DOMAIN ls = 1 .. Len(ls) /\ Len(ls) \in Nat /\ \A k \in DOMAIN ls : ls[k] \in escolha
  BY <1>3, LenProperties
<1>6. \A i \in escolha : \E k \in DOMAIN ls : ls[k] = i
  BY <1>3 DEF ToSet
<1>7. \A i \in escolha : fila[i] \in T
  BY <1>1, ElementOfSeq
<1> DEFINE s == [k \in DOMAIN ls |-> fila[ls[k]]]
<1>8. s \in Seq(T) /\ Len(s) = Len(ls) /\ DOMAIN s = DOMAIN ls
  <2>1. s \in [1 .. Len(ls) -> T]
    BY <1>5, <1>7
  <2> HIDE DEF s
  <2> QED BY <2>1, <1>5, SeqDef
<1>9. ToSet(s) = {fila[i] : i \in escolha}
  BY <1>5, <1>6, <1>8 DEF ToSet
<1> QED BY <1>3, <1>4, <1>8, <1>9

-----------------------------------------------------------------------------
(* `ordenar' puts the rows of a schedule in another order.                 *)

\* The rows of a schedule.
Linhas ==
    [id : Nat, data : 1 .. Prova, posicao : Nat, disciplina : STRING \cup {SemDisciplina},
     tema : Temas, passada : {1, 2}, movida : BOOLEAN, antecipada : BOOLEAN]

\* What the fields of a row are.
LEMMA LinhaTipo ==
    ASSUME NEW a \in Linhas
    PROVE  /\ a.id \in Nat /\ a.data \in Int /\ a.data \in 1 .. Prova
           /\ a.posicao \in Nat /\ a.posicao \in Int /\ a.passada \in {1, 2} /\ a.tema \in Temas
           /\ a.movida \in BOOLEAN /\ a.antecipada \in BOOLEAN
BY Calendario DEF Linhas

\* A function on 1..n is a sequence of its values.
LEMMA FuncaoEhSeq ==
    ASSUME NEW T, NEW n \in Nat, NEW f \in [1 .. n -> T]
    PROVE  f \in Seq(T) /\ Len(f) = n /\ DOMAIN f = 1 .. n
BY SeqDef

\* What a sequence of elements of T is, place by place.
LEMMA SeqEhFuncao ==
    ASSUME NEW T, NEW s \in Seq(T)
    PROVE  /\ Len(s) \in Nat /\ DOMAIN s = 1 .. Len(s)
           /\ \A i \in DOMAIN s : s[i] \in T
           /\ ToSet(s) \subseteq T
BY LenProperties DEF ToSet

\* A place of a sequence is a number, and what lies there is of its type.
LEMMA LugarEhNumero ==
    ASSUME NEW T, NEW s \in Seq(T), NEW i \in DOMAIN s
    PROVE  i \in Nat /\ i \in 1 .. Len(s) /\ s[i] \in T
<1>1. DOMAIN s = 1 .. Len(s) /\ Len(s) \in Nat
  BY LenProperties
<1>2. i \in 1 .. Len(s)
  BY <1>1
<1>3. s[i] \in T
  BY <1>2, ElementOfSeq
<1> QED BY <1>1, <1>2, <1>3

\* Two sequences joined hold what each held, and nothing else.
LEMMA JuntaTodos ==
    ASSUME NEW T, NEW s \in Seq(T), NEW t \in Seq(T)
    PROVE  s \o t \in Seq(T) /\ ToSet(s \o t) = ToSet(s) \cup ToSet(t)
<1>1. /\ s \o t \in Seq(T) /\ Len(s \o t) = Len(s) + Len(t)
      /\ \A i \in 1 .. Len(s) + Len(t) :
            (s \o t)[i] = IF i <= Len(s) THEN s[i] ELSE t[i - Len(s)]
  BY ConcatProperties
<1>2. /\ Len(s) \in Nat /\ DOMAIN s = 1 .. Len(s) /\ Len(t) \in Nat /\ DOMAIN t = 1 .. Len(t)
      /\ DOMAIN (s \o t) = 1 .. Len(s) + Len(t)
  BY <1>1, SeqEhFuncao
<1>3. ASSUME NEW i \in 1 .. Len(s) + Len(t) PROVE (s \o t)[i] \in ToSet(s) \cup ToSet(t)
  <2>1. CASE i <= Len(s)
    BY <1>1, <1>2, <2>1 DEF ToSet
  <2>2. CASE i > Len(s)
    <3>1. i - Len(s) \in DOMAIN t /\ (s \o t)[i] = t[i - Len(s)]
      BY <1>1, <1>2, <2>2
    <3> QED BY <3>1 DEF ToSet
  <2> QED BY <2>1, <2>2, <1>2
<1>4. ASSUME NEW i \in DOMAIN s PROVE s[i] \in ToSet(s \o t)
  <2>1. i \in 1 .. Len(s) + Len(t) /\ (s \o t)[i] = s[i]
    BY <1>1, <1>2
  <2> QED BY <1>2, <2>1 DEF ToSet
<1>5. ASSUME NEW i \in DOMAIN t PROVE t[i] \in ToSet(s \o t)
  <2>1. Len(s) + i \in 1 .. Len(s) + Len(t) /\ (s \o t)[Len(s) + i] = t[i]
    BY <1>1, <1>2
  <2> QED BY <1>2, <2>1 DEF ToSet
<1>6. ToSet(s \o t) \subseteq ToSet(s) \cup ToSet(t)
  BY <1>2, <1>3 DEF ToSet
<1>7. ToSet(s) \subseteq ToSet(s \o t) /\ ToSet(t) \subseteq ToSet(s \o t)
  BY <1>4, <1>5 DEF ToSet
<1> QED BY <1>1, <1>6, <1>7

\* A row goes before another: by data, then by posicao.  `d' and `p' are the
\* data and the posicao of each place of the list.
LugarAntes(d, p, i, j) == d[i] < d[j] \/ (d[i] = d[j] /\ p[i] < p[j])

\* The stable order of the places of the list.
PorLugar(d, p, D) ==
    {q \in D \X D : LugarAntes(d, p, q[1], q[2]) \/ (~LugarAntes(d, p, q[2], q[1]) /\ q[1] <= q[2])}

\* (data, posicao, place in the list) is a total order of the places.
LEMMA PorLugarTotal ==
    ASSUME NEW D \in SUBSET Int, NEW d \in [D -> Int], NEW p \in [D -> Int]
    PROVE  OrdemTotal(PorLugar(d, p, D), D)
<1>1. \A x, y \in D : <<x, y>> \in PorLugar(d, p, D) <=>
          LugarAntes(d, p, x, y) \/ (~LugarAntes(d, p, y, x) /\ x <= y)
  BY DEF PorLugar
<1>2. \A x \in D : d[x] \in Int /\ p[x] \in Int /\ x \in Int
  OBVIOUS
<1>3. \A x, y \in D : <<x, y>> \in PorLugar(d, p, D) \/ <<y, x>> \in PorLugar(d, p, D)
  <2> TAKE x, y \in D
  <2>1. d[x] \in Int /\ p[x] \in Int /\ x \in Int /\ d[y] \in Int /\ p[y] \in Int /\ y \in Int
    BY <1>2
  <2> QED BY <1>1, <2>1 DEF LugarAntes
<1>4. \A x, y \in D : <<x, y>> \in PorLugar(d, p, D) /\ <<y, x>> \in PorLugar(d, p, D) => x = y
  <2> TAKE x, y \in D
  <2>1. d[x] \in Int /\ p[x] \in Int /\ x \in Int /\ d[y] \in Int /\ p[y] \in Int /\ y \in Int
    BY <1>2
  <2> QED BY <1>1, <2>1 DEF LugarAntes
<1>5. \A x, y, z \in D : <<x, y>> \in PorLugar(d, p, D) /\ <<y, z>> \in PorLugar(d, p, D)
                            => <<x, z>> \in PorLugar(d, p, D)
  <2> TAKE x, y, z \in D
  <2>1. /\ d[x] \in Int /\ p[x] \in Int /\ x \in Int /\ d[y] \in Int /\ p[y] \in Int /\ y \in Int
        /\ d[z] \in Int /\ p[z] \in Int /\ z \in Int
    BY <1>2
  <2> QED BY <1>1, <2>1 DEF LugarAntes
<1> QED BY <1>3, <1>4, <1>5 DEF OrdemTotal

\* The place each turn calls, and that every place is called.
DaVez(vez, n) == [k \in 1 .. n |-> CHOOSE i \in 1 .. n : <<k, i>> \in vez]
Percorre(q, n) ==
    /\ q \in [1 .. n -> 1 .. n]
    /\ \A i \in 1 .. n : \E k \in 1 .. n : q[k] = i
    /\ \A j, k \in 1 .. n : q[j] = q[k] => j = k

\* Once the order is total, taking at each turn the place whose turn it is
\* visits every place, each at its turn.
LEMMA NaVez ==
    ASSUME NEW n \in Nat, NEW R, OrdemTotal(R, 1 .. n), NEW vez,
           vez = {<<Turno(1 .. n, R, i), i>> : i \in 1 .. n}
    PROVE  /\ Percorre(DaVez(vez, n), n)
           /\ \A k \in 1 .. n : Turno(1 .. n, R, DaVez(vez, n)[k]) = k
<1> DEFINE D == 1 .. n
           q == DaVez(vez, n)
           t(i) == Turno(D, R, i)
<1>1. IsFiniteSet(D) /\ Cardinality(D) = n
  BY FS_Interval
<1>2. Enfileira(R, D)
  BY <1>1, Turnos
<1>3. /\ \A i \in D : t(i) \in D
      /\ \A i, j \in D : t(i) = t(j) => i = j
      /\ \A k \in D : \E i \in D : t(i) = k
  BY <1>1, <1>2 DEF Enfileira
<1> HIDE DEF t
<1>4. \A k, i \in D : <<k, i>> \in vez <=> k = t(i)
  BY DEF t
<1>5. \A k \in D : \E i \in D : <<k, i>> \in vez
  BY <1>3, <1>4
<1>6. \A k \in D : q[k] \in D /\ <<k, q[k]>> \in vez
  BY <1>5 DEF DaVez
<1>7. q \in [D -> D]
  BY <1>6 DEF DaVez
<1> HIDE DEF q, D
<1>8. \A i \in D : q[t(i)] = i
  BY <1>3, <1>4, <1>6
<1>9. \A i \in D : \E k \in D : q[k] = i
  BY <1>3, <1>8
<1>10. \A j, k \in D : q[j] = q[k] => j = k
  BY <1>4, <1>6
<1>11. \A k \in D : t(q[k]) = k
  BY <1>4, <1>6
<1> QED BY <1>7, <1>9, <1>10, <1>11 DEF q, D, t, Percorre

\* `r' is `as' in another order.
Reordena(r, as) ==
    \E q : /\ Percorre(q, Len(as)) /\ DOMAIN r = 1 .. Len(as)
           /\ \A k \in 1 .. Len(as) : r[k] = as[q[k]]

\* The days and the positions of the places of a list, and their order.
DataDe(as)    == [i \in 1 .. Len(as) |-> as[i].data]
PosicaoDe(as) == [i \in 1 .. Len(as) |-> as[i].posicao]
OrdemDe(as)   == PorLugar(DataDe(as), PosicaoDe(as), 1 .. Len(as))

\* `r' is `as' with each row at its turn.
PorTurno(r, as) ==
    \E q : /\ Percorre(q, Len(as)) /\ DOMAIN r = 1 .. Len(as)
           /\ \A k \in 1 .. Len(as) : r[k] = as[q[k]] /\ Turno(1 .. Len(as), OrdemDe(as), q[k]) = k

\* Ordering a schedule puts each row at its turn.
LEMMA ordenarPorTurno ==
    ASSUME NEW T \in SUBSET Linhas, NEW as \in Seq(T)
    PROVE  PorTurno(ordenar(as), as) /\ ordenar(as) \in Seq(T)
<1> DEFINE n == Len(as)
           d == DataDe(as)
           p == PosicaoDe(as)
           R == OrdemDe(as)
           vez == {<<Cardinality({j \in DOMAIN as : DataPosicaoMenor(as[j], as[i])
                          \/ (~DataPosicaoMenor(as[i], as[j]) /\ j <= i)}), i>> : i \in DOMAIN as}
<1>1. n \in Nat /\ DOMAIN as = 1 .. n /\ \A i \in 1 .. n : as[i] \in T
  BY SeqEhFuncao
<1>2. \A i \in 1 .. n : as[i].data \in Int /\ as[i].posicao \in Int
  <2> TAKE i \in 1 .. n
  <2>1. as[i] \in Linhas
    BY <1>1
  <2> QED BY <2>1, LinhaTipo
<1>3. OrdemTotal(R, 1 .. n)
  <2>1. d \in [1 .. n -> Int]
    BY <1>2 DEF DataDe
  <2>2. p \in [1 .. n -> Int]
    BY <1>2 DEF PosicaoDe
  <2>3. (1 .. n) \in SUBSET Int
    <3> HIDE DEF n
    <3> QED OBVIOUS
  <2> HIDE DEF d, p, n
  <2> QED BY <2>1, <2>2, <2>3, PorLugarTotal DEF OrdemDe, d, p, n
<1>4. \A i \in 1 .. n :
         {j \in DOMAIN as : DataPosicaoMenor(as[j], as[i])
                               \/ (~DataPosicaoMenor(as[i], as[j]) /\ j <= i)}
           = {j \in 1 .. n : <<j, i>> \in R}
  <2>1. \A i, j \in 1 .. n : DataPosicaoMenor(as[j], as[i]) <=> LugarAntes(d, p, j, i)
    BY DEF DataPosicaoMenor, LugarAntes, DataDe, PosicaoDe
  <2>2. R = PorLugar(d, p, 1 .. n)
    BY DEF OrdemDe
  <2> HIDE DEF d, p, n, R
  <2> QED BY <1>1, <2>1, <2>2 DEF PorLugar
<1>5. vez = {<<Turno(1 .. n, R, i), i>> : i \in 1 .. n}
  <2> HIDE DEF d, p, n, R
  <2> QED BY <1>1, <1>4 DEF Turno
<1>6. ordenar(as) = [k \in 1 .. n |-> as[DaVez(vez, n)[k]]]
  BY <1>1 DEF ordenar, DaVez
<1> HIDE DEF R, vez, n, d, p
<1>7. Percorre(DaVez(vez, n), n) /\ \A k \in 1 .. n : Turno(1 .. n, R, DaVez(vez, n)[k]) = k
  BY <1>1, <1>3, <1>5, NaVez
<1> DEFINE q == DaVez(vez, n)
           r == ordenar(as)
<1>8. r = [k \in 1 .. n |-> as[q[k]]]
  BY <1>6
<1>9. Percorre(q, n) /\ \A k \in 1 .. n : Turno(1 .. n, R, q[k]) = k
  BY <1>7
<1> HIDE DEF q, r
<1>10. r \in [1 .. n -> T] /\ \A k \in 1 .. n : r[k] = as[q[k]]
  <2>1. q \in [1 .. n -> 1 .. n]
    BY <1>9 DEF Percorre
  <2> QED BY <1>1, <1>8, <2>1
<1>11. r \in Seq(T) /\ DOMAIN r = 1 .. n
  BY <1>1, <1>10, FuncaoEhSeq
<1>12. PorTurno(r, as)
  BY <1>9, <1>10, <1>11 DEF PorTurno, n, R
<1> QED BY <1>11, <1>12 DEF r

\* Ordering a schedule puts its rows in another order.
LEMMA ordenarReordena ==
    ASSUME NEW T \in SUBSET Linhas, NEW as \in Seq(T)
    PROVE  Reordena(ordenar(as), as) /\ ordenar(as) \in Seq(T)
<1>1. PorTurno(ordenar(as), as) /\ ordenar(as) \in Seq(T)
  BY ordenarPorTurno
<1> QED BY <1>1 DEF PorTurno, Reordena

\* Ordering a schedule loses no row, adds none and changes none.
LEMMA ordenarGuarda ==
    ASSUME NEW T \in SUBSET Linhas, NEW as \in Seq(T)
    PROVE  /\ ordenar(as) \in Seq(T)
           /\ ToSet(ordenar(as)) = ToSet(as)
           /\ DOMAIN ordenar(as) = DOMAIN as
<1> DEFINE n == Len(as)
           r == ordenar(as)
<1>1. n \in Nat /\ DOMAIN as = 1 .. n
  BY SeqEhFuncao
<1>2. Reordena(r, as) /\ r \in Seq(T)
  BY ordenarReordena
<1>3. PICK q : /\ Percorre(q, n) /\ DOMAIN r = 1 .. n
              /\ \A k \in 1 .. n : r[k] = as[q[k]]
  BY <1>2 DEF Reordena
<1> HIDE DEF r, n
<1>10. \A k \in 1 .. n : r[k] = as[q[k]]
  BY <1>3
<1>11. \A k \in 1 .. n : q[k] \in 1 .. n
  BY <1>3 DEF Percorre
<1>12. \A i \in 1 .. n : \E k \in 1 .. n : q[k] = i
  BY <1>3 DEF Percorre
<1>13. r \in Seq(T) /\ DOMAIN r = 1 .. n
  BY <1>2, <1>3
<1>14. ToSet(r) \subseteq ToSet(as)
  <2>1. ASSUME NEW k \in 1 .. n PROVE r[k] \in ToSet(as)
    <3>1. r[k] = as[q[k]] /\ q[k] \in DOMAIN as
      BY <1>1, <1>10, <1>11
    <3> QED BY <3>1 DEF ToSet
  <2> QED BY <1>13, <2>1 DEF ToSet
<1>15. ASSUME NEW i \in 1 .. n PROVE as[i] \in ToSet(r)
  <2>1. PICK k \in 1 .. n : q[k] = i
    BY <1>12
  <2>2. r[k] = as[i]
    BY <1>10, <2>1
  <2>3. r[k] \in ToSet(r)
    BY <1>13 DEF ToSet
  <2> QED BY <2>2, <2>3
<1>16. ToSet(as) \subseteq ToSet(r)
  BY <1>1, <1>15 DEF ToSet
<1>17. r \in Seq(T) /\ ToSet(r) = ToSet(as) /\ DOMAIN r = DOMAIN as
  BY <1>1, <1>13, <1>14, <1>16
<1> QED BY <1>17 DEF r

-----------------------------------------------------------------------------
(* Positions, loads and days.                                              *)

\* A sequence is of any type its elements are of.
LEMMA DeOutroConjunto ==
    ASSUME NEW X, NEW T, NEW s \in Seq(X), \A i \in DOMAIN s : s[i] \in T
    PROVE  s \in Seq(T)
<1>1. Len(s) \in Nat /\ DOMAIN s = 1 .. Len(s) /\ s \in [1 .. Len(s) -> X]
  BY LenProperties
<1>2. s \in [1 .. Len(s) -> T]
  BY <1>1
<1> QED BY <1>1, <1>2, FuncaoEhSeq

\* Rows of `S', by whatever place they have on their day.
Solto(S) == \A a \in S, n \in Nat : [a EXCEPT !.posicao = n] \in S

\* The numbers up to n are n.
LEMMA AteFinito ==
    ASSUME NEW n \in Nat
    PROVE  IsFiniteSet(1 .. n) /\ Cardinality(1 .. n) = n
BY FS_Interval

\* A set of places of a sequence is finite.
LEMMA PartesFinitas ==
    ASSUME NEW T, NEW as \in Seq(T), NEW X \in SUBSET DOMAIN as
    PROVE  IsFiniteSet(X) /\ Cardinality(X) \in Nat
<1>1. DOMAIN as = 1 .. Len(as) /\ Len(as) \in Nat
  BY SeqEhFuncao
<1>2. IsFiniteSet(1 .. Len(as))
  BY <1>1, AteFinito
<1>3. X \in SUBSET (1 .. Len(as))
  BY <1>1
<1> QED BY <1>2, <1>3, <1>1, FS_Subset, FS_CardinalityType

\* The load of a day is a number.
LEMMA CargaEhNumero ==
    ASSUME NEW T, NEW as \in Seq(T), NEW dt
    PROVE  CargaNoDia(as, dt) \in Nat
BY PartesFinitas DEF CargaNoDia

\* Same places, each row replaced by another of its kind.
LEMMA LugarALugar ==
    ASSUME NEW X, NEW T, NEW s \in Seq(X), NEW r \in [DOMAIN s -> T]
    PROVE  r \in Seq(T)
<1>1. Len(s) \in Nat /\ DOMAIN s = 1 .. Len(s)
  BY LenProperties
<1>2. r \in [1 .. Len(s) -> T]
  BY <1>1
<1> QED BY <1>1, <1>2, FuncaoEhSeq

\* `renumerar' changes positions only.
LEMMA renumerarTipo ==
    ASSUME NEW T \in SUBSET Linhas, Solto(T), NEW as \in Seq(T), NEW dias
    PROVE  renumerar(as, dias) \in Seq(T)
<1> DEFINE n(i) == Cardinality({j \in DOMAIN as : /\ as[j].data = as[i].data
                              /\ \/ as[j].posicao < as[i].posicao
                                 \/ as[j].posicao = as[i].posicao /\ j < i})
           r == [i \in DOMAIN as |->
                   IF as[i].data \in dias THEN [as[i] EXCEPT !.posicao = n(i)] ELSE as[i]]
<1>1. renumerar(as, dias) = r
  BY DEF renumerar
<1>2. ASSUME NEW i \in DOMAIN as PROVE n(i) \in Nat
  <2> DEFINE E == {j \in DOMAIN as : /\ as[j].data = as[i].data
                              /\ \/ as[j].posicao < as[i].posicao
                                 \/ as[j].posicao = as[i].posicao /\ j < i}
  <2>1. E \in SUBSET DOMAIN as
    OBVIOUS
  <2> HIDE DEF E
  <2>2. Cardinality(E) \in Nat
    BY <2>1, PartesFinitas
  <2> QED BY <2>2 DEF E
<1> HIDE DEF n
<1>3. \A i \in DOMAIN as : r[i] \in T
  BY <1>2, SeqEhFuncao DEF Solto
<1>4. r \in Seq(T)
  <2>1. r \in [DOMAIN as -> T]
    BY <1>3
  <2> HIDE DEF r
  <2> QED BY <2>1, LugarALugar
<1> QED BY <1>1, <1>4

\* `EmOrdem' changes positions only.
LEMMA EmOrdemTipo ==
    ASSUME NEW T, Solto(T), NEW as \in Seq(T)
    PROVE  EmOrdem(as) \in Seq(T)
<1> DEFINE r == [i \in DOMAIN as |-> [as[i] EXCEPT !.posicao = i - 1]]
<1>1. \A i \in DOMAIN as : as[i] \in T /\ i - 1 \in Nat
  <2> TAKE i \in DOMAIN as
  <2>1. i \in Nat /\ i \in 1 .. Len(as)
    BY LugarEhNumero
  <2>2. as[i] \in T
    BY LugarEhNumero
  <2>3. i - 1 \in Nat
    BY <2>1
  <2> QED BY <2>2, <2>3
<1>2. ASSUME NEW i \in DOMAIN as PROVE r[i] \in T
  <2>1. r[i] = [as[i] EXCEPT !.posicao = i - 1]
    OBVIOUS
  <2> HIDE DEF r
  <2> QED BY <1>1, <2>1 DEF Solto
<1>3. r \in Seq(T)
  <2>1. r \in [DOMAIN as -> T]
    BY <1>2
  <2> HIDE DEF r
  <2> QED BY <2>1, LugarALugar
<1> QED BY <1>3 DEF EmOrdem

\* The rows of `T', put on the day `dt', are rows of `V'.
NoLugar(a, dt, n) == [a EXCEPT !.data = dt, !.posicao = n]
CabeNoDia(T, V, dt) == \A a \in T, n \in Nat : NoLugar(a, dt, n) \in V

\* Rows put on one day are rows of whatever set accepts them there.
LEMMA NoDiaTipo ==
    ASSUME NEW T, NEW V, NEW as \in Seq(T), NEW dt, NEW base \in Nat,
           CabeNoDia(T, V, dt)
    PROVE  NoDia(as, dt, base) \in Seq(V)
<1> DEFINE linha(k) == NoLugar(as[k], dt, base + k - 1)
           r == [k \in DOMAIN as |-> linha(k)]
<1>1. ASSUME NEW i \in DOMAIN as PROVE linha(i) \in V
  <2>1. i \in Nat /\ i \in 1 .. Len(as)
    BY LugarEhNumero
  <2>2. as[i] \in T
    BY LugarEhNumero
  <2>3. base + i - 1 \in Nat
    BY <2>1
  <2> QED BY <2>2, <2>3 DEF CabeNoDia
<1>2. NoDia(as, dt, base) = r
  BY DEF NoDia, NoLugar
<1> HIDE DEF linha
<1>3. r \in [DOMAIN as -> V]
  BY <1>1
<1> HIDE DEF r
<1> QED BY <1>2, <1>3, LugarALugar

\* The rows of a day are rows of the schedule, on that day.
LEMMA doDiaTipo ==
    ASSUME NEW T \in SUBSET Linhas, NEW as \in Seq(T), NEW dt
    PROVE  /\ doDia(as, dt) \in Seq(T)
           /\ \A a \in ToSet(doDia(as, dt)) : a.data = dt
<1> DEFINE E == {i \in DOMAIN as : as[i].data = dt}
           f == SubFila(as, E)
<1>1. f \in Seq(T) /\ ToSet(f) = {as[i] : i \in E}
  BY SubFilaDoLugar
<1> HIDE DEF f
<1>2. ordenar(f) \in Seq(T) /\ ToSet(ordenar(f)) = ToSet(f)
  BY <1>1, ordenarGuarda
<1> QED BY <1>1, <1>2 DEF doDia, f

-----------------------------------------------------------------------------
(* What packing may make of a row.                                         *)

\* A sequence over a set is one over every larger set.
LEMMA SeqCabe ==
    ASSUME NEW S, NEW V, S \subseteq V, NEW s \in Seq(S)
    PROVE  s \in Seq(V)
<1>1. \A i \in DOMAIN s : s[i] \in V
  BY SeqEhFuncao
<1> QED BY <1>1, DeOutroConjunto

\* `b' is the row `a', on another day and place perhaps.
Mesmo(a, b) ==
    /\ b.id = a.id /\ b.disciplina = a.disciplina
    /\ b.tema = a.tema /\ b.passada = a.passada
    /\ b.antecipada => a.antecipada

\* The rows a packing from `desde' on can make of the rows `S': each is one
\* of them, on the same day or moved between days from `desde' on.
Vindas(S, desde) ==
    {b \in Linhas : \E a \in S : /\ Mesmo(a, b)
                                 /\ b.data = a.data \/ (a.data >= desde /\ b.data >= desde)}

\* What waits for a day: rows of `S' taken from the days from `desde' on.
NaFila(S, desde) == {b \in Linhas : \E a \in S : Mesmo(a, b) /\ a.data >= desde}

\* A row with another position is the same row, on the same day.
LEMMA LinhaMuda ==
    ASSUME NEW a \in Linhas, NEW n \in Nat
    PROVE  /\ [a EXCEPT !.posicao = n] \in Linhas
           /\ Mesmo(a, [a EXCEPT !.posicao = n])
           /\ [a EXCEPT !.posicao = n].data = a.data
BY DEF Linhas, Mesmo

\* A row put in another place is the same row, on the day it was put.
LEMMA NoLugarTipo ==
    ASSUME NEW a \in Linhas, NEW n \in Nat, NEW dt \in 1 .. Prova
    PROVE  /\ NoLugar(a, dt, n) \in Linhas
           /\ Mesmo(a, NoLugar(a, dt, n))
           /\ NoLugar(a, dt, n).data = dt
BY DEF Linhas, Mesmo, NoLugar

\* Being the same row carries over a second move.
LEMMA MesmoDoMesmo ==
    ASSUME NEW a, NEW b, NEW c, Mesmo(a, b), Mesmo(b, c)
    PROVE  Mesmo(a, c)
BY DEF Mesmo

\* What a packing may make of rows: rows; the rows themselves; in any position; and,
\* of what waits in the queue, whatever day from `desde' on it is put on.
LEMMA VindasFatos ==
    ASSUME NEW S \in SUBSET Linhas, NEW desde \in Int
    PROVE  /\ Vindas(S, desde) \in SUBSET Linhas
           /\ NaFila(S, desde) \in SUBSET Linhas
           /\ S \subseteq Vindas(S, desde)
           /\ Solto(Vindas(S, desde))
           /\ \A a \in S : a.data >= desde => a \in NaFila(S, desde)
           /\ \A dt \in 1 .. Prova : dt >= desde => CabeNoDia(NaFila(S, desde), Vindas(S, desde), dt)
<1>1. Vindas(S, desde) \in SUBSET Linhas
  BY DEF Vindas
<1>2. NaFila(S, desde) \in SUBSET Linhas
  BY DEF NaFila
<1>3. ASSUME NEW a \in S PROVE a \in Vindas(S, desde)
  <2>1. a \in Linhas /\ Mesmo(a, a)
    BY DEF Mesmo
  <2> QED BY <2>1 DEF Vindas
<1>4. ASSUME NEW b \in Vindas(S, desde), NEW n \in Nat
      PROVE  [b EXCEPT !.posicao = n] \in Vindas(S, desde)
  <2> DEFINE c == [b EXCEPT !.posicao = n]
  <2>1. \E a \in S : Mesmo(a, b) /\ (b.data = a.data \/ (a.data >= desde /\ b.data >= desde))
    BY DEF Vindas
  <2>2. b \in Linhas
    BY DEF Vindas
  <2>3. PICK a \in S : Mesmo(a, b) /\ (b.data = a.data \/ (a.data >= desde /\ b.data >= desde))
    BY <2>1
  <2>4. c \in Linhas /\ Mesmo(b, c) /\ c.data = b.data
    BY <2>2, LinhaMuda
  <2> HIDE DEF c
  <2>5. Mesmo(a, c)
    BY <2>3, <2>4, MesmoDoMesmo
  <2>6. c.data = a.data \/ (a.data >= desde /\ c.data >= desde)
    BY <2>3, <2>4
  <2>7. c \in Vindas(S, desde)
    BY <2>4, <2>5, <2>6 DEF Vindas
  <2> QED BY <2>7 DEF c
<1>5. ASSUME NEW a \in S, a.data >= desde PROVE a \in NaFila(S, desde)
  <2>1. a \in Linhas /\ Mesmo(a, a)
    BY DEF Mesmo
  <2> QED BY <1>5, <2>1 DEF NaFila
<1>6. ASSUME NEW dt \in 1 .. Prova, dt >= desde, NEW b \in NaFila(S, desde), NEW n \in Nat
      PROVE  NoLugar(b, dt, n) \in Vindas(S, desde)
  <2> DEFINE c == NoLugar(b, dt, n)
  <2>1. PICK a \in S : Mesmo(a, b) /\ a.data >= desde
    BY DEF NaFila
  <2>2. b \in Linhas
    BY DEF NaFila
  <2>3. c \in Linhas /\ Mesmo(b, c) /\ c.data = dt
    BY <2>2, NoLugarTipo
  <2> HIDE DEF c
  <2>4. Mesmo(a, c)
    BY <2>1, <2>3, MesmoDoMesmo
  <2>5. c \in Vindas(S, desde)
    BY <1>6, <2>1, <2>3, <2>4 DEF Vindas
  <2> QED BY <2>5 DEF c
<1>7. \A dt \in 1 .. Prova : dt >= desde => CabeNoDia(NaFila(S, desde), Vindas(S, desde), dt)
  BY <1>6 DEF CabeNoDia
<1>8. Solto(Vindas(S, desde))
  BY <1>4 DEF Solto
<1> QED BY <1>1, <1>2, <1>3, <1>5, <1>7, <1>8

\* The days that receive are days of the plan, from `desde' on.
LEMMA DiasQueRecebemTipo ==
    ASSUME NEW dias, DOMAIN dias \subseteq 1 .. Prova, NEW desde \in Int, NEW fase
    PROVE  /\ diasQueRecebem(dias, desde, fase) \in Seq({dt \in 1 .. Prova : dt >= desde})
           /\ ToSet(diasQueRecebem(dias, desde, fase)) \subseteq DOMAIN dias
<1> DEFINE E == {dt \in DOMAIN dias : dt >= desde /\ dias[dt].fase = fase /\ DestinoValido(dias, dt)}
           s == EmSequencia(E)
<1>1. E \in SUBSET Int /\ E \subseteq {dt \in 1 .. Prova : dt >= desde} /\ E \subseteq DOMAIN dias
  BY Calendario
<1>2. IsFiniteSet(E)
  BY Calendario, AteFinito, FS_Subset
<1> HIDE DEF E
<1>3. s \in Seq(E) /\ ToSet(s) = E
  BY <1>1, <1>2, EmSequenciaTodos
<1> HIDE DEF s
<1>4. s \in Seq({dt \in 1 .. Prova : dt >= desde})
  BY <1>1, <1>3, SeqCabe
<1> QED BY <1>1, <1>3, <1>4 DEF diasQueRecebem, s, E

-----------------------------------------------------------------------------
(* Packing, day by day.                                                    *)

\* `f' goes from A, the k-th step being D's.
Caminho(f, n, P, A, D) ==
    f \in [0 .. n -> P] /\ f[0] = A /\ \A k \in 1 .. n : f[k] = D[<<f[k - 1], k>>]

\* A function defined step by step exists: `A' is where it starts, D[x, k] what
\* the k-th step makes of x.
LEMMA PassoAPasso ==
    ASSUME NEW n \in Nat, NEW P, NEW A \in P, NEW D \in [P \X (1 .. n) -> P]
    PROVE  \E f : Caminho(f, n, P, A, D)
<1> DEFINE Ate(m, f) == f[0] = A /\ \A k \in 1 .. m : f[k] = D[<<f[k - 1], k>>]
           T == {m \in 0 .. n : \E f \in [0 .. n -> P] : Ate(m, f)}
<1>1. 0 \in T
  <2> DEFINE g == [k \in 0 .. n |-> A]
  <2>1. g \in [0 .. n -> P]
    OBVIOUS
  <2>2. g[0] = A
    OBVIOUS
  <2>3. \A k \in 1 .. 0 : g[k] = D[<<g[k - 1], k>>]
    OBVIOUS
  <2> HIDE DEF g
  <2> QED BY <2>1, <2>2, <2>3
<1>2. ASSUME NEW m \in 0 .. n, m # n, m \in T PROVE m + 1 \in T
  <2>1. PICK f \in [0 .. n -> P] : Ate(m, f)
    BY <1>2
  <2> DEFINE g == [k \in 0 .. n |-> IF k = m + 1 THEN D[<<f[m], m + 1>>] ELSE f[k]]
  <2>2. m \in Nat /\ m + 1 \in 1 .. n /\ m \in 0 .. n /\ m + 1 \in 0 .. n
    BY <1>2
  <2>3. D[<<f[m], m + 1>>] \in P
    BY <2>2
  <2>4. g \in [0 .. n -> P]
    BY <2>3
  <2>5. g[0] = A /\ g[m + 1] = D[<<f[m], m + 1>>] /\ g[m] = f[m]
    BY <2>1, <2>2
  <2>6. ASSUME NEW k \in 1 .. m PROVE g[k] = D[<<g[k - 1], k>>]
    <3>1. k \in 0 .. n /\ k - 1 \in 0 .. n /\ k # m + 1 /\ k - 1 # m + 1
      BY <2>2
    <3>2. g[k] = f[k] /\ g[k - 1] = f[k - 1]
      BY <3>1
    <3>3. f[k] = D[<<f[k - 1], k>>]
      BY <2>1
    <3> HIDE DEF g
    <3> QED BY <3>2, <3>3
  <2> HIDE DEF g
  <2>7. ASSUME NEW k \in 1 .. m + 1 PROVE g[k] = D[<<g[k - 1], k>>]
    <3>1. CASE k = m + 1
      <4>1. k - 1 = m
        BY <2>2, <3>1
      <4> QED BY <2>5, <3>1, <4>1
    <3>2. CASE k # m + 1
      <4>1. k \in 1 .. m
        BY <2>2, <3>2
      <4> QED BY <2>6, <4>1
    <3> QED BY <3>1, <3>2
  <2>8. Ate(m + 1, g)
    BY <2>5, <2>7
  <2> QED BY <2>2, <2>4, <2>8
<1> HIDE DEF Ate
<1>3. 0 .. n \subseteq T
  <2> HIDE DEF T
  <2> QED BY <1>1, <1>2, InducaoAte
<1>4. n \in T
  BY <1>3
<1>5. PICK f \in [0 .. n -> P] : Ate(n, f)
  BY <1>4
<1>6. Caminho(f, n, P, A, D)
  BY <1>5 DEF Ate, Caminho
<1> QED BY <1>6

\* A day that takes its places of the queue leaves rows in both lists.
LEMMA DiaTipo ==
    ASSUME NEW F, NEW V, NEW p \in [fila : Seq(F), saida : Seq(V)], NEW dt,
           CabeNoDia(F, V, dt), NEW pega \in SUBSET DOMAIN p.fila
    PROVE  Encher(p, dt, pega) \in [fila : Seq(F), saida : Seq(V)]
<1>1. p.fila \in Seq(F) /\ p.saida \in Seq(V)
  OBVIOUS
<1>2. SubFila(p.fila, DOMAIN p.fila \ pega) \in Seq(F)
  BY <1>1, SubFilaDoLugar
<1>3. SubFila(p.fila, pega) \in Seq(F)
  BY <1>1, SubFilaDoLugar
<1>4. NoDia(SubFila(p.fila, pega), dt, 0) \in Seq(V)
  BY <1>3, NoDiaTipo
<1>5. p.saida \o NoDia(SubFila(p.fila, pega), dt, 0) \in Seq(V)
  BY <1>1, <1>4, JuntaTodos
<1> QED BY <1>2, <1>5 DEF Encher

\* What no day had room for is put on the last one, and nothing is lost of it.
LEMMA ComSobraTipo ==
    ASSUME NEW F, NEW V, NEW p \in [fila : Seq(F), saida : Seq(V)], NEW dt, CabeNoDia(F, V, dt)
    PROVE  ComSobra(p, dt) \in Seq(V)
<1>1. p.fila \in Seq(F) /\ p.saida \in Seq(V)
  OBVIOUS
<1>2. CargaNoDia(p.saida, dt) \in Nat
  BY <1>1, CargaEhNumero
<1>3. NoDia(p.fila, dt, CargaNoDia(p.saida, dt)) \in Seq(V)
  BY <1>1, <1>2, NoDiaTipo
<1> QED BY <1>1, <1>3, JuntaTodos DEF ComSobra

\* Where packing starts, and what it makes of a day.
InicioDe(conteudo, uteis, ancoras) ==
    LET ondeEsta(dias) == {i \in DOMAIN conteudo : conteudo[i].data \in dias}
    IN  [fila  |-> ordenar(SubFila(conteudo, ondeEsta(ToSet(uteis) \ ancoras))),
         saida |-> SubFila(conteudo, DOMAIN conteudo \ ondeEsta(ToSet(uteis)))]

DiaDe(p, dt, conteudo, ancoras, carga) ==
    IF dt \in ancoras
    THEN [p EXCEPT !.saida = @ \o EmOrdem(doDia(conteudo, dt))]
    ELSE Encher(p, dt, Escolhidas(p.fila, carga))

\* The two lists packing works on.
DuasFilas == [fila : Seq(Linhas), saida : Seq(Linhas)]

\* Both are lists of rows, and stay so.
LEMMA DuasFilasTipo ==
    ASSUME NEW conteudo \in Seq(Linhas), NEW uteis, NEW ancoras, NEW carga
    PROVE  /\ InicioDe(conteudo, uteis, ancoras) \in DuasFilas
           /\ \A p \in DuasFilas, dt \in 1 .. Prova : DiaDe(p, dt, conteudo, ancoras, carga) \in DuasFilas
<1>1. InicioDe(conteudo, uteis, ancoras) \in DuasFilas
  <2> DEFINE E == {i \in DOMAIN conteudo : conteudo[i].data \in ToSet(uteis) \ ancoras}
             G == DOMAIN conteudo \ {i \in DOMAIN conteudo : conteudo[i].data \in ToSet(uteis)}
  <2>1. E \in SUBSET DOMAIN conteudo /\ G \in SUBSET DOMAIN conteudo
    OBVIOUS
  <2>2. InicioDe(conteudo, uteis, ancoras)
           = [fila |-> ordenar(SubFila(conteudo, E)), saida |-> SubFila(conteudo, G)]
    BY DEF InicioDe
  <2> HIDE DEF E, G
  <2>3. SubFila(conteudo, E) \in Seq(Linhas) /\ SubFila(conteudo, G) \in Seq(Linhas)
    BY <2>1, SubFilaDoLugar
  <2>4. ordenar(SubFila(conteudo, E)) \in Seq(Linhas)
    BY <2>3, ordenarGuarda
  <2> QED BY <2>2, <2>3, <2>4 DEF DuasFilas
<1>2. ASSUME NEW p \in DuasFilas, NEW dt \in 1 .. Prova
      PROVE  DiaDe(p, dt, conteudo, ancoras, carga) \in DuasFilas
  <2>1. CASE dt \in ancoras
    <3>1. EmOrdem(doDia(conteudo, dt)) \in Seq(Linhas)
      <4>1. doDia(conteudo, dt) \in Seq(Linhas)
        BY doDiaTipo
      <4>2. Solto(Linhas)
        BY LinhaMuda DEF Solto
      <4> QED BY <4>1, <4>2, EmOrdemTipo
    <3>2. p.saida \o EmOrdem(doDia(conteudo, dt)) \in Seq(Linhas)
      BY <3>1, JuntaTodos DEF DuasFilas
    <3> QED BY <2>1, <3>2 DEF DiaDe, DuasFilas
  <2>2. CASE dt \notin ancoras
    <3>1. Escolhidas(p.fila, carga) \in SUBSET DOMAIN p.fila
      BY DEF Escolhidas
    <3>2. CabeNoDia(Linhas, Linhas, dt)
      BY NoLugarTipo DEF CabeNoDia
    <3>3. Encher(p, dt, Escolhidas(p.fila, carga)) \in DuasFilas
      BY <3>1, <3>2, DiaTipo DEF DuasFilas
    <3> QED BY <2>2, <3>3 DEF DiaDe
  <2> QED BY <2>1, <2>2
<1> QED BY <1>1, <1>2

\* What packing keeps from day to day it has at the end: `G' holds the pairs of
\* a day and the two lists with which that may be reached.
LEMMA EmpacotarInducao ==
    ASSUME NEW conteudo \in Seq(Linhas), NEW uteis \in Seq(1 .. Prova), uteis # <<>>, NEW ancoras,
           NEW G, <<0, InicioDe(conteudo, uteis, ancoras)>> \in G,
           \A k \in 0 .. Len(uteis), p \in DuasFilas :
              k # Len(uteis) /\ <<k, p>> \in G
                 => <<k + 1, DiaDe(p, uteis[k + 1], conteudo, ancoras,
                                   cargaTipica(conteudo, ToSet(uteis)))>> \in G
    PROVE  \E p \in DuasFilas :
              /\ <<Len(uteis), p>> \in G
              /\ Empacotar(conteudo, uteis, ancoras) = ComSobra(p, uteis[Len(uteis)])
<1> DEFINE P == DuasFilas
           n == Len(uteis)
           carga == cargaTipica(conteudo, ToSet(uteis))
           dia(p, dt) == DiaDe(p, dt, conteudo, ancoras, carga)
           A == InicioDe(conteudo, uteis, ancoras)
           D == [x \in P \X (1 .. n) |-> dia(x[1], uteis[x[2]])]
           passo[k \in 0 .. n] == IF k = 0 THEN A ELSE dia(passo[k - 1], uteis[k])
<1>1. n \in Nat /\ DOMAIN uteis = 1 .. n /\ \A k \in 1 .. n : uteis[k] \in 1 .. Prova
  BY LugarEhNumero, SeqEhFuncao
<1>2. n \in 0 .. n
  <2> HIDE DEF n
  <2> QED BY <1>1
<1>3. Empacotar(conteudo, uteis, ancoras) = ComSobra(passo[n], uteis[n])
  BY DEF Empacotar, InicioDe, DiaDe
<1>4. A \in P /\ \A p \in P, k \in 1 .. n : dia(p, uteis[k]) \in P
  BY <1>1, DuasFilasTipo
<1>5. /\ <<0, A>> \in G
      /\ \A k \in 0 .. n, p \in P : k # n /\ <<k, p>> \in G => <<k + 1, dia(p, uteis[k + 1])>> \in G
  OBVIOUS
<1> HIDE DEF A, dia, P, carga
<1>6. D \in [P \X (1 .. n) -> P]
  <2>1. ASSUME NEW x \in P \X (1 .. n) PROVE dia(x[1], uteis[x[2]]) \in P
    BY <1>4
  <2> QED BY <2>1
<1>7. \A p \in P, k \in 1 .. n : D[<<p, k>>] = dia(p, uteis[k])
  OBVIOUS
<1> HIDE DEF D, n
<1>8. PICK f : Caminho(f, n, P, A, D)
  BY <1>1, <1>4, <1>6, PassoAPasso
<1>9. f \in [0 .. n -> P] /\ f[0] = A /\ \A k \in 1 .. n : f[k] = dia(f[k - 1], uteis[k])
  <2>1. f \in [0 .. n -> P] /\ f[0] = A /\ \A k \in 1 .. n : f[k] = D[<<f[k - 1], k>>]
    BY <1>8 DEF Caminho
  <2>2. ASSUME NEW k \in 1 .. n PROVE f[k - 1] \in P
    <3>1. k - 1 \in 0 .. n
      BY <1>1
    <3> QED BY <2>1, <3>1
  <2> QED BY <1>7, <2>1, <2>2
<1>10. f = [k \in 0 .. n |-> IF k = 0 THEN A ELSE dia(f[k - 1], uteis[k])]
  <2>1. ASSUME NEW k \in 0 .. n PROVE f[k] = IF k = 0 THEN A ELSE dia(f[k - 1], uteis[k])
    <3>1. k # 0 => k \in 1 .. n
      BY <1>1
    <3> QED BY <1>9, <3>1
  <2> QED BY <1>9, <2>1
<1>11. passo = [k \in 0 .. n |-> IF k = 0 THEN A ELSE dia(passo[k - 1], uteis[k])]
  BY <1>10
<1> HIDE DEF passo
<1>12. passo[n] \in P /\ <<n, passo[n]>> \in G
  <2> DEFINE T == {k \in 0 .. n : passo[k] \in P /\ <<k, passo[k]>> \in G}
  <2>1. 0 \in T
    BY <1>1, <1>4, <1>5, <1>11
  <2>2. ASSUME NEW k \in 0 .. n, k # n, k \in T PROVE k + 1 \in T
    <3>1. k + 1 \in 1 .. n /\ k + 1 \in 0 .. n /\ k + 1 # 0 /\ (k + 1) - 1 = k
      <4>1. k \in 0 .. n /\ k # n /\ n \in Nat
        BY <1>1, <2>2
      <4> HIDE DEF T
      <4> QED BY <4>1
    <3>2. passo[k + 1] = dia(passo[k], uteis[k + 1])
      BY <1>11, <3>1
    <3>3. passo[k + 1] \in P /\ <<k + 1, passo[k + 1]>> \in G
      BY <1>4, <1>5, <2>2, <3>1, <3>2
    <3> QED BY <3>1, <3>3
  <2> HIDE DEF T
  <2>3. 0 .. n \subseteq T
    BY <1>1, <2>1, <2>2, InducaoAte
  <2> QED BY <1>2, <2>3 DEF T
<1> QED BY <1>3, <1>12 DEF P, n

\* A packing on days from `desde' on moves rows from those days to those days.
LEMMA EmpacotarTipo ==
    ASSUME NEW S \in SUBSET Linhas, NEW desde \in Int,
           NEW conteudo \in Seq(S),
           NEW uteis \in Seq({dt \in 1 .. Prova : dt >= desde}), uteis # <<>>,
           NEW ancoras
    PROVE  Empacotar(conteudo, uteis, ancoras) \in Seq(Vindas(S, desde))
<1> DEFINE F == NaFila(S, desde)
           V == Vindas(S, desde)
           P == [fila : Seq(F), saida : Seq(V)]
           n == Len(uteis)
           ondeEsta(dias) == {i \in DOMAIN conteudo : conteudo[i].data \in dias}
           carga == cargaTipica(conteudo, ToSet(uteis))
           dia(p, dt) == DiaDe(p, dt, conteudo, ancoras, carga)
           A == InicioDe(conteudo, uteis, ancoras)
           G == (0 .. n) \X P
<1>1. n \in Nat /\ DOMAIN uteis = 1 .. n /\ \A k \in 1 .. n : uteis[k] \in 1 .. Prova /\ uteis[k] >= desde
  <2>1. \A k \in DOMAIN uteis : uteis[k] \in {dt \in 1 .. Prova : dt >= desde}
    BY LugarEhNumero
  <2> QED BY <2>1, SeqEhFuncao
<1>2. n \in 1 .. n
  <2>1. n # 0
    BY EmptySeq
  <2> HIDE DEF n
  <2> QED BY <1>1, <2>1
<1>4. /\ V \in SUBSET Linhas /\ F \in SUBSET Linhas
      /\ S \subseteq V /\ Solto(V)
      /\ \A a \in S : a.data >= desde => a \in F
      /\ \A dt \in 1 .. Prova : dt >= desde => CabeNoDia(F, V, dt)
  BY VindasFatos
<1> HIDE DEF F, V
<1>5. A \in P
  <2>1. SubFila(conteudo, DOMAIN conteudo \ ondeEsta(ToSet(uteis))) \in Seq(V)
    <3>1. SubFila(conteudo, DOMAIN conteudo \ ondeEsta(ToSet(uteis))) \in Seq(S)
      BY SubFilaDoLugar
    <3> QED BY <1>4, <3>1, SeqCabe
  <2>2. ordenar(SubFila(conteudo, ondeEsta(ToSet(uteis) \ ancoras))) \in Seq(F)
    <3> DEFINE E == ondeEsta(ToSet(uteis) \ ancoras)
               f == SubFila(conteudo, E)
    <3>1. f \in Seq(S) /\ ToSet(f) = {conteudo[i] : i \in E}
      BY SubFilaDoLugar
    <3>2. ASSUME NEW i \in E PROVE conteudo[i] \in F
      <4>1. conteudo[i] \in S
        BY LugarEhNumero
      <4>2. PICK k \in 1 .. n : conteudo[i].data = uteis[k]
        BY <1>1 DEF ToSet
      <4>3. conteudo[i].data >= desde
        BY <1>1, <4>2
      <4> QED BY <1>4, <4>1, <4>3
    <3> HIDE DEF E
    <3>3. ToSet(f) \subseteq F
      BY <3>1, <3>2
    <3> HIDE DEF f
    <3>4. \A i \in DOMAIN f : f[i] \in F
      BY <3>3 DEF ToSet
    <3>5. f \in Seq(F)
      BY <3>1, <3>4, DeOutroConjunto
    <3>6. ordenar(f) \in Seq(F)
      BY <1>4, <3>5, ordenarGuarda
    <3> QED BY <3>6 DEF f, E
  <2> QED BY <2>1, <2>2 DEF InicioDe
<1>6. ASSUME NEW p \in P, NEW k \in 1 .. n PROVE dia(p, uteis[k]) \in P
  <2>1. CASE uteis[k] \in ancoras
    <3>1. doDia(conteudo, uteis[k]) \in Seq(S)
      BY doDiaTipo
    <3>2. doDia(conteudo, uteis[k]) \in Seq(V)
      BY <1>4, <3>1, SeqCabe
    <3>3. EmOrdem(doDia(conteudo, uteis[k])) \in Seq(V)
      BY <1>4, <3>2, EmOrdemTipo
    <3>4. p.saida \o EmOrdem(doDia(conteudo, uteis[k])) \in Seq(V)
      BY <3>3, JuntaTodos
    <3> QED BY <2>1, <3>4 DEF DiaDe
  <2>2. CASE uteis[k] \notin ancoras
    <3>1. Escolhidas(p.fila, carga) \in SUBSET DOMAIN p.fila
      BY DEF Escolhidas
    <3>2. CabeNoDia(F, V, uteis[k])
      BY <1>1, <1>4
    <3>3. Encher(p, uteis[k], Escolhidas(p.fila, carga)) \in P
      BY <3>1, <3>2, DiaTipo
    <3> QED BY <2>2, <3>3 DEF DiaDe
  <2> QED BY <2>1, <2>2
<1>7. conteudo \in Seq(Linhas) /\ uteis \in Seq(1 .. Prova)
  <2>1. {dt \in 1 .. Prova : dt >= desde} \subseteq 1 .. Prova
    OBVIOUS
  <2> QED BY <2>1, SeqCabe
<1> HIDE DEF A, dia, P
<1>8. <<0, A>> \in G
  BY <1>1, <1>5
<1>9. ASSUME NEW k \in 0 .. n, NEW p \in DuasFilas, k # n, <<k, p>> \in G
      PROVE  <<k + 1, dia(p, uteis[k + 1])>> \in G
  <2>1. p \in P
    BY <1>9
  <2>2. k + 1 \in 1 .. n /\ k + 1 \in 0 .. n
    <3>1. k \in 0 .. n /\ k # n /\ n \in Nat
      BY <1>1, <1>9
    <3> HIDE DEF G
    <3> QED BY <3>1
  <2>3. dia(p, uteis[k + 1]) \in P
    BY <1>6, <2>1, <2>2
  <2> QED BY <2>2, <2>3
<1>10. PICK p \in DuasFilas : <<n, p>> \in G /\ Empacotar(conteudo, uteis, ancoras) = ComSobra(p, uteis[n])
  <2> HIDE DEF G
  <2>1. \A k \in 0 .. n, p \in DuasFilas :
           k # n /\ <<k, p>> \in G => <<k + 1, dia(p, uteis[k + 1])>> \in G
    BY <1>9
  <2> QED BY <1>7, <1>8, <2>1, EmpacotarInducao DEF A, dia
<1>11. p \in P
  BY <1>10
<1>12. CabeNoDia(F, V, uteis[n])
  BY <1>1, <1>2, <1>4
<1>13. ComSobra(p, uteis[n]) \in Seq(V)
  BY <1>11, <1>12, ComSobraTipo DEF P
<1> QED BY <1>10, <1>13 DEF V

-----------------------------------------------------------------------------
(* Compaction.                                                             *)

\* Positions add up to a number.
LEMMA SomaEhNumero ==
    ASSUME NEW a \in Nat, NEW b \in Nat
    PROVE  a + b \in Nat
OBVIOUS

\* Putting back what was studied ahead changes positions only.
LEMMA ComAntecipadasTipo ==
    ASSUME NEW V \in SUBSET Linhas, Solto(V), NEW as \in Seq(V), NEW fixas \in Seq(V),
           NEW naFase
    PROVE  ComAntecipadas(as, fixas, naFase) \in Seq(V)
<1> DEFINE antes(k) == Cardinality({j \in 1 .. k - 1 : fixas[j].data = fixas[k].data})
           onde(k) == CargaNoDia(as, fixas[k].data) + antes(k)
           r == [k \in DOMAIN fixas |-> IF fixas[k].data \in naFase
                                        THEN [fixas[k] EXCEPT !.posicao = onde(k)] ELSE fixas[k]]
<1>1. ASSUME NEW k \in DOMAIN fixas PROVE onde(k) \in Nat
  <2> DEFINE E == {j \in 1 .. k - 1 : fixas[j].data = fixas[k].data}
  <2>1. k \in Nat /\ k \in 1 .. Len(fixas)
    BY LugarEhNumero
  <2>2. k - 1 \in Nat
    BY <2>1
  <2>3. IsFiniteSet(1 .. k - 1)
    BY <2>2, AteFinito
  <2>4. E \in SUBSET (1 .. k - 1)
    OBVIOUS
  <2> HIDE DEF E
  <2>5. Cardinality(E) \in Nat
    BY <2>3, <2>4, FS_Subset, FS_CardinalityType
  <2>6. antes(k) \in Nat
    BY <2>5 DEF E
  <2>7. CargaNoDia(as, fixas[k].data) \in Nat
    BY CargaEhNumero
  <2> HIDE DEF antes
  <2> QED BY <2>6, <2>7, SomaEhNumero
<1> HIDE DEF onde
<1>2. ASSUME NEW k \in DOMAIN fixas PROVE r[k] \in V
  <2>1. fixas[k] \in V
    BY LugarEhNumero
  <2>2. [fixas[k] EXCEPT !.posicao = onde(k)] \in V
    <3>1. onde(k) \in Nat
      BY <1>1
    <3> QED BY <2>1, <3>1 DEF Solto
  <2>3. r[k] = [fixas[k] EXCEPT !.posicao = onde(k)] \/ r[k] = fixas[k]
    OBVIOUS
  <2> HIDE DEF r
  <2> QED BY <2>1, <2>2, <2>3
<1>3. r \in [DOMAIN fixas -> V]
  BY <1>2
<1>4. ComAntecipadas(as, fixas, naFase) = as \o r
  BY DEF ComAntecipadas, onde
<1> HIDE DEF r
<1>5. r \in Seq(V)
  BY <1>3, LugarALugar
<1>6. as \o r \in Seq(V)
  BY <1>5, JuntaTodos
<1> QED BY <1>4, <1>6

\* Compacting loses no identity: every row it returns is a row of the schedule,
\* left on its day or moved between days from `desde' on.
LEMMA CompactarTipo ==
    ASSUME NEW S \in SUBSET Linhas, NEW as \in Seq(S), NEW desde \in Int,
           NEW dias, DOMAIN dias \subseteq 1 .. Prova, NEW concluidos
    PROVE  CompactarAtividades(as, dias, desde, concluidos) \in Seq(Vindas(S, desde))
<1> DEFINE V == Vindas(S, desde)
           uteis    == diasQueRecebem(dias, desde, faseDe(dias, desde))
           conteudo == SubFila(as, {i \in DOMAIN as : ~as[i].antecipada})
           fixas    == SubFila(as, {i \in DOMAIN as : as[i].antecipada})
           ancoras  == {dt \in ToSet(uteis) :
                          ancorado(dias, dt, CargaNoDia(conteudo, dt) > 0, concluidos)}
<1>1. CompactarAtividades(as, dias, desde, concluidos) =
        IF uteis = <<>> THEN as
        ELSE ComAntecipadas(Empacotar(conteudo, uteis, ancoras), ordenar(fixas), ToSet(uteis))
  BY DEF CompactarAtividades
<1>2. /\ V \in SUBSET Linhas /\ S \subseteq V /\ Solto(V)
  BY VindasFatos
<1>3. conteudo \in Seq(S)
  BY SubFilaDoLugar
<1>4. fixas \in Seq(S)
  BY SubFilaDoLugar
<1>5. uteis \in Seq({dt \in 1 .. Prova : dt >= desde})
  BY DiasQueRecebemTipo
<1> HIDE DEF uteis, conteudo, fixas, ancoras
<1>6. CASE uteis = <<>>
  <2>1. as \in Seq(V)
    BY <1>2, SeqCabe
  <2> QED BY <1>1, <1>6, <2>1
<1>7. CASE uteis # <<>>
  <2>1. Empacotar(conteudo, uteis, ancoras) \in Seq(V)
    BY <1>3, <1>5, <1>7, EmpacotarTipo
  <2>2. ordenar(fixas) \in Seq(S)
    BY <1>4, ordenarGuarda
  <2>3. ordenar(fixas) \in Seq(V)
    BY <1>2, <2>2, SeqCabe
  <2> HIDE DEF V
  <2>4. ComAntecipadas(Empacotar(conteudo, uteis, ancoras), ordenar(fixas), ToSet(uteis)) \in Seq(V)
    BY <1>2, <2>1, <2>3, ComAntecipadasTipo
  <2> QED BY <1>1, <1>7, <2>4 DEF V
<1> QED BY <1>6, <1>7

\* The last one of a finite set under a total order.
LEMMA Ultimo ==
    ASSUME NEW S, IsFiniteSet(S), S # {}, NEW R, OrdemTotal(R, S)
    PROVE  \E x \in S : \A y \in S : <<y, x>> \in R
<1>1. Enfileira(R, S)
  BY Turnos
<1>2. Cardinality(S) \in Nat /\ Cardinality(S) # 0
  BY FS_CardinalityType, FS_EmptySet
<1>3. Cardinality(S) \in 1 .. Cardinality(S)
  BY <1>2
<1>4. PICK x \in S : Turno(S, R, x) = Cardinality(S)
  BY <1>1, <1>3 DEF Enfileira
<1> DEFINE ate == {y \in S : <<y, x>> \in R}
<1>5. ate \in SUBSET S /\ Cardinality(ate) = Cardinality(S)
  BY <1>4 DEF Turno
<1>6. ate = S
  BY <1>5, FS_Subset
<1> QED BY <1>6

\* A finite set of numbers that has any has a largest.
LEMMA MaiorDeTodos ==
    ASSUME NEW S \in SUBSET Int, IsFiniteSet(S), S # {}
    PROVE  Max(S) \in S /\ \A y \in S : y <= Max(S)
<1>1. OrdemTotal(MenorIgual(S), S)
  BY DEF OrdemTotal, MenorIgual
<1>2. PICK x \in S : \A y \in S : <<y, x>> \in MenorIgual(S)
  BY <1>1, Ultimo
<1>3. \A y \in S : x >= y
  BY <1>2 DEF MenorIgual
<1>4. \E z \in S : \A y \in S : z >= y
  BY <1>3
<1>5. Max(S) \in S /\ \A y \in S : Max(S) >= y
  BY <1>4 DEF Max
<1> QED BY <1>5

MaiorIgual(S) == {p \in S \X S : p[1] >= p[2]}

\* A finite set of numbers that has any has a smallest.
LEMMA MenorDeTodos ==
    ASSUME NEW S \in SUBSET Int, IsFiniteSet(S), S # {}
    PROVE  Min(S) \in S /\ \A y \in S : Min(S) <= y
<1>1. OrdemTotal(MaiorIgual(S), S)
  BY DEF OrdemTotal, MaiorIgual
<1>2. PICK x \in S : \A y \in S : <<y, x>> \in MaiorIgual(S)
  BY <1>1, Ultimo
<1>3. \A y \in S : x <= y
  BY <1>2 DEF MaiorIgual
<1>4. \E z \in S : \A y \in S : z <= y
  BY <1>3
<1>5. Min(S) \in S /\ \A y \in S : Min(S) <= y
  BY <1>4 DEF Min
<1> QED BY <1>5

-----------------------------------------------------------------------------
(* The reinforcement queue.                                                *)

\* The typical load of a day is at least one block.
LEMMA cargaTipicaTipo ==
    ASSUME NEW T, NEW as \in Seq(T), NEW uteis, IsFiniteSet(uteis)
    PROVE  cargaTipica(as, uteis) \in Nat /\ cargaTipica(as, uteis) >= 1
<1> DEFINE cargas == {CargaNoDia(as, dt) : dt \in uteis} \ {0}
           vezes(n) == Cardinality({dt \in uteis : CargaNoDia(as, dt) = n})
           v == [n \in cargas |-> vezes(n)]
           m == [n \in cargas |-> n]
           R == PorLugar(v, m, cargas)
           melhor == CHOOSE n \in cargas : \A k \in cargas :
                         vezes(k) < vezes(n) \/ (vezes(k) = vezes(n) /\ k <= n)
<1>1. cargaTipica(as, uteis) = IF cargas = {} THEN 1 ELSE melhor
  BY DEF cargaTipica
<1>2. CASE cargas = {}
  BY <1>1, <1>2
<1>3. CASE cargas # {}
  <2>1. ASSUME NEW n \in cargas PROVE n \in Nat /\ n # 0
    BY CargaEhNumero
  <2>2. IsFiniteSet(cargas)
    <3> DEFINE todas == {CargaNoDia(as, dt) : dt \in uteis}
               f == [dt \in uteis |-> CargaNoDia(as, dt)]
    <3>1. IsFiniteSet(todas)
      <4>1. f \in Surjection(uteis, todas)
        BY DEF Surjection
      <4> HIDE DEF f, todas
      <4> QED BY <4>1, FS_Surjection
    <3> HIDE DEF todas
    <3>2. IsFiniteSet(todas \ {0})
      BY <3>1, FS_Difference
    <3> QED BY <3>2 DEF todas
  <2>3. ASSUME NEW n PROVE vezes(n) \in Nat
    <3> DEFINE E == {dt \in uteis : CargaNoDia(as, dt) = n}
    <3>1. E \in SUBSET uteis
      OBVIOUS
    <3> HIDE DEF E
    <3>2. Cardinality(E) \in Nat
      BY <3>1, FS_Subset, FS_CardinalityType
    <3> QED BY <3>2 DEF E
  <2> HIDE DEF vezes, cargas
  <2>4. cargas \in SUBSET Int /\ v \in [cargas -> Int] /\ m \in [cargas -> Int]
    BY <2>1, <2>3
  <2>5. \A n \in cargas : v[n] = vezes(n) /\ m[n] = n
    OBVIOUS
  <2> HIDE DEF v, m
  <2>6. OrdemTotal(R, cargas)
    BY <2>4, PorLugarTotal
  <2>7. PICK n \in cargas : \A k \in cargas : <<k, n>> \in R
    <3> HIDE DEF R
    <3> QED BY <1>3, <2>2, <2>6, Ultimo
  <2>8. ASSUME NEW k \in cargas
        PROVE  vezes(k) < vezes(n) \/ (vezes(k) = vezes(n) /\ k <= n)
    <3>1. LugarAntes(v, m, k, n) \/ (~LugarAntes(v, m, n, k) /\ k <= n)
      BY <2>7 DEF PorLugar
    <3>2. v[k] = vezes(k) /\ m[k] = k /\ v[n] = vezes(n) /\ m[n] = n
      BY <2>5
    <3>3. k \in Nat /\ n \in Nat /\ vezes(k) \in Nat /\ vezes(n) \in Nat
      BY <2>1, <2>3
    <3> QED BY <3>1, <3>2, <3>3 DEF LugarAntes
  <2>9. melhor \in cargas
    BY <2>8
  <2>10. cargaTipica(as, uteis) = melhor
    BY <1>1, <1>3
  <2> HIDE DEF melhor
  <2>11. melhor \in Nat /\ melhor # 0
    BY <2>1, <2>9
  <2> QED BY <2>10, <2>11
<1> QED BY <1>2, <1>3

\* What a reinforcement block repeats: the subject and the topics of a block.
Repetivel == STRING \X (SUBSET Topico)

\* Taking each element once leaves elements of the list.
LEMMA UnicosTipo ==
    ASSUME NEW T, NEW s \in Seq(T)
    PROVE  Unicos(s) \in Seq(T)
BY SubFilaDoLugar DEF Unicos

\* The reinforcement queue holds subjects and topics of the syllabus.
LEMMA FilaDeReforcoTipo ==
    ASSUME NEW itens \in Seq(Blocos), NEW dias
    PROVE  FilaDeReforco(itens, dias, Caderno) \in Seq(Repetivel)
<1> DEFINE E == {i \in DOMAIN itens : /\ dias[itens[i].data].fase = "base"
                                      /\ itens[i].disciplina # SemDisciplina}
           base == SubFila(itens, E)
           blocos == [i \in DOMAIN base |-> <<base[i].disciplina, base[i].tema.partes>>]
           C == {i \in DOMAIN Caderno : Caderno[i] \in ToSet(blocos)}
           frente == SubFila(Caderno, C)
<1>1. base \in Seq(Blocos)
  BY SubFilaDoLugar
<1>2. FilaDeReforco(itens, dias, Caderno) = Unicos(frente \o blocos)
  BY DEF FilaDeReforco
<1> HIDE DEF base
<1>3. ASSUME NEW i \in DOMAIN base PROVE <<base[i].disciplina, base[i].tema.partes>> \in Repetivel
  <2>1. base[i] \in Blocos
    BY <1>1, LugarEhNumero
  <2> QED BY <2>1 DEF Blocos, Temas, Repetivel
<1>4. blocos \in [DOMAIN base -> Repetivel]
  BY <1>3
<1> HIDE DEF blocos
<1>5. blocos \in Seq(Repetivel)
  BY <1>1, <1>4, LugarALugar
<1>6. Caderno \in Seq(Repetivel) /\ C \in SUBSET DOMAIN Caderno
  BY CadernoDeBlocos DEF Repetivel
<1> HIDE DEF C
<1>7. frente \in Seq(Repetivel)
  BY <1>6, SubFilaDoLugar
<1> HIDE DEF frente
<1>8. frente \o blocos \in Seq(Repetivel)
  BY <1>5, <1>7, JuntaTodos
<1> QED BY <1>2, <1>8, UnicosTipo

\* Reinforcement rows: of no subject, not studied ahead.
DeReforco == {b \in Linhas : b.disciplina = SemDisciplina /\ ~b.antecipada}

\* With ids after the last one given.
Reforcos(ultimo) == {b \in DeReforco : b.id > ultimo}

\* Integer division, as the provers need it.
LEMMA ParteInteira ==
    ASSUME NEW a \in Nat, NEW c \in Nat, c >= 1
    PROVE  a \div c \in Int /\ a \div c >= 0 /\ a % c \in Nat /\ a % c < c
<1>1. a \div c \in Int
  OBVIOUS
<1>2. a % c \in 0 .. c - 1
  OBVIOUS
<1>3. a = c * (a \div c) + (a % c)
  BY Z3
<1>4. a \div c >= 0
  <2> SUFFICES ASSUME a \div c <= -1 PROVE FALSE
    BY <1>1
  <2>1. c * (a \div c) <= -c
    BY <1>1
  <2> QED BY <1>1, <1>2, <1>3, <2>1
<1> QED BY <1>1, <1>2, <1>4

\* The day a reinforcement block falls on is one of the empty days.
LEMMA DiaDoReforco ==
    ASSUME NEW a \in Nat, NEW c \in Nat, c >= 1, NEW l \in Nat, a < l * c
    PROVE  (a \div c) + 1 \in 1 .. l
<1>1. a \div c < l
  OBVIOUS
<1> QED BY <1>1, ParteInteira

-----------------------------------------------------------------------------
(* Reinforcement, and closing the gaps.                                    *)

\* The smaller of two positive numbers is one.
LEMMA MenorDosDois ==
    ASSUME NEW a \in Nat, NEW b \in Nat, a >= 1, b >= 1
    PROVE  Min({a, b}) \in Nat /\ Min({a, b}) >= 1
<1>1. \E x \in {a, b} : \A y \in {a, b} : x <= y
  OBVIOUS
<1> QED BY <1>1 DEF Min

\* A reinforcement block is a row without a subject, not marked as ahead of time.
LEMMA BlocoDeReforcoTipo ==
    ASSUME NEW id \in Nat, NEW dt \in 1 .. Prova, NEW posicao \in Nat, NEW bloco \in Repetivel
    PROVE  /\ BlocoDeReforco(id, dt, posicao, bloco) \in DeReforco
           /\ BlocoDeReforco(id, dt, posicao, bloco).id = id
<1>1. bloco[2] \in SUBSET Topico
  BY DEF Repetivel
<1>2. [rotulo |-> Reforco, partes |-> bloco[2]] \in Temas
  BY <1>1 DEF Temas
<1>3. SemDisciplina \in STRING \cup {SemDisciplina}
  OBVIOUS
<1> DEFINE t == [rotulo |-> Reforco, partes |-> bloco[2]]
           b == [id |-> id, data |-> dt, posicao |-> posicao, disciplina |-> SemDisciplina,
                 tema |-> t, passada |-> 2, movida |-> FALSE, antecipada |-> FALSE]
<1>4. b = BlocoDeReforco(id, dt, posicao, bloco)
  BY DEF BlocoDeReforco
<1> HIDE DEF t
<1>5. t \in Temas
  BY <1>2 DEF t
<1>6. b \in Linhas
  <2> HIDE DEF t
  <2>1. 2 \in {1, 2}
    OBVIOUS
  <2> QED BY <1>3, <1>5, <2>1, ZenonT(20) DEF Linhas
<1>7. b.disciplina = SemDisciplina /\ ~b.antecipada /\ b.id = id
  OBVIOUS
<1> HIDE DEF b
<1>8. b \in DeReforco
  BY <1>6, <1>7 DEF DeReforco
<1> QED BY <1>4, <1>7, <1>8

\* Reinforcement adds such rows and touches no other.
LEMMA ReforcarTipo ==
    ASSUME NEW V, NEW as \in Seq(V), NEW fila \in Seq(Repetivel), fila # <<>>,
           NEW vazios \in Seq(1 .. Prova), NEW carga \in Nat, carga >= 1,
           NEW ultimo \in Nat
    PROVE  Reforcar(as, fila, vazios, carga, ultimo) \in Seq(V \cup Reforcos(ultimo))
<1> DEFINE cursor == reforcosJaUsados(as)
           bloco(n) == BlocoDeReforco(ultimo + n, vazios[((n - 1) \div carga) + 1], (n - 1) % carga,
                                      fila[((cursor + n - 1) % Len(fila)) + 1])
           total == Len(vazios) * carga
           r == [n \in 1 .. total |-> bloco(n)]
<1>1. Reforcar(as, fila, vazios, carga, ultimo) = as \o r
  BY DEF Reforcar
<1>2. Len(vazios) \in Nat /\ DOMAIN vazios = 1 .. Len(vazios)
  BY SeqEhFuncao
<1>3. total \in Nat
  BY <1>2
<1>4. Len(fila) \in Nat /\ DOMAIN fila = 1 .. Len(fila) /\ Len(fila) >= 1
  <2>1. Len(fila) \in Nat /\ DOMAIN fila = 1 .. Len(fila)
    BY SeqEhFuncao
  <2>2. Len(fila) # 0
    BY EmptySeq
  <2> QED BY <2>1, <2>2
<1>5. cursor \in Nat
  <2> DEFINE E == {i \in DOMAIN as : as[i].tema.rotulo = Reforco}
  <2>1. E \in SUBSET DOMAIN as
    OBVIOUS
  <2> HIDE DEF E
  <2>2. Cardinality(E) \in Nat
    BY <2>1, PartesFinitas
  <2> QED BY <2>2 DEF E, reforcosJaUsados
<1> HIDE DEF cursor
<1>6. ASSUME NEW n \in 1 .. total PROVE bloco(n) \in Reforcos(ultimo)
  <2>1. n - 1 \in Nat /\ n - 1 < Len(vazios) * carga /\ n \in Nat
    BY <1>3
  <2>2. ((n - 1) \div carga) + 1 \in 1 .. Len(vazios)
    BY <1>2, <2>1, DiaDoReforco
  <2>3. vazios[((n - 1) \div carga) + 1] \in 1 .. Prova
    BY <1>2, <2>2, LugarEhNumero
  <2>4. (n - 1) % carga \in Nat
    BY <2>1, ParteInteira
  <2>5. cursor + n - 1 \in Nat
    BY <1>5, <2>1
  <2>6. (cursor + n - 1) % Len(fila) \in Nat /\ (cursor + n - 1) % Len(fila) < Len(fila)
    BY <1>4, <2>5, ParteInteira
  <2>7. ((cursor + n - 1) % Len(fila)) + 1 \in 1 .. Len(fila)
    BY <1>4, <2>6
  <2>8. fila[((cursor + n - 1) % Len(fila)) + 1] \in Repetivel
    BY <1>4, <2>7, LugarEhNumero
  <2>9. ultimo + n \in Nat /\ ultimo + n > ultimo
    BY <2>1
  <2> HIDE DEF total
  <2>10. bloco(n) \in DeReforco /\ bloco(n).id = ultimo + n
    BY <2>3, <2>4, <2>8, <2>9, BlocoDeReforcoTipo
  <2> QED BY <2>9, <2>10 DEF Reforcos
<1>7. r \in [1 .. total -> V \cup Reforcos(ultimo)]
  BY <1>6
<1> HIDE DEF r, total
<1>8. r \in Seq(V \cup Reforcos(ultimo))
  BY <1>3, <1>7, FuncaoEhSeq
<1>9. as \in Seq(V \cup Reforcos(ultimo))
  BY SeqCabe
<1>10. as \o r \in Seq(V \cup Reforcos(ultimo))
  BY <1>8, <1>9, JuntaTodos
<1> QED BY <1>1, <1>10

\* So does filling the days left empty.
LEMMA PreencherTipo ==
    ASSUME NEW V, NEW as \in Seq(V), NEW fila \in Seq(Repetivel), NEW desde \in Int,
           NEW dias, DOMAIN dias \subseteq 1 .. Prova, NEW concluidos,
           NEW ultimo \in Nat
    PROVE  PreencherVazios(as, dias, fila, desde, concluidos, ultimo) \in Seq(V \cup Reforcos(ultimo))
<1> DEFINE uteis == {dt \in ToSet(diasQueRecebem(dias, desde, "base")) : dias[dt].tipo = "est"}
           E == {dt \in uteis : CargaNoDia(as, dt) = 0 /\ dt \notin concluidos}
           carga == Min({cargaTipica(as, uteis), Len(fila)})
<1>1. PreencherVazios(as, dias, fila, desde, concluidos, ultimo)
         = IF fila = <<>> \/ uteis = {} THEN as
           ELSE Reforcar(as, fila, EmSequencia(E), carga, ultimo)
  BY DEF PreencherVazios
<1>2. IsFiniteSet(uteis) /\ uteis \in SUBSET (1 .. Prova)
  <2>1. ToSet(diasQueRecebem(dias, desde, "base")) \subseteq DOMAIN dias
    BY DiasQueRecebemTipo
  <2>2. uteis \in SUBSET (1 .. Prova)
    BY <2>1
  <2>3. IsFiniteSet(1 .. Prova)
    BY Calendario, AteFinito
  <2> HIDE DEF uteis
  <2>4. IsFiniteSet(uteis)
    BY <2>2, <2>3, FS_Subset
  <2> QED BY <2>2, <2>4
<1> HIDE DEF uteis
<1>3. EmSequencia(E) \in Seq(1 .. Prova)
  <2>1. E \in SUBSET uteis
    OBVIOUS
  <2> HIDE DEF E
  <2>2. IsFiniteSet(E) /\ E \in SUBSET Int /\ E \subseteq 1 .. Prova
    <3>1. IsFiniteSet(E)
      BY <1>2, <2>1, FS_Subset
    <3>2. E \subseteq 1 .. Prova
      BY <1>2, <2>1
    <3> QED BY <3>1, <3>2, Calendario
  <2>3. EmSequencia(E) \in Seq(E)
    BY <2>2, EmSequenciaTodos
  <2> QED BY <2>2, <2>3, SeqCabe
<1>4. ASSUME fila # <<>> PROVE carga \in Nat /\ carga >= 1
  <2>1. Len(fila) \in Nat /\ Len(fila) # 0
    BY <1>4, SeqEhFuncao, EmptySeq
  <2>2. cargaTipica(as, uteis) \in Nat /\ cargaTipica(as, uteis) >= 1
    BY <1>2, cargaTipicaTipo
  <2>3. Len(fila) >= 1
    BY <2>1
  <2> QED BY <2>1, <2>2, <2>3, MenorDosDois
<1> HIDE DEF E, carga
<1>5. CASE fila = <<>> \/ uteis = {}
  <2>1. as \in Seq(V \cup Reforcos(ultimo))
    BY SeqCabe
  <2> QED BY <1>1, <1>5, <2>1
<1>6. CASE ~(fila = <<>> \/ uteis = {})
  <2>1. Reforcar(as, fila, EmSequencia(E), carga, ultimo) \in Seq(V \cup Reforcos(ultimo))
    BY <1>3, <1>4, <1>6, ReforcarTipo
  <2> QED BY <1>1, <1>6, <2>1
<1> QED BY <1>5, <1>6

\* What the planner answers: blocks on days up to the exam.
PlanoBom(p) == p.itens \in Seq(Blocos) /\ DOMAIN p.dias \subseteq 1 .. Prova

\* Every plan the services ask for has its blocks and its days up to the exam.
LEMMA PlanosBons ==
    ASSUME NEW cfg \in Configs
    PROVE  /\ PlanoBom(PlanoDe(cfg))
           /\ \A dt \in 1 .. Prova - 1 : PlanoBom(PlanoDe([cfg EXCEPT !.inicio = dt]))
<1> DEFINE C == {cfg} \cup {[cfg EXCEPT !.inicio = dt] : dt \in 1 .. Prova - 1}
<1>1. \A c \in C : Gerar[c].itens \in Seq(Blocos) /\ DOMAIN Gerar[c].dias \subseteq 1 .. Prova
  BY PlanoBemFormado
<1>2. cfg \in C /\ \A dt \in 1 .. Prova - 1 : [cfg EXCEPT !.inicio = dt] \in C
  OBVIOUS
<1> HIDE DEF C
<1> QED BY <1>1, <1>2 DEF PlanoBom, PlanoDe

\* The values of a function on a finite set are finitely many.
LEMMA ImagemFinita ==
    ASSUME NEW S, IsFiniteSet(S), NEW T, NEW f \in [S -> T]
    PROVE  IsFiniteSet({f[i] : i \in S})
<1> DEFINE Y == {f[i] : i \in S}
<1>1. f \in Surjection(S, Y)
  BY DEF Surjection
<1> HIDE DEF Y
<1>2. IsFiniteSet(Y)
  BY <1>1, FS_Surjection
<1> QED BY <1>2 DEF Y

\* The ids of a schedule are a finite set of numbers.
LEMMA IdsDeTipo ==
    ASSUME NEW S \in SUBSET Linhas, NEW as \in Seq(S)
    PROVE  IsFiniteSet(IdsDe(as)) /\ IdsDe(as) \in SUBSET Nat
<1>1. IsFiniteSet(DOMAIN as)
  BY PartesFinitas
<1>2. ASSUME NEW i \in DOMAIN as PROVE as[i].id \in Nat
  <2>1. as[i] \in Linhas
    BY LugarEhNumero
  <2> QED BY <2>1, LinhaTipo
<1>3. IdsDe(as) \in SUBSET Nat
  BY <1>2 DEF IdsDe
<1>4. IsFiniteSet({as[i].id : i \in DOMAIN as})
  <2> DEFINE f == [i \in DOMAIN as |-> as[i].id]
  <2>1. f \in [DOMAIN as -> Nat]
    BY <1>2
  <2>2. {as[i].id : i \in DOMAIN as} = {f[i] : i \in DOMAIN as}
    OBVIOUS
  <2> HIDE DEF f
  <2>3. IsFiniteSet({f[i] : i \in DOMAIN as})
    BY <1>1, <2>1, ImagemFinita
  <2> QED BY <2>2, <2>3
<1> QED BY <1>3, <1>4 DEF IdsDe

\* Two sets of numbers and zero are numbers.
LEMMA NumerosJuntos ==
    ASSUME NEW A \in SUBSET Nat, NEW B \in SUBSET Nat
    PROVE  {0} \cup A \cup B \subseteq Nat
OBVIOUS

\* The last id given is a number, and no row of the list or of the stored
\* schedule has a larger one.
LEMMA UltimoIdTipo ==
    ASSUME NEW S \in SUBSET Linhas, NEW as \in Seq(S), cronograma \in Seq(Linhas)
    PROVE  /\ UltimoId(as) \in Nat
           /\ \A x \in IdsDe(as) \cup IdsDe(cronograma) : x <= UltimoId(as)
<1> DEFINE E == {0} \cup IdsDe(as) \cup IdsDe(cronograma)
<1>1. IsFiniteSet(IdsDe(as)) /\ IdsDe(as) \in SUBSET Nat
  BY IdsDeTipo
<1>2. IsFiniteSet(IdsDe(cronograma)) /\ IdsDe(cronograma) \in SUBSET Nat
  BY IdsDeTipo
<1>3. IsFiniteSet({0})
  BY FS_Singleton
<1>4. IsFiniteSet(E)
  BY <1>1, <1>2, <1>3, FS_Union
<1>5. E \in SUBSET Int /\ E # {} /\ E \subseteq Nat
  <2>1. E \subseteq Nat
    BY <1>1, <1>2, NumerosJuntos
  <2>2. E # {}
    OBVIOUS
  <2> HIDE DEF E
  <2> QED BY <2>1, <2>2
<1> HIDE DEF E
<1>6. Max(E) \in E /\ \A y \in E : y <= Max(E)
  BY <1>4, <1>5, MaiorDeTodos
<1> QED BY <1>5, <1>6 DEF UltimoId, E

\* Reinforcement whose ids are not in `I'.
ReforcoNovo(I) == {b \in DeReforco : b.id \notin I}

\* The rows closing the gaps from `desde' on leaves: the packed ones, and
\* reinforcement with ids of its own.
LEMMA compactarDesdeNovos ==
    ASSUME NEW S \in SUBSET Linhas, NEW as \in Seq(S), NEW desde \in Int,
           NEW base, NEW cfg, PlanoBom(PlanoDe(cfg)), NEW regs, cronograma \in Seq(Linhas)
    PROVE  LET c == CompactarAtividades(as, PlanoDe(cfg).dias, desde, DiasConcluidos(base, regs))
           IN  compactarDesde(as, desde, base, cfg, regs)
                  \in Seq(Vindas(S, desde) \cup ReforcoNovo(IdsDe(c) \cup IdsDe(cronograma)))
<1> DEFINE plano == PlanoDe(cfg)
           conc == DiasConcluidos(base, regs)
           c == CompactarAtividades(as, plano.dias, desde, conc)
           fila == FilaDeReforco(plano.itens, plano.dias, Caderno)
           V == Vindas(S, desde)
<1>1. compactarDesde(as, desde, base, cfg, regs)
         = PreencherVazios(c, plano.dias, fila, desde, conc, UltimoId(c))
  BY DEF compactarDesde, Reforcado
<1>2. plano.itens \in Seq(Blocos) /\ DOMAIN plano.dias \subseteq 1 .. Prova
  BY DEF PlanoBom
<1> HIDE DEF plano, conc
<1>3. c \in Seq(V)
  BY <1>2, CompactarTipo
<1>4. fila \in Seq(Repetivel)
  BY <1>2, FilaDeReforcoTipo
<1>5. V \in SUBSET Linhas
  BY VindasFatos
<1> HIDE DEF c, fila, V
<1> DEFINE u == UltimoId(c)
           I == IdsDe(cronograma)
           J == IdsDe(c)
           N == ReforcoNovo(J \cup I)
<1>6. u \in Nat /\ \A x \in J \cup I : x <= u
  BY <1>3, <1>5, UltimoIdTipo
<1> HIDE DEF u, I, J
<1>7. PreencherVazios(c, plano.dias, fila, desde, conc, u) \in Seq(V \cup Reforcos(u))
  BY <1>2, <1>3, <1>4, <1>6, PreencherTipo
<1>8. Reforcos(u) \subseteq N
  <2> SUFFICES ASSUME NEW b \in Reforcos(u) PROVE b \in N
    OBVIOUS
  <2>1. b \in DeReforco /\ b.id > u
    BY DEF Reforcos
  <2>2. b.id \in Nat
    BY <2>1, LinhaTipo DEF DeReforco
  <2>3. b.id \notin J \cup I
    <3> DEFINE x == b.id
    <3> HIDE DEF x
    <3>1. x > u /\ x \in Nat
      BY <2>1, <2>2 DEF x
    <3>2. x \notin J \cup I
      BY <1>6, <3>1
    <3> QED BY <3>2 DEF x
  <2> QED BY <2>1, <2>3 DEF ReforcoNovo
<1> HIDE DEF N
<1>9. V \cup Reforcos(u) \subseteq V \cup N
  BY <1>8
<1>10. PreencherVazios(c, plano.dias, fila, desde, conc, u) \in Seq(V \cup N)
  BY <1>7, <1>9, SeqCabe
<1> QED BY <1>1, <1>10 DEF V, u, N, I, J, c, plano, conc

\* New or not.
LEMMA compactarDesdeTipo ==
    ASSUME NEW S \in SUBSET Linhas, NEW as \in Seq(S), NEW desde \in Int,
           NEW base, NEW cfg, PlanoBom(PlanoDe(cfg)), NEW regs, cronograma \in Seq(Linhas)
    PROVE  compactarDesde(as, desde, base, cfg, regs) \in Seq(Vindas(S, desde) \cup DeReforco)
<1> DEFINE r == compactarDesde(as, desde, base, cfg, regs)
           c == CompactarAtividades(as, PlanoDe(cfg).dias, desde, DiasConcluidos(base, regs))
           N == ReforcoNovo(IdsDe(c) \cup IdsDe(cronograma))
           V == Vindas(S, desde)
<1>1. r \in Seq(V \cup N)
  BY compactarDesdeNovos
<1> HIDE DEF r, V
<1>2. V \cup N \subseteq V \cup DeReforco
  BY DEF ReforcoNovo
<1> HIDE DEF N
<1>3. r \in Seq(V \cup DeReforco)
  BY <1>1, <1>2, SeqCabe
<1> QED BY <1>3 DEF r, V

-----------------------------------------------------------------------------
(* In order with what is studied.                                          *)

\* The latest day a concluded block may lie on.
Ate(h, destino) == IF h >= destino THEN h ELSE destino

\* The rows of a schedule in order with what is studied, `feito' being the
\* topics studied: a pending block teaches none of them, a concluded one only
\* them, what is concluded is not waiting on a day to come, and what is marked
\* as ahead of time is concluded, or one of `ja', marked before.
EmOrdemComOEstudo(a, feito, ja, regs, h, destino) ==
    /\ coberta(a) /\ a.data >= h /\ ~Lancada(regs, a.id) => Topicos(a) \cap feito = {}
    /\ coberta(a) /\ Concluida(regs, a.id) => Topicos(a) \subseteq feito
    /\ Concluida(regs, a.id) /\ a.disciplina # SemDisciplina /\ destino # 0
          => a.data <= Ate(h, destino)
    /\ a.antecipada => Concluida(regs, a.id) \/ a.id \in ja

Boas(feito, ja, regs, h, destino) ==
    {a \in Linhas : EmOrdemComOEstudo(a, feito, ja, regs, h, destino)}

\* A row in order stays so in any position.
LEMMA BoasSoltas ==
    ASSUME NEW feito, NEW ja, NEW regs, NEW h \in Int, NEW destino \in Int
    PROVE  Solto(Boas(feito, ja, regs, h, destino))
<1> SUFFICES ASSUME NEW a \in Boas(feito, ja, regs, h, destino), NEW n \in Nat
             PROVE  [a EXCEPT !.posicao = n] \in Boas(feito, ja, regs, h, destino)
  BY DEF Solto
<1> DEFINE b == [a EXCEPT !.posicao = n]
<1>1. a \in Linhas /\ EmOrdemComOEstudo(a, feito, ja, regs, h, destino)
  BY DEF Boas
<1>2. /\ b \in Linhas /\ b.data = a.data /\ b.id = a.id /\ b.disciplina = a.disciplina
      /\ b.tema = a.tema /\ b.passada = a.passada /\ (b.antecipada => a.antecipada)
  BY <1>1, LinhaMuda DEF Mesmo
<1> HIDE DEF b
<1>3. EmOrdemComOEstudo(b, feito, ja, regs, h, destino)
  BY <1>1, <1>2 DEF EmOrdemComOEstudo, coberta, Topicos
<1>4. b \in Boas(feito, ja, regs, h, destino)
  BY <1>2, <1>3 DEF Boas
<1> QED BY <1>4 DEF b

\* Packing from the day after keeps the schedule in order.
LEMMA VindasBoas ==
    ASSUME NEW feito, NEW ja, NEW regs, NEW h \in Int, NEW destino \in Int
    PROVE  Vindas(Boas(feito, ja, regs, h, destino), Ate(h, destino) + 1) \cup DeReforco
              \subseteq Boas(feito, ja, regs, h, destino)
<1>1. ASSUME NEW b \in Vindas(Boas(feito, ja, regs, h, destino), Ate(h, destino) + 1)
      PROVE  b \in Boas(feito, ja, regs, h, destino)
  <2>1. PICK a \in Boas(feito, ja, regs, h, destino) :
              /\ Mesmo(a, b)
              /\ b.data = a.data \/ (a.data >= Ate(h, destino) + 1 /\ b.data >= Ate(h, destino) + 1)
    BY <1>1 DEF Vindas
  <2>2. b \in Linhas /\ a \in Linhas
    BY <1>1 DEF Vindas, Boas
  <2>3. a.data \in Int /\ b.data \in Int
    BY <2>2, LinhaTipo
  <2>4. EmOrdemComOEstudo(a, feito, ja, regs, h, destino)
    BY DEF Boas
  <2>5. /\ b.id = a.id /\ b.disciplina = a.disciplina /\ b.tema = a.tema /\ b.passada = a.passada
        /\ b.antecipada => a.antecipada
    BY <2>1 DEF Mesmo
  <2>6. (coberta(b) <=> coberta(a)) /\ Topicos(b) = Topicos(a)
    BY <2>5 DEF coberta, Topicos
  <2>7. Ate(h, destino) \in Int /\ h <= Ate(h, destino)
    BY DEF Ate
  <2>8. b.data >= h => a.data >= h
    BY <2>1, <2>3, <2>7
  <2>9. a.data <= Ate(h, destino) => b.data <= Ate(h, destino)
    BY <2>1, <2>3, <2>7
  <2>10. EmOrdemComOEstudo(b, feito, ja, regs, h, destino)
    BY <2>4, <2>5, <2>6, <2>8, <2>9 DEF EmOrdemComOEstudo
  <2> QED BY <2>2, <2>10 DEF Boas
<1>2. ASSUME NEW b \in DeReforco PROVE b \in Boas(feito, ja, regs, h, destino)
  <2>1. b \in Linhas /\ b.disciplina = SemDisciplina /\ ~b.antecipada
    BY DEF DeReforco
  <2>2. EmOrdemComOEstudo(b, feito, ja, regs, h, destino)
    BY <2>1 DEF EmOrdemComOEstudo, coberta
  <2> QED BY <2>1, <2>2 DEF Boas
<1> QED BY <1>1, <1>2

\* The day study ahead is written on is one that receives, if any does.
LEMMA DiaDoEstudoTipo ==
    ASSUME NEW dias, DOMAIN dias \subseteq 1 .. Prova, NEW h \in Int
    PROVE  /\ DiaDoEstudoFeito(dias, h) \in Int
           /\ DiaDoEstudoFeito(dias, h) # 0 => DiaDoEstudoFeito(dias, h) \in 1 .. Prova
<1> DEFINE validos == {dt \in DOMAIN dias : DestinoValido(dias, dt)}
           ateHoje == {dt \in validos : dt <= h}
<1>1. validos \in SUBSET (1 .. Prova) /\ ateHoje \in SUBSET (1 .. Prova)
  OBVIOUS
<1>2. IsFiniteSet(1 .. Prova) /\ \A x \in 1 .. Prova : x \in Int
  BY Calendario, AteFinito
<1>3. DiaDoEstudoFeito(dias, h) = IF ateHoje # {} THEN Max(ateHoje)
                                  ELSE IF validos # {} THEN Min(validos) ELSE 0
  BY DEF DiaDoEstudoFeito
<1> HIDE DEF validos, ateHoje
<1>4. IsFiniteSet(validos) /\ IsFiniteSet(ateHoje)
  BY <1>1, <1>2, FS_Subset
<1>5. validos \in SUBSET Int /\ ateHoje \in SUBSET Int
  BY <1>1, <1>2
<1>6. ateHoje # {} => Max(ateHoje) \in 1 .. Prova
  BY <1>1, <1>4, <1>5, MaiorDeTodos
<1>7. validos # {} => Min(validos) \in 1 .. Prova
  BY <1>1, <1>4, <1>5, MenorDeTodos
<1> QED BY <1>2, <1>3, <1>6, <1>7

\* The later of two days, as the code and as the invariant write it.
LEMMA MaiorDosDois ==
    ASSUME NEW h \in Int, NEW destino \in Int
    PROVE  Max({destino, h}) = Ate(h, destino) /\ Max({h, destino}) = Ate(h, destino)
<1>1. \A x, y \in {destino, h} : (\A z \in {destino, h} : x >= z) /\ (\A z \in {destino, h} : y >= z) => x = y
  OBVIOUS
<1>2. Ate(h, destino) \in {destino, h} /\ \A z \in {destino, h} : Ate(h, destino) >= z
  BY DEF Ate
<1>3. Max({destino, h}) = Ate(h, destino)
  BY <1>1, <1>2 DEF Max
<1>4. {h, destino} = {destino, h}
  OBVIOUS
<1> QED BY <1>3, <1>4

-----------------------------------------------------------------------------
(* `emDiaComOEstudado' puts a schedule in order.                           *)

\* The rows of a list marked as studied ahead of time.
Marcados(as) == {as[i].id : i \in {k \in DOMAIN as : as[k].antecipada}}

\* A row marked as ahead of time is among the marked ones.
LEMMA MarcadosDaLista ==
    ASSUME NEW as
    PROVE  \A a \in ToSet(as) : a.antecipada => a.id \in Marcados(as)
BY DEF Marcados, ToSet

\* The topics studied are those of concluded blocks that teach them.
LEMMA FeitosDaLista ==
    ASSUME NEW as, NEW regs
    PROVE  \A a \in ToSet(as) : coberta(a) /\ Concluida(regs, a.id)
              => Topicos(a) \subseteq TopicosFeitos(as, regs)
BY DEF TopicosFeitos, ToSet

\* A block without the topics already studied.
LEMMA SemTopicosTipo ==
    ASSUME NEW a \in Linhas, NEW feito
    PROVE  /\ SemTopicos(a, feito) \in Linhas
           /\ SemTopicos(a, feito).id = a.id
           /\ SemTopicos(a, feito).data = a.data
           /\ SemTopicos(a, feito).disciplina = a.disciplina
           /\ SemTopicos(a, feito).passada = a.passada
           /\ SemTopicos(a, feito).antecipada = a.antecipada
           /\ Topicos(SemTopicos(a, feito)) \cap feito = {}
<1> DEFINE t == [a.tema EXCEPT !.partes = {p \in a.tema.partes : <<a.disciplina, p>> \notin feito}]
           b == [a EXCEPT !.tema = t]
<1>1. SemTopicos(a, feito) = b
  BY DEF SemTopicos, Linhas, Temas
<1>2. a.tema \in Temas
  BY DEF Linhas
<1>3. t \in Temas /\ t.partes = {p \in a.tema.partes : <<a.disciplina, p>> \notin feito}
  BY <1>2 DEF Temas
<1> HIDE DEF t
<1>4. b \in Linhas
  BY <1>3 DEF Linhas
<1>5. /\ b.id = a.id /\ b.data = a.data /\ b.disciplina = a.disciplina
      /\ b.passada = a.passada /\ b.antecipada = a.antecipada /\ b.tema = t
  BY DEF Linhas
<1> HIDE DEF b
<1>6. Topicos(b) \cap feito = {}
  BY <1>3, <1>5 DEF Topicos
<1> QED BY <1>1, <1>4, <1>5, <1>6

\* Bringing to today what was studied ahead and taking out what was studied
\* leaves the schedule in order, wherever the rows came from.
LEMMA ArrumarDeixaEmOrdem ==
    ASSUME NEW as \in Seq(Linhas), NEW dias, DOMAIN dias \subseteq 1 .. Prova,
           NEW h \in Int, NEW regs
    PROVE  ArrumarEstudado(as, dias, h, regs).as
              \in Seq(Boas(TopicosFeitos(as, regs), Marcados(as), regs, h, DiaDoEstudoFeito(dias, h)))
<1> DEFINE destino   == DiaDoEstudoFeito(dias, h)
           feito     == TopicosFeitos(as, regs)
           ja        == Marcados(as)
           B         == Boas(feito, ja, regs, h, destino)
           adianta(a) == /\ Concluida(regs, a.id) /\ a.disciplina # SemDisciplina
                         /\ a.data > h /\ destino # 0
           pendente(a) == coberta(a) /\ ~Concluida(regs, a.id) /\ a.data >= h
           some(a)   == pendente(a) /\ Topicos(a) \subseteq feito /\ ~Lancada(regs, a.id)
           sobra(a)  == IF pendente(a) /\ ~(Topicos(a) \subseteq feito) THEN SemTopicos(a, feito) ELSE a
           fs        == [i \in DOMAIN as |-> sobra(as[i])]
           E         == {i \in DOMAIN as : ~adianta(as[i]) /\ ~some(as[i])}
           ficam     == SubFila(fs, E)
           X         == {i \in DOMAIN as : adianta(as[i])}
           adiante   == ordenar(SubFila(as, X))
           r         == ReceberAdiante(as, ficam, adiante, destino)
<1>1. ArrumarEstudado(as, dias, h, regs) = r
  BY DEF ArrumarEstudado
<1>2. destino \in Int /\ (destino # 0 => destino \in 1 .. Prova)
  BY DiaDoEstudoTipo
<1>3. \A i \in DOMAIN as : as[i] \in Linhas /\ as[i] \in ToSet(as)
  BY LugarEhNumero DEF ToSet
<1>4. ASSUME NEW i \in E PROVE fs[i] \in B
  <2> DEFINE a == as[i]
             b == sobra(a)
  <2>1. i \in DOMAIN as /\ ~adianta(a) /\ ~some(a)
    OBVIOUS
  <2>2. a \in Linhas /\ (coberta(a) /\ Concluida(regs, a.id) => Topicos(a) \subseteq feito)
                             /\ (a.antecipada => a.id \in ja)
    BY <1>3, <2>1, FeitosDaLista, MarcadosDaLista
  <2>3. fs[i] = b
    BY <2>1
  <2>4. a.data \in Int /\ Ate(h, destino) >= h /\ Ate(h, destino) \in Int
    <3>1. a.data \in Int
      <4> HIDE DEF a
      <4> QED BY <2>2, LinhaTipo
    <3> HIDE DEF destino
    <3>2. Ate(h, destino) >= h /\ Ate(h, destino) \in Int
      BY <1>2 DEF Ate
    <3> QED BY <3>1, <3>2
  <2>5. CASE pendente(a) /\ ~(Topicos(a) \subseteq feito)
    <3>1. b = SemTopicos(a, feito)
      BY <2>5
    <3> HIDE DEF b, a
    <3>2. /\ b \in Linhas /\ b.id = a.id /\ b.data = a.data /\ Topicos(b) \cap feito = {}
          /\ b.antecipada = a.antecipada
      BY <2>2, <3>1, SemTopicosTipo
    <3>3. EmOrdemComOEstudo(b, feito, ja, regs, h, destino)
      BY <2>2, <2>5, <3>2 DEF EmOrdemComOEstudo
    <3> QED BY <2>3, <3>2, <3>3 DEF Boas
  <2>6. CASE ~(pendente(a) /\ ~(Topicos(a) \subseteq feito))
    <3>1. b = a
      BY <2>6
    <3>2. coberta(a) /\ a.data >= h /\ ~Lancada(regs, a.id) => FALSE
      BY <2>1, <2>6 DEF Lancada, Concluida
    <3>3. Concluida(regs, a.id) /\ a.disciplina # SemDisciplina /\ destino # 0
             => a.data <= Ate(h, destino)
      <4>1. Concluida(regs, a.id) /\ a.disciplina # SemDisciplina /\ destino # 0 => ~(a.data > h)
        BY <2>1
      <4> HIDE DEF a, destino
      <4> QED BY <2>4, <4>1
    <3>4. EmOrdemComOEstudo(a, feito, ja, regs, h, destino)
      BY <2>2, <3>2, <3>3 DEF EmOrdemComOEstudo
    <3> QED BY <2>2, <2>3, <3>1, <3>4 DEF Boas
  <2> QED BY <2>5, <2>6
<1>5. fs \in Seq(Linhas) /\ DOMAIN fs = DOMAIN as
  <2>1. ASSUME NEW i \in DOMAIN as PROVE sobra(as[i]) \in Linhas
    BY <1>3, SemTopicosTipo
  <2>2. fs \in [DOMAIN as -> Linhas]
    BY <2>1
  <2> HIDE DEF fs
  <2> QED BY <2>2, LugarALugar
<1>6. ficam \in Seq(B)
  <2>1. E \in SUBSET DOMAIN fs
    BY <1>5
  <2> HIDE DEF fs, E, B
  <2>2. ficam \in Seq(Linhas) /\ ToSet(ficam) = {fs[i] : i \in E}
    BY <1>5, <2>1, SubFilaDoLugar
  <2>3. ToSet(ficam) \subseteq B
    BY <1>4, <2>2
  <2> HIDE DEF ficam
  <2>4. \A i \in DOMAIN ficam : ficam[i] \in B
    BY <2>3 DEF ToSet
  <2> QED BY <2>2, <2>4, DeOutroConjunto
<1> DEFINE A == {a \in Linhas : adianta(a) /\ a \in ToSet(as)}
<1>7. adiante \in Seq(A)
  <2> DEFINE f == SubFila(as, X)
  <2>1. f \in Seq(Linhas) /\ ToSet(f) = {as[i] : i \in X}
    BY SubFilaDoLugar
  <2>2. ToSet(f) \subseteq A
    BY <1>3, <2>1
  <2> HIDE DEF f
  <2>3. A \in SUBSET Linhas
    OBVIOUS
  <2> HIDE DEF A
  <2>4. \A i \in DOMAIN f : f[i] \in A
    BY <2>2 DEF ToSet
  <2>5. f \in Seq(A)
    BY <2>1, <2>4, DeOutroConjunto
  <2>6. ordenar(f) \in Seq(A)
    BY <2>3, <2>5, ordenarGuarda
  <2> QED BY <2>6 DEF f
<1>8. B \in SUBSET Linhas /\ Solto(B)
  <2> HIDE DEF destino, feito, ja
  <2>1. Solto(B)
    BY <1>2, BoasSoltas
  <2>2. B \in SUBSET Linhas
    BY DEF Boas
  <2> QED BY <2>1, <2>2
<1> DEFINE base == Len(doDia(ficam, destino))
           chegam == NoDia(adiante, destino, base)
           postas == [k \in DOMAIN chegam |-> [chegam[k] EXCEPT !.antecipada = TRUE]]
           W == {c \in Linhas : [c EXCEPT !.antecipada = TRUE] \in B}
<1>9. CabeNoDia(A, W, destino)
  <2> SUFFICES ASSUME NEW a \in A, NEW n \in Nat PROVE NoLugar(a, destino, n) \in W
    BY DEF CabeNoDia
  <2> DEFINE c == NoLugar(a, destino, n)
             b == [c EXCEPT !.antecipada = TRUE]
  <2>1. a \in Linhas /\ Concluida(regs, a.id) /\ destino # 0
        /\ (coberta(a) => Topicos(a) \subseteq feito)
    BY FeitosDaLista
  <2>2. c \in Linhas /\ Mesmo(a, c) /\ c.data = destino
    BY <1>2, <2>1, NoLugarTipo
  <2>3. c.id = a.id /\ c.disciplina = a.disciplina /\ c.tema = a.tema /\ c.passada = a.passada
    BY <2>2 DEF Mesmo
  <2> HIDE DEF c
  <2>4. b \in Linhas
    BY <2>2 DEF Linhas
  <2>5. /\ b.id = c.id /\ b.disciplina = c.disciplina /\ b.tema = c.tema /\ b.passada = c.passada
        /\ b.data = c.data
    BY <2>2 DEF Linhas
  <2> HIDE DEF b
  <2>6. (coberta(b) <=> coberta(a)) /\ Topicos(b) = Topicos(a)
    BY <2>3, <2>5 DEF coberta, Topicos
  <2>7. Concluida(regs, b.id) /\ Lancada(regs, b.id)
    BY <2>1, <2>3, <2>5 DEF Concluida, Lancada
  <2>8. b.data <= Ate(h, destino)
    <3> HIDE DEF destino
    <3> QED BY <1>2, <2>2, <2>5 DEF Ate
  <2>9. EmOrdemComOEstudo(b, feito, ja, regs, h, destino)
    BY <2>1, <2>6, <2>7, <2>8 DEF EmOrdemComOEstudo
  <2>10. b \in B
    BY <2>4, <2>9 DEF Boas
  <2> QED BY <2>2, <2>10 DEF b, c
<1> HIDE DEF destino, feito, ja, B, ficam, adiante, A, W
<1>10. base \in Nat
  <2>1. ficam \in Seq(Linhas)
    BY <1>6, <1>8, SeqCabe
  <2>2. doDia(ficam, destino) \in Seq(Linhas)
    BY <2>1, doDiaTipo
  <2>3. Len(doDia(ficam, destino)) \in Nat
    BY <2>2, SeqEhFuncao
  <2> QED BY <2>3
<1> HIDE DEF base
<1>11. chegam \in Seq(W)
  BY <1>7, <1>9, <1>10, NoDiaTipo
<1> HIDE DEF chegam
<1>12. postas \in Seq(B)
  <2>1. \A k \in DOMAIN chegam : chegam[k] \in W
    BY <1>11, LugarEhNumero
  <2>2. postas \in [DOMAIN chegam -> B]
    BY <2>1 DEF W
  <2> HIDE DEF postas
  <2> QED BY <1>11, <2>2, LugarALugar
<1>13. r = IF adiante # <<>>
           THEN [as |-> renumerar(ficam \o postas, DiasDe(adiante) \cup {destino}), mudou |-> TRUE]
           ELSE IF ficam # as THEN [as |-> renumerar(ficam, DiasDe(ficam)), mudou |-> TRUE]
           ELSE [as |-> as, mudou |-> FALSE]
  BY DEF ReceberAdiante, chegam, base
<1> HIDE DEF postas
<1>14. renumerar(ficam \o postas, DiasDe(adiante) \cup {destino}) \in Seq(B)
  <2>1. ficam \o postas \in Seq(B)
    BY <1>6, <1>12, JuntaTodos
  <2> QED BY <1>8, <2>1, renumerarTipo
<1>15. renumerar(ficam, DiasDe(ficam)) \in Seq(B)
  BY <1>6, <1>8, renumerarTipo
<1>16. r.as \in Seq(B)
  <2>1. CASE adiante # <<>>
    BY <1>13, <1>14, <2>1
  <2>2. CASE adiante = <<>> /\ ficam # as
    BY <1>13, <1>15, <2>2
  <2>3. CASE adiante = <<>> /\ ficam = as
    <3>1. r = [as |-> as, mudou |-> FALSE]
      BY <1>13, <2>3
    <3>2. r.as = as
      BY <3>1
    <3>3. as \in Seq(B)
      BY <1>6, <2>3
    <3> QED BY <3>2, <3>3
  <2> QED BY <2>1, <2>2, <2>3
<1> QED BY <1>1, <1>16 DEF B, destino, feito, ja

\* Whatever schedule it is given, what `emDiaComOEstudado' returns is in order
\* with what is recorded.
LEMMA EmDiaDeixaEmOrdem ==
    ASSUME NEW as \in Seq(Linhas), NEW cfg, PlanoBom(PlanoDe(cfg)), NEW regs,
           hoje \in Int, cronograma \in Seq(Linhas)
    PROVE  \E feito : emDiaComOEstudado(as, cfg, regs)
              \in Seq(Boas(feito, Marcados(as), regs, hoje, DiaDoEstudoFeito(PlanoDe(cfg).dias, hoje)))
<1> DEFINE dias == PlanoDe(cfg).dias
           destino == DiaDoEstudoFeito(dias, hoje)
           feito == TopicosFeitos(as, regs)
           ja == Marcados(as)
           r == ArrumarEstudado(as, dias, hoje, regs)
           desde == Max({destino, hoje}) + 1
           S == Boas(feito, ja, regs, hoje, destino)
<1>1. emDiaComOEstudado(as, cfg, regs)
         = IF r.mudou THEN compactarDesde(r.as, desde, r.as, cfg, regs) ELSE r.as
  BY DEF emDiaComOEstudado, Fechado
<1>2. DOMAIN dias \subseteq 1 .. Prova
  BY DEF PlanoBom
<1>3. r.as \in Seq(S)
  BY <1>2, ArrumarDeixaEmOrdem
<1>4. destino \in Int
  BY <1>2, DiaDoEstudoTipo
<1> HIDE DEF destino, feito, ja, r
<1>5. desde = Ate(hoje, destino) + 1 /\ desde \in Int
  BY <1>4, MaiorDosDois DEF Ate
<1>6. S \in SUBSET Linhas
  BY DEF Boas
<1>7. CASE r.mudou
  <2>1. compactarDesde(r.as, desde, r.as, cfg, regs)
           \in Seq(Vindas(S, desde) \cup DeReforco)
    <3> HIDE DEF S, desde
    <3> QED BY <1>3, <1>5, <1>6, compactarDesdeTipo
  <2>2. Vindas(S, desde) \cup DeReforco \subseteq Boas(feito, ja, regs, hoje, destino)
    <3>1. Vindas(S, Ate(hoje, destino) + 1) \cup DeReforco \subseteq Boas(feito, ja, regs, hoje, destino)
      BY <1>4, VindasBoas
    <3> HIDE DEF desde, S
    <3> QED BY <1>5, <3>1
  <2>3. compactarDesde(r.as, desde, r.as, cfg, regs) \in Seq(Boas(feito, ja, regs, hoje, destino))
    <3> HIDE DEF S, desde
    <3> QED BY <2>1, <2>2, SeqCabe
  <2> QED BY <1>1, <1>7, <2>3 DEF destino, ja
<1>8. CASE ~r.mudou
  BY <1>1, <1>3, <1>8 DEF destino, ja
<1> QED BY <1>7, <1>8

-----------------------------------------------------------------------------
(* Moves by hand.                                                          *)

\* A set of rows that no change of place leaves.
Aberta(T) ==
    /\ T \subseteq Linhas
    /\ \A a \in T, b \in Linhas : Mesmo(a, b) => b \in T

\* `b' is the row `a' changed, and not marked as ahead of time by that.
MesmaMarca(a, b) == b.id = a.id /\ (b.antecipada => a.antecipada)

\* A set of rows that no such change leaves, of topics either.
Livre(T) ==
    /\ T \subseteq Linhas
    /\ \A a \in T, b \in Linhas : MesmaMarca(a, b) => b \in T

\* A change of place is such a change.
LEMMA LivreAberta ==
    ASSUME NEW T, Livre(T)
    PROVE  Aberta(T)
BY DEF Livre, Aberta, Mesmo, MesmaMarca

\* Such a set is one of rows, in any position.
LEMMA AbertaSolta ==
    ASSUME NEW T, Aberta(T)
    PROVE  T \in SUBSET Linhas /\ Solto(T)
<1>1. T \in SUBSET Linhas
  BY DEF Aberta
<1>2. ASSUME NEW a \in T, NEW n \in Nat PROVE [a EXCEPT !.posicao = n] \in T
  <2>1. a \in Linhas
    BY <1>1
  <2>2. [a EXCEPT !.posicao = n] \in Linhas /\ Mesmo(a, [a EXCEPT !.posicao = n])
    BY <2>1, LinhaMuda
  <2> QED BY <2>2 DEF Aberta
<1> QED BY <1>1, <1>2 DEF Solto

\* Moved by hand.
AMao(a, dt, n) == [a EXCEPT !.data = dt, !.posicao = n, !.movida = TRUE]

\* A row moved by hand stays in the set.
LEMMA AMaoTipo ==
    ASSUME NEW T, Aberta(T), NEW a \in T, NEW dt \in 1 .. Prova, NEW n \in Nat
    PROVE  AMao(a, dt, n) \in T
<1> DEFINE b == [a EXCEPT !.data = dt, !.posicao = n, !.movida = TRUE]
<1>1. a \in Linhas
  BY DEF Aberta
<1>2. b \in Linhas
  BY <1>1 DEF Linhas
<1>3. Mesmo(a, b)
  BY <1>1 DEF Mesmo, Linhas
<1> HIDE DEF b
<1>4. b \in T
  BY <1>2, <1>3 DEF Aberta
<1> QED BY <1>4 DEF b, AMao

OutroDia(a, dt) == [a EXCEPT !.data = dt]

\* A row moved to another day stays in the set.
LEMMA OutroDiaTipo ==
    ASSUME NEW T, Aberta(T), NEW a \in T, NEW dt \in 1 .. Prova
    PROVE  OutroDia(a, dt) \in T
<1> DEFINE b == [a EXCEPT !.data = dt]
<1>1. a \in Linhas
  BY DEF Aberta
<1>2. b \in Linhas
  BY <1>1 DEF Linhas
<1>3. Mesmo(a, b)
  BY <1>1 DEF Mesmo, Linhas
<1> HIDE DEF b
<1>4. b \in T
  BY <1>2, <1>3 DEF Aberta
<1> QED BY <1>4 DEF b, OutroDia

\* A row with a mark taken off stays in the set.
LEMMA MarcasTipo ==
    ASSUME NEW T, Aberta(T), NEW a \in T
    PROVE  [a EXCEPT !.movida = FALSE] \in T /\ [a EXCEPT !.antecipada = FALSE] \in T
<1> DEFINE b == [a EXCEPT !.movida = FALSE]
           c == [a EXCEPT !.antecipada = FALSE]
<1>1. a \in Linhas
  BY DEF Aberta
<1>2. b \in Linhas /\ c \in Linhas
  BY <1>1 DEF Linhas
<1>3. Mesmo(a, b)
  BY <1>1 DEF Mesmo, Linhas
<1>4. Mesmo(a, c)
  BY <1>1 DEF Mesmo, Linhas
<1> HIDE DEF b, c
<1>5. b \in T /\ c \in T
  BY <1>2, <1>3, <1>4 DEF Aberta
<1> QED BY <1>5 DEF b, c

\* The row an id names.
LEMMA PorIDTipo ==
    ASSUME NEW T, NEW as \in Seq(T), NEW id \in IdsDe(as)
    PROVE  PorID(as, id) \in T /\ PorID(as, id) \in ToSet(as) /\ PorID(as, id).id = id
<1>1. \E i \in DOMAIN as : as[i].id = id
  BY DEF IdsDe
<1> DEFINE i == CHOOSE i \in DOMAIN as : as[i].id = id
<1>2. i \in DOMAIN as /\ as[i].id = id
  BY <1>1
<1>3. PorID(as, id) = as[i]
  BY DEF PorID
<1> HIDE DEF i
<1> QED BY <1>2, <1>3, LugarEhNumero DEF ToSet

\* Fitting a row in a day leaves rows of the set.
LEMMA EncaixarTipo ==
    ASSUME NEW T, Aberta(T), NEW lista \in Seq(T), NEW posicao \in Int, NEW a \in T
    PROVE  Encaixar(lista, posicao, a) \in Seq(T)
<1> DEFINE p == Max({0, Min({posicao, Len(lista)})})
<1>1. Len(lista) \in Nat /\ DOMAIN lista = 1 .. Len(lista)
  BY SeqEhFuncao
<1>2. p \in 0 .. Len(lista)
  <2> DEFINE q == Min({posicao, Len(lista)})
  <2>1. \E x \in {posicao, Len(lista)} : \A y \in {posicao, Len(lista)} : x <= y
    BY <1>1
  <2>2. q \in {posicao, Len(lista)} /\ \A y \in {posicao, Len(lista)} : q <= y
    BY <2>1 DEF Min
  <2>3. q \in Int /\ q <= Len(lista)
    BY <1>1, <2>2
  <2> HIDE DEF q
  <2>4. \E x \in {0, q} : \A y \in {0, q} : x >= y
    BY <2>3
  <2>5. Max({0, q}) \in {0, q} /\ \A y \in {0, q} : Max({0, q}) >= y
    BY <2>4 DEF Max
  <2>6. Max({0, q}) \in 0 .. Len(lista)
    BY <1>1, <2>3, <2>5
  <2> QED BY <2>6 DEF q
<1>3. Encaixar(lista, posicao, a)
        = EmOrdem(SubSeq(lista, 1, (p + 1) - 1) \o <<a>> \o SubSeq(lista, p + 1, Len(lista)))
  BY DEF Encaixar, InsertAt
<1> HIDE DEF p
<1>4. SubSeq(lista, 1, (p + 1) - 1) \in Seq(T)
  <2>1. (p + 1) - 1 \in Int /\ \A i \in 1 .. (p + 1) - 1 : lista[i] \in T
    BY <1>1, <1>2, LugarEhNumero
  <2> QED BY <2>1, SubSeqProperties
<1>5. SubSeq(lista, p + 1, Len(lista)) \in Seq(T)
  <2>1. p + 1 \in Int /\ \A i \in p + 1 .. Len(lista) : lista[i] \in T
    BY <1>1, <1>2, LugarEhNumero
  <2> QED BY <1>1, <2>1, SubSeqProperties
<1>6. <<a>> \in Seq(T)
  OBVIOUS
<1>7. SubSeq(lista, 1, (p + 1) - 1) \o <<a>> \in Seq(T)
  BY <1>4, <1>6, JuntaTodos
<1>8. SubSeq(lista, 1, (p + 1) - 1) \o <<a>> \o SubSeq(lista, p + 1, Len(lista)) \in Seq(T)
  BY <1>5, <1>7, JuntaTodos
<1>9. Solto(T)
  BY AbertaSolta
<1> QED BY <1>3, <1>8, <1>9, EmOrdemTipo

\* So does moving one, with the rows it pushes aside.
LEMMA MoverTipo ==
    ASSUME NEW T, Aberta(T), NEW as \in Seq(T), NEW id \in IdsDe(as),
           NEW destino \in 1 .. Prova, NEW posicao \in Int
    PROVE  Mover(as, id, destino, posicao) \in Seq(T)
<1> DEFINE movida == [PorID(as, id) EXCEPT !.data = destino, !.movida = TRUE]
           R == {i \in DOMAIN as : as[i].id # id}
           O == {i \in DOMAIN as : as[i].id # id /\ as[i].data # destino}
           restantes == SubFila(as, R)
           outros == SubFila(as, O)
           cheio == Encaixar(doDia(restantes, destino), posicao, movida)
           dias == {PorID(as, id).data} \ {destino}
<1>1. Mover(as, id, destino, posicao) = ordenar(renumerar(outros \o cheio, dias))
  BY DEF Mover
<1>2. T \in SUBSET Linhas /\ Solto(T)
  BY AbertaSolta
<1>3. movida \in T
  <2> DEFINE a == PorID(as, id)
             b == [a EXCEPT !.data = destino, !.movida = TRUE]
  <2>1. a \in T
    BY PorIDTipo
  <2> HIDE DEF a
  <2>2. a \in Linhas
    BY <1>2, <2>1
  <2>3. b \in Linhas
    BY <2>2 DEF Linhas
  <2>4. Mesmo(a, b)
    BY <2>2 DEF Mesmo, Linhas
  <2> HIDE DEF b
  <2>5. b \in T
    BY <2>1, <2>3, <2>4 DEF Aberta
  <2> QED BY <2>5 DEF b, a
<1>4. restantes \in Seq(T)
  BY SubFilaDoLugar
<1>5. outros \in Seq(T)
  BY SubFilaDoLugar
<1> HIDE DEF movida, restantes, outros, dias
<1>6. doDia(restantes, destino) \in Seq(T)
  BY <1>2, <1>4, doDiaTipo
<1>7. cheio \in Seq(T)
  BY <1>3, <1>6, EncaixarTipo
<1> HIDE DEF cheio
<1>8. outros \o cheio \in Seq(T)
  BY <1>5, <1>7, JuntaTodos
<1>9. renumerar(outros \o cheio, dias) \in Seq(T)
  BY <1>2, <1>8, renumerarTipo
<1> QED BY <1>1, <1>2, <1>9, ordenarGuarda

\* So does trading the places of two.
LEMMA TrocarTipo ==
    ASSUME NEW T, Aberta(T), NEW as \in Seq(T), NEW id \in IdsDe(as),
           NEW destino \in 1 .. Prova, NEW posicao \in Int
    PROVE  Trocar(as, id, destino, posicao) \in Seq(T)
<1> DEFINE eu == PorID(as, id)
           lista == doDia(as, destino)
           alvo == lista[posicao + 1].id
           troca(a) ==
             CASE a.id = id   -> AMao(a, destino, posicao)
               [] a.id = alvo -> AMao(a, eu.data, eu.posicao)
               [] OTHER       -> a
           r == [i \in DOMAIN as |-> troca(as[i])]
<1>1. Trocar(as, id, destino, posicao) =
        IF eu.data = destino /\ eu.posicao = posicao THEN as
        ELSE IF posicao \notin 0 .. Len(lista) - 1 THEN Mover(as, id, destino, posicao)
        ELSE IF alvo = id THEN as
        ELSE ordenar(r)
  BY DEF Trocar, AMao
<1>2. T \in SUBSET Linhas
  BY AbertaSolta
<1>3. eu.data \in 1 .. Prova /\ eu.posicao \in Nat
  <2>1. eu \in T
    BY PorIDTipo
  <2> HIDE DEF eu
  <2> QED BY <1>2, <2>1, LinhaTipo
<1> HIDE DEF eu, alvo
<1>4. ASSUME NEW i \in DOMAIN as, posicao \in Nat PROVE troca(as[i]) \in T
  <2>1. as[i] \in T
    BY LugarEhNumero
  <2>2. AMao(as[i], destino, posicao) \in T
    BY <1>4, <2>1, AMaoTipo
  <2>3. AMao(as[i], eu.data, eu.posicao) \in T
    BY <1>3, <2>1, AMaoTipo
  <2> QED BY <2>1, <2>2, <2>3
<1> HIDE DEF troca
<1>5. ASSUME posicao \in Nat PROVE ordenar(r) \in Seq(T)
  <2>1. r \in [DOMAIN as -> T]
    BY <1>4, <1>5
  <2> HIDE DEF r
  <2>2. r \in Seq(T)
    BY <2>1, LugarALugar
  <2> QED BY <1>2, <2>2, ordenarGuarda
<1> HIDE DEF r
<1>6. Mover(as, id, destino, posicao) \in Seq(T)
  BY MoverTipo
<1>7. posicao \in 0 .. Len(lista) - 1 => posicao \in Nat
  OBVIOUS
<1> QED BY <1>1, <1>5, <1>6, <1>7

-----------------------------------------------------------------------------
(* Postponing, study ahead, rebuilding.                                    *)

\* So does sliding a day along a chain of different days.
LEMMA AdiarDiaTipo ==
    ASSUME NEW T, Aberta(T), NEW as \in Seq(T), NEW cadeia \in Seq(1 .. Prova),
           \A j, k \in DOMAIN cadeia : cadeia[j] = cadeia[k] => j = k
    PROVE  AdiarDia(as, cadeia) \in Seq(T)
<1> DEFINE vaiPara(dt)  == CHOOSE k \in DOMAIN cadeia : cadeia[k] = dt
           saem         == {cadeia[k] : k \in 1 .. Len(cadeia) - 1}
           proximo(dt)  == cadeia[vaiPara(dt) + 1]
           saida        == [i \in DOMAIN as |->
                               IF as[i].data \in saem THEN OutroDia(as[i], proximo(as[i].data)) ELSE as[i]]
           afetados     == UNION {{dt, proximo(dt)} : dt \in saem \cap DiasDe(as)}
<1>1. AdiarDia(as, cadeia) = renumerar(saida, afetados)
  BY DEF AdiarDia, OutroDia
<1>2. T \in SUBSET Linhas /\ Solto(T)
  BY AbertaSolta
<1>3. ASSUME NEW dt \in saem PROVE proximo(dt) \in 1 .. Prova
  <2>1. Len(cadeia) \in Nat /\ DOMAIN cadeia = 1 .. Len(cadeia)
    BY SeqEhFuncao
  <2>2. PICK k \in 1 .. Len(cadeia) - 1 : cadeia[k] = dt
    OBVIOUS
  <2>3. k \in DOMAIN cadeia /\ k + 1 \in DOMAIN cadeia
    BY <2>1, <2>2
  <2>4. vaiPara(dt) \in DOMAIN cadeia /\ cadeia[vaiPara(dt)] = dt
    BY <2>2, <2>3
  <2>5. vaiPara(dt) = k
    BY <2>2, <2>3, <2>4
  <2>6. cadeia[k + 1] \in 1 .. Prova
    BY <2>3, LugarEhNumero
  <2> HIDE DEF vaiPara
  <2> QED BY <2>5, <2>6
<1> HIDE DEF proximo, saem, afetados
<1>4. ASSUME NEW i \in DOMAIN as PROVE saida[i] \in T
  <2>1. as[i] \in T
    BY LugarEhNumero
  <2>2. as[i].data \in saem => OutroDia(as[i], proximo(as[i].data)) \in T
    BY <1>3, <2>1, OutroDiaTipo
  <2> QED BY <2>1, <2>2
<1>5. saida \in [DOMAIN as -> T]
  BY <1>4
<1> HIDE DEF saida
<1>6. saida \in Seq(T)
  BY <1>5, LugarALugar
<1> QED BY <1>1, <1>2, <1>6, renumerarTipo

\* So does bringing a row to an earlier day.
LEMMA AntecipouTipo ==
    ASSUME NEW T, Aberta(T), NEW as \in Seq(T), NEW id, NEW dia \in Int,
           PorID(as, id).data <= dia \/ dia \in 1 .. Prova
    PROVE  AntecipouAtividade(as, id, dia) \in Seq(T)
<1> DEFINE origem == PorID(as, id).data
           base == Len(doDia(as, dia))
           saida == [i \in DOMAIN as |-> IF as[i].id = id THEN NoLugar(as[i], dia, base) ELSE as[i]]
<1>1. AntecipouAtividade(as, id, dia) = IF origem <= dia THEN as ELSE renumerar(saida, {origem, dia})
  BY DEF AntecipouAtividade, NoLugar
<1>2. T \in SUBSET Linhas /\ Solto(T)
  BY AbertaSolta
<1>3. base \in Nat
  <2>1. doDia(as, dia) \in Seq(T)
    BY <1>2, doDiaTipo
  <2> QED BY <2>1, SeqEhFuncao
<1> HIDE DEF base, origem
<1>4. ASSUME dia \in 1 .. Prova, NEW i \in DOMAIN as PROVE saida[i] \in T
  <2>1. as[i] \in T
    BY LugarEhNumero
  <2>2. NoLugar(as[i], dia, base) \in T
    <3>1. as[i] \in Linhas
      BY <1>2, <2>1
    <3>2. NoLugar(as[i], dia, base) \in Linhas /\ Mesmo(as[i], NoLugar(as[i], dia, base))
      BY <1>3, <1>4, <3>1, NoLugarTipo
    <3> QED BY <2>1, <3>2 DEF Aberta
  <2> QED BY <2>1, <2>2
<1>5. ASSUME dia \in 1 .. Prova PROVE renumerar(saida, {origem, dia}) \in Seq(T)
  <2>1. saida \in [DOMAIN as -> T]
    BY <1>4, <1>5
  <2> HIDE DEF saida
  <2>2. saida \in Seq(T)
    BY <2>1, LugarALugar
  <2> QED BY <1>2, <2>2, renumerarTipo
<1>6. origem <= dia \/ dia \in 1 .. Prova
  BY DEF origem
<1> QED BY <1>1, <1>5, <1>6

\* So does forgetting what was placed by hand.
LEMMA SemMovidasTipo ==
    ASSUME NEW T, Aberta(T), NEW as \in Seq(T), NEW desde
    PROVE  SemMovidas(as, desde) \in Seq(T)
<1> DEFINE r == [i \in DOMAIN as |-> IF as[i].data >= desde THEN [as[i] EXCEPT !.movida = FALSE] ELSE as[i]]
<1>1. ASSUME NEW i \in DOMAIN as PROVE r[i] \in T
  <2>1. as[i] \in T
    BY LugarEhNumero
  <2>2. [as[i] EXCEPT !.movida = FALSE] \in T
    BY <2>1, MarcasTipo
  <2> QED BY <2>1, <2>2
<1>2. r \in [DOMAIN as -> T]
  BY <1>1
<1> HIDE DEF r
<1>3. r \in Seq(T)
  BY <1>2, LugarALugar
<1> QED BY <1>3 DEF SemMovidas, r

\* So does taking back the mark of study ahead.
LEMMA SemAntecipadaTipo ==
    ASSUME NEW T, Aberta(T), NEW as \in Seq(T), NEW id
    PROVE  SemAntecipada(as, id) \in Seq(T)
<1> DEFINE r == [i \in DOMAIN as |-> IF as[i].id = id THEN [as[i] EXCEPT !.antecipada = FALSE] ELSE as[i]]
<1>1. ASSUME NEW i \in DOMAIN as PROVE r[i] \in T
  <2>1. as[i] \in T
    BY LugarEhNumero
  <2>2. [as[i] EXCEPT !.antecipada = FALSE] \in T
    BY <2>1, MarcasTipo
  <2> QED BY <2>1, <2>2
<1>2. r \in [DOMAIN as -> T]
  BY <1>1
<1> HIDE DEF r
<1>3. r \in Seq(T)
  BY <1>2, LugarALugar
<1> QED BY <1>3 DEF SemAntecipada, r

\* So does taking out what is already studied.
LEMMA SemConteudoTipo ==
    ASSUME NEW T, Livre(T), NEW novas \in Seq(T), NEW atuais, NEW regs
    PROVE  SemConteudoJaConcluido(novas, atuais, regs) \in Seq(T)
<1> DEFINE feito   == TopicosFeitos(atuais, regs)
           resta(a) == IF coberta(a) THEN SemTopicos(a, feito) ELSE a
           r == [i \in DOMAIN novas |-> resta(novas[i])]
           E == {i \in DOMAIN novas :
                    coberta(novas[i]) /\ feito # {} => ~(Topicos(novas[i]) \subseteq feito)}
<1>1. SemConteudoJaConcluido(novas, atuais, regs) = SubFila(r, E)
  BY DEF SemConteudoJaConcluido
<1> HIDE DEF feito
<1>2. ASSUME NEW i \in DOMAIN novas PROVE r[i] \in T
  <2> DEFINE a == novas[i]
  <2>1. a \in T
    BY LugarEhNumero
  <2> HIDE DEF a
  <2>2. a \in Linhas
    BY <2>1 DEF Livre
  <2>3. /\ SemTopicos(a, feito) \in Linhas /\ SemTopicos(a, feito).id = a.id
        /\ SemTopicos(a, feito).antecipada = a.antecipada
    BY <2>2, SemTopicosTipo
  <2>4. SemTopicos(a, feito) \in T
    BY <2>1, <2>3 DEF Livre, MesmaMarca
  <2>5. resta(a) \in T
    BY <2>1, <2>4
  <2> HIDE DEF resta
  <2> QED BY <2>5 DEF a
<1>3. r \in [DOMAIN novas -> T]
  BY <1>2
<1>4. E \in SUBSET DOMAIN r
  OBVIOUS
<1> HIDE DEF r, E
<1>5. r \in Seq(T)
  BY <1>3, LugarALugar
<1> QED BY <1>1, <1>4, <1>5, SubFilaDoLugar

\* Rebuilding the days ahead keeps rows and takes proposed ones.
LEMMA ReplanejarTipo ==
    ASSUME NEW T \in SUBSET Linhas, NEW atuais \in Seq(T), NEW novas \in Seq(T),
           NEW desde, NEW regs
    PROVE  Replanejar(atuais, novas, desde, regs) \in Seq(T)
<1> DEFINE E == {i \in DOMAIN atuais :
                   atuais[i].data < desde \/ Lancada(regs, atuais[i].id) \/ atuais[i].movida}
           p == SubFila(atuais, E)
           X == {i \in DOMAIN novas : novas[i].data >= desde /\ novas[i].data \notin DiasDe(p)}
           n == SubFila(novas, X)
<1>1. Replanejar(atuais, novas, desde, regs) = ordenar(p \o n)
  BY DEF Replanejar, Abertas
<1>2. p \in Seq(T)
  BY SubFilaDoLugar
<1>3. n \in Seq(T)
  <2>1. X \in SUBSET DOMAIN novas
    OBVIOUS
  <2> HIDE DEF X
  <2> QED BY <2>1, SubFilaDoLugar
<1> HIDE DEF p, n
<1>4. p \o n \in Seq(T)
  BY <1>2, <1>3, JuntaTodos
<1> QED BY <1>1, <1>4, ordenarGuarda

-----------------------------------------------------------------------------
(* Schedules of rows.                                                      *)

\* Rows marked as ahead of time only where `m' has a conclusion.
Marcadas(m) == {a \in Linhas : a.antecipada => Concluida(m, a.id)}

\* A schedule of such rows.
DeLinhas(as, m) == as \in Seq(Marcadas(m))

\* No request marks a row as ahead of time by moving it.
LEMMA MarcadasAberta ==
    ASSUME NEW m
    PROVE  Livre(Marcadas(m)) /\ Aberta(Marcadas(m)) /\ Marcadas(m) \in SUBSET Linhas
<1>1. Livre(Marcadas(m)) /\ Marcadas(m) \in SUBSET Linhas
  BY DEF Livre, Marcadas, MesmaMarca
<1> QED BY <1>1, LivreAberta

\* Neither a packing nor reinforcement marks any.
LEMMA MarcadasCabem ==
    ASSUME NEW m, NEW desde
    PROVE  Vindas(Marcadas(m), desde) \cup DeReforco \subseteq Marcadas(m)
<1>1. ASSUME NEW b \in Vindas(Marcadas(m), desde) PROVE b \in Marcadas(m)
  <2>1. PICK a \in Marcadas(m) : Mesmo(a, b)
    BY <1>1 DEF Vindas
  <2>2. b \in Linhas
    BY <1>1 DEF Vindas
  <2> QED BY <2>1, <2>2 DEF Marcadas, Mesmo
<1>2. DeReforco \subseteq Marcadas(m)
  BY DEF DeReforco, Marcadas
<1> QED BY <1>1, <1>2

\* A schedule of any rows is one for a record that concludes all of them.
LEMMA TodasConcluidas ==
    ASSUME NEW as \in Seq(Linhas)
    PROVE  \E m : DeLinhas(as, m)
<1> DEFINE m == [x \in Nat |-> TRUE]
<1>1. ASSUME NEW a \in Linhas PROVE a \in Marcadas(m)
  <2>1. a.id \in Nat
    BY LinhaTipo
  <2>2. Concluida(m, a.id)
    BY <2>1 DEF Concluida
  <2> QED BY <2>2 DEF Marcadas
<1> HIDE DEF m
<1>2. Linhas \subseteq Marcadas(m)
  BY <1>1
<1>3. as \in Seq(Marcadas(m))
  BY <1>2, SeqCabe
<1> QED BY <1>3 DEF DeLinhas

\* Such a schedule is one of rows.
LEMMA DeLinhasTipo ==
    ASSUME NEW as, NEW m, DeLinhas(as, m)
    PROVE  as \in Seq(Linhas)
<1>1. as \in Seq(Marcadas(m))
  BY DEF DeLinhas
<1>2. Marcadas(m) \subseteq Linhas
  BY MarcadasAberta
<1> QED BY <1>1, <1>2, SeqCabe

-----------------------------------------------------------------------------
(* Each operation makes rows of rows.                                      *)

\* The planner's blocks.
LEMMA NovasTipo ==
    ASSUME NEW cfg, PlanoBom(PlanoDe(cfg)), NEW m, cronograma \in Seq(Linhas)
    PROVE  DeLinhas(Novas(cfg), m)
<1> DEFINE itens == PlanoDe(cfg).itens
           ultimo == UltimoId(cronograma)
           linha(k) == [id |-> ultimo + k, data |-> itens[k].data, posicao |-> itens[k].posicao,
                        disciplina |-> itens[k].disciplina, tema |-> itens[k].tema,
                        passada |-> itens[k].passada, movida |-> FALSE, antecipada |-> FALSE]
           r == [k \in DOMAIN itens |-> linha(k)]
<1>1. Novas(cfg) = r
  BY DEF Novas, Materializar
<1>2. itens \in Seq(Blocos)
  BY DEF PlanoBom
<1>3. ultimo \in Nat
  BY UltimoIdTipo
<1> HIDE DEF ultimo, itens
<1>4. ASSUME NEW k \in DOMAIN itens PROVE linha(k) \in Marcadas(m)
  <2> DEFINE b == itens[k]
             n == ultimo + k
  <2>1. k \in Nat /\ b \in Blocos
    BY <1>2, LugarEhNumero
  <2>2. n \in Nat
    BY <1>3, <2>1
  <2> HIDE DEF n, b
  <2>3. /\ b.data \in 1 .. Prova /\ b.posicao \in Nat /\ b.disciplina \in STRING
        /\ b.tema \in Temas /\ b.passada \in {1, 2}
    BY <2>1 DEF Blocos
  <2>4. linha(k) = [id |-> n, data |-> b.data, posicao |-> b.posicao,
                    disciplina |-> b.disciplina, tema |-> b.tema,
                    passada |-> b.passada, movida |-> FALSE, antecipada |-> FALSE]
    BY DEF n, b
  <2> HIDE DEF linha
  <2>5. linha(k) \in Linhas /\ ~linha(k).antecipada
    BY <2>2, <2>3, <2>4 DEF Linhas
  <2> QED BY <2>5 DEF Marcadas
<1>5. r \in [DOMAIN itens -> Marcadas(m)]
  BY <1>4
<1> HIDE DEF r
<1>6. r \in Seq(Marcadas(m))
  BY <1>2, <1>5, LugarALugar
<1> QED BY <1>1, <1>6 DEF DeLinhas

\* Ordering.
LEMMA ordenarLinhas ==
    ASSUME NEW as, NEW m, DeLinhas(as, m)
    PROVE  DeLinhas(ordenar(as), m)
<1>1. as \in Seq(Marcadas(m))
  BY DEF DeLinhas
<1>2. ordenar(as) \in Seq(Marcadas(m))
  BY <1>1, MarcadasAberta, ordenarGuarda
<1> QED BY <1>2 DEF DeLinhas

\* Keeping some of the rows.
LEMMA SubFilaLinhas ==
    ASSUME NEW as, NEW m, DeLinhas(as, m), NEW escolha \in SUBSET DOMAIN as
    PROVE  DeLinhas(SubFila(as, escolha), m)
<1>1. as \in Seq(Marcadas(m))
  BY DEF DeLinhas
<1>2. SubFila(as, escolha) \in Seq(Marcadas(m))
  BY <1>1, SubFilaDoLugar
<1> QED BY <1>2 DEF DeLinhas

\* Rebuilding the days ahead.
LEMMA ReplanejarLinhas ==
    ASSUME NEW as, NEW novas, NEW m, DeLinhas(as, m), DeLinhas(novas, m), NEW desde, NEW regs
    PROVE  DeLinhas(Replanejar(as, novas, desde, regs), m)
<1>1. as \in Seq(Marcadas(m)) /\ novas \in Seq(Marcadas(m))
  BY DEF DeLinhas
<1>2. Marcadas(m) \in SUBSET Linhas
  BY MarcadasAberta
<1> HIDE DEF Marcadas
<1>3. Replanejar(as, novas, desde, regs) \in Seq(Marcadas(m))
  BY <1>1, <1>2, ReplanejarTipo
<1> QED BY <1>3 DEF DeLinhas

\* Packing.
LEMMA CompactarLinhas ==
    ASSUME NEW as, NEW m, DeLinhas(as, m), NEW dias, DOMAIN dias \subseteq 1 .. Prova,
           NEW desde \in Int, NEW concluidos
    PROVE  DeLinhas(CompactarAtividades(as, dias, desde, concluidos), m)
<1>1. as \in Seq(Marcadas(m))
  BY DEF DeLinhas
<1>2. Marcadas(m) \in SUBSET Linhas
  BY MarcadasAberta
<1>3. Vindas(Marcadas(m), desde) \subseteq Marcadas(m)
  BY MarcadasCabem
<1> HIDE DEF Marcadas
<1>4. CompactarAtividades(as, dias, desde, concluidos) \in Seq(Vindas(Marcadas(m), desde))
  BY <1>1, <1>2, CompactarTipo
<1>5. CompactarAtividades(as, dias, desde, concluidos) \in Seq(Marcadas(m))
  BY <1>3, <1>4, SeqCabe
<1> QED BY <1>5 DEF DeLinhas

\* Packing and filling with reinforcement what frees up.
LEMMA compactarDesdeLinhas ==
    ASSUME NEW as, NEW m, DeLinhas(as, m), NEW desde \in Int, NEW base,
           NEW cfg, PlanoBom(PlanoDe(cfg)), NEW regs, cronograma \in Seq(Linhas)
    PROVE  DeLinhas(compactarDesde(as, desde, base, cfg, regs), m)
<1>1. as \in Seq(Marcadas(m))
  BY DEF DeLinhas
<1>2. Marcadas(m) \in SUBSET Linhas
  BY MarcadasAberta
<1>3. compactarDesde(as, desde, base, cfg, regs) \in Seq(Vindas(Marcadas(m), desde) \cup DeReforco)
  BY <1>1, <1>2, compactarDesdeTipo
<1>4. Vindas(Marcadas(m), desde) \cup DeReforco \subseteq Marcadas(m)
  BY MarcadasCabem
<1> HIDE DEF Marcadas
<1>5. compactarDesde(as, desde, base, cfg, regs) \in Seq(Marcadas(m))
  BY <1>3, <1>4, SeqCabe
<1> QED BY <1>5 DEF DeLinhas

-----------------------------------------------------------------------------
(* The rest of the operations.                                             *)

\* What the student asks for by hand, and the filters.
LEMMA MexidasLinhas ==
    ASSUME NEW as, NEW m, DeLinhas(as, m)
    PROVE  /\ \A desde : DeLinhas(SemMovidas(as, desde), m)
           /\ \A id, dia : dia \in Int /\ (PorID(as, id).data <= dia \/ dia \in 1 .. Prova)
                 => DeLinhas(AntecipouAtividade(as, id, dia), m)
           /\ \A id, destino, posicao :
                 id \in IdsDe(as) /\ destino \in 1 .. Prova /\ posicao \in Int
                    => /\ DeLinhas(Mover(as, id, destino, posicao), m)
                       /\ DeLinhas(Trocar(as, id, destino, posicao), m)
           /\ \A atuais, regs : DeLinhas(SemConteudoJaConcluido(as, atuais, regs), m)
<1>1. as \in Seq(Marcadas(m))
  BY DEF DeLinhas
<1> DEFINE T == Marcadas(m)
<1>2. Aberta(T) /\ Livre(T) /\ as \in Seq(T)
  BY <1>1, MarcadasAberta
<1>3. \A s : s \in Seq(T) => DeLinhas(s, m)
  BY DEF DeLinhas
<1> HIDE DEF T
<1>4. ASSUME NEW desde PROVE DeLinhas(SemMovidas(as, desde), m)
  BY <1>2, <1>3, SemMovidasTipo
<1>5. ASSUME NEW id, NEW dia \in Int, PorID(as, id).data <= dia \/ dia \in 1 .. Prova
      PROVE  DeLinhas(AntecipouAtividade(as, id, dia), m)
  BY <1>2, <1>3, <1>5, AntecipouTipo
<1>6. ASSUME NEW id \in IdsDe(as), NEW destino \in 1 .. Prova, NEW posicao \in Int
      PROVE  DeLinhas(Mover(as, id, destino, posicao), m) /\ DeLinhas(Trocar(as, id, destino, posicao), m)
  BY <1>2, <1>3, MoverTipo, TrocarTipo
<1>7. ASSUME NEW atuais, NEW regs PROVE DeLinhas(SemConteudoJaConcluido(as, atuais, regs), m)
  BY <1>2, <1>3, SemConteudoTipo
<1> QED BY <1>4, <1>5, <1>6, <1>7

\* Postponing slides rows along the days of the chain.
LEMMA AdiarDiaLinhas ==
    ASSUME NEW as, NEW m, DeLinhas(as, m), NEW dias, DOMAIN dias \subseteq 1 .. Prova,
           NEW data, NEW concluidos
    PROVE  DeLinhas(AdiarDia(as, cadeiaDe(dias, data, concluidos)), m)
<1>1. as \in Seq(Marcadas(m))
  BY DEF DeLinhas
<1> DEFINE T == Marcadas(m)
           S == {dt \in DOMAIN dias : dt >= data /\ DestinoValido(dias, dt) /\ dt \notin concluidos}
           cadeia == EmSequencia(S)
<1>2. Aberta(T) /\ as \in Seq(T)
  BY <1>1, MarcadasAberta
<1>3. S \in SUBSET Int /\ S \subseteq 1 .. Prova /\ IsFiniteSet(S)
  <2>1. IsFiniteSet(1 .. Prova) /\ \A x \in 1 .. Prova : x \in Int
    BY Calendario, AteFinito
  <2>2. S \in SUBSET (1 .. Prova)
    OBVIOUS
  <2> HIDE DEF S
  <2> QED BY <2>1, <2>2, FS_Subset
<1>4. cadeiaDe(dias, data, concluidos) = cadeia
  BY DEF cadeiaDe
<1> HIDE DEF S, T
<1>5. cadeia \in Seq(S)
  BY <1>3, EmSequenciaTodos
<1>6. cadeia \in Seq(1 .. Prova)
  BY <1>3, <1>5, SeqCabe
<1>7. \A j, k \in DOMAIN cadeia : cadeia[j] = cadeia[k] => j = k
  BY <1>3, EmSequenciaUmaVez
<1> HIDE DEF cadeia
<1>8. AdiarDia(as, cadeia) \in Seq(T)
  BY <1>2, <1>6, <1>7, AdiarDiaTipo
<1> QED BY <1>4, <1>8 DEF DeLinhas, T

\* Joining two lists.
LEMMA JuntarLinhas ==
    ASSUME NEW as, NEW bs, NEW m, DeLinhas(as, m), DeLinhas(bs, m)
    PROVE  DeLinhas(as \o bs, m)
<1>1. as \in Seq(Marcadas(m)) /\ bs \in Seq(Marcadas(m))
  BY DEF DeLinhas
<1> HIDE DEF Marcadas
<1>2. as \o bs \in Seq(Marcadas(m))
  BY <1>1, JuntaTodos
<1> QED BY <1>2 DEF DeLinhas

\* The days ahead planned again from today.
LEMMA redistribuirLinhas ==
    ASSUME NEW m, DeLinhas(cronograma, m), config \in Configs, hoje \in 1 .. Prova - 1, NEW desde
    PROVE  DeLinhas(redistribuirDesde(desde), m)
<1> DEFINE cfg     == [config EXCEPT !.inicio = hoje]
           A == {i \in DOMAIN cronograma : cronograma[i].data < desde}
           J == {i \in DOMAIN cronograma : cronograma[i].data >= desde}
           antes   == SubFila(cronograma, A)
           janela  == SubFila(cronograma, J)
           K == {i \in DOMAIN janela : janela[i].data < hoje => Lancada(registros, janela[i].id)}
           resto   == SubFila(janela, K)
           atuais  == SemMovidas(antes \o resto, hoje)
           novas   == SemConteudoJaConcluido(Novas(cfg), cronograma, registros)
           replanejadas == Replanejar(atuais, novas, hoje, registros)
<1>1. redistribuirDesde(desde)
        = CompactarAtividades(replanejadas, PlanoDe(cfg).dias, hoje, DiasConcluidos(replanejadas, registros))
  BY DEF redistribuirDesde, SemAtrasadas
<1>2. PlanoBom(PlanoDe(cfg))
  BY PlanosBons
<1>3. hoje \in Int
  BY Calendario
<1>4. A \in SUBSET DOMAIN cronograma /\ J \in SUBSET DOMAIN cronograma /\ K \in SUBSET DOMAIN janela
  OBVIOUS
<1> HIDE DEF A, J, K, cfg
<1>5. DeLinhas(antes, m) /\ DeLinhas(janela, m)
  BY <1>4, SubFilaLinhas
<1> HIDE DEF antes, janela
<1>6. DeLinhas(resto, m)
  BY <1>4, <1>5, SubFilaLinhas
<1> HIDE DEF resto
<1>7. DeLinhas(antes \o resto, m)
  BY <1>5, <1>6, JuntarLinhas
<1>8. DeLinhas(atuais, m)
  BY <1>7, MexidasLinhas
<1>9. DeLinhas(novas, m)
  BY <1>2, DeLinhasTipo, NovasTipo, MexidasLinhas
<1> HIDE DEF atuais, novas
<1>10. DeLinhas(replanejadas, m)
  BY <1>8, <1>9, ReplanejarLinhas
<1> HIDE DEF replanejadas
<1> QED BY <1>1, <1>2, <1>3, <1>10, CompactarLinhas DEF PlanoBom

-----------------------------------------------------------------------------
(* One topic split off.                                                    *)

\* The block split off, and what the original keeps.
Separada(a, novo, topico) ==
    [SoCom(a, {topico}) EXCEPT !.id = novo, !.posicao = a.posicao + 1]

\* Both halves of a block split in two are rows.
LEMMA SeparadaTipo ==
    ASSUME NEW a \in Linhas, NEW novo \in Nat, NEW topico \in Topico
    PROVE  /\ Separada(a, novo, topico) \in Linhas /\ Separada(a, novo, topico).id = novo
           /\ \A resto \in SUBSET Topico : SoCom(a, resto) \in Linhas /\ MesmaMarca(a, SoCom(a, resto))
<1>1. ASSUME NEW p \in SUBSET Topico
      PROVE  SoCom(a, p) \in Linhas /\ SoCom(a, p).posicao = a.posicao /\ MesmaMarca(a, SoCom(a, p))
  <2> DEFINE rot == IF (CHOOSE x \in a.tema.partes : TRUE) \in p THEN a.tema.rotulo ELSE ""
             t == [rotulo |-> rot, partes |-> p]
             b == [a EXCEPT !.tema = t]
  <2>1. SoCom(a, p) = b
    BY DEF SoCom, Linhas
  <2>2. rot \in {"", "Dirigida", Reforco}
    BY DEF Linhas, Temas
  <2> HIDE DEF rot
  <2>3. t \in Temas
    BY <2>2 DEF Temas
  <2> HIDE DEF t
  <2>4. b \in Linhas /\ b.posicao = a.posicao /\ MesmaMarca(a, b)
    BY <2>3 DEF MesmaMarca, Linhas
  <2> QED BY <2>1, <2>4
<1>2. Separada(a, novo, topico) \in Linhas /\ Separada(a, novo, topico).id = novo
  <2> DEFINE b == SoCom(a, {topico})
             n == a.posicao + 1
  <2>1. b \in Linhas /\ n \in Nat
    BY <1>1, LinhaTipo
  <2> HIDE DEF b, n
  <2>2. [b EXCEPT !.id = novo, !.posicao = n] \in Linhas /\ [b EXCEPT !.id = novo, !.posicao = n].id = novo
    BY <2>1 DEF Linhas
  <2> QED BY <2>2 DEF Separada, b, n
<1> QED BY <1>1, <1>2

\* Splitting a topic off keeps every id and adds at most the new one, which
\* may be marked as the original is.
LEMMA SepararTemaLinhas ==
    ASSUME NEW as, NEW m, DeLinhas(as, m), NEW id \in IdsDe(as), NEW topico \in Topico, NEW novo \in Nat,
           NEW c, \A x : Concluida(m, x) => Concluida(c, x),
           SepararTema(as, id, topico, novo) # as => Concluida(c, novo)
    PROVE  /\ DeLinhas(SepararTema(as, id, topico, novo), c)
           /\ SepararTema(as, id, topico, novo) # as
                 => novo \in IdsDe(SepararTema(as, id, topico, novo))
<1>1. as \in Seq(Marcadas(m))
  BY DEF DeLinhas
<1> DEFINE T == Marcadas(c)
           original == PorID(as, id)
           resto    == original.tema.partes \ {topico}
           empurra(a) == IF a.data = original.data /\ a.posicao > original.posicao
                         THEN [a EXCEPT !.posicao = a.posicao + 1] ELSE a
           ajusta(a) == IF a.id = id THEN SoCom(a, resto) ELSE empurra(a)
           r == [i \in DOMAIN as |-> ajusta(as[i])]
           sep == Separada(original, novo, topico)
<1>2. SepararTema(as, id, topico, novo) = IF resto = {} THEN as ELSE Append(r, sep)
  BY DEF SepararTema, Separada
<1>3. Marcadas(m) \subseteq T
  BY DEF Marcadas
<1>4. as \in Seq(T) /\ Aberta(T) /\ Livre(T)
  <2>1. Aberta(T) /\ Livre(T)
    BY MarcadasAberta
  <2> HIDE DEF T
  <2> QED BY <1>1, <1>3, <2>1, SeqCabe
<1>5. original \in T
  BY <1>4, PorIDTipo
<1>6. original \in Linhas
  <2>1. Marcadas(c) \subseteq Linhas
    BY MarcadasAberta
  <2> QED BY <1>5, <2>1
<1> HIDE DEF original
<1>7. resto \in SUBSET Topico
  BY <1>6 DEF Linhas, Temas
<1> HIDE DEF resto
<1>8. ASSUME NEW i \in DOMAIN as PROVE r[i] \in T
  <2> DEFINE a == as[i]
  <2>1. a \in T
    BY <1>4, LugarEhNumero
  <2> HIDE DEF a
  <2>2. a \in Linhas
    BY <1>4, <2>1 DEF Aberta
  <2>3. SoCom(a, resto) \in T
    <3>1. SoCom(a, resto) \in Linhas /\ MesmaMarca(a, SoCom(a, resto))
      BY <1>6, <1>7, <2>2, SeparadaTipo
    <3> HIDE DEF T
    <3> QED BY <1>4, <2>1, <3>1 DEF Livre
  <2>4. [a EXCEPT !.posicao = a.posicao + 1] \in T
    <3>1. a.posicao + 1 \in Nat
      BY <2>2, LinhaTipo
    <3>2. Solto(T)
      BY <1>4, AbertaSolta
    <3> HIDE DEF T
    <3> QED BY <2>1, <3>1, <3>2 DEF Solto
  <2> HIDE DEF T
  <2>5. ajusta(a) \in T
    BY <2>1, <2>3, <2>4
  <2> HIDE DEF ajusta
  <2> QED BY <2>5 DEF a
<1>9. r \in [DOMAIN as -> T]
  BY <1>8
<1> HIDE DEF r, T
<1>10. r \in Seq(T)
  BY <1>4, <1>9, LugarALugar
<1>11. CASE resto = {}
  <2>1. SepararTema(as, id, topico, novo) \in Seq(T) /\ SepararTema(as, id, topico, novo) = as
    BY <1>2, <1>4, <1>11
  <2> QED BY <2>1 DEF DeLinhas, T
<1>12. CASE resto # {}
  <2>1. SepararTema(as, id, topico, novo) # as
    <3>1. Append(r, sep) # as
      <4>1. DOMAIN r = DOMAIN as
        BY <1>9
      <4> DEFINE U == T \cup {sep}
                 n == Len(r)
                 mais == Append(r, sep)
      <4>2. r \in Seq(U) /\ sep \in U
        BY <1>10, SeqCabe
      <4> HIDE DEF U, sep
      <4>3. n \in Nat /\ DOMAIN r = 1 .. n
        BY <4>2, SeqEhFuncao
      <4>4. mais \in Seq(U) /\ Len(mais) = n + 1
        BY <4>2, AppendProperties
      <4> HIDE DEF mais, n
      <4>5. DOMAIN mais = 1 .. n + 1
        BY <4>4, SeqEhFuncao
      <4>6. n + 1 \in DOMAIN mais /\ n + 1 \notin DOMAIN r
        BY <4>3, <4>5
      <4> QED BY <4>1, <4>6 DEF mais
    <3> QED BY <1>2, <1>12, <3>1
  <2>2. Concluida(c, novo)
    BY <2>1
  <2>3. sep \in Linhas /\ sep.id = novo
    BY <1>6, SeparadaTipo
  <2> HIDE DEF sep
  <2>4. sep \in T
    BY <2>2, <2>3 DEF T, Marcadas
  <2>5. Append(r, sep) \in Seq(T)
    BY <1>10, <2>4
  <2>6. SepararTema(as, id, topico, novo) \in Seq(T)
    BY <1>2, <1>12, <2>5
  <2>7. novo \in IdsDe(Append(r, sep))
    <3> DEFINE n == Len(r)
               mais == Append(r, sep)
    <3>1. n \in Nat
      BY <1>10, LenProperties
    <3>2. mais \in Seq(T) /\ Len(mais) = n + 1 /\ mais[n + 1] = sep
      BY <1>10, <2>4, AppendProperties
    <3> HIDE DEF n, mais
    <3>3. n + 1 \in DOMAIN mais
      BY <3>1, <3>2, SeqEhFuncao
    <3>4. novo \in IdsDe(mais)
      BY <2>3, <3>2, <3>3 DEF IdsDe
    <3> QED BY <3>4 DEF mais
  <2>8. novo \in IdsDe(SepararTema(as, id, topico, novo))
    BY <1>2, <1>12, <2>7
  <2> QED BY <2>6, <2>8 DEF DeLinhas, T
<1> QED BY <1>11, <1>12

-----------------------------------------------------------------------------
(* In order, as a property of a schedule.                                  *)

\* A schedule in order with what is recorded.
EmDia(as, regs, h, destino) ==
    \E feito, ja : as \in Seq(Boas(feito, ja, regs, h, destino))

\* What `emDiaComOEstudado' returns is in order, and marks nothing that was
\* not marked, but what it brings to today, which is concluded.
LEMMA EmDiaBasta ==
    ASSUME NEW as, NEW m, DeLinhas(as, m), NEW cfg, PlanoBom(PlanoDe(cfg)), NEW regs,
           hoje \in Int, cronograma \in Seq(Linhas)
    PROVE  /\ \E c : DeLinhas(emDiaComOEstudado(as, cfg, regs), c)
           /\ EmDia(emDiaComOEstudado(as, cfg, regs), regs, hoje,
                    DiaDoEstudoFeito(PlanoDe(cfg).dias, hoje))
           /\ DeLinhas(as, regs) => DeLinhas(emDiaComOEstudado(as, cfg, regs), regs)
<1> DEFINE novo == emDiaComOEstudado(as, cfg, regs)
           destino == DiaDoEstudoFeito(PlanoDe(cfg).dias, hoje)
           ja == Marcados(as)
<1>1. as \in Seq(Linhas)
  BY DeLinhasTipo
<1>2. \E feito : novo \in Seq(Boas(feito, ja, regs, hoje, destino))
  BY <1>1, EmDiaDeixaEmOrdem
<1>3. PICK feito : novo \in Seq(Boas(feito, ja, regs, hoje, destino))
  BY <1>2
<1> HIDE DEF novo, destino, ja
<1> DEFINE B == Boas(feito, ja, regs, hoje, destino)
<1>4. EmDia(novo, regs, hoje, destino)
  BY <1>3 DEF EmDia
<1>5. \E c : DeLinhas(novo, c)
  <2>1. B \subseteq Linhas
    BY DEF Boas
  <2>2. novo \in Seq(Linhas)
    BY <1>3, <2>1, SeqCabe
  <2> QED BY <2>2, TodasConcluidas
<1>6. ASSUME DeLinhas(as, regs) PROVE DeLinhas(novo, regs)
  <2>1. as \in Seq(Marcadas(regs))
    BY <1>6 DEF DeLinhas
  <2>2. ASSUME NEW i \in DOMAIN as PROVE as[i].antecipada => Concluida(regs, as[i].id)
    <3>1. as[i] \in Marcadas(regs)
      BY <2>1, LugarEhNumero
    <3> QED BY <3>1 DEF Marcadas
  <2>3. \A x \in ja : Concluida(regs, x)
    BY <2>2 DEF ja, Marcados
  <2>4. B \subseteq Marcadas(regs)
    <3>1. ASSUME NEW a \in B PROVE a \in Linhas /\ (a.antecipada => Concluida(regs, a.id))
      <4>1. a \in Linhas /\ EmOrdemComOEstudo(a, feito, ja, regs, hoje, destino)
        BY DEF Boas
      <4>2. a.antecipada => Concluida(regs, a.id) \/ a.id \in ja
        BY <4>1 DEF EmOrdemComOEstudo
      <4> QED BY <2>3, <4>1, <4>2
    <3> QED BY <3>1 DEF Marcadas
  <2> HIDE DEF B
  <2>5. novo \in Seq(Marcadas(regs))
    BY <1>3, <2>4, SeqCabe DEF B
  <2> QED BY <2>5 DEF DeLinhas
<1> QED BY <1>4, <1>5, <1>6 DEF novo, destino

\* Reading a schedule back in order changes none of this.
LEMMA OrdenadaIgual ==
    ASSUME NEW as, NEW m, DeLinhas(as, m), NEW regs, NEW h \in Int, NEW destino \in Int
    PROVE  /\ Gravavel(as, regs) => Gravavel(ordenar(as), regs)
           /\ EmDia(as, regs, h, destino) => EmDia(ordenar(as), regs, h, destino)
           /\ IdsDe(ordenar(as)) = IdsDe(as)
<1> DEFINE n == Len(as)
           r == ordenar(as)
<1>1. as \in Seq(Linhas)
  BY DeLinhasTipo
<1>2. n \in Nat /\ DOMAIN as = 1 .. n
  BY <1>1, SeqEhFuncao
<1>3. Reordena(r, as) /\ ToSet(r) = ToSet(as)
  BY <1>1, ordenarReordena, ordenarGuarda
<1>4. PICK q : /\ Percorre(q, n) /\ DOMAIN r = 1 .. n
              /\ \A k \in 1 .. n : r[k] = as[q[k]]
  BY <1>3 DEF Reordena
<1>5. ASSUME EmDia(as, regs, h, destino) PROVE EmDia(r, regs, h, destino)
  <2>1. PICK feito, ja : as \in Seq(Boas(feito, ja, regs, h, destino))
    BY <1>5 DEF EmDia
  <2>2. Boas(feito, ja, regs, h, destino) \in SUBSET Linhas
    BY DEF Boas
  <2>3. r \in Seq(Boas(feito, ja, regs, h, destino))
    BY <2>1, <2>2, ordenarGuarda
  <2> QED BY <2>3 DEF EmDia
<1>6. ASSUME Gravavel(as, regs) PROVE \A i, j \in DOMAIN r :
         (r[i].data = r[j].data /\ r[i].posicao = r[j].posicao) => i = j
  <2> SUFFICES ASSUME NEW i \in 1 .. n, NEW j \in 1 .. n,
                      r[i].data = r[j].data, r[i].posicao = r[j].posicao
               PROVE  i = j
    BY <1>4
  <2> HIDE DEF n, r
  <2>1. q[i] \in 1 .. n /\ q[j] \in 1 .. n /\ (q[i] = q[j] => i = j)
    BY <1>4 DEF Percorre
  <2>2. r[i] = as[q[i]] /\ r[j] = as[q[j]]
    BY <1>4
  <2>3. q[i] = q[j]
    BY <1>2, <1>6, <2>1, <2>2 DEF Gravavel
  <2> QED BY <2>1, <2>3
<1>7. IdsDe(r) = IdsDe(as)
  <2>1. \A s : IdsDe(s) = {a.id : a \in ToSet(s)}
    BY DEF IdsDe, ToSet
  <2> QED BY <1>3, <2>1
<1> HIDE DEF r
<1>8. Gravavel(as, regs) => Gravavel(r, regs)
  BY <1>6, <1>7 DEF Gravavel
<1> QED BY <1>5, <1>7, <1>8 DEF r

\* With nothing recorded every schedule is in order.
LEMMA NadaLancado ==
    ASSUME NEW as, NEW m, DeLinhas(as, m), NEW regs, DOMAIN regs = {}, NEW h, NEW destino
    PROVE  EmDia(as, regs, h, destino)
<1>1. as \in Seq(Linhas)
  BY DeLinhasTipo
<1>2. ASSUME NEW a \in Linhas PROVE a \in Boas({}, Nat, regs, h, destino)
  <2>1. a.id \in Nat
    BY LinhaTipo
  <2>2. ~Concluida(regs, a.id)
    BY DEF Concluida
  <2>3. EmOrdemComOEstudo(a, {}, Nat, regs, h, destino)
    BY <2>1, <2>2 DEF EmOrdemComOEstudo
  <2> QED BY <2>3 DEF Boas
<1>3. Linhas \subseteq Boas({}, Nat, regs, h, destino)
  BY <1>2
<1>4. as \in Seq(Boas({}, Nat, regs, h, destino))
  BY <1>1, <1>3, SeqCabe
<1> QED BY <1>4 DEF EmDia

\* A day later the schedule is still in order: the day study ahead is written
\* on goes forward, never back.
LEMMA DiaSeguinte ==
    ASSUME NEW dias, DOMAIN dias \subseteq 1 .. Prova, NEW h \in Nat
    PROVE  LET d == DiaDoEstudoFeito(dias, h)
               e == DiaDoEstudoFeito(dias, h + 1)
           IN  d \in Int /\ e \in Int /\ (e # 0 => d # 0 /\ Ate(h, d) <= Ate(h + 1, e))
<1> DEFINE validos == {dt \in DOMAIN dias : DestinoValido(dias, dt)}
           antes  == {dt \in validos : dt <= h}
           depois == {dt \in validos : dt <= h + 1}
           d == DiaDoEstudoFeito(dias, h)
           e == DiaDoEstudoFeito(dias, h + 1)
<1>1. /\ d = IF antes # {} THEN Max(antes) ELSE IF validos # {} THEN Min(validos) ELSE 0
      /\ e = IF depois # {} THEN Max(depois) ELSE IF validos # {} THEN Min(validos) ELSE 0
  BY DEF DiaDoEstudoFeito
<1>2. validos \in SUBSET (1 .. Prova) /\ antes \in SUBSET validos /\ depois \in SUBSET validos
  OBVIOUS
<1>3. \A x \in antes : x <= h
  OBVIOUS
<1> HIDE DEF validos, antes, depois, d, e
<1>4. IsFiniteSet(1 .. Prova) /\ \A x \in 1 .. Prova : x \in Int /\ x >= 1
  BY Calendario, AteFinito
<1>5. /\ validos \in SUBSET Int /\ IsFiniteSet(validos)
      /\ antes \in SUBSET Int /\ IsFiniteSet(antes)
      /\ depois \in SUBSET Int /\ IsFiniteSet(depois)
  BY <1>2, <1>4, FS_Subset
<1>6. antes # {} => Max(antes) \in antes
  BY <1>5, MaiorDeTodos
<1>7. depois # {} => Max(depois) \in depois
  BY <1>5, MaiorDeTodos
<1>8. validos # {} => Min(validos) \in validos /\ \A y \in validos : Min(validos) <= y
  BY <1>5, MenorDeTodos
<1>9. CASE validos = {}
  <2>1. d = 0 /\ e = 0
    BY <1>1, <1>2, <1>9
  <2> QED BY <2>1 DEF d, e
<1>10. CASE validos # {}
  <2>1. e \in validos
    BY <1>1, <1>2, <1>7, <1>8, <1>10
  <2>2. e \in Int
    BY <1>5, <2>1
  <2>3. Ate(h + 1, e) \in Int /\ Ate(h + 1, e) >= h + 1 /\ Ate(h + 1, e) >= e
    BY <2>2 DEF Ate
  <2>4. CASE antes # {}
    <3>1. d \in antes
      BY <1>1, <1>6, <2>4
    <3>2. d \in Int /\ d <= h /\ d >= 1
      BY <1>2, <1>3, <1>4, <3>1
    <3>3. Ate(h, d) = h
      BY <3>2 DEF Ate
    <3>4. Ate(h, d) <= Ate(h + 1, e)
      BY <2>3, <3>3
    <3>5. d # 0
      BY <3>2
    <3> QED BY <2>2, <3>2, <3>4, <3>5 DEF d, e
  <2>5. CASE antes = {}
    <3>1. d = Min(validos)
      BY <1>1, <1>10, <2>5
    <3>2. d \in validos /\ d <= e
      BY <1>8, <1>10, <2>1, <3>1
    <3>3. d \in Int /\ d >= 1
      BY <1>2, <1>4, <3>2
    <3>4. Ate(h, d) <= Ate(h + 1, e)
      BY <2>2, <2>3, <3>2, <3>3 DEF Ate
    <3>5. d # 0
      BY <3>3
    <3> QED BY <2>2, <3>3, <3>4, <3>5 DEF d, e
  <2> QED BY <2>4, <2>5
<1> QED BY <1>9, <1>10

-----------------------------------------------------------------------------
(* No id and no place twice.                                               *)

\* No two rows of the list have the same id.
SemRepetir(as) == \A i, j \in DOMAIN as : as[i].id = as[j].id => i = j

\* No two rows share a place in a day.
SemColisao(as) ==
    \A i, j \in DOMAIN as : as[i].data = as[j].data /\ as[i].posicao = as[j].posicao => i = j

\* What the database accepts.
LEMMA GravavelDiz ==
    ASSUME NEW as, NEW regs
    PROVE  Gravavel(as, regs) <=> SemColisao(as) /\ DOMAIN regs \subseteq IdsDe(as)
BY DEF Gravavel, SemColisao

\* The places of two lists joined.
LEMMA LugaresJuntos ==
    ASSUME NEW T, NEW s \in Seq(T), NEW t \in Seq(T)
    PROVE  /\ \A i \in DOMAIN s : i \in DOMAIN (s \o t) /\ (s \o t)[i] = s[i]
           /\ \A j \in DOMAIN t : Len(s) + j \in DOMAIN (s \o t) /\ (s \o t)[Len(s) + j] = t[j]
           /\ \A i \in DOMAIN (s \o t) : \/ i \in DOMAIN s
                                         \/ \E j \in DOMAIN t : i = Len(s) + j
<1>1. /\ Len(s) \in Nat /\ DOMAIN s = 1 .. Len(s)
      /\ Len(t) \in Nat /\ DOMAIN t = 1 .. Len(t)
  BY SeqEhFuncao
<1>2. /\ s \o t \in Seq(T) /\ Len(s \o t) = Len(s) + Len(t)
      /\ \A i \in 1 .. Len(s) + Len(t) :
            (s \o t)[i] = IF i <= Len(s) THEN s[i] ELSE t[i - Len(s)]
  BY ConcatProperties
<1>3. DOMAIN (s \o t) = 1 .. Len(s) + Len(t)
  BY <1>2, SeqEhFuncao
<1> DEFINE n == Len(s)
           m == Len(t)
           st == s \o t
<1> HIDE DEF n, m, st
<1>4. /\ n \in Nat /\ m \in Nat /\ DOMAIN s = 1 .. n /\ DOMAIN t = 1 .. m /\ DOMAIN st = 1 .. n + m
      /\ \A i \in 1 .. n + m : st[i] = IF i <= n THEN s[i] ELSE t[i - n]
  BY <1>1, <1>2, <1>3 DEF n, m, st
<1>5. ASSUME NEW i \in 1 .. n PROVE i \in 1 .. n + m /\ st[i] = s[i]
  BY <1>4
<1>6. ASSUME NEW j \in 1 .. m PROVE n + j \in 1 .. n + m /\ st[n + j] = t[j]
  <2>1. n + j \in 1 .. n + m /\ ~(n + j <= n) /\ (n + j) - n = j
    BY <1>4
  <2> QED BY <1>4, <2>1
<1>7. ASSUME NEW i \in 1 .. n + m PROVE i \in 1 .. n \/ \E j \in 1 .. m : i = n + j
  <2>1. CASE i <= n
    BY <1>4, <2>1
  <2>2. CASE ~(i <= n)
    <3>1. i - n \in 1 .. m /\ i = n + (i - n)
      BY <1>4, <2>2
    <3> QED BY <3>1
  <2> QED BY <2>1, <2>2
<1> QED BY <1>4, <1>5, <1>6, <1>7 DEF n, st

\* Two lists with no id in common, joined, repeat none.
LEMMA JuntaSemRepetir ==
    ASSUME NEW T, NEW s \in Seq(T), NEW t \in Seq(T)
    PROVE  /\ IdsDe(s \o t) = IdsDe(s) \cup IdsDe(t)
           /\ SemRepetir(s) /\ SemRepetir(t) /\ IdsDe(s) \cap IdsDe(t) = {} => SemRepetir(s \o t)
<1> DEFINE st == s \o t
           n == Len(s)
<1>1. /\ \A i \in DOMAIN s : i \in DOMAIN st /\ st[i] = s[i]
      /\ \A j \in DOMAIN t : n + j \in DOMAIN st /\ st[n + j] = t[j]
      /\ \A i \in DOMAIN st : i \in DOMAIN s \/ \E j \in DOMAIN t : i = n + j
  BY LugaresJuntos
<1> HIDE DEF st, n
<1>2. IdsDe(st) = IdsDe(s) \cup IdsDe(t)
  BY <1>1 DEF IdsDe
<1>3. ASSUME SemRepetir(s), SemRepetir(t), IdsDe(s) \cap IdsDe(t) = {},
             NEW i \in DOMAIN st, NEW k \in DOMAIN st, st[i].id = st[k].id
      PROVE  i = k
  <2>1. ASSUME NEW x \in DOMAIN s, NEW y \in DOMAIN t PROVE s[x].id # t[y].id
    BY <1>3 DEF IdsDe
  <2>2. CASE i \in DOMAIN s /\ k \in DOMAIN s
    BY <1>1, <1>3, <2>2 DEF SemRepetir
  <2>3. CASE i \in DOMAIN s /\ \E y \in DOMAIN t : k = n + y
    BY <1>1, <1>3, <2>1, <2>3
  <2>4. CASE k \in DOMAIN s /\ \E y \in DOMAIN t : i = n + y
    BY <1>1, <1>3, <2>1, <2>4
  <2>5. CASE (\E x \in DOMAIN t : i = n + x) /\ (\E y \in DOMAIN t : k = n + y)
    <3>1. PICK x \in DOMAIN t, y \in DOMAIN t : i = n + x /\ k = n + y
      BY <2>5
    <3>2. t[x].id = t[y].id
      BY <1>1, <1>3, <3>1
    <3>3. x = y
      BY <1>3, <3>2 DEF SemRepetir
    <3> QED BY <3>1, <3>3
  <2> QED BY <1>1, <2>2, <2>3, <2>4, <2>5
<1> QED BY <1>2, <1>3 DEF SemRepetir, st

\* The two rows are in one place.
MesmoLugar(a, b) == a.data = b.data /\ a.posicao = b.posicao

\* Two lists with no place in common, joined, repeat none.
LEMMA JuntaSemColisao ==
    ASSUME NEW T, NEW s \in Seq(T), NEW t \in Seq(T), SemColisao(s), SemColisao(t),
           \A x \in DOMAIN s, y \in DOMAIN t : ~MesmoLugar(s[x], t[y])
    PROVE  SemColisao(s \o t)
<1> DEFINE st == s \o t
           n == Len(s)
<1>1. /\ \A i \in DOMAIN s : i \in DOMAIN st /\ st[i] = s[i]
      /\ \A j \in DOMAIN t : n + j \in DOMAIN st /\ st[n + j] = t[j]
      /\ \A i \in DOMAIN st : i \in DOMAIN s \/ \E j \in DOMAIN t : i = n + j
  BY LugaresJuntos
<1> HIDE DEF st, n
<1>2. ASSUME NEW i \in DOMAIN st, NEW k \in DOMAIN st, MesmoLugar(st[i], st[k])
      PROVE  i = k
  <2>1. ASSUME NEW x \in DOMAIN s, NEW y \in DOMAIN t
        PROVE  ~MesmoLugar(s[x], t[y]) /\ ~MesmoLugar(t[y], s[x])
    BY DEF MesmoLugar
  <2>2. CASE i \in DOMAIN s /\ k \in DOMAIN s
    BY <1>1, <1>2, <2>2 DEF SemColisao, MesmoLugar
  <2>3. CASE i \in DOMAIN s /\ \E y \in DOMAIN t : k = n + y
    BY <1>1, <1>2, <2>1, <2>3
  <2>4. CASE k \in DOMAIN s /\ \E y \in DOMAIN t : i = n + y
    BY <1>1, <1>2, <2>1, <2>4
  <2>5. CASE (\E x \in DOMAIN t : i = n + x) /\ (\E y \in DOMAIN t : k = n + y)
    <3>1. PICK x \in DOMAIN t, y \in DOMAIN t : i = n + x /\ k = n + y
      BY <2>5
    <3>2. MesmoLugar(t[x], t[y])
      BY <1>1, <1>2, <3>1
    <3>3. x = y
      BY <3>2 DEF SemColisao, MesmoLugar
    <3> QED BY <3>1, <3>3
  <2> QED BY <1>1, <2>2, <2>3, <2>4, <2>5
<1> QED BY <1>2 DEF SemColisao, MesmoLugar, st

\* `r' is made of places of `fila', each taken once.
Escolhe(r, fila, escolha) ==
    \E q : /\ q \in [DOMAIN r -> escolha]
           /\ \A k \in DOMAIN r : r[k] = fila[q[k]]
           /\ \A j, k \in DOMAIN r : q[j] = q[k] => j = k
           /\ \A i \in escolha : \E k \in DOMAIN r : q[k] = i

\* Filtering takes each chosen place once.
LEMMA SubFilaEscolhe ==
    ASSUME NEW T, NEW fila \in Seq(T), NEW escolha \in SUBSET DOMAIN fila
    PROVE  Escolhe(SubFila(fila, escolha), fila, escolha)
<1> DEFINE q == EmSequencia(escolha)
           r == SubFila(fila, escolha)
<1>1. escolha \in SUBSET Int /\ IsFiniteSet(escolha)
  <2>1. IsFiniteSet(escolha)
    BY PartesFinitas
  <2>2. DOMAIN fila = 1 .. Len(fila)
    BY SeqEhFuncao
  <2> QED BY <2>1, <2>2
<1>2. q \in Seq(escolha) /\ ToSet(q) = escolha
  BY <1>1, EmSequenciaTodos
<1>3. \A j, k \in DOMAIN q : q[j] = q[k] => j = k
  BY <1>1, EmSequenciaUmaVez
<1>4. r = [k \in DOMAIN q |-> fila[q[k]]]
  BY DEF SubFila
<1> HIDE DEF q, r
<1>5. \A k \in DOMAIN q : q[k] \in escolha
  BY <1>2, LugarEhNumero
<1>6. \A i \in escolha : \E k \in DOMAIN q : q[k] = i
  BY <1>2 DEF ToSet
<1>7. q \in [DOMAIN r -> escolha]
  <2>1. q \in [DOMAIN q -> escolha]
    BY <1>2, <1>5, SeqEhFuncao
  <2>2. DOMAIN r = DOMAIN q
    BY <1>4
  <2> QED BY <2>1, <2>2
<1>8. Escolhe(r, fila, escolha)
  BY <1>3, <1>4, <1>6, <1>7 DEF Escolhe
<1> QED BY <1>8 DEF r

\* What is made of places taken once repeats nothing.
LEMMA EscolheUmaVez ==
    ASSUME NEW fila, NEW escolha \in SUBSET DOMAIN fila, NEW r, Escolhe(r, fila, escolha)
    PROVE  /\ IdsDe(r) = {fila[i].id : i \in escolha}
           /\ SemRepetir(fila) => SemRepetir(r)
           /\ SemColisao(fila) => SemColisao(r)
<1>1. PICK q : /\ q \in [DOMAIN r -> escolha]
               /\ \A k \in DOMAIN r : r[k] = fila[q[k]]
               /\ \A j, k \in DOMAIN r : q[j] = q[k] => j = k
               /\ \A i \in escolha : \E k \in DOMAIN r : q[k] = i
  BY DEF Escolhe
<1>2. IdsDe(r) = {fila[i].id : i \in escolha}
  BY <1>1 DEF IdsDe
<1>3. ASSUME SemRepetir(fila) PROVE SemRepetir(r)
  BY <1>1, <1>3 DEF SemRepetir
<1>4. ASSUME SemColisao(fila) PROVE SemColisao(r)
  BY <1>1, <1>4 DEF SemColisao
<1> QED BY <1>2, <1>3, <1>4

\* What is kept of a list repeats neither id nor place.
LEMMA SubFilaUmaVez ==
    ASSUME NEW T, NEW fila \in Seq(T), NEW escolha \in SUBSET DOMAIN fila
    PROVE  /\ IdsDe(SubFila(fila, escolha)) = {fila[i].id : i \in escolha}
           /\ SemRepetir(fila) => SemRepetir(SubFila(fila, escolha))
           /\ SemColisao(fila) => SemColisao(SubFila(fila, escolha))
BY SubFilaEscolhe, EscolheUmaVez

\* Neither does the list in order.
LEMMA ordenarUmaVez ==
    ASSUME NEW as \in Seq(Linhas)
    PROVE  /\ ordenar(as) \in Seq(Linhas) /\ ToSet(ordenar(as)) = ToSet(as)
           /\ IdsDe(ordenar(as)) = IdsDe(as)
           /\ SemRepetir(as) => SemRepetir(ordenar(as))
           /\ SemColisao(as) => SemColisao(ordenar(as))
<1>1. Reordena(ordenar(as), as) /\ ordenar(as) \in Seq(Linhas) /\ ToSet(ordenar(as)) = ToSet(as)
  BY ordenarReordena, ordenarGuarda
<1> DEFINE r == ordenar(as)
<1> HIDE DEF r
<1>2. PICK q : /\ Percorre(q, Len(as)) /\ DOMAIN r = 1 .. Len(as)
               /\ \A k \in 1 .. Len(as) : r[k] = as[q[k]]
  BY <1>1 DEF Reordena, r
<1>3. DOMAIN as = 1 .. Len(as)
  BY SeqEhFuncao
<1>4. Escolhe(r, as, DOMAIN as)
  <2>1. /\ q \in [DOMAIN r -> DOMAIN as]
        /\ \A i \in DOMAIN as : \E k \in DOMAIN r : q[k] = i
        /\ \A j, k \in DOMAIN r : q[j] = q[k] => j = k
    BY <1>2, <1>3 DEF Percorre
  <2>2. \A k \in DOMAIN r : r[k] = as[q[k]]
    BY <1>2
  <2> QED BY <2>1, <2>2 DEF Escolhe
<1>5. IdsDe(r) = {as[i].id : i \in DOMAIN as}
  BY <1>4, EscolheUmaVez
<1>6. IdsDe(r) = IdsDe(as)
  BY <1>5 DEF IdsDe
<1> QED BY <1>1, <1>4, <1>6, EscolheUmaVez DEF r

\* Place by place the rows keep their ids.
MesmosIds(r, as) == DOMAIN r = DOMAIN as /\ \A i \in DOMAIN as : r[i].id = as[i].id

\* Then so does the list.
LEMMA MesmosIdsUmaVez ==
    ASSUME NEW r, NEW as, MesmosIds(r, as)
    PROVE  IdsDe(r) = IdsDe(as) /\ (SemRepetir(as) => SemRepetir(r))
BY DEF MesmosIds, IdsDe, SemRepetir

\* And when they keep their places too, no place is repeated.
LEMMA MesmosLugares ==
    ASSUME NEW r, NEW as, DOMAIN r = DOMAIN as, SemColisao(as),
           \A i \in DOMAIN as : MesmoLugar(r[i], as[i])
    PROVE  SemColisao(r)
BY DEF SemColisao, MesmoLugar

\* The places of a day that come before the i-th of the list.
Atras(as, i) ==
    {j \in DOMAIN as : /\ as[j].data = as[i].data
                       /\ \/ as[j].posicao < as[i].posicao
                          \/ as[j].posicao = as[i].posicao /\ j < i}

Numeravel(as) ==
    /\ IsFiniteSet(DOMAIN as)
    /\ \A i \in DOMAIN as : i \in Nat /\ as[i].posicao \in Int

\* Coming before, for three places and for two.
LEMMA AntesDeAntes ==
    ASSUME NEW x \in Int, NEW y \in Int, NEW z \in Int, NEW i \in Nat, NEW j \in Nat, NEW k \in Nat,
           x < y \/ (x = y /\ i < j), y < z \/ (y = z /\ j < k)
    PROVE  x < z \/ (x = z /\ i < k)
OBVIOUS

\* Two places are before one another one way or the other, none before itself.
LEMMA UmAntes ==
    ASSUME NEW x \in Int, NEW y \in Int, NEW i \in Nat, NEW j \in Nat
    PROVE  /\ i # j => x < y \/ (x = y /\ i < j) \/ y < x \/ (y = x /\ j < i)
           /\ ~(x < x \/ (x = x /\ i < i))
OBVIOUS

\* Of two places of a day, the one that comes before has fewer before it.
LEMMA AtrasMenor ==
    ASSUME NEW as, Numeravel(as), NEW i \in DOMAIN as, NEW j \in DOMAIN as, i \in Atras(as, j)
    PROVE  Cardinality(Atras(as, i)) # Cardinality(Atras(as, j))
<1> DEFINE A == Atras(as, i)
           B == Atras(as, j)
<1>1. \A k \in DOMAIN as : k \in Nat /\ as[k].posicao \in Int
  BY DEF Numeravel
<1>2. A \subseteq B
  <2>1. ASSUME NEW k \in A PROVE k \in B
    <3>1. /\ k \in DOMAIN as /\ as[k].data = as[i].data /\ as[i].data = as[j].data
          /\ as[k].posicao < as[i].posicao \/ (as[k].posicao = as[i].posicao /\ k < i)
          /\ as[i].posicao < as[j].posicao \/ (as[i].posicao = as[j].posicao /\ i < j)
      BY <2>1 DEF Atras
    <3>2. as[k].posicao < as[j].posicao \/ (as[k].posicao = as[j].posicao /\ k < j)
      <4>1. /\ as[k].posicao \in Int /\ as[i].posicao \in Int /\ as[j].posicao \in Int
            /\ k \in Nat /\ i \in Nat /\ j \in Nat
        BY <1>1, <3>1
      <4> DEFINE x == as[k].posicao
                 y == as[i].posicao
                 z == as[j].posicao
      <4> HIDE DEF x, y, z
      <4>2. /\ x \in Int /\ y \in Int /\ z \in Int
            /\ x < y \/ (x = y /\ k < i)
            /\ y < z \/ (y = z /\ i < j)
        BY <3>1, <4>1 DEF x, y, z
      <4>3. x < z \/ (x = z /\ k < j)
        BY <4>1, <4>2, AntesDeAntes
      <4> QED BY <4>3 DEF x, z
    <3> QED BY <3>1, <3>2 DEF Atras
  <2> QED BY <2>1
<1>3. i \in B /\ i \notin A
  <2>1. ~(as[i].posicao < as[i].posicao \/ (as[i].posicao = as[i].posicao /\ i < i))
    BY <1>1, UmAntes
  <2> QED BY <2>1 DEF Atras
<1>4. IsFiniteSet(B)
  <2>1. B \in SUBSET DOMAIN as
    BY DEF Atras
  <2> QED BY <2>1, FS_Subset DEF Numeravel
<1> HIDE DEF A, B
<1>5. Cardinality(B) = Cardinality(A) => B = A
  BY <1>2, <1>4, FS_Subset
<1>6. Cardinality(A) # Cardinality(B)
  BY <1>3, <1>5
<1> QED BY <1>6 DEF A, B

\* Two places of a day with as many before them are one.
LEMMA AtrasIgual ==
    ASSUME NEW as, Numeravel(as), NEW i \in DOMAIN as, NEW j \in DOMAIN as, as[i].data = as[j].data,
           Cardinality(Atras(as, i)) = Cardinality(Atras(as, j))
    PROVE  i = j
<1>1. i # j => \/ as[i].posicao < as[j].posicao \/ (as[i].posicao = as[j].posicao /\ i < j)
               \/ as[j].posicao < as[i].posicao \/ (as[j].posicao = as[i].posicao /\ j < i)
  BY UmAntes DEF Numeravel
<1>2. i \in Atras(as, j) \/ j \in Atras(as, i) \/ i = j
  BY <1>1 DEF Atras
<1> QED BY <1>2, AtrasMenor

\* Numbering the places of some days leaves none repeated, if none was on the
\* other days; ids and days stay.
LEMMA renumerarLugares ==
    ASSUME NEW as \in Seq(Linhas), NEW dias,
           \A i, j \in DOMAIN as : as[i].data \notin dias /\ MesmoLugar(as[i], as[j]) => i = j
    PROVE  /\ SemColisao(renumerar(as, dias)) /\ MesmosIds(renumerar(as, dias), as)
           /\ \A i \in DOMAIN as : renumerar(as, dias)[i].data = as[i].data
<1> DEFINE D == DOMAIN as
           n(i) == Cardinality(Atras(as, i))
           r == renumerar(as, dias)
<1>1. ASSUME NEW i \in DOMAIN as
      PROVE  i \in Nat /\ as[i].data \in Int /\ as[i].posicao \in Int /\ as[i] \in Linhas
  <2>1. i \in Nat /\ as[i] \in Linhas
    BY LugarEhNumero
  <2> QED BY <2>1, LinhaTipo
<1>3. r = [i \in D |-> IF as[i].data \in dias THEN [as[i] EXCEPT !.posicao = n(i)] ELSE as[i]]
  BY DEF renumerar, Atras
<1>4. Numeravel(as)
  <2>1. IsFiniteSet(D)
    BY PartesFinitas
  <2> QED BY <1>1, <2>1 DEF Numeravel
<1> HIDE DEF r
<1>6. ASSUME NEW i \in D, NEW j \in D, as[i].data = as[j].data, n(i) = n(j)
      PROVE  i = j
  BY <1>4, <1>6, AtrasIgual
<1> HIDE DEF n
<1>7. ASSUME NEW i \in D
      PROVE  /\ r[i].id = as[i].id /\ r[i].data = as[i].data
             /\ r[i].posicao = IF as[i].data \in dias THEN n(i) ELSE as[i].posicao
  <2>1. as[i] \in Linhas
    BY <1>1
  <2>2. r[i] = IF as[i].data \in dias THEN [as[i] EXCEPT !.posicao = n(i)] ELSE as[i]
    BY <1>3
  <2> QED BY <2>1, <2>2 DEF Linhas
<1>8. DOMAIN r = D
  BY <1>3
<1>9. ASSUME NEW i \in D, NEW j \in D, r[i].data = r[j].data, r[i].posicao = r[j].posicao
      PROVE  i = j
  <2>1. as[i].data = as[j].data
    BY <1>7, <1>9
  <2>2. CASE as[i].data \in dias
    <3>1. n(i) = n(j)
      BY <1>7, <1>9, <2>1, <2>2
    <3> QED BY <1>6, <2>1, <3>1
  <2>3. CASE as[i].data \notin dias
    <3>1. r[i].posicao = as[i].posicao /\ r[j].posicao = as[j].posicao
      BY <1>7, <2>1, <2>3
    <3> QED BY <1>9, <2>1, <2>3, <3>1 DEF MesmoLugar
  <2> QED BY <2>2, <2>3
<1>10. SemColisao(r)
  BY <1>8, <1>9 DEF SemColisao
<1>11. MesmosIds(r, as)
  BY <1>7, <1>8 DEF MesmosIds
<1> QED BY <1>7, <1>10, <1>11 DEF r

\* Rows numbered one after another share no place.
LEMMA Numeradas ==
    ASSUME NEW r, NEW base \in Int,
           \A k \in DOMAIN r : k \in Nat /\ r[k].posicao = base + k - 1
    PROVE  SemColisao(r)
<1>1. ASSUME NEW i \in DOMAIN r, NEW j \in DOMAIN r, r[i].posicao = r[j].posicao PROVE i = j
  <2>1. base + i - 1 = base + j - 1 /\ i \in Nat /\ j \in Nat
    BY <1>1
  <2> QED BY <2>1
<1> QED BY <1>1 DEF SemColisao

\* Numbering a list in its order.
LEMMA EmOrdemLugares ==
    ASSUME NEW as \in Seq(Linhas)
    PROVE  /\ SemColisao(EmOrdem(as)) /\ MesmosIds(EmOrdem(as), as)
           /\ \A k \in DOMAIN as : /\ EmOrdem(as)[k].data = as[k].data
                                   /\ EmOrdem(as)[k].posicao = k - 1
<1> DEFINE r == EmOrdem(as)
<1>1. r = [i \in DOMAIN as |-> [as[i] EXCEPT !.posicao = i - 1]]
  BY DEF EmOrdem
<1> HIDE DEF r
<1>2. ASSUME NEW i \in DOMAIN as
      PROVE  r[i].id = as[i].id /\ r[i].data = as[i].data /\ r[i].posicao = i - 1 /\ i \in Nat
  <2>1. as[i] \in Linhas /\ i \in Nat
    BY LugarEhNumero
  <2>2. r[i] = [as[i] EXCEPT !.posicao = i - 1]
    BY <1>1
  <2> QED BY <2>1, <2>2 DEF Linhas
<1>3. DOMAIN r = DOMAIN as
  BY <1>1
<1>4. \A k \in DOMAIN r : k \in Nat /\ r[k].posicao = 0 + k - 1
  <2>1. \A k \in Nat : 0 + k - 1 = k - 1
    OBVIOUS
  <2> QED BY <1>2, <1>3, <2>1
<1>5. SemColisao(r)
  BY <1>4, Numeradas
<1>6. MesmosIds(r, as)
  BY <1>2, <1>3 DEF MesmosIds
<1> QED BY <1>2, <1>5, <1>6 DEF r

\* Putting a list on one day, in its order.
LEMMA NoDiaLugares ==
    ASSUME NEW as \in Seq(Linhas), NEW dt, NEW base \in Nat
    PROVE  /\ SemColisao(NoDia(as, dt, base)) /\ MesmosIds(NoDia(as, dt, base), as)
           /\ \A k \in DOMAIN as : /\ NoDia(as, dt, base)[k].data = dt
                                   /\ NoDia(as, dt, base)[k].posicao = base + k - 1
<1> DEFINE r == NoDia(as, dt, base)
<1>1. r = [k \in DOMAIN as |-> [as[k] EXCEPT !.data = dt, !.posicao = base + k - 1]]
  BY DEF NoDia
<1> HIDE DEF r
<1>2. ASSUME NEW i \in DOMAIN as
      PROVE  r[i].id = as[i].id /\ r[i].data = dt /\ r[i].posicao = base + i - 1 /\ i \in Nat
  <2>1. as[i] \in Linhas /\ i \in Nat
    BY LugarEhNumero
  <2>2. r[i] = [as[i] EXCEPT !.data = dt, !.posicao = base + i - 1]
    BY <1>1
  <2> QED BY <2>1, <2>2 DEF Linhas
<1>3. DOMAIN r = DOMAIN as
  BY <1>1
<1>4. \A k \in DOMAIN r : k \in Nat /\ r[k].posicao = base + k - 1
  BY <1>2, <1>3
<1>6. SemColisao(r)
  BY <1>4, Numeradas
<1>5. MesmosIds(r, as)
  BY <1>2, <1>3 DEF MesmosIds
<1> QED BY <1>2, <1>5, <1>6 DEF r

\* The rows of one day.
LEMMA doDiaUmaVez ==
    ASSUME NEW as \in Seq(Linhas), NEW dt
    PROVE  /\ doDia(as, dt) \in Seq(Linhas)
           /\ \A k \in DOMAIN doDia(as, dt) : doDia(as, dt)[k].data = dt
           /\ IdsDe(doDia(as, dt)) = {as[i].id : i \in {k \in DOMAIN as : as[k].data = dt}}
           /\ SemRepetir(as) => SemRepetir(doDia(as, dt))
<1> DEFINE E == {i \in DOMAIN as : as[i].data = dt}
           f == SubFila(as, E)
<1>1. doDia(as, dt) = ordenar(f)
  BY DEF doDia
<1>2. /\ f \in Seq(Linhas)
      /\ IdsDe(f) = {as[i].id : i \in E}
      /\ SemRepetir(as) => SemRepetir(f)
  BY SubFilaDoLugar, SubFilaUmaVez
<1>3. doDia(as, dt) \in Seq(Linhas) /\ \A a \in ToSet(doDia(as, dt)) : a.data = dt
  BY doDiaTipo
<1> HIDE DEF f
<1>4. IdsDe(ordenar(f)) = IdsDe(f) /\ (SemRepetir(f) => SemRepetir(ordenar(f)))
  BY <1>2, ordenarUmaVez
<1>5. \A k \in DOMAIN doDia(as, dt) : doDia(as, dt)[k].data = dt
  BY <1>3 DEF ToSet
<1> QED BY <1>1, <1>2, <1>3, <1>4, <1>5

\* Counting the same numbers from further on.
LEMMA ContaAdiante ==
    ASSUME NEW n \in Nat, NEW B \in SUBSET Nat, IsFiniteSet(B)
    PROVE  IsFiniteSet({n + j : j \in B}) /\ Cardinality({n + j : j \in B}) = Cardinality(B)
<1> DEFINE C == {n + j : j \in B}
           f == [j \in B |-> n + j]
<1>1. \A i, j \in B : n + i = n + j => i = j
  OBVIOUS
<1>2. f \in Bijection(B, C)
  <2>1. f \in [B -> C] /\ \A c \in C : \E j \in B : f[j] = c
    OBVIOUS
  <2>2. \A i, j \in B : f[i] = f[j] => i = j
    BY <1>1
  <2> HIDE DEF f, C
  <2> QED BY <2>1, <2>2 DEF Bijection, Injection, Surjection, IsInjective
<1>3. ExistsBijection(B, C)
  BY <1>2 DEF ExistsBijection
<1> HIDE DEF C
<1>4. IsFiniteSet(C) /\ Cardinality(C) = Cardinality(B)
  BY <1>3, FS_Bijection
<1> QED BY <1>4 DEF C

\* The loads of two lists add up.
LEMMA CargaJunta ==
    ASSUME NEW T, NEW s \in Seq(T), NEW t \in Seq(T), NEW dt
    PROVE  CargaNoDia(s \o t, dt) = CargaNoDia(s, dt) + CargaNoDia(t, dt)
<1> DEFINE st == s \o t
           n == Len(s)
           A == {i \in DOMAIN s : s[i].data = dt}
           B == {j \in DOMAIN t : t[j].data = dt}
           C == {n + j : j \in B}
           X == {i \in DOMAIN st : st[i].data = dt}
<1>1. /\ \A i \in DOMAIN s : i \in DOMAIN st /\ st[i] = s[i]
      /\ \A j \in DOMAIN t : n + j \in DOMAIN st /\ st[n + j] = t[j]
      /\ \A i \in DOMAIN st : i \in DOMAIN s \/ \E j \in DOMAIN t : i = n + j
  BY LugaresJuntos
<1>2. n \in Nat /\ DOMAIN s = 1 .. n /\ DOMAIN t \subseteq Nat \ {0}
  BY SeqEhFuncao
<1>3. IsFiniteSet(A) /\ IsFiniteSet(B) /\ Cardinality(A) \in Nat /\ Cardinality(B) \in Nat
  BY PartesFinitas
<1> HIDE DEF st, n
<1>4. X = A \cup C
  BY <1>1
<1>5. A \cap C = {}
  <2>1. ASSUME NEW j \in DOMAIN t PROVE n + j \notin 1 .. n
    <3>1. j \in Nat \ {0}
      BY <1>2
    <3> QED BY <1>2, <3>1
  <2> QED BY <1>2, <2>1
<1>6. IsFiniteSet(C) /\ Cardinality(C) = Cardinality(B)
  <2>1. B \in SUBSET Nat
    BY <1>2
  <2> HIDE DEF B
  <2> QED BY <1>2, <1>3, <2>1, ContaAdiante
<1>7. CargaNoDia(st, dt) = Cardinality(X) /\ CargaNoDia(s, dt) = Cardinality(A)
      /\ CargaNoDia(t, dt) = Cardinality(B)
  BY DEF CargaNoDia
<1> HIDE DEF A, B, C, X
<1>8. Cardinality(X) = Cardinality(A) + Cardinality(C) - Cardinality(A \cap C)
  BY <1>3, <1>4, <1>6, FS_Union
<1>9. Cardinality(A \cap C) = 0
  BY <1>5, FS_EmptySet
<1> QED BY <1>3, <1>6, <1>7, <1>8, <1>9 DEF st

\* A list that lies all on one day is the load of that day.
LEMMA CargaDoDia ==
    ASSUME NEW T, NEW t \in Seq(T), NEW dt, \A k \in DOMAIN t : t[k].data = dt
    PROVE  CargaNoDia(t, dt) = Len(t)
<1>1. {i \in DOMAIN t : t[i].data = dt} = 1 .. Len(t) /\ Len(t) \in Nat
  BY SeqEhFuncao
<1> QED BY <1>1, AteFinito DEF CargaNoDia

-----------------------------------------------------------------------------
(* Packing repeats no id and no place.                                     *)

\* On the days `dias' the rows are numbered below the load.
Densa(as, dias) ==
    \A i \in DOMAIN as : as[i].data \in dias => as[i].posicao < CargaNoDia(as, as[i].data)

\* A list numbered on a day, from `base' on.
NumeradaNoDia(t, dt, base) ==
    \A k \in DOMAIN t : t[k].data = dt /\ t[k].posicao = base + k - 1

\* Rows numbered after what a day has make no collision there.
LEMMA JuntaNoDia ==
    ASSUME NEW s \in Seq(Linhas), NEW t \in Seq(Linhas), NEW dias, NEW dt, NEW base \in Nat,
           SemColisao(s), Densa(s, dias), NumeradaNoDia(t, dt, base),
           base <= CargaNoDia(s, dt),
           \A i \in DOMAIN s : s[i].data = dt => s[i].posicao < base
    PROVE  SemColisao(s \o t) /\ Densa(s \o t, dias)
<1>1. /\ \A i \in DOMAIN s : s[i].posicao \in Int
      /\ \A k \in DOMAIN t : k \in Nat /\ k \in 1 .. Len(t) /\ Len(t) \in Nat
  <2>1. ASSUME NEW i \in DOMAIN s PROVE s[i].posicao \in Int
    <3>1. s[i] \in Linhas
      BY LugarEhNumero
    <3> QED BY <3>1, LinhaTipo
  <2>2. ASSUME NEW k \in DOMAIN t PROVE k \in Nat /\ k \in 1 .. Len(t) /\ Len(t) \in Nat
    BY LugarEhNumero, SeqEhFuncao
  <2> QED BY <2>1, <2>2
<1>2. SemColisao(t)
  <2>1. \A k \in DOMAIN t : k \in Nat /\ t[k].posicao = base + k - 1
    BY <1>1 DEF NumeradaNoDia
  <2> QED BY <2>1, Numeradas
<1>3. ASSUME NEW x \in DOMAIN s, NEW y \in DOMAIN t PROVE ~MesmoLugar(s[x], t[y])
  <2> SUFFICES ASSUME MesmoLugar(s[x], t[y]) PROVE FALSE
    OBVIOUS
  <2>1. s[x].data = dt /\ s[x].posicao = base + y - 1
    BY DEF MesmoLugar, NumeradaNoDia
  <2>2. base + y - 1 < base
    BY <2>1
  <2>3. y \in Nat /\ y >= 1
    BY <1>1
  <2> QED BY <2>2, <2>3
<1>4. SemColisao(s \o t)
  BY <1>2, <1>3, JuntaSemColisao
<1> DEFINE st == s \o t
           n == Len(s)
           c(d) == CargaNoDia(s, d)
           e(d) == CargaNoDia(t, d)
           l == Len(t)
<1>5. /\ \A i \in DOMAIN s : i \in DOMAIN st /\ st[i] = s[i]
      /\ \A j \in DOMAIN t : n + j \in DOMAIN st /\ st[n + j] = t[j]
      /\ \A i \in DOMAIN st : i \in DOMAIN s \/ \E j \in DOMAIN t : i = n + j
  BY LugaresJuntos
<1>6. \A d : CargaNoDia(st, d) = c(d) + e(d) /\ c(d) \in Nat /\ e(d) \in Nat
  BY CargaJunta, CargaEhNumero
<1>7. e(dt) = l
  BY CargaDoDia DEF NumeradaNoDia
<1> HIDE DEF st, n, c, e, l
<1>8. ASSUME NEW i \in DOMAIN s, s[i].data \in dias PROVE s[i].posicao < CargaNoDia(st, s[i].data)
  <2> DEFINE d == s[i].data
             p == s[i].posicao
  <2>1. p < c(d) /\ p \in Int
    BY <1>1, <1>8 DEF Densa, c
  <2>2. CargaNoDia(st, d) = c(d) + e(d) /\ c(d) \in Nat /\ e(d) \in Nat
    BY <1>6
  <2> HIDE DEF d, p
  <2>3. p < CargaNoDia(st, d)
    BY <2>1, <2>2
  <2> QED BY <2>3 DEF d, p
<1>9. ASSUME NEW j \in DOMAIN t PROVE t[j].posicao < CargaNoDia(st, t[j].data)
  <2>1. t[j].data = dt /\ t[j].posicao = base + j - 1
    BY DEF NumeradaNoDia
  <2>2. j \in Nat /\ j <= l /\ l \in Nat
    BY <1>1 DEF l
  <2>3. CargaNoDia(st, dt) = c(dt) + l /\ c(dt) \in Nat /\ base <= c(dt)
    BY <1>6, <1>7 DEF c
  <2>4. base + j - 1 < c(dt) + l
    BY <2>2, <2>3
  <2> QED BY <2>1, <2>3, <2>4
<1>10. Densa(st, dias)
  BY <1>5, <1>8, <1>9 DEF Densa
<1> QED BY <1>4, <1>10 DEF st

\* The day `dt' adds a list numbered from its start to what left the queue.
Recebe(q, p, dt) ==
    \E t \in Seq(Linhas) : q.saida = p.saida \o t /\ NumeradaNoDia(t, dt, 0)

\* So does every day, whether it keeps its content or takes the queue's.
LEMMA DiaNumerado ==
    ASSUME NEW conteudo \in Seq(Linhas), NEW p \in DuasFilas, NEW dt \in 1 .. Prova, NEW ancoras, NEW carga
    PROVE  Recebe(DiaDe(p, dt, conteudo, ancoras, carga), p, dt)
<1>0. \A k \in Nat : 0 + k - 1 = k - 1
  OBVIOUS
<1>1. CASE dt \in ancoras
  <2> DEFINE d == doDia(conteudo, dt)
             t == EmOrdem(d)
  <2>1. d \in Seq(Linhas) /\ \A k \in DOMAIN d : d[k].data = dt
    BY doDiaUmaVez
  <2>2. DiaDe(p, dt, conteudo, ancoras, carga).saida = p.saida \o t
    BY <1>1 DEF DiaDe, DuasFilas
  <2> HIDE DEF d
  <2>3. t \in Seq(Linhas)
    <3>1. Solto(Linhas)
      BY LinhaMuda DEF Solto
    <3> QED BY <2>1, <3>1, EmOrdemTipo
  <2>4. \A k \in DOMAIN d : t[k].data = d[k].data /\ t[k].posicao = k - 1 /\ k \in Nat
    BY <2>1, EmOrdemLugares, LugarEhNumero
  <2>5. DOMAIN t = DOMAIN d
    BY DEF EmOrdem
  <2>6. NumeradaNoDia(t, dt, 0)
    BY <1>0, <2>1, <2>4, <2>5 DEF NumeradaNoDia
  <2> QED BY <2>2, <2>3, <2>6 DEF Recebe
<1>2. CASE dt \notin ancoras
  <2> DEFINE f == SubFila(p.fila, Escolhidas(p.fila, carga))
             t == NoDia(f, dt, 0)
  <2>1. f \in Seq(Linhas)
    <3>1. Escolhidas(p.fila, carga) \in SUBSET DOMAIN p.fila
      BY DEF Escolhidas
    <3> QED BY <3>1, SubFilaDoLugar DEF DuasFilas
  <2>2. DiaDe(p, dt, conteudo, ancoras, carga).saida = p.saida \o t
    BY <1>2 DEF DiaDe, Encher
  <2> HIDE DEF f
  <2>3. t \in Seq(Linhas)
    <3>1. CabeNoDia(Linhas, Linhas, dt)
      BY NoLugarTipo DEF CabeNoDia
    <3> QED BY <2>1, <3>1, NoDiaTipo
  <2>4. \A k \in DOMAIN f : t[k].data = dt /\ t[k].posicao = 0 + k - 1
    BY <2>1, NoDiaLugares
  <2>5. DOMAIN t = DOMAIN f
    BY DEF NoDia
  <2>6. NumeradaNoDia(t, dt, 0)
    BY <2>4, <2>5 DEF NumeradaNoDia
  <2> QED BY <2>2, <2>3, <2>6 DEF Recebe
<1> QED BY <1>1, <1>2


\* Rows of a packing: no place repeated, the days `uteis' numbered from the
\* start and none filled but `dias', what lies elsewhere taken from `conteudo'.
Arrumada(s, uteis, dias, conteudo) ==
    /\ SemColisao(s) /\ Densa(s, uteis)
    /\ \A i \in DOMAIN s : IF s[i].data \in uteis THEN s[i].data \in dias ELSE s[i] \in ToSet(conteudo)

\* One more day, or more rows after those of a day.
LEMMA ArrumadaJunta ==
    ASSUME NEW s \in Seq(Linhas), NEW t \in Seq(Linhas), NEW uteis, NEW dias, NEW conteudo,
           NEW dt \in uteis, NEW base \in Nat,
           Arrumada(s, uteis, dias, conteudo), NumeradaNoDia(t, dt, base),
           base <= CargaNoDia(s, dt), \A i \in DOMAIN s : s[i].data = dt => s[i].posicao < base
    PROVE  Arrumada(s \o t, uteis, dias \cup {dt}, conteudo)
<1> DEFINE st == s \o t
           n == Len(s)
<1>1. SemColisao(st) /\ Densa(st, uteis)
  BY JuntaNoDia DEF Arrumada
<1>2. /\ \A i \in DOMAIN s : i \in DOMAIN st /\ st[i] = s[i]
      /\ \A j \in DOMAIN t : n + j \in DOMAIN st /\ st[n + j] = t[j]
      /\ \A i \in DOMAIN st : i \in DOMAIN s \/ \E j \in DOMAIN t : i = n + j
  BY LugaresJuntos
<1> HIDE DEF st, n
<1>3. ASSUME NEW i \in DOMAIN s
      PROVE  IF st[i].data \in uteis THEN st[i].data \in dias \cup {dt} ELSE st[i] \in ToSet(conteudo)
  BY <1>2 DEF Arrumada
<1>4. ASSUME NEW j \in DOMAIN t PROVE st[n + j].data \in uteis /\ st[n + j].data \in dias \cup {dt}
  <2>1. t[j].data = dt /\ st[n + j] = t[j]
    BY <1>2 DEF NumeradaNoDia
  <2> QED BY <2>1
<1>5. Arrumada(st, uteis, dias \cup {dt}, conteudo)
  BY <1>1, <1>2, <1>3, <1>4 DEF Arrumada
<1> QED BY <1>5 DEF st

\* Packing leaves no place repeated, numbers the days it fills from the start,
\* and takes what lies elsewhere as it is.
LEMMA EmpacotarLugares ==
    ASSUME NEW conteudo \in Seq(Linhas), SemColisao(conteudo),
           NEW uteis \in Seq(1 .. Prova), uteis # <<>>,
           IsInjective(uteis), NEW ancoras
    PROVE  /\ Empacotar(conteudo, uteis, ancoras) \in Seq(Linhas)
           /\ Arrumada(Empacotar(conteudo, uteis, ancoras), ToSet(uteis), ToSet(uteis), conteudo)
<1> DEFINE U == ToSet(uteis)
           n == Len(uteis)
           carga == cargaTipica(conteudo, ToSet(uteis))
           D(k) == {uteis[j] : j \in 1 .. k}
           G == {g \in (0 .. n) \X DuasFilas : Arrumada(g[2].saida, U, D(g[1]), conteudo)}
<1>1. n \in Nat /\ n # 0 /\ DOMAIN uteis = 1 .. n /\ \A j \in 1 .. n : uteis[j] \in 1 .. Prova /\ uteis[j] \in U
  <2>1. n \in Nat /\ DOMAIN uteis = 1 .. n
    BY SeqEhFuncao
  <2>2. n # 0
    BY EmptySeq
  <2> QED BY <2>1, <2>2, LugarEhNumero DEF ToSet
<1>2. <<0, InicioDe(conteudo, uteis, ancoras)>> \in G
  <2> DEFINE p == InicioDe(conteudo, uteis, ancoras)
             onde == {i \in DOMAIN conteudo : conteudo[i].data \in U}
  <2>1. p.saida = SubFila(conteudo, DOMAIN conteudo \ onde)
    BY DEF InicioDe
  <2>2. p \in DuasFilas /\ 0 \in 0 .. n
    BY <1>1, DuasFilasTipo
  <2>3. SemColisao(p.saida)
    BY <2>1, SubFilaUmaVez
  <2>4. ToSet(p.saida) = {conteudo[i] : i \in DOMAIN conteudo \ onde}
    BY <2>1, SubFilaDoLugar
  <2>5. \A i \in DOMAIN p.saida : p.saida[i].data \notin U /\ p.saida[i] \in ToSet(conteudo)
    BY <2>4 DEF ToSet
  <2> HIDE DEF p
  <2> HIDE DEF U, D
  <2>6. Densa(p.saida, U)
    BY <2>5 DEF Densa
  <2>7. Arrumada(p.saida, U, D(0), conteudo)
    BY <2>3, <2>5, <2>6 DEF Arrumada
  <2> QED BY <2>2, <2>7 DEF p
<1>3. ASSUME NEW k \in 0 .. n, NEW p \in DuasFilas, k # n, <<k, p>> \in G
      PROVE  <<k + 1, DiaDe(p, uteis[k + 1], conteudo, ancoras, carga)>> \in G
  <2> DEFINE dt == uteis[k + 1]
             q == DiaDe(p, dt, conteudo, ancoras, carga)
  <2>0. Arrumada(p.saida, U, D(k), conteudo) /\ p.saida \in Seq(Linhas)
    BY <1>3 DEF DuasFilas
  <2>1. k \in Nat /\ k + 1 \in 1 .. n /\ k + 1 \in 0 .. n /\ dt \in 1 .. Prova /\ dt \in U
    <3>1. k \in Nat /\ k + 1 \in 1 .. n /\ k + 1 \in 0 .. n
      <4>1. k \in 0 .. n /\ k # n /\ n \in Nat
        BY <1>1, <1>3
      <4> HIDE DEF n
      <4> QED BY <4>1
    <3> QED BY <1>1, <3>1
  <2>2. dt \notin D(k)
    <3> SUFFICES ASSUME NEW j \in 1 .. k, uteis[j] = uteis[k + 1] PROVE FALSE
      OBVIOUS
    <3>1. j \in 1 .. n /\ j # k + 1
      BY <1>1, <2>1
    <3> QED BY <1>1, <2>1, <3>1 DEF IsInjective
  <2>3. D(k + 1) = D(k) \cup {dt}
    <3>1. \A j : j \in 1 .. k + 1 <=> j \in 1 .. k \/ j = k + 1
      BY <2>1
    <3> QED BY <3>1
  <2>4. q \in DuasFilas
    BY <2>1, DuasFilasTipo
  <2>5. PICK t \in Seq(Linhas) : q.saida = p.saida \o t /\ NumeradaNoDia(t, dt, 0)
    <3> HIDE DEF dt, carga
    <3>1. Recebe(DiaDe(p, dt, conteudo, ancoras, carga), p, dt)
      BY <2>1, DiaNumerado
    <3> QED BY <3>1 DEF Recebe, q
  <2> HIDE DEF dt, q, carga, D
  <2>6. \A i \in DOMAIN p.saida : p.saida[i].data = dt => p.saida[i].posicao < 0
    <3> HIDE DEF U
    <3> QED BY <2>0, <2>1, <2>2 DEF Arrumada
  <2>7. 0 <= CargaNoDia(p.saida, dt)
    <3>1. CargaNoDia(p.saida, dt) \in Nat
      BY <2>0, CargaEhNumero
    <3> QED BY <3>1
  <2>8. Arrumada(p.saida \o t, U, D(k) \cup {dt}, conteudo)
    BY <2>0, <2>1, <2>5, <2>6, <2>7, ArrumadaJunta
  <2>9. Arrumada(q.saida, U, D(k + 1), conteudo)
    BY <2>3, <2>5, <2>8
  <2> QED BY <2>1, <2>4, <2>9 DEF dt, q
<1> DEFINE r == Empacotar(conteudo, uteis, ancoras)
<1>4. \E p \in DuasFilas : <<n, p>> \in G /\ r = ComSobra(p, uteis[n])
  <2> HIDE DEF G
  <2>1. \A k \in 0 .. n, p \in DuasFilas :
           k # n /\ <<k, p>> \in G => <<k + 1, DiaDe(p, uteis[k + 1], conteudo, ancoras, carga)>> \in G
    BY <1>3
  <2> QED BY <1>2, <2>1, EmpacotarInducao
<1>5. PICK p \in DuasFilas : <<n, p>> \in G /\ r = ComSobra(p, uteis[n])
  BY <1>4
<1> DEFINE dt == uteis[n]
           base == CargaNoDia(p.saida, dt)
           t == NoDia(p.fila, dt, base)
<1>6. Arrumada(p.saida, U, D(n), conteudo) /\ p.saida \in Seq(Linhas) /\ p.fila \in Seq(Linhas)
  BY <1>5 DEF DuasFilas
<1>7. n \in 1 .. n /\ dt \in 1 .. Prova /\ dt \in U /\ base \in Nat
  BY <1>1, <1>6, CargaEhNumero
<1>8. r = p.saida \o t
  BY <1>5 DEF ComSobra
<1> HIDE DEF r, dt, base, carga
<1>9. t \in Seq(Linhas) /\ NumeradaNoDia(t, dt, base)
  <2>1. CabeNoDia(Linhas, Linhas, dt)
    BY <1>7, NoLugarTipo DEF CabeNoDia
  <2>2. t \in Seq(Linhas)
    BY <1>6, <1>7, <2>1, NoDiaTipo
  <2>3. DOMAIN t = DOMAIN p.fila
    BY DEF NoDia
  <2>4. \A k \in DOMAIN p.fila : t[k].data = dt /\ t[k].posicao = base + k - 1
    BY <1>6, <1>7, NoDiaLugares
  <2> QED BY <2>2, <2>3, <2>4 DEF NumeradaNoDia
<1>10. base <= CargaNoDia(p.saida, dt) /\ \A i \in DOMAIN p.saida : p.saida[i].data = dt => p.saida[i].posicao < base
  <2>1. base <= base
    BY <1>7
  <2> QED BY <1>6, <1>7, <2>1 DEF base, Arrumada, Densa
<1>11. D(n) \cup {dt} = U
  BY <1>1, <1>7 DEF ToSet, dt
<1> HIDE DEF t, D
<1>12. Arrumada(p.saida \o t, U, D(n) \cup {dt}, conteudo)
  BY <1>6, <1>7, <1>9, <1>10, ArrumadaJunta
<1>13. p.saida \o t \in Seq(Linhas)
  BY <1>6, <1>9, ConcatProperties
<1> QED BY <1>8, <1>11, <1>12, <1>13 DEF r

\* The ids of the rows on the days `dias', and of those on no such day.
IdsNos(as, dias) == {as[i].id : i \in {k \in DOMAIN as : as[k].data \in dias}}
IdsFora(as, dias) == {as[i].id : i \in {k \in DOMAIN as : as[k].data \notin dias}}

\* The two lists of a packing share no id and have, each once, those of the
\* rows of `conteudo' on days other than `falta'.
Repartida(p, conteudo, falta) ==
    /\ SemRepetir(p.fila) /\ SemRepetir(p.saida) /\ IdsDe(p.fila) \cap IdsDe(p.saida) = {}
    /\ IdsDe(p.fila) \cup IdsDe(p.saida) = IdsFora(conteudo, falta)

\* Where no id is repeated, what lies on some days and what does not part them.
LEMMA IdsPartidos ==
    ASSUME NEW as, SemRepetir(as), NEW X, NEW Y
    PROVE  /\ X \cap Y = {} => IdsNos(as, X) \cap IdsNos(as, Y) = {}
           /\ IdsNos(as, X) \cap IdsFora(as, X) = {}
           /\ X \cap Y = {} => IdsFora(as, Y) = IdsFora(as, Y \cup X) \cup IdsNos(as, X)
           /\ IdsFora(as, {}) = IdsDe(as)
<1>1. ASSUME NEW i \in DOMAIN as, NEW j \in DOMAIN as, as[i].id = as[j].id
      PROVE  as[i].data = as[j].data
  BY <1>1 DEF SemRepetir
<1>2. X \cap Y = {} => IdsNos(as, X) \cap IdsNos(as, Y) = {}
  BY <1>1 DEF IdsNos
<1>3. IdsNos(as, X) \cap IdsFora(as, X) = {}
  BY <1>1 DEF IdsNos, IdsFora
<1>4. X \cap Y = {} => IdsFora(as, Y) = IdsFora(as, Y \cup X) \cup IdsNos(as, X)
  BY DEF IdsNos, IdsFora
<1>5. IdsFora(as, {}) = IdsDe(as)
  BY DEF IdsFora, IdsDe
<1> QED BY <1>2, <1>3, <1>4, <1>5

\* What is taken from a list and what stays part its ids.
LEMMA FilaPartida ==
    ASSUME NEW fila \in Seq(Linhas), SemRepetir(fila), NEW pega \in SUBSET DOMAIN fila
    PROVE  LET f == SubFila(fila, DOMAIN fila \ pega)
               g == SubFila(fila, pega)
           IN  /\ SemRepetir(f) /\ SemRepetir(g) /\ IdsDe(f) \cap IdsDe(g) = {}
               /\ IdsDe(f) \cup IdsDe(g) = IdsDe(fila)
<1> DEFINE f == SubFila(fila, DOMAIN fila \ pega)
           g == SubFila(fila, pega)
<1>1. /\ IdsDe(f) = {fila[i].id : i \in DOMAIN fila \ pega} /\ SemRepetir(f)
      /\ IdsDe(g) = {fila[i].id : i \in pega} /\ SemRepetir(g)
  BY SubFilaUmaVez
<1> HIDE DEF f, g
<1>2. IdsDe(f) \cap IdsDe(g) = {}
  BY <1>1 DEF SemRepetir
<1>3. IdsDe(f) \cup IdsDe(g) = IdsDe(fila)
  BY <1>1 DEF IdsDe
<1> QED BY <1>1, <1>2, <1>3 DEF f, g

\* Joining to a list rows that were put on a day adds their ids.
LEMMA JuntaDoDia ==
    ASSUME NEW s \in Seq(Linhas), NEW f \in Seq(Linhas), NEW t \in Seq(Linhas), MesmosIds(t, f),
           SemRepetir(s), SemRepetir(f), IdsDe(s) \cap IdsDe(f) = {}
    PROVE  SemRepetir(s \o t) /\ IdsDe(s \o t) = IdsDe(s) \cup IdsDe(f)
<1>1. IdsDe(t) = IdsDe(f) /\ SemRepetir(t)
  BY MesmosIdsUmaVez
<1> QED BY <1>1, JuntaSemRepetir

\* A list put on a day is a list of the same rows.
LEMMA NoDiaIds ==
    ASSUME NEW f \in Seq(Linhas), NEW dt \in 1 .. Prova, NEW base \in Nat
    PROVE  NoDia(f, dt, base) \in Seq(Linhas) /\ MesmosIds(NoDia(f, dt, base), f)
<1>1. CabeNoDia(Linhas, Linhas, dt)
  BY NoLugarTipo DEF CabeNoDia
<1> QED BY <1>1, NoDiaTipo, NoDiaLugares

\* A day of a packing keeps the ids apart.
LEMMA DiaReparte ==
    ASSUME NEW conteudo \in Seq(Linhas), SemRepetir(conteudo), NEW p \in DuasFilas,
           NEW dt \in 1 .. Prova, NEW ancoras, NEW carga, NEW falta, dt \notin falta,
           Repartida(p, conteudo, falta \cup ({dt} \cap ancoras))
    PROVE  Repartida(DiaDe(p, dt, conteudo, ancoras, carga), conteudo, falta)
<1> DEFINE q == DiaDe(p, dt, conteudo, ancoras, carga)
<1>0. p.fila \in Seq(Linhas) /\ p.saida \in Seq(Linhas)
  BY DEF DuasFilas
<1>1. CASE dt \in ancoras
  <2> DEFINE d == doDia(conteudo, dt)
             t == EmOrdem(d)
  <2>1. d \in Seq(Linhas) /\ SemRepetir(d) /\ IdsDe(d) = IdsNos(conteudo, {dt})
    <3>1. d \in Seq(Linhas) /\ SemRepetir(d)
          /\ IdsDe(d) = {conteudo[i].id : i \in {k \in DOMAIN conteudo : conteudo[k].data = dt}}
      BY doDiaUmaVez
    <3> HIDE DEF d
    <3> QED BY <3>1 DEF IdsNos
  <2>2. q.saida = p.saida \o t /\ q.fila = p.fila
    BY <1>1 DEF DiaDe, DuasFilas
  <2> HIDE DEF d, q
  <2>3. t \in Seq(Linhas) /\ MesmosIds(t, d)
    <3>1. Solto(Linhas)
      BY LinhaMuda DEF Solto
    <3> QED BY <2>1, <3>1, EmOrdemTipo, EmOrdemLugares
  <2> HIDE DEF t
  <2>4. falta \cup ({dt} \cap ancoras) = falta \cup {dt}
    BY <1>1
  <2>5. /\ IdsNos(conteudo, {dt}) \cap IdsFora(conteudo, falta \cup {dt}) = {}
        /\ IdsFora(conteudo, falta) = IdsFora(conteudo, falta \cup {dt}) \cup IdsNos(conteudo, {dt})
    <3>1. {dt} \cap falta = {}
      OBVIOUS
    <3>2. IdsFora(conteudo, falta) = IdsFora(conteudo, falta \cup {dt}) \cup IdsNos(conteudo, {dt})
      BY <3>1, IdsPartidos
    <3>3. IdsNos(conteudo, {dt}) \cap IdsFora(conteudo, {dt}) = {}
      BY IdsPartidos
    <3>4. IdsFora(conteudo, falta \cup {dt}) \subseteq IdsFora(conteudo, {dt})
      BY DEF IdsFora
    <3> QED BY <3>2, <3>3, <3>4
  <2>6. /\ SemRepetir(p.fila) /\ SemRepetir(p.saida) /\ IdsDe(p.fila) \cap IdsDe(p.saida) = {}
        /\ IdsDe(p.fila) \cup IdsDe(p.saida) = IdsFora(conteudo, falta \cup {dt})
    BY <2>4 DEF Repartida
  <2>7. IdsDe(p.saida) \cap IdsDe(d) = {}
    BY <2>1, <2>5, <2>6
  <2>8. SemRepetir(p.saida \o t) /\ IdsDe(p.saida \o t) = IdsDe(p.saida) \cup IdsDe(d)
    BY <1>0, <2>1, <2>3, <2>6, <2>7, JuntaDoDia
  <2>9. Repartida(q, conteudo, falta)
    <3>1. SemRepetir(q.fila) /\ SemRepetir(q.saida)
      BY <2>2, <2>6, <2>8
    <3>2. IdsDe(q.saida) = IdsDe(p.saida) \cup IdsNos(conteudo, {dt}) /\ IdsDe(q.fila) = IdsDe(p.fila)
      BY <2>1, <2>2, <2>8
    <3>3. IdsDe(q.fila) \cap IdsDe(q.saida) = {}
      BY <2>5, <2>6, <3>2
    <3>4. IdsDe(q.fila) \cup IdsDe(q.saida) = IdsFora(conteudo, falta)
      BY <2>5, <2>6, <3>2
    <3> QED BY <3>1, <3>3, <3>4 DEF Repartida
  <2> QED BY <2>9 DEF q
<1>2. CASE dt \notin ancoras
  <2> DEFINE pega == Escolhidas(p.fila, carga)
             f == SubFila(p.fila, DOMAIN p.fila \ pega)
             g == SubFila(p.fila, pega)
             t == NoDia(g, dt, 0)
  <2>1. pega \in SUBSET DOMAIN p.fila
    BY DEF Escolhidas
  <2>2. q.saida = p.saida \o t /\ q.fila = f
    BY <1>2 DEF DiaDe, Encher
  <2> HIDE DEF pega, q
  <2>3. falta \cup ({dt} \cap ancoras) = falta
    BY <1>2
  <2>4. /\ SemRepetir(p.fila) /\ SemRepetir(p.saida) /\ IdsDe(p.fila) \cap IdsDe(p.saida) = {}
        /\ IdsDe(p.fila) \cup IdsDe(p.saida) = IdsFora(conteudo, falta)
    BY <2>3 DEF Repartida
  <2>5. /\ SemRepetir(f) /\ SemRepetir(g) /\ IdsDe(f) \cap IdsDe(g) = {}
        /\ IdsDe(f) \cup IdsDe(g) = IdsDe(p.fila)
    BY <1>0, <2>1, <2>4, FilaPartida
  <2>6. g \in Seq(Linhas)
    BY <1>0, <2>1, SubFilaDoLugar
  <2> HIDE DEF f, g
  <2>7. t \in Seq(Linhas) /\ MesmosIds(t, g)
    BY <2>6, NoDiaIds
  <2> HIDE DEF t
  <2>8. SemRepetir(p.saida \o t) /\ IdsDe(p.saida \o t) = IdsDe(p.saida) \cup IdsDe(g)
    <3>1. IdsDe(p.saida) \cap IdsDe(g) = {}
      BY <2>4, <2>5
    <3> QED BY <1>0, <2>4, <2>5, <2>6, <2>7, <3>1, JuntaDoDia
  <2>9. Repartida(q, conteudo, falta)
    <3>1. SemRepetir(q.fila) /\ SemRepetir(q.saida)
      BY <2>2, <2>5, <2>8
    <3>2. IdsDe(q.saida) = IdsDe(p.saida) \cup IdsDe(g) /\ IdsDe(q.fila) = IdsDe(f)
      BY <2>2, <2>8
    <3>3. IdsDe(q.fila) \cap IdsDe(q.saida) = {}
      BY <2>4, <2>5, <3>2
    <3>4. IdsDe(q.fila) \cup IdsDe(q.saida) = IdsFora(conteudo, falta)
      BY <2>4, <2>5, <3>2
    <3> QED BY <3>1, <3>3, <3>4 DEF Repartida
  <2> QED BY <2>9 DEF q
<1> QED BY <1>1, <1>2

\* Packing keeps every id, once.
LEMMA EmpacotarIds ==
    ASSUME NEW conteudo \in Seq(Linhas), SemRepetir(conteudo),
           NEW uteis \in Seq(1 .. Prova), uteis # <<>>, IsInjective(uteis), NEW ancoras
    PROVE  /\ SemRepetir(Empacotar(conteudo, uteis, ancoras))
           /\ IdsDe(Empacotar(conteudo, uteis, ancoras)) = IdsDe(conteudo)
<1> DEFINE U == ToSet(uteis)
           n == Len(uteis)
           carga == cargaTipica(conteudo, ToSet(uteis))
           falta(k) == {uteis[j] : j \in k + 1 .. n} \cap ancoras
           G == {g \in (0 .. n) \X DuasFilas : Repartida(g[2], conteudo, falta(g[1]))}
<1>1. n \in Nat /\ n # 0 /\ DOMAIN uteis = 1 .. n /\ \A j \in 1 .. n : uteis[j] \in 1 .. Prova /\ uteis[j] \in U
  <2>1. n \in Nat /\ DOMAIN uteis = 1 .. n
    BY SeqEhFuncao
  <2>2. n # 0
    BY EmptySeq
  <2> QED BY <2>1, <2>2, LugarEhNumero DEF ToSet
<1>2. <<0, InicioDe(conteudo, uteis, ancoras)>> \in G
  <2> DEFINE p == InicioDe(conteudo, uteis, ancoras)
             E == {i \in DOMAIN conteudo : conteudo[i].data \in U \ ancoras}
             F == {i \in DOMAIN conteudo : conteudo[i].data \in U}
             f == SubFila(conteudo, E)
             s == SubFila(conteudo, DOMAIN conteudo \ F)
  <2>1. p.saida = s /\ p.fila = ordenar(f)
    BY DEF InicioDe
  <2>2. p \in DuasFilas /\ 0 \in 0 .. n
    <3>1. 0 \in 0 .. n
      <4> HIDE DEF n
      <4> QED BY <1>1
    <3> QED BY <3>1, DuasFilasTipo
  <2>3. /\ SemRepetir(s) /\ IdsDe(s) = IdsFora(conteudo, U)
        /\ f \in Seq(Linhas) /\ SemRepetir(f) /\ IdsDe(f) = IdsNos(conteudo, U \ ancoras)
    <3>1. /\ SemRepetir(s) /\ IdsDe(s) = {conteudo[i].id : i \in DOMAIN conteudo \ F}
          /\ f \in Seq(Linhas) /\ SemRepetir(f) /\ IdsDe(f) = {conteudo[i].id : i \in E}
      BY SubFilaUmaVez, SubFilaDoLugar
    <3>2. DOMAIN conteudo \ F = {i \in DOMAIN conteudo : conteudo[i].data \notin U}
      OBVIOUS
    <3> HIDE DEF f, s, U, F
    <3> QED BY <3>1, <3>2 DEF IdsNos, IdsFora
  <2> HIDE DEF p, f, s
  <2>4. SemRepetir(p.fila) /\ IdsDe(p.fila) = IdsNos(conteudo, U \ ancoras)
    BY <2>1, <2>3, ordenarUmaVez
  <2>5. falta(0) = U \cap ancoras
    <3>1. U = {uteis[j] : j \in 1 .. n}
      BY <1>1 DEF ToSet
    <3> QED BY <3>1
  <2> HIDE DEF U, falta
  <2>6. /\ IdsNos(conteudo, U \ ancoras) \cap IdsFora(conteudo, U) = {}
        /\ IdsFora(conteudo, U \cap ancoras) = IdsFora(conteudo, U) \cup IdsNos(conteudo, U \ ancoras)
    <3> DEFINE X == U \ ancoras
               Y == U \cap ancoras
    <3>1. X \cap Y = {} /\ Y \cup X = U
      OBVIOUS
    <3> HIDE DEF X, Y
    <3>5. IdsFora(conteudo, Y) = IdsFora(conteudo, Y \cup X) \cup IdsNos(conteudo, X)
      BY <3>1, IdsPartidos
    <3>2. IdsFora(conteudo, U \cap ancoras) = IdsFora(conteudo, U) \cup IdsNos(conteudo, U \ ancoras)
      BY <3>1, <3>5 DEF X, Y
    <3>3. IdsNos(conteudo, U) \cap IdsFora(conteudo, U) = {}
      BY IdsPartidos
    <3>4. IdsNos(conteudo, U \ ancoras) \subseteq IdsNos(conteudo, U)
      BY DEF IdsNos
    <3> QED BY <3>2, <3>3, <3>4
  <2>7. Repartida(p, conteudo, falta(0))
    <3>1. SemRepetir(p.saida) /\ IdsDe(p.saida) = IdsFora(conteudo, U)
      BY <2>1, <2>3
    <3> QED BY <2>4, <2>5, <2>6, <3>1 DEF Repartida
  <2> QED BY <2>2, <2>7 DEF p
<1>3. ASSUME NEW k \in 0 .. n, NEW p \in DuasFilas, k # n, <<k, p>> \in G
      PROVE  <<k + 1, DiaDe(p, uteis[k + 1], conteudo, ancoras, carga)>> \in G
  <2> DEFINE dt == uteis[k + 1]
             q == DiaDe(p, dt, conteudo, ancoras, carga)
  <2>0. Repartida(p, conteudo, falta(k))
    BY <1>3
  <2>1. k \in Nat /\ k + 1 \in 1 .. n /\ k + 1 \in 0 .. n /\ dt \in 1 .. Prova
    <3>1. k \in Nat /\ k + 1 \in 1 .. n /\ k + 1 \in 0 .. n
      <4>1. k \in 0 .. n /\ k # n /\ n \in Nat
        BY <1>1, <1>3
      <4> HIDE DEF n
      <4> QED BY <4>1
    <3> QED BY <1>1, <3>1
  <2>2. q \in DuasFilas
    BY <2>1, DuasFilasTipo
  <2>3. dt \notin falta(k + 1)
    <3> SUFFICES ASSUME NEW j \in (k + 1) + 1 .. n, uteis[j] = uteis[k + 1] PROVE FALSE
      OBVIOUS
    <3>1. j \in 1 .. n /\ j # k + 1
      <4>1. k \in Nat /\ n \in Nat
        BY <1>1, <2>1
      <4> HIDE DEF n
      <4> QED BY <4>1
    <3> QED BY <1>1, <2>1, <3>1 DEF IsInjective
  <2>4. falta(k) = falta(k + 1) \cup ({dt} \cap ancoras)
    <3>1. \A j : j \in k + 1 .. n <=> j \in (k + 1) + 1 .. n \/ j = k + 1
      <4>1. k \in Nat /\ n \in Nat /\ k + 1 \in 1 .. n
        BY <1>1, <2>1
      <4> HIDE DEF n
      <4> QED BY <4>1
    <3> HIDE DEF n
    <3> QED BY <3>1
  <2> HIDE DEF dt, falta, carga
  <2>5. Repartida(q, conteudo, falta(k + 1))
    BY <2>0, <2>1, <2>3, <2>4, DiaReparte
  <2> QED BY <2>1, <2>2, <2>5 DEF dt, q
<1> DEFINE r == Empacotar(conteudo, uteis, ancoras)
<1>5. PICK p \in DuasFilas : <<n, p>> \in G /\ r = ComSobra(p, uteis[n])
  <2> HIDE DEF G
  <2>1. \A k \in 0 .. n, p \in DuasFilas :
           k # n /\ <<k, p>> \in G => <<k + 1, DiaDe(p, uteis[k + 1], conteudo, ancoras, carga)>> \in G
    BY <1>3
  <2> QED BY <1>2, <2>1, EmpacotarInducao
<1> DEFINE dt == uteis[n]
           base == CargaNoDia(p.saida, dt)
           t == NoDia(p.fila, dt, base)
<1>6. Repartida(p, conteudo, falta(n)) /\ p.saida \in Seq(Linhas) /\ p.fila \in Seq(Linhas)
  BY <1>5 DEF DuasFilas
<1>7. dt \in 1 .. Prova /\ base \in Nat
  <2>1. n \in 1 .. n
    <3> HIDE DEF n
    <3> QED BY <1>1
  <2> QED BY <1>1, <1>6, <2>1, CargaEhNumero
<1>8. r = p.saida \o t
  BY <1>5 DEF ComSobra
<1>9. falta(n) = {}
  <2>1. n + 1 .. n = {}
    <3> HIDE DEF n
    <3> QED BY <1>1
  <2> QED BY <2>1
<1> HIDE DEF r, dt, base, carga, falta
<1>10. t \in Seq(Linhas) /\ MesmosIds(t, p.fila)
  BY <1>6, <1>7, NoDiaIds
<1> HIDE DEF t
<1>11. /\ SemRepetir(p.fila) /\ SemRepetir(p.saida) /\ IdsDe(p.fila) \cap IdsDe(p.saida) = {}
       /\ IdsDe(p.fila) \cup IdsDe(p.saida) = IdsFora(conteudo, {})
  BY <1>6, <1>9 DEF Repartida
<1>12. SemRepetir(p.saida \o t) /\ IdsDe(p.saida \o t) = IdsDe(p.saida) \cup IdsDe(p.fila)
  BY <1>6, <1>10, <1>11, JuntaDoDia
<1>13. IdsFora(conteudo, {}) = IdsDe(conteudo)
  BY IdsPartidos
<1> QED BY <1>8, <1>11, <1>12, <1>13 DEF r

-----------------------------------------------------------------------------
(* Compacting repeats no id and no place.                                  *)

\* How many of the rows before the k-th share its day.
JaNoDia(fixas, k) == Cardinality({j \in 1 .. k - 1 : fixas[j].data = fixas[k].data})

\* It is a number, and different for different rows of a day.
LEMMA JaNoDiaTipo ==
    ASSUME NEW fixas \in Seq(Linhas)
    PROVE  /\ \A k \in DOMAIN fixas : JaNoDia(fixas, k) \in Nat
           /\ \A j, k \in DOMAIN fixas :
                 fixas[j].data = fixas[k].data /\ JaNoDia(fixas, j) = JaNoDia(fixas, k) => j = k
<1> DEFINE u == [k \in DOMAIN fixas |-> [data |-> fixas[k].data, posicao |-> 0]]
<1>0. Len(fixas) \in Nat /\ DOMAIN fixas = 1 .. Len(fixas)
  BY SeqEhFuncao
<1>1. \A k \in DOMAIN fixas : u[k].data = fixas[k].data /\ u[k].posicao = 0
  OBVIOUS
<1>2. DOMAIN u = DOMAIN fixas /\ IsFiniteSet(DOMAIN u) /\ \A k \in DOMAIN u : k \in Nat
  BY PartesFinitas, LugarEhNumero
<1> HIDE DEF u
<1>3. Numeravel(u)
  BY <1>1, <1>2 DEF Numeravel
<1>4. ASSUME NEW k \in DOMAIN fixas
      PROVE  Atras(u, k) = {j \in 1 .. k - 1 : fixas[j].data = fixas[k].data}
  <2>1. \A j \in DOMAIN u : u[j].posicao = u[k].posicao /\ ~(u[j].posicao < u[k].posicao)
    BY <1>1, <1>2
  <2>2. \A j : j \in DOMAIN fixas /\ j < k <=> j \in 1 .. k - 1
    BY <1>0
  <2>3. Atras(u, k) = {j \in DOMAIN fixas : fixas[j].data = fixas[k].data /\ j < k}
    BY <1>1, <1>2, <2>1 DEF Atras
  <2> QED BY <2>2, <2>3
<1>5. ASSUME NEW k \in DOMAIN fixas
      PROVE  JaNoDia(fixas, k) = Cardinality(Atras(u, k)) /\ JaNoDia(fixas, k) \in Nat
  <2>1. JaNoDia(fixas, k) = Cardinality(Atras(u, k))
    BY <1>4 DEF JaNoDia
  <2>2. Atras(u, k) \in SUBSET DOMAIN fixas
    BY <1>2 DEF Atras
  <2>3. Cardinality(Atras(u, k)) \in Nat
    BY <2>2, PartesFinitas
  <2> QED BY <2>1, <2>3
<1>6. ASSUME NEW j \in DOMAIN fixas, NEW k \in DOMAIN fixas,
             fixas[j].data = fixas[k].data, JaNoDia(fixas, j) = JaNoDia(fixas, k)
      PROVE  j = k
  <2>1. u[j].data = u[k].data /\ j \in DOMAIN u /\ k \in DOMAIN u
    BY <1>1, <1>2, <1>6
  <2>2. Cardinality(Atras(u, j)) = Cardinality(Atras(u, k))
    BY <1>5, <1>6
  <2> QED BY <1>3, <2>1, <2>2, AtrasIgual
<1> QED BY <1>5, <1>6

\* Sums of numbers.
LEMMA SomasIguais ==
    ASSUME NEW a \in Nat, NEW b \in Nat, NEW c \in Nat, NEW p \in Int
    PROVE  /\ a + b = a + c => b = c
           /\ p < a => p # a + b
OBVIOUS

\* What was studied ahead of its date, as it is put back.
Repostas(as, fixas, naFase) ==
    [k \in DOMAIN fixas |->
        IF fixas[k].data \in naFase
        THEN [fixas[k] EXCEPT !.posicao = CargaNoDia(as, fixas[k].data) + JaNoDia(fixas, k)]
        ELSE fixas[k]]

\* They are on their days, numbered after the load of the days `naFase'.
NoFim(t, as, fixas, naFase) ==
    \A k \in DOMAIN fixas :
        /\ t[k].data = fixas[k].data
        /\ t[k].posicao = IF fixas[k].data \in naFase
                          THEN CargaNoDia(as, fixas[k].data) + JaNoDia(fixas, k)
                          ELSE fixas[k].posicao

\* Putting it back keeps ids and days, and numbers after the load of the day.
LEMMA RepostasTipo ==
    ASSUME NEW as \in Seq(Linhas), NEW fixas \in Seq(Linhas), NEW naFase
    PROVE  /\ ComAntecipadas(as, fixas, naFase) = as \o Repostas(as, fixas, naFase)
           /\ Repostas(as, fixas, naFase) \in Seq(Linhas)
           /\ MesmosIds(Repostas(as, fixas, naFase), fixas)
           /\ NoFim(Repostas(as, fixas, naFase), as, fixas, naFase)
<1> DEFINE t == Repostas(as, fixas, naFase)
           n(k) == CargaNoDia(as, fixas[k].data) + JaNoDia(fixas, k)
<1>1. ComAntecipadas(as, fixas, naFase) = as \o t
  BY DEF ComAntecipadas, Repostas, JaNoDia
<1>2. t = [k \in DOMAIN fixas |->
             IF fixas[k].data \in naFase THEN [fixas[k] EXCEPT !.posicao = n(k)] ELSE fixas[k]]
  BY DEF Repostas
<1>3. ASSUME NEW k \in DOMAIN fixas PROVE n(k) \in Nat
  <2>1. CargaNoDia(as, fixas[k].data) \in Nat /\ JaNoDia(fixas, k) \in Nat
    BY CargaEhNumero, JaNoDiaTipo
  <2> QED BY <2>1, SomaEhNumero
<1> HIDE DEF t, n
<1>4. ASSUME NEW k \in DOMAIN fixas
      PROVE  /\ t[k].id = fixas[k].id /\ t[k].data = fixas[k].data /\ t[k] \in Linhas
             /\ t[k].posicao = IF fixas[k].data \in naFase THEN n(k) ELSE fixas[k].posicao
  <2>1. fixas[k] \in Linhas /\ n(k) \in Nat
    BY <1>3, LugarEhNumero
  <2>2. t[k] = IF fixas[k].data \in naFase THEN [fixas[k] EXCEPT !.posicao = n(k)] ELSE fixas[k]
    BY <1>2
  <2>3. [fixas[k] EXCEPT !.posicao = n(k)] \in Linhas
    BY <2>1, LinhaMuda
  <2>4. t[k] \in Linhas
    BY <2>1, <2>2, <2>3
  <2> QED BY <2>1, <2>2, <2>4 DEF Linhas
<1>5. DOMAIN t = DOMAIN fixas
  BY <1>2
<1>6. t \in [DOMAIN fixas -> Linhas]
  BY <1>2, <1>4, <1>5
<1>7. t \in Seq(Linhas)
  BY <1>6, LugarALugar
<1>8. MesmosIds(t, fixas)
  BY <1>4, <1>5 DEF MesmosIds
<1> QED BY <1>1, <1>4, <1>7, <1>8 DEF t, n, NoFim

\* Off the days `naFase' the two lists share no place.
Aparte(as, fixas, naFase) ==
    \A i \in DOMAIN as, k \in DOMAIN fixas :
        as[i].data \notin naFase => ~MesmoLugar(as[i], fixas[k])

\* Putting back what was studied ahead of its date repeats neither id nor place.
LEMMA ComAntecipadasUmaVez ==
    ASSUME NEW as \in Seq(Linhas), NEW fixas \in Seq(Linhas), NEW naFase
    PROVE  /\ IdsDe(ComAntecipadas(as, fixas, naFase)) = IdsDe(as) \cup IdsDe(fixas)
           /\ SemRepetir(as) /\ SemRepetir(fixas) /\ IdsDe(as) \cap IdsDe(fixas) = {}
                 => SemRepetir(ComAntecipadas(as, fixas, naFase))
           /\ SemColisao(as) /\ Densa(as, naFase) /\ SemColisao(fixas) /\ Aparte(as, fixas, naFase)
                 => SemColisao(ComAntecipadas(as, fixas, naFase))
<1> DEFINE t == Repostas(as, fixas, naFase)
           n(k) == CargaNoDia(as, fixas[k].data) + JaNoDia(fixas, k)
           r == ComAntecipadas(as, fixas, naFase)
<1>1. r = as \o t
  BY RepostasTipo
<1>2. t \in Seq(Linhas) /\ MesmosIds(t, fixas)
  BY RepostasTipo
<1>9. NoFim(t, as, fixas, naFase)
  BY RepostasTipo
<1> HIDE DEF t, r
<1>3. \A k \in DOMAIN fixas :
         /\ t[k].data = fixas[k].data
         /\ t[k].posicao = IF fixas[k].data \in naFase THEN n(k) ELSE fixas[k].posicao
  BY <1>9 DEF NoFim
<1>4. IdsDe(t) = IdsDe(fixas) /\ (SemRepetir(fixas) => SemRepetir(t)) /\ DOMAIN t = DOMAIN fixas
  BY <1>2, MesmosIdsUmaVez DEF MesmosIds
<1>5. /\ IdsDe(r) = IdsDe(as) \cup IdsDe(fixas)
      /\ SemRepetir(as) /\ SemRepetir(fixas) /\ IdsDe(as) \cap IdsDe(fixas) = {} => SemRepetir(r)
  <2>1. /\ IdsDe(as \o t) = IdsDe(as) \cup IdsDe(t)
        /\ SemRepetir(as) /\ SemRepetir(t) /\ IdsDe(as) \cap IdsDe(t) = {} => SemRepetir(as \o t)
    BY <1>2, JuntaSemRepetir
  <2> QED BY <1>1, <1>4, <2>1
<1>6. ASSUME SemColisao(as), Densa(as, naFase), SemColisao(fixas), Aparte(as, fixas, naFase)
      PROVE  SemColisao(r)
  <2>1. ASSUME NEW j \in DOMAIN t, NEW k \in DOMAIN t, MesmoLugar(t[j], t[k]) PROVE j = k
    <3>1. /\ fixas[j].data = fixas[k].data
          /\ t[j].posicao = t[k].posicao /\ j \in DOMAIN fixas /\ k \in DOMAIN fixas
      BY <1>3, <1>4, <2>1 DEF MesmoLugar
    <3>2. CASE fixas[j].data \in naFase
      <4>1. n(j) = n(k)
        BY <1>3, <3>1, <3>2
      <4>2. CargaNoDia(as, fixas[j].data) \in Nat /\ JaNoDia(fixas, j) \in Nat /\ JaNoDia(fixas, k) \in Nat
        BY <3>1, CargaEhNumero, JaNoDiaTipo
      <4>3. JaNoDia(fixas, j) = JaNoDia(fixas, k)
        <5> DEFINE a == CargaNoDia(as, fixas[j].data)
                   x == JaNoDia(fixas, j)
                   y == JaNoDia(fixas, k)
        <5>1. a + x = a + y
          BY <3>1, <4>1
        <5>2. a \in Nat /\ x \in Nat /\ y \in Nat
          BY <4>2
        <5> HIDE DEF a, x, y
        <5>3. x = y
          BY <5>1, <5>2, SomasIguais
        <5> QED BY <5>3 DEF x, y
      <4> QED BY <3>1, <4>3, JaNoDiaTipo
    <3>3. CASE fixas[j].data \notin naFase
      <4>1. fixas[j].posicao = fixas[k].posicao
        BY <1>3, <3>1, <3>3
      <4> QED BY <1>6, <3>1, <4>1 DEF SemColisao
    <3> QED BY <3>2, <3>3
  <2>2. SemColisao(t)
    BY <2>1 DEF SemColisao, MesmoLugar
  <2>3. ASSUME NEW i \in DOMAIN as, NEW k \in DOMAIN t PROVE ~MesmoLugar(as[i], t[k])
    <3>1. k \in DOMAIN fixas /\ t[k].data = fixas[k].data
      BY <1>3, <1>4
    <3> SUFFICES ASSUME as[i].data = fixas[k].data, as[i].posicao = t[k].posicao PROVE FALSE
      BY <3>1 DEF MesmoLugar
    <3>2. CASE fixas[k].data \in naFase
      <4>1. as[i].posicao < CargaNoDia(as, as[i].data) /\ as[i].posicao = n(k)
        BY <1>3, <1>6, <3>1, <3>2 DEF Densa
      <4>2. CargaNoDia(as, fixas[k].data) \in Nat /\ JaNoDia(fixas, k) \in Nat /\ as[i].posicao \in Int
        <5>1. as[i] \in Linhas
          BY LugarEhNumero
        <5> QED BY <3>1, <5>1, CargaEhNumero, JaNoDiaTipo, LinhaTipo
      <4>3. as[i].posicao # CargaNoDia(as, fixas[k].data) + JaNoDia(fixas, k)
        BY <4>1, <4>2, SomasIguais
      <4> QED BY <4>1, <4>3
    <3>3. CASE fixas[k].data \notin naFase
      <4>1. as[i].posicao = fixas[k].posicao
        BY <1>3, <3>1, <3>3
      <4> QED BY <1>6, <3>1, <3>3, <4>1 DEF MesmoLugar, Aparte
    <3> QED BY <3>2, <3>3
  <2>4. SemColisao(as \o t)
    BY <1>2, <1>6, <2>2, <2>3, JuntaSemColisao
  <2> QED BY <1>1, <2>4
<1>7. SemColisao(as) /\ Densa(as, naFase) /\ SemColisao(fixas) /\ Aparte(as, fixas, naFase)
        => SemColisao(r)
  BY <1>6
<1> QED BY <1>5, <1>7 DEF r

\* The days that receive come once each.
LEMMA DiasUmaVez ==
    ASSUME NEW dias, DOMAIN dias \subseteq 1 .. Prova, NEW desde, NEW fase
    PROVE  IsInjective(diasQueRecebem(dias, desde, fase))
<1> DEFINE S == {dt \in DOMAIN dias : dt >= desde /\ dias[dt].fase = fase /\ DestinoValido(dias, dt)}
<1>1. IsFiniteSet(S) /\ S \in SUBSET Int
  <2>1. S \in SUBSET (1 .. Prova)
    OBVIOUS
  <2>2. IsFiniteSet(1 .. Prova) /\ 1 .. Prova \subseteq Int
    BY Calendario, AteFinito
  <2> HIDE DEF S
  <2> QED BY <2>1, <2>2, FS_Subset
<1>2. diasQueRecebem(dias, desde, fase) = EmSequencia(S)
  BY DEF diasQueRecebem
<1> HIDE DEF S
<1> QED BY <1>1, <1>2, EmSequenciaUmaVez DEF IsInjective

\* Compacting keeps every id, once, and leaves no place repeated.
LEMMA CompactarUmaVez ==
    ASSUME NEW as \in Seq(Linhas), NEW desde \in Int,
           NEW dias, DOMAIN dias \subseteq 1 .. Prova, NEW concluidos, SemRepetir(as)
    PROVE  /\ SemRepetir(CompactarAtividades(as, dias, desde, concluidos))
           /\ IdsDe(CompactarAtividades(as, dias, desde, concluidos)) = IdsDe(as)
           /\ SemColisao(as) => SemColisao(CompactarAtividades(as, dias, desde, concluidos))
<1> DEFINE uteis    == diasQueRecebem(dias, desde, faseDe(dias, desde))
           E        == {i \in DOMAIN as : ~as[i].antecipada}
           F        == {i \in DOMAIN as : as[i].antecipada}
           conteudo == SubFila(as, E)
           fixas    == SubFila(as, F)
           ancoras  == {dt \in ToSet(uteis) :
                          ancorado(dias, dt, CargaNoDia(conteudo, dt) > 0, concluidos)}
           r        == CompactarAtividades(as, dias, desde, concluidos)
<1>1. r = IF uteis = <<>> THEN as
          ELSE ComAntecipadas(Empacotar(conteudo, uteis, ancoras), ordenar(fixas), ToSet(uteis))
  BY DEF CompactarAtividades
<1>2. /\ conteudo \in Seq(Linhas) /\ ToSet(conteudo) = {as[i] : i \in E}
      /\ IdsDe(conteudo) = {as[i].id : i \in E} /\ SemRepetir(conteudo)
      /\ SemColisao(as) => SemColisao(conteudo)
  BY SubFilaDoLugar, SubFilaUmaVez
<1>3. /\ fixas \in Seq(Linhas) /\ ToSet(fixas) = {as[i] : i \in F}
      /\ IdsDe(fixas) = {as[i].id : i \in F} /\ SemRepetir(fixas)
      /\ SemColisao(as) => SemColisao(fixas)
  BY SubFilaDoLugar, SubFilaUmaVez
<1>4. uteis \in Seq(1 .. Prova) /\ IsInjective(uteis)
  <2>1. uteis \in Seq({dt \in 1 .. Prova : dt >= desde})
    BY DiasQueRecebemTipo
  <2>2. {dt \in 1 .. Prova : dt >= desde} \subseteq 1 .. Prova
    OBVIOUS
  <2> HIDE DEF uteis
  <2>3. uteis \in Seq(1 .. Prova)
    BY <2>1, <2>2, SeqCabe
  <2> QED BY <2>3, DiasUmaVez DEF uteis
<1>5. E \cup F = DOMAIN as /\ E \cap F = {}
  OBVIOUS
<1> HIDE DEF uteis, conteudo, fixas, ancoras, r
<1>6. /\ ordenar(fixas) \in Seq(Linhas) /\ ToSet(ordenar(fixas)) = ToSet(fixas)
      /\ IdsDe(ordenar(fixas)) = IdsDe(fixas) /\ SemRepetir(ordenar(fixas))
      /\ SemColisao(fixas) => SemColisao(ordenar(fixas))
  BY <1>3, ordenarUmaVez
<1>7. CASE uteis = <<>>
  BY <1>1, <1>7 DEF r
<1>8. CASE uteis # <<>>
  <2> DEFINE e == Empacotar(conteudo, uteis, ancoras)
             o == ordenar(fixas)
  <2>1. SemRepetir(e) /\ IdsDe(e) = IdsDe(conteudo)
    BY <1>2, <1>4, <1>8, EmpacotarIds
  <2>2. e \in Seq(Linhas)
    <3>1. uteis \in Seq({dt \in 1 .. Prova : dt >= 1})
      <4>1. {dt \in 1 .. Prova : dt >= 1} = 1 .. Prova
        BY Calendario
      <4> QED BY <1>4, <4>1
    <3>2. e \in Seq(Vindas(Linhas, 1))
      BY <1>2, <1>8, <3>1, EmpacotarTipo
    <3>3. Vindas(Linhas, 1) \subseteq Linhas
      BY DEF Vindas
    <3> HIDE DEF e
    <3> QED BY <3>2, <3>3, SeqCabe
  <2>3. SemColisao(as) => SemColisao(e) /\ Densa(e, ToSet(uteis)) /\ Aparte(e, o, ToSet(uteis))
    <3> SUFFICES ASSUME SemColisao(as)
                 PROVE  SemColisao(e) /\ Densa(e, ToSet(uteis)) /\ Aparte(e, o, ToSet(uteis))
      OBVIOUS
    <3>1. Arrumada(e, ToSet(uteis), ToSet(uteis), conteudo)
      BY <1>2, <1>4, <1>8, EmpacotarLugares
    <3> HIDE DEF e, o
    <3>2. ASSUME NEW i \in DOMAIN e, NEW k \in DOMAIN o, e[i].data \notin ToSet(uteis), MesmoLugar(e[i], o[k])
          PROVE  FALSE
      <4>1. e[i] \in ToSet(conteudo) /\ o[k] \in ToSet(fixas)
        BY <1>6, <3>1, <3>2 DEF Arrumada, ToSet, o
      <4>2. PICK x \in E : e[i] = as[x]
        BY <1>2, <4>1
      <4>3. PICK y \in F : o[k] = as[y]
        BY <1>3, <4>1
      <4>4. x = y
        BY <3>2, <4>2, <4>3 DEF SemColisao, MesmoLugar
      <4> QED BY <1>5, <4>4
    <3>3. Aparte(e, o, ToSet(uteis))
      BY <3>2 DEF Aparte
    <3> QED BY <3>1, <3>3 DEF Arrumada
  <2> HIDE DEF e, o
  <2>4. o \in Seq(Linhas) /\ SemRepetir(o) /\ IdsDe(o) = IdsDe(fixas) /\ (SemColisao(as) => SemColisao(o))
    BY <1>3, <1>6 DEF o
  <2>5. /\ IdsDe(ComAntecipadas(e, o, ToSet(uteis))) = IdsDe(e) \cup IdsDe(o)
        /\ SemRepetir(e) /\ SemRepetir(o) /\ IdsDe(e) \cap IdsDe(o) = {}
              => SemRepetir(ComAntecipadas(e, o, ToSet(uteis)))
        /\ SemColisao(e) /\ Densa(e, ToSet(uteis)) /\ SemColisao(o) /\ Aparte(e, o, ToSet(uteis))
              => SemColisao(ComAntecipadas(e, o, ToSet(uteis)))
    BY <2>2, <2>4, ComAntecipadasUmaVez
  <2>6. r = ComAntecipadas(e, o, ToSet(uteis))
    BY <1>1, <1>8 DEF e, o
  <2>7. IdsDe(e) \cap IdsDe(o) = {} /\ IdsDe(e) \cup IdsDe(o) = IdsDe(as)
    <3>1. IdsDe(e) = {as[i].id : i \in E} /\ IdsDe(o) = {as[i].id : i \in F}
      BY <1>2, <1>3, <2>1, <2>4
    <3>2. {as[i].id : i \in E} \cap {as[i].id : i \in F} = {}
      BY DEF SemRepetir
    <3>3. {as[i].id : i \in E} \cup {as[i].id : i \in F} = IdsDe(as)
      BY <1>5 DEF IdsDe
    <3> QED BY <3>1, <3>2, <3>3
  <2>8. SemRepetir(r) /\ IdsDe(r) = IdsDe(as) /\ (SemColisao(as) => SemColisao(r))
    BY <2>1, <2>3, <2>4, <2>5, <2>6, <2>7
  <2> QED BY <2>8 DEF r
<1> QED BY <1>7, <1>8

-----------------------------------------------------------------------------
(* Reinforcement repeats no id and no place.                               *)

\* A number is its quotient and its remainder.
LEMMA DivisaoUnica ==
    ASSUME NEW a \in Nat, NEW b \in Nat, NEW c \in Nat, c >= 1, a \div c = b \div c, a % c = b % c
    PROVE  a = b
<1>1. a = c * (a \div c) + (a % c)
  OBVIOUS
<1>2. b = c * (b \div c) + (b % c)
  OBVIOUS
<1> QED BY <1>1, <1>2

\* The n-th reinforcement block, and what it is.
DoReforco(n, fila, vazios, carga, ultimo, cursor) ==
    BlocoDeReforco(ultimo + n, vazios[((n - 1) \div carga) + 1], (n - 1) % carga,
                   fila[((cursor + n - 1) % Len(fila)) + 1])

BlocosDeReforco(fila, vazios, carga, ultimo, cursor) ==
    [n \in 1 .. Len(vazios) * carga |-> DoReforco(n, fila, vazios, carga, ultimo, cursor)]

\* Their ids are larger than `ultimo' and they lie on the days to fill, no two
\* with one id or in one place.
SaoNovos(t, vazios, ultimo) ==
    /\ \A n \in DOMAIN t : t[n].data \in ToSet(vazios) /\ t[n].id \in Nat /\ t[n].id > ultimo
    /\ SemRepetir(t) /\ SemColisao(t)

\* The reinforcement blocks are rows on the days they fill, with ids of their
\* own, no two in one place.
LEMMA DoReforcoUmaVez ==
    ASSUME NEW fila \in Seq(Repetivel), fila # <<>>,
           NEW vazios \in Seq(1 .. Prova), IsInjective(vazios), NEW carga \in Nat, carga >= 1,
           NEW ultimo \in Nat, NEW cursor
    PROVE  SaoNovos(BlocosDeReforco(fila, vazios, carga, ultimo, cursor), vazios, ultimo)
<1> DEFINE t == BlocosDeReforco(fila, vazios, carga, ultimo, cursor)
           l == Len(vazios)
           q(n) == ((n - 1) \div carga) + 1
           m(n) == (n - 1) % carga
<1>1. l \in Nat /\ DOMAIN vazios = 1 .. l
  BY SeqEhFuncao
<1>2. l * carga \in Nat /\ DOMAIN t = 1 .. l * carga
  <2>1. DOMAIN t = 1 .. l * carga
    BY DEF BlocosDeReforco
  <2> HIDE DEF l, t
  <2> QED BY <1>1, <2>1
<1>3. ASSUME NEW n \in DOMAIN t
      PROVE  /\ n \in Nat /\ t[n].id = ultimo + n /\ t[n].data = vazios[q(n)] /\ t[n].posicao = m(n)
             /\ n - 1 \in Nat /\ q(n) \in 1 .. l
  <2>1. t[n] = DoReforco(n, fila, vazios, carga, ultimo, cursor)
    BY <1>2 DEF BlocosDeReforco
  <2>2. t[n].id = ultimo + n /\ t[n].data = vazios[q(n)] /\ t[n].posicao = m(n)
    BY <2>1 DEF DoReforco, BlocoDeReforco
  <2> HIDE DEF l
  <2>3. n \in Nat /\ n - 1 \in Nat /\ n - 1 < l * carga
    BY <1>2
  <2>4. q(n) \in 1 .. l
    BY <1>1, <2>3, DiaDoReforco
  <2> QED BY <2>2, <2>3, <2>4
<1> HIDE DEF l, t
<1>4. ASSUME NEW n \in DOMAIN t PROVE t[n].data \in ToSet(vazios)
  <2>1. q(n) \in DOMAIN vazios /\ t[n].data = vazios[q(n)]
    BY <1>1, <1>3
  <2> HIDE DEF q
  <2> QED BY <2>1 DEF ToSet
<1>5. ASSUME NEW n \in DOMAIN t PROVE t[n].id \in Nat /\ t[n].id > ultimo
  <2>1. t[n].id = ultimo + n /\ n \in Nat /\ n - 1 \in Nat
    BY <1>3
  <2>2. ultimo + n \in Nat /\ ultimo + n > ultimo
    BY <2>1
  <2> QED BY <2>1, <2>2
<1>6. SemRepetir(t)
  <2>1. ASSUME NEW j \in DOMAIN t, NEW k \in DOMAIN t, t[j].id = t[k].id PROVE j = k
    <3>1. ultimo + j = ultimo + k /\ j \in Nat /\ k \in Nat
      BY <1>3, <2>1
    <3> QED BY <3>1
  <2> QED BY <2>1 DEF SemRepetir
<1>7. SemColisao(t)
  <2>1. ASSUME NEW j \in DOMAIN t, NEW k \in DOMAIN t, t[j].data = t[k].data, t[j].posicao = t[k].posicao
        PROVE  j = k
    <3>1. vazios[q(j)] = vazios[q(k)] /\ m(j) = m(k) /\ q(j) \in DOMAIN vazios /\ q(k) \in DOMAIN vazios
      BY <1>1, <1>3, <2>1
    <3>2. q(j) = q(k)
      <4> HIDE DEF q
      <4> QED BY <3>1 DEF IsInjective
    <3>3. j - 1 \in Nat /\ k - 1 \in Nat /\ j \in Nat /\ k \in Nat
      BY <1>3
    <3>4. (j - 1) \div carga = (k - 1) \div carga
      <4>1. (j - 1) \div carga \in Int /\ (k - 1) \div carga \in Int
        BY <3>3, ParteInteira
      <4> QED BY <3>2, <4>1
    <3>5. j - 1 = k - 1
      BY <3>1, <3>3, <3>4, DivisaoUnica
    <3> QED BY <3>3, <3>5
  <2> QED BY <2>1 DEF SemColisao
<1> QED BY <1>4, <1>5, <1>6, <1>7 DEF SaoNovos, t

\* The list `r' has the ids of `as', each once, and others larger than `ultimo'.
ComNovos(r, as, ultimo) ==
    /\ SemRepetir(r) /\ IdsDe(as) \subseteq IdsDe(r)
    /\ \A x \in IdsDe(r) \ IdsDe(as) : x > ultimo

\* Reinforcement keeps every id, gives new ones, and repeats no place.
LEMMA ReforcarUmaVez ==
    ASSUME NEW as \in Seq(Linhas), NEW fila \in Seq(Repetivel), fila # <<>>,
           NEW vazios \in Seq(1 .. Prova), IsInjective(vazios), NEW carga \in Nat, carga >= 1,
           NEW ultimo \in Nat, \A x \in IdsDe(as) : x <= ultimo, SemRepetir(as),
           \A i \in DOMAIN as : as[i].data \notin ToSet(vazios)
    PROVE  /\ ComNovos(Reforcar(as, fila, vazios, carga, ultimo), as, ultimo)
           /\ SemColisao(as) => SemColisao(Reforcar(as, fila, vazios, carga, ultimo))
<1> DEFINE r == Reforcar(as, fila, vazios, carga, ultimo)
           cursor == reforcosJaUsados(as)
           t == BlocosDeReforco(fila, vazios, carga, ultimo, cursor)
<1>1. r = as \o t
  BY DEF Reforcar, BlocosDeReforco, DoReforco
<1> HIDE DEF cursor
<1>2. SaoNovos(t, vazios, ultimo)
  BY DoReforcoUmaVez
<1>3. t \in Seq({t[n] : n \in DOMAIN t}) /\ as \in Seq({as[i] : i \in DOMAIN as})
  <2>1. Len(vazios) * carga \in Nat /\ DOMAIN t = 1 .. Len(vazios) * carga
    <3>1. Len(vazios) \in Nat
      BY SeqEhFuncao
    <3> QED BY <3>1 DEF BlocosDeReforco
  <2> DEFINE T == {t[n] : n \in DOMAIN t}
             A == {as[i] : i \in DOMAIN as}
  <2>2. t \in [1 .. Len(vazios) * carga -> T]
    <3>1. \A n \in DOMAIN t : t[n] \in T
      OBVIOUS
    <3>2. t = [n \in 1 .. Len(vazios) * carga |-> t[n]]
      BY DEF BlocosDeReforco
    <3> HIDE DEF t, T
    <3> QED BY <2>1, <3>1, <3>2
  <2>3. \A i \in DOMAIN as : as[i] \in A
    OBVIOUS
  <2> HIDE DEF t, T, A
  <2>4. t \in Seq(T)
    BY <2>1, <2>2, FuncaoEhSeq
  <2>5. as \in Seq(A)
    BY <2>3, DeOutroConjunto
  <2> QED BY <2>4, <2>5 DEF T, A
<1> DEFINE V == {t[n] : n \in DOMAIN t} \cup {as[i] : i \in DOMAIN as}
<1>4. t \in Seq(V) /\ as \in Seq(V)
  <2> HIDE DEF t
  <2>1. {t[n] : n \in DOMAIN t} \subseteq V /\ {as[i] : i \in DOMAIN as} \subseteq V
    OBVIOUS
  <2> HIDE DEF V
  <2> QED BY <1>3, <2>1, SeqCabe
<1> HIDE DEF t, V, r
<1>5. IdsDe(as) \cap IdsDe(t) = {} /\ \A x \in IdsDe(t) : x > ultimo
  <2>1. ASSUME NEW x \in IdsDe(t) PROVE x > ultimo /\ x \notin IdsDe(as)
    <3>1. x \in Nat /\ x > ultimo
      BY <1>2 DEF IdsDe, SaoNovos
    <3>2. ~(x <= ultimo)
      BY <3>1
    <3> QED BY <3>1, <3>2
  <2> QED BY <2>1
<1>6. IdsDe(r) = IdsDe(as) \cup IdsDe(t) /\ SemRepetir(r)
  <2>1. /\ IdsDe(as \o t) = IdsDe(as) \cup IdsDe(t)
        /\ SemRepetir(as) /\ SemRepetir(t) /\ IdsDe(as) \cap IdsDe(t) = {} => SemRepetir(as \o t)
    BY <1>4, JuntaSemRepetir
  <2>2. SemRepetir(t)
    BY <1>2 DEF SaoNovos
  <2> QED BY <1>1, <1>5, <2>1, <2>2
<1>7. ComNovos(r, as, ultimo)
  BY <1>5, <1>6 DEF ComNovos
<1>8. SemColisao(as) => SemColisao(r)
  <2>1. \A x \in DOMAIN as, y \in DOMAIN t : ~MesmoLugar(as[x], t[y])
    BY <1>2 DEF MesmoLugar, SaoNovos
  <2>2. SemColisao(t)
    BY <1>2 DEF SaoNovos
  <2> QED BY <1>1, <1>4, <2>1, <2>2, JuntaSemColisao
<1> QED BY <1>7, <1>8 DEF r

\* A day with no load has no row.
LEMMA DiaVazio ==
    ASSUME NEW as \in Seq(Linhas), NEW dt, CargaNoDia(as, dt) = 0
    PROVE  \A i \in DOMAIN as : as[i].data # dt
<1> DEFINE X == {i \in DOMAIN as : as[i].data = dt}
<1>1. Cardinality(X) = 0
  BY DEF CargaNoDia
<1>2. X \in SUBSET DOMAIN as
  OBVIOUS
<1> HIDE DEF X
<1>3. IsFiniteSet(X)
  BY <1>2, PartesFinitas
<1>4. X = {}
  BY <1>1, <1>3, FS_EmptySet
<1> QED BY <1>4 DEF X

\* Filling the days left empty keeps every id, gives new ones and repeats no place.
LEMMA PreencherUmaVez ==
    ASSUME NEW as \in Seq(Linhas), NEW fila \in Seq(Repetivel), NEW desde \in Int,
           NEW dias, DOMAIN dias \subseteq 1 .. Prova, NEW concluidos,
           NEW ultimo \in Nat, \A x \in IdsDe(as) : x <= ultimo, SemRepetir(as)
    PROVE  /\ ComNovos(PreencherVazios(as, dias, fila, desde, concluidos, ultimo), as, ultimo)
           /\ SemColisao(as) => SemColisao(PreencherVazios(as, dias, fila, desde, concluidos, ultimo))
<1> DEFINE uteis == {dt \in ToSet(diasQueRecebem(dias, desde, "base")) : dias[dt].tipo = "est"}
           E == {dt \in uteis : CargaNoDia(as, dt) = 0 /\ dt \notin concluidos}
           carga == Min({cargaTipica(as, uteis), Len(fila)})
           r == PreencherVazios(as, dias, fila, desde, concluidos, ultimo)
<1>1. r = IF fila = <<>> \/ uteis = {} THEN as
          ELSE Reforcar(as, fila, EmSequencia(E), carga, ultimo)
  BY DEF PreencherVazios
<1>2. IsFiniteSet(uteis) /\ uteis \in SUBSET (1 .. Prova)
  <2>1. ToSet(diasQueRecebem(dias, desde, "base")) \subseteq DOMAIN dias
    BY DiasQueRecebemTipo
  <2>2. uteis \in SUBSET (1 .. Prova)
    BY <2>1
  <2>3. IsFiniteSet(1 .. Prova)
    BY Calendario, AteFinito
  <2> HIDE DEF uteis
  <2>4. IsFiniteSet(uteis)
    BY <2>2, <2>3, FS_Subset
  <2> QED BY <2>2, <2>4
<1> HIDE DEF uteis, r
<1>3. /\ EmSequencia(E) \in Seq(1 .. Prova) /\ IsInjective(EmSequencia(E))
      /\ ToSet(EmSequencia(E)) = E
  <2>1. E \in SUBSET uteis
    OBVIOUS
  <2> HIDE DEF E
  <2>2. IsFiniteSet(E) /\ E \in SUBSET Int /\ E \subseteq 1 .. Prova
    <3>1. IsFiniteSet(E)
      BY <1>2, <2>1, FS_Subset
    <3>2. E \subseteq 1 .. Prova
      BY <1>2, <2>1
    <3> QED BY <3>1, <3>2, Calendario
  <2>3. EmSequencia(E) \in Seq(E) /\ ToSet(EmSequencia(E)) = E
    BY <2>2, EmSequenciaTodos
  <2>4. IsInjective(EmSequencia(E))
    BY <2>2, EmSequenciaUmaVez DEF IsInjective
  <2>5. EmSequencia(E) \in Seq(1 .. Prova)
    BY <2>2, <2>3, SeqCabe
  <2> QED BY <2>3, <2>4, <2>5
<1>4. ASSUME fila # <<>> PROVE carga \in Nat /\ carga >= 1
  <2>1. Len(fila) \in Nat /\ Len(fila) # 0
    BY <1>4, SeqEhFuncao, EmptySeq
  <2>2. cargaTipica(as, uteis) \in Nat /\ cargaTipica(as, uteis) >= 1
    BY <1>2, cargaTipicaTipo
  <2>3. Len(fila) >= 1
    BY <2>1
  <2> QED BY <2>1, <2>2, <2>3, MenorDosDois
<1>5. \A i \in DOMAIN as : as[i].data \notin ToSet(EmSequencia(E))
  BY <1>3, DiaVazio
<1> HIDE DEF E, carga
<1>6. CASE fila = <<>> \/ uteis = {}
  <2>1. ComNovos(as, as, ultimo)
    BY DEF ComNovos
  <2> QED BY <1>1, <1>6, <2>1 DEF r
<1>7. CASE ~(fila = <<>> \/ uteis = {})
  <2>1. /\ ComNovos(Reforcar(as, fila, EmSequencia(E), carga, ultimo), as, ultimo)
        /\ SemColisao(as) => SemColisao(Reforcar(as, fila, EmSequencia(E), carga, ultimo))
    BY <1>3, <1>4, <1>5, <1>7, ReforcarUmaVez
  <2> QED BY <1>1, <1>7, <2>1 DEF r
<1> QED BY <1>6, <1>7

\* `n' has each id once, every id of `as' with a record, and of the ids stored
\* before only those of `as'.
Conserva(n, as, regs) ==
    /\ SemRepetir(n) /\ IdsDe(as) \cap DOMAIN regs \subseteq IdsDe(n)
    /\ IdsDe(n) \cap IdsDe(cronograma) \subseteq IdsDe(as)

\* Keeping is kept from one list to the next.
LEMMA ConservaDepois ==
    ASSUME NEW a, NEW b, NEW c, NEW regs, Conserva(b, a, regs), Conserva(c, b, regs)
    PROVE  Conserva(c, a, regs)
BY DEF Conserva

\* Closing the gaps keeps the rows and repeats no place.
LEMMA compactarDesdeUmaVez ==
    ASSUME NEW as \in Seq(Linhas), SemRepetir(as), NEW desde \in Int,
           NEW base, NEW cfg, PlanoBom(PlanoDe(cfg)), NEW regs, cronograma \in Seq(Linhas)
    PROVE  /\ compactarDesde(as, desde, base, cfg, regs) \in Seq(Linhas)
           /\ \A outros : Conserva(compactarDesde(as, desde, base, cfg, regs), as, outros)
           /\ SemColisao(as) => SemColisao(compactarDesde(as, desde, base, cfg, regs))
           /\ IdsDe(as) \subseteq IdsDe(compactarDesde(as, desde, base, cfg, regs))
<1> DEFINE plano == PlanoDe(cfg)
           conc == DiasConcluidos(base, regs)
           c == CompactarAtividades(as, plano.dias, desde, conc)
           fila == FilaDeReforco(plano.itens, plano.dias, Caderno)
           r == compactarDesde(as, desde, base, cfg, regs)
<1>1. r = PreencherVazios(c, plano.dias, fila, desde, conc, UltimoId(c))
  BY DEF compactarDesde, Reforcado
<1>2. plano.itens \in Seq(Blocos) /\ DOMAIN plano.dias \subseteq 1 .. Prova
  BY DEF PlanoBom
<1>0. r \in Seq(Linhas)
  <2>1. r \in Seq(Vindas(Linhas, desde) \cup DeReforco)
    BY compactarDesdeTipo
  <2>2. Vindas(Linhas, desde) \cup DeReforco \subseteq Linhas
    BY DEF Vindas, DeReforco
  <2> HIDE DEF r
  <2> QED BY <2>1, <2>2, SeqCabe
<1> HIDE DEF plano, conc, r
<1>3. SemRepetir(c) /\ IdsDe(c) = IdsDe(as) /\ (SemColisao(as) => SemColisao(c))
  <2> DEFINE d == plano.dias
  <2>1. DOMAIN d \subseteq 1 .. Prova /\ c = CompactarAtividades(as, d, desde, conc)
    BY <1>2
  <2> HIDE DEF d, c
  <2>2. /\ SemRepetir(CompactarAtividades(as, d, desde, conc))
        /\ IdsDe(CompactarAtividades(as, d, desde, conc)) = IdsDe(as)
        /\ SemColisao(as) => SemColisao(CompactarAtividades(as, d, desde, conc))
    BY <2>1, CompactarUmaVez
  <2> QED BY <2>1, <2>2
<1>4. fila \in Seq(Repetivel)
  BY <1>2, FilaDeReforcoTipo
<1>5. c \in Seq(Linhas)
  <2>1. c \in Seq(Vindas(Linhas, desde))
    BY <1>2, CompactarTipo
  <2>2. Vindas(Linhas, desde) \subseteq Linhas
    BY DEF Vindas
  <2> HIDE DEF c
  <2> QED BY <2>1, <2>2, SeqCabe
<1> HIDE DEF c, fila
<1>6. UltimoId(c) \in Nat /\ \A x \in IdsDe(c) \cup IdsDe(cronograma) : x <= UltimoId(c)
  BY <1>5, UltimoIdTipo
<1>7. ComNovos(r, c, UltimoId(c)) /\ (SemColisao(c) => SemColisao(r))
  BY <1>1, <1>2, <1>3, <1>4, <1>5, <1>6, PreencherUmaVez
<1>8. IdsDe(r) \cap IdsDe(cronograma) \subseteq IdsDe(as)
  <2> SUFFICES ASSUME NEW x \in IdsDe(r), x \in IdsDe(cronograma), x \notin IdsDe(as) PROVE FALSE
    OBVIOUS
  <2>1. x > UltimoId(c) /\ x <= UltimoId(c)
    BY <1>3, <1>6, <1>7 DEF ComNovos
  <2>2. x \in Nat
    BY IdsDeTipo
  <2> QED BY <1>6, <2>1, <2>2
<1>9. SemRepetir(r) /\ IdsDe(as) \subseteq IdsDe(r) /\ (SemColisao(as) => SemColisao(r))
  BY <1>3, <1>7 DEF ComNovos
<1>10. \A outros : Conserva(r, as, outros)
  BY <1>8, <1>9 DEF Conserva
<1> QED BY <1>0, <1>9, <1>10 DEF r

-----------------------------------------------------------------------------
(* Arranging what is studied repeats no id and no place.                   *)

\* The list has the ids `I', each once.
TemIds(r, I) == SemRepetir(r) /\ IdsDe(r) = I

\* Numbering days keeps every id and every day in its place.
LEMMA renumerarIds ==
    ASSUME NEW as \in Seq(Linhas), NEW dias
    PROVE  /\ MesmosIds(renumerar(as, dias), as)
           /\ \A i \in DOMAIN as : renumerar(as, dias)[i].data = as[i].data
<1>1. \A i \in DOMAIN as : as[i] \in Linhas
  BY LugarEhNumero
<1> QED BY <1>1 DEF renumerar, MesmosIds, Linhas

\* What is received keeps the ids of both lists, and repeats no place that what
\* stays did not.
LEMMA ReceberUmaVez ==
    ASSUME NEW as, NEW ficam \in Seq(Linhas), NEW adiante \in Seq(Linhas),
           NEW destino, adiante # <<>> => destino \in 1 .. Prova,
           SemRepetir(ficam), SemRepetir(adiante), IdsDe(ficam) \cap IdsDe(adiante) = {}
    PROVE  LET r == ReceberAdiante(as, ficam, adiante, destino).as
           IN  /\ TemIds(r, IdsDe(ficam) \cup IdsDe(adiante))
               /\ SemColisao(ficam) => SemColisao(r)
<1> DEFINE base == Len(doDia(ficam, destino))
           chegam == NoDia(adiante, destino, base)
           postas == [k \in DOMAIN chegam |-> [chegam[k] EXCEPT !.antecipada = TRUE]]
           dias == DiasDe(adiante) \cup {destino}
           j == ficam \o postas
           r == ReceberAdiante(as, ficam, adiante, destino)
<1>1. r = IF adiante # <<>>
          THEN [as |-> renumerar(j, dias), mudou |-> TRUE]
          ELSE IF ficam # as THEN [as |-> renumerar(ficam, DiasDe(ficam)), mudou |-> TRUE]
          ELSE [as |-> as, mudou |-> FALSE]
  BY DEF ReceberAdiante
<1>2. base \in Nat
  <2>1. doDia(ficam, destino) \in Seq(Linhas)
    BY doDiaTipo
  <2> QED BY <2>1, SeqEhFuncao
<1> HIDE DEF r, base
<1>3. CASE adiante # <<>>
  <2>1. r.as = renumerar(j, dias)
    BY <1>1, <1>3
  <2>2. chegam \in Seq(Linhas) /\ MesmosIds(chegam, adiante)
    BY <1>2, <1>3, NoDiaIds
  <2>3. \A k \in DOMAIN adiante : chegam[k].data = destino
    BY <1>2, NoDiaLugares
  <2> HIDE DEF chegam
  <2>4. ASSUME NEW k \in DOMAIN chegam
        PROVE  /\ chegam[k] \in Linhas /\ postas[k] = [chegam[k] EXCEPT !.antecipada = TRUE]
               /\ postas[k] \in Linhas /\ postas[k].id = chegam[k].id /\ postas[k].data = chegam[k].data
    <3>1. chegam[k] \in Linhas
      BY <2>2, LugarEhNumero
    <3>2. postas[k] = [chegam[k] EXCEPT !.antecipada = TRUE]
      OBVIOUS
    <3> QED BY <3>1, <3>2 DEF Linhas
  <2>5. DOMAIN postas = DOMAIN chegam /\ postas \in [DOMAIN chegam -> Linhas]
    BY <2>4
  <2> HIDE DEF postas
  <2>6. postas \in Seq(Linhas)
    BY <2>2, <2>5, LugarALugar
  <2>7. MesmosIds(postas, adiante)
    BY <2>2, <2>4, <2>5 DEF MesmosIds
  <2>8. \A k \in DOMAIN postas : postas[k].data = destino
    BY <2>2, <2>3, <2>4, <2>5 DEF MesmosIds
  <2>9. SemRepetir(j) /\ IdsDe(j) = IdsDe(ficam) \cup IdsDe(adiante) /\ j \in Seq(Linhas)
    <3>1. SemRepetir(ficam \o postas) /\ IdsDe(ficam \o postas) = IdsDe(ficam) \cup IdsDe(adiante)
      BY <2>6, <2>7, JuntaDoDia
    <3>2. ficam \o postas \in Seq(Linhas)
      BY <2>6, JuntaTodos
    <3> QED BY <3>1, <3>2
  <2>10. ASSUME SemColisao(ficam), NEW x \in DOMAIN j, NEW y \in DOMAIN j,
                j[x].data \notin dias, MesmoLugar(j[x], j[y])
         PROVE  x = y
    <3>1. /\ \A i \in DOMAIN ficam : (ficam \o postas)[i] = ficam[i]
          /\ \A k \in DOMAIN postas : (ficam \o postas)[Len(ficam) + k] = postas[k]
          /\ \A i \in DOMAIN (ficam \o postas) :
                i \in DOMAIN ficam \/ \E k \in DOMAIN postas : i = Len(ficam) + k
      BY <2>6, LugaresJuntos
    <3>2. destino \in dias /\ j[y].data = j[x].data
      BY <2>10 DEF MesmoLugar
    <3>3. ASSUME NEW i \in DOMAIN j, j[i].data \notin dias PROVE i \in DOMAIN ficam /\ j[i] = ficam[i]
      BY <2>8, <3>1, <3>2, <3>3
    <3>4. x \in DOMAIN ficam /\ y \in DOMAIN ficam /\ MesmoLugar(ficam[x], ficam[y])
      BY <2>10, <3>2, <3>3
    <3> QED BY <2>10, <3>4 DEF SemColisao, MesmoLugar
  <2> HIDE DEF j, dias
  <2>11. ASSUME SemColisao(ficam) PROVE SemColisao(renumerar(j, dias))
    BY <2>9, <2>10, <2>11, renumerarLugares
  <2>12. MesmosIds(renumerar(j, dias), j)
    BY <2>9, renumerarIds
  <2>13. IdsDe(renumerar(j, dias)) = IdsDe(j) /\ (SemRepetir(j) => SemRepetir(renumerar(j, dias)))
    BY <2>12, MesmosIdsUmaVez
  <2> QED BY <2>1, <2>9, <2>11, <2>13 DEF TemIds, r
<1>4. CASE adiante = <<>>
  <2>1. IdsDe(adiante) = {}
    BY <1>4 DEF IdsDe
  <2> DEFINE d == DiasDe(ficam)
  <2>2. \A x, y \in DOMAIN ficam : ficam[x].data \notin d /\ MesmoLugar(ficam[x], ficam[y]) => x = y
    BY DEF DiasDe
  <2> HIDE DEF d
  <2>3. SemColisao(renumerar(ficam, d)) /\ MesmosIds(renumerar(ficam, d), ficam)
    BY <2>2, renumerarLugares
  <2>4. IdsDe(renumerar(ficam, d)) = IdsDe(ficam)
        /\ (SemRepetir(ficam) => SemRepetir(renumerar(ficam, d)))
    BY <2>3, MesmosIdsUmaVez
  <2>5. r.as = renumerar(ficam, d) \/ r.as = ficam
    BY <1>1, <1>4 DEF d
  <2> QED BY <2>1, <2>3, <2>4, <2>5 DEF TemIds, r
<1> QED BY <1>3, <1>4

\* What arranging may take out of a list: a pending block of studied topics.
JaEstudado(as, i, regs) ==
    coberta(as[i]) /\ ~Concluida(regs, as[i].id) /\ Topicos(as[i]) \subseteq TopicosFeitos(as, regs)

\* Arranging keeps ids of the list, each once and every one with a record or
\* topics not studied among them, and leaves no place repeated that was not.
LEMMA ArrumarUmaVez ==
    ASSUME NEW as \in Seq(Linhas), NEW dias, DOMAIN dias \subseteq 1 .. Prova,
           NEW h \in Int, NEW regs, SemRepetir(as)
    PROVE  LET r == ArrumarEstudado(as, dias, h, regs).as
           IN  /\ r \in Seq(Linhas) /\ SemRepetir(r)
               /\ IdsDe(r) \subseteq IdsDe(as) /\ IdsDe(as) \cap DOMAIN regs \subseteq IdsDe(r)
               /\ SemColisao(as) => SemColisao(r)
               /\ \A i \in DOMAIN as : ~JaEstudado(as, i, regs) => as[i].id \in IdsDe(r)
<1> DEFINE destino   == DiaDoEstudoFeito(dias, h)
           feito     == TopicosFeitos(as, regs)
           adianta(a) == /\ Concluida(regs, a.id) /\ a.disciplina # SemDisciplina
                         /\ a.data > h /\ destino # 0
           pendente(a) == coberta(a) /\ ~Concluida(regs, a.id) /\ a.data >= h
           some(a)   == pendente(a) /\ Topicos(a) \subseteq feito /\ ~Lancada(regs, a.id)
           sobra(a)  == IF pendente(a) /\ ~(Topicos(a) \subseteq feito) THEN SemTopicos(a, feito) ELSE a
           fs        == [i \in DOMAIN as |-> sobra(as[i])]
           E         == {i \in DOMAIN as : ~adianta(as[i]) /\ ~some(as[i])}
           ficam     == SubFila(fs, E)
           X         == {i \in DOMAIN as : adianta(as[i])}
           f         == SubFila(as, X)
           adiante   == ordenar(f)
           r         == ReceberAdiante(as, ficam, adiante, destino).as
<1>1. ArrumarEstudado(as, dias, h, regs).as = r
  BY DEF ArrumarEstudado
<1>0. r \in Seq(Linhas)
  <2> DEFINE B == Boas(feito, Marcados(as), regs, h, destino)
  <2>1. ArrumarEstudado(as, dias, h, regs).as \in Seq(B)
    BY ArrumarDeixaEmOrdem
  <2>2. B \subseteq Linhas
    BY DEF Boas
  <2> HIDE DEF r, B
  <2>3. r \in Seq(B)
    BY <1>1, <2>1
  <2> QED BY <2>2, <2>3, SeqCabe
<1>2. destino # 0 => destino \in 1 .. Prova
  BY DiaDoEstudoTipo
<1>3. \A i \in DOMAIN as : as[i] \in Linhas
  BY LugarEhNumero
<1>4. ASSUME NEW i \in DOMAIN as
      PROVE  fs[i] \in Linhas /\ fs[i].id = as[i].id /\ MesmoLugar(fs[i], as[i])
  <2> DEFINE a == as[i]
  <2>1. a \in Linhas /\ fs[i] = sobra(a)
    BY <1>3
  <2>2. a.posicao = SemTopicos(a, feito).posicao
    BY <2>1 DEF SemTopicos, Linhas
  <2>3. /\ SemTopicos(a, feito) \in Linhas /\ SemTopicos(a, feito).id = a.id
        /\ SemTopicos(a, feito).data = a.data
    <3> HIDE DEF a
    <3> QED BY <2>1, SemTopicosTipo
  <2>4. sobra(a) = a \/ sobra(a) = SemTopicos(a, feito)
    OBVIOUS
  <2> HIDE DEF a, fs, sobra
  <2> QED BY <2>1, <2>2, <2>3, <2>4 DEF MesmoLugar, a
<1>5. DOMAIN fs = DOMAIN as /\ fs \in [DOMAIN as -> Linhas]
  BY <1>4
<1>6. E \in SUBSET DOMAIN fs /\ X \in SUBSET DOMAIN as /\ E \cap X = {}
  BY <1>5
<1>7. X # {} => destino # 0
  OBVIOUS
<1>8. \A i \in DOMAIN as : i \notin E /\ i \notin X => as[i].id \notin DOMAIN regs
  BY DEF Lancada
<1>19. \A i \in DOMAIN as : ~JaEstudado(as, i, regs) => i \in E \/ i \in X
  BY DEF JaEstudado
<1> HIDE DEF fs, E, X, destino
<1>9. fs \in Seq(Linhas) /\ MesmosIds(fs, as)
  BY <1>4, <1>5, LugarALugar DEF MesmosIds
<1>10. IdsDe(fs) = IdsDe(as) /\ SemRepetir(fs) /\ (SemColisao(as) => SemColisao(fs))
  <2>1. IdsDe(fs) = IdsDe(as) /\ SemRepetir(fs)
    BY <1>9, MesmosIdsUmaVez
  <2>2. ASSUME SemColisao(as) PROVE SemColisao(fs)
    BY <1>4, <1>5, <2>2, MesmosLugares
  <2> QED BY <2>1, <2>2
<1>11. /\ ficam \in Seq(Linhas) /\ SemRepetir(ficam) /\ (SemColisao(as) => SemColisao(ficam))
       /\ IdsDe(ficam) = {as[i].id : i \in E}
  <2>1. /\ IdsDe(SubFila(fs, E)) = {fs[i].id : i \in E}
        /\ SemRepetir(fs) => SemRepetir(SubFila(fs, E))
        /\ SemColisao(fs) => SemColisao(SubFila(fs, E))
    BY <1>6, <1>9, SubFilaUmaVez
  <2>2. SubFila(fs, E) \in Seq(Linhas)
    BY <1>6, <1>9, SubFilaDoLugar
  <2>3. {fs[i].id : i \in E} = {as[i].id : i \in E}
    BY <1>4, <1>5, <1>6
  <2> QED BY <1>10, <2>1, <2>2, <2>3
<1>12. f \in Seq(Linhas) /\ SemRepetir(f) /\ IdsDe(f) = {as[i].id : i \in X} /\ (X = {} => f = <<>>)
  <2>1. /\ IdsDe(SubFila(as, X)) = {as[i].id : i \in X}
        /\ SemRepetir(as) => SemRepetir(SubFila(as, X))
    BY <1>6, SubFilaUmaVez
  <2>2. /\ SubFila(as, X) \in Seq(Linhas)
        /\ Len(SubFila(as, X)) = Cardinality(X)
    BY <1>6, SubFilaDoLugar
  <2>3. X = {} => Len(SubFila(as, X)) = 0
    BY <2>2, FS_EmptySet
  <2> HIDE DEF f
  <2>4. X = {} => SubFila(as, X) = <<>>
    BY <2>2, <2>3, EmptySeq
  <2> QED BY <2>1, <2>2, <2>4 DEF f
<1> HIDE DEF f, ficam
<1>13. adiante \in Seq(Linhas) /\ SemRepetir(adiante) /\ IdsDe(adiante) = {as[i].id : i \in X}
  BY <1>12, ordenarUmaVez
<1>14. adiante # <<>> => destino \in 1 .. Prova
  <2>1. f = <<>> => adiante = <<>>
    <3>1. DOMAIN adiante = DOMAIN f
      BY DEF ordenar
    <3> HIDE DEF adiante
    <3>2. f = <<>> => Len(adiante) = 0
      BY <1>12, <1>13, <3>1, SeqEhFuncao
    <3> QED BY <1>13, <3>2, EmptySeq
  <2> QED BY <1>2, <1>7, <1>12, <2>1
<1> HIDE DEF adiante
<1>15. IdsDe(ficam) \cap IdsDe(adiante) = {}
  <2> SUFFICES ASSUME NEW i \in E, NEW k \in X, as[i].id = as[k].id PROVE FALSE
    BY <1>11, <1>13
  <2>1. i \in DOMAIN as /\ k \in DOMAIN as
    BY <1>5, <1>6
  <2>2. i = k
    BY <2>1 DEF SemRepetir
  <2> QED BY <1>6, <2>2
<1>16. TemIds(r, IdsDe(ficam) \cup IdsDe(adiante)) /\ (SemColisao(ficam) => SemColisao(r))
  BY <1>11, <1>13, <1>14, <1>15, ReceberUmaVez
<1> HIDE DEF r
<1>17. IdsDe(r) \subseteq IdsDe(as)
  BY <1>5, <1>6, <1>11, <1>13, <1>16 DEF TemIds, IdsDe
<1>18. IdsDe(as) \cap DOMAIN regs \subseteq IdsDe(r)
  BY <1>8, <1>11, <1>13, <1>16 DEF TemIds, IdsDe
<1>20. \A i \in DOMAIN as : ~JaEstudado(as, i, regs) => as[i].id \in IdsDe(r)
  BY <1>11, <1>13, <1>16, <1>19 DEF TemIds
<1> QED BY <1>0, <1>1, <1>11, <1>16, <1>17, <1>18, <1>20 DEF TemIds

\* What `emDiaComOEstudado' returns keeps the rows with a record and repeats
\* neither id nor place.
LEMMA emDiaUmaVez ==
    ASSUME NEW as \in Seq(Linhas), SemRepetir(as), NEW cfg, PlanoBom(PlanoDe(cfg)), NEW regs,
           hoje \in Int, cronograma \in Seq(Linhas)
    PROVE  LET r == emDiaComOEstudado(as, cfg, regs)
           IN  /\ r \in Seq(Linhas) /\ Conserva(r, as, regs)
               /\ SemColisao(as) => SemColisao(r)
<1> DEFINE dias == PlanoDe(cfg).dias
           destino == DiaDoEstudoFeito(dias, hoje)
           p == ArrumarEstudado(as, dias, hoje, regs)
           a == p.as
           desde == Max({destino, hoje}) + 1
           c == compactarDesde(a, desde, a, cfg, regs)
           r == emDiaComOEstudado(as, cfg, regs)
<1>1. r = IF p.mudou THEN c ELSE a
  BY DEF emDiaComOEstudado, Fechado
<1>2. DOMAIN dias \subseteq 1 .. Prova
  BY DEF PlanoBom
<1>3. destino \in Int
  BY <1>2, DiaDoEstudoTipo
<1>4. desde \in Int
  <2> HIDE DEF destino
  <2> QED BY <1>3, MaiorDosDois DEF Ate
<1>5. /\ a \in Seq(Linhas) /\ SemRepetir(a) /\ IdsDe(a) \subseteq IdsDe(as)
      /\ IdsDe(as) \cap DOMAIN regs \subseteq IdsDe(a) /\ (SemColisao(as) => SemColisao(a))
  BY <1>2, ArrumarUmaVez
<1> HIDE DEF r, desde, p
<1>6. Conserva(a, as, regs)
  BY <1>5 DEF Conserva
<1> HIDE DEF a
<1>7. /\ compactarDesde(a, desde, a, cfg, regs) \in Seq(Linhas)
      /\ \A outros : Conserva(compactarDesde(a, desde, a, cfg, regs), a, outros)
      /\ SemColisao(a) => SemColisao(compactarDesde(a, desde, a, cfg, regs))
  BY <1>4, <1>5, compactarDesdeUmaVez
<1> HIDE DEF c
<1>8. c \in Seq(Linhas) /\ Conserva(c, a, regs) /\ (SemColisao(a) => SemColisao(c))
  BY <1>7 DEF c
<1>9. Conserva(c, as, regs)
  BY <1>6, <1>8, ConservaDepois
<1> QED BY <1>1, <1>5, <1>6, <1>8, <1>9 DEF r

-----------------------------------------------------------------------------
(* What the student asks for by hand repeats no id, and no place but in a  *)
(* trade.                                                                  *)

\* `r' has the rows of `as', each once, and repeats no place that it did not.
Guarda(r, as) ==
    r \in Seq(Linhas) /\ TemIds(r, IdsDe(as)) /\ (SemColisao(as) => SemColisao(r))

\* Any set of rows is one that moves leave.
LEMMA LinhasAberta == Aberta(Linhas) /\ Livre(Linhas)
BY DEF Aberta, Livre

\* Row by row, with the same ids and places.
LEMMA MesmasLinhas ==
    ASSUME NEW as, SemRepetir(as), NEW r \in Seq(Linhas), MesmosIds(r, as),
           \A i \in DOMAIN as : MesmoLugar(r[i], as[i])
    PROVE  Guarda(r, as)
<1>1. IdsDe(r) = IdsDe(as) /\ (SemRepetir(as) => SemRepetir(r))
  BY MesmosIdsUmaVez
<1>2. ASSUME SemColisao(as) PROVE SemColisao(r)
  BY <1>2, MesmosLugares DEF MesmosIds
<1> QED BY <1>1, <1>2 DEF Guarda, TemIds

\* A stretch of a list.
LEMMA TrechoUmaVez ==
    ASSUME NEW lista \in Seq(Linhas), SemRepetir(lista), NEW m \in Int, NEW n \in Int,
           m >= 1, n <= Len(lista)
    PROVE  /\ SubSeq(lista, m, n) \in Seq(Linhas) /\ SemRepetir(SubSeq(lista, m, n))
           /\ IdsDe(SubSeq(lista, m, n)) = {lista[i].id : i \in m .. n}
<1> DEFINE t == SubSeq(lista, m, n)
           q == [k \in DOMAIN t |-> m + k - 1]
<1>1. Len(lista) \in Nat /\ DOMAIN lista = 1 .. Len(lista) /\ \A i \in DOMAIN lista : lista[i] \in Linhas
  BY SeqEhFuncao
<1>2. m .. n \in SUBSET DOMAIN lista
  BY <1>1
<1>3. /\ t \in Seq(Linhas) /\ Len(t) = (IF m <= n THEN n - m + 1 ELSE 0)
      /\ \A i \in 1 .. n - m + 1 : t[i] = lista[m + i - 1]
  BY <1>1, <1>2, SubSeqProperties
<1> HIDE DEF t
<1>4. DOMAIN t = 1 .. Len(t)
  BY <1>3, SeqEhFuncao
<1>5. DOMAIN t = 1 .. n - m + 1
  BY <1>3, <1>4
<1>6. q \in [DOMAIN t -> m .. n]
  BY <1>5
<1>7. \A k \in DOMAIN t : t[k] = lista[q[k]] /\ q[k] = m + k - 1
  BY <1>3, <1>5
<1>8. \A i \in m .. n : i - m + 1 \in DOMAIN t /\ q[i - m + 1] = i
  BY <1>5
<1>9. Escolhe(t, lista, m .. n)
  <2>1. \A j, k \in DOMAIN t : q[j] = q[k] => j = k
    BY <1>5
  <2>2. \A k \in DOMAIN t : t[k] = lista[q[k]]
    BY <1>7
  <2> HIDE DEF q
  <2>3. \A i \in m .. n : \E k \in DOMAIN t : q[k] = i
    BY <1>8
  <2> DEFINE I == m .. n
  <2>4. q \in [DOMAIN t -> I] /\ \A i \in I : \E k \in DOMAIN t : q[k] = i
    BY <1>6, <2>3
  <2> HIDE DEF I
  <2>5. Escolhe(t, lista, I)
    BY <2>1, <2>2, <2>4 DEF Escolhe
  <2> QED BY <2>5 DEF I
<1>10. /\ IdsDe(t) = {lista[i].id : i \in m .. n}
       /\ SemRepetir(lista) => SemRepetir(t)
  BY <1>2, <1>9, EscolheUmaVez
<1> QED BY <1>3, <1>10 DEF t

\* Fitting a row in a day where it is not numbers the day anew.
LEMMA EncaixarUmaVez ==
    ASSUME NEW lista \in Seq(Linhas), SemRepetir(lista), NEW posicao \in Int, NEW a \in Linhas,
           a.id \notin IdsDe(lista), \A k \in DOMAIN lista : lista[k].data = a.data
    PROVE  /\ Encaixar(lista, posicao, a) \in Seq(Linhas)
           /\ TemIds(Encaixar(lista, posicao, a), IdsDe(lista) \cup {a.id})
           /\ SemColisao(Encaixar(lista, posicao, a))
           /\ \A k \in DOMAIN Encaixar(lista, posicao, a) : Encaixar(lista, posicao, a)[k].data = a.data
<1> DEFINE p == Max({0, Min({posicao, Len(lista)})})
           L == SubSeq(lista, 1, (p + 1) - 1)
           R == SubSeq(lista, p + 1, Len(lista))
           u == <<a>>
           s == L \o u \o R
<1>1. Len(lista) \in Nat /\ DOMAIN lista = 1 .. Len(lista)
  BY SeqEhFuncao
<1>2. p \in 0 .. Len(lista)
  <2> DEFINE q == Min({posicao, Len(lista)})
  <2>1. \E x \in {posicao, Len(lista)} : \A y \in {posicao, Len(lista)} : x <= y
    BY <1>1
  <2>2. q \in {posicao, Len(lista)} /\ \A y \in {posicao, Len(lista)} : q <= y
    BY <2>1 DEF Min
  <2>3. q \in Int /\ q <= Len(lista)
    BY <1>1, <2>2
  <2> HIDE DEF q
  <2>4. Max({0, q}) = Ate(0, q)
    BY <2>3, MaiorDosDois
  <2>5. Ate(0, q) \in 0 .. Len(lista)
    BY <1>1, <2>3 DEF Ate
  <2> QED BY <2>4, <2>5 DEF q
<1>3. Encaixar(lista, posicao, a) = EmOrdem(s)
  BY DEF Encaixar, InsertAt
<1> HIDE DEF p
<1>4. (p + 1) - 1 = p /\ p + 1 >= 1 /\ p <= Len(lista) /\ p \in Int /\ p + 1 \in Int
  BY <1>1, <1>2
<1>5. /\ L \in Seq(Linhas) /\ SemRepetir(L)
      /\ IdsDe(L) = {lista[i].id : i \in 1 .. p}
  BY <1>4, TrechoUmaVez
<1>6. /\ R \in Seq(Linhas) /\ SemRepetir(R)
      /\ IdsDe(R) = {lista[i].id : i \in p + 1 .. Len(lista)}
  BY <1>1, <1>4, TrechoUmaVez
<1> HIDE DEF L, R
<1>7. /\ u \in Seq(Linhas) /\ DOMAIN u = {1} /\ u[1] = a
  BY DEF u
<1> HIDE DEF u
<1>8. SemRepetir(u) /\ IdsDe(u) = {a.id}
  BY <1>7 DEF SemRepetir, IdsDe
<1>9. 1 .. p \in SUBSET DOMAIN lista /\ p + 1 .. Len(lista) \in SUBSET DOMAIN lista
      /\ (1 .. p) \cup (p + 1 .. Len(lista)) = DOMAIN lista /\ (1 .. p) \cap (p + 1 .. Len(lista)) = {}
  BY <1>1, <1>2
<1>10. IdsDe(L) \cup IdsDe(R) = IdsDe(lista) /\ IdsDe(L) \cap IdsDe(R) = {}
  <2> DEFINE X == 1 .. p
             Y == p + 1 .. Len(lista)
  <2>1. X \subseteq DOMAIN lista /\ Y \subseteq DOMAIN lista /\ X \cup Y = DOMAIN lista /\ X \cap Y = {}
    BY <1>9
  <2>2. IdsDe(L) = {lista[i].id : i \in X} /\ IdsDe(R) = {lista[i].id : i \in Y}
    BY <1>5, <1>6
  <2> HIDE DEF X, Y
  <2>3. \A x \in X, y \in Y : lista[x].id # lista[y].id
    BY <2>1 DEF SemRepetir
  <2>4. IdsDe(L) \cap IdsDe(R) = {}
    BY <2>2, <2>3
  <2>5. IdsDe(L) \cup IdsDe(R) = IdsDe(lista)
    BY <2>1, <2>2 DEF IdsDe
  <2> QED BY <2>4, <2>5
<1>11. L \o u \in Seq(Linhas) /\ SemRepetir(L \o u) /\ IdsDe(L \o u) = IdsDe(L) \cup {a.id}
  <2>1. IdsDe(L) \cap IdsDe(u) = {}
    BY <1>8, <1>10
  <2>2. /\ IdsDe(L \o u) = IdsDe(L) \cup IdsDe(u)
        /\ SemRepetir(L) /\ SemRepetir(u) /\ IdsDe(L) \cap IdsDe(u) = {} => SemRepetir(L \o u)
    BY <1>5, <1>7, JuntaSemRepetir
  <2> QED BY <1>5, <1>7, <1>8, <2>1, <2>2, JuntaTodos
<1>12. s \in Seq(Linhas) /\ SemRepetir(s) /\ IdsDe(s) = IdsDe(lista) \cup {a.id}
  <2> DEFINE l == L \o u
  <2>0. l \in Seq(Linhas) /\ SemRepetir(l) /\ IdsDe(l) = IdsDe(L) \cup {a.id}
    BY <1>11
  <2> HIDE DEF l
  <2>1. IdsDe(l) \cap IdsDe(R) = {}
    BY <1>10, <2>0
  <2>2. /\ IdsDe(l \o R) = IdsDe(l) \cup IdsDe(R)
        /\ SemRepetir(l) /\ SemRepetir(R) /\ IdsDe(l) \cap IdsDe(R) = {} => SemRepetir(l \o R)
    BY <1>6, <2>0, JuntaSemRepetir
  <2>3. l \o R \in Seq(Linhas)
    BY <1>6, <2>0, JuntaTodos
  <2>4. SemRepetir(l \o R) /\ IdsDe(l \o R) = IdsDe(lista) \cup {a.id}
    BY <1>6, <1>10, <2>0, <2>1, <2>2
  <2> QED BY <2>3, <2>4 DEF l
<1>13. \A k \in DOMAIN s : s[k].data = a.data
  <2> DEFINE N == {b \in Linhas : b.data = a.data}
  <2>2. lista \in Seq(N) /\ u \in Seq(N)
    <3>1. \A k \in DOMAIN lista : lista[k] \in N
      BY LugarEhNumero
    <3>2. \A k \in DOMAIN u : u[k] \in N
      BY <1>7
    <3> HIDE DEF N
    <3> QED BY <1>7, <3>1, <3>2, DeOutroConjunto
  <2> HIDE DEF N
  <2>3. \A i \in DOMAIN lista : lista[i] \in N
    BY <2>2, LugarEhNumero
  <2>4. L \in Seq(N)
    <3>1. (p + 1) - 1 \in Int /\ \A i \in 1 .. (p + 1) - 1 : lista[i] \in N
      BY <1>4, <1>9, <2>3
    <3> QED BY <3>1, SubSeqProperties DEF L
  <2>5. R \in Seq(N)
    <3>1. p + 1 \in Int /\ Len(lista) \in Int /\ \A i \in p + 1 .. Len(lista) : lista[i] \in N
      BY <1>1, <1>4, <1>9, <2>3
    <3> QED BY <3>1, SubSeqProperties DEF R
  <2>6. L \o u \in Seq(N)
    BY <2>2, <2>4, JuntaTodos
  <2>7. s \in Seq(N)
    BY <2>5, <2>6, JuntaTodos
  <2> HIDE DEF s
  <2>8. \A k \in DOMAIN s : s[k] \in N
    BY <2>7, LugarEhNumero
  <2> QED BY <2>8 DEF N
<1> HIDE DEF s
<1>14. /\ SemColisao(EmOrdem(s)) /\ MesmosIds(EmOrdem(s), s)
       /\ \A k \in DOMAIN s : EmOrdem(s)[k].data = s[k].data
  BY <1>12, EmOrdemLugares
<1>15. IdsDe(EmOrdem(s)) = IdsDe(s) /\ (SemRepetir(s) => SemRepetir(EmOrdem(s)))
  BY <1>14, MesmosIdsUmaVez
<1>16. EmOrdem(s) \in Seq(Linhas)
  <2>1. Solto(Linhas)
    BY LinhaMuda DEF Solto
  <2> QED BY <1>12, <2>1, EmOrdemTipo
<1>17. \A k \in DOMAIN EmOrdem(s) : EmOrdem(s)[k].data = a.data
  BY <1>13, <1>14 DEF MesmosIds
<1> QED BY <1>3, <1>12, <1>14, <1>15, <1>16, <1>17 DEF TemIds

\* Moving a row keeps every row and repeats no place.
LEMMA MoverUmaVez ==
    ASSUME NEW as \in Seq(Linhas), SemRepetir(as), NEW id \in IdsDe(as),
           NEW destino \in 1 .. Prova, NEW posicao \in Int
    PROVE  Guarda(Mover(as, id, destino, posicao), as)
<1> DEFINE eu == PorID(as, id)
           movida == [eu EXCEPT !.data = destino, !.movida = TRUE]
           R == {i \in DOMAIN as : as[i].id # id}
           O == {i \in DOMAIN as : as[i].id # id /\ as[i].data # destino}
           restantes == SubFila(as, R)
           outros == SubFila(as, O)
           lista == doDia(restantes, destino)
           cheio == Encaixar(lista, posicao, movida)
           dias == {eu.data} \ {destino}
           j == outros \o cheio
           n == renumerar(j, dias)
<1>1. Mover(as, id, destino, posicao) = ordenar(n)
  BY DEF Mover
<1>2. \A i \in DOMAIN as : as[i] \in Linhas
  BY LugarEhNumero
<1>3. movida \in Linhas /\ movida.id = id /\ movida.data = destino
  <2>1. eu \in Linhas /\ eu.id = id
    BY PorIDTipo
  <2> HIDE DEF eu
  <2> QED BY <2>1 DEF Linhas
<1>4. R \in SUBSET DOMAIN as /\ O \in SUBSET R
  OBVIOUS
<1>5. \A i \in R : i \notin O => as[i].data = destino
  OBVIOUS
<1>6. \A i \in O : as[i].data # destino
  OBVIOUS
<1>7. IdsDe(as) = {as[i].id : i \in R} \cup {id} /\ \A i \in R : as[i].id # id
  BY DEF IdsDe
<1> HIDE DEF eu, movida, R, O
<1>8. restantes \in Seq(Linhas) /\ SemRepetir(restantes) /\ IdsDe(restantes) = {as[i].id : i \in R}
  BY <1>4, SubFilaDoLugar, SubFilaUmaVez
<1>9. /\ outros \in Seq(Linhas) /\ SemRepetir(outros) /\ IdsDe(outros) = {as[i].id : i \in O}
      /\ SemColisao(as) => SemColisao(outros)
  BY <1>4, SubFilaDoLugar, SubFilaUmaVez
<1>10. \A k \in DOMAIN outros : outros[k].data # destino
  <2>1. ToSet(outros) = {as[i] : i \in O}
    BY <1>4, SubFilaDoLugar
  <2> QED BY <1>6, <2>1 DEF ToSet
<1>11. /\ lista \in Seq(Linhas) /\ SemRepetir(lista) /\ \A k \in DOMAIN lista : lista[k].data = destino
       /\ IdsDe(lista) = {as[i].id : i \in {x \in R : as[x].data = destino}}
  <2> DEFINE D == {k \in DOMAIN restantes : restantes[k].data = destino}
             X == {x \in R : as[x].data = destino}
  <2> HIDE DEF restantes
  <2>1. /\ doDia(restantes, destino) \in Seq(Linhas)
        /\ \A k \in DOMAIN doDia(restantes, destino) : doDia(restantes, destino)[k].data = destino
        /\ IdsDe(doDia(restantes, destino)) = {restantes[i].id : i \in D}
        /\ SemRepetir(restantes) => SemRepetir(doDia(restantes, destino))
    BY <1>8, doDiaUmaVez
  <2>2. ToSet(restantes) = {as[i] : i \in R}
    BY <1>4, SubFilaDoLugar DEF restantes
  <2>3. {restantes[i].id : i \in D} = {as[i].id : i \in X}
    <3>1. ASSUME NEW i \in D PROVE \E x \in X : as[x] = restantes[i]
      BY <2>2 DEF ToSet
    <3>2. ASSUME NEW x \in X PROVE \E i \in D : as[x] = restantes[i]
      BY <2>2 DEF ToSet
    <3> HIDE DEF D, X
    <3>3. ASSUME NEW i \in D PROVE restantes[i].id \in {as[x].id : x \in X}
      BY <3>1
    <3>4. ASSUME NEW x \in X PROVE as[x].id \in {restantes[i].id : i \in D}
      BY <3>2
    <3> QED BY <3>3, <3>4
  <2> QED BY <1>8, <2>1, <2>3
<1> HIDE DEF restantes, outros, lista
<1>12. /\ cheio \in Seq(Linhas) /\ SemColisao(cheio) /\ \A k \in DOMAIN cheio : cheio[k].data = destino
       /\ SemRepetir(cheio) /\ IdsDe(cheio) = IdsDe(lista) \cup {id}
  <2>1. movida.id \notin IdsDe(lista) /\ \A k \in DOMAIN lista : lista[k].data = movida.data
    BY <1>3, <1>7, <1>11
  <2>2. /\ Encaixar(lista, posicao, movida) \in Seq(Linhas)
        /\ TemIds(Encaixar(lista, posicao, movida), IdsDe(lista) \cup {movida.id})
        /\ SemColisao(Encaixar(lista, posicao, movida))
        /\ \A k \in DOMAIN Encaixar(lista, posicao, movida) :
              Encaixar(lista, posicao, movida)[k].data = movida.data
    BY <1>3, <1>11, <2>1, EncaixarUmaVez
  <2> QED BY <1>3, <2>2 DEF TemIds
<1> HIDE DEF cheio
<1>13. IdsDe(outros) \cap IdsDe(cheio) = {} /\ IdsDe(outros) \cup IdsDe(cheio) = IdsDe(as)
  <2>1. ASSUME NEW x \in O, NEW y \in R, as[y].data = destino, as[x].id = as[y].id PROVE FALSE
    BY <1>4, <1>6, <2>1 DEF SemRepetir
  <2>2. IdsDe(outros) \cap IdsDe(cheio) = {}
    BY <1>4, <1>7, <1>9, <1>11, <1>12, <2>1
  <2>3. IdsDe(outros) \cup IdsDe(cheio) = IdsDe(as)
    <3> DEFINE X == {x \in R : as[x].data = destino}
    <3>1. O \cup X = R
      BY <1>4, <1>5
    <3> HIDE DEF X
    <3> QED BY <1>7, <1>9, <1>11, <1>12, <3>1 DEF X
  <2> QED BY <2>2, <2>3
<1>14. j \in Seq(Linhas) /\ SemRepetir(j) /\ IdsDe(j) = IdsDe(as)
  <2>1. /\ IdsDe(outros \o cheio) = IdsDe(outros) \cup IdsDe(cheio)
        /\ SemRepetir(outros) /\ SemRepetir(cheio) /\ IdsDe(outros) \cap IdsDe(cheio) = {}
              => SemRepetir(outros \o cheio)
    BY <1>9, <1>12, JuntaSemRepetir
  <2> QED BY <1>9, <1>12, <1>13, <2>1, JuntaTodos
<1>15. ASSUME SemColisao(as) PROVE SemColisao(j)
  <2>1. \A x \in DOMAIN outros, y \in DOMAIN cheio : ~MesmoLugar(outros[x], cheio[y])
    BY <1>10, <1>12 DEF MesmoLugar
  <2> QED BY <1>9, <1>12, <1>15, <2>1, JuntaSemColisao
<1> HIDE DEF j, dias
<1>16. MesmosIds(n, j)
  BY <1>14, renumerarIds
<1>17. ASSUME SemColisao(j) PROVE SemColisao(n)
  <2>1. \A x, y \in DOMAIN j : j[x].data \notin dias /\ MesmoLugar(j[x], j[y]) => x = y
    BY <1>17 DEF SemColisao, MesmoLugar
  <2> QED BY <1>14, <2>1, renumerarLugares
<1>18. n \in Seq(Linhas) /\ SemRepetir(n) /\ IdsDe(n) = IdsDe(as)
  <2>1. Solto(Linhas)
    BY LinhaMuda DEF Solto
  <2>2. renumerar(j, dias) \in Seq(Linhas)
    BY <1>14, <2>1, renumerarTipo
  <2>3. IdsDe(n) = IdsDe(j) /\ (SemRepetir(j) => SemRepetir(n))
    BY <1>16, MesmosIdsUmaVez
  <2> QED BY <1>14, <2>2, <2>3
<1> HIDE DEF n
<1>19. /\ ordenar(n) \in Seq(Linhas) /\ IdsDe(ordenar(n)) = IdsDe(n)
       /\ SemRepetir(n) => SemRepetir(ordenar(n))
       /\ SemColisao(n) => SemColisao(ordenar(n))
  BY <1>18, ordenarUmaVez
<1> QED BY <1>1, <1>15, <1>17, <1>18, <1>19 DEF Guarda, TemIds

\* A trade keeps every row; it may repeat a place.
LEMMA TrocarUmaVez ==
    ASSUME NEW as \in Seq(Linhas), SemRepetir(as), NEW id \in IdsDe(as),
           NEW destino \in 1 .. Prova, NEW posicao \in Int
    PROVE  /\ Trocar(as, id, destino, posicao) \in Seq(Linhas)
           /\ TemIds(Trocar(as, id, destino, posicao), IdsDe(as))
<1> DEFINE eu == PorID(as, id)
           lista == doDia(as, destino)
           alvo == lista[posicao + 1].id
           troca(a) ==
             CASE a.id = id   -> AMao(a, destino, posicao)
               [] a.id = alvo -> AMao(a, eu.data, eu.posicao)
               [] OTHER       -> a
           r == [i \in DOMAIN as |-> troca(as[i])]
           t == Trocar(as, id, destino, posicao)
<1>1. t = IF eu.data = destino /\ eu.posicao = posicao THEN as
          ELSE IF posicao \notin 0 .. Len(lista) - 1 THEN Mover(as, id, destino, posicao)
          ELSE IF alvo = id THEN as
          ELSE ordenar(r)
  BY DEF Trocar, AMao
<1> HIDE DEF eu, lista, alvo, t
<1>2. t = as \/ t = Mover(as, id, destino, posicao) \/ (posicao \in Nat /\ t = ordenar(r))
  <2>1. posicao \in 0 .. Len(lista) - 1 => posicao \in Nat
    OBVIOUS
  <2> HIDE DEF r
  <2> QED BY <1>1, <2>1
<1>3. t \in Seq(Linhas)
  BY LinhasAberta, TrocarTipo DEF t
<1>4. CASE t = as
  BY <1>4 DEF TemIds, t
<1>5. CASE t = Mover(as, id, destino, posicao)
  <2>1. Guarda(Mover(as, id, destino, posicao), as)
    BY MoverUmaVez
  <2> QED BY <1>5, <2>1 DEF Guarda, t
<1>6. CASE posicao \in Nat /\ t = ordenar(r)
  <2>1. eu.data \in 1 .. Prova /\ eu.posicao \in Nat
    <3>1. eu \in Linhas
      BY PorIDTipo DEF eu
    <3> QED BY <3>1, LinhaTipo
  <2>2. ASSUME NEW i \in DOMAIN as PROVE r[i] \in Linhas /\ r[i].id = as[i].id
    <3> DEFINE a == as[i]
    <3>1. a \in Linhas
      BY LugarEhNumero
    <3> HIDE DEF a
    <3>2. AMao(a, destino, posicao) \in Linhas /\ AMao(a, eu.data, eu.posicao) \in Linhas
      BY <1>6, <2>1, <3>1, LinhasAberta, AMaoTipo
    <3>3. AMao(a, destino, posicao).id = a.id /\ AMao(a, eu.data, eu.posicao).id = a.id
      BY <3>1 DEF AMao, Linhas
    <3>4. \/ troca(a) = AMao(a, destino, posicao) \/ troca(a) = AMao(a, eu.data, eu.posicao)
          \/ troca(a) = a
      OBVIOUS
    <3>5. r[i] = troca(a)
      BY DEF a
    <3> HIDE DEF r, troca
    <3>6. r[i] \in Linhas /\ r[i].id = a.id
      BY <3>1, <3>2, <3>3, <3>4, <3>5
    <3> QED BY <3>6 DEF a
  <2>3. DOMAIN r = DOMAIN as /\ r \in [DOMAIN as -> Linhas]
    BY <2>2
  <2> HIDE DEF r
  <2>4. r \in Seq(Linhas) /\ MesmosIds(r, as)
    BY <2>2, <2>3, LugarALugar DEF MesmosIds
  <2>5. IdsDe(r) = IdsDe(as) /\ (SemRepetir(as) => SemRepetir(r))
    BY <2>4, MesmosIdsUmaVez
  <2>6. IdsDe(ordenar(r)) = IdsDe(r) /\ (SemRepetir(r) => SemRepetir(ordenar(r)))
    BY <2>4, ordenarUmaVez
  <2> QED BY <1>3, <1>6, <2>5, <2>6 DEF TemIds, t
<1> QED BY <1>2, <1>3, <1>4, <1>5, <1>6 DEF t

\* Postponing keeps every row and repeats no place.
LEMMA AdiarDiaUmaVez ==
    ASSUME NEW as \in Seq(Linhas), SemRepetir(as), NEW cadeia \in Seq(1 .. Prova),
           \A j, k \in DOMAIN cadeia : cadeia[j] = cadeia[k] => j = k
    PROVE  Guarda(AdiarDia(as, cadeia), as)
<1> DEFINE vaiPara(dt)  == CHOOSE k \in DOMAIN cadeia : cadeia[k] = dt
           saem         == {cadeia[k] : k \in 1 .. Len(cadeia) - 1}
           proximo(dt)  == cadeia[vaiPara(dt) + 1]
           saida        == [i \in DOMAIN as |->
                               IF as[i].data \in saem THEN OutroDia(as[i], proximo(as[i].data)) ELSE as[i]]
           afetados     == UNION {{dt, proximo(dt)} : dt \in saem \cap DiasDe(as)}
           r            == AdiarDia(as, cadeia)
<1>1. r = renumerar(saida, afetados)
  BY DEF AdiarDia, OutroDia
<1>2. r \in Seq(Linhas)
  BY LinhasAberta, AdiarDiaTipo
<1> HIDE DEF r
<1>3. ASSUME NEW dt \in saem PROVE proximo(dt) \in 1 .. Prova
  <2>1. Len(cadeia) \in Nat /\ DOMAIN cadeia = 1 .. Len(cadeia)
    BY SeqEhFuncao
  <2>2. PICK k \in 1 .. Len(cadeia) - 1 : cadeia[k] = dt
    OBVIOUS
  <2>3. k \in DOMAIN cadeia /\ k + 1 \in DOMAIN cadeia
    BY <2>1, <2>2
  <2>4. vaiPara(dt) \in DOMAIN cadeia /\ cadeia[vaiPara(dt)] = dt
    BY <2>2, <2>3
  <2>5. vaiPara(dt) = k
    BY <2>2, <2>3, <2>4
  <2>6. cadeia[k + 1] \in 1 .. Prova
    BY <2>3, LugarEhNumero
  <2> HIDE DEF vaiPara
  <2> QED BY <2>5, <2>6
<1>4. ASSUME NEW i \in DOMAIN as, as[i].data \in saem PROVE proximo(as[i].data) \in afetados
  <2> DEFINE dt == as[i].data
  <2>1. dt \in saem \cap DiasDe(as)
    BY <1>4 DEF DiasDe
  <2> HIDE DEF dt, saem, proximo
  <2>2. {dt, proximo(dt)} \in {{d, proximo(d)} : d \in saem \cap DiasDe(as)}
    BY <2>1
  <2>3. proximo(dt) \in afetados
    BY <2>2
  <2> QED BY <2>3 DEF dt
<1> HIDE DEF proximo, saem, afetados
<1>5. ASSUME NEW i \in DOMAIN as
      PROVE  /\ saida[i] \in Linhas /\ saida[i].id = as[i].id /\ saida[i].posicao = as[i].posicao
             /\ saida[i].data \notin afetados => saida[i] = as[i]
  <2> DEFINE a == as[i]
             b == OutroDia(a, proximo(a.data))
  <2>1. a \in Linhas
    BY LugarEhNumero
  <2>2. saida[i] = IF a.data \in saem THEN b ELSE a
    OBVIOUS
  <2>3. a.data \in saem => proximo(a.data) \in afetados /\ proximo(a.data) \in 1 .. Prova
    BY <1>3, <1>4
  <2> HIDE DEF a
  <2>4. CASE a.data \in saem
    <3> DEFINE dt == proximo(a.data)
    <3>1. dt \in afetados /\ dt \in 1 .. Prova
      BY <2>3, <2>4
    <3>2. OutroDia(a, dt) \in Linhas
      BY <2>1, <3>1, LinhasAberta, OutroDiaTipo
    <3> HIDE DEF dt
    <3>3. OutroDia(a, dt).id = a.id /\ OutroDia(a, dt).posicao = a.posicao /\ OutroDia(a, dt).data = dt
      BY <2>1 DEF OutroDia, Linhas
    <3> HIDE DEF saida
    <3>4. saida[i] = OutroDia(a, dt)
      BY <2>2, <2>4 DEF dt
    <3> QED BY <3>1, <3>2, <3>3, <3>4 DEF a
  <2>5. CASE a.data \notin saem
    <3> HIDE DEF saida
    <3> QED BY <2>1, <2>2, <2>5 DEF a
  <2> QED BY <2>4, <2>5
<1>6. DOMAIN saida = DOMAIN as /\ saida \in [DOMAIN as -> Linhas]
  BY <1>5
<1> HIDE DEF saida
<1>7. saida \in Seq(Linhas) /\ MesmosIds(saida, as)
  BY <1>5, <1>6, LugarALugar DEF MesmosIds
<1>8. IdsDe(saida) = IdsDe(as) /\ SemRepetir(saida)
  BY <1>7, MesmosIdsUmaVez
<1>9. ASSUME SemColisao(as) PROVE SemColisao(renumerar(saida, afetados))
  <2>1. ASSUME NEW x \in DOMAIN saida, NEW y \in DOMAIN saida, saida[x].data \notin afetados,
               MesmoLugar(saida[x], saida[y])
        PROVE  x = y
    <3>1. saida[x] = as[x] /\ saida[y] = as[y]
      BY <1>5, <1>6, <2>1 DEF MesmoLugar
    <3> QED BY <1>6, <1>9, <2>1, <3>1 DEF SemColisao, MesmoLugar
  <2> QED BY <1>7, <2>1, renumerarLugares
<1>10. MesmosIds(renumerar(saida, afetados), saida)
  BY <1>7, renumerarIds
<1>11. IdsDe(r) = IdsDe(saida) /\ SemRepetir(r)
  BY <1>1, <1>8, <1>10, MesmosIdsUmaVez
<1> QED BY <1>1, <1>2, <1>8, <1>9, <1>11 DEF Guarda, TemIds, r

\* So does bringing a row to an earlier day.
LEMMA AntecipouUmaVez ==
    ASSUME NEW as \in Seq(Linhas), SemRepetir(as), NEW id, NEW dia \in Int,
           PorID(as, id).data <= dia \/ dia \in 1 .. Prova
    PROVE  Guarda(AntecipouAtividade(as, id, dia), as)
<1> DEFINE origem == PorID(as, id).data
           base == Len(doDia(as, dia))
           saida == [i \in DOMAIN as |-> IF as[i].id = id THEN NoLugar(as[i], dia, base) ELSE as[i]]
           dias == {origem, dia}
           r == AntecipouAtividade(as, id, dia)
<1>1. r = IF origem <= dia THEN as ELSE renumerar(saida, dias)
  BY DEF AntecipouAtividade, NoLugar
<1>2. r \in Seq(Linhas)
  BY LinhasAberta, AntecipouTipo
<1>3. base \in Nat
  <2>1. doDia(as, dia) \in Seq(Linhas)
    BY doDiaUmaVez
  <2> QED BY <2>1, SeqEhFuncao
<1>4. dia \in dias /\ (~(origem <= dia) => dia \in 1 .. Prova)
  OBVIOUS
<1> HIDE DEF base, origem, dias, r
<1>5. CASE origem <= dia
  BY <1>1, <1>5 DEF Guarda, TemIds, r
<1>6. CASE ~(origem <= dia)
  <2>1. dia \in 1 .. Prova
    BY <1>4, <1>6
  <2>2. ASSUME NEW i \in DOMAIN as
        PROVE  /\ saida[i] \in Linhas /\ saida[i].id = as[i].id
               /\ saida[i].data \notin dias => saida[i] = as[i]
    <3> DEFINE a == as[i]
               b == NoLugar(a, dia, base)
    <3>1. a \in Linhas
      BY LugarEhNumero
    <3>2. saida[i] = b \/ saida[i] = a
      OBVIOUS
    <3> HIDE DEF a
    <3>3. b \in Linhas /\ b.id = a.id /\ b.data = dia
      BY <1>3, <2>1, <3>1, NoLugarTipo DEF Mesmo
    <3> HIDE DEF b, saida
    <3> QED BY <1>4, <3>1, <3>2, <3>3 DEF a
  <2>3. DOMAIN saida = DOMAIN as /\ saida \in [DOMAIN as -> Linhas]
    BY <2>2
  <2> HIDE DEF saida
  <2>4. saida \in Seq(Linhas) /\ MesmosIds(saida, as)
    BY <2>2, <2>3, LugarALugar DEF MesmosIds
  <2>5. IdsDe(saida) = IdsDe(as) /\ SemRepetir(saida)
    BY <2>4, MesmosIdsUmaVez
  <2>6. ASSUME SemColisao(as) PROVE SemColisao(renumerar(saida, dias))
    <3>1. ASSUME NEW x \in DOMAIN saida, NEW y \in DOMAIN saida, saida[x].data \notin dias,
                 MesmoLugar(saida[x], saida[y])
          PROVE  x = y
      <4>1. saida[x] = as[x] /\ saida[y] = as[y]
        BY <2>2, <2>3, <3>1 DEF MesmoLugar
      <4> QED BY <2>3, <2>6, <3>1, <4>1 DEF SemColisao, MesmoLugar
    <3> QED BY <2>4, <3>1, renumerarLugares
  <2>7. MesmosIds(renumerar(saida, dias), saida)
    BY <2>4, renumerarIds
  <2>8. r = renumerar(saida, dias)
    BY <1>1, <1>6
  <2>9. IdsDe(r) = IdsDe(saida) /\ SemRepetir(r)
    BY <2>5, <2>7, <2>8, MesmosIdsUmaVez
  <2> QED BY <1>2, <2>5, <2>6, <2>8, <2>9 DEF Guarda, TemIds, r
<1> QED BY <1>5, <1>6

\* So does taking off a mark.
LEMMA SemMarcasUmaVez ==
    ASSUME NEW as \in Seq(Linhas), SemRepetir(as), NEW desde, NEW id
    PROVE  Guarda(SemMovidas(as, desde), as) /\ Guarda(SemAntecipada(as, id), as)
<1>1. ASSUME NEW a \in Linhas
      PROVE  /\ [a EXCEPT !.movida = FALSE].id = a.id /\ MesmoLugar([a EXCEPT !.movida = FALSE], a)
             /\ [a EXCEPT !.antecipada = FALSE].id = a.id
             /\ MesmoLugar([a EXCEPT !.antecipada = FALSE], a)
  BY DEF Linhas, MesmoLugar
<1>2. \A i \in DOMAIN as : as[i] \in Linhas
  BY LugarEhNumero
<1>3. Guarda(SemMovidas(as, desde), as)
  <2> DEFINE r == SemMovidas(as, desde)
  <2>1. r \in Seq(Linhas)
    BY LinhasAberta, SemMovidasTipo
  <2>2. DOMAIN r = DOMAIN as
        /\ \A i \in DOMAIN as : r[i] = as[i] \/ r[i] = [as[i] EXCEPT !.movida = FALSE]
    BY DEF SemMovidas
  <2> HIDE DEF r
  <2>3. MesmosIds(r, as) /\ \A i \in DOMAIN as : MesmoLugar(r[i], as[i])
    BY <1>1, <1>2, <2>2 DEF MesmosIds, MesmoLugar
  <2>4. Guarda(r, as)
    BY <2>1, <2>3, MesmasLinhas
  <2> QED BY <2>4 DEF r
<1>4. Guarda(SemAntecipada(as, id), as)
  <2> DEFINE r == SemAntecipada(as, id)
  <2>1. r \in Seq(Linhas)
    BY LinhasAberta, SemAntecipadaTipo
  <2>2. DOMAIN r = DOMAIN as
        /\ \A i \in DOMAIN as : r[i] = as[i] \/ r[i] = [as[i] EXCEPT !.antecipada = FALSE]
    BY DEF SemAntecipada
  <2> HIDE DEF r
  <2>3. MesmosIds(r, as) /\ \A i \in DOMAIN as : MesmoLugar(r[i], as[i])
    BY <1>1, <1>2, <2>2 DEF MesmosIds, MesmoLugar
  <2>4. Guarda(r, as)
    BY <2>1, <2>3, MesmasLinhas
  <2> QED BY <2>4 DEF r
<1> QED BY <1>3, <1>4

-----------------------------------------------------------------------------
(* Rebuilding and splitting repeat no id and no place.                     *)

\* A proposal: rows with ids of their own, all of them new, no two in one place.
Proposta(novas) ==
    /\ novas \in Seq(Linhas) /\ SemRepetir(novas) /\ SemColisao(novas)
    /\ \A x \in IdsDe(novas) : x \notin IdsDe(cronograma)

\* The planner answers without repeating a place, whatever day it starts on.
LEMMA PlanoSemColisao ==
    ASSUME NEW cfg \in Configs
    PROVE  /\ SemColisao(PlanoDe(cfg).itens)
           /\ \A dt \in 1 .. Prova - 1 : SemColisao(PlanoDe([cfg EXCEPT !.inicio = dt]).itens)
BY LugaresDoPlano DEF SemColisao, PlanoDe

\* The planner's blocks are a proposal.
LEMMA NovasUmaVez ==
    ASSUME NEW cfg, PlanoBom(PlanoDe(cfg)), SemColisao(PlanoDe(cfg).itens), cronograma \in Seq(Linhas)
    PROVE  Proposta(Novas(cfg))
<1> DEFINE itens == PlanoDe(cfg).itens
           ultimo == UltimoId(cronograma)
           r == Novas(cfg)
<1>1. ultimo \in Nat /\ \A x \in IdsDe(cronograma) : x <= ultimo /\ x \in Nat
  <2>1. IdsDe(cronograma) \subseteq Nat
    BY IdsDeTipo
  <2> QED BY <2>1, UltimoIdTipo
<1>2. itens \in Seq(Blocos)
  BY DEF PlanoBom
<1>3. r \in Seq(Linhas)
  <2>1. DeLinhas(Novas(cfg), {})
    BY NovasTipo
  <2> QED BY <2>1, DeLinhasTipo
<1>4. /\ DOMAIN r = DOMAIN itens
      /\ \A k \in DOMAIN itens : /\ r[k].id = ultimo + k /\ r[k].data = itens[k].data
                                 /\ r[k].posicao = itens[k].posicao
  BY DEF Novas, Materializar
<1>5. \A k \in DOMAIN itens : k \in Nat /\ k >= 1
  BY <1>2, SeqEhFuncao
<1> HIDE DEF r, ultimo, itens
<1>6. SemRepetir(r)
  BY <1>1, <1>4, <1>5 DEF SemRepetir
<1>7. SemColisao(r)
  BY <1>4 DEF SemColisao, itens
<1>8. \A x \in IdsDe(r) : x \notin IdsDe(cronograma)
  <2> SUFFICES ASSUME NEW k \in DOMAIN itens, r[k].id \in IdsDe(cronograma) PROVE FALSE
    BY <1>4 DEF IdsDe
  <2>1. ultimo + k <= ultimo
    BY <1>1, <1>4
  <2> QED BY <1>1, <1>5, <2>1
<1>9. Proposta(r)
  BY <1>3, <1>6, <1>7, <1>8 DEF Proposta
<1> QED BY <1>9 DEF r

\* So is what is left of it without what is already studied.
LEMMA SemConteudoUmaVez ==
    ASSUME NEW novas, Proposta(novas), NEW atuais, NEW regs
    PROVE  Proposta(SemConteudoJaConcluido(novas, atuais, regs))
<1> DEFINE feito == TopicosFeitos(atuais, regs)
           resta(a) == IF coberta(a) THEN SemTopicos(a, feito) ELSE a
           fs == [i \in DOMAIN novas |-> resta(novas[i])]
           E == {i \in DOMAIN novas :
                    coberta(novas[i]) /\ feito # {} => ~(Topicos(novas[i]) \subseteq feito)}
           r == SemConteudoJaConcluido(novas, atuais, regs)
<1>1. r = SubFila(fs, E)
  BY DEF SemConteudoJaConcluido
<1>2. novas \in Seq(Linhas) /\ \A i \in DOMAIN novas : novas[i] \in Linhas
  BY LugarEhNumero DEF Proposta
<1>3. r \in Seq(Linhas)
  BY <1>2, LinhasAberta, SemConteudoTipo
<1> HIDE DEF r, feito
<1>4. ASSUME NEW i \in DOMAIN novas
      PROVE  fs[i] \in Linhas /\ fs[i].id = novas[i].id /\ MesmoLugar(fs[i], novas[i])
  <2> DEFINE a == novas[i]
  <2>1. a \in Linhas /\ fs[i] = resta(a)
    BY <1>2
  <2>2. a.posicao = SemTopicos(a, feito).posicao
    BY <2>1 DEF SemTopicos, Linhas
  <2>3. /\ SemTopicos(a, feito) \in Linhas /\ SemTopicos(a, feito).id = a.id
        /\ SemTopicos(a, feito).data = a.data
    <3> HIDE DEF a
    <3> QED BY <2>1, SemTopicosTipo
  <2>4. resta(a) = a \/ resta(a) = SemTopicos(a, feito)
    OBVIOUS
  <2> HIDE DEF a, fs, resta
  <2> QED BY <2>1, <2>2, <2>3, <2>4 DEF MesmoLugar, a
<1>5. DOMAIN fs = DOMAIN novas /\ fs \in [DOMAIN novas -> Linhas] /\ E \in SUBSET DOMAIN fs
  BY <1>4
<1> HIDE DEF fs, E
<1>6. fs \in Seq(Linhas) /\ MesmosIds(fs, novas)
  BY <1>2, <1>4, <1>5, LugarALugar DEF MesmosIds
<1>7. IdsDe(fs) = IdsDe(novas) /\ SemRepetir(fs)
  BY <1>6, MesmosIdsUmaVez DEF Proposta
<1>8. SemColisao(fs)
  BY <1>4, <1>5, MesmosLugares DEF Proposta
<1>9. /\ IdsDe(SubFila(fs, E)) = {fs[i].id : i \in E}
      /\ SemRepetir(fs) => SemRepetir(SubFila(fs, E))
      /\ SemColisao(fs) => SemColisao(SubFila(fs, E))
  BY <1>5, <1>6, SubFilaUmaVez
<1>10. IdsDe(r) \subseteq IdsDe(novas)
  <2>1. \A i \in E : fs[i].id \in IdsDe(fs)
    BY <1>5 DEF IdsDe
  <2> QED BY <1>1, <1>7, <1>9, <2>1
<1>11. Proposta(r)
  BY <1>1, <1>3, <1>7, <1>8, <1>9, <1>10 DEF Proposta
<1> QED BY <1>11 DEF r

\* A list kept from the stored one: no id twice, all of them stored, and every
\* one of them with a record in it; no place twice, unless it was so stored.
Guardada(as) ==
    /\ as \in Seq(Linhas) /\ SemRepetir(as) /\ IdsDe(as) \subseteq IdsDe(cronograma)
    /\ IdsDe(cronograma) \cap DOMAIN registros \subseteq IdsDe(as)
    /\ SemColisao(cronograma) => SemColisao(as)

\* A list that may be written: no id twice, every stored row with a record in
\* it, no place twice, unless it was so stored.
Escrevivel(as) ==
    /\ as \in Seq(Linhas) /\ SemRepetir(as)
    /\ IdsDe(cronograma) \cap DOMAIN registros \subseteq IdsDe(as)
    /\ SemColisao(cronograma) => SemColisao(as)

\* Rebuilding the days ahead repeats nothing.
LEMMA ReplanejarUmaVez ==
    ASSUME NEW atuais, Guardada(atuais), NEW novas, Proposta(novas), NEW desde
    PROVE  Escrevivel(Replanejar(atuais, novas, desde, registros))
<1> DEFINE P == {i \in DOMAIN atuais : \/ atuais[i].data < desde
                                       \/ Lancada(registros, atuais[i].id) \/ atuais[i].movida}
           preservadas == SubFila(atuais, P)
           A == {i \in DOMAIN novas : novas[i].data >= desde /\ novas[i].data \notin DiasDe(preservadas)}
           abertas == SubFila(novas, A)
           j == preservadas \o abertas
           r == Replanejar(atuais, novas, desde, registros)
<1>1. r = ordenar(j)
  BY DEF Replanejar, Abertas
<1>2. /\ atuais \in Seq(Linhas) /\ SemRepetir(atuais) /\ IdsDe(atuais) \subseteq IdsDe(cronograma)
      /\ IdsDe(cronograma) \cap DOMAIN registros \subseteq IdsDe(atuais)
      /\ SemColisao(cronograma) => SemColisao(atuais)
  BY DEF Guardada
<1>3. /\ novas \in Seq(Linhas) /\ SemRepetir(novas) /\ SemColisao(novas)
      /\ \A x \in IdsDe(novas) : x \notin IdsDe(cronograma)
  BY DEF Proposta
<1>4. P \in SUBSET DOMAIN atuais /\ A \in SUBSET DOMAIN novas
  OBVIOUS
<1>5. \A i \in DOMAIN atuais : atuais[i].id \in DOMAIN registros => i \in P
  BY DEF Lancada
<1>6. \A i \in A : novas[i].data \notin DiasDe(preservadas)
  OBVIOUS
<1> HIDE DEF P, A
<1>7. /\ preservadas \in Seq(Linhas) /\ SemRepetir(preservadas)
      /\ IdsDe(preservadas) = {atuais[i].id : i \in P}
      /\ SemColisao(atuais) => SemColisao(preservadas)
  BY <1>2, <1>4, SubFilaDoLugar, SubFilaUmaVez
<1>8. /\ abertas \in Seq(Linhas) /\ SemRepetir(abertas) /\ SemColisao(abertas)
      /\ IdsDe(abertas) = {novas[i].id : i \in A}
  BY <1>3, <1>4, SubFilaDoLugar, SubFilaUmaVez
<1>9. \A k \in DOMAIN abertas : abertas[k].data \notin DiasDe(preservadas)
  <2>1. ToSet(abertas) = {novas[i] : i \in A}
    BY <1>3, <1>4, SubFilaDoLugar
  <2> HIDE DEF preservadas, abertas
  <2> QED BY <1>6, <2>1 DEF ToSet
<1> HIDE DEF preservadas, abertas
<1>10. IdsDe(preservadas) \cap IdsDe(abertas) = {}
  <2>1. \A i \in P : atuais[i].id \in IdsDe(cronograma)
    BY <1>2, <1>4 DEF IdsDe
  <2>2. \A i \in A : novas[i].id \notin IdsDe(cronograma)
    BY <1>3, <1>4 DEF IdsDe
  <2> QED BY <1>7, <1>8, <2>1, <2>2
<1>11. j \in Seq(Linhas) /\ SemRepetir(j) /\ IdsDe(j) = IdsDe(preservadas) \cup IdsDe(abertas)
  <2>1. /\ IdsDe(preservadas \o abertas) = IdsDe(preservadas) \cup IdsDe(abertas)
        /\ SemRepetir(preservadas) /\ SemRepetir(abertas) /\ IdsDe(preservadas) \cap IdsDe(abertas) = {}
              => SemRepetir(preservadas \o abertas)
    BY <1>7, <1>8, JuntaSemRepetir
  <2> QED BY <1>7, <1>8, <1>10, <2>1, JuntaTodos
<1>12. ASSUME SemColisao(cronograma) PROVE SemColisao(j)
  <2>1. \A x \in DOMAIN preservadas, y \in DOMAIN abertas : ~MesmoLugar(preservadas[x], abertas[y])
    BY <1>9 DEF MesmoLugar, DiasDe
  <2> QED BY <1>2, <1>7, <1>8, <1>12, <2>1, JuntaSemColisao
<1> HIDE DEF j
<1>13. /\ ordenar(j) \in Seq(Linhas) /\ IdsDe(ordenar(j)) = IdsDe(j)
       /\ SemRepetir(j) => SemRepetir(ordenar(j))
       /\ SemColisao(j) => SemColisao(ordenar(j))
  BY <1>11, ordenarUmaVez
<1>14. IdsDe(cronograma) \cap DOMAIN registros \subseteq IdsDe(preservadas)
  BY <1>2, <1>5, <1>7 DEF IdsDe
<1> HIDE DEF r
<1>15. Escrevivel(r)
  BY <1>1, <1>11, <1>12, <1>13, <1>14 DEF Escrevivel
<1> QED BY <1>15 DEF r

\* What of a list lies on some places and what on others, joined.
LEMMA DuasPartes ==
    ASSUME NEW as \in Seq(Linhas), SemRepetir(as), NEW A \in SUBSET DOMAIN as, NEW K \in SUBSET DOMAIN as,
           A \cap K = {}, NEW s \in Seq(Linhas), NEW t \in Seq(Linhas),
           Escolhe(s, as, A), Escolhe(t, as, K)
    PROVE  /\ s \o t \in Seq(Linhas) /\ SemRepetir(s \o t)
           /\ IdsDe(s \o t) = {as[i].id : i \in A \cup K}
           /\ SemColisao(as) => SemColisao(s \o t)
<1>1. /\ IdsDe(s) = {as[i].id : i \in A} /\ SemRepetir(s) /\ (SemColisao(as) => SemColisao(s))
      /\ IdsDe(t) = {as[i].id : i \in K} /\ SemRepetir(t) /\ (SemColisao(as) => SemColisao(t))
  BY EscolheUmaVez
<1>2. IdsDe(s) \cap IdsDe(t) = {}
  <2>1. ASSUME NEW i \in A, NEW k \in K, as[i].id = as[k].id PROVE FALSE
    BY <2>1 DEF SemRepetir
  <2> QED BY <1>1, <2>1
<1>3. /\ IdsDe(s \o t) = IdsDe(s) \cup IdsDe(t)
      /\ SemRepetir(s) /\ SemRepetir(t) /\ IdsDe(s) \cap IdsDe(t) = {} => SemRepetir(s \o t)
  BY JuntaSemRepetir
<1>4. ASSUME SemColisao(as) PROVE SemColisao(s \o t)
  <2>1. PICK q : /\ q \in [DOMAIN s -> A] /\ \A k \in DOMAIN s : s[k] = as[q[k]]
    BY DEF Escolhe
  <2>2. PICK p : /\ p \in [DOMAIN t -> K] /\ \A k \in DOMAIN t : t[k] = as[p[k]]
    BY DEF Escolhe
  <2>3. \A x \in DOMAIN s, y \in DOMAIN t : ~MesmoLugar(s[x], t[y])
    <3> SUFFICES ASSUME NEW x \in DOMAIN s, NEW y \in DOMAIN t, MesmoLugar(s[x], t[y]) PROVE FALSE
      OBVIOUS
    <3>1. q[x] \in A /\ p[y] \in K /\ s[x] = as[q[x]] /\ t[y] = as[p[y]]
      BY <2>1, <2>2
    <3>2. q[x] = p[y]
      BY <1>4, <3>1 DEF SemColisao, MesmoLugar
    <3> QED BY <3>1, <3>2
  <2>4. SemColisao(s) /\ SemColisao(t)
    BY <1>1, <1>4
  <2> QED BY <2>3, <2>4, JuntaSemColisao
<1>5. IdsDe(s \o t) = {as[i].id : i \in A \cup K}
  BY <1>1, <1>3
<1> QED BY <1>1, <1>2, <1>3, <1>4, <1>5, JuntaTodos

\* Choosing, among chosen places, those with a row of `T' is choosing places.
LEMMA EscolheDeEscolha ==
    ASSUME NEW as \in Seq(Linhas), NEW J \in SUBSET DOMAIN as, NEW T,
           NEW K, K = {i \in DOMAIN SubFila(as, J) : SubFila(as, J)[i] \in T}
    PROVE  Escolhe(SubFila(SubFila(as, J), K), as, {i \in J : as[i] \in T})
<1> DEFINE janela == SubFila(as, J)
           r == SubFila(janela, K)
           C == {i \in J : as[i] \in T}
<1>1. janela \in Seq(Linhas) /\ Escolhe(janela, as, J)
  BY SubFilaDoLugar, SubFilaEscolhe
<1>2. K = {i \in DOMAIN janela : janela[i] \in T}
  OBVIOUS
<1> HIDE DEF janela
<1>3. K \in SUBSET DOMAIN janela
  BY <1>2
<1>4. Escolhe(r, janela, K)
  BY <1>1, <1>3, SubFilaEscolhe
<1> HIDE DEF r
<1>5. PICK q : /\ q \in [DOMAIN janela -> J] /\ \A k \in DOMAIN janela : janela[k] = as[q[k]]
               /\ \A j, k \in DOMAIN janela : q[j] = q[k] => j = k
               /\ \A i \in J : \E k \in DOMAIN janela : q[k] = i
  BY <1>1 DEF Escolhe
<1>6. PICK p : /\ p \in [DOMAIN r -> K] /\ \A k \in DOMAIN r : r[k] = janela[p[k]]
               /\ \A j, k \in DOMAIN r : p[j] = p[k] => j = k
               /\ \A i \in K : \E k \in DOMAIN r : p[k] = i
  BY <1>4 DEF Escolhe
<1> DEFINE w == [k \in DOMAIN r |-> q[p[k]]]
<1>7. \A k \in DOMAIN r : p[k] \in DOMAIN janela /\ janela[p[k]] \in T /\ q[p[k]] \in J
                          /\ janela[p[k]] = as[q[p[k]]]
  BY <1>2, <1>5, <1>6
<1>8. w \in [DOMAIN r -> C]
  BY <1>7
<1>9. \A k \in DOMAIN r : r[k] = as[w[k]]
  BY <1>6, <1>7
<1>10. \A j, k \in DOMAIN r : w[j] = w[k] => j = k
  BY <1>5, <1>6, <1>7
<1>11. \A i \in C : \E k \in DOMAIN r : w[k] = i
  <2> TAKE i \in C
  <2>1. PICK k \in DOMAIN janela : q[k] = i
    BY <1>5
  <2>2. k \in K
    BY <1>2, <1>5, <2>1
  <2>3. PICK x \in DOMAIN r : p[x] = k
    BY <1>6, <2>2
  <2> QED BY <2>1, <2>3
<1> HIDE DEF w, C
<1>12. Escolhe(r, as, C)
  BY <1>8, <1>9, <1>10, <1>11 DEF Escolhe
<1> QED BY <1>12 DEF r, C, janela

\* Planning again what is left from today repeats nothing.
LEMMA redistribuirUmaVez ==
    ASSUME cronograma \in Seq(Linhas), SemRepetir(cronograma), config \in Configs, hoje \in 1 .. Prova - 1,
           NEW desde \in Int
    PROVE  Escrevivel(redistribuirDesde(desde))
<1> DEFINE cfg     == [config EXCEPT !.inicio = hoje]
           dias    == PlanoDe(cfg).dias
           A == {i \in DOMAIN cronograma : cronograma[i].data < desde}
           J == {i \in DOMAIN cronograma : cronograma[i].data >= desde}
           antes   == SubFila(cronograma, A)
           janela  == SubFila(cronograma, J)
           K == {i \in DOMAIN janela : janela[i].data < hoje => Lancada(registros, janela[i].id)}
           resto   == SubFila(janela, K)
           lista   == antes \o resto
           atuais  == SemMovidas(lista, hoje)
           novas   == SemConteudoJaConcluido(Novas(cfg), cronograma, registros)
           replanejadas == Replanejar(atuais, novas, hoje, registros)
           conc    == DiasConcluidos(replanejadas, registros)
           T == {a \in Linhas : a.data < hoje => Lancada(registros, a.id)}
           C == {i \in J : cronograma[i] \in T}
           r == redistribuirDesde(desde)
<1>1. r = CompactarAtividades(replanejadas, dias, hoje, conc)
  BY DEF redistribuirDesde, SemAtrasadas
<1>2. PlanoBom(PlanoDe(cfg)) /\ SemColisao(PlanoDe(cfg).itens)
  BY PlanosBons, PlanoSemColisao
<1>3. hoje \in Int
  BY Calendario
<1>4. \A i \in DOMAIN cronograma : cronograma[i] \in Linhas /\ cronograma[i].data \in Int
  <2>1. \A i \in DOMAIN cronograma : cronograma[i] \in Linhas
    BY LugarEhNumero
  <2> QED BY <2>1, LinhaTipo
<1>5. A \in SUBSET DOMAIN cronograma /\ J \in SUBSET DOMAIN cronograma /\ A \cap J = {}
      /\ A \cup J = DOMAIN cronograma
  <2>1. \A i \in DOMAIN cronograma : cronograma[i].data < desde <=> ~(cronograma[i].data >= desde)
    BY <1>4
  <2> QED BY <2>1
<1>6. antes \in Seq(Linhas) /\ Escolhe(antes, cronograma, A) /\ janela \in Seq(Linhas)
  BY <1>5, SubFilaDoLugar, SubFilaEscolhe
<1>7. K = {i \in DOMAIN janela : janela[i] \in T} /\ K \in SUBSET DOMAIN janela
  <2>1. \A i \in DOMAIN janela : janela[i] \in Linhas
    BY <1>6, LugarEhNumero
  <2> HIDE DEF janela
  <2> QED BY <2>1
<1>8. resto \in Seq(Linhas)
  <2> HIDE DEF janela, K
  <2> QED BY <1>6, <1>7, SubFilaDoLugar
<1>9. Escolhe(resto, cronograma, C)
  <2>1. K = {i \in DOMAIN SubFila(cronograma, J) : SubFila(cronograma, J)[i] \in T}
    BY <1>7
  <2> HIDE DEF K, T, J
  <2>2. Escolhe(SubFila(SubFila(cronograma, J), K), cronograma, {i \in J : cronograma[i] \in T})
    BY <1>5, <2>1, EscolheDeEscolha
  <2> QED BY <2>2
<1>10. C \in SUBSET DOMAIN cronograma /\ A \cap C = {}
  BY <1>5
<1>11. \A i \in DOMAIN cronograma : cronograma[i].id \in DOMAIN registros => i \in A \cup C
  BY <1>4, <1>5 DEF Lancada
<1> HIDE DEF A, J, K, T, C, antes, janela, resto, cfg
<1>12. /\ lista \in Seq(Linhas) /\ SemRepetir(lista)
       /\ IdsDe(lista) = {cronograma[i].id : i \in A \cup C}
       /\ SemColisao(cronograma) => SemColisao(lista)
  BY <1>5, <1>6, <1>8, <1>9, <1>10, DuasPartes
<1>13. /\ IdsDe(lista) \subseteq IdsDe(cronograma)
       /\ IdsDe(cronograma) \cap DOMAIN registros \subseteq IdsDe(lista)
  <2>1. A \cup C \subseteq DOMAIN cronograma
    BY <1>5, <1>10
  <2> QED BY <1>11, <1>12, <2>1 DEF IdsDe
<1> HIDE DEF lista
<1>14. Guarda(SemMovidas(lista, hoje), lista)
  BY <1>12, SemMarcasUmaVez
<1>15. Guardada(atuais)
  BY <1>12, <1>13, <1>14 DEF Guardada, Guarda, TemIds
<1>16. Proposta(novas)
  BY <1>2, NovasUmaVez, SemConteudoUmaVez
<1> HIDE DEF atuais, novas
<1>17. Escrevivel(replanejadas)
  BY <1>15, <1>16, ReplanejarUmaVez
<1>18. replanejadas \in Seq(Linhas) /\ SemRepetir(replanejadas)
  BY <1>17 DEF Escrevivel
<1>19. DOMAIN dias \subseteq 1 .. Prova
  BY <1>2 DEF PlanoBom
<1> HIDE DEF replanejadas, conc, dias
<1> DEFINE c == CompactarAtividades(replanejadas, dias, hoje, conc)
<1>20. /\ SemRepetir(c) /\ IdsDe(c) = IdsDe(replanejadas)
       /\ SemColisao(replanejadas) => SemColisao(c)
  BY <1>3, <1>18, <1>19, CompactarUmaVez
<1>21. c \in Seq(Linhas)
  <2>1. c \in Seq(Vindas(Linhas, hoje))
    BY <1>3, <1>18, <1>19, CompactarTipo
  <2>2. Vindas(Linhas, hoje) \subseteq Linhas
    BY DEF Vindas
  <2> HIDE DEF c
  <2> QED BY <2>1, <2>2, SeqCabe
<1> HIDE DEF c, r
<1>22. r = c
  BY <1>1 DEF c
<1>23. Escrevivel(c)
  BY <1>17, <1>20, <1>21 DEF Escrevivel
<1> QED BY <1>22, <1>23 DEF r

\* Places after one, moved on by one.
LEMMA Empurrados ==
    ASSUME NEW o \in Nat, NEW p \in Nat, NEW q \in Nat
    PROVE  LET e(x) == IF x > o THEN x + 1 ELSE x
           IN  /\ e(p) \in Nat /\ e(p) # o + 1
               /\ e(p) = e(q) => p = q
OBVIOUS

\* Splitting a topic off keeps every row and repeats neither id nor place.
LEMMA SepararUmaVez ==
    ASSUME NEW as \in Seq(Linhas), SemRepetir(as), NEW id \in IdsDe(as), NEW topico \in Topico,
           NEW novo \in Nat, novo \notin IdsDe(as)
    PROVE  LET r == SepararTema(as, id, topico, novo)
           IN  /\ r \in Seq(Linhas) /\ SemRepetir(r) /\ IdsDe(as) \subseteq IdsDe(r)
               /\ SemColisao(as) => SemColisao(r)
<1> DEFINE original == PorID(as, id)
           resto    == original.tema.partes \ {topico}
           empurra(a) == IF a.data = original.data /\ a.posicao > original.posicao
                         THEN [a EXCEPT !.posicao = a.posicao + 1] ELSE a
           ajusta(a) == IF a.id = id THEN SoCom(a, resto) ELSE empurra(a)
           s == [i \in DOMAIN as |-> ajusta(as[i])]
           sep == Separada(original, novo, topico)
           u == <<sep>>
           r == SepararTema(as, id, topico, novo)
<1>1. r = IF resto = {} THEN as ELSE Append(s, sep)
  BY DEF SepararTema, Separada
<1>2. original \in Linhas /\ original \in ToSet(as) /\ original.id = id
  BY PorIDTipo
<1> HIDE DEF original, r
<1>3. sep \in Linhas /\ sep.id = novo /\ sep.data = original.data /\ sep.posicao = original.posicao + 1
  <2>1. sep \in Linhas /\ sep.id = novo
    BY <1>2, SeparadaTipo
  <2>2. sep.data = original.data /\ sep.posicao = original.posicao + 1
    BY <1>2 DEF Separada, SoCom, Linhas
  <2> QED BY <2>1, <2>2
<1>4. resto \in SUBSET Topico
  BY <1>2 DEF Linhas, Temas
<1>5. \A i \in DOMAIN as : as[i] \in Linhas /\ (as[i].id = id => as[i] = original)
  BY <1>2, LugarEhNumero DEF SemRepetir, ToSet
<1> HIDE DEF resto, sep
<1> DEFINE o == original.posicao
           e(x) == IF x > o THEN x + 1 ELSE x
<1>6. ASSUME NEW i \in DOMAIN as
      PROVE  /\ s[i] \in Linhas /\ s[i].id = as[i].id /\ s[i].data = as[i].data
             /\ s[i].posicao = IF as[i].data = original.data THEN e(as[i].posicao) ELSE as[i].posicao
  <2> DEFINE a == as[i]
             n == a.posicao + 1
  <2>1. a \in Linhas /\ (a.id = id => a = original) /\ s[i] = ajusta(a)
    BY <1>5
  <2> HIDE DEF a, s
  <2>2. n \in Nat
    BY <2>1, LinhaTipo
  <2>3. CASE a.id = id
    <3> DEFINE b == SoCom(a, resto)
    <3>1. b \in Linhas
      BY <1>2, <1>4, <2>1, SeparadaTipo
    <3>2. b.id = a.id /\ b.data = a.data /\ b.posicao = a.posicao
      BY <2>1 DEF SoCom, Linhas
    <3>3. s[i] = b
      BY <2>1, <2>3
    <3> HIDE DEF b
    <3>4. a.posicao = o /\ o \in Int
      BY <1>2, <2>1, <2>3, LinhaTipo
    <3>5. e(a.posicao) = a.posicao
      BY <3>4
    <3> QED BY <3>1, <3>2, <3>3, <3>5 DEF a
  <2>4. CASE a.id # id /\ a.data = original.data /\ a.posicao > o
    <3> DEFINE b == [a EXCEPT !.posicao = n]
    <3>1. b \in Linhas /\ b.id = a.id /\ b.data = a.data
      <4> HIDE DEF n
      <4> QED BY <2>1, <2>2, LinhaMuda DEF Mesmo
    <3>2. b.posicao = n
      BY <2>1 DEF Linhas
    <3>3. s[i] = b
      BY <2>1, <2>4
    <3> HIDE DEF b
    <3> QED BY <2>4, <3>1, <3>2, <3>3 DEF a
  <2>5. CASE a.id # id /\ ~(a.data = original.data /\ a.posicao > o)
    <3>1. s[i] = a
      BY <2>1, <2>5
    <3> QED BY <2>1, <2>5, <3>1 DEF a
  <2> QED BY <2>3, <2>4, <2>5
<1>7. DOMAIN s = DOMAIN as /\ s \in [DOMAIN as -> Linhas]
  BY <1>6
<1> HIDE DEF s
<1>8. s \in Seq(Linhas) /\ MesmosIds(s, as)
  BY <1>6, <1>7, LugarALugar DEF MesmosIds
<1>9. IdsDe(s) = IdsDe(as) /\ SemRepetir(s)
  BY <1>8, MesmosIdsUmaVez
<1>10. /\ u \in Seq(Linhas) /\ DOMAIN u = {1} /\ u[1] = sep
  BY <1>3
<1> HIDE DEF u
<1>11. SemRepetir(u) /\ IdsDe(u) = {novo} /\ SemColisao(u)
  BY <1>3, <1>10 DEF SemRepetir, IdsDe, SemColisao
<1>12. \A i \in DOMAIN as : as[i].posicao \in Nat
  BY <1>5, LinhaTipo
<1>13. o \in Nat
  BY <1>2, LinhaTipo
<1> HIDE DEF o
<1>14. ASSUME SemColisao(as) PROVE SemColisao(s)
  <2> SUFFICES ASSUME NEW x \in DOMAIN as, NEW y \in DOMAIN as,
                      s[x].data = s[y].data, s[x].posicao = s[y].posicao
               PROVE  x = y
    BY <1>7 DEF SemColisao
  <2>1. as[x].data = as[y].data
    BY <1>6
  <2>2. as[x].posicao = as[y].posicao
    <3>1. CASE as[x].data = original.data
      <4>1. e(as[x].posicao) = e(as[y].posicao)
        BY <1>6, <2>1, <3>1
      <4> QED BY <1>12, <1>13, <4>1, Empurrados
    <3>2. CASE as[x].data # original.data
      BY <1>6, <2>1, <3>2
    <3> QED BY <3>1, <3>2
  <2> QED BY <1>14, <2>1, <2>2 DEF SemColisao
<1>15. \A x \in DOMAIN s, y \in DOMAIN u : ~MesmoLugar(s[x], u[y])
  <2> SUFFICES ASSUME NEW x \in DOMAIN as, s[x].data = original.data, s[x].posicao = o + 1 PROVE FALSE
    BY <1>3, <1>7, <1>10 DEF MesmoLugar, o
  <2>1. e(as[x].posicao) = o + 1
    BY <1>6
  <2>2. e(as[x].posicao) # o + 1
    BY <1>12, <1>13, Empurrados
  <2> QED BY <2>1, <2>2
<1>16. Append(s, sep) = s \o u
  BY <1>3, <1>8, AppendIsConcat DEF u
<1>17. /\ s \o u \in Seq(Linhas) /\ SemRepetir(s \o u) /\ IdsDe(s \o u) = IdsDe(s) \cup {novo}
  <2>1. IdsDe(s) \cap IdsDe(u) = {}
    BY <1>9, <1>11
  <2>2. /\ IdsDe(s \o u) = IdsDe(s) \cup IdsDe(u)
        /\ SemRepetir(s) /\ SemRepetir(u) /\ IdsDe(s) \cap IdsDe(u) = {} => SemRepetir(s \o u)
    BY <1>8, <1>10, JuntaSemRepetir
  <2> QED BY <1>8, <1>9, <1>10, <1>11, <2>1, <2>2, JuntaTodos
<1>18. ASSUME SemColisao(as) PROVE SemColisao(s \o u)
  BY <1>8, <1>10, <1>11, <1>14, <1>15, <1>18, JuntaSemColisao
<1>19. CASE resto = {}
  <2>1. r = as
    BY <1>1, <1>19
  <2> QED BY <2>1 DEF r
<1>20. CASE resto # {}
  <2>1. r = s \o u
    BY <1>1, <1>16, <1>20
  <2> QED BY <1>9, <1>17, <1>18, <2>1 DEF r
<1> QED BY <1>19, <1>20
-----------------------------------------------------------------------------
(* The inductive invariant, and what every write shares.                   *)

\* The inductive invariant.  The rows are rows and no two share a place, every
\* record has its row, and unless a failure cut a request in two the schedule
\* is in order with what is recorded.
Invariante ==
    /\ config \in Configs /\ hoje \in Nat \ {0}
    /\ cronograma \in Seq(Linhas)
    /\ Gravavel(cronograma, registros)
    /\ ~interrompida => EmDia(cronograma, registros, hoje, DiaDoEstudoFeito(Dias, hoje))

\* A step keeps it, and marks as ahead of time only what is concluded.
Mantem ==
    /\ Invariante'
    /\ DeLinhas(cronograma, registros) => DeLinhas(cronograma', registros')

\* The calendar in force has days up to the exam.
LEMMA DiasTipo ==
    ASSUME config \in Configs, hoje \in Nat
    PROVE  DOMAIN Dias \subseteq 1 .. Prova /\ DiaDoEstudoFeito(Dias, hoje) \in Int
<1>1. DOMAIN Dias \subseteq 1 .. Prova
  BY PlanosBons DEF PlanoBom, Dias
<1> QED BY <1>1, DiaDoEstudoTipo

\* The schedule written after a request is in order.
LEMMA Escrita ==
    ASSUME NEW STATE as, NEW STATE m, DeLinhas(as, m), NEW STATE cfg, cfg \in Configs, NEW STATE regs,
           cronograma \in Seq(Linhas),
           hoje \in Nat \ {0}, config' = cfg, hoje' = hoje, registros' = regs,
           Gravavel(emDiaComOEstudado(as, cfg, regs), regs),
           cronograma' = ordenar(emDiaComOEstudado(as, cfg, regs))
    PROVE  Invariante' /\ (DeLinhas(as, regs) => DeLinhas(cronograma', registros'))
<1> DEFINE novo == emDiaComOEstudado(as, cfg, regs)
           destino == DiaDoEstudoFeito(PlanoDe(cfg).dias, hoje)
<1>1. PlanoBom(PlanoDe(cfg)) /\ hoje \in Int
  BY PlanosBons
<1>2. /\ \E c : DeLinhas(novo, c)
      /\ EmDia(novo, regs, hoje, destino)
      /\ DeLinhas(as, regs) => DeLinhas(novo, regs)
  BY <1>1, EmDiaBasta
<1>3. destino \in Int
  BY <1>1, DiaDoEstudoTipo DEF PlanoBom
<1>4. Dias' = PlanoDe(cfg).dias
  BY DEF Dias, PlanoDe
<1>5. DiaDoEstudoFeito(Dias, hoje)' = destino
  BY <1>4 DEF DiaDoEstudoFeito, DestinoValido
<1>6. Gravavel(novo, regs) /\ cronograma' = ordenar(novo)
  OBVIOUS
<1> HIDE DEF novo, destino
<1>7. PICK c : DeLinhas(novo, c)
  BY <1>2
<1>8. DeLinhas(ordenar(novo), c) /\ (DeLinhas(as, regs) => DeLinhas(ordenar(novo), regs))
  BY <1>2, <1>7, ordenarLinhas
<1>9. Gravavel(ordenar(novo), regs) /\ EmDia(ordenar(novo), regs, hoje, destino)
  BY <1>1, <1>2, <1>3, <1>6, <1>7, OrdenadaIgual
<1>10. DeLinhas(cronograma', c) /\ (DeLinhas(as, regs) => DeLinhas(cronograma', registros'))
  BY <1>6, <1>8
<1>11. Gravavel(cronograma', registros') /\ EmDia(cronograma', registros', hoje', DiaDoEstudoFeito(Dias, hoje)')
  BY <1>5, <1>6, <1>9
<1> QED BY <1>10, <1>11, DeLinhasTipo DEF Invariante

\* Every request of CronogramaService ends with the same write.
LEMMA Montada ==
    ASSUME Invariante, NEW STATE as, NEW op, gravarEMontar(op, as),
           \A m : DeLinhas(cronograma, m) => DeLinhas(as, m)
    PROVE  Mantem
<1> DEFINE novo == emDiaComOEstudado(as, config, registros)
<1>1. /\ cronograma' = IF Gravavel(novo, registros) THEN ordenar(novo) ELSE cronograma
      /\ interrompida' = (interrompida /\ ~Gravavel(novo, registros))
      /\ registros' = registros /\ config' = config /\ hoje' = hoje
  BY DEF gravarEMontar, Gravar
<1>2. PICK m : DeLinhas(cronograma, m)
  BY TodasConcluidas DEF Invariante
<1>3. DeLinhas(as, m)
  BY <1>2
<1>4. config \in Configs /\ hoje \in Nat \ {0} /\ cronograma \in Seq(Linhas)
  BY DEF Invariante
<1>5. CASE Gravavel(novo, registros)
  <2>1. cronograma' = ordenar(novo)
    BY <1>1, <1>5
  <2> QED BY <1>1, <1>3, <1>4, <1>5, <2>1, Escrita DEF Mantem
<1>6. CASE ~Gravavel(novo, registros)
  <2>1. /\ cronograma' = cronograma /\ registros' = registros /\ config' = config /\ hoje' = hoje
        /\ interrompida' <=> interrompida
    BY <1>1, <1>6
  <2>2. Invariante'
    BY <2>1 DEF Invariante, Dias, PlanoDe
  <2> QED BY <2>1, <2>2 DEF Mantem
<1> QED BY <1>5, <1>6

\* The first reading of the plan writes blocks of which nothing is recorded.
LEMMA Abertura ==
    ASSUME Invariante, Abrir
    PROVE  Mantem
<1> DEFINE novas == Novas(config)
<1>1. /\ cronograma = <<>> /\ registros' = registros /\ config' = config /\ hoje' = hoje
      /\ interrompida' = interrompida
      /\ cronograma' = IF Gravavel(novas, registros) THEN ordenar(novas) ELSE cronograma
  BY DEF Abrir, Gravar
<1>2. /\ config \in Configs /\ hoje \in Nat \ {0} /\ Gravavel(cronograma, registros)
      /\ cronograma \in Seq(Linhas)
  BY DEF Invariante
<1>3. DOMAIN registros = {}
  <2>1. DOMAIN cronograma = {}
    BY <1>1
  <2>2. IdsDe(cronograma) = {}
    BY <2>1 DEF IdsDe
  <2>3. DOMAIN registros \subseteq IdsDe(cronograma)
    BY <1>2 DEF Gravavel
  <2> QED BY <2>2, <2>3
<1>4. \A m : DeLinhas(novas, m)
  BY <1>2, NovasTipo, PlanosBons
<1>5. DiaDoEstudoFeito(Dias, hoje) \in Int /\ DiaDoEstudoFeito(Dias, hoje)' = DiaDoEstudoFeito(Dias, hoje)
  BY <1>1, <1>2, DiasTipo DEF Dias, PlanoDe
<1> HIDE DEF novas
<1>6. CASE Gravavel(novas, registros)
  <2>1. cronograma' = ordenar(novas)
    BY <1>1, <1>6
  <2>2. \A m : DeLinhas(cronograma', m)
    BY <1>4, <2>1, ordenarLinhas
  <2>3. Gravavel(cronograma', registros')
    BY <1>1, <1>2, <1>4, <1>5, <1>6, <2>1, OrdenadaIgual
  <2>4. EmDia(cronograma', registros', hoje', DiaDoEstudoFeito(Dias, hoje)')
    BY <1>1, <1>3, <2>2, NadaLancado
  <2>5. cronograma' \in Seq(Linhas)
    BY <2>2, DeLinhasTipo
  <2> QED BY <1>1, <1>2, <2>2, <2>3, <2>4, <2>5 DEF Mantem, Invariante
<1>7. CASE ~Gravavel(novas, registros)
  <2>1. cronograma' = cronograma
    BY <1>1, <1>7
  <2> QED BY <1>1, <2>1 DEF Mantem, Invariante, Dias, PlanoDe
<1> QED BY <1>6, <1>7

\* A day later what was in order still is.
LEMMA PassagemDoDia ==
    ASSUME Invariante, PassaODia
    PROVE  Mantem
<1> DEFINE d == DiaDoEstudoFeito(Dias, hoje)
           e == DiaDoEstudoFeito(Dias, hoje + 1)
<1>1. /\ hoje' = hoje + 1 /\ cronograma' = cronograma /\ registros' = registros /\ config' = config
      /\ interrompida' = interrompida
  BY DEF PassaODia
<1>2. config \in Configs /\ hoje \in Nat /\ hoje + 1 \in Nat \ {0}
  BY DEF Invariante
<1>3. DOMAIN Dias \subseteq 1 .. Prova
  BY <1>2, DiasTipo
<1>4. d \in Int /\ e \in Int /\ (e # 0 => d # 0 /\ Ate(hoje, d) <= Ate(hoje + 1, e))
  BY <1>2, <1>3, DiaSeguinte
<1>5. DiaDoEstudoFeito(Dias, hoje)' = e
  BY <1>1 DEF DiaDoEstudoFeito, DestinoValido, Dias, PlanoDe
<1> HIDE DEF d, e
<1>6. ASSUME EmDia(cronograma, registros, hoje, d)
      PROVE  EmDia(cronograma, registros, hoje + 1, e)
  <2>1. PICK feito, ja : cronograma \in Seq(Boas(feito, ja, registros, hoje, d))
    BY <1>6 DEF EmDia
  <2>2. ASSUME NEW a \in Boas(feito, ja, registros, hoje, d)
        PROVE  a \in Boas(feito, ja, registros, hoje + 1, e)
    <3>1. a \in Linhas /\ EmOrdemComOEstudo(a, feito, ja, registros, hoje, d)
      BY DEF Boas
    <3>2. a.data \in Int
      BY <3>1, LinhaTipo
    <3>3. a.data >= hoje + 1 => a.data >= hoje
      BY <1>2, <3>2
    <3>4. Ate(hoje, d) \in Int /\ Ate(hoje + 1, e) \in Int
      BY <1>2, <1>4 DEF Ate
    <3>5. e # 0 /\ a.data <= Ate(hoje, d) => a.data <= Ate(hoje + 1, e)
      BY <1>4, <3>2, <3>4
    <3>6. EmOrdemComOEstudo(a, feito, ja, registros, hoje + 1, e)
      BY <1>4, <3>1, <3>3, <3>5 DEF EmOrdemComOEstudo
    <3> QED BY <3>1, <3>6 DEF Boas
  <2>3. cronograma \in Seq(Boas(feito, ja, registros, hoje + 1, e))
    BY <2>1, <2>2, SeqCabe
  <2> QED BY <2>3 DEF EmDia
<1>7. ~interrompida' => EmDia(cronograma', registros', hoje', DiaDoEstudoFeito(Dias, hoje)')
  BY <1>1, <1>5, <1>6 DEF Invariante, d
<1> QED BY <1>1, <1>2, <1>7 DEF Mantem, Invariante

-----------------------------------------------------------------------------
(* CronogramaService.                                                      *)

\* What a request names, once accepted.
LEMMA DestinoTipo ==
    ASSUME Invariante, NEW destino \in Datas, NEW posicao \in Posicoes, DestinoValido(Dias, destino)
    PROVE  destino \in 1 .. Prova /\ posicao \in Int
BY DiasTipo, Pedidos DEF Invariante, DestinoValido

\* The day a stored row comes from.
LEMMA OrigemTipo ==
    ASSUME Invariante, NEW id \in IdsDe(cronograma)
    PROVE  PorID(cronograma, id).data \in Int /\ Max({PorID(cronograma, id).data, hoje}) \in Int
<1> DEFINE origem == PorID(cronograma, id).data
<1>1. cronograma \in Seq(Linhas) /\ hoje \in Int
  BY DEF Invariante
<1>2. PorID(cronograma, id) \in Linhas
  BY <1>1, PorIDTipo
<1>3. origem \in Int
  BY <1>2, LinhaTipo
<1> HIDE DEF origem
<1>4. Max({origem, hoje}) \in Int
  BY <1>1, <1>3, MaiorDosDois DEF Ate
<1> QED BY <1>3, <1>4 DEF origem

\* An earlier day named for a subject is a day of the plan.
LEMMA DiaAntecipado ==
    ASSUME Invariante, NEW id \in IdsDe(cronograma), NEW dia \in Datas,
           PorID(cronograma, id).data > dia => DestinoValido(Dias, dia)
    PROVE  dia \in Int /\ (PorID(cronograma, id).data <= dia \/ dia \in 1 .. Prova)
<1> DEFINE origem == PorID(cronograma, id).data
<1>1. origem \in Int /\ dia \in Int /\ DOMAIN Dias \subseteq 1 .. Prova
  BY OrigemTipo, DiasTipo, Pedidos DEF Invariante
<1>2. origem > dia => dia \in DOMAIN Dias
  BY DEF DestinoValido
<1> HIDE DEF origem
<1> QED BY <1>1, <1>2 DEF origem

\* The requests of CronogramaService that move what they are told to.
LEMMA Movimentos ==
    ASSUME Invariante,
           \/ \E id \in IdsDe(cronograma), dt \in Datas, p \in Posicoes : PedirMover(id, dt, p)
           \/ \E id \in IdsDe(cronograma), dt \in Datas, p \in Posicoes : PedirTrocar(id, dt, p)
           \/ \E dt \in Datas : PedirAdiarDia(dt)
           \/ \E id \in IdsDe(cronograma), dt \in Datas : PedirAntecipar(id, dt)
    PROVE  Mantem
<1>1. config \in Configs /\ hoje \in Nat
  BY DEF Invariante
<1>2. PlanoBom(PlanoDe(config)) /\ DOMAIN Dias \subseteq 1 .. Prova /\ cronograma \in Seq(Linhas)
  BY <1>1, PlanosBons, DiasTipo DEF Invariante
<1>3. CASE \E id \in IdsDe(cronograma), dt \in Datas, p \in Posicoes : PedirMover(id, dt, p)
  <2>1. PICK id \in IdsDe(cronograma), destino \in Datas, posicao \in Posicoes :
              PedirMover(id, destino, posicao)
    BY <1>3
  <2> DEFINE origem == PorID(cronograma, id).data
             movidas == Mover(cronograma, id, destino, posicao)
             desde == Max({origem, hoje})
             as == IF destino < origem
                   THEN compactarDesde(movidas, desde, cronograma, config, registros)
                   ELSE movidas
  <2>2. gravarEMontar("mover", as) /\ DestinoValido(Dias, destino)
    BY <2>1 DEF PedirMover, PodeMover
  <2>3. destino \in 1 .. Prova /\ posicao \in Int /\ desde \in Int
    BY <2>2, DestinoTipo, OrigemTipo
  <2>4. ASSUME NEW m, DeLinhas(cronograma, m) PROVE DeLinhas(as, m)
    <3>1. DeLinhas(movidas, m)
      BY <2>3, <2>4, MexidasLinhas
    <3> HIDE DEF movidas, origem, desde
    <3>2. DeLinhas(compactarDesde(movidas, desde, cronograma, config, registros), m)
      BY <1>2, <2>3, <3>1, compactarDesdeLinhas
    <3> QED BY <3>1, <3>2
  <2> HIDE DEF as
  <2> QED BY <2>2, <2>4, Montada
<1>4. CASE \E id \in IdsDe(cronograma), dt \in Datas, p \in Posicoes : PedirTrocar(id, dt, p)
  <2>1. PICK id \in IdsDe(cronograma), destino \in Datas, posicao \in Posicoes :
              PedirTrocar(id, destino, posicao)
    BY <1>4
  <2> DEFINE as == Trocar(cronograma, id, destino, posicao)
  <2>2. gravarEMontar("trocar", as) /\ DestinoValido(Dias, destino)
    BY <2>1 DEF PedirTrocar, PodeMover
  <2>3. destino \in 1 .. Prova /\ posicao \in Int
    BY <2>2, DestinoTipo
  <2>4. ASSUME NEW m, DeLinhas(cronograma, m) PROVE DeLinhas(as, m)
    BY <2>3, <2>4, MexidasLinhas
  <2> HIDE DEF as
  <2> QED BY <2>2, <2>4, Montada
<1>5. CASE \E dt \in Datas : PedirAdiarDia(dt)
  <2>1. PICK data \in Datas : PedirAdiarDia(data)
    BY <1>5
  <2> DEFINE as == AdiarDia(cronograma, cadeiaDe(Dias, data, Concluidos))
  <2>2. gravarEMontar("adiar", as)
    BY <2>1 DEF PedirAdiarDia
  <2>3. ASSUME NEW m, DeLinhas(cronograma, m) PROVE DeLinhas(as, m)
    BY <1>2, <2>3, AdiarDiaLinhas
  <2> HIDE DEF as
  <2> QED BY <2>2, <2>3, Montada
<1>6. CASE \E id \in IdsDe(cronograma), dt \in Datas : PedirAntecipar(id, dt)
  <2>1. PICK id \in IdsDe(cronograma), dia \in Datas : PedirAntecipar(id, dia)
    BY <1>6
  <2> DEFINE as == AntecipouAtividade(cronograma, id, dia)
  <2>2. /\ gravarEMontar("antecipar", as)
        /\ PorID(cronograma, id).data > dia => DestinoValido(Dias, dia)
    BY <2>1 DEF PedirAntecipar
  <2>3. dia \in Int /\ (PorID(cronograma, id).data <= dia \/ dia \in 1 .. Prova)
    BY <2>2, DiaAntecipado
  <2>4. ASSUME NEW m, DeLinhas(cronograma, m) PROVE DeLinhas(as, m)
    BY <2>3, <2>4, MexidasLinhas
  <2> HIDE DEF as
  <2> QED BY <2>2, <2>4, Montada
<1> QED BY <1>3, <1>4, <1>5, <1>6

\* The proposal of the planner, from the plan's first day or from a later one.
LEMMA PropostaDoPlano ==
    ASSUME NEW cfg \in Configs, cronograma \in Seq(Linhas)
    PROVE  /\ Proposta(Novas(cfg))
           /\ \A dt \in 1 .. Prova - 1 : Proposta(Novas([cfg EXCEPT !.inicio = dt]))
BY PlanosBons, PlanoSemColisao, NovasUmaVez

\* What the requests that rebuild the days ahead ask to be written: what is
\* stored, packed; the days ahead planned again; the delay planned again.
Rearranjada(as) ==
    \/ as = compactarDesde(cronograma, hoje, cronograma, config, registros)
    \/ \E cfg, desde : /\ PlanoBom(PlanoDe(cfg)) /\ Proposta(Novas(cfg))
                       /\ as = Replanejar(SemMovidas(cronograma, desde), Novas(cfg), desde, registros)
    \/ hoje \in 1 .. Prova - 1 /\ \E desde \in Int : as = redistribuirDesde(desde)

\* Compacting, restoring the order, absorbing the delay, reorganizing.
LEMMA RearranjoForma ==
    ASSUME Invariante,
           \/ PedirCompactar \/ RestaurarOrdem \/ AbsorverAtraso
           \/ \E dt \in Datas : ReorganizarDesde(dt)
    PROVE  \E as, op : Rearranjada(as) /\ gravarEMontar(op, as)
<1>1. config \in Configs /\ hoje \in Nat \ {0} /\ cronograma \in Seq(Linhas)
  BY DEF Invariante
<1>2. CASE PedirCompactar
  BY <1>2 DEF PedirCompactar, Rearranjada
<1>3. CASE RestaurarOrdem
  <2>1. gravarEMontar("restaurar", Replanejar(SemMovidas(cronograma, hoje), Novas(config), hoje, registros))
    BY <1>3 DEF RestaurarOrdem
  <2>2. PlanoBom(PlanoDe(config)) /\ Proposta(Novas(config))
    BY <1>1, PlanosBons, PropostaDoPlano
  <2> QED BY <2>1, <2>2 DEF Rearranjada
<1>4. CASE AbsorverAtraso
  <2>1. gravarEMontar("absorver", redistribuirDesde(0)) /\ hoje < Prova
    BY <1>4 DEF AbsorverAtraso
  <2>2. hoje \in 1 .. Prova - 1 /\ 0 \in Int
    BY <1>1, <2>1, Calendario
  <2> QED BY <2>1, <2>2 DEF Rearranjada
<1>5. CASE \E dt \in Datas : ReorganizarDesde(dt)
  <2>1. PICK data \in Datas : ReorganizarDesde(data)
    BY <1>5
  <2> DEFINE desde == Max({data, config.inicio})
             cfg   == [config EXCEPT !.inicio = desde]
             r == redistribuirDesde(desde)
             s == Replanejar(SemMovidas(cronograma, desde), Novas(cfg), desde, registros)
  <2>2. /\ gravarEMontar("reorganizar", IF desde < hoje THEN r ELSE s)
        /\ desde < Prova /\ (desde < hoje => hoje < Prova)
    BY <2>1 DEF ReorganizarDesde
  <2>3. desde \in 1 .. Prova - 1
    <3>1. data \in Int /\ config.inicio \in 1 .. Prova - 1
      BY <1>1, Pedidos, Calendario
    <3> DEFINE d == config.inicio
    <3>2. d \in Int /\ d >= 1
      BY <3>1, Calendario
    <3> HIDE DEF d
    <3>3. Max({data, d}) = Ate(d, data)
      BY <3>1, <3>2, MaiorDosDois
    <3>4. Ate(d, data) \in Int /\ Ate(d, data) >= 1
      BY <3>1, <3>2 DEF Ate
    <3>5. desde \in Int /\ desde >= 1
      BY <3>3, <3>4 DEF d
    <3> HIDE DEF desde
    <3> QED BY <2>2, <3>5, Calendario
  <2>4. PlanoBom(PlanoDe(cfg)) /\ Proposta(Novas(cfg))
    BY <1>1, <2>3, PlanosBons, PropostaDoPlano
  <2>5. desde \in Int /\ (desde < hoje => hoje \in 1 .. Prova - 1)
    BY <1>1, <2>2, <2>3, Calendario
  <2> HIDE DEF desde, cfg
  <2>6. CASE desde < hoje
    <3>1. Rearranjada(r)
      BY <2>5, <2>6 DEF Rearranjada
    <3> QED BY <2>2, <2>6, <3>1
  <2>7. CASE ~(desde < hoje)
    <3>1. Rearranjada(s)
      BY <2>4 DEF Rearranjada
    <3> QED BY <2>2, <2>7, <3>1
  <2> QED BY <2>6, <2>7
<1> QED BY <1>2, <1>3, <1>4, <1>5

\* The requests of CronogramaService that rebuild the days ahead.
LEMMA Rearranjos ==
    ASSUME Invariante,
           \/ PedirCompactar \/ RestaurarOrdem \/ AbsorverAtraso
           \/ \E dt \in Datas : ReorganizarDesde(dt)
    PROVE  Mantem
<1>1. /\ config \in Configs /\ PlanoBom(PlanoDe(config))
      /\ hoje \in Nat \ {0} /\ hoje \in Int /\ cronograma \in Seq(Linhas)
  BY PlanosBons DEF Invariante
<1>2. PICK as, op : Rearranjada(as) /\ gravarEMontar(op, as)
  BY RearranjoForma
<1>3. ASSUME NEW m, DeLinhas(cronograma, m) PROVE DeLinhas(as, m)
  <2>1. CASE as = compactarDesde(cronograma, hoje, cronograma, config, registros)
    BY <1>1, <1>3, <2>1, compactarDesdeLinhas
  <2>2. ASSUME NEW cfg, NEW desde, PlanoBom(PlanoDe(cfg)),
               as = Replanejar(SemMovidas(cronograma, desde), Novas(cfg), desde, registros)
        PROVE  DeLinhas(as, m)
    <3>1. DeLinhas(SemMovidas(cronograma, desde), m) /\ DeLinhas(Novas(cfg), m)
      BY <1>1, <1>3, <2>2, MexidasLinhas, NovasTipo
    <3> QED BY <2>2, <3>1, ReplanejarLinhas
  <2>3. ASSUME hoje \in 1 .. Prova - 1, NEW desde, as = redistribuirDesde(desde) PROVE DeLinhas(as, m)
    BY <1>1, <1>3, <2>3, redistribuirLinhas
  <2> QED BY <1>2, <2>1, <2>2, <2>3 DEF Rearranjada
<1> QED BY <1>2, <1>3, Montada

-----------------------------------------------------------------------------
(* RegistroService.                                                        *)

\* More conclusions, more rows may be marked.
LEMMA MaisConclusoes ==
    ASSUME NEW as, NEW m, DeLinhas(as, m), NEW c, \A x : Concluida(m, x) => Concluida(c, x)
    PROVE  DeLinhas(as, c)
<1>1. as \in Seq(Marcadas(m))
  BY DEF DeLinhas
<1>2. Marcadas(m) \subseteq Marcadas(c)
  BY DEF Marcadas
<1>3. as \in Seq(Marcadas(c))
  BY <1>1, <1>2, SeqCabe
<1> QED BY <1>3 DEF DeLinhas

\* What recording changes of the records.
LEMMA LancarTipo ==
    ASSUME NEW id, NEW c
    PROVE  /\ DOMAIN Lancar(id, c) = DOMAIN registros \cup {id}
           /\ Concluida(Lancar(id, c), id) <=> c
           /\ \A x : x # id => (Concluida(Lancar(id, c), x) <=> Concluida(registros, x))
BY DEF Lancar, Concluida

\* A record more, of a row that is there, loses none.
LEMMA LancarGrava ==
    ASSUME NEW as, Gravavel(as, registros), NEW id \in IdsDe(as), NEW c
    PROVE  Gravavel(as, Lancar(id, c))
<1>1. DOMAIN Lancar(id, c) = DOMAIN registros \cup {id}
  BY DEF Lancar
<1> QED BY <1>1 DEF Gravavel

\* A write that is not made, or is refused, leaves the schedule as it was and
\* the request cut in two.
LEMMA NaoEscrita ==
    ASSUME Invariante, config' \in Configs, hoje' = hoje, cronograma' = cronograma, interrompida',
           Gravavel(cronograma, registros')
    PROVE  Invariante'
BY DEF Invariante

\* Undoing a conclusion, or recording that a block was not concluded.
LEMMA Desfeita ==
    ASSUME NEW m, DeLinhas(cronograma, m), NEW id \in IdsDe(cronograma), NEW h, NEW destino
    PROVE  LET regs == Lancar(id, FALSE)
               novo == SemAntecipada(cronograma, id)
           IN  /\ DeLinhas(novo, m)
               /\ Gravavel(cronograma, registros) => Gravavel(novo, regs)
               /\ EmDia(cronograma, registros, h, destino) => EmDia(novo, regs, h, destino)
               /\ DeLinhas(cronograma, registros) => DeLinhas(novo, regs)
<1> DEFINE regs == Lancar(id, FALSE)
           sem(a) == [a EXCEPT !.antecipada = FALSE]
           novo == SemAntecipada(cronograma, id)
<1>1. novo = [i \in DOMAIN cronograma |->
                IF cronograma[i].id = id THEN sem(cronograma[i]) ELSE cronograma[i]]
  BY DEF SemAntecipada
<1>2. cronograma \in Seq(Marcadas(m))
  BY DEF DeLinhas
<1>3. cronograma \in Seq(Linhas)
  BY <1>2, MarcadasAberta, SeqCabe
<1> HIDE DEF novo
<1>4. /\ DOMAIN regs = DOMAIN registros \cup {id} /\ ~Concluida(regs, id)
      /\ \A x : x # id => (Concluida(regs, x) <=> Concluida(registros, x))
  BY LancarTipo
<1> HIDE DEF regs
<1>5. /\ \A x : Concluida(regs, x) => Concluida(registros, x)
      /\ \A x : ~Lancada(regs, x) => ~Lancada(registros, x)
  BY <1>4 DEF Lancada
<1>6. ASSUME NEW a \in Linhas
      PROVE  /\ sem(a) \in Linhas /\ ~sem(a).antecipada
             /\ sem(a).id = a.id /\ sem(a).data = a.data /\ sem(a).posicao = a.posicao
             /\ sem(a).disciplina = a.disciplina /\ sem(a).tema = a.tema /\ sem(a).passada = a.passada
  BY DEF Linhas
<1> HIDE DEF sem
<1>7. DeLinhas(novo, m)
  <2>1. novo \in Seq(Marcadas(m))
    BY <1>2, MarcadasAberta, SemAntecipadaTipo DEF novo
  <2> QED BY <2>1 DEF DeLinhas
<1>8. /\ DOMAIN novo = DOMAIN cronograma
      /\ \A i \in DOMAIN cronograma : /\ novo[i].id = cronograma[i].id
                                      /\ novo[i].data = cronograma[i].data
                                      /\ novo[i].posicao = cronograma[i].posicao
  <2>1. \A i \in DOMAIN cronograma : cronograma[i] \in Linhas
    BY <1>3, LugarEhNumero
  <2> QED BY <1>1, <1>6, <2>1
<1>9. ASSUME Gravavel(cronograma, registros) PROVE Gravavel(novo, regs)
  <2>1. IdsDe(novo) = IdsDe(cronograma)
    BY <1>8 DEF IdsDe
  <2>2. DOMAIN regs \subseteq IdsDe(novo)
    BY <1>4, <1>9, <2>1 DEF Gravavel
  <2>3. \A i, j \in DOMAIN novo :
           (novo[i].data = novo[j].data /\ novo[i].posicao = novo[j].posicao) => i = j
    BY <1>8, <1>9 DEF Gravavel
  <2> QED BY <2>2, <2>3 DEF Gravavel
<1>10. ASSUME EmDia(cronograma, registros, h, destino) PROVE EmDia(novo, regs, h, destino)
  <2>1. PICK feito, ja : cronograma \in Seq(Boas(feito, ja, registros, h, destino))
    BY <1>10 DEF EmDia
  <2> DEFINE B == Boas(feito, Nat, regs, h, destino)
  <2>2. ASSUME NEW a \in Linhas, NEW b \in Linhas,
               EmOrdemComOEstudo(a, feito, ja, registros, h, destino),
               b.id = a.id, b.data = a.data, b.disciplina = a.disciplina, b.tema = a.tema,
               b.passada = a.passada
        PROVE  b \in B
    <3>1. (coberta(b) <=> coberta(a)) /\ Topicos(b) = Topicos(a)
      BY <2>2 DEF coberta, Topicos
    <3>2. b.id \in Nat
      BY <2>2, LinhaTipo
    <3>3. EmOrdemComOEstudo(b, feito, Nat, regs, h, destino)
      BY <1>5, <2>2, <3>1, <3>2 DEF EmOrdemComOEstudo
    <3> QED BY <2>2, <3>3 DEF Boas
  <2>3. ASSUME NEW i \in DOMAIN cronograma PROVE novo[i] \in B
    <3> DEFINE a == cronograma[i]
    <3>1. a \in Boas(feito, ja, registros, h, destino)
      BY <2>1, LugarEhNumero
    <3> HIDE DEF a, B
    <3>2. a \in Linhas /\ EmOrdemComOEstudo(a, feito, ja, registros, h, destino)
      BY <3>1 DEF Boas
    <3>3. sem(a) \in B
      BY <1>6, <2>2, <3>2
    <3>4. a \in B
      BY <2>2, <3>2
    <3>5. novo[i] = sem(a) \/ novo[i] = a
      BY <1>1 DEF a
    <3> QED BY <3>3, <3>4, <3>5
  <2> HIDE DEF B
  <2>4. novo \in [DOMAIN cronograma -> B]
    BY <1>1, <1>8, <2>3
  <2>5. novo \in Seq(B)
    BY <1>3, <2>4, LugarALugar
  <2> QED BY <2>5 DEF EmDia, B
<1>11. ASSUME DeLinhas(cronograma, registros) PROVE DeLinhas(novo, regs)
  <2>1. cronograma \in Seq(Marcadas(registros))
    BY <1>11 DEF DeLinhas
  <2>2. ASSUME NEW i \in DOMAIN cronograma PROVE novo[i] \in Marcadas(regs)
    <3> DEFINE a == cronograma[i]
    <3>1. a \in Marcadas(registros)
      BY <2>1, LugarEhNumero
    <3> HIDE DEF a
    <3>2. a \in Linhas /\ (a.antecipada => Concluida(registros, a.id))
      BY <3>1 DEF Marcadas
    <3>3. novo[i] = IF a.id = id THEN sem(a) ELSE a
      BY <1>1 DEF a
    <3>4. CASE a.id = id
      <4>1. sem(a) \in Linhas /\ ~sem(a).antecipada
        BY <1>6, <3>2
      <4> QED BY <3>3, <3>4, <4>1 DEF Marcadas
    <3>5. CASE a.id # id
      BY <1>4, <3>2, <3>3, <3>5 DEF Marcadas
    <3> QED BY <3>4, <3>5
  <2> DEFINE T == Marcadas(regs)
  <2> HIDE DEF T
  <2>3. novo \in [DOMAIN cronograma -> T]
    BY <1>1, <1>8, <2>2 DEF T
  <2>4. novo \in Seq(T)
    BY <1>3, <2>3, LugarALugar
  <2> QED BY <2>4 DEF DeLinhas, T
<1> QED BY <1>7, <1>9, <1>10, <1>11 DEF novo, regs

\* Recording: a conclusion puts the schedule in order again; undoing one
\* takes the mark back.
LEMMA Registros ==
    ASSUME Invariante, NEW id \in IdsDe(cronograma), NEW c \in BOOLEAN, Registrar(id, c)
    PROVE  Mantem
<1> DEFINE regs == Lancar(id, c)
           novo == DepoisDoRegistro(cronograma, id, c, regs)
<1>1. /\ registros' = regs /\ config' = config /\ hoje' = hoje
      /\ cronograma' = IF Gravavel(novo, regs) THEN ordenar(novo) ELSE cronograma
      /\ interrompida' = (~Gravavel(novo, regs) \/ (~c /\ interrompida))
  BY DEF Registrar, Gravar
<1>2. /\ config \in Configs /\ hoje \in Nat \ {0} /\ Gravavel(cronograma, registros)
      /\ cronograma \in Seq(Linhas)
      /\ ~interrompida => EmDia(cronograma, registros, hoje, DiaDoEstudoFeito(Dias, hoje))
  BY DEF Invariante
<1>3. PICK m : DeLinhas(cronograma, m)
  BY TodasConcluidas DEF Invariante
<1>4. Gravavel(cronograma, regs)
  BY <1>2, LancarGrava
<1>5. CASE c
  <2>1. novo = emDiaComOEstudado(cronograma, config, regs)
    BY <1>5 DEF DepoisDoRegistro
  <2>2. \A x : Concluida(registros, x) => Concluida(regs, x)
    BY <1>5, LancarTipo
  <2> HIDE DEF regs, novo
  <2>3. DeLinhas(cronograma, registros) => DeLinhas(cronograma, regs)
    BY <2>2, MaisConclusoes
  <2>4. CASE Gravavel(novo, regs)
    <3>1. cronograma' = ordenar(novo)
      BY <1>1, <2>4
    <3>2. Invariante' /\ (DeLinhas(cronograma, regs) => DeLinhas(cronograma', registros'))
      BY <1>1, <1>2, <1>3, <2>1, <2>4, <3>1, Escrita
    <3> QED BY <2>3, <3>2 DEF Mantem
  <2>5. CASE ~Gravavel(novo, regs)
    <3>1. cronograma' = cronograma /\ interrompida'
      BY <1>1, <2>5
    <3>2. Invariante'
      BY <1>1, <1>2, <1>4, <3>1, NaoEscrita
    <3> QED BY <1>1, <2>3, <3>1, <3>2 DEF Mantem
  <2> QED BY <2>4, <2>5
<1>6. CASE ~c
  <2> DEFINE destino == DiaDoEstudoFeito(Dias, hoje)
  <2>1. novo = SemAntecipada(cronograma, id) /\ regs = Lancar(id, FALSE)
    BY <1>6 DEF DepoisDoRegistro
  <2>2. /\ DeLinhas(novo, m)
        /\ Gravavel(cronograma, registros) => Gravavel(novo, regs)
        /\ EmDia(cronograma, registros, hoje, destino) => EmDia(novo, regs, hoje, destino)
        /\ DeLinhas(cronograma, registros) => DeLinhas(novo, regs)
    BY <1>3, <2>1, Desfeita
  <2>3. destino \in Int
    BY <1>2, DiasTipo
  <2>4. DiaDoEstudoFeito(Dias, hoje)' = destino
    BY <1>1 DEF DiaDoEstudoFeito, DestinoValido, Dias, PlanoDe
  <2> HIDE DEF regs, novo, destino
  <2>5. Gravavel(novo, regs) /\ cronograma' = ordenar(novo)
    BY <1>1, <1>2, <2>2
  <2>6. interrompida' <=> interrompida
    BY <1>1, <1>6, <2>5
  <2>7. /\ DeLinhas(cronograma', m)
        /\ DeLinhas(cronograma, registros) => DeLinhas(cronograma', registros')
    BY <1>1, <2>2, <2>5, ordenarLinhas
  <2>8. /\ Gravavel(cronograma', registros')
        /\ EmDia(novo, regs, hoje, destino) => EmDia(cronograma', registros', hoje', destino)
    BY <1>1, <1>2, <2>2, <2>3, <2>5, OrdenadaIgual
  <2>9. ~interrompida' => EmDia(cronograma', registros', hoje', DiaDoEstudoFeito(Dias, hoje)')
    BY <1>2, <2>2, <2>4, <2>6, <2>8 DEF destino
  <2>10. cronograma' \in Seq(Linhas)
    BY <2>7, DeLinhasTipo
  <2> QED BY <1>1, <1>2, <2>7, <2>8, <2>9, <2>10 DEF Mantem, Invariante
<1> QED BY <1>5, <1>6

-----------------------------------------------------------------------------
(* Splitting a topic, saving, failures.                                    *)

\* The id a new row gets.
LEMMA NovoIdTipo ==
    ASSUME Invariante
    PROVE  NovoId \in Nat
<1>1. UltimoId(cronograma) \in Nat
  BY UltimoIdTipo DEF Invariante
<1> HIDE DEF UltimoId
<1> QED BY <1>1 DEF NovoId

\* Splitting a topic off and recording it.
LEMMA Estudo ==
    ASSUME Invariante, NEW id \in IdsDe(cronograma), NEW topico \in Topico, EstudarTema(id, topico)
    PROVE  Mantem
<1> DEFINE novoId == NovoId
           separadas == SepararTema(cronograma, id, topico, novoId)
           quem == IF separadas = cronograma THEN id ELSE novoId
           regs == Lancar(quem, TRUE)
           lista == ordenar(separadas)
           novo == emDiaComOEstudado(lista, config, regs)
<1>1. /\ config' = config /\ hoje' = hoje
      /\ Gravavel(separadas, registros) =>
            /\ registros' = regs
            /\ cronograma' = ordenar(IF Gravavel(novo, regs) THEN novo ELSE separadas)
            /\ interrompida' = ~Gravavel(novo, regs)
      /\ ~Gravavel(separadas, registros) =>
            cronograma' = cronograma /\ registros' = registros /\ interrompida' = interrompida
  BY DEF EstudarTema, DepoisDoRegistro
<1>0. novoId \in Nat
  BY NovoIdTipo
<1> HIDE DEF novoId
<1>2. /\ config \in Configs /\ hoje \in Nat \ {0} /\ cronograma \in Seq(Linhas)
      /\ ~interrompida => EmDia(cronograma, registros, hoje, DiaDoEstudoFeito(Dias, hoje))
  BY DEF Invariante
<1>3. PICK m : DeLinhas(cronograma, m)
  BY TodasConcluidas DEF Invariante
<1>4. \E c : DeLinhas(separadas, c)
  <2> DEFINE c == [x \in DOMAIN m \cup {novoId} |-> TRUE]
  <2>1. (\A x : Concluida(m, x) => Concluida(c, x)) /\ Concluida(c, novoId)
    BY DEF Concluida
  <2> HIDE DEF c
  <2>2. DeLinhas(SepararTema(cronograma, id, topico, novoId), c)
    BY <1>0, <1>3, <2>1, SepararTemaLinhas
  <2> QED BY <2>2
<1>5. \A x : Concluida(registros, x) => Concluida(regs, x)
  BY LancarTipo
<1>6. separadas # cronograma => Concluida(regs, novoId)
  BY LancarTipo
<1>7. ASSUME DeLinhas(cronograma, registros) PROVE DeLinhas(separadas, regs)
  <2> DEFINE c == regs
  <2>1. /\ \A x : Concluida(registros, x) => Concluida(c, x)
        /\ SepararTema(cronograma, id, topico, novoId) # cronograma => Concluida(c, novoId)
    BY <1>5, <1>6
  <2> HIDE DEF c, regs
  <2>2. DeLinhas(SepararTema(cronograma, id, topico, novoId), c)
    BY <1>0, <1>7, <2>1, SepararTemaLinhas
  <2> QED BY <2>2 DEF c
<1>8. quem \in IdsDe(separadas)
  <2>1. CASE separadas = cronograma
    BY <2>1
  <2>2. CASE separadas # cronograma
    <3> DEFINE c == [x \in DOMAIN m \cup {novoId} |-> TRUE]
    <3>1. (\A x : Concluida(m, x) => Concluida(c, x)) /\ Concluida(c, novoId)
      BY DEF Concluida
    <3> HIDE DEF c
    <3>2. SepararTema(cronograma, id, topico, novoId) # cronograma
            => novoId \in IdsDe(SepararTema(cronograma, id, topico, novoId))
      BY <1>0, <1>3, <3>1, SepararTemaLinhas
    <3> QED BY <2>2, <3>2
  <2> QED BY <2>1, <2>2
<1>9. Gravavel(separadas, registros) => Gravavel(separadas, regs)
  <2> HIDE DEF separadas, quem
  <2> QED BY <1>8, LancarGrava
<1> HIDE DEF separadas, quem, regs
<1>10. PICK c : DeLinhas(separadas, c)
  BY <1>4
<1>11. /\ DeLinhas(lista, c) /\ (DeLinhas(separadas, regs) => DeLinhas(lista, regs))
       /\ Gravavel(separadas, regs) => Gravavel(lista, regs)
  BY <1>2, <1>10, ordenarLinhas, OrdenadaIgual
<1>12. CASE ~Gravavel(separadas, registros)
  <2>1. /\ cronograma' = cronograma /\ registros' = registros /\ interrompida' = interrompida
        /\ config' = config /\ hoje' = hoje
    BY <1>1, <1>12
  <2> QED BY <2>1 DEF Mantem, Invariante, Dias, PlanoDe
<1>13. CASE Gravavel(separadas, registros) /\ Gravavel(novo, regs)
  <2>1. cronograma' = ordenar(novo) /\ registros' = regs
    BY <1>1, <1>13
  <2> HIDE DEF lista
  <2>2. Invariante' /\ (DeLinhas(lista, regs) => DeLinhas(cronograma', registros'))
    BY <1>1, <1>2, <1>11, <1>13, <2>1, Escrita DEF novo
  <2> QED BY <1>7, <1>11, <2>2 DEF Mantem
<1>14. CASE Gravavel(separadas, registros) /\ ~Gravavel(novo, regs)
  <2>1. cronograma' = lista /\ registros' = regs /\ interrompida'
    BY <1>1, <1>14
  <2> HIDE DEF lista, novo
  <2>2. Gravavel(lista, regs)
    BY <1>9, <1>11, <1>14
  <2>3. Invariante'
    BY <1>1, <1>2, <1>11, <2>1, <2>2, DeLinhasTipo DEF Invariante
  <2>4. DeLinhas(cronograma, registros) => DeLinhas(cronograma', registros')
    BY <1>7, <1>11, <2>1
  <2> QED BY <2>3, <2>4 DEF Mantem
<1> QED BY <1>12, <1>13, <1>14

\* Saving another configuration.
LEMMA Salvamento ==
    ASSUME Invariante, NEW cfg \in Configs, Salvar(cfg)
    PROVE  Mantem
<1> DEFINE desde == desdeQuando(config, cfg)
           as == Replanejar(cronograma, Novas(cfg), desde, registros)
           novo == emDiaComOEstudado(as, cfg, registros)
<1>1. /\ config' = cfg /\ registros' = registros /\ hoje' = hoje
      /\ cronograma' = IF Gravavel(novo, registros) THEN ordenar(novo) ELSE cronograma
      /\ interrompida' = ~Gravavel(novo, registros)
  BY DEF Salvar, Gravar
<1>2. hoje \in Nat \ {0} /\ Gravavel(cronograma, registros) /\ cronograma \in Seq(Linhas)
  BY DEF Invariante
<1>3. PICK m : DeLinhas(cronograma, m)
  BY TodasConcluidas DEF Invariante
<1> HIDE DEF desde
<1>4. ASSUME NEW c, DeLinhas(cronograma, c) PROVE DeLinhas(as, c)
  <2>1. DeLinhas(Novas(cfg), c)
    BY <1>2, NovasTipo, PlanosBons
  <2> QED BY <1>4, <2>1, ReplanejarLinhas
<1> HIDE DEF as
<1>5. CASE Gravavel(novo, registros)
  <2>1. cronograma' = ordenar(novo)
    BY <1>1, <1>5
  <2>2. DeLinhas(as, m)
    BY <1>3, <1>4
  <2>3. Invariante' /\ (DeLinhas(as, registros) => DeLinhas(cronograma', registros'))
    BY <1>1, <1>2, <1>5, <2>1, <2>2, Escrita
  <2> QED BY <1>4, <2>3 DEF Mantem
<1>6. CASE ~Gravavel(novo, registros)
  <2>1. cronograma' = cronograma /\ interrompida' /\ config' \in Configs
    BY <1>1, <1>6
  <2>2. Invariante'
    BY <1>1, <1>2, <2>1, NaoEscrita
  <2> QED BY <1>1, <2>1, <2>2 DEF Mantem
<1> QED BY <1>5, <1>6

\* What a failure cuts in two, and clearing the records.
LEMMA Falhas ==
    ASSUME Invariante,
           \/ \E id \in IdsDe(cronograma), c \in BOOLEAN : RegistrarInterrompido(id, c)
           \/ \E id \in IdsDe(cronograma), t \in Topico : EstudarTemaInterrompido(id, t)
           \/ LimparRegistros
           \/ \E cfg \in Configs : SalvarInterrompido(cfg)
    PROVE  Invariante' /\ Operacoes \cap {"limpar", "falha", "estudar_falha"} # {}
<1>1. /\ config \in Configs /\ hoje \in Nat \ {0} /\ Gravavel(cronograma, registros)
      /\ cronograma \in Seq(Linhas)
      /\ ~interrompida => EmDia(cronograma, registros, hoje, DiaDoEstudoFeito(Dias, hoje))
  BY DEF Invariante
<1>2. PICK m : DeLinhas(cronograma, m)
  BY TodasConcluidas DEF Invariante
<1>3. CASE \E id \in IdsDe(cronograma), c \in BOOLEAN : RegistrarInterrompido(id, c)
  <2>1. PICK id \in IdsDe(cronograma), c \in BOOLEAN : RegistrarInterrompido(id, c)
    BY <1>3
  <2>2. /\ registros' = Lancar(id, c) /\ interrompida' = TRUE /\ cronograma' = cronograma
        /\ config' = config /\ hoje' = hoje /\ "falha" \in Operacoes
    BY <2>1 DEF RegistrarInterrompido, Pode
  <2>3. Gravavel(cronograma, Lancar(id, c))
    BY <1>1, LancarGrava
  <2> QED BY <1>1, <2>2, <2>3, NaoEscrita
<1>4. CASE \E id \in IdsDe(cronograma), t \in Topico : EstudarTemaInterrompido(id, t)
  <2>1. PICK id \in IdsDe(cronograma), topico \in Topico : EstudarTemaInterrompido(id, topico)
    BY <1>4
  <2> DEFINE novoId == NovoId
             separadas == SepararTema(cronograma, id, topico, novoId)
  <2>2. /\ cronograma' = IF Gravavel(separadas, registros) THEN ordenar(separadas) ELSE cronograma
        /\ interrompida' = (interrompida \/ Gravavel(separadas, registros))
        /\ registros' = registros /\ config' = config /\ hoje' = hoje
        /\ "estudar_falha" \in Operacoes
    BY <2>1 DEF EstudarTemaInterrompido, Gravar, Pode
  <2>0. novoId \in Nat
    BY NovoIdTipo
  <2> HIDE DEF novoId
  <2> DEFINE c == [x \in DOMAIN m \cup {novoId} |-> TRUE]
  <2>3. (\A x : Concluida(m, x) => Concluida(c, x)) /\ Concluida(c, novoId)
    BY DEF Concluida
  <2> HIDE DEF c
  <2>4. DeLinhas(separadas, c)
    BY <2>0, <1>2, <2>3, SepararTemaLinhas
  <2> HIDE DEF separadas
  <2>5. CASE Gravavel(separadas, registros)
    <3>1. cronograma' = ordenar(separadas) /\ interrompida'
      BY <2>2, <2>5
    <3>2. DeLinhas(ordenar(separadas), c) /\ Gravavel(ordenar(separadas), registros)
      BY <1>1, <2>4, <2>5, ordenarLinhas, OrdenadaIgual
    <3> QED BY <1>1, <2>2, <3>1, <3>2, DeLinhasTipo DEF Invariante
  <2>6. CASE ~Gravavel(separadas, registros)
    <3>1. cronograma' = cronograma /\ (interrompida' <=> interrompida)
      BY <2>2, <2>6
    <3> QED BY <2>2, <3>1 DEF Invariante, Dias, PlanoDe
  <2> QED BY <2>5, <2>6
<1>5. CASE LimparRegistros
  <2>1. /\ registros' = <<>> /\ cronograma' = cronograma /\ config' = config /\ hoje' = hoje
        /\ interrompida' = interrompida /\ "limpar" \in Operacoes
    BY <1>5 DEF LimparRegistros, Pode
  <2>2. DOMAIN registros' = {}
    BY <2>1
  <2>3. Gravavel(cronograma', registros')
    BY <1>1, <2>1, <2>2 DEF Gravavel
  <2>4. EmDia(cronograma', registros', hoje', DiaDoEstudoFeito(Dias, hoje)')
    BY <1>2, <2>1, <2>2, NadaLancado
  <2> QED BY <1>1, <1>2, <2>1, <2>3, <2>4 DEF Invariante
<1>6. CASE \E cfg \in Configs : SalvarInterrompido(cfg)
  <2>1. PICK cfg \in Configs : SalvarInterrompido(cfg)
    BY <1>6
  <2>2. /\ config' = cfg /\ interrompida' = TRUE /\ cronograma' = cronograma
        /\ registros' = registros /\ hoje' = hoje /\ "falha" \in Operacoes
    BY <2>1 DEF SalvarInterrompido, Pode
  <2> QED BY <1>1, <2>2, NaoEscrita
<1> QED BY <1>3, <1>4, <1>5, <1>6

-----------------------------------------------------------------------------
(* The theorems.                                                           *)

\* Nothing is stored when the plan starts.
LEMMA Comeco ==
    ASSUME Init
    PROVE  Invariante /\ DeLinhas(cronograma, registros)
<1>1. cronograma = <<>> /\ registros = <<>> /\ config \in Configs /\ hoje = config.inicio
  BY DEF Init
<1>2. hoje \in Nat \ {0}
  BY <1>1, Calendario
<1>3. cronograma \in Seq(Linhas) /\ \A m : DeLinhas(cronograma, m)
  <2>1. \A T : cronograma \in Seq(T)
    BY <1>1
  <2> QED BY <2>1 DEF DeLinhas
<1>4. DOMAIN registros = {} /\ DOMAIN cronograma = {}
  BY <1>1
<1>5. Gravavel(cronograma, registros)
  BY <1>4 DEF Gravavel
<1>6. EmDia(cronograma, registros, hoje, DiaDoEstudoFeito(Dias, hoje))
  BY <1>3, <1>4, NadaLancado
<1> QED BY <1>1, <1>2, <1>3, <1>5, <1>6 DEF Invariante

\* Nothing happens.
LEMMA Parado ==
    ASSUME Invariante, UNCHANGED vars
    PROVE  Mantem
BY DEF vars, Mantem, Invariante, Dias, PlanoDe

\* One step.
LEMMA UmPasso ==
    ASSUME Invariante, [Next]_vars
    PROVE  /\ Invariante'
           /\ Operacoes \cap {"limpar", "falha", "estudar_falha"} = {} => Mantem
<1>1. CASE UNCHANGED vars
  BY <1>1, Parado DEF Mantem
<1>2. CASE Abrir
  BY <1>2, Abertura DEF Mantem
<1>3. CASE \/ \E id \in IdsDe(cronograma), dt \in Datas, p \in Posicoes : PedirMover(id, dt, p)
           \/ \E id \in IdsDe(cronograma), dt \in Datas, p \in Posicoes : PedirTrocar(id, dt, p)
           \/ \E dt \in Datas : PedirAdiarDia(dt)
           \/ \E id \in IdsDe(cronograma), dt \in Datas : PedirAntecipar(id, dt)
  BY <1>3, Movimentos DEF Mantem
<1>4. CASE \/ PedirCompactar \/ RestaurarOrdem \/ AbsorverAtraso
           \/ \E dt \in Datas : ReorganizarDesde(dt)
  BY <1>4, Rearranjos DEF Mantem
<1>5. CASE \E id \in IdsDe(cronograma), c \in BOOLEAN : Registrar(id, c)
  BY <1>5, Registros DEF Mantem
<1>6. CASE \E id \in IdsDe(cronograma), t \in Topico : EstudarTema(id, t)
  BY <1>6, Estudo DEF Mantem
<1>7. CASE \E cfg \in Configs : Salvar(cfg)
  BY <1>7, Salvamento DEF Mantem
<1>8. CASE \/ \E id \in IdsDe(cronograma), c \in BOOLEAN : RegistrarInterrompido(id, c)
           \/ \E id \in IdsDe(cronograma), t \in Topico : EstudarTemaInterrompido(id, t)
           \/ LimparRegistros
           \/ \E cfg \in Configs : SalvarInterrompido(cfg)
  BY <1>8, Falhas
<1>9. CASE PassaODia
  BY <1>9, PassagemDoDia DEF Mantem
<1> QED BY <1>1, <1>2, <1>3, <1>4, <1>5, <1>6, <1>7, <1>8, <1>9 DEF Next

\* The rows of a schedule in order are what the properties say of them.
LEMMA EmDiaDiz ==
    ASSUME Invariante
    PROVE  ConcluidaEmDia /\ EstudadoNaoVolta
<1> DEFINE d == DiaDoEstudoFeito(Dias, hoje)
<1>1. config \in Configs /\ hoje \in Nat
  BY DEF Invariante
<1>2. d \in Int /\ hoje \in Int
  BY <1>1, DiasTipo
<1>3. Max({hoje, d}) = Ate(hoje, d)
  <2> HIDE DEF d
  <2> QED BY <1>2, MaiorDosDois
<1>4. ASSUME ~interrompida, d # 0, NEW i \in DOMAIN cronograma,
             Concluida(registros, cronograma[i].id), cronograma[i].disciplina # SemDisciplina
      PROVE  cronograma[i].data <= Max({hoje, d})
  <2> HIDE DEF d
  <2>1. EmDia(cronograma, registros, hoje, d)
    BY <1>4 DEF Invariante, d
  <2>2. PICK feito, ja : cronograma \in Seq(Boas(feito, ja, registros, hoje, d))
    BY <2>1 DEF EmDia
  <2>3. cronograma[i] \in Boas(feito, ja, registros, hoje, d)
    BY <2>2, LugarEhNumero
  <2>4. EmOrdemComOEstudo(cronograma[i], feito, ja, registros, hoje, d)
    BY <2>3 DEF Boas
  <2> QED BY <1>3, <1>4, <2>4 DEF EmOrdemComOEstudo
<1>5. ASSUME ~interrompida, NEW i \in DOMAIN cronograma, coberta(cronograma[i]),
             cronograma[i].data >= hoje, ~Lancada(registros, cronograma[i].id)
      PROVE  Topicos(cronograma[i]) \cap TopicosFeitos(cronograma, registros) = {}
  <2> HIDE DEF d
  <2>1. EmDia(cronograma, registros, hoje, d)
    BY <1>5 DEF Invariante, d
  <2>2. PICK feito, ja : cronograma \in Seq(Boas(feito, ja, registros, hoje, d))
    BY <2>1 DEF EmDia
  <2>3. ASSUME NEW k \in DOMAIN cronograma
        PROVE  EmOrdemComOEstudo(cronograma[k], feito, ja, registros, hoje, d)
    <3>1. cronograma[k] \in Boas(feito, ja, registros, hoje, d)
      BY <2>2, LugarEhNumero
    <3> QED BY <3>1 DEF Boas
  <2>4. TopicosFeitos(cronograma, registros) \subseteq feito
    <3>1. ASSUME NEW k \in DOMAIN cronograma, coberta(cronograma[k]),
                 Concluida(registros, cronograma[k].id)
          PROVE  Topicos(cronograma[k]) \subseteq feito
      BY <2>3, <3>1 DEF EmOrdemComOEstudo
    <3> QED BY <3>1 DEF TopicosFeitos
  <2>5. Topicos(cronograma[i]) \cap feito = {}
    BY <1>5, <2>3 DEF EmOrdemComOEstudo
  <2> QED BY <2>4, <2>5
<1>6. ConcluidaEmDia
  BY <1>4 DEF ConcluidaEmDia
<1>7. EstudadoNaoVolta
  BY <1>5 DEF EstudadoNaoVolta
<1> QED BY <1>6, <1>7

\* The inductive invariant holds, whatever the syllabus, the planner, the
\* notebook, the calendar and the sequence of requests, failures included.
THEOREM InvarianteSempre == Spec => []Invariante
<1>1. Init => Invariante
  BY Comeco
<1>2. Invariante /\ [Next]_vars => Invariante'
  BY UmPasso
<1> QED BY <1>1, <1>2, PTL DEF Spec

\* What is concluded is never left waiting on a day to come: Registrar and
\* every rearrangement of CronogramaService and PlanoService bring it to the
\* day study ahead is written on.
THEOREM ConcluidaSempreEmDia == Spec => []ConcluidaEmDia
<1>1. Invariante => ConcluidaEmDia
  BY EmDiaDiz
<1> QED BY <1>1, InvarianteSempre, PTL

\* A studied topic is not charged again, whichever request rebuilt the days
\* ahead: emDiaComOEstudado runs before every write.
THEOREM EstudadoNuncaVolta == Spec => []EstudadoNaoVolta
<1>1. Invariante => EstudadoNaoVolta
  BY EmDiaDiz
<1> QED BY <1>1, InvarianteSempre, PTL

\* A block marked as studied ahead of time is a concluded one, as long as the
\* records are not cleared and no request is cut in two.
THEOREM AntecipadaSempreConcluida ==
    ASSUME Operacoes \cap {"limpar", "falha", "estudar_falha"} = {}
    PROVE  Spec => []AntecipadaConcluida
<1>1. Init => Invariante /\ DeLinhas(cronograma, registros)
  BY Comeco
<1>2. Invariante /\ DeLinhas(cronograma, registros) /\ [Next]_vars
        => Invariante' /\ DeLinhas(cronograma, registros)'
  BY UmPasso DEF Mantem
<1>3. DeLinhas(cronograma, registros) => AntecipadaConcluida
  <2> SUFFICES ASSUME DeLinhas(cronograma, registros), NEW i \in DOMAIN cronograma,
                      cronograma[i].antecipada
               PROVE  Concluida(registros, cronograma[i].id)
    BY DEF AntecipadaConcluida
  <2>1. cronograma \in Seq(Marcadas(registros))
    BY DEF DeLinhas
  <2>2. cronograma[i] \in Marcadas(registros)
    BY <2>1, LugarEhNumero
  <2> QED BY <2>2 DEF Marcadas
<1> QED BY <1>1, <1>2, <1>3, PTL DEF Spec

-----------------------------------------------------------------------------
(* No request but a trade is refused, and what is stored comes back in     *)
(* order.                                                                  *)

\* The rows of the list come in (data, posicao) order.
Ordenada(as) == \A i, j \in DOMAIN as : i < j => DataPosicaoMenor(as[i], as[j])

\* What is stored has each id once and comes back in order.
Certo == SemRepetir(cronograma) /\ Ordenada(cronograma)

\* Nothing was refused, or a trade was.
SoTroca == recusa = "nenhuma" \/ (recusa = "trocar" /\ "trocar" \in Operacoes)

\* Two places of a list without a place repeated, the one whose turn comes
\* first goes first.
LEMMA VezMenor ==
    ASSUME NEW D \in SUBSET Int, IsFiniteSet(D), NEW d \in [D -> Int], NEW p \in [D -> Int],
           NEW x \in D, NEW y \in D, d[x] # d[y] \/ p[x] # p[y],
           Turno(D, PorLugar(d, p, D), x) < Turno(D, PorLugar(d, p, D), y)
    PROVE  LugarAntes(d, p, x, y)
<1> DEFINE R == PorLugar(d, p, D)
           A(z) == {w \in D : <<w, z>> \in R}
<1>1. /\ d[x] \in Int /\ d[y] \in Int /\ p[x] \in Int /\ p[y] \in Int
  OBVIOUS
<1>2. SUFFICES ASSUME ~LugarAntes(d, p, x, y) PROVE FALSE
  OBVIOUS
<1>3. LugarAntes(d, p, y, x)
  BY <1>1, <1>2 DEF LugarAntes
<1>4. <<y, x>> \in R
  BY <1>3 DEF PorLugar
<1>5. OrdemTotal(R, D)
  BY PorLugarTotal
<1> HIDE DEF R
<1>6. A(y) \subseteq A(x)
  BY <1>4, <1>5 DEF OrdemTotal
<1>7. A(x) \in SUBSET D /\ IsFiniteSet(A(x))
  <2>1. A(x) \subseteq D
    OBVIOUS
  <2> HIDE DEF A
  <2> QED BY <2>1, FS_Subset
<1>8. Turno(D, R, x) = Cardinality(A(x)) /\ Turno(D, R, y) = Cardinality(A(y))
  BY DEF Turno
<1> HIDE DEF A
<1>9. IsFiniteSet(A(y)) /\ Cardinality(A(y)) <= Cardinality(A(x))
  BY <1>6, <1>7, FS_Subset
<1>10. Cardinality(A(x)) \in Nat /\ Cardinality(A(y)) \in Nat
  BY <1>7, <1>9, FS_CardinalityType
<1>11. Turno(D, R, x) < Turno(D, R, y)
  BY DEF R
<1> QED BY <1>8, <1>9, <1>10, <1>11

\* The rows of a list ordered come in order.
LEMMA ordenarEmOrdem ==
    ASSUME NEW as \in Seq(Linhas), SemColisao(as)
    PROVE  Ordenada(ordenar(as))
<1> DEFINE n == Len(as)
           d == DataDe(as)
           p == PosicaoDe(as)
           r == ordenar(as)
<1>1. n \in Nat /\ DOMAIN as = 1 .. n
  BY SeqEhFuncao
<1>2. \A i \in 1 .. n : /\ as[i].data \in Int /\ as[i].posicao \in Int
                        /\ d[i] = as[i].data /\ p[i] = as[i].posicao
  <2> TAKE i \in 1 .. n
  <2>1. as[i] \in Linhas
    BY <1>1, LugarEhNumero
  <2> QED BY <2>1, LinhaTipo DEF DataDe, PosicaoDe
<1>3. d \in [1 .. n -> Int] /\ p \in [1 .. n -> Int]
  BY <1>2 DEF DataDe, PosicaoDe
<1>4. PorTurno(r, as)
  <2>1. Linhas \in SUBSET Linhas
    OBVIOUS
  <2> QED BY <2>1, ordenarPorTurno
<1> HIDE DEF r
<1>5. PICK q : /\ Percorre(q, n) /\ DOMAIN r = 1 .. n
               /\ \A k \in 1 .. n : r[k] = as[q[k]] /\ Turno(1 .. n, OrdemDe(as), q[k]) = k
  BY <1>4 DEF PorTurno
<1>6. OrdemDe(as) = PorLugar(d, p, 1 .. n)
  BY DEF OrdemDe
<1> HIDE DEF d, p, n
<1> DEFINE D == 1 .. n
<1>7. D \in SUBSET Int /\ IsFiniteSet(D)
  BY <1>1, AteFinito
<1>8. ASSUME NEW j \in D, NEW k \in D, j < k PROVE DataPosicaoMenor(r[j], r[k])
  <2> DEFINE x == q[j]
             y == q[k]
  <2>1. x \in D /\ y \in D /\ x # y
    <3>1. q \in [D -> D] /\ \A a, b \in D : q[a] = q[b] => a = b
      BY <1>5 DEF Percorre
    <3>2. j # k
      BY <1>7, <1>8
    <3> HIDE DEF D
    <3> QED BY <3>1, <3>2
  <2>2. Turno(D, PorLugar(d, p, D), x) = j /\ Turno(D, PorLugar(d, p, D), y) = k
    BY <1>5, <1>6
  <2>3. r[j] = as[x] /\ r[k] = as[y]
    BY <1>5
  <2> HIDE DEF x, y, D
  <2>4. d[x] # d[y] \/ p[x] # p[y]
    BY <1>1, <1>2, <2>1 DEF SemColisao, D
  <2>5. d \in [D -> Int] /\ p \in [D -> Int]
    BY <1>3 DEF D
  <2>6. LugarAntes(d, p, x, y)
    BY <1>7, <1>8, <2>1, <2>2, <2>4, <2>5, VezMenor
  <2> QED BY <1>2, <2>1, <2>3, <2>6 DEF LugarAntes, DataPosicaoMenor, D
<1> QED BY <1>5, <1>8 DEF Ordenada, r

\* Every write is of the rows in order, and is refused only when a place is
\* repeated or a row with a record is left out.
LEMMA GravarCerto ==
    ASSUME Certo, NEW STATE novo, NEW STATE regs, NEW op, Gravar(op, novo, regs),
           novo \in Seq(Linhas), SemRepetir(novo)
    PROVE  /\ Certo'
           /\ Gravavel(novo, regs) => recusa' = "nenhuma"
           /\ ~Gravavel(novo, regs) => recusa' = op
<1>1. /\ cronograma' = IF Gravavel(novo, regs) THEN ordenar(novo) ELSE cronograma
      /\ recusa'     = IF Gravavel(novo, regs) THEN "nenhuma" ELSE op
  BY DEF Gravar
<1>2. CASE Gravavel(novo, regs)
  <2>1. SemColisao(novo)
    BY <1>2, GravavelDiz
  <2>2. SemRepetir(ordenar(novo)) /\ Ordenada(ordenar(novo))
    BY <2>1, ordenarUmaVez, ordenarEmOrdem
  <2>3. cronograma' = ordenar(novo)
    BY <1>1, <1>2
  <2>4. SemRepetir(cronograma') /\ Ordenada(cronograma')
    BY <2>2, <2>3
  <2> QED BY <1>1, <1>2, <2>4 DEF Certo
<1>3. CASE ~Gravavel(novo, regs)
  <2>1. cronograma' = cronograma
    BY <1>1, <1>3
  <2> QED BY <1>1, <1>3, <2>1 DEF Certo
<1> QED BY <1>2, <1>3

\* What the invariants say of the stored schedule.
LEMMA Guardado ==
    ASSUME Invariante, Certo
    PROVE  /\ config \in Configs /\ hoje \in Nat \ {0} /\ hoje \in Int
           /\ cronograma \in Seq(Linhas) /\ SemRepetir(cronograma) /\ SemColisao(cronograma)
           /\ DOMAIN registros \subseteq IdsDe(cronograma) /\ Guardada(cronograma)
<1>1. /\ config \in Configs /\ hoje \in Nat \ {0} /\ cronograma \in Seq(Linhas)
      /\ Gravavel(cronograma, registros) /\ SemRepetir(cronograma)
  BY DEF Invariante, Certo
<1>2. SemColisao(cronograma) /\ DOMAIN registros \subseteq IdsDe(cronograma)
  BY <1>1, GravavelDiz
<1> QED BY <1>1, <1>2 DEF Guardada

\* The write every request of CronogramaService ends with.
LEMMA MontadaCerta ==
    ASSUME Invariante, Certo, NEW STATE as, NEW op, gravarEMontar(op, as),
           as \in Seq(Linhas), SemRepetir(as), IdsDe(cronograma) \cap DOMAIN registros \subseteq IdsDe(as)
    PROVE  /\ Certo' /\ recusa' \in {"nenhuma", op}
           /\ SemColisao(as) => recusa' = "nenhuma"
<1> DEFINE novo == emDiaComOEstudado(as, config, registros)
<1>1. Gravar(op, novo, registros)
  BY DEF gravarEMontar
<1>2. /\ config \in Configs /\ hoje \in Int /\ cronograma \in Seq(Linhas)
      /\ DOMAIN registros \subseteq IdsDe(cronograma)
  BY Guardado
<1>3. PlanoBom(PlanoDe(config))
  BY <1>2, PlanosBons
<1>4. /\ novo \in Seq(Linhas) /\ Conserva(novo, as, registros)
      /\ SemColisao(as) => SemColisao(novo)
  BY <1>2, <1>3, emDiaUmaVez
<1> HIDE DEF novo
<1>5. SemRepetir(novo) /\ DOMAIN registros \subseteq IdsDe(novo)
  BY <1>2, <1>4 DEF Conserva
<1>6. SemColisao(as) => Gravavel(novo, registros)
  BY <1>4, <1>5, GravavelDiz
<1> QED BY <1>1, <1>4, <1>5, <1>6, GravarCerto

\* Written without a refusal.
Aceito == Certo' /\ SoTroca'

\* What such a request writes when it repeats nothing is accepted.
LEMMA MontadaAceita ==
    ASSUME Invariante, Certo, NEW STATE as, NEW op, gravarEMontar(op, as), Escrevivel(as)
    PROVE  Aceito
<1>1. /\ as \in Seq(Linhas) /\ SemRepetir(as) /\ SemColisao(as)
      /\ IdsDe(cronograma) \cap DOMAIN registros \subseteq IdsDe(as)
  BY Guardado DEF Escrevivel
<1>2. Certo' /\ recusa' = "nenhuma"
  BY <1>1, MontadaCerta
<1> QED BY <1>2 DEF Aceito, SoTroca

\* A list with every row of the stored one may be written.
LEMMA GuardaEscrevivel ==
    ASSUME NEW as, Guarda(as, cronograma)
    PROVE  Escrevivel(as)
BY DEF Guarda, TemIds, Escrevivel

-----------------------------------------------------------------------------
(* The requests that move what they are told to.                           *)

\* The chain of days that receives what is postponed has each day once.
LEMMA CadeiaUmaVez ==
    ASSUME Invariante, Certo, NEW data
    PROVE  LET cadeia == cadeiaDe(Dias, data, Concluidos)
           IN  /\ cadeia \in Seq(1 .. Prova)
               /\ \A j, k \in DOMAIN cadeia : cadeia[j] = cadeia[k] => j = k
<1> DEFINE S == {dt \in DOMAIN Dias : dt >= data /\ DestinoValido(Dias, dt) /\ dt \notin Concluidos}
           cadeia == EmSequencia(S)
<1>1. cadeiaDe(Dias, data, Concluidos) = cadeia
  BY DEF cadeiaDe
<1>2. DOMAIN Dias \subseteq 1 .. Prova
  BY Guardado, DiasTipo
<1>3. S \in SUBSET Int /\ S \subseteq 1 .. Prova /\ IsFiniteSet(S)
  <2>1. IsFiniteSet(1 .. Prova) /\ \A x \in 1 .. Prova : x \in Int
    BY Calendario, AteFinito
  <2>2. S \in SUBSET (1 .. Prova)
    BY <1>2
  <2> HIDE DEF S
  <2> QED BY <2>1, <2>2, FS_Subset
<1> HIDE DEF S
<1>4. cadeia \in Seq(S) /\ \A j, k \in DOMAIN cadeia : cadeia[j] = cadeia[k] => j = k
  BY <1>3, EmSequenciaTodos, EmSequenciaUmaVez
<1>5. cadeia \in Seq(1 .. Prova)
  BY <1>3, <1>4, SeqCabe
<1> QED BY <1>1, <1>4, <1>5

\* Moving a subject.
LEMMA MoverAceito ==
    ASSUME Invariante, Certo, NEW id \in IdsDe(cronograma), NEW destino \in Datas, NEW posicao \in Posicoes,
           PedirMover(id, destino, posicao)
    PROVE  Aceito
<1> DEFINE origem == PorID(cronograma, id).data
           movidas == Mover(cronograma, id, destino, posicao)
           desde == Max({origem, hoje})
           as == IF destino < origem
                 THEN compactarDesde(movidas, desde, cronograma, config, registros)
                 ELSE movidas
<1>1. gravarEMontar("mover", as) /\ DestinoValido(Dias, destino)
  BY DEF PedirMover, PodeMover
<1>2. /\ config \in Configs /\ hoje \in Nat /\ hoje \in Int /\ cronograma \in Seq(Linhas)
      /\ SemRepetir(cronograma)
  BY Guardado
<1>3. PlanoBom(PlanoDe(config))
  BY <1>2, PlanosBons
<1>4. destino \in 1 .. Prova /\ posicao \in Int
  BY <1>1, DestinoTipo
<1>5. Guarda(movidas, cronograma)
  BY <1>2, <1>4, MoverUmaVez
<1>6. desde \in Int
  BY OrigemTipo
<1> HIDE DEF origem, movidas, desde
<1>7. /\ movidas \in Seq(Linhas) /\ SemRepetir(movidas) /\ IdsDe(movidas) = IdsDe(cronograma)
      /\ SemColisao(cronograma) => SemColisao(movidas)
  BY <1>5 DEF Guarda, TemIds
<1> DEFINE c == compactarDesde(movidas, desde, cronograma, config, registros)
<1>8. /\ c \in Seq(Linhas) /\ (\A outros : Conserva(c, movidas, outros))
      /\ SemColisao(movidas) => SemColisao(c)
      /\ IdsDe(movidas) \subseteq IdsDe(c)
  BY <1>2, <1>3, <1>6, <1>7, compactarDesdeUmaVez
<1> HIDE DEF c
<1>9. SemRepetir(c)
  BY <1>8 DEF Conserva
<1>10. Escrevivel(c)
  BY <1>7, <1>8, <1>9 DEF Escrevivel
<1>11. Escrevivel(movidas)
  BY <1>5, GuardaEscrevivel
<1>12. as = c \/ as = movidas
  BY DEF c
<1> HIDE DEF as
<1> QED BY <1>1, <1>10, <1>11, <1>12, MontadaAceita

\* A trade may be refused.
LEMMA TrocarAceito ==
    ASSUME Invariante, Certo, NEW id \in IdsDe(cronograma), NEW destino \in Datas, NEW posicao \in Posicoes,
           PedirTrocar(id, destino, posicao)
    PROVE  Aceito
<1> DEFINE as == Trocar(cronograma, id, destino, posicao)
<1>1. gravarEMontar("trocar", as) /\ DestinoValido(Dias, destino) /\ "trocar" \in Operacoes
  BY DEF PedirTrocar, PodeMover, Pode
<1>2. cronograma \in Seq(Linhas) /\ SemRepetir(cronograma)
  BY Guardado
<1>3. destino \in 1 .. Prova /\ posicao \in Int
  BY <1>1, DestinoTipo
<1>4. as \in Seq(Linhas) /\ TemIds(as, IdsDe(cronograma))
  BY <1>2, <1>3, TrocarUmaVez
<1> HIDE DEF as
<1>5. SemRepetir(as) /\ IdsDe(cronograma) \cap DOMAIN registros \subseteq IdsDe(as)
  BY <1>4 DEF TemIds
<1>6. Certo' /\ recusa' \in {"nenhuma", "trocar"}
  BY <1>1, <1>4, <1>5, MontadaCerta
<1> QED BY <1>1, <1>6 DEF Aceito, SoTroca

\* Postponing a day.
LEMMA AdiarAceito ==
    ASSUME Invariante, Certo, NEW data \in Datas, PedirAdiarDia(data)
    PROVE  Aceito
<1> DEFINE cadeia == cadeiaDe(Dias, data, Concluidos)
           as == AdiarDia(cronograma, cadeia)
<1>1. gravarEMontar("adiar", as)
  BY DEF PedirAdiarDia
<1>2. cronograma \in Seq(Linhas) /\ SemRepetir(cronograma)
  BY Guardado
<1>3. cadeia \in Seq(1 .. Prova) /\ \A j, k \in DOMAIN cadeia : cadeia[j] = cadeia[k] => j = k
  BY CadeiaUmaVez
<1> HIDE DEF cadeia
<1>4. Guarda(as, cronograma)
  BY <1>2, <1>3, AdiarDiaUmaVez
<1> HIDE DEF as
<1>5. Escrevivel(as)
  BY <1>4, GuardaEscrevivel
<1> QED BY <1>1, <1>5, MontadaAceita

\* Bringing a subject to an earlier day.
LEMMA AnteciparAceito ==
    ASSUME Invariante, Certo, NEW id \in IdsDe(cronograma), NEW dia \in Datas, PedirAntecipar(id, dia)
    PROVE  Aceito
<1> DEFINE as == AntecipouAtividade(cronograma, id, dia)
           origem == PorID(cronograma, id).data
<1>1. gravarEMontar("antecipar", as) /\ (origem > dia => DestinoValido(Dias, dia))
  BY DEF PedirAntecipar
<1>2. cronograma \in Seq(Linhas) /\ SemRepetir(cronograma)
  BY Guardado
<1>3. dia \in Int /\ (origem <= dia \/ dia \in 1 .. Prova)
  BY <1>1, DiaAntecipado
<1>4. Guarda(as, cronograma)
  BY <1>2, <1>3, AntecipouUmaVez
<1> HIDE DEF as
<1>5. Escrevivel(as)
  BY <1>4, GuardaEscrevivel
<1> QED BY <1>1, <1>5, MontadaAceita

-----------------------------------------------------------------------------
(* The requests that rebuild the days ahead.                               *)

\* Taking marks off keeps what is stored.
LEMMA SemMovidasGuardada ==
    ASSUME Invariante, Certo, NEW desde
    PROVE  Guardada(SemMovidas(cronograma, desde))
<1> DEFINE r == SemMovidas(cronograma, desde)
<1>1. cronograma \in Seq(Linhas) /\ SemRepetir(cronograma)
  BY Guardado
<1>2. Guarda(r, cronograma)
  BY <1>1, SemMarcasUmaVez
<1> HIDE DEF r
<1>3. /\ r \in Seq(Linhas) /\ SemRepetir(r) /\ IdsDe(r) = IdsDe(cronograma)
      /\ SemColisao(cronograma) => SemColisao(r)
  BY <1>2 DEF Guarda, TemIds
<1>4. Guardada(r)
  BY <1>3 DEF Guardada
<1> QED BY <1>4 DEF r

\* Compacting, restoring the order, absorbing the delay, reorganizing.
LEMMA RearranjosAceitos ==
    ASSUME Invariante, Certo,
           \/ PedirCompactar \/ RestaurarOrdem \/ AbsorverAtraso
           \/ \E dt \in Datas : ReorganizarDesde(dt)
    PROVE  Aceito
<1>1. /\ config \in Configs /\ PlanoBom(PlanoDe(config))
      /\ hoje \in Int /\ cronograma \in Seq(Linhas) /\ SemRepetir(cronograma)
  BY Guardado, PlanosBons
<1>2. PICK as, op : Rearranjada(as) /\ gravarEMontar(op, as)
  BY RearranjoForma
<1>3. CASE as = compactarDesde(cronograma, hoje, cronograma, config, registros)
  <2> DEFINE c == compactarDesde(cronograma, hoje, cronograma, config, registros)
  <2>1. /\ c \in Seq(Linhas) /\ (\A outros : Conserva(c, cronograma, outros))
        /\ SemColisao(cronograma) => SemColisao(c)
        /\ IdsDe(cronograma) \subseteq IdsDe(c)
    BY <1>1, compactarDesdeUmaVez
  <2> HIDE DEF c
  <2>2. Escrevivel(c)
    BY <2>1 DEF Conserva, Escrevivel
  <2> QED BY <1>2, <1>3, <2>2, MontadaAceita DEF c
<1>4. ASSUME NEW cfg, NEW desde, Proposta(Novas(cfg)),
             as = Replanejar(SemMovidas(cronograma, desde), Novas(cfg), desde, registros)
      PROVE  Aceito
  <2>1. Escrevivel(as)
    BY <1>4, SemMovidasGuardada, ReplanejarUmaVez
  <2> QED BY <1>2, <2>1, MontadaAceita
<1>5. ASSUME hoje \in 1 .. Prova - 1, NEW desde \in Int, as = redistribuirDesde(desde) PROVE Aceito
  <2>1. Escrevivel(as)
    BY <1>1, <1>5, redistribuirUmaVez
  <2> QED BY <1>2, <2>1, MontadaAceita
<1> QED BY <1>2, <1>3, <1>4, <1>5 DEF Rearranjada

-----------------------------------------------------------------------------
(* Opening, recording, splitting, saving.                                  *)

\* The first reading writes the planner's proposal.
LEMMA AbrirAceito ==
    ASSUME Invariante, Certo, Abrir
    PROVE  Aceito
<1> DEFINE novas == Novas(config)
<1>1. cronograma = <<>> /\ Gravar("abrir", novas, registros)
  BY DEF Abrir
<1>2. config \in Configs /\ cronograma \in Seq(Linhas) /\ DOMAIN registros \subseteq IdsDe(cronograma)
  BY Guardado
<1>3. IdsDe(cronograma) = {}
  <2>1. DOMAIN cronograma = {}
    BY <1>1
  <2> QED BY <2>1 DEF IdsDe
<1>4. Proposta(novas)
  BY <1>2, PropostaDoPlano
<1> HIDE DEF novas
<1>5. novas \in Seq(Linhas) /\ SemRepetir(novas) /\ SemColisao(novas)
  BY <1>4 DEF Proposta
<1>6. Gravavel(novas, registros)
  BY <1>2, <1>3, <1>5, GravavelDiz
<1>7. Certo' /\ recusa' = "nenhuma"
  BY <1>1, <1>5, <1>6, GravarCerto
<1> QED BY <1>7 DEF Aceito, SoTroca

\* What is put in order after a record, of a list with every row recorded,
\* is accepted.
LEMMA EmDiaGravavel ==
    ASSUME Invariante, Certo, NEW as \in Seq(Linhas), SemRepetir(as), SemColisao(as),
           NEW cfg \in Configs, NEW regs, DOMAIN regs \subseteq IdsDe(as)
    PROVE  LET novo == emDiaComOEstudado(as, cfg, regs)
           IN  novo \in Seq(Linhas) /\ SemRepetir(novo) /\ Gravavel(novo, regs)
<1> DEFINE novo == emDiaComOEstudado(as, cfg, regs)
<1>1. hoje \in Int /\ cronograma \in Seq(Linhas) /\ PlanoBom(PlanoDe(cfg))
  BY Guardado, PlanosBons
<1>2. /\ novo \in Seq(Linhas) /\ Conserva(novo, as, regs)
      /\ SemColisao(as) => SemColisao(novo)
  BY <1>1, emDiaUmaVez
<1> HIDE DEF novo
<1>3. SemRepetir(novo) /\ DOMAIN regs \subseteq IdsDe(novo)
  BY <1>2 DEF Conserva
<1>4. Gravavel(novo, regs)
  BY <1>2, <1>3, GravavelDiz
<1> QED BY <1>2, <1>3, <1>4 DEF novo

\* Recording.
LEMMA RegistrarAceito ==
    ASSUME Invariante, Certo, NEW id \in IdsDe(cronograma), NEW c \in BOOLEAN, Registrar(id, c)
    PROVE  Aceito
<1> DEFINE regs == Lancar(id, c)
           novo == DepoisDoRegistro(cronograma, id, c, regs)
<1>1. Gravar("registrar", novo, regs)
  BY DEF Registrar
<1>2. /\ config \in Configs /\ cronograma \in Seq(Linhas) /\ SemRepetir(cronograma)
      /\ SemColisao(cronograma) /\ DOMAIN registros \subseteq IdsDe(cronograma)
  BY Guardado
<1>3. DOMAIN regs \subseteq IdsDe(cronograma)
  <2>1. DOMAIN regs = DOMAIN registros \cup {id}
    BY LancarTipo
  <2> HIDE DEF regs
  <2> QED BY <1>2, <2>1
<1> HIDE DEF regs
<1>4. novo \in Seq(Linhas) /\ SemRepetir(novo) /\ Gravavel(novo, regs)
  <2>1. CASE c
    <3>1. novo = emDiaComOEstudado(cronograma, config, regs)
      BY <2>1 DEF DepoisDoRegistro
    <3> DEFINE r == emDiaComOEstudado(cronograma, config, regs)
    <3>2. r \in Seq(Linhas) /\ SemRepetir(r) /\ Gravavel(r, regs)
      BY <1>2, <1>3, EmDiaGravavel
    <3> QED BY <3>1, <3>2
  <2>2. CASE ~c
    <3>1. novo = SemAntecipada(cronograma, id)
      BY <2>2 DEF DepoisDoRegistro
    <3>2. Guarda(novo, cronograma)
      BY <1>2, <3>1, SemMarcasUmaVez
    <3> HIDE DEF novo
    <3>3. /\ novo \in Seq(Linhas) /\ SemRepetir(novo) /\ SemColisao(novo)
          /\ DOMAIN regs \subseteq IdsDe(novo)
      BY <1>2, <1>3, <3>2 DEF Guarda, TemIds
    <3> QED BY <3>3, GravavelDiz
  <2> QED BY <2>1, <2>2
<1> HIDE DEF novo
<1>5. Certo' /\ recusa' = "nenhuma"
  BY <1>1, <1>4, GravarCerto
<1> QED BY <1>5 DEF Aceito, SoTroca

\* The id a new row gets is no row's.
LEMMA NovoIdNovo ==
    ASSUME Invariante
    PROVE  NovoId \in Nat /\ NovoId \notin IdsDe(cronograma)
<1> DEFINE u == UltimoId(cronograma)
           I == IdsDe(cronograma)
<1>1. cronograma \in Seq(Linhas) /\ Linhas \in SUBSET Linhas
  BY DEF Invariante
<1>2. u \in Nat /\ \A x \in I \cup I : x <= u
  BY <1>1, UltimoIdTipo
<1>3. NovoId = u + 1
  BY DEF NovoId
<1> HIDE DEF u, I
<1>4. u + 1 \in Nat /\ u + 1 \notin I
  BY <1>2
<1> QED BY <1>3, <1>4 DEF I

\* What splitting a topic off leaves may be written.
LEMMA SeparadasGravavel ==
    ASSUME Invariante, Certo, NEW id \in IdsDe(cronograma), NEW topico \in Topico
    PROVE  LET r == SepararTema(cronograma, id, topico, NovoId)
           IN  /\ r \in Seq(Linhas) /\ SemRepetir(r) /\ SemColisao(r)
               /\ IdsDe(cronograma) \subseteq IdsDe(r) /\ Gravavel(r, registros)
<1> DEFINE n == NovoId
           r == SepararTema(cronograma, id, topico, n)
<1>1. n \in Nat /\ n \notin IdsDe(cronograma)
  BY NovoIdNovo
<1>2. /\ cronograma \in Seq(Linhas) /\ SemRepetir(cronograma)
      /\ SemColisao(cronograma) /\ DOMAIN registros \subseteq IdsDe(cronograma)
  BY Guardado
<1> HIDE DEF n
<1>3. /\ r \in Seq(Linhas) /\ SemRepetir(r) /\ IdsDe(cronograma) \subseteq IdsDe(r)
      /\ SemColisao(cronograma) => SemColisao(r)
  BY <1>1, <1>2, SepararUmaVez
<1> HIDE DEF r
<1>4. Gravavel(r, registros)
  BY <1>2, <1>3, GravavelDiz
<1> QED BY <1>2, <1>3, <1>4 DEF r, n

\* Splitting a topic off and recording it.
LEMMA EstudarAceito ==
    ASSUME Invariante, Certo, NEW id \in IdsDe(cronograma), NEW topico \in Topico, EstudarTema(id, topico)
    PROVE  Aceito
<1> DEFINE separadas == SepararTema(cronograma, id, topico, NovoId)
           quem == IF separadas = cronograma THEN id ELSE NovoId
           regs == Lancar(quem, TRUE)
           lista == ordenar(separadas)
           novo == emDiaComOEstudado(lista, config, regs)
<1>1. Gravavel(separadas, registros) =>
         /\ cronograma' = ordenar(IF Gravavel(novo, regs) THEN novo ELSE separadas)
         /\ recusa' = IF Gravavel(novo, regs) THEN "nenhuma" ELSE "estudar"
  BY DEF EstudarTema, DepoisDoRegistro
<1>2. /\ config \in Configs /\ cronograma \in Seq(Linhas)
      /\ DOMAIN registros \subseteq IdsDe(cronograma)
  BY Guardado
<1>3. /\ separadas \in Seq(Linhas) /\ SemRepetir(separadas) /\ SemColisao(separadas)
      /\ IdsDe(cronograma) \subseteq IdsDe(separadas) /\ Gravavel(separadas, registros)
  BY SeparadasGravavel
<1>4. quem \in IdsDe(separadas)
  <2>1. CASE separadas = cronograma
    BY <2>1
  <2>2. CASE separadas # cronograma
    <3>1. PICK m : DeLinhas(cronograma, m)
      BY TodasConcluidas DEF Invariante
    <3> DEFINE novoId == NovoId
               c == [x \in DOMAIN m \cup {novoId} |-> TRUE]
    <3>2. (\A x : Concluida(m, x) => Concluida(c, x)) /\ Concluida(c, novoId)
      BY DEF Concluida
    <3>3. novoId \in Nat
      BY NovoIdTipo
    <3> HIDE DEF c, novoId
    <3>4. SepararTema(cronograma, id, topico, novoId) # cronograma
            => novoId \in IdsDe(SepararTema(cronograma, id, topico, novoId))
      BY <3>1, <3>2, <3>3, SepararTemaLinhas
    <3> QED BY <2>2, <3>4 DEF novoId
  <2> QED BY <2>1, <2>2
<1>5. DOMAIN regs = DOMAIN registros \cup {quem}
  BY LancarTipo
<1> HIDE DEF separadas, quem, regs
<1>6. /\ lista \in Seq(Linhas) /\ IdsDe(lista) = IdsDe(separadas)
      /\ SemRepetir(separadas) => SemRepetir(lista)
      /\ SemColisao(separadas) => SemColisao(lista)
  BY <1>3, ordenarUmaVez
<1> HIDE DEF lista
<1>7. SemRepetir(lista) /\ SemColisao(lista) /\ DOMAIN regs \subseteq IdsDe(lista)
  BY <1>2, <1>3, <1>4, <1>5, <1>6
<1>8. novo \in Seq(Linhas) /\ SemRepetir(novo) /\ Gravavel(novo, regs)
  BY <1>2, <1>6, <1>7, EmDiaGravavel
<1> HIDE DEF novo
<1>9. cronograma' = ordenar(novo) /\ recusa' = "nenhuma"
  BY <1>1, <1>3, <1>8
<1>10. SemColisao(novo)
  BY <1>8, GravavelDiz
<1>11. SemRepetir(ordenar(novo)) /\ Ordenada(ordenar(novo))
  BY <1>8, <1>10, ordenarUmaVez, ordenarEmOrdem
<1>12. SemRepetir(cronograma') /\ Ordenada(cronograma')
  BY <1>9, <1>11
<1> QED BY <1>9, <1>12 DEF Aceito, Certo, SoTroca

\* Splitting a topic off, and no more.
LEMMA EstudarInterrompidoAceito ==
    ASSUME Invariante, Certo, NEW id \in IdsDe(cronograma), NEW topico \in Topico,
           EstudarTemaInterrompido(id, topico)
    PROVE  Aceito
<1> DEFINE separadas == SepararTema(cronograma, id, topico, NovoId)
<1>1. Gravar("estudar_falha", separadas, registros)
  BY DEF EstudarTemaInterrompido
<1>2. separadas \in Seq(Linhas) /\ SemRepetir(separadas) /\ Gravavel(separadas, registros)
  BY SeparadasGravavel
<1> HIDE DEF separadas
<1>3. Certo' /\ recusa' = "nenhuma"
  BY <1>1, <1>2, GravarCerto
<1> QED BY <1>3 DEF Aceito, SoTroca

\* Saving another configuration.
LEMMA SalvarAceito ==
    ASSUME Invariante, Certo, NEW cfg \in Configs, Salvar(cfg)
    PROVE  Aceito
<1> DEFINE as == Replanejar(cronograma, Novas(cfg), desdeQuando(config, cfg), registros)
           novo == emDiaComOEstudado(as, cfg, registros)
<1>1. Gravar("salvar", novo, registros)
  BY DEF Salvar
<1>2. /\ cronograma \in Seq(Linhas) /\ Guardada(cronograma) /\ SemColisao(cronograma)
      /\ DOMAIN registros \subseteq IdsDe(cronograma)
  BY Guardado
<1>3. Proposta(Novas(cfg))
  BY <1>2, PropostaDoPlano
<1>4. Escrevivel(as)
  BY <1>2, <1>3, ReplanejarUmaVez
<1> HIDE DEF as
<1>5. as \in Seq(Linhas) /\ SemRepetir(as) /\ SemColisao(as) /\ DOMAIN registros \subseteq IdsDe(as)
  BY <1>2, <1>4 DEF Escrevivel
<1>6. novo \in Seq(Linhas) /\ SemRepetir(novo) /\ Gravavel(novo, registros)
  BY <1>5, EmDiaGravavel
<1> HIDE DEF novo
<1>7. Certo' /\ recusa' = "nenhuma"
  BY <1>1, <1>6, GravarCerto
<1> QED BY <1>7 DEF Aceito, SoTroca

\* One step.
LEMMA PassoAceito ==
    ASSUME Invariante, Certo, SoTroca, [Next]_vars
    PROVE  Aceito
<1>1. CASE UNCHANGED vars
  BY <1>1 DEF vars, Aceito, Certo, SoTroca
<1>2. CASE Abrir
  BY <1>2, AbrirAceito
<1>3. CASE \E id \in IdsDe(cronograma), dt \in Datas, p \in Posicoes : PedirMover(id, dt, p)
  BY <1>3, MoverAceito
<1>4. CASE \E id \in IdsDe(cronograma), dt \in Datas, p \in Posicoes : PedirTrocar(id, dt, p)
  BY <1>4, TrocarAceito
<1>5. CASE \E dt \in Datas : PedirAdiarDia(dt)
  BY <1>5, AdiarAceito
<1>6. CASE \E id \in IdsDe(cronograma), dt \in Datas : PedirAntecipar(id, dt)
  BY <1>6, AnteciparAceito
<1>7. CASE \/ PedirCompactar \/ RestaurarOrdem \/ AbsorverAtraso
           \/ \E dt \in Datas : ReorganizarDesde(dt)
  BY <1>7, RearranjosAceitos
<1>8. CASE \E id \in IdsDe(cronograma), c \in BOOLEAN : Registrar(id, c)
  BY <1>8, RegistrarAceito
<1>9. CASE \E id \in IdsDe(cronograma), t \in Topico : EstudarTema(id, t)
  BY <1>9, EstudarAceito
<1>10. CASE \E id \in IdsDe(cronograma), t \in Topico : EstudarTemaInterrompido(id, t)
  BY <1>10, EstudarInterrompidoAceito
<1>11. CASE \E cfg \in Configs : Salvar(cfg)
  BY <1>11, SalvarAceito
<1>12. CASE \/ \E id \in IdsDe(cronograma), c \in BOOLEAN : RegistrarInterrompido(id, c)
            \/ LimparRegistros \/ PassaODia
            \/ \E cfg \in Configs : SalvarInterrompido(cfg)
  <2>1. cronograma' = cronograma /\ recusa' = "nenhuma"
    BY <1>12 DEF RegistrarInterrompido, LimparRegistros, PassaODia, SalvarInterrompido
  <2> QED BY <2>1 DEF Aceito, Certo, SoTroca
<1> QED BY <1>1, <1>2, <1>3, <1>4, <1>5, <1>6, <1>7, <1>8, <1>9, <1>10, <1>11, <1>12 DEF Next

\* Nothing is stored and nothing was refused when the plan starts.
LEMMA ComecoCerto ==
    ASSUME Init
    PROVE  Certo /\ SoTroca
<1>1. DOMAIN cronograma = {} /\ recusa = "nenhuma"
  BY DEF Init
<1> QED BY <1>1 DEF Certo, SoTroca, SemRepetir, Ordenada

\* Each id once, in order, and nothing refused but a trade: with the invariant
\* above, it holds.
THEOREM CertoSempre == Spec => [](Invariante /\ Certo /\ SoTroca)
<1>1. Init => Invariante /\ Certo /\ SoTroca
  BY Comeco, ComecoCerto
<1>2. Invariante /\ Certo /\ SoTroca /\ [Next]_vars => Invariante' /\ Certo' /\ SoTroca'
  BY UmPasso, PassoAceito DEF Aceito
<1> QED BY <1>1, <1>2, PTL DEF Spec

\* With the moves by hand too, no sequence of requests leads the services to
\* a schedule the database refuses, but a trade in a day whose positions have
\* a gap.
THEOREM SoTrocarSempreRecusado == Spec => []SoTrocarRecusado
<1>1. SoTroca => SoTrocarRecusado
  BY DEF SoTroca, SoTrocarRecusado
<1> QED BY <1>1, CertoSempre, PTL

\* Without trades the database refuses nothing.
THEOREM NadaRecusado ==
    ASSUME "trocar" \notin Operacoes
    PROVE  Spec => []NuncaRecusado
<1>1. SoTroca => NuncaRecusado
  BY DEF SoTroca, NuncaRecusado
<1> QED BY <1>1, CertoSempre, PTL

-----------------------------------------------------------------------------
(* Types.                                                                  *)

\* What is counted and recorded is of its type.
Contado ==
    /\ registros \in [DOMAIN registros -> BOOLEAN]
    /\ hoje \in 1 .. UltimoDia /\ pedidos \in 0 .. MaxPedidos /\ interrompida \in BOOLEAN

\* A record more.
LEMMA LancarContado ==
    ASSUME registros \in [DOMAIN registros -> BOOLEAN], NEW id, NEW c \in BOOLEAN
    PROVE  Lancar(id, c) \in [DOMAIN Lancar(id, c) -> BOOLEAN]
BY DEF Lancar

\* A request more.
LEMMA PodeContado ==
    ASSUME pedidos \in 0 .. MaxPedidos, NEW op, Pode(op)
    PROVE  pedidos' \in 0 .. MaxPedidos
BY Limites DEF Pode

\* The requests of CronogramaService record nothing.
LEMMA MontarContado ==
    ASSUME Contado, NEW STATE as, NEW op, gravarEMontar(op, as), NEW pede, Pode(pede)
    PROVE  Contado'
<1>1. /\ interrompida' = (interrompida /\ ~Gravavel(emDiaComOEstudado(as, config, registros), registros))
      /\ registros' = registros /\ hoje' = hoje
  BY DEF gravarEMontar
<1>2. interrompida' \in BOOLEAN
  BY <1>1
<1>3. pedidos' \in 0 .. MaxPedidos
  BY PodeContado DEF Contado
<1> QED BY <1>1, <1>2, <1>3 DEF Contado

\* One step of CronogramaService.
LEMMA CronogramaContado ==
    ASSUME Contado,
           \/ \E id \in IdsDe(cronograma), dt \in Datas, p \in Posicoes : PedirMover(id, dt, p)
           \/ \E id \in IdsDe(cronograma), dt \in Datas, p \in Posicoes : PedirTrocar(id, dt, p)
           \/ \E dt \in Datas : PedirAdiarDia(dt)
           \/ \E id \in IdsDe(cronograma), dt \in Datas : PedirAntecipar(id, dt)
           \/ PedirCompactar \/ RestaurarOrdem \/ AbsorverAtraso
           \/ \E dt \in Datas : ReorganizarDesde(dt)
    PROVE  Contado'
<1>1. ASSUME NEW id \in IdsDe(cronograma), NEW dt \in Datas, NEW p \in Posicoes, PedirMover(id, dt, p)
      PROVE  Contado'
  <2> DEFINE as == IF dt < PorID(cronograma, id).data
                   THEN compactarDesde(Mover(cronograma, id, dt, p),
                                       Max({PorID(cronograma, id).data, hoje}),
                                       cronograma, config, registros)
                   ELSE Mover(cronograma, id, dt, p)
  <2>1. Pode("mover") /\ gravarEMontar("mover", as)
    BY <1>1 DEF PedirMover
  <2> HIDE DEF as
  <2> QED BY <2>1, MontarContado
<1>2. ASSUME NEW id \in IdsDe(cronograma), NEW dt \in Datas, NEW p \in Posicoes, PedirTrocar(id, dt, p)
      PROVE  Contado'
  BY <1>2, MontarContado DEF PedirTrocar
<1>3. ASSUME NEW dt \in Datas, PedirAdiarDia(dt) PROVE Contado'
  <2> DEFINE as == AdiarDia(cronograma, cadeiaDe(Dias, dt, Concluidos))
  <2>1. Pode("adiar") /\ gravarEMontar("adiar", as)
    BY <1>3 DEF PedirAdiarDia
  <2> HIDE DEF as
  <2> QED BY <2>1, MontarContado
<1>4. ASSUME NEW id \in IdsDe(cronograma), NEW dt \in Datas, PedirAntecipar(id, dt) PROVE Contado'
  BY <1>4, MontarContado DEF PedirAntecipar
<1>5. CASE PedirCompactar
  BY <1>5, MontarContado DEF PedirCompactar
<1>6. CASE RestaurarOrdem
  BY <1>6, MontarContado DEF RestaurarOrdem
<1>7. CASE AbsorverAtraso
  BY <1>7, MontarContado DEF AbsorverAtraso
<1>8. ASSUME NEW dt \in Datas, ReorganizarDesde(dt) PROVE Contado'
  <2> DEFINE desde == Max({dt, config.inicio})
             cfg   == [config EXCEPT !.inicio = desde]
             as == IF desde < hoje THEN redistribuirDesde(desde)
                   ELSE Replanejar(SemMovidas(cronograma, desde), Novas(cfg), desde, registros)
  <2>1. Pode("reorganizar") /\ gravarEMontar("reorganizar", as)
    BY <1>8 DEF ReorganizarDesde
  <2> HIDE DEF as
  <2> QED BY <2>1, MontarContado
<1> QED BY <1>1, <1>2, <1>3, <1>4, <1>5, <1>6, <1>7, <1>8

\* One step.
LEMMA PassoContado ==
    ASSUME Contado, [Next]_vars
    PROVE  Contado'
<1>0. /\ registros \in [DOMAIN registros -> BOOLEAN]
      /\ hoje \in 1 .. UltimoDia /\ pedidos \in 0 .. MaxPedidos /\ interrompida \in BOOLEAN
  BY DEF Contado
<1>1. CASE UNCHANGED vars
  BY <1>1 DEF vars, Contado
<1>2. CASE Abrir
  BY <1>2 DEF Abrir, Contado
<1>3. CASE \/ \E id \in IdsDe(cronograma), dt \in Datas, p \in Posicoes : PedirMover(id, dt, p)
           \/ \E id \in IdsDe(cronograma), dt \in Datas, p \in Posicoes : PedirTrocar(id, dt, p)
           \/ \E dt \in Datas : PedirAdiarDia(dt)
           \/ \E id \in IdsDe(cronograma), dt \in Datas : PedirAntecipar(id, dt)
           \/ PedirCompactar \/ RestaurarOrdem \/ AbsorverAtraso
           \/ \E dt \in Datas : ReorganizarDesde(dt)
  BY <1>3, CronogramaContado
<1>4. ASSUME NEW id \in IdsDe(cronograma), NEW c \in BOOLEAN, Registrar(id, c) PROVE Contado'
  <2>1. /\ registros' = Lancar(id, c) /\ hoje' = hoje /\ Pode("registrar")
        /\ interrompida' \in BOOLEAN
    BY <1>4 DEF Registrar
  <2>2. registros' \in [DOMAIN registros' -> BOOLEAN]
    BY <1>0, <2>1, LancarContado
  <2>3. pedidos' \in 0 .. MaxPedidos
    BY <1>0, <2>1, PodeContado
  <2> QED BY <1>0, <2>1, <2>2, <2>3 DEF Contado
<1>5. ASSUME NEW id \in IdsDe(cronograma), NEW c \in BOOLEAN, RegistrarInterrompido(id, c) PROVE Contado'
  <2>1. registros' = Lancar(id, c) /\ hoje' = hoje /\ Pode("falha") /\ interrompida' = TRUE
    BY <1>5 DEF RegistrarInterrompido
  <2>2. registros' \in [DOMAIN registros' -> BOOLEAN]
    BY <1>0, <2>1, LancarContado
  <2>3. pedidos' \in 0 .. MaxPedidos
    BY <1>0, <2>1, PodeContado
  <2> QED BY <1>0, <2>1, <2>2, <2>3 DEF Contado
<1>6. ASSUME NEW id \in IdsDe(cronograma), NEW t \in Topico, EstudarTema(id, t) PROVE Contado'
  <2> DEFINE separadas == SepararTema(cronograma, id, t, NovoId)
             quem == IF separadas = cronograma THEN id ELSE NovoId
             novo == DepoisDoRegistro(ordenar(separadas), quem, TRUE, Lancar(quem, TRUE))
  <2>1. /\ Pode("estudar") /\ hoje' = hoje
        /\ IF Gravavel(separadas, registros)
           THEN /\ registros' = Lancar(quem, TRUE)
                /\ interrompida' = ~Gravavel(novo, Lancar(quem, TRUE))
           ELSE registros' = registros /\ interrompida' = interrompida
    BY <1>6 DEF EstudarTema
  <2> HIDE DEF separadas, quem, novo
  <2>2. registros' = Lancar(quem, TRUE) \/ registros' = registros
    BY <2>1
  <2>3. registros' \in [DOMAIN registros' -> BOOLEAN]
    <3>1. Lancar(quem, TRUE) \in [DOMAIN Lancar(quem, TRUE) -> BOOLEAN]
      BY <1>0, LancarContado
    <3> QED BY <1>0, <2>2, <3>1
  <2>4. interrompida' \in BOOLEAN
    BY <1>0, <2>1
  <2>5. pedidos' \in 0 .. MaxPedidos
    BY <1>0, <2>1, PodeContado
  <2> QED BY <1>0, <2>1, <2>3, <2>4, <2>5 DEF Contado
<1>7. ASSUME NEW id \in IdsDe(cronograma), NEW t \in Topico, EstudarTemaInterrompido(id, t) PROVE Contado'
  <2>1. /\ registros' = registros /\ hoje' = hoje /\ Pode("estudar_falha")
        /\ interrompida' \in BOOLEAN
    BY <1>7 DEF EstudarTemaInterrompido
  <2>2. pedidos' \in 0 .. MaxPedidos
    BY <1>0, <2>1, PodeContado
  <2> QED BY <1>0, <2>1, <2>2 DEF Contado
<1>8. CASE LimparRegistros
  <2>1. registros' = <<>> /\ hoje' = hoje /\ interrompida' = interrompida /\ Pode("limpar")
    BY <1>8 DEF LimparRegistros
  <2>2. registros' \in [DOMAIN registros' -> BOOLEAN]
    BY <2>1
  <2>3. pedidos' \in 0 .. MaxPedidos
    BY <1>0, <2>1, PodeContado
  <2> QED BY <1>0, <2>1, <2>2, <2>3 DEF Contado
<1>9. ASSUME NEW cfg \in Configs, Salvar(cfg) PROVE Contado'
  <2>1. registros' = registros /\ hoje' = hoje /\ Pode("salvar") /\ interrompida' \in BOOLEAN
    BY <1>9 DEF Salvar
  <2>2. pedidos' \in 0 .. MaxPedidos
    BY <1>0, <2>1, PodeContado
  <2> QED BY <1>0, <2>1, <2>2 DEF Contado
<1>10. ASSUME NEW cfg \in Configs, SalvarInterrompido(cfg) PROVE Contado'
  <2>1. registros' = registros /\ hoje' = hoje /\ Pode("falha") /\ interrompida' = TRUE
    BY <1>10 DEF SalvarInterrompido
  <2>2. pedidos' \in 0 .. MaxPedidos
    BY <1>0, <2>1, PodeContado
  <2> QED BY <1>0, <2>1, <2>2 DEF Contado
<1>11. CASE PassaODia
  <2>1. /\ hoje' = hoje + 1 /\ hoje < UltimoDia
        /\ registros' = registros /\ pedidos' = pedidos /\ interrompida' = interrompida
    BY <1>11 DEF PassaODia
  <2>2. hoje' \in 1 .. UltimoDia
    BY <1>0, <2>1, Limites
  <2> QED BY <1>0, <2>1, <2>2 DEF Contado
<1> QED BY <1>1, <1>2, <1>3, <1>4, <1>5, <1>6, <1>7, <1>8, <1>9, <1>10, <1>11 DEF Next

\* The types hold of the start, and from step to step: ids are not repeated
\* and the rows come back in (data, posicao) order.
THEOREM TiposCertos == Spec => []TypeOK
<1>1. Init => Contado
  <2> SUFFICES ASSUME Init PROVE Contado
    OBVIOUS
  <2>1. /\ registros = <<>> /\ config \in Configs /\ hoje = config.inicio
        /\ interrompida = FALSE /\ pedidos = 0
    BY DEF Init
  <2>2. hoje \in 1 .. UltimoDia
    <3>1. config.inicio \in 1 .. Prova - 1 /\ config.inicio <= UltimoDia
      BY <2>1, Calendario, Limites
    <3> QED BY <2>1, <3>1, Calendario, Limites
  <2>3. registros \in [DOMAIN registros -> BOOLEAN]
    BY <2>1
  <2>4. pedidos \in 0 .. MaxPedidos
    BY <2>1, Limites
  <2>5. interrompida \in BOOLEAN
    BY <2>1
  <2> QED BY <2>2, <2>3, <2>4, <2>5 DEF Contado
<1>2. Contado /\ [Next]_vars => Contado'
  BY PassoContado
<1>3. Invariante /\ Certo /\ SoTroca /\ Contado => TypeOK
  <2> SUFFICES ASSUME Invariante, Certo, SoTroca, Contado PROVE TypeOK
    OBVIOUS
  <2>1. /\ config \in Configs /\ cronograma \in Seq(Linhas) /\ SemRepetir(cronograma)
        /\ DOMAIN registros \subseteq IdsDe(cronograma) /\ Ordenada(cronograma)
    BY Guardado DEF Certo
  <2>2. ASSUME NEW i \in DOMAIN cronograma
        PROVE  /\ cronograma[i].id \in Nat /\ cronograma[i].data \in 1 .. Prova
               /\ cronograma[i].posicao \in Nat /\ cronograma[i].passada \in {1, 2}
               /\ cronograma[i].tema \in Temas
    <3>1. cronograma[i] \in Linhas
      BY <2>1, LugarEhNumero
    <3> QED BY <3>1, LinhaTipo
  <2>3. ASSUME NEW i \in DOMAIN cronograma, NEW j \in DOMAIN cronograma, i < j
        PROVE  /\ cronograma[i].id # cronograma[j].id
               /\ DataPosicaoMenor(cronograma[i], cronograma[j])
    <3>1. i \in Nat /\ j \in Nat
      BY <2>1, LugarEhNumero
    <3>2. i # j
      BY <2>3, <3>1
    <3> QED BY <2>1, <2>3, <3>2 DEF SemRepetir, Ordenada
  <2>4. DOMAIN registros \subseteq Nat
    BY <2>1, <2>2 DEF IdsDe
  <2>5. recusa \in Operacoes \cup {"nenhuma", "abrir"}
    BY DEF SoTroca
  <2> QED BY <2>1, <2>2, <2>3, <2>4, <2>5 DEF TypeOK, Contado
<1> QED BY <1>1, <1>2, <1>3, CertoSempre, PTL DEF Spec

-----------------------------------------------------------------------------
(* Rows that stay where they are unless they lie ahead.                    *)

\* The plan and the clock the services work with.
EmCurso == cronograma \in Seq(Linhas) /\ hoje \in Int

\* The same block, wherever it is and however it is marked.
MesmoBloco(a, b) ==
    /\ b.id = a.id /\ b.disciplina = a.disciplina
    /\ b.tema = a.tema /\ b.passada = a.passada

\* A set of rows that no mark takes out, and from today on no place either.
Adiante(T) ==
    /\ T \subseteq Linhas
    /\ \A a \in T, b \in Linhas :
          MesmoBloco(a, b) /\ (b.data = a.data \/ a.data >= hoje) => b \in T

\* Such a set is one of rows in any position, and packing from today on or
\* later keeps to it.
LEMMA AdianteFatos ==
    ASSUME hoje \in Int, NEW T, Adiante(T)
    PROVE  /\ T \in SUBSET Linhas /\ Solto(T)
           /\ \A desde \in Int : desde >= hoje => Vindas(T, desde) \subseteq T
<1>1. T \in SUBSET Linhas
  BY DEF Adiante
<1>2. ASSUME NEW a \in T, NEW n \in Nat PROVE [a EXCEPT !.posicao = n] \in T
  <2>1. /\ [a EXCEPT !.posicao = n] \in Linhas /\ Mesmo(a, [a EXCEPT !.posicao = n])
        /\ [a EXCEPT !.posicao = n].data = a.data
    BY <1>1, LinhaMuda
  <2> QED BY <2>1 DEF Adiante, Mesmo, MesmoBloco
<1>3. ASSUME NEW desde \in Int, desde >= hoje, NEW b \in Vindas(T, desde)
      PROVE  b \in T
  <2>1. PICK a \in T : Mesmo(a, b) /\ (b.data = a.data \/ (a.data >= desde /\ b.data >= desde))
    BY DEF Vindas
  <2>2. b \in Linhas
    BY DEF Vindas
  <2>3. a.data >= desde => a.data >= hoje
    <3>1. a.data \in Int
      BY <1>1, LinhaTipo
    <3> QED BY <1>3, <3>1
  <2> QED BY <2>1, <2>2, <2>3 DEF Adiante, Mesmo, MesmoBloco
<1> QED BY <1>1, <1>2, <1>3 DEF Solto

\* What was concluded ahead comes from the days to come.
LEMMA ReceberGuarda ==
    ASSUME hoje \in Int, NEW T, Adiante(T), NEW as \in Seq(T), NEW ficam \in Seq(T),
           NEW adiante \in Seq({a \in T : a.data > hoje}),
           NEW destino, adiante # <<>> => destino \in 1 .. Prova
    PROVE  ReceberAdiante(as, ficam, adiante, destino).as \in Seq(T)
<1> DEFINE F == {a \in T : a.data > hoje}
           base == Len(doDia(ficam, destino))
           chegam == NoDia(adiante, destino, base)
           postas == [k \in DOMAIN chegam |-> [chegam[k] EXCEPT !.antecipada = TRUE]]
           dias == DiasDe(adiante) \cup {destino}
           r == ReceberAdiante(as, ficam, adiante, destino)
<1>1. r = IF adiante # <<>>
          THEN [as |-> renumerar(ficam \o postas, dias), mudou |-> TRUE]
          ELSE IF ficam # as THEN [as |-> renumerar(ficam, DiasDe(ficam)), mudou |-> TRUE]
          ELSE [as |-> as, mudou |-> FALSE]
  BY DEF ReceberAdiante
<1>2. T \in SUBSET Linhas /\ Solto(T)
  BY AdianteFatos
<1>3. base \in Nat
  <2>1. doDia(ficam, destino) \in Seq(T)
    BY <1>2, doDiaTipo
  <2> QED BY <2>1, SeqEhFuncao
<1> HIDE DEF r, base
<1>4. renumerar(ficam, DiasDe(ficam)) \in Seq(T)
  BY <1>2, renumerarTipo
<1>5. ASSUME adiante # <<>> PROVE renumerar(ficam \o postas, dias) \in Seq(T)
  <2>1. CabeNoDia(F, T, destino)
    <3> SUFFICES ASSUME NEW a \in F, NEW n \in Nat PROVE NoLugar(a, destino, n) \in T
      BY DEF CabeNoDia
    <3>1. a \in T /\ a \in Linhas /\ a.data > hoje
      BY <1>2
    <3>2. NoLugar(a, destino, n) \in Linhas /\ Mesmo(a, NoLugar(a, destino, n))
      BY <1>5, <3>1, NoLugarTipo
    <3>3. a.data >= hoje
      <4>1. a.data \in Int
        BY <3>1, LinhaTipo
      <4> QED BY <3>1, <4>1
    <3> QED BY <3>1, <3>2, <3>3 DEF Adiante, Mesmo, MesmoBloco
  <2>2. adiante \in Seq(F)
    OBVIOUS
  <2> HIDE DEF F
  <2>3. chegam \in Seq(T)
    BY <1>3, <2>1, <2>2, NoDiaTipo
  <2> HIDE DEF chegam
  <2>4. ASSUME NEW k \in DOMAIN chegam PROVE [chegam[k] EXCEPT !.antecipada = TRUE] \in T
    <3> DEFINE a == chegam[k]
               b == [a EXCEPT !.antecipada = TRUE]
    <3>1. a \in T /\ a \in Linhas
      BY <1>2, <2>3, LugarEhNumero
    <3> HIDE DEF a
    <3>2. b \in Linhas /\ MesmoBloco(a, b) /\ b.data = a.data
      BY <3>1 DEF Linhas, MesmoBloco
    <3> HIDE DEF b
    <3>3. b \in T
      BY <3>1, <3>2 DEF Adiante
    <3> QED BY <3>3 DEF a, b
  <2>5. postas \in [DOMAIN chegam -> T]
    BY <2>4
  <2> HIDE DEF postas
  <2>6. postas \in Seq(T)
    BY <2>3, <2>5, LugarALugar
  <2>7. ficam \o postas \in Seq(T)
    BY <2>6, JuntaTodos
  <2> HIDE DEF dias
  <2> QED BY <1>2, <2>7, renumerarTipo
<1>6. (r.as = renumerar(ficam \o postas, dias) /\ adiante # <<>>)
      \/ r.as = renumerar(ficam, DiasDe(ficam)) \/ r.as = as
  BY <1>1
<1> HIDE DEF postas, dias
<1> QED BY <1>4, <1>5, <1>6 DEF r

\* What is left of the pending blocks of a list, without what is studied, is
\* in T.
CabemSemEstudo(as, regs, T) ==
    \A i \in DOMAIN as :
        LET a == as[i]
            feito == TopicosFeitos(as, regs)
        IN  coberta(a) /\ ~Concluida(regs, a.id) /\ ~(Topicos(a) \subseteq feito)
                => SemTopicos(a, feito) \in T

\* Arranging moves only what lies ahead.
LEMMA ArrumarGuarda ==
    ASSUME hoje \in Int, NEW T, Adiante(T), NEW as \in Seq(T), NEW dias, DOMAIN dias \subseteq 1 .. Prova,
           NEW regs, CabemSemEstudo(as, regs, T)
    PROVE  ArrumarEstudado(as, dias, hoje, regs).as \in Seq(T)
<1> DEFINE destino   == DiaDoEstudoFeito(dias, hoje)
           feito     == TopicosFeitos(as, regs)
           adianta(a) == /\ Concluida(regs, a.id) /\ a.disciplina # SemDisciplina
                         /\ a.data > hoje /\ destino # 0
           pendente(a) == coberta(a) /\ ~Concluida(regs, a.id) /\ a.data >= hoje
           some(a)   == pendente(a) /\ Topicos(a) \subseteq feito /\ ~Lancada(regs, a.id)
           sobra(a)  == IF pendente(a) /\ ~(Topicos(a) \subseteq feito) THEN SemTopicos(a, feito) ELSE a
           fs        == [i \in DOMAIN as |-> sobra(as[i])]
           E         == {i \in DOMAIN as : ~adianta(as[i]) /\ ~some(as[i])}
           ficam     == SubFila(fs, E)
           X         == {i \in DOMAIN as : adianta(as[i])}
           f         == SubFila(as, X)
           adiante   == ordenar(f)
           F         == {a \in T : a.data > hoje}
<1>1. ArrumarEstudado(as, dias, hoje, regs) = ReceberAdiante(as, ficam, adiante, destino)
  BY DEF ArrumarEstudado
<1>2. destino # 0 => destino \in 1 .. Prova
  BY DiaDoEstudoTipo
<1>3. T \in SUBSET Linhas
  BY AdianteFatos
<1>4. ASSUME NEW i \in DOMAIN as PROVE as[i] \in T /\ fs[i] \in T
  <2> DEFINE a == as[i]
             p == coberta(a) /\ ~Concluida(regs, a.id) /\ ~(Topicos(a) \subseteq feito)
  <2>1. a \in T
    BY LugarEhNumero
  <2>2. fs[i] = a \/ (p /\ fs[i] = SemTopicos(a, feito))
    OBVIOUS
  <2>3. p => SemTopicos(a, feito) \in T
    BY DEF CabemSemEstudo
  <2> HIDE DEF a, fs, feito, p
  <2> QED BY <2>1, <2>2, <2>3 DEF a
<1>5. DOMAIN fs = DOMAIN as /\ fs \in [DOMAIN as -> T]
  BY <1>4
<1>6. E \in SUBSET DOMAIN fs /\ X \in SUBSET DOMAIN as /\ (X # {} => destino # 0)
  BY <1>5
<1>7. \A i \in X : as[i] \in F
  BY <1>4
<1> HIDE DEF fs, E, X, destino, F
<1>8. fs \in Seq(T)
  BY <1>5, LugarALugar
<1>9. ficam \in Seq(T)
  BY <1>6, <1>8, SubFilaDoLugar
<1>10. f \in Seq(F) /\ (X = {} => f = <<>>)
  <2>1. f \in Seq(T) /\ ToSet(f) = {as[i] : i \in X} /\ Len(f) = Cardinality(X)
    BY <1>6, SubFilaDoLugar
  <2>2. X = {} => Len(f) = 0
    BY <2>1, FS_EmptySet
  <2> HIDE DEF f
  <2>3. \A k \in DOMAIN f : f[k] \in F
    BY <1>7, <2>1 DEF ToSet
  <2>4. f \in Seq(F)
    BY <2>1, <2>3, DeOutroConjunto
  <2>5. X = {} => f = <<>>
    BY <2>1, <2>2, EmptySeq
  <2> QED BY <2>4, <2>5
<1>11. F \in SUBSET Linhas
  BY <1>3 DEF F
<1> HIDE DEF f, ficam
<1>12. adiante \in Seq(F) /\ DOMAIN adiante = DOMAIN f
  BY <1>10, <1>11, ordenarGuarda
<1> HIDE DEF adiante
<1>13. adiante # <<>> => destino \in 1 .. Prova
  <2>1. f = <<>> => Len(adiante) = 0
    BY <1>10, <1>12, SeqEhFuncao
  <2>2. f = <<>> => adiante = <<>>
    BY <1>12, <2>1, EmptySeq
  <2> QED BY <1>2, <1>6, <1>10, <2>2
<1>14. ReceberAdiante(as, ficam, adiante, destino).as \in Seq(T)
  <2>1. adiante \in Seq({a \in T : a.data > hoje})
    BY <1>12 DEF F
  <2> QED BY <1>9, <1>13, <2>1, ReceberGuarda
<1> QED BY <1>1, <1>14

\* Packing from today on, or from later: the same rows, and reinforcement with
\* ids of its own.
LEMMA CompactarGuarda ==
    ASSUME EmCurso, NEW T, Adiante(T), NEW as \in Seq(T), NEW desde \in Int, desde >= hoje
    PROVE  /\ \A dias, concluidos : DOMAIN dias \subseteq 1 .. Prova
                 => CompactarAtividades(as, dias, desde, concluidos) \in Seq(T)
           /\ \A base, cfg, regs : PlanoBom(PlanoDe(cfg)) =>
                 LET c == CompactarAtividades(as, PlanoDe(cfg).dias, desde, DiasConcluidos(base, regs))
                 IN  ReforcoNovo(IdsDe(c) \cup IdsDe(cronograma)) \subseteq T
                        => compactarDesde(as, desde, base, cfg, regs) \in Seq(T)
<1> DEFINE V == Vindas(T, desde)
<1>1. T \in SUBSET Linhas /\ V \subseteq T /\ cronograma \in Seq(Linhas)
  BY AdianteFatos DEF EmCurso
<1>2. ASSUME NEW dias, NEW concluidos, DOMAIN dias \subseteq 1 .. Prova
      PROVE  CompactarAtividades(as, dias, desde, concluidos) \in Seq(T)
  <2>1. CompactarAtividades(as, dias, desde, concluidos) \in Seq(V)
    BY <1>1, <1>2, CompactarTipo
  <2> HIDE DEF V
  <2> QED BY <1>1, <2>1, SeqCabe
<1>3. ASSUME NEW base, NEW cfg, NEW regs, PlanoBom(PlanoDe(cfg)), NEW N,
             N = ReforcoNovo(IdsDe(CompactarAtividades(as, PlanoDe(cfg).dias, desde, DiasConcluidos(base, regs)))
                             \cup IdsDe(cronograma)),
             N \subseteq T
      PROVE  compactarDesde(as, desde, base, cfg, regs) \in Seq(T)
  <2>1. compactarDesde(as, desde, base, cfg, regs) \in Seq(V \cup N)
    BY <1>1, <1>3, compactarDesdeNovos
  <2>2. V \cup N \subseteq T
    BY <1>1, <1>3
  <2> HIDE DEF V
  <2> QED BY <2>1, <2>2, SeqCabe
<1> QED BY <1>2, <1>3

-----------------------------------------------------------------------------
(* The days gone by.                                                       *)

\* Rows that a step may leave: what is stored on a day gone by is on that day.
Presas ==
    {b \in Linhas : \A i \in DOMAIN cronograma :
        cronograma[i].id = b.id /\ cronograma[i].data < hoje => b.data = cronograma[i].data}

\* A row on its day, or one of the days to come, wherever it goes; a new row.
LEMMA PresasFatos ==
    ASSUME EmCurso
    PROVE  /\ Presas \in SUBSET Linhas /\ Adiante(Presas) /\ Solto(Presas)
           /\ \A a \in Presas, b \in Linhas : b.id = a.id /\ b.data = a.data => b \in Presas
           /\ \A b \in Linhas : b.id \notin IdsDe(cronograma) => b \in Presas
           /\ \A I : IdsDe(cronograma) \subseteq I => ReforcoNovo(I) \subseteq Presas
<1>0. cronograma \in Seq(Linhas) /\ hoje \in Int
  BY DEF EmCurso
<1>1. Presas \subseteq Linhas
  BY DEF Presas
<1>2. ASSUME NEW a \in Presas, NEW b \in Linhas, b.id = a.id, b.data = a.data \/ a.data >= hoje
      PROVE  b \in Presas
  <2>1. ASSUME NEW i \in DOMAIN cronograma, cronograma[i].id = b.id, cronograma[i].data < hoje
        PROVE  b.data = cronograma[i].data
    <3>1. a.data = cronograma[i].data
      BY <1>2, <2>1 DEF Presas
    <3>2. cronograma[i] \in Linhas
      BY <1>0, LugarEhNumero
    <3>3. cronograma[i].data \in Int
      BY <3>2, LinhaTipo
    <3>4. ~(a.data >= hoje)
      BY <1>0, <2>1, <3>1, <3>3
    <3> QED BY <1>2, <3>1, <3>4
  <2> QED BY <2>1 DEF Presas
<1>3. ASSUME NEW b \in Linhas, b.id \notin IdsDe(cronograma) PROVE b \in Presas
  BY <1>3 DEF Presas, IdsDe
<1>4. ASSUME NEW I, IdsDe(cronograma) \subseteq I, NEW b \in ReforcoNovo(I) PROVE b \in Presas
  BY <1>3, <1>4 DEF ReforcoNovo, DeReforco
<1> HIDE DEF Presas
<1>5. Adiante(Presas)
  BY <1>1, <1>2 DEF Adiante, MesmoBloco
<1>6. Solto(Presas)
  BY <1>0, <1>5, AdianteFatos
<1> QED BY <1>1, <1>2, <1>3, <1>4, <1>5, <1>6

\* What is stored is.
LEMMA GuardadasPresas ==
    ASSUME cronograma \in Seq(Linhas), SemRepetir(cronograma)
    PROVE  cronograma \in Seq(Presas)
<1>1. ASSUME NEW k \in DOMAIN cronograma PROVE cronograma[k] \in Presas
  <2>1. cronograma[k] \in Linhas
    BY LugarEhNumero
  <2>2. \A i \in DOMAIN cronograma : cronograma[i].id = cronograma[k].id => i = k
    BY DEF SemRepetir
  <2> QED BY <2>1, <2>2 DEF Presas
<1> HIDE DEF Presas
<1> QED BY <1>1, DeOutroConjunto

\* So does packing from today on, or from later.
LEMMA CompactarPresas ==
    ASSUME EmCurso, NEW as \in Seq(Presas), NEW desde \in Int, desde >= hoje
    PROVE  /\ \A dias, concluidos : DOMAIN dias \subseteq 1 .. Prova
                 => CompactarAtividades(as, dias, desde, concluidos) \in Seq(Presas)
           /\ \A base, cfg, regs : PlanoBom(PlanoDe(cfg))
                 => compactarDesde(as, desde, base, cfg, regs) \in Seq(Presas)
<1>1. Adiante(Presas) /\ \A I, J : J = IdsDe(cronograma) => ReforcoNovo(I \cup J) \subseteq Presas
  BY PresasFatos
<1> HIDE DEF Presas
<1> QED BY <1>1, CompactarGuarda

\* Putting the schedule in order with what is studied leaves the days gone by.
LEMMA emDiaPresas ==
    ASSUME EmCurso, NEW as \in Seq(Presas), NEW cfg \in Configs, NEW regs
    PROVE  emDiaComOEstudado(as, cfg, regs) \in Seq(Presas)
<1> DEFINE dias == PlanoDe(cfg).dias
           destino == DiaDoEstudoFeito(dias, hoje)
           p == ArrumarEstudado(as, dias, hoje, regs)
           a == p.as
           desde == Max({destino, hoje}) + 1
           c == compactarDesde(a, desde, a, cfg, regs)
           r == emDiaComOEstudado(as, cfg, regs)
<1>1. r = IF p.mudou THEN c ELSE a
  BY DEF emDiaComOEstudado, Fechado
<1>2. PlanoBom(PlanoDe(cfg)) /\ DOMAIN dias \subseteq 1 .. Prova /\ hoje \in Int
  BY PlanosBons DEF PlanoBom, EmCurso
<1>3. destino \in Int
  BY <1>2, DiaDoEstudoTipo
<1>4. desde \in Int /\ desde >= hoje
  <2> HIDE DEF destino
  <2>1. Max({destino, hoje}) = Ate(hoje, destino)
    BY <1>2, <1>3, MaiorDosDois
  <2>2. Ate(hoje, destino) \in Int /\ Ate(hoje, destino) >= hoje
    BY <1>2, <1>3 DEF Ate
  <2> QED BY <1>2, <2>1, <2>2
<1>5. a \in Seq(Presas)
  <2>1. CabemSemEstudo(as, regs, Presas)
    <3> SUFFICES ASSUME NEW i \in DOMAIN as, NEW feito PROVE SemTopicos(as[i], feito) \in Presas
      BY DEF CabemSemEstudo
    <3>1. as[i] \in Presas /\ as[i] \in Linhas
      BY LugarEhNumero, PresasFatos
    <3> QED BY <3>1, PresasFatos, SemTopicosTipo
  <2>2. Adiante(Presas)
    BY PresasFatos
  <2> HIDE DEF Presas
  <2> QED BY <1>2, <2>1, <2>2, ArrumarGuarda
<1> HIDE DEF r, desde, p, a
<1>6. compactarDesde(a, desde, a, cfg, regs) \in Seq(Presas)
  BY <1>2, <1>4, <1>5, CompactarPresas
<1> HIDE DEF c
<1> QED BY <1>1, <1>5, <1>6 DEF r, c

\* A proposal is of new rows.
LEMMA PropostaPresa ==
    ASSUME EmCurso, NEW novas, Proposta(novas)
    PROVE  novas \in Seq(Presas)
<1>1. novas \in Seq(Linhas) /\ \A x \in IdsDe(novas) : x \notin IdsDe(cronograma)
  BY DEF Proposta
<1>2. ASSUME NEW k \in DOMAIN novas PROVE novas[k] \in Presas
  <2>1. novas[k] \in Linhas
    BY <1>1, LugarEhNumero
  <2>2. novas[k].id \notin IdsDe(cronograma)
    BY <1>1 DEF IdsDe
  <2> QED BY <2>1, <2>2, PresasFatos
<1> HIDE DEF Presas
<1> QED BY <1>1, <1>2, DeOutroConjunto

\* Taking marks off moves nothing.
LEMMA SemMarcasPresas ==
    ASSUME EmCurso, NEW as \in Seq(Presas), NEW desde, NEW id
    PROVE  SemMovidas(as, desde) \in Seq(Presas) /\ SemAntecipada(as, id) \in Seq(Presas)
<1>1. ASSUME NEW a \in Presas
      PROVE  [a EXCEPT !.movida = FALSE] \in Presas /\ [a EXCEPT !.antecipada = FALSE] \in Presas
  <2> DEFINE b == [a EXCEPT !.movida = FALSE]
             c == [a EXCEPT !.antecipada = FALSE]
  <2>1. /\ a \in Linhas
        /\ \A x \in Linhas : x.id = a.id /\ x.data = a.data => x \in Presas
    BY PresasFatos
  <2>2. b \in Linhas /\ b.id = a.id /\ b.data = a.data
    BY <2>1 DEF Linhas
  <2>3. c \in Linhas /\ c.id = a.id /\ c.data = a.data
    BY <2>1 DEF Linhas
  <2> HIDE DEF b, c
  <2>4. b \in Presas /\ c \in Presas
    BY <2>1, <2>2, <2>3
  <2> QED BY <2>4 DEF b, c
<1>2. \A i \in DOMAIN as : as[i] \in Presas
  BY LugarEhNumero
<1> HIDE DEF Presas
<1>3. SemMovidas(as, desde) \in [DOMAIN as -> Presas]
  BY <1>1, <1>2 DEF SemMovidas
<1>4. SemAntecipada(as, id) \in [DOMAIN as -> Presas]
  BY <1>1, <1>2 DEF SemAntecipada
<1> QED BY <1>3, <1>4, LugarALugar

\* Planning again from today takes the delay out and moves nothing else.
LEMMA redistribuirPresas ==
    ASSUME Invariante, Certo, hoje \in 1 .. Prova - 1, NEW desde
    PROVE  redistribuirDesde(desde) \in Seq(Presas)
<1> DEFINE cfg     == [config EXCEPT !.inicio = hoje]
           A == {i \in DOMAIN cronograma : cronograma[i].data < desde}
           J == {i \in DOMAIN cronograma : cronograma[i].data >= desde}
           antes   == SubFila(cronograma, A)
           janela  == SubFila(cronograma, J)
           K == {i \in DOMAIN janela : janela[i].data < hoje => Lancada(registros, janela[i].id)}
           resto   == SubFila(janela, K)
           atuais  == SemMovidas(antes \o resto, hoje)
           novas   == SemConteudoJaConcluido(Novas(cfg), cronograma, registros)
           replanejadas == Replanejar(atuais, novas, hoje, registros)
<1>1. redistribuirDesde(desde)
        = CompactarAtividades(replanejadas, PlanoDe(cfg).dias, hoje, DiasConcluidos(replanejadas, registros))
  BY DEF redistribuirDesde, SemAtrasadas
<1>2. EmCurso /\ config \in Configs /\ cronograma \in Seq(Presas) /\ hoje \in Int
  BY Guardado, GuardadasPresas DEF EmCurso
<1>3. PlanoBom(PlanoDe(cfg)) /\ Proposta(Novas(cfg))
  BY <1>2, PlanosBons, PropostaDoPlano DEF EmCurso
<1>4. A \in SUBSET DOMAIN cronograma /\ J \in SUBSET DOMAIN cronograma /\ K \in SUBSET DOMAIN janela
  OBVIOUS
<1>5. Presas \in SUBSET Linhas
  BY DEF Presas
<1> HIDE DEF A, J, K, cfg
<1>6. antes \in Seq(Presas) /\ janela \in Seq(Presas)
  BY <1>2, <1>4, SubFilaDoLugar
<1> HIDE DEF antes, janela
<1>7. resto \in Seq(Presas)
  BY <1>4, <1>6, SubFilaDoLugar
<1> HIDE DEF resto
<1>8. antes \o resto \in Seq(Presas)
  BY <1>6, <1>7, JuntaTodos
<1>9. atuais \in Seq(Presas)
  BY <1>2, <1>8, SemMarcasPresas
<1>10. novas \in Seq(Presas)
  BY <1>2, <1>3, SemConteudoUmaVez, PropostaPresa
<1> HIDE DEF atuais, novas
<1>11. replanejadas \in Seq(Presas)
  BY <1>5, <1>9, <1>10, ReplanejarTipo
<1> HIDE DEF replanejadas
<1> QED BY <1>1, <1>2, <1>3, <1>11, CompactarPresas DEF PlanoBom

\* Splitting a topic off leaves both halves on the day.
LEMMA SepararPresas ==
    ASSUME EmCurso, NEW as \in Seq(Presas), NEW id \in IdsDe(as), NEW topico \in Topico,
           NEW novo \in Nat, novo \notin IdsDe(cronograma)
    PROVE  SepararTema(as, id, topico, novo) \in Seq(Presas)
<1> DEFINE original == PorID(as, id)
           resto    == original.tema.partes \ {topico}
           empurra(a) == IF a.data = original.data /\ a.posicao > original.posicao
                         THEN [a EXCEPT !.posicao = a.posicao + 1] ELSE a
           ajusta(a) == IF a.id = id THEN SoCom(a, resto) ELSE empurra(a)
           r == [i \in DOMAIN as |-> ajusta(as[i])]
           sep == Separada(original, novo, topico)
<1>1. SepararTema(as, id, topico, novo) = IF resto = {} THEN as ELSE Append(r, sep)
  BY DEF SepararTema, Separada
<1>2. /\ Presas \in SUBSET Linhas /\ Solto(Presas)
      /\ \A a \in Presas, b \in Linhas :
            b.id = a.id /\ b.data = a.data => b \in Presas
      /\ \A b \in Linhas : b.id \notin IdsDe(cronograma) => b \in Presas
  BY PresasFatos
<1>3. original \in Presas
  BY PorIDTipo
<1>4. original \in Linhas
  BY <1>2, <1>3
<1> HIDE DEF original
<1>5. resto \in SUBSET Topico
  BY <1>4 DEF Linhas, Temas
<1> HIDE DEF resto
<1>6. ASSUME NEW a \in Presas PROVE ajusta(a) \in Presas
  <2> DEFINE b == SoCom(a, resto)
             n == a.posicao + 1
  <2>1. a \in Linhas
    BY <1>2
  <2>2. b \in Linhas /\ MesmaMarca(a, b)
    BY <1>5, <2>1, SeparadaTipo
  <2>3. b.id = a.id /\ b.data = a.data
    BY <2>1 DEF SoCom, Linhas
  <2>4. a.posicao \in Nat
    BY <2>1, LinhaTipo
  <2>5. n \in Nat
    BY <2>4
  <2>6. [a EXCEPT !.posicao = a.posicao + 1] = [a EXCEPT !.posicao = n]
    OBVIOUS
  <2>7. ajusta(a) = b \/ ajusta(a) = [a EXCEPT !.posicao = n] \/ ajusta(a) = a
    OBVIOUS
  <2> HIDE DEF b, n, ajusta
  <2>8. b \in Presas
    BY <1>2, <2>2, <2>3
  <2>9. [a EXCEPT !.posicao = n] \in Presas
    BY <1>2, <2>5 DEF Solto
  <2> QED BY <2>7, <2>8, <2>9
<1>7. r \in Seq(Presas)
  <2>1. \A i \in DOMAIN as : as[i] \in Presas
    BY LugarEhNumero
  <2> HIDE DEF ajusta
  <2>2. r \in [DOMAIN as -> Presas]
    BY <1>6, <2>1
  <2> HIDE DEF r
  <2> QED BY <2>2, LugarALugar
<1>8. sep \in Presas
  <2>1. sep \in Linhas /\ sep.id = novo
    BY <1>4, SeparadaTipo
  <2> HIDE DEF sep
  <2> QED BY <1>2, <2>1
<1> HIDE DEF r, sep, Presas
<1>9. Append(r, sep) \in Seq(Presas)
  BY <1>7, <1>8, AppendProperties
<1> QED BY <1>1, <1>9

\* What a step writes leaves the days gone by as they were stored.
Preso == cronograma' \in Seq(Presas)

\* What the invariants say, for a request that writes.
LEMMA EmCursoGuardado ==
    ASSUME Invariante, Certo
    PROVE  /\ EmCurso /\ config \in Configs /\ cronograma \in Seq(Presas)
           /\ Presas \in SUBSET Linhas
BY Guardado, GuardadasPresas DEF EmCurso, Presas

\* A write of such rows, or a refusal.
LEMMA GravarPreso ==
    ASSUME EmCurso, cronograma \in Seq(Presas), NEW novo \in Seq(Presas), NEW regs, NEW op,
           Gravar(op, novo, regs)
    PROVE  Preso
<1>1. cronograma' = ordenar(novo) \/ cronograma' = cronograma
  BY DEF Gravar
<1>2. Presas \in SUBSET Linhas
  BY DEF Presas
<1> HIDE DEF Presas
<1>3. ordenar(novo) \in Seq(Presas)
  BY <1>2, ordenarGuarda
<1> QED BY <1>1, <1>3 DEF Preso

\* The write every request of CronogramaService ends with.
LEMMA MontadaPresa ==
    ASSUME Invariante, Certo, NEW as \in Seq(Presas), NEW op, gravarEMontar(op, as)
    PROVE  Preso
<1> DEFINE novo == emDiaComOEstudado(as, config, registros)
<1>1. Gravar(op, novo, registros)
  BY DEF gravarEMontar
<1>2. EmCurso /\ config \in Configs /\ cronograma \in Seq(Presas)
  BY EmCursoGuardado
<1>3. novo \in Seq(Presas)
  BY <1>2, emDiaPresas
<1> HIDE DEF novo
<1> QED BY <1>1, <1>2, <1>3, GravarPreso

\* Planning again, from whatever day.
LEMMA ReplanejarPresas ==
    ASSUME EmCurso, NEW as \in Seq(Presas), NEW novas, Proposta(novas), NEW desde, NEW regs
    PROVE  Replanejar(as, novas, desde, regs) \in Seq(Presas)
<1>1. Presas \in SUBSET Linhas
  BY DEF Presas
<1>2. novas \in Seq(Presas)
  BY PropostaPresa
<1> QED BY <1>1, <1>2, ReplanejarTipo

\* Compacting, restoring the order, absorbing the delay, reorganizing.
LEMMA RearranjosPresos ==
    ASSUME Invariante, Certo,
           \/ PedirCompactar \/ RestaurarOrdem \/ AbsorverAtraso
           \/ \E dt \in Datas : ReorganizarDesde(dt)
    PROVE  Preso
<1>1. /\ PlanoBom(PlanoDe(config)) /\ hoje \in Int /\ hoje >= hoje
      /\ EmCurso /\ cronograma \in Seq(Presas)
  BY PlanosBons, EmCursoGuardado DEF EmCurso
<1>2. PICK as, op : Rearranjada(as) /\ gravarEMontar(op, as)
  BY RearranjoForma
<1>3. CASE as = compactarDesde(cronograma, hoje, cronograma, config, registros)
  BY <1>1, <1>2, <1>3, CompactarPresas, MontadaPresa
<1>4. ASSUME NEW cfg, NEW desde, Proposta(Novas(cfg)),
             as = Replanejar(SemMovidas(cronograma, desde), Novas(cfg), desde, registros)
      PROVE  Preso
  BY <1>1, <1>2, <1>4, SemMarcasPresas, ReplanejarPresas, MontadaPresa
<1>5. ASSUME hoje \in 1 .. Prova - 1, NEW desde, as = redistribuirDesde(desde) PROVE Preso
  BY <1>2, <1>5, redistribuirPresas, MontadaPresa
<1> QED BY <1>2, <1>3, <1>4, <1>5 DEF Rearranjada

\* Recording.
LEMMA RegistrarPreso ==
    ASSUME Invariante, Certo, NEW id, NEW c, Registrar(id, c)
    PROVE  Preso
<1> DEFINE regs == Lancar(id, c)
           novo == DepoisDoRegistro(cronograma, id, c, regs)
           feito == emDiaComOEstudado(cronograma, config, regs)
           desfeito == SemAntecipada(cronograma, id)
<1>1. Gravar("registrar", novo, regs)
  BY DEF Registrar
<1>2. EmCurso /\ config \in Configs /\ cronograma \in Seq(Presas)
  BY EmCursoGuardado
<1>3. novo = feito \/ novo = desfeito
  BY DEF DepoisDoRegistro
<1>4. feito \in Seq(Presas) /\ desfeito \in Seq(Presas)
  BY <1>2, emDiaPresas, SemMarcasPresas
<1> HIDE DEF regs, novo, feito, desfeito
<1>5. novo \in Seq(Presas)
  BY <1>3, <1>4
<1> QED BY <1>1, <1>2, <1>5, GravarPreso

\* Splitting a topic off, with its record or without it.
LEMMA EstudarPreso ==
    ASSUME Invariante, Certo, NEW id \in IdsDe(cronograma), NEW topico \in Topico,
           EstudarTema(id, topico) \/ EstudarTemaInterrompido(id, topico)
    PROVE  Preso
<1> DEFINE separadas == SepararTema(cronograma, id, topico, NovoId)
           quem == IF separadas = cronograma THEN id ELSE NovoId
           regs == Lancar(quem, TRUE)
           lista == ordenar(separadas)
           novo == emDiaComOEstudado(lista, config, regs)
<1>1. /\ EmCurso /\ config \in Configs /\ cronograma \in Seq(Presas)
      /\ Presas \in SUBSET Linhas
  BY EmCursoGuardado
<1>2. NovoId \in Nat /\ NovoId \notin IdsDe(cronograma)
  BY NovoIdNovo
<1>3. \/ cronograma' = ordenar(novo) \/ cronograma' = ordenar(separadas) \/ cronograma' = cronograma
  BY DEF EstudarTema, EstudarTemaInterrompido, DepoisDoRegistro, Gravar
<1> HIDE DEF Presas
<1>4. separadas \in Seq(Presas)
  BY <1>1, <1>2, SepararPresas
<1> HIDE DEF separadas
<1>5. lista \in Seq(Presas) /\ ordenar(separadas) \in Seq(Presas)
  BY <1>1, <1>4, ordenarGuarda
<1> HIDE DEF lista, regs
<1>6. novo \in Seq(Presas)
  BY <1>1, <1>5, emDiaPresas
<1> HIDE DEF novo
<1>7. ordenar(novo) \in Seq(Presas)
  BY <1>1, <1>6, ordenarGuarda
<1> QED BY <1>1, <1>3, <1>5, <1>7 DEF Preso

\* Opening and saving.
LEMMA PlanejarPreso ==
    ASSUME Invariante, Certo, Abrir \/ \E cfg \in Configs : Salvar(cfg)
    PROVE  Preso
<1>1. EmCurso /\ config \in Configs /\ cronograma \in Seq(Presas)
  BY EmCursoGuardado
<1>2. \A cfg \in Configs : Proposta(Novas(cfg))
  BY <1>1, PropostaDoPlano DEF EmCurso
<1>3. CASE Abrir
  <2> DEFINE novas == Novas(config)
  <2>1. Gravar("abrir", novas, registros)
    BY <1>3 DEF Abrir
  <2>2. Proposta(novas)
    BY <1>1, <1>2
  <2> HIDE DEF novas
  <2>3. novas \in Seq(Presas)
    BY <1>1, <2>2, PropostaPresa
  <2> QED BY <1>1, <2>1, <2>3, GravarPreso
<1>4. ASSUME NEW cfg \in Configs, Salvar(cfg) PROVE Preso
  <2> DEFINE as == Replanejar(cronograma, Novas(cfg), desdeQuando(config, cfg), registros)
             novo == emDiaComOEstudado(as, cfg, registros)
  <2>1. Gravar("salvar", novo, registros)
    BY <1>4 DEF Salvar
  <2>2. as \in Seq(Presas)
    BY <1>1, <1>2, ReplanejarPresas
  <2> HIDE DEF as
  <2>3. novo \in Seq(Presas)
    BY <1>1, <2>2, emDiaPresas
  <2> HIDE DEF novo
  <2> QED BY <1>1, <2>1, <2>3, GravarPreso
<1> QED BY <1>3, <1>4

\* The requests that move what the student names.
DeMao == {"mover", "trocar", "adiar", "antecipar"}

\* Every other step writes such rows, and only clearing the records takes any.
LEMMA PassoPreso ==
    ASSUME Invariante, Certo, Operacoes \cap DeMao = {}, [Next]_vars
    PROVE  /\ Preso
           /\ DOMAIN registros \subseteq DOMAIN registros' \/ cronograma' = cronograma
<1>1. cronograma \in Seq(Presas)
  BY EmCursoGuardado
<1>2. CASE UNCHANGED vars
  BY <1>1, <1>2 DEF vars, Preso
<1>3. CASE Abrir
  <2>1. registros' = registros
    BY <1>3 DEF Abrir
  <2> QED BY <1>3, <2>1, PlanejarPreso
<1>4. CASE \/ \E id \in IdsDe(cronograma), dt \in Datas, p \in Posicoes : PedirMover(id, dt, p)
           \/ \E id \in IdsDe(cronograma), dt \in Datas, p \in Posicoes : PedirTrocar(id, dt, p)
           \/ \E dt \in Datas : PedirAdiarDia(dt)
           \/ \E id \in IdsDe(cronograma), dt \in Datas : PedirAntecipar(id, dt)
  <2>1. "mover" \in Operacoes \/ "trocar" \in Operacoes \/ "adiar" \in Operacoes \/ "antecipar" \in Operacoes
    BY <1>4 DEF PedirMover, PedirTrocar, PedirAdiarDia, PedirAntecipar, Pode
  <2> QED BY <2>1 DEF DeMao
<1>5. CASE \/ PedirCompactar \/ RestaurarOrdem \/ AbsorverAtraso
           \/ \E dt \in Datas : ReorganizarDesde(dt)
  <2>1. registros' = registros
    BY <1>5 DEF PedirCompactar, RestaurarOrdem, AbsorverAtraso, ReorganizarDesde, gravarEMontar
  <2> QED BY <1>5, <2>1, RearranjosPresos
<1>6. ASSUME NEW id \in IdsDe(cronograma), NEW c \in BOOLEAN, Registrar(id, c)
      PROVE  Preso /\ DOMAIN registros \subseteq DOMAIN registros'
  <2>1. registros' = Lancar(id, c)
    BY <1>6 DEF Registrar
  <2>2. DOMAIN Lancar(id, c) = DOMAIN registros \cup {id}
    BY LancarTipo
  <2> QED BY <1>6, <2>1, <2>2, RegistrarPreso
<1>7. ASSUME NEW id \in IdsDe(cronograma), NEW t \in Topico, EstudarTema(id, t)
      PROVE  Preso /\ DOMAIN registros \subseteq DOMAIN registros'
  <2> DEFINE quem == IF SepararTema(cronograma, id, t, NovoId) = cronograma THEN id ELSE NovoId
  <2>1. registros' = Lancar(quem, TRUE) \/ registros' = registros
    BY <1>7 DEF EstudarTema
  <2> HIDE DEF quem
  <2>2. DOMAIN Lancar(quem, TRUE) = DOMAIN registros \cup {quem}
    BY LancarTipo
  <2>3. DOMAIN registros \subseteq DOMAIN registros'
    BY <2>1, <2>2
  <2> QED BY <1>7, <2>3, EstudarPreso
<1>8. ASSUME NEW id \in IdsDe(cronograma), NEW t \in Topico, EstudarTemaInterrompido(id, t)
      PROVE  Preso /\ DOMAIN registros \subseteq DOMAIN registros'
  <2>1. registros' = registros
    BY <1>8 DEF EstudarTemaInterrompido
  <2> QED BY <1>8, <2>1, EstudarPreso
<1>9. CASE \E cfg \in Configs : Salvar(cfg)
  <2>1. registros' = registros
    BY <1>9 DEF Salvar
  <2> QED BY <1>9, <2>1, PlanejarPreso
<1>10. CASE \/ \E id \in IdsDe(cronograma), c \in BOOLEAN : RegistrarInterrompido(id, c)
            \/ LimparRegistros \/ PassaODia
            \/ \E cfg \in Configs : SalvarInterrompido(cfg)
  <2>1. cronograma' = cronograma
    BY <1>10 DEF RegistrarInterrompido, LimparRegistros, PassaODia, SalvarInterrompido
  <2> QED BY <1>1, <2>1 DEF Preso
<1> QED BY <1>2, <1>3, <1>4, <1>5, <1>6, <1>7, <1>8, <1>9, <1>10 DEF Next

\* Such rows keep every recorded block of a day gone by on its day.
LEMMA PresoNaoMuda ==
    ASSUME Invariante, Certo, Invariante', Preso,
           DOMAIN registros \subseteq DOMAIN registros' \/ cronograma' = cronograma,
           NEW i \in DOMAIN cronograma, Lancada(registros, cronograma[i].id), cronograma[i].data < hoje
    PROVE  NoMesmoDia(cronograma[i].id)
<1> DEFINE x == cronograma[i].id
           antes == PorID(cronograma, x)
           depois == PorID(cronograma', x)
<1>1. CASE cronograma' = cronograma
  BY <1>1 DEF NoMesmoDia
<1>2. CASE DOMAIN registros \subseteq DOMAIN registros'
  <2>1. x \in DOMAIN registros'
    BY <1>2 DEF Lancada
  <2>2. DOMAIN registros' \subseteq IdsDe(cronograma')
    <3>1. Gravavel(cronograma', registros')
      BY DEF Invariante
    <3> QED BY <3>1, GravavelDiz
  <2>3. x \in IdsDe(cronograma')
    BY <2>1, <2>2
  <2>4. depois \in Presas /\ depois.id = x
    BY <2>3, PorIDTipo DEF Preso
  <2>5. depois.data = cronograma[i].data
    BY <2>4 DEF Presas
  <2>6. antes = cronograma[i]
    <3>1. cronograma \in Seq(Linhas) /\ SemRepetir(cronograma)
      BY Guardado
    <3>2. x \in IdsDe(cronograma)
      BY DEF IdsDe
    <3> HIDE DEF x
    <3>3. antes \in ToSet(cronograma) /\ antes.id = x
      BY <3>1, <3>2, PorIDTipo
    <3> HIDE DEF antes
    <3>4. PICK j \in DOMAIN cronograma : cronograma[j] = antes
      BY <3>3 DEF ToSet
    <3>5. j = i
      BY <3>1, <3>3, <3>4 DEF SemRepetir, x
    <3> QED BY <3>4, <3>5
  <2> QED BY <2>5, <2>6 DEF NoMesmoDia
<1> QED BY <1>1, <1>2

\* No request that rebuilds the schedule or records study touches the days
\* gone by, whatever the plan: the requests that move what the student names
\* left out, what has a record there stays on its day.
THEOREM PassadoGuardado ==
    ASSUME Operacoes \cap DeMao = {}
    PROVE  Spec => PassadoNaoMuda
<1> DEFINE Fica == \A i \in DOMAIN cronograma :
                       LET a == cronograma[i] IN
                       Lancada(registros, a.id) /\ a.data < hoje => NoMesmoDia(a.id)
<1>1. ASSUME Invariante, Certo, Invariante', [Next]_vars PROVE Fica
  <2>1. Preso /\ (DOMAIN registros \subseteq DOMAIN registros' \/ cronograma' = cronograma)
    BY <1>1, PassoPreso
  <2> QED BY <1>1, <2>1, PresoNaoMuda
<1>2. Invariante /\ Certo /\ Invariante' /\ [Next]_vars => [Fica]_vars
  BY <1>1
<1> HIDE DEF Fica
<1>3. Spec => [][Fica]_vars
  BY <1>2, CertoSempre, PTL DEF Spec
<1> QED BY <1>3 DEF PassadoNaoMuda, Fica

-----------------------------------------------------------------------------
(* The topics of the syllabus.                                             *)

\* The block teaches the topic for the first time; some row of the list does.
Ensina(b, t)    == coberta(b) /\ t \in b.tema.partes
Ensinado(as, t) == \E b \in ToSet(as) : Ensina(b, t)

\* A row with the id x, if there is one, teaches t; and there is one.
Com(x, t)      == {b \in Linhas : b.id = x => Ensina(b, t)}
Leva(as, x, t) == as \in Seq(Com(x, t)) /\ x \in IdsDe(as)

\* Neither a move nor a mark takes what a row teaches.
LEMMA ComFatos ==
    ASSUME NEW x, NEW t
    PROVE  /\ Com(x, t) \in SUBSET Linhas /\ Aberta(Com(x, t)) /\ Adiante(Com(x, t))
           /\ \A desde : Vindas(Com(x, t), desde) \subseteq Com(x, t)
           /\ \A I : x \in I => ReforcoNovo(I) \subseteq Com(x, t)
<1>1. Com(x, t) \subseteq Linhas
  BY DEF Com
<1>2. ASSUME NEW a \in Com(x, t), NEW b \in Linhas, MesmoBloco(a, b) PROVE b \in Com(x, t)
  BY <1>2 DEF Com, Ensina, coberta, MesmoBloco
<1>3. ASSUME NEW I, x \in I, NEW b \in ReforcoNovo(I) PROVE b \in Com(x, t)
  BY <1>3 DEF ReforcoNovo, DeReforco, Com
<1>4. \A a, b : Mesmo(a, b) => MesmoBloco(a, b)
  BY DEF Mesmo, MesmoBloco
<1> HIDE DEF Com
<1>5. Aberta(Com(x, t)) /\ Adiante(Com(x, t))
  BY <1>1, <1>2, <1>4 DEF Aberta, Adiante
<1>6. ASSUME NEW desde, NEW b \in Vindas(Com(x, t), desde) PROVE b \in Com(x, t)
  <2>1. b \in Linhas /\ \E a \in Com(x, t) : Mesmo(a, b)
    BY <1>6 DEF Vindas
  <2> QED BY <1>2, <1>4, <2>1
<1> QED BY <1>1, <1>3, <1>5, <1>6

\* The row that teaches a topic is followed by its id.
LEMMA LevaEnsina ==
    ASSUME NEW as, NEW x, NEW t, Leva(as, x, t)
    PROVE  Ensinado(as, t)
<1>1. PICK i \in DOMAIN as : as[i].id = x
  BY DEF Leva, IdsDe
<1>2. as[i] \in Com(x, t)
  BY LugarEhNumero DEF Leva
<1> QED BY <1>1, <1>2 DEF Com, Ensinado, ToSet

\* And what a list with each id once teaches, one of its rows does.
LEMMA EnsinaLeva ==
    ASSUME NEW as \in Seq(Linhas), SemRepetir(as), NEW t
    PROVE  /\ \A i \in DOMAIN as : Ensina(as[i], t) => Leva(as, as[i].id, t)
           /\ Ensinado(as, t) => \E x : Leva(as, x, t)
<1>1. ASSUME NEW i \in DOMAIN as, Ensina(as[i], t) PROVE Leva(as, as[i].id, t)
  <2>1. \A k \in DOMAIN as : as[k] \in Linhas /\ (as[k].id = as[i].id => k = i)
    BY LugarEhNumero DEF SemRepetir
  <2>2. \A k \in DOMAIN as : as[k] \in Com(as[i].id, t)
    BY <1>1, <2>1 DEF Com
  <2> QED BY <2>2, DeOutroConjunto DEF Leva, IdsDe
<1> QED BY <1>1 DEF Ensinado, ToSet

\* Closing the gaps, from whatever day.
LEMMA compactarDesdeLeva ==
    ASSUME cronograma \in Seq(Linhas), NEW as \in Seq(Linhas), SemRepetir(as), NEW x, NEW t, Leva(as, x, t),
           NEW desde \in Int, NEW base, NEW cfg, PlanoBom(PlanoDe(cfg)), NEW regs
    PROVE  Leva(compactarDesde(as, desde, base, cfg, regs), x, t)
<1> DEFINE T == Com(x, t)
           c == CompactarAtividades(as, PlanoDe(cfg).dias, desde, DiasConcluidos(base, regs))
           N == ReforcoNovo(IdsDe(c) \cup IdsDe(cronograma))
           r == compactarDesde(as, desde, base, cfg, regs)
<1>1. T \in SUBSET Linhas /\ as \in Seq(T) /\ x \in IdsDe(as)
  BY ComFatos DEF Leva
<1>2. x \in IdsDe(c)
  <2> DEFINE dias == PlanoDe(cfg).dias
             concluidos == DiasConcluidos(base, regs)
  <2>1. DOMAIN dias \subseteq 1 .. Prova
    BY DEF PlanoBom
  <2> HIDE DEF dias, concluidos
  <2>2. /\ SemRepetir(CompactarAtividades(as, dias, desde, concluidos))
        /\ IdsDe(CompactarAtividades(as, dias, desde, concluidos)) = IdsDe(as)
        /\ SemColisao(as) => SemColisao(CompactarAtividades(as, dias, desde, concluidos))
    BY <2>1, CompactarUmaVez
  <2> QED BY <1>1, <2>2 DEF dias, concluidos
<1>3. Vindas(T, desde) \cup N \subseteq T
  BY <1>2, ComFatos
<1>4. r \in Seq(Vindas(T, desde) \cup N) /\ IdsDe(as) \subseteq IdsDe(r)
  BY <1>1, compactarDesdeNovos, compactarDesdeUmaVez
<1> HIDE DEF r, N, T
<1>5. r \in Seq(T)
  BY <1>3, <1>4, SeqCabe
<1> QED BY <1>1, <1>4, <1>5 DEF Leva, r, T

\* What is left of a block without what is studied teaches the rest.
LEMMA SemTopicosEnsina ==
    ASSUME NEW a \in Linhas, NEW feito, NEW t, Ensina(a, t), <<a.disciplina, t>> \notin feito
    PROVE  Ensina(SemTopicos(a, feito), t)
<1> DEFINE partes == {p \in a.tema.partes : <<a.disciplina, p>> \notin feito}
           b == SemTopicos(a, feito)
<1>1. b.tema.partes = partes
  BY DEF SemTopicos, Linhas, Temas
<1>2. b.disciplina = a.disciplina /\ b.passada = a.passada
  BY SemTopicosTipo
<1> HIDE DEF b
<1> QED BY <1>1, <1>2 DEF Ensina, coberta, b

\* Putting the schedule in order with what is studied: a topic studied stays
\* with the block concluded, any other with the block that had it.
LEMMA emDiaEnsina ==
    ASSUME EmCurso, NEW as \in Seq(Linhas), SemRepetir(as), NEW cfg \in Configs, NEW regs,
           NEW t, Ensinado(as, t)
    PROVE  Ensinado(emDiaComOEstudado(as, cfg, regs), t)
<1> DEFINE dias == PlanoDe(cfg).dias
           feito == TopicosFeitos(as, regs)
           destino == DiaDoEstudoFeito(dias, hoje)
           p == ArrumarEstudado(as, dias, hoje, regs)
           a == p.as
           desde == Max({destino, hoje}) + 1
           c == compactarDesde(a, desde, a, cfg, regs)
           r == emDiaComOEstudado(as, cfg, regs)
<1>1. r = c \/ r = a
  BY DEF emDiaComOEstudado, Fechado
<1>2. /\ PlanoBom(PlanoDe(cfg)) /\ DOMAIN dias \subseteq 1 .. Prova
      /\ hoje \in Int /\ cronograma \in Seq(Linhas)
  BY PlanosBons DEF PlanoBom, EmCurso
<1>3. desde \in Int
  <2>1. destino \in Int
    BY <1>2, DiaDoEstudoTipo
  <2> HIDE DEF destino
  <2>2. Max({destino, hoje}) = Ate(hoje, destino)
    BY <1>2, <2>1, MaiorDosDois
  <2> QED BY <1>2, <2>1, <2>2 DEF Ate
<1>4. PICK j \in DOMAIN as :
         Ensina(as[j], t) /\ (Concluida(regs, as[j].id) \/ <<as[j].disciplina, t>> \notin feito)
  <2>1. PICK i \in DOMAIN as : Ensina(as[i], t)
    BY DEF Ensinado, ToSet
  <2>2. CASE <<as[i].disciplina, t>> \in feito
    <3>1. PICK k \in DOMAIN as : /\ coberta(as[k]) /\ Concluida(regs, as[k].id)
                                 /\ <<as[i].disciplina, t>> \in Topicos(as[k])
      BY <2>2 DEF TopicosFeitos
    <3>2. t \in as[k].tema.partes
      BY <3>1 DEF Topicos
    <3> QED BY <3>1, <3>2 DEF Ensina
  <2> QED BY <2>1, <2>2
<1> DEFINE x == as[j].id
           T == Com(x, t)
<1>5. as \in Seq(T) /\ x \in IdsDe(as)
  BY <1>4, EnsinaLeva DEF Leva
<1>6. CabemSemEstudo(as, regs, T)
  <2> SUFFICES ASSUME NEW i \in DOMAIN as, ~Concluida(regs, as[i].id)
               PROVE  SemTopicos(as[i], feito) \in T
    BY DEF CabemSemEstudo
  <2>1. as[i] \in Linhas
    BY LugarEhNumero
  <2>2. SemTopicos(as[i], feito) \in Linhas /\ SemTopicos(as[i], feito).id = as[i].id
    BY <2>1, SemTopicosTipo
  <2>3. as[i].id = x => Ensina(SemTopicos(as[i], feito), t)
    <3> SUFFICES ASSUME as[i].id = x PROVE Ensina(SemTopicos(as[i], feito), t)
      OBVIOUS
    <3>1. i = j
      BY DEF SemRepetir
    <3>2. Ensina(as[i], t) /\ <<as[i].disciplina, t>> \notin feito
      BY <1>4, <3>1
    <3> HIDE DEF feito
    <3> QED BY <2>1, <3>2, SemTopicosEnsina
  <2> QED BY <2>2, <2>3 DEF Com
<1>7. ~JaEstudado(as, j, regs)
  BY <1>4 DEF JaEstudado, Ensina, Topicos
<1>8. a \in Seq(Linhas) /\ SemRepetir(a) /\ x \in IdsDe(a)
  BY <1>2, <1>7, ArrumarUmaVez
<1> HIDE DEF x, dias, feito
<1>9. a \in Seq(T)
  <2>1. Adiante(T)
    BY ComFatos
  <2> HIDE DEF T
  <2> QED BY <1>2, <1>5, <1>6, <2>1, ArrumarGuarda
<1> HIDE DEF a, desde, r
<1>10. Leva(a, x, t)
  BY <1>8, <1>9 DEF Leva
<1>11. Leva(c, x, t)
  BY <1>2, <1>3, <1>8, <1>10, compactarDesdeLeva
<1> QED BY <1>1, <1>10, <1>11, LevaEnsina DEF r

\* Every topic the one list teaches, the other does.
EnsinaOMesmo(r, as) == \A t : Ensinado(as, t) => Ensinado(r, t)

\* A list whose rows are followed teaches the same.
LEMMA LevadaEnsina ==
    ASSUME NEW as \in Seq(Linhas), SemRepetir(as), NEW r, \A x, t : Leva(as, x, t) => Leva(r, x, t)
    PROVE  EnsinaOMesmo(r, as)
<1> SUFFICES ASSUME NEW t, Ensinado(as, t) PROVE Ensinado(r, t)
  BY DEF EnsinaOMesmo
<1>1. PICK x : Leva(as, x, t)
  BY EnsinaLeva
<1> QED BY <1>1, LevaEnsina

\* What only moves rows and marks them: it keeps to any set no move takes out.
SoMexe(r, as) ==
    IdsDe(as) \subseteq IdsDe(r) /\ \A T : Aberta(T) /\ as \in Seq(T) => r \in Seq(T)

\* The rows of such a list are followed.
LEMMA MexidaLeva ==
    ASSUME NEW as, NEW r, SoMexe(r, as)
    PROVE  \A x, t : Leva(as, x, t) => Leva(r, x, t)
<1> SUFFICES ASSUME NEW x, NEW t, Leva(as, x, t) PROVE Leva(r, x, t)
  OBVIOUS
<1>1. Aberta(Com(x, t))
  BY ComFatos
<1> QED BY <1>1 DEF SoMexe, Leva

\* A schedule put in order, as it is stored, teaches the same.
LEMMA OrdenadaEnsina ==
    ASSUME NEW as \in Seq(Linhas)
    PROVE  EnsinaOMesmo(ordenar(as), as)
<1>1. ToSet(ordenar(as)) = ToSet(as)
  BY ordenarGuarda
<1> QED BY <1>1 DEF EnsinaOMesmo, Ensinado

\* No topic lost in a step.
NadaSome == EnsinaOMesmo(cronograma', cronograma)

\* The write every request of CronogramaService ends with.
LEMMA MontadaEnsina ==
    ASSUME Invariante, Certo, NEW STATE as, NEW op, gravarEMontar(op, as),
           as \in Seq(Linhas), SemRepetir(as), EnsinaOMesmo(as, cronograma)
    PROVE  NadaSome
<1> DEFINE novo == emDiaComOEstudado(as, config, registros)
<1>1. cronograma' = ordenar(novo) \/ cronograma' = cronograma
  BY DEF gravarEMontar, Gravar
<1>2. EmCurso /\ config \in Configs /\ cronograma \in Seq(Linhas) /\ PlanoBom(PlanoDe(config)) /\ hoje \in Int
  BY Guardado, PlanosBons DEF EmCurso
<1>3. novo \in Seq(Linhas)
  BY <1>2, emDiaUmaVez
<1>4. EnsinaOMesmo(novo, as)
  BY <1>2, emDiaEnsina DEF EnsinaOMesmo
<1> HIDE DEF novo
<1>5. EnsinaOMesmo(ordenar(novo), novo)
  BY <1>3, OrdenadaEnsina
<1> QED BY <1>1, <1>4, <1>5 DEF NadaSome, EnsinaOMesmo

\* The requests of CronogramaService that do not plan again.
LEMMA PedidoEnsina ==
    ASSUME Invariante, Certo,
           \/ \E id \in IdsDe(cronograma), dt \in Datas, p \in Posicoes : PedirMover(id, dt, p)
           \/ \E id \in IdsDe(cronograma), dt \in Datas, p \in Posicoes : PedirTrocar(id, dt, p)
           \/ \E dt \in Datas : PedirAdiarDia(dt)
           \/ \E id \in IdsDe(cronograma), dt \in Datas : PedirAntecipar(id, dt)
           \/ PedirCompactar
    PROVE  NadaSome
<1>1. /\ PlanoBom(PlanoDe(config)) /\ hoje \in Int
      /\ cronograma \in Seq(Linhas) /\ SemRepetir(cronograma)
  BY Guardado, PlanosBons
<1>2. ASSUME NEW as, as \in Seq(Linhas), SemRepetir(as),
             \A x, t : Leva(cronograma, x, t) => Leva(as, x, t),
             NEW desde \in Int
      PROVE  LET c == compactarDesde(as, desde, cronograma, config, registros)
             IN  /\ c \in Seq(Linhas) /\ SemRepetir(c)
                 /\ \A x, t : Leva(cronograma, x, t) => Leva(c, x, t)
  <2> DEFINE c == compactarDesde(as, desde, cronograma, config, registros)
  <2>1. c \in Seq(Linhas) /\ \A outros : Conserva(c, as, outros)
    BY <1>1, <1>2, compactarDesdeUmaVez
  <2>2. \A x, t : Leva(as, x, t) => Leva(c, x, t)
    BY <1>1, <1>2, compactarDesdeLeva
  <2> HIDE DEF c
  <2>3. SemRepetir(c)
    BY <2>1 DEF Conserva
  <2> QED BY <1>2, <2>1, <2>2, <2>3 DEF c
<1>3. ASSUME NEW id \in IdsDe(cronograma), NEW destino \in Datas, NEW posicao \in Posicoes,
             PedirMover(id, destino, posicao)
      PROVE  NadaSome
  <2> DEFINE movidas == Mover(cronograma, id, destino, posicao)
             desde == Max({PorID(cronograma, id).data, hoje})
             c == compactarDesde(movidas, desde, cronograma, config, registros)
  <2>1. DestinoValido(Dias, destino) /\ (gravarEMontar("mover", c) \/ gravarEMontar("mover", movidas))
    BY <1>3 DEF PedirMover, PodeMover
  <2>2. destino \in 1 .. Prova /\ posicao \in Int /\ desde \in Int
    BY <2>1, DestinoTipo, OrigemTipo
  <2>3. Guarda(movidas, cronograma)
    BY <1>1, <2>2, MoverUmaVez
  <2>4. \A T : Aberta(T) /\ cronograma \in Seq(T) => movidas \in Seq(T)
    BY <2>2, MoverTipo
  <2> HIDE DEF movidas, desde
  <2>5. movidas \in Seq(Linhas) /\ SemRepetir(movidas) /\ SoMexe(movidas, cronograma)
    BY <2>3, <2>4 DEF Guarda, TemIds, SoMexe
  <2>6. \A x, t : Leva(cronograma, x, t) => Leva(movidas, x, t)
    BY <2>5, MexidaLeva
  <2>7. c \in Seq(Linhas) /\ SemRepetir(c) /\ \A x, t : Leva(cronograma, x, t) => Leva(c, x, t)
    BY <1>2, <2>2, <2>5, <2>6
  <2> HIDE DEF c
  <2> QED BY <1>1, <2>1, <2>5, <2>6, <2>7, LevadaEnsina, MontadaEnsina
<1>4. ASSUME NEW as, as \in Seq(Linhas), TemIds(as, IdsDe(cronograma)),
             \A T : Aberta(T) /\ cronograma \in Seq(T) => as \in Seq(T)
      PROVE  as \in Seq(Linhas) /\ SemRepetir(as) /\ EnsinaOMesmo(as, cronograma)
  <2>1. SemRepetir(as) /\ SoMexe(as, cronograma)
    BY <1>4 DEF TemIds, SoMexe
  <2> QED BY <1>1, <1>4, <2>1, MexidaLeva, LevadaEnsina
<1>5. ASSUME NEW id \in IdsDe(cronograma), NEW destino \in Datas, NEW posicao \in Posicoes,
             PedirTrocar(id, destino, posicao)
      PROVE  NadaSome
  <2> DEFINE as == Trocar(cronograma, id, destino, posicao)
  <2>1. gravarEMontar("trocar", as) /\ DestinoValido(Dias, destino)
    BY <1>5 DEF PedirTrocar, PodeMover
  <2>2. destino \in 1 .. Prova /\ posicao \in Int
    BY <2>1, DestinoTipo
  <2>3. as \in Seq(Linhas) /\ TemIds(as, IdsDe(cronograma))
    BY <1>1, <2>2, TrocarUmaVez
  <2>4. \A T : Aberta(T) /\ cronograma \in Seq(T) => as \in Seq(T)
    BY <2>2, TrocarTipo
  <2> HIDE DEF as
  <2> QED BY <1>4, <2>1, <2>3, <2>4, MontadaEnsina
<1>6. ASSUME NEW data \in Datas, PedirAdiarDia(data) PROVE NadaSome
  <2> DEFINE cadeia == cadeiaDe(Dias, data, Concluidos)
             as == AdiarDia(cronograma, cadeia)
  <2>1. gravarEMontar("adiar", as)
    BY <1>6 DEF PedirAdiarDia
  <2>2. cadeia \in Seq(1 .. Prova) /\ \A j, k \in DOMAIN cadeia : cadeia[j] = cadeia[k] => j = k
    BY CadeiaUmaVez
  <2> HIDE DEF cadeia
  <2>3. Guarda(as, cronograma)
    BY <1>1, <2>2, AdiarDiaUmaVez
  <2>4. \A T : Aberta(T) /\ cronograma \in Seq(T) => as \in Seq(T)
    BY <2>2, AdiarDiaTipo
  <2> HIDE DEF as
  <2> QED BY <1>4, <2>1, <2>3, <2>4, MontadaEnsina DEF Guarda
<1>7. ASSUME NEW id \in IdsDe(cronograma), NEW dia \in Datas, PedirAntecipar(id, dia) PROVE NadaSome
  <2> DEFINE as == AntecipouAtividade(cronograma, id, dia)
             origem == PorID(cronograma, id).data
  <2>1. gravarEMontar("antecipar", as) /\ (origem > dia => DestinoValido(Dias, dia))
    BY <1>7 DEF PedirAntecipar
  <2>2. dia \in Int /\ (origem <= dia \/ dia \in 1 .. Prova)
    BY <2>1, DiaAntecipado
  <2>3. Guarda(as, cronograma)
    BY <1>1, <2>2, AntecipouUmaVez
  <2>4. \A T : Aberta(T) /\ cronograma \in Seq(T) => as \in Seq(T)
    BY <2>2, AntecipouTipo
  <2> HIDE DEF as
  <2> QED BY <1>4, <2>1, <2>3, <2>4, MontadaEnsina DEF Guarda
<1>8. CASE PedirCompactar
  <2> DEFINE c == compactarDesde(cronograma, hoje, cronograma, config, registros)
  <2>1. gravarEMontar("compactar", c)
    BY <1>8 DEF PedirCompactar
  <2>2. c \in Seq(Linhas) /\ SemRepetir(c) /\ \A x, t : Leva(cronograma, x, t) => Leva(c, x, t)
    BY <1>1, <1>2
  <2> HIDE DEF c
  <2> QED BY <1>1, <2>1, <2>2, LevadaEnsina, MontadaEnsina
<1> QED BY <1>3, <1>5, <1>6, <1>7, <1>8

\* Splitting a topic off leaves it with the row split off, the rest with the block.
LEMMA SepararEnsina ==
    ASSUME NEW as \in Seq(Linhas), SemRepetir(as), NEW id \in IdsDe(as), NEW topico, NEW novo
    PROVE  EnsinaOMesmo(SepararTema(as, id, topico, novo), as)
<1> DEFINE original == PorID(as, id)
           resto    == original.tema.partes \ {topico}
           empurra(a) == IF a.data = original.data /\ a.posicao > original.posicao
                         THEN [a EXCEPT !.posicao = a.posicao + 1] ELSE a
           ajusta(a) == IF a.id = id THEN SoCom(a, resto) ELSE empurra(a)
           f == [i \in DOMAIN as |-> ajusta(as[i])]
           sep == Separada(original, novo, topico)
           r == SepararTema(as, id, topico, novo)
<1>1. r = IF resto = {} THEN as ELSE Append(f, sep)
  BY DEF SepararTema, Separada
<1>2. ToSet(Append(f, sep)) = ToSet(f) \cup {sep}
  <2> DEFINE U == {ajusta(as[i]) : i \in DOMAIN as}
  <2>1. f \in Seq(U)
    <3>1. f \in [DOMAIN as -> U]
      OBVIOUS
    <3> QED BY <3>1, LugarALugar
  <2> HIDE DEF f, sep
  <2> QED BY <2>1, AppendProperties DEF ToSet
<1>3. ASSUME NEW t, NEW i \in DOMAIN as, Ensina(as[i], t)
      PROVE  Ensina(f[i], t) \/ Ensina(sep, t)
  <2>1. as[i] \in Linhas
    BY LugarEhNumero
  <2>2. CASE as[i].id = id
    <3>1. original = as[i]
      <4>1. original \in ToSet(as) /\ original.id = id
        BY PorIDTipo
      <4> HIDE DEF original
      <4> QED BY <2>2, <4>1 DEF ToSet, SemRepetir
    <3>2. f[i] = SoCom(original, resto)
      BY <2>2, <3>1
    <3> DEFINE b == SoCom(original, resto)
    <3>3. original \in Linhas /\ Ensina(original, t)
      BY <1>3, <2>1, <3>1
    <3> HIDE DEF original, f
    <3>4. coberta(b) /\ b.tema.partes = resto /\ coberta(sep) /\ sep.tema.partes = {topico}
      BY <3>3 DEF Ensina, coberta, Linhas, Separada, SoCom
    <3> HIDE DEF b, sep
    <3>5. t \in resto \/ t \in {topico}
      BY <3>3 DEF Ensina
    <3> QED BY <3>2, <3>4, <3>5 DEF Ensina, b
  <2>3. CASE as[i].id # id
    BY <1>3, <2>1, <2>3 DEF Ensina, coberta, Linhas
  <2> QED BY <2>2, <2>3
<1> HIDE DEF r, sep
<1>4. ASSUME NEW t, Ensinado(as, t) PROVE Ensinado(Append(f, sep), t)
  <2>1. PICK i \in DOMAIN as : Ensina(as[i], t)
    BY <1>4 DEF Ensinado, ToSet
  <2>2. f[i] \in ToSet(f)
    BY DEF ToSet
  <2> HIDE DEF f
  <2> QED BY <1>2, <1>3, <2>1, <2>2 DEF Ensinado
<1> QED BY <1>1, <1>4 DEF EnsinaOMesmo, r

\* Recording, and splitting a topic off with its record or without it.
LEMMA EstudoEnsina ==
    ASSUME Invariante, Certo, NEW id \in IdsDe(cronograma),
           \/ \E c \in BOOLEAN : Registrar(id, c)
           \/ \E topico \in Topico : EstudarTema(id, topico) \/ EstudarTemaInterrompido(id, topico)
    PROVE  NadaSome
<1>1. EmCurso /\ config \in Configs /\ cronograma \in Seq(Linhas) /\ SemRepetir(cronograma)
      /\ hoje \in Int /\ PlanoBom(PlanoDe(config))
  BY Guardado, PlanosBons DEF EmCurso
<1>2. ASSUME NEW as, as \in Seq(Linhas), SemRepetir(as), EnsinaOMesmo(as, cronograma), NEW regs
      PROVE  EnsinaOMesmo(ordenar(emDiaComOEstudado(as, config, regs)), cronograma)
  <2> DEFINE novo == emDiaComOEstudado(as, config, regs)
  <2>1. novo \in Seq(Linhas)
    BY <1>1, <1>2, emDiaUmaVez
  <2>2. EnsinaOMesmo(novo, as)
    BY <1>1, <1>2, emDiaEnsina DEF EnsinaOMesmo
  <2> HIDE DEF novo
  <2>3. EnsinaOMesmo(ordenar(novo), novo)
    BY <2>1, OrdenadaEnsina
  <2> QED BY <1>2, <2>2, <2>3 DEF EnsinaOMesmo, novo
<1>3. ASSUME NEW c \in BOOLEAN, Registrar(id, c) PROVE NadaSome
  <2> DEFINE s == SemAntecipada(cronograma, id)
             n == emDiaComOEstudado(cronograma, config, Lancar(id, c))
  <2>1. cronograma' = ordenar(n) \/ cronograma' = ordenar(s) \/ cronograma' = cronograma
    BY <1>3 DEF Registrar, DepoisDoRegistro, Gravar
  <2>2. EnsinaOMesmo(ordenar(n), cronograma)
    BY <1>1, <1>2 DEF EnsinaOMesmo
  <2>3. Guarda(s, cronograma) /\ \A T : Aberta(T) /\ cronograma \in Seq(T) => s \in Seq(T)
    BY <1>1, SemMarcasUmaVez, SemAntecipadaTipo
  <2> HIDE DEF s, n
  <2>4. s \in Seq(Linhas) /\ SoMexe(s, cronograma)
    BY <2>3 DEF Guarda, TemIds, SoMexe
  <2>5. EnsinaOMesmo(s, cronograma) /\ EnsinaOMesmo(ordenar(s), s)
    BY <1>1, <2>4, MexidaLeva, LevadaEnsina, OrdenadaEnsina
  <2> QED BY <2>1, <2>2, <2>5 DEF NadaSome, EnsinaOMesmo
<1>4. ASSUME NEW topico \in Topico, EstudarTema(id, topico) \/ EstudarTemaInterrompido(id, topico)
      PROVE  NadaSome
  <2> DEFINE s == SepararTema(cronograma, id, topico, NovoId)
             regs == Lancar(IF s = cronograma THEN id ELSE NovoId, TRUE)
             n == emDiaComOEstudado(ordenar(s), config, regs)
  <2>1. cronograma' = ordenar(n) \/ cronograma' = ordenar(s) \/ cronograma' = cronograma
    BY <1>4 DEF EstudarTema, EstudarTemaInterrompido, DepoisDoRegistro, Gravar
  <2>2. s \in Seq(Linhas) /\ SemRepetir(s) /\ SemColisao(s)
    BY SeparadasGravavel
  <2>3. EnsinaOMesmo(s, cronograma)
    BY <1>1, SepararEnsina
  <2> HIDE DEF s, regs
  <2>4. ordenar(s) \in Seq(Linhas) /\ SemRepetir(ordenar(s)) /\ EnsinaOMesmo(ordenar(s), s)
    BY <2>2, ordenarUmaVez, OrdenadaEnsina
  <2>5. EnsinaOMesmo(ordenar(s), cronograma)
    BY <2>3, <2>4 DEF EnsinaOMesmo
  <2>6. EnsinaOMesmo(ordenar(n), cronograma)
    BY <1>2, <2>4, <2>5
  <2> QED BY <2>1, <2>5, <2>6 DEF NadaSome, EnsinaOMesmo
<1> QED BY <1>3, <1>4

\* The planner gives every topic a block.
PlanoCobre(cfg) ==
    \A t \in Topico : \E k \in DOMAIN PlanoDe(cfg).itens : Ensina(PlanoDe(cfg).itens[k], t)

\* The first reading writes what the planner proposes.
LEMMA AbrirEnsina ==
    ASSUME Invariante, Certo, Abrir, PlanoCobre(config)
    PROVE  TopicoNaoSome'
<1> DEFINE novas == Novas(config)
<1>1. cronograma' = ordenar(novas) \/ cronograma' = <<>>
  BY DEF Abrir, Gravar
<1>2. novas \in Seq(Linhas)
  BY Guardado, PropostaDoPlano DEF Proposta
<1>3. ASSUME NEW t \in Topico PROVE Ensinado(novas, t)
  <2>1. PICK k \in DOMAIN PlanoDe(config).itens : Ensina(PlanoDe(config).itens[k], t)
    BY DEF PlanoCobre
  <2>2. k \in DOMAIN novas /\ Ensina(novas[k], t)
    BY <2>1 DEF Novas, Materializar, Ensina, coberta
  <2> QED BY <2>2 DEF Ensinado, ToSet
<1> HIDE DEF novas
<1>4. \A t \in Topico : Ensinado(ordenar(novas), t)
  BY <1>2, <1>3, OrdenadaEnsina DEF EnsinaOMesmo
<1> QED BY <1>1, <1>4 DEF TopicoNaoSome, Aberto, Ensinado, Ensina, ToSet

\* Rearranging by hand, postponing, compacting, recording and splitting never
\* lose a topic, when the planner gives each a block and nothing plans again:
\* each keeps a block that teaches it for the first time.
THEOREM TopicoNuncaSome ==
    ASSUME Operacoes \cap {"salvar", "restaurar", "reorganizar", "absorver"} = {},
           \A cfg \in Configs : PlanoCobre(cfg)
    PROVE  Spec => []TopicoNaoSome
<1>1. Init => TopicoNaoSome
  BY DEF Init, TopicoNaoSome, Aberto
<1>2. ASSUME Invariante, Certo, TopicoNaoSome, [Next]_vars PROVE TopicoNaoSome'
  <2>1. ~\/ RestaurarOrdem \/ AbsorverAtraso
         \/ \E dt \in Datas : ReorganizarDesde(dt)
         \/ \E cfg \in Configs : Salvar(cfg)
    BY DEF RestaurarOrdem, AbsorverAtraso, ReorganizarDesde, Salvar, Pode
  <2>2. CASE Abrir
    BY <1>2, <2>2, AbrirEnsina DEF Invariante
  <2>3. CASE cronograma' = cronograma
    BY <1>2, <2>3 DEF TopicoNaoSome, Aberto
  <2>4. CASE Aberto /\ NadaSome
    BY <1>2, <2>4 DEF NadaSome, EnsinaOMesmo, TopicoNaoSome, Aberto, Ensinado, Ensina, ToSet
  <2>5. Abrir \/ cronograma' = cronograma \/ (Aberto /\ NadaSome)
    <3>1. CASE \/ UNCHANGED vars \/ LimparRegistros \/ PassaODia
               \/ \E id \in IdsDe(cronograma), c \in BOOLEAN : RegistrarInterrompido(id, c)
               \/ \E cfg \in Configs : SalvarInterrompido(cfg)
      BY <3>1 DEF vars, RegistrarInterrompido, LimparRegistros, PassaODia, SalvarInterrompido
    <3>2. CASE \/ \E id \in IdsDe(cronograma), dt \in Datas, p \in Posicoes : PedirMover(id, dt, p)
               \/ \E id \in IdsDe(cronograma), dt \in Datas, p \in Posicoes : PedirTrocar(id, dt, p)
               \/ \E dt \in Datas : PedirAdiarDia(dt)
               \/ \E id \in IdsDe(cronograma), dt \in Datas : PedirAntecipar(id, dt)
               \/ PedirCompactar
      <4>1. Aberto
        BY <3>2 DEF PedirMover, PedirTrocar, PedirAdiarDia, PedirAntecipar, PedirCompactar
      <4> QED BY <1>2, <3>2, <4>1, PedidoEnsina
    <3>3. ASSUME NEW id \in IdsDe(cronograma),
                 \/ \E c \in BOOLEAN : Registrar(id, c)
                 \/ \E t \in Topico : EstudarTema(id, t) \/ EstudarTemaInterrompido(id, t)
          PROVE  Aberto /\ NadaSome
      <4>1. Aberto
        BY <3>3 DEF Registrar, EstudarTema, EstudarTemaInterrompido
      <4> QED BY <1>2, <3>3, <4>1, EstudoEnsina
    <3> QED BY <1>2, <2>1, <3>1, <3>2, <3>3 DEF Next
  <2> QED BY <2>2, <2>3, <2>4, <2>5
<1> QED BY <1>1, <1>2, CertoSempre, PTL DEF Spec
======================================================================
