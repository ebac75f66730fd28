------------------------- MODULE Importacao_proofs --------------------------
(***************************************************************************)
(* The limiter of Limites and the breaker of Importacao, for any number of *)
(* clients.  A bucket owes what its client was let through (Divida); that  *)
(* the sweep forgets nobody who still owes needs the time to refill to be  *)
(* a whole number of seconds (Exato), which the limit of the               *)
(* authentication meets (30 s) and the one of the editais does not (1/3 s, *)
(* rounded to 0): the run of MCLimites shows what becomes of that one.     *)
(***************************************************************************)
EXTENDS Importacao, Limites, TLAPS

\* The time to refill is whole: rounding it down loses nothing.
Exato == PorMinuto * cheio = capacidade

\* What client c was let through since its i-th request, against the refill.
Divida(c, i) ==
    IF c \in DOMAIN baldes
    THEN /\ aceitas[c][i] =< baldes[c].visto
         /\ 60 * (Len(aceitas[c]) - i + 1) + baldes[c].fichas
                =< capacidade + Recarga[baldes[c].visto - aceitas[c][i]]
    ELSE 60 * (Len(aceitas[c]) - i + 1) =< Recarga[agora - aceitas[c][i]]

Dividas == \A c \in Clientes : \A i \in 1 .. Len(aceitas[c]) : aceitas[c][i] =< agora /\ Divida(c, i)

Vistos == \A c \in DOMAIN baldes : baldes[c].visto =< agora

LInv ==
    /\ agora \in Nat /\ TiposDoLimitador /\ aceitas \in [Clientes -> Seq(Nat)]
    /\ Vistos /\ Dividas /\ TetoPorCliente

\* Seconds refill a whole number of parts.
LEMMA RecargaInteira == \A s \in Int : Recarga[s] \in Int
BY LimitadorValido DEF Recarga

\* No time, no refill.
LEMMA RecargaZero == Recarga[0] = 0
BY LimitadorValido DEF Recarga

\* The refill of two spans is that of both together.
LEMMA Soma == \A s, t \in Int : Recarga[s] + Recarga[t] = Recarga[s + t]
BY LimitadorValido DEF Recarga

\* More time never refills less.
LEMMA Monotono == \A a, b \in Int : a =< b => Recarga[a] =< Recarga[b]
BY LimitadorValido DEF Recarga

\* Whoever was not seen for the time to refill has refilled.
LEMMA Esquecido ==
    ASSUME Exato, NEW a \in Int, NEW b \in Int, b - a >= cheio, cheio \in Int
    PROVE  Recarga[b - a] >= capacidade
<1> DEFINE d == b - a
           k == cheio
<1>1. d \in Int /\ k \in Int /\ d >= k /\ PorMinuto \in Nat
  BY LimitadorValido
<1>2. PorMinuto * d >= PorMinuto * k
  <2> HIDE DEF d, k
  <2> QED BY <1>1
<1> QED BY <1>2 DEF Exato, Recarga

\* A bucket holds at least one token.
LEMMA Capacidades == capacidade \in Nat /\ capacidade >= 60 /\ cheio \in Int
BY LimitadorValido DEF capacidade, cheio

\* Nobody was let through yet.
LEMMA LInvNoInicio == InitLimites => LInv
BY LimitadorValido DEF InitLimites, InitLimitador, LInv, TiposDoLimitador, Vistos, Dividas, TetoPorCliente

\* Time only adds to what the forgotten are owed.
LEMMA LInvNoTempo == LInv /\ agora' = agora + 1 /\ UNCHANGED <<baldes, aceitas>> => LInv'
<1> SUFFICES ASSUME LInv, agora' = agora + 1, UNCHANGED <<baldes, aceitas>> PROVE LInv'
  OBVIOUS
<1>1. /\ TiposDoLimitador' /\ aceitas' \in [Clientes -> Seq(Nat)]
      /\ Vistos' /\ TetoPorCliente' /\ agora' \in Nat
  BY DEF LInv, TiposDoLimitador, Vistos, TetoPorCliente
<1>2. ASSUME NEW c \in Clientes, NEW i \in 1 .. Len(aceitas[c])
      PROVE  aceitas'[c][i] =< agora' /\ Divida(c, i)'
  <2>1. aceitas[c][i] \in Nat /\ aceitas[c][i] =< agora /\ Divida(c, i) /\ agora \in Nat
    BY DEF LInv, Dividas, TiposDoLimitador
  <2>2. Recarga[agora + 1 - aceitas[c][i]] >= Recarga[agora - aceitas[c][i]]
    BY <2>1, Monotono
  <2>3. Recarga[agora - aceitas[c][i]] \in Int /\ Recarga[agora + 1 - aceitas[c][i]] \in Int
    BY <2>1, RecargaInteira
  <2>4. Len(aceitas[c]) \in Nat
    BY DEF LInv, TiposDoLimitador
  <2> QED BY <2>1, <2>2, <2>3, <2>4 DEF Divida
<1> QED BY <1>1, <1>2 DEF LInv, Dividas

\* A request of c pays with a token; a bucket the sweep forgets had refilled.
LEMMA LInvAoPermitir ==
    ASSUME Exato, LInv, NEW c \in Clientes, Middleware(c)
    PROVE  LInv'
<1> USE DEF LInv
<1> SUFFICES ASSUME agora' = agora, permitir(c) PROVE LInv'
  BY DEF Middleware
<1>c. capacidade \in Nat /\ capacidade >= 60 /\ cheio \in Int
  BY Capacidades
<1>t. /\ agora \in Nat /\ aceitas \in [Clientes -> Seq(Nat)] /\ DOMAIN baldes \subseteq Clientes
      /\ \A d \in DOMAIN baldes : /\ baldes[d].fichas \in Nat /\ baldes[d].visto \in Nat
                                  /\ baldes[d].fichas =< capacidade /\ baldes[d].visto =< agora
  BY <1>c DEF TiposDoLimitador, Vistos
<1>g. /\ DOMAIN Guardados(c) \subseteq DOMAIN baldes
      /\ c \in DOMAIN baldes => c \in DOMAIN Guardados(c)
      /\ \A d \in DOMAIN Guardados(c) : Guardados(c)[d] = baldes[d]
      /\ \A d \in DOMAIN baldes \ DOMAIN Guardados(c) : agora - baldes[d].visto >= cheio
  BY <1>c, <1>t DEF Guardados, varrer
<1>f. /\ Fichas(c) \in 0 .. capacidade
      /\ c \notin DOMAIN baldes => Fichas(c) = capacidade
      /\ c \in DOMAIN baldes => Fichas(c) =< baldes[c].fichas + Recarga[agora - baldes[c].visto]
  <2>1. c \in DOMAIN baldes => Recarga[agora - baldes[c].visto] \in Nat
    BY <1>c, <1>t, Monotono, RecargaInteira, RecargaZero
  <2> QED BY <1>c, <1>t, <1>g, <2>1 DEF Fichas
<1>n. /\ DOMAIN baldes' = DOMAIN Guardados(c) \cup {c}
      /\ \A d \in DOMAIN Guardados(c) \ {c} : baldes'[d] = baldes[d]
      /\ baldes'[c] = [fichas |-> Fichas(c) - (IF Passa(c) THEN 60 ELSE 0), visto |-> agora]
      /\ aceitas' = IF Passa(c) THEN [aceitas EXCEPT ![c] = Append(@, agora)] ELSE aceitas
  BY DEF Middleware, permitir
<1>p. baldes'[c].fichas \in 0 .. capacidade /\ baldes'[c].visto = agora
  BY <1>c, <1>f, <1>n DEF Passa
<1>1. TiposDoLimitador' /\ aceitas' \in [Clientes -> Seq(Nat)]
  <2>1. aceitas' \in [Clientes -> Seq(Nat)]
    BY <1>t, <1>n
  <2>2. TiposDoLimitador'
    BY <1>c, <1>t, <1>g, <1>n, <1>p, <1>f DEF TiposDoLimitador, Passa
  <2> QED BY <2>1, <2>2
<1>2. Vistos'
  BY <1>t, <1>g, <1>n DEF Vistos
<1>3. \* before it pays, what c owes fits in what it was refilled
      ASSUME NEW i \in 1 .. Len(aceitas[c])
      PROVE  60 * (Len(aceitas[c]) - i + 1) + Fichas(c) =< capacidade + Recarga[agora - aceitas[c][i]]
  <2>1. Len(aceitas[c]) \in Nat /\ aceitas[c][i] \in Nat /\ Divida(c, i)
    BY <1>t DEF Dividas
  <2>2. Recarga[agora - aceitas[c][i]] \in Int
    BY <1>c, <1>t, <2>1, RecargaInteira
  <2>3. CASE c \notin DOMAIN baldes
    BY <2>1, <2>2, <2>3, <1>c, <1>f DEF Divida
  <2>4. CASE c \in DOMAIN baldes
    <3> DEFINE v == baldes[c].visto
    <3>1. v \in Nat
      BY <1>t, <2>4
    <3>2. Recarga[agora - v] + Recarga[v - aceitas[c][i]] = Recarga[agora - aceitas[c][i]]
      <4>1. agora - v \in Int /\ v - aceitas[c][i] \in Int
        BY <1>t, <2>1, <3>1
      <4>2. (agora - v) + (v - aceitas[c][i]) = agora - aceitas[c][i]
        BY <1>t, <2>1, <3>1
      <4> QED BY Soma, <4>1, <4>2
    <3>3. Recarga[agora - v] \in Int /\ Recarga[v - aceitas[c][i]] \in Int
      BY <1>c, <1>t, <2>1, <3>1, RecargaInteira
    <3> DEFINE n == 60 * (Len(aceitas[c]) - i + 1)
               f == baldes[c].fichas
               r == Recarga[agora - v]
               s == Recarga[v - aceitas[c][i]]
    <3>4. /\ n \in Int /\ f \in Int /\ Fichas(c) \in Int /\ capacidade \in Int
          /\ r \in Int /\ s \in Int
      BY <1>c, <1>f, <1>t, <2>1, <2>4, <3>3
    <3>5. n + f =< capacidade + s /\ Fichas(c) =< f + r
      BY <1>f, <2>1, <2>4 DEF Divida
    <3>6. n + Fichas(c) =< capacidade + (r + s)
      <4> HIDE DEF n, f, r, s, v
      <4> QED BY <3>4, <3>5
    <3> QED BY <3>2, <3>6
  <2> QED BY <2>3, <2>4
<1>4. ASSUME NEW d \in Clientes \ {c}, NEW i \in 1 .. Len(aceitas[d])
      PROVE  Divida(d, i)'
  <2>0. aceitas'[d] = aceitas[d]
    BY <1>n, <1>t
  <2>1. Len(aceitas[d]) \in Nat /\ aceitas[d][i] \in Nat /\ Divida(d, i)
    BY <1>t DEF Dividas
  <2>2. Recarga[agora - aceitas[d][i]] \in Int
    BY <1>c, <1>t, <2>1, RecargaInteira
  <2>3. CASE d \in DOMAIN baldes /\ d \notin DOMAIN Guardados(c)
    <3> DEFINE v == baldes[d].visto
    <3>1. v \in Nat
      BY <1>t, <2>3
    <3>2. Recarga[agora - v] + Recarga[v - aceitas[d][i]] = Recarga[agora - aceitas[d][i]]
      <4>1. agora - v \in Int /\ v - aceitas[d][i] \in Int
        BY <1>t, <2>1, <3>1
      <4>2. (agora - v) + (v - aceitas[d][i]) = agora - aceitas[d][i]
        BY <1>t, <2>1, <3>1
      <4> QED BY Soma, <4>1, <4>2
    <3>3. Recarga[agora - v] >= capacidade
      BY <1>c, <1>g, <1>t, <2>3, <3>1, Esquecido
    <3>4. Recarga[agora - v] \in Int /\ Recarga[v - aceitas[d][i]] \in Int
      BY <1>c, <1>t, <2>1, <3>1, RecargaInteira
    <3>5. 60 * (Len(aceitas[d]) - i + 1) =< Recarga[agora - aceitas[d][i]]
      <4> DEFINE n == 60 * (Len(aceitas[d]) - i + 1)
                 f == baldes[d].fichas
                 r == Recarga[agora - v]
                 s == Recarga[v - aceitas[d][i]]
      <4>1. n \in Int /\ f \in Nat /\ capacidade \in Int /\ r \in Int /\ s \in Int
        BY <1>c, <1>t, <2>1, <2>3, <3>4
      <4>2. n + f =< capacidade + s /\ capacidade =< r
        BY <2>1, <2>3, <3>3 DEF Divida
      <4>3. n =< r + s
        <5> HIDE DEF n, f, r, s, v
        <5> QED BY <4>1, <4>2
      <4> QED BY <3>2, <4>3
    <3> QED BY <2>0, <2>3, <3>5, <1>n DEF Divida
  <2>4. CASE d \notin DOMAIN baldes
    BY <2>0, <2>1, <2>4, <1>g, <1>n DEF Divida
  <2>5. CASE d \in DOMAIN Guardados(c)
    BY <2>0, <2>1, <2>5, <1>g, <1>n DEF Divida
  <2> QED BY <2>3, <2>4, <2>5
<1>5. Dividas' /\ TetoPorCliente'
  <2>1. CASE ~ Passa(c)
    <3>1. aceitas' = aceitas
      BY <2>1, <1>n
    <3>2. ASSUME NEW i \in 1 .. Len(aceitas[c]) PROVE Divida(c, i)'
      <4>1. baldes'[c].fichas = Fichas(c) /\ baldes'[c].visto = agora /\ c \in DOMAIN baldes'
        BY <1>f, <1>n, <1>c, <2>1
      <4>2. aceitas[c][i] =< agora
        BY DEF Dividas
      <4> QED BY <1>3, <3>1, <4>1, <4>2 DEF Divida
    <3>3. TetoPorCliente'
      BY <3>1 DEF TetoPorCliente
    <3>4. \A d \in Clientes : \A i \in 1 .. Len(aceitas[d]) : aceitas[d][i] =< agora
      BY DEF Dividas
    <3> QED BY <1>4, <3>1, <3>2, <3>3, <3>4 DEF Dividas
  <2>2. CASE Passa(c)
    <3>0. /\ aceitas'[c] = Append(aceitas[c], agora)
          /\ \A d \in Clientes \ {c} : aceitas'[d] = aceitas[d]
      BY <2>2, <1>n, <1>t
    <3>1. /\ Len(aceitas[c]) \in Nat /\ Len(aceitas'[c]) = Len(aceitas[c]) + 1
          /\ \A i \in 1 .. Len(aceitas[c]) : aceitas'[c][i] = aceitas[c][i] /\ aceitas[c][i] \in Nat
          /\ aceitas'[c][Len(aceitas[c]) + 1] = agora
      BY <3>0, <1>t
    <3>f. Fichas(c) >= 60 /\ Fichas(c) =< capacidade /\ Fichas(c) \in Nat
      BY <2>2, <1>c, <1>f DEF Passa
    <3>b. baldes'[c].fichas = Fichas(c) - 60 /\ baldes'[c].visto = agora /\ c \in DOMAIN baldes'
      BY <2>2, <1>n
    <3>2. ASSUME NEW i \in 1 .. Len(aceitas'[c])
          PROVE  /\ aceitas'[c][i] =< agora
                 /\ 60 * (Len(aceitas'[c]) - i + 1) + (Fichas(c) - 60)
                        =< capacidade + Recarga[agora - aceitas'[c][i]]
      <4>1. CASE i = Len(aceitas[c]) + 1
        <5>1. Recarga[agora - agora] = 0
          BY <1>t, RecargaZero
        <5> QED BY <4>1, <5>1, <3>1, <3>f, <1>c, <1>t
      <4>2. CASE i \in 1 .. Len(aceitas[c])
        <5>1. aceitas[c][i] =< agora /\ Recarga[agora - aceitas[c][i]] \in Int
          BY <4>2, <3>1, <1>c, <1>t, RecargaInteira DEF Dividas
        <5> DEFINE n == Len(aceitas[c])
                   r == Recarga[agora - aceitas[c][i]]
        <5>2. 60 * (n - i + 1) + Fichas(c) =< capacidade + r /\ n \in Nat /\ i \in Int /\ r \in Int
          BY <4>2, <5>1, <1>3, <3>1
        <5>3. 60 * (n + 1 - i + 1) + (Fichas(c) - 60) =< capacidade + r
          <6>1. 60 * (n + 1 - i + 1) = 60 * (n - i + 1) + 60
            BY <5>2
          <6> DEFINE m == 60 * (n - i + 1)
          <6>2. m \in Int /\ r \in Int /\ m + Fichas(c) =< capacidade + r
            BY <5>2
          <6>3. m + 60 + (Fichas(c) - 60) =< capacidade + r
            <7> HIDE DEF m, n, r
            <7> QED BY <6>2, <3>f, <1>c
          <6>4. 60 * (n + 1 - i + 1) = m + 60
            BY <6>1
          <6> HIDE DEF m
          <6> QED BY <6>3, <6>4
        <5>4. Len(aceitas'[c]) = n + 1 /\ aceitas'[c][i] = aceitas[c][i]
          BY <4>2, <3>1
        <5>5. Recarga[agora - aceitas'[c][i]] = r /\ aceitas'[c][i] =< agora
          BY <5>1, <5>4
        <5> HIDE DEF n, r
        <5> QED BY <5>2, <5>3, <5>4, <5>5, <3>f, <1>c
      <4> QED BY <4>1, <4>2, <3>1
    <3>3. Dividas'
      <4>1. ASSUME NEW i \in 1 .. Len(aceitas'[c]) PROVE aceitas'[c][i] =< agora' /\ Divida(c, i)'
        BY <3>2, <3>b DEF Divida
      <4>2. ASSUME NEW d \in Clientes \ {c}, NEW i \in 1 .. Len(aceitas'[d])
            PROVE  aceitas'[d][i] =< agora' /\ Divida(d, i)'
        BY <1>4, <3>0 DEF Dividas
      <4> QED BY <4>1, <4>2 DEF Dividas
    <3>4. TetoPorCliente'
      <4>1. ASSUME NEW i \in 1 .. Len(aceitas'[c]), NEW j \in 1 .. Len(aceitas'[c]), i =< j
            PROVE  60 * (j - i + 1) =< capacidade + Recarga[aceitas'[c][j] - aceitas'[c][i]]
        <5>1. CASE j = Len(aceitas[c]) + 1
          <6>0. aceitas'[c][i] \in Int
            BY <3>1, <1>t
          <6>1. Recarga[agora - aceitas'[c][i]] \in Int
            BY <6>0, <1>t, RecargaInteira
          <6> DEFINE n == Len(aceitas'[c])
                     r == Recarga[agora - aceitas'[c][i]]
          <6>2. 60 * (n - i + 1) + (Fichas(c) - 60) =< capacidade + r /\ n \in Nat /\ i \in Int /\ r \in Int
            BY <6>1, <3>2, <3>1
          <6>3. 60 * (n - i + 1) =< capacidade + r
            <7> HIDE DEF n, r
            <7> QED BY <6>2, <3>f, <1>c
          <6>4. j = n /\ aceitas'[c][j] = agora
            BY <5>1, <3>1
          <6> QED BY <6>3, <6>4
        <5>2. CASE j \in 1 .. Len(aceitas[c])
          <6>1. i \in 1 .. Len(aceitas[c]) /\ i =< j
            BY <5>2, <4>1, <3>1
          <6>2. aceitas'[c][i] = aceitas[c][i] /\ aceitas'[c][j] = aceitas[c][j]
            BY <5>2, <6>1, <3>1
          <6> QED BY <5>2, <6>1, <6>2 DEF TetoPorCliente
        <5> QED BY <5>1, <5>2, <3>1
      <4>2. ASSUME NEW d \in Clientes \ {c} PROVE aceitas'[d] = aceitas[d]
        BY <3>0
      <4> QED BY <4>1, <4>2 DEF TetoPorCliente
    <3> QED BY <3>3, <3>4
  <2> QED BY <2>1, <2>2
<1> QED BY <1>1, <1>2, <1>5, <1>t

\* Clients knock and time goes by: nothing else moves the limiter.
LEMMA LInvNoPasso == Exato /\ LInv /\ [NextLimites]_varsLimites => LInv'
<1> SUFFICES ASSUME Exato, LInv, [NextLimites]_varsLimites PROVE LInv'
  OBVIOUS
<1>1. ASSUME NEW c \in Clientes, Middleware(c) PROVE LInv'
  BY <1>1, LInvAoPermitir
<1>2. CASE Correr /\ UNCHANGED <<baldes, aceitas>>
  BY <1>2, LInvNoTempo DEF Correr
<1>3. CASE UNCHANGED varsLimites
  BY <1>3 DEF varsLimites, LInv, TiposDoLimitador, Vistos, Dividas, Divida, TetoPorCliente
<1> QED BY <1>1, <1>2, <1>3 DEF NextLimites

\* The limiter lets no client past its burst plus the refill, whatever is forgotten.
THEOREM TetoSempre == Exato => (SpecLimites => []TetoPorCliente)
<1>1. LInv => TetoPorCliente
  BY DEF LInv
<1>2. InitLimites => LInv
  BY LInvNoInicio
<1> SUFFICES ASSUME Exato PROVE SpecLimites => []TetoPorCliente
  OBVIOUS
<1>3. LInv /\ [NextLimites]_varsLimites => LInv'
  BY LInvNoPasso
<1> QED BY <1>1, <1>2, <1>3, PTL DEF SpecLimites

\* The limit of the authentication routes (20 a minute, burst of 10), for any
\* number of clients and of buckets: the rate that refills a bucket in 30 s.
THEOREM TetoDaAutenticacao ==
    ASSUME PorMinuto = LimitesPadrao.auth.porMinuto, Rajada = LimitesPadrao.auth.rajada
    PROVE  SpecLimites => []TetoPorCliente
<1>1. PorMinuto = 20 /\ Rajada = 10
  BY DEF LimitesPadrao
<1>2. Exato
  BY <1>1 DEF Exato, cheio, capacidade
<1> QED BY <1>2, TetoSempre

-----------------------------------------------------------------------------
(* The breaker.  `falhas' never outruns the unavailable answers, which are  *)
(* counted up to Limite, and a probe leaves only an open breaker.           *)
DInv ==
    /\ agora \in Nat /\ TiposDoDisjuntor
    /\ pedido \in [Clientes -> Pedidos]
    /\ seguidas \in 0 .. Limite
    /\ seguidas = Limite \/ falhas =< seguidas
    /\ AbreSoPorIndisponibilidade
    /\ sondando => abertoAte # 0
    /\ NadaTruncado
    /\ SondaTemChamada

\* A student with no request in the air counts as a request of which nothing was read.
LEMMA LivreValido == Livre \in Pedidos /\ Livre.lido = 0 /\ Livre.pdf = 0 /\ Livre.passo = "livre"
BY DEF Livre, Pedidos, Rotas

\* Only the entry of c changed, to a request of which nothing was cut.
Mudou(c) ==
    /\ pedido' \in [Clientes -> Pedidos] /\ pedido'[c].lido = pedido'[c].pdf
    /\ \A d \in Clientes \ {c} : pedido'[d] = pedido[d]

\* Replacing the entry of c is such a change.
LEMMA AoMudar ==
    ASSUME pedido \in [Clientes -> Pedidos], NEW c \in Clientes, NEW p \in Pedidos,
           p.lido = p.pdf, pedido' = [pedido EXCEPT ![c] = p]
    PROVE  Mudou(c) /\ pedido'[c] = p
BY DEF Mudou

\* Answering changes the entry of c alone.
LEMMA AoResponder ==
    ASSUME pedido \in [Clientes -> Pedidos], NEW c \in Clientes, Responder(c)
    PROVE  Mudou(c)
BY LivreValido, AoMudar DEF Responder

\* What fits the limit was read whole: the reader cuts one byte past it.
LEMMA OQueCabeFoiLido ==
    ASSUME NEW q \in Tamanhos \cup {0}, lerPDF(q).cabe
    PROVE  lerPDF(q).lido = q
<1>1. q \in Nat
  BY TamanhosValidos
<1>2. maxEditalPDF \in Nat
  BY SMT DEF maxEditalPDF
<1>3. lerPDF(q).cabe = (Menor(q, maxEditalPDF + 1) =< maxEditalPDF)
      /\ lerPDF(q).lido = Menor(q, maxEditalPDF + 1)
  BY DEF lerPDF
<1> DEFINE m == maxEditalPDF
           l == lerPDF(q).lido
<1>4. l = (IF q < m + 1 THEN q ELSE m + 1) /\ l =< m /\ m \in Nat
  BY <1>2, <1>3 DEF Menor
<1>5. l = q
  <2> HIDE DEF m, l
  <2> QED BY <1>1, <1>4
<1> QED BY <1>5

\* A request that goes out with what was sent changes the entry of c alone.
LEMMA InteiroAoEnviar ==
    ASSUME pedido \in [Clientes -> Pedidos], NEW c \in Clientes, NEW q \in Tamanhos \cup {0}, Enviar(c, q, q)
    PROVE  Mudou(c)
<1> DEFINE p == [passo |-> "chamar", rota |-> "lei", pdf |-> q, lido |-> q]
<1>1. p \in Pedidos /\ p.lido = p.pdf
  BY TamanhosValidos DEF Pedidos, Rotas
<1>2. pedido' = [pedido EXCEPT ![c] = p]
  BY DEF Enviar
<1> HIDE DEF p
<1> QED BY <1>1, <1>2, AoMudar

\* Going on to the next step of a request changes the entry of c alone.
LEMMA AoIr ==
    ASSUME DInv, NEW c \in Clientes, NEW q \in {"ler", "rede"}, Ir(c, q)
    PROVE  Mudou(c) /\ pedido'[c].passo = q
<1> DEFINE p == [pedido[c] EXCEPT !.passo = q]
<1>1. pedido[c] \in Pedidos /\ pedido[c].lido = pedido[c].pdf
  BY DEF DInv, NadaTruncado
<1>2. p \in Pedidos /\ p.lido = pedido[c].lido /\ p.pdf = pedido[c].pdf /\ p.passo = q
  BY <1>1 DEF Pedidos
<1>3. pedido' = [pedido EXCEPT ![c] = p] /\ pedido \in [Clientes -> Pedidos]
  BY DEF Ir, DInv
<1> HIDE DEF p
<1> QED BY <1>1, <1>2, <1>3, AoMudar

\* The invariant of the breaker holds before the first request.
LEMMA DInvNoInicio == Init => DInv
<1> SUFFICES ASSUME Init PROVE DInv
  OBVIOUS
<1>1. pedido \in [Clientes -> Pedidos] /\ NadaTruncado
  BY LivreValido DEF Init, NadaTruncado
<1>2. agora = 1 /\ falhas = 0 /\ abertoAte = 0 /\ ~ sondando /\ sondando \in BOOLEAN /\ seguidas = 0
  BY DEF Init, InitDisjuntor
<1>3. Limite \in Nat
  BY DisjuntorValido
<1> QED BY <1>1, <1>2, <1>3 DEF DInv, TiposDoDisjuntor, AbreSoPorIndisponibilidade, SondaTemChamada

\* What an answer of the processor does, whatever its kind.
LEMMA DInvNaResposta ==
    ASSUME DInv, NEW c \in Clientes, agora' = agora, Responder(c),
           \/ Falha /\ Contar(TRUE)
           \/ Sucesso /\ (Contar(FALSE) \/ seguidas' = 0)
    PROVE  DInv'
<1>1. pedido' \in [Clientes -> Pedidos] /\ NadaTruncado'
  <2>1. Mudou(c)
    BY AoResponder DEF DInv
  <2> QED BY <2>1 DEF Mudou, DInv, NadaTruncado
<1>2. ~ sondando'
  BY DEF Falha, Sucesso
<1>3. CASE Falha /\ Contar(TRUE)
  <2>0. /\ falhas \in Nat /\ abertoAte \in Nat /\ agora \in Nat /\ seguidas \in 0 .. Limite
        /\ Limite \in Nat \ {0} /\ Espera \in Nat \ {0}
    BY DisjuntorValido DEF DInv, TiposDoDisjuntor
  <2>1. TiposDoDisjuntor' /\ seguidas' \in 0 .. Limite
    <3>1. falhas' \in Nat /\ sondando' = FALSE
      BY <1>3, <2>0 DEF Falha
    <3>2. abertoAte' \in Nat
      BY <1>3, <2>0 DEF Falha
    <3>3. seguidas' \in 0 .. Limite
      BY <1>3, <2>0 DEF Contar, Menor
    <3> QED BY <3>1, <3>2, <3>3 DEF TiposDoDisjuntor
  <2>2. seguidas' = Limite \/ falhas' =< seguidas'
    BY <1>3, DisjuntorValido DEF DInv, Falha, Contar, Menor, TiposDoDisjuntor, AbreSoPorIndisponibilidade
  <2>3. AbreSoPorIndisponibilidade'
    BY <1>3, DisjuntorValido DEF DInv, Falha, Contar, Menor, TiposDoDisjuntor, AbreSoPorIndisponibilidade
  <2> QED BY <1>1, <1>2, <2>1, <2>2, <2>3 DEF DInv, SondaTemChamada
<1>4. CASE Sucesso /\ (Contar(FALSE) \/ seguidas' = 0)
  <2>1. seguidas' = 0 /\ falhas' = 0 /\ abertoAte' = 0
    BY <1>4 DEF Contar, Sucesso
  <2>2. Limite \in Nat /\ agora' \in Nat /\ sondando' \in BOOLEAN
    BY <1>4, DisjuntorValido DEF DInv, Sucesso
  <2> QED BY <1>1, <1>2, <2>1, <2>2 DEF DInv, SondaTemChamada, TiposDoDisjuntor, AbreSoPorIndisponibilidade
<1> QED BY <1>3, <1>4

\* The steps of a request before its call, none of which touches the breaker.
LEMMA DInvForaDaRede ==
    ASSUME DInv, NEW c \in Clientes, ~ Passo(c, "rede"), agora' = agora,
           UNCHANGED <<falhas, abertoAte, sondando, seguidas>>, Mudou(c)
    PROVE  DInv'
<1>1. NadaTruncado'
  BY DEF DInv, NadaTruncado, Mudou
<1>2. SondaTemChamada'
  BY DEF DInv, SondaTemChamada, Passo, Mudou
<1> QED BY <1>1, <1>2 DEF DInv, TiposDoDisjuntor, AbreSoPorIndisponibilidade, Mudou

\* Every step of a student, of the network and of the clock keeps the invariant of the breaker.
LEMMA DInvNoPasso == DInv /\ [Next]_vars => DInv'
<1> SUFFICES ASSUME DInv, [Next]_vars PROVE DInv'
  OBVIOUS
<1>t. pedido \in [Clientes -> Pedidos]
  BY DEF DInv
<1>1. ASSUME NEW c \in Clientes, PedirLei(c) PROVE DInv'
  <2> DEFINE p == [pedido[c] EXCEPT !.passo = "chamar"]
  <2>1. p \in Pedidos /\ p.lido = p.pdf /\ pedido' = [pedido EXCEPT ![c] = p]
    BY <1>1, <1>t DEF PedirLei, Pedidos, DInv, NadaTruncado
  <2>2. Mudou(c)
    <3> HIDE DEF p
    <3> QED BY <1>t, <2>1, AoMudar
  <2> QED BY <1>1, <2>2, DInvForaDaRede DEF PedirLei, Passo
<1>2. ASSUME NEW c \in Clientes, NEW r \in Rotas, PedirEdital(c, r) PROVE DInv'
  <2>1. CASE Passa(c)
    <3> DEFINE p == [passo |-> "guarda", rota |-> r, pdf |-> 0, lido |-> 0]
    <3>1. p \in Pedidos /\ p.lido = p.pdf /\ pedido' = [pedido EXCEPT ![c] = p]
      BY <1>2, <2>1 DEF PedirEdital, Pedidos
    <3>2. Mudou(c)
      <4> HIDE DEF p
      <4> QED BY <1>t, <3>1, AoMudar
    <3> QED BY <1>2, <3>2, DInvForaDaRede DEF PedirEdital, Passo
  <2>2. CASE ~ Passa(c)
    BY <1>2, <2>2 DEF PedirEdital, DInv, TiposDoDisjuntor, AbreSoPorIndisponibilidade, NadaTruncado,
       SondaTemChamada, Passo
  <2> QED BY <2>1, <2>2
<1>e. ASSUME NEW c \in Clientes, NEW q \in Tamanhos \cup {0}, Enviar(c, q, q) PROVE Mudou(c)
  BY <1>e, <1>t, InteiroAoEnviar
<1>u. ASSUME NEW c \in Clientes, NEW t, NEW pdf \in Tamanhos, NEW e, lerUploadEdital(c, t, pdf, e)
      PROVE  DInv'
  <2>1. Mudou(c)
    <3> DEFINE q == IF t = 0 THEN pdf ELSE 0
    <3>1. Responder(c) \/ Enviar(c, 0, 0) \/ (lerPDF(q).cabe /\ Enviar(c, q, lerPDF(q).lido))
      BY <1>u DEF lerUploadEdital
    <3>2. q \in Tamanhos \cup {0}
      OBVIOUS
    <3> HIDE DEF q
    <3>3. lerPDF(q).cabe => lerPDF(q).lido = q
      BY <3>2, OQueCabeFoiLido
    <3> QED BY <1>t, <1>e, <3>1, <3>2, <3>3, AoResponder
  <2> QED BY <1>u, <2>1, DInvForaDaRede DEF lerUploadEdital, Passo
<1>3. ASSUME NEW c \in Clientes, NEW d, NEW g,
             guardaImport(c) \/ EstruturaEdital(c, d, g) \/ CorpoInvalido(c) \/ ChamarRecusado(c)
      PROVE  DInv'
  <2>1. ~ Passo(c, "rede") /\ agora' = agora /\ UNCHANGED <<falhas, abertoAte, sondando, seguidas>>
    BY <1>3 DEF guardaImport, EstruturaEdital, CorpoInvalido, ChamarRecusado, Passo
  <2>2. Mudou(c)
    <3>1. CASE guardaImport(c)
      BY <3>1, <1>t, AoIr, AoResponder DEF guardaImport
    <3>2. CASE EstruturaEdital(c, d, g)
      BY <3>2, <1>t, <1>e, AoResponder DEF EstruturaEdital
    <3>3. CASE ChamarRecusado(c) \/ CorpoInvalido(c)
      BY <3>3, <1>t, AoResponder DEF ChamarRecusado, CorpoInvalido
    <3> QED BY <1>3, <3>1, <3>2, <3>3
  <2> QED BY <2>1, <2>2, DInvForaDaRede
<1>4. ASSUME NEW c \in Clientes, Chamar(c) PROVE DInv'
  <2>1. Mudou(c) /\ pedido'[c].passo = "rede"
    BY <1>4, AoIr DEF Chamar
  <2>2. NadaTruncado'
    BY <2>1 DEF Mudou, DInv, NadaTruncado
  <2> QED BY <1>4, <2>1, <2>2 DEF Chamar, Permitir, Mudou, DInv, TiposDoDisjuntor,
          AbreSoPorIndisponibilidade, SondaTemChamada, Passo
<1>5. ASSUME NEW c \in Clientes, ChamarSemMontar(c) \/ Resposta(c) PROVE DInv'
  <2>1. agora' = agora /\ Responder(c)
    BY <1>5 DEF ChamarSemMontar, Resposta, RespostaDeErro, SemResposta, RespostaBoa
  <2>2. (Falha /\ Contar(TRUE)) \/ (Sucesso /\ (Contar(FALSE) \/ seguidas' = 0))
    <3>1. CASE ChamarSemMontar(c)
      BY <3>1 DEF ChamarSemMontar
    <3>2. ASSUME NEW t \in BOOLEAN, RespostaDeErro(c, t)
          PROVE  (Falha /\ Contar(TRUE)) \/ (Sucesso /\ Contar(FALSE))
      <4>1. CASE t = TRUE
        BY <3>2, <4>1 DEF RespostaDeErro, registrar, Contar
      <4>2. CASE t = FALSE
        BY <3>2, <4>2 DEF RespostaDeErro, registrar, Contar
      <4> QED BY <4>1, <4>2
    <3>3. CASE SemResposta(c)
      BY <3>3 DEF SemResposta
    <3>4. CASE RespostaBoa(c)
      BY <3>4 DEF RespostaBoa
    <3> QED BY <1>5, <3>1, <3>2, <3>3, <3>4 DEF Resposta
  <2> QED BY <2>1, <2>2, DInvNaResposta
<1>6. CASE Passar
  BY <1>6 DEF Passar, Correr, DInv, TiposDoDisjuntor, AbreSoPorIndisponibilidade, NadaTruncado,
     SondaTemChamada, Passo
<1>7. CASE UNCHANGED vars
  BY <1>7 DEF vars, DInv, TiposDoDisjuntor, AbreSoPorIndisponibilidade, NadaTruncado, SondaTemChamada, Passo
<1> QED BY <1>1, <1>2, <1>u, <1>3, <1>4, <1>5, <1>6, <1>7 DEF Next

\* An edital the processor refuses opens nothing, however many students send it.
THEOREM AbreSempreComCausa == Spec => []AbreSoPorIndisponibilidade
<1>1. DInv => AbreSoPorIndisponibilidade
  BY DEF DInv
<1> QED BY DInvNoInicio, DInvNoPasso, <1>1, PTL DEF Spec

\* The half-open breaker always has the call that will report it.
THEOREM SondaSempreVolta == Spec => []SondaTemChamada
<1>1. DInv => SondaTemChamada
  BY DEF DInv
<1> QED BY DInvNoInicio, DInvNoPasso, <1>1, PTL DEF Spec

\* No PDF reaches the processor cut at the limit of its size.
THEOREM NuncaTruncado == Spec => []NadaTruncado
<1>1. DInv => NadaTruncado
  BY DEF DInv
<1> QED BY DInvNoInicio, DInvNoPasso, <1>1, PTL DEF Spec

-----------------------------------------------------------------------------
(* The types, which need no more than that no bucket was seen in the future. *)

TInv == TypeOK /\ Vistos

\* A bucket refilled and paid from stays between empty and full.
LEMMA TiposAoPermitir ==
    ASSUME TInv, NEW c \in Clientes, permitir(c), agora' = agora
    PROVE  TiposDoLimitador' /\ Vistos'
<1>c. capacidade \in Nat /\ capacidade >= 60 /\ cheio \in Int
  BY Capacidades
<1>t. /\ agora \in Nat /\ DOMAIN baldes \subseteq Clientes
      /\ \A d \in DOMAIN baldes : /\ baldes[d].fichas \in Nat /\ baldes[d].visto \in Nat
                                  /\ baldes[d].fichas =< capacidade /\ baldes[d].visto =< agora
  BY <1>c, RelogioValido DEF TInv, TypeOK, TiposDoLimitador, Vistos
<1>g. /\ DOMAIN Guardados(c) \subseteq DOMAIN baldes
      /\ \A d \in DOMAIN Guardados(c) : Guardados(c)[d] = baldes[d]
  BY DEF Guardados, varrer
<1>f. Fichas(c) \in 0 .. capacidade
  <2>1. \A d \in DOMAIN baldes : Recarga[agora - baldes[d].visto] \in Nat
    BY <1>t, Monotono, RecargaInteira, RecargaZero
  <2> QED BY <1>c, <1>t, <1>g, <2>1 DEF Fichas
<1>n. /\ DOMAIN baldes' = DOMAIN Guardados(c) \cup {c}
      /\ \A d \in DOMAIN Guardados(c) \ {c} : baldes'[d] = baldes[d]
      /\ baldes'[c] = [fichas |-> Fichas(c) - (IF Passa(c) THEN 60 ELSE 0), visto |-> agora]
  BY DEF permitir
<1>p. baldes'[c] \in [fichas : 0 .. capacidade, visto : Nat] /\ baldes'[c].visto = agora
  BY <1>c, <1>t, <1>f, <1>n DEF Passa
<1>2. \A d \in DOMAIN baldes : baldes[d] \in [fichas : 0 .. capacidade, visto : Nat]
  BY DEF TInv, TypeOK, TiposDoLimitador
<1>3. DOMAIN baldes' \subseteq Clientes
  BY <1>t, <1>g, <1>n
<1>4. \A d \in DOMAIN baldes' : baldes'[d] \in [fichas : 0 .. capacidade, visto : Nat]
  BY <1>2, <1>g, <1>n, <1>p
<1>5. Vistos'
  BY <1>t, <1>g, <1>n, <1>p DEF Vistos
<1> QED BY <1>3, <1>4, <1>5 DEF TiposDoLimitador

\* The clock stays within its bound, the rest of the types comes with DInv.
LEMMA TInvNoPasso == TInv /\ DInv' /\ [Next]_vars => TInv'
<1> SUFFICES ASSUME TInv, DInv', [Next]_vars PROVE TInv'
  OBVIOUS
<1>0. ASSUME TiposDoLimitador', Vistos', agora' \in 1 .. MaxAgora PROVE TInv'
  BY <1>0 DEF DInv, TInv, TypeOK
<1>1. ASSUME agora' = agora, UNCHANGED baldes PROVE TInv'
  <2>1. TiposDoLimitador' /\ Vistos' /\ agora' \in 1 .. MaxAgora
    BY <1>1 DEF TInv, TypeOK, TiposDoLimitador, Vistos
  <2> QED BY <1>0, <2>1
<1>2. ASSUME NEW c \in Clientes, NEW r, PedirEdital(c, r) PROVE TInv'
  <2>1. permitir(c) /\ agora' = agora
    BY <1>2 DEF PedirEdital
  <2>2. agora' \in 1 .. MaxAgora
    BY <2>1 DEF TInv, TypeOK
  <2> QED BY <1>0, <2>1, <2>2, TiposAoPermitir
<1>3. CASE Passar
  <2>1. agora < MaxAgora /\ agora' = agora + 1 /\ baldes' = baldes
    BY <1>3 DEF Passar, Correr
  <2>2. agora' \in 1 .. MaxAgora
    BY <2>1, RelogioValido DEF TInv, TypeOK
  <2>3. TiposDoLimitador'
    BY <2>1 DEF TInv, TypeOK, TiposDoLimitador
  <2>4. Vistos'
    BY <2>1, RelogioValido DEF TInv, TypeOK, TiposDoLimitador, Vistos
  <2> QED BY <1>0, <2>2, <2>3, <2>4
<1>4. ASSUME NEW c \in Clientes, NEW t, NEW pdf, NEW e, NEW d, NEW g,
             \/ PedirLei(c) \/ guardaImport(c) \/ lerUploadEdital(c, t, pdf, e)
             \/ EstruturaEdital(c, d, g) \/ CorpoInvalido(c) \/ ChamarRecusado(c) \/ Chamar(c)
             \/ ChamarSemMontar(c) \/ Resposta(c)
      PROVE  TInv'
  BY <1>1, <1>4 DEF PedirLei, guardaImport, lerUploadEdital, EstruturaEdital, CorpoInvalido,
     ChamarRecusado, Chamar, ChamarSemMontar, Resposta, RespostaDeErro, SemResposta, RespostaBoa
<1>5. CASE UNCHANGED vars
  BY <1>1, <1>5 DEF vars
<1> QED BY <1>2, <1>3, <1>4, <1>5 DEF Next

\* The clock, the buckets, the breaker and the requests keep their types,
\* whatever the rate of the limiter is.
THEOREM TiposSempre == Spec => []TypeOK
<1>1. Init => TInv
  BY DInvNoInicio, RelogioValido DEF Init, InitLimitador, DInv, TInv, TypeOK, TiposDoLimitador, Vistos
<1>2. TInv => TypeOK
  BY DEF TInv
<1> QED BY DInvNoInicio, DInvNoPasso, TInvNoPasso, <1>1, <1>2, PTL DEF Spec
=============================================================================
