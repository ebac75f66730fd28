----------------------------- MODULE Limitador ------------------------------
(***************************************************************************)
(* platform/middleware/limitador.go: a bucket of tokens per client.  A     *)
(* token is 60 parts and a second refills PorMinuto of them, so that the   *)
(* float64 of the code is an integer here.                                 *)
(***************************************************************************)
EXTENDS Relogio, FiniteSets

CONSTANTS Clientes, PorMinuto, Rajada, MaxBaldes

ASSUME LimitadorValido == PorMinuto \in Nat \ {0} /\ Rajada \in Nat \ {0} /\ MaxBaldes \in Nat

VARIABLE baldes   \* the buckets kept, by client: [fichas, visto]

capacidade == 60 * Rajada

\* What so many seconds refill.
Recarga == [s \in Int |-> PorMinuto * s]

\* The time to refill, rounded down to whole seconds.
cheio == capacidade \div PorMinuto

\* Whoever has not been seen for that long is forgotten.
varrer == [c \in {d \in DOMAIN baldes : agora - baldes[d].visto < cheio} |-> baldes[c]]

\* Only a client not seen yet makes room; when nobody can go, the table grows.
Guardados(c) ==
    IF c \notin DOMAIN baldes /\ Cardinality(DOMAIN baldes) >= MaxBaldes THEN varrer ELSE baldes

\* What the bucket of c holds by now.
Fichas(c) ==
    LET g == Guardados(c)
        repostas == g[c].fichas + Recarga[agora - g[c].visto] IN
    IF c \notin DOMAIN g \/ repostas > capacidade THEN capacidade ELSE repostas

Passa(c) == Fichas(c) >= 60

permitir(c) ==
    baldes' = [d \in DOMAIN Guardados(c) \cup {c} |->
                  IF d = c THEN [fichas |-> Fichas(c) - (IF Passa(c) THEN 60 ELSE 0), visto |-> agora]
                           ELSE baldes[d]]

InitLimitador == baldes = <<>>

TiposDoLimitador ==
    /\ DOMAIN baldes \subseteq Clientes
    /\ \A c \in DOMAIN baldes : baldes[c] \in [fichas : 0 .. capacidade, visto : Nat]
=============================================================================
