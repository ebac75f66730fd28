------------------------------ MODULE Limites -------------------------------
(***************************************************************************)
(* The limiter before a route, on its own: clients knock, time goes by and *)
(* `aceitas' remembers what was let through.  The two limits of the router *)
(* (httpapi/router.go, LimitesPadrao) are instances of it.                 *)
(***************************************************************************)
EXTENDS Limitador, Sequences

VARIABLE aceitas   \* history: when each accepted request of a client came

varsLimites == <<agora, baldes, aceitas>>

\* 20 a minute for the authentication; what the comment there calls 12 an hour
\* for the editais is 12 * 60 a minute.
LimitesPadrao == [auth   |-> [porMinuto |-> 20,      rajada |-> 10],
                  edital |-> [porMinuto |-> 12 * 60, rajada |-> 4]]

InitLimites == agora = 1 /\ InitLimitador /\ aceitas = [c \in Clientes |-> <<>>]

Middleware(c) ==
    /\ permitir(c)
    /\ aceitas' = IF Passa(c) THEN [aceitas EXCEPT ![c] = Append(@, agora)] ELSE aceitas
    /\ UNCHANGED agora

NextLimites == (\E c \in Clientes : Middleware(c)) \/ (Correr /\ UNCHANGED <<baldes, aceitas>>)

SpecLimites == InitLimites /\ [][NextLimites]_varsLimites

\* No client is let through more than its burst plus what the rate refills, in
\* any stretch of time, although buckets are forgotten in between (the comment
\* of maxBaldes: forgetting a full bucket "nao afrouxa limite nenhum").
TetoPorCliente ==
    \A c \in Clientes : \A i, j \in 1 .. Len(aceitas[c]) :
        i =< j => 60 * (j - i + 1) =< capacidade + Recarga[aceitas[c][j] - aceitas[c][i]]
=============================================================================
