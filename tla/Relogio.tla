------------------------------ MODULE Relogio -------------------------------
(* The server's clock, in seconds, that the limiter and the breaker read.  *)
EXTENDS Integers

CONSTANT MaxAgora   \* bound of the runs

ASSUME RelogioValido == MaxAgora \in Nat \ {0}

VARIABLE agora

Correr == agora < MaxAgora /\ agora' = agora + 1
=============================================================================
