----------------------------- MODULE Disjuntor ------------------------------
(***************************************************************************)
(* adapter/editalproc/disjuntor.go: cuts the calls to the processor after  *)
(* Limite failures in a row, for Espera seconds, and then lets one probe   *)
(* through.  Each operation holds the mutex.                               *)
(***************************************************************************)
EXTENDS Relogio

CONSTANTS Limite, Espera

ASSUME DisjuntorValido == Limite \in Nat \ {0} /\ Espera \in Nat \ {0}

VARIABLES
    falhas,      \* failures in a row
    abertoAte,   \* 0 when closed
    sondando     \* has a probe left and not been reported?

disjuntor == <<falhas, abertoAte, sondando>>

InitDisjuntor == falhas = 0 /\ abertoAte = 0 /\ sondando = FALSE

Aberto == abertoAte # 0 /\ agora < abertoAte

\* Asking is not probing.
Fechado == ~ Aberto

Permite == Fechado /\ (abertoAte # 0 => ~ sondando)

Permitir == Permite /\ sondando' = (abertoAte # 0) /\ UNCHANGED <<falhas, abertoAte>>

Sucesso == falhas' = 0 /\ abertoAte' = 0 /\ sondando' = FALSE

\* A probe that fails opens it again at once.
Falha ==
    /\ sondando' = FALSE
    /\ falhas' = IF sondando THEN falhas ELSE falhas + 1
    /\ abertoAte' = IF sondando \/ falhas' >= Limite THEN agora + Espera ELSE abertoAte

TiposDoDisjuntor == falhas \in Nat /\ abertoAte \in Nat /\ sondando \in BOOLEAN
=============================================================================
