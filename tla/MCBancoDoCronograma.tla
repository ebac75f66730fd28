------------------------ MODULE MCBancoDoCronograma -------------------------
(* Two activities to start with, or none yet, and fresh ids for new ones.  *)
EXTENDS BancoDoCronograma, TLC

CONSTANTS p1, p2, a1, a2, a3, a4, l1, l2, l3

Materializado == {a1 :> l1 @@ a2 :> l2}
AindaVazio    == {Vazia} \cup Materializado
=============================================================================
