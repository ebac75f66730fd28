----------------------------- MODULE MCConcursos -----------------------------
(* One contest of up to two disciplines, whose names derive the same tag.   *)
EXTENDS Concursos, TLC

CONSTANTS portugues

MCSiglaDe == portugues :> 1

Simetria == Permutations(Abas) \cup Permutations(Links)
=============================================================================
