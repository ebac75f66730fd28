------------------------------- MODULE MCLeis -------------------------------
(* One law: a chapter with one article, and another article after it.  The  *)
(* topics of the discipline name the law, its chapter, and two articles.    *)
EXTENDS Leis, TLC

CONSTANTS cap, art1, art2, d1

MCPai == art1 :> cap
MCTitulo == [r \in Refs |-> IF r = cap THEN {"fiscalizacao"} ELSE {}]
Pedaco(cita, artigos, palavras) == [cita |-> cita, artigos |-> artigos, palavras |-> palavras]

MCTemas == d1 :> {{Pedaco(TRUE, {}, {"lei"})},
                  {Pedaco(TRUE, {}, {"lei"}), Pedaco(FALSE, {}, {"fiscalizacao", "contabil"})},
                  {Pedaco(TRUE, {art1, art2}, {"lei"})}}
MCPedidos == {{}, {cap}}

Simetria == Permutations(Abas)
=============================================================================
