--------------------------- MODULE MCMapasMentais ---------------------------
(* One map in two editions, of a branch and an item of it, for a discipline *)
(* of two topics, which an edition of the contest may take; a map exported, *)
(* with its study, and one that comes with the app, without.                *)
EXTENDS MapasMentais, TLC

CONSTANTS s1, d1, r1, i1, t1, t2, k1, k2

MCPai == i1 :> r1
Outline(itens) == [slug |-> s1, itens |-> itens, materia |-> {}, reconhecer |-> {t1}]
MCOutlines == {Outline({r1, i1})}
MCArquivos == {k1 :> r1, k2 :> r1}
Exportado == [outline |-> Outline({r1}), questoes |-> k1 :> r1, comEstudo |-> TRUE,
              vinculos |-> {[disciplina |-> d1, temas |-> {t2}]}, respostas |-> {<<k1, 1>>}]
Pronto == [outline |-> Outline({r1, i1}), questoes |-> k1 :> r1, comEstudo |-> FALSE,
           vinculos |-> {}, respostas |-> {}]
MCPacotes == {Exportado, Pronto}
MCEmentas == {d1 :> {t1, t2}, d1 :> {t1}, <<>>}
MCContido == {<<t2, t1>>}

Simetria == Permutations(Abas)
=============================================================================
