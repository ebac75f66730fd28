-------------------------- MODULE MCPlanoDoEstudante --------------------------
(* A plan of three subjects, one of them without topics, and a fourth the   *)
(* concurso gains later; an exam three weeks off (or already past).         *)
EXTENDS PlanoDoEstudante

Materia(k, bloco, peso, n, q) ==
    [codigo |-> k, bloco |-> bloco, peso |-> peso, questoesPadrao |-> q,
     temas |-> [i \in 1..n |-> <<k, i>>]]

MCCatalogo == <<Materia("lp", "geral", 1, 3, 6), Materia("adm", "especifico", 2, 7, 5),
                Materia("etica", "especifico", 1, 0, 2), Materia("info", "geral", 1, 2, 1)>>
MCInicial  == {"lp", "adm", "etica"}
MCConcurso == [provaPadrao |-> 24, retaPadraoDias |-> 7, revCiclo |-> <<>>]
MCHoje     == {1, 4, 30}
MCFaltas   == {{}, {2}, {1, 3, 4}}

MCComandos ==
    {[soNaRetaFinal |-> ("etica" :> TRUE)], [soNaRetaFinal |-> ("adm" :> TRUE)],
     [soNaRetaFinal |-> ("etica" :> FALSE) @@ ("info" :> TRUE)],
     [questoes |-> ("adm" :> 0)], [questoes |-> ("lp" :> 9)],
     [reforcos |-> ("etica" :> 300)], [modos |-> ("lp" :> "questoes")],
     [blocosPorDia |-> 3], [blocosPorDia |-> 1], [blocosPorDia |-> 9],
     [prova |-> 13], [prova |-> 33], [diasEstudo |-> {1, 3, 9}], [retaFinalDias |-> 14],
     [revisaoSemanal |-> TRUE, diaRevisao |-> 3],
     [simulados |-> "quinzenal", discursiva |-> FALSE], [simulados |-> ""],
     [minutosRevisao |-> 60, minutosBloco |-> 50]}
=============================================================================
