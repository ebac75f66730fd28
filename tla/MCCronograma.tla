---------------------------- MODULE MCCronograma ----------------------------
(***************************************************************************)
(* A plan of one subject and three topics over six days: three days of     *)
(* study, a free day, one day of guided review and the eve of the exam.    *)
(***************************************************************************)
EXTENDS Cronograma

Materia == "direito"
MCTopicos == <<"a", "b", "c">>
MCTopico  == ToSet(MCTopicos)
UmaConfig == {[inicio |-> 1, blocos |-> 1]}
ComecaDepois == {[inicio |-> 1, blocos |-> 2], [inicio |-> 2, blocos |-> 1]}

TipoDoDia == (1 :> "est" @@ 2 :> "est" @@ 3 :> "est" @@ 5 :> "revd" @@ 6 :> "vespera")
FaseDoDia(dt) == IF dt <= 3 THEN "base" ELSE "reta"

\* reparte: one block per topic and then second passes, or, when there are
\* fewer blocks than topics, blocks that join several.
Repartidos(vagas) ==
    LET n == Len(MCTopicos) IN
    [k \in 1 .. vagas |->
        IF vagas >= n
        THEN [partes |-> {MCTopicos[((k - 1) % n) + 1]}, passada |-> IF k <= n THEN 1 ELSE 2]
        ELSE [partes |-> {MCTopicos[i] : i \in (((k - 1) * n) \div vagas) + 1 .. (k * n) \div vagas},
              passada |-> 1]]

Bloco(dt, posicao, disciplina, rotulo, partes, passada) ==
    [data |-> dt, posicao |-> posicao, disciplina |-> disciplina,
     tema |-> [rotulo |-> rotulo, partes |-> partes], passada |-> passada]

BlocosDe(dias, n, disciplina, rotulo) ==
    LET vagas == Repartidos(n * Len(dias)) IN
    [k \in 1 .. n * Len(dias) |->
        Bloco(dias[((k - 1) \div n) + 1], (k - 1) % n, disciplina, rotulo,
              vagas[k].partes, vagas[k].passada)]

PlanoPara(cfg) ==
    LET datas == {dt \in DOMAIN TipoDoDia : dt >= cfg.inicio}
        deTipo(t) == EmSequencia({dt \in datas : TipoDoDia[dt] = t})
    IN  [dias  |-> [dt \in datas |-> [tipo |-> TipoDoDia[dt], fase |-> FaseDoDia(dt)]],
         itens |-> BlocosDe(deTipo("est"), cfg.blocos, Materia, "")
                   \o BlocosDe(deTipo("revd"), cfg.blocos, SemDisciplina, "Dirigida")
                   \o <<Bloco(6, 0, SemDisciplina, "", {}, 1)>>]

MCGerar == [cfg \in [inicio : 1 .. 6, blocos : {1, 2}] |-> PlanoPara(cfg)]
MCCaderno == <<<<Materia, {"b"}>>>>
=============================================================================
