--------------------------- MODULE PlanoDoEstudante ---------------------------
(***************************************************************************)
(* The configuration of one student's plan: how a request patches it       *)
(* (service/plano_service.go), what is corrected (domain/plano/config.go), *)
(* how it is stored and read back (adapter/postgres/plano_repo.go), and    *)
(* what the planner proposes and the review queue revisits under every     *)
(* configuration a sequence of requests reaches (Motor.tla,                *)
(* domain/plano/fila_revisao.go).                                          *)
(*                                                                         *)
(* The row of planos and the rows of plano_disciplinas are stored apart:   *)
(* a subject has adjustments only once its number of questions was saved.  *)
(* Subjects come and go with the edits of the concurso (Concursos.tla);    *)
(* here one is added without adjustments, or goes with its own.  What      *)
(* Salvar does to the stored schedule is in Cronograma.tla.                *)
(***************************************************************************)
EXTENDS Motor, TLC

CONSTANTS
    Concurso,    \* [provaPadrao, retaPadraoDias, revCiclo]
    Catalogo,    \* every subject the concurso may have, in order
    Inicial,     \* the codes it has when the plan is born
    Hoje,        \* the days on which the plan may be born
    Comandos,    \* the patches a request may carry
    Faltas,      \* bound: sets of plan days the student did not study
    MaxPedidos   \* bound: requests and edits

VARIABLES
    disciplinas, \* the subjects of the concurso
    linha,       \* the row of planos
    ajustes,     \* the rows of plano_disciplinas, by code
    proposta,    \* what the planner proposes: the days, the blocks of each subject
    pedidos

vars == <<disciplinas, linha, ajustes, proposta, pedidos>>

-----------------------------------------------------------------------------
(* The configuration.                                                      *)

Frequencias == {"nunca", "quinzenal", "semanal"}
BlocosMin       == 1
BlocosMax       == 6
MinutosBlocoMin == 15
MinutosBlocoMax == 240

\* Shares are in hundredths.
ConfigPadrao == [blocosPorDia |-> 2, minutosRevisao |-> 20, revisaoSemanal |-> FALSE,
                 simulados |-> "semanal", discursiva |-> TRUE, pctQuestoes |-> 50,
                 limiarFraco |-> 70]

minutosRevisaoValido(m) == Min({Max({m, 0}), MinutosBlocoMax})
minutosBlocoValido(m)   == IF m <= 0 THEN 0
                           ELSE Min({Max({m, MinutosBlocoMin}), MinutosBlocoMax})

\* The day lasts its blocks and its review, unless no block length was chosen.
horasDiaEfetiva(c) ==
    IF c.minutosBloco <= 0 THEN c.minutosDia
    ELSE c.blocosPorDia * c.minutosBloco + c.minutosRevisao

Dentro(x, a, b, padrao) == IF x \in a..b THEN x ELSE padrao

Normalizar(c) ==
    LET d       == ConfigPadrao
        blocos  == Dentro(c.blocosPorDia, BlocosMin, BlocosMax, d.blocosPorDia)
        metodo  ==
            IF c.simulados = "" THEN [d EXCEPT !.blocosPorDia = blocos,
                                               !.revisaoSemanal = c.revisaoSemanal]
            ELSE [blocosPorDia   |-> blocos,
                  minutosRevisao |-> minutosRevisaoValido(c.minutosRevisao),
                  revisaoSemanal |-> c.revisaoSemanal,
                  simulados      |-> IF c.simulados \in Frequencias THEN c.simulados ELSE d.simulados,
                  discursiva     |-> c.discursiva,
                  pctQuestoes    |-> Dentro(c.pctQuestoes, 10, 90, d.pctQuestoes),
                  limiarFraco    |-> Dentro(c.limiarFraco, 1, 100, d.limiarFraco)]
        corrigida == metodo @@ [minutosBloco |-> minutosBlocoValido(c.minutosBloco)] @@ c
    IN  [corrigida EXCEPT !.minutosDia = horasDiaEfetiva(corrigida)]

ModoDe(c, k) ==
    IF k \in DOMAIN c.modos /\ c.modos[k] \in {"questoes", "teoria"} THEN c.modos[k] ELSE "completo"

-----------------------------------------------------------------------------
(* A request's patch.  A field that did not come stays as it is.           *)

Veio(cmd, campo) == campo \in DOMAIN cmd

diasDaSemanaValidos(dias) == dias \cap (0..6)

\* Slip: a subject the request does not name goes back to the syllabus.
questoesValidas_DoEdital(entrada, atuais, ds) ==
    LET q(d) == IF d.codigo \in DOMAIN entrada THEN Max({entrada[d.codigo], 0}) ELSE d.questoesPadrao
    IN  [k \in Codigos(ds) |-> q(ds[CHOOSE i \in DOMAIN ds : ds[i].codigo = k])]

\* The questions asked for, over the ones the plan has, over the syllabus.
questoesValidas(entrada, atuais, ds) ==
    LET q(d) == CASE d.codigo \in DOMAIN entrada -> Max({entrada[d.codigo], 0})
                  [] d.codigo \in DOMAIN atuais  -> atuais[d.codigo]
                  [] OTHER                       -> d.questoesPadrao
    IN  [k \in Codigos(ds) |-> q(ds[CHOOSE i \in DOMAIN ds : ds[i].codigo = k])]

\* The maps come as patches, and only for subjects the concurso has.
Remendar(atual, cmd, campo, ds) ==
    IF Veio(cmd, campo)
    THEN [k \in DOMAIN cmd[campo] \cap Codigos(ds) |-> cmd[campo][k]] @@ atual
    ELSE atual

aplicarMetodo(cfg, ds, cmd) ==
    LET escalares == {"blocosPorDia", "minutosBloco", "minutosRevisao", "revisaoSemanal",
                      "simulados", "discursiva", "pctQuestoes", "limiarFraco"}
    IN  [f \in {g \in escalares : Veio(cmd, g)} |-> cmd[f]]
        @@ [modos         |-> Remendar(cfg.modos, cmd, "modos", ds),
            reforcos      |-> Remendar(cfg.reforcos, cmd, "reforcos", ds),
            soNaRetaFinal |-> Remendar(cfg.soNaRetaFinal, cmd, "soNaRetaFinal", ds)]
        @@ cfg

todasNaRetaFinal(cfg, ds) == \A k \in Codigos(ds) : NaRetaFinal(cfg, k)

Remendada(cfg, ds, cmd) ==
    LET datas == [f \in {g \in {"inicio", "prova", "minutosDia"} : Veio(cmd, g)} |-> cmd[f]]
        ritmo == [diasEstudo    |-> IF Veio(cmd, "diasEstudo")
                                    THEN diasDaSemanaValidos(cmd.diasEstudo) ELSE cfg.diasEstudo,
                  diaRevisao    |-> IF Veio(cmd, "diaRevisao")
                                    THEN Min({Max({cmd.diaRevisao, 0}), 6}) ELSE cfg.diaRevisao,
                  retaFinalDias |-> IF Veio(cmd, "retaFinalDias")
                                    THEN Max({cmd.retaFinalDias, 0}) ELSE cfg.retaFinalDias,
                  questoes      |-> IF Veio(cmd, "questoes")
                                    THEN questoesValidas(cmd.questoes, cfg.questoes, ds)
                                    ELSE cfg.questoes]
    IN  aplicarMetodo(datas @@ ritmo @@ cfg, ds, cmd)

\* What makes the request an error of the student's.
Recusada(nova, ds) == \/ nova.inicio >= nova.prova
                      \/ nova.diasEstudo = {}
                      \/ ds # <<>> /\ todasNaRetaFinal(nova, ds)

-----------------------------------------------------------------------------
(* Storing and reading.                                                    *)

PorDisciplina == {"questoes", "modos", "reforcos", "soNaRetaFinal"}

\* The configuration as the next request reads it.
Carregada ==
    [questoes      |-> [k \in DOMAIN ajustes |-> ajustes[k].questoes],
     modos         |-> [k \in DOMAIN ajustes |-> ajustes[k].modo],
     reforcos      |-> [k \in DOMAIN ajustes |-> ajustes[k].reforco],
     soNaRetaFinal |-> [k \in {j \in DOMAIN ajustes : ajustes[j].adiada} |-> TRUE]] @@ linha

\* The rows of plano_disciplinas are replaced: one for each subject that has a
\* number of questions and is still in the concurso.
Linhas(cfg, ds) ==
    [k \in DOMAIN cfg.questoes \cap Codigos(ds) |->
        [questoes |-> cfg.questoes[k], modo |-> ModoDe(cfg, k),
         reforco |-> ReforcoDe(cfg, k), adiada |-> NaRetaFinal(cfg, k)]]

SemDisciplinas(cfg) == [f \in DOMAIN cfg \ PorDisciplina |-> cfg[f]]

Gravar(cfg, ds) == linha' = SemDisciplinas(cfg) /\ ajustes' = Linhas(cfg, ds)

\* The configuration a plan is born with.
configPadrao(ds, hoje) ==
    LET prova == Concurso.provaPadrao
    IN  Normalizar([inicio |-> IF hoje < prova THEN hoje ELSE prova - 30, prova |-> prova,
                    diasEstudo |-> 1..5, diaRevisao |-> 5,
                    retaFinalDias |-> Concurso.retaPadraoDias, minutosDia |-> 120, minutosBloco |-> 60,
                    questoes |-> [k \in Codigos(ds) |->
                                     ds[CHOOSE i \in DOMAIN ds : ds[i].codigo = k].questoesPadrao],
                    modos |-> <<>>, reforcos |-> <<>>, soNaRetaFinal |-> <<>>] @@ ConfigPadrao)

-----------------------------------------------------------------------------
\* Every answer and every reading generates the proposal anew: p is the one for
\* the configuration and the subjects given.
Montada(p, cfg, ds) ==
    Gerar(p, Normalizar(cfg), [disciplinas |-> ds, revCiclo |-> Concurso.revCiclo])

Pode == pedidos < MaxPedidos /\ pedidos' = pedidos + 1

\* PlanoService.Salvar, up to the schedule.
Salvar(cmd) ==
    /\ Pode
    /\ \E cfg \in {Remendada(Carregada, disciplinas, cmd)} :
          /\ ~Recusada(cfg, disciplinas)
          /\ Gravar(Normalizar(cfg), disciplinas)
          /\ Montada(proposta', cfg, disciplinas)
    /\ UNCHANGED disciplinas

\* The concurso gains a subject: the plan has no row for it.
Acrescentar(d) ==
    /\ Pode
    /\ d.codigo \notin Codigos(disciplinas)
    /\ disciplinas' = Append(disciplinas, d)
    /\ Montada(proposta', Carregada, disciplinas')
    /\ UNCHANGED <<linha, ajustes>>

\* The concurso loses a subject, and the plan the row (ON DELETE CASCADE).
Remover(k) ==
    /\ Pode
    /\ k \in Codigos(disciplinas)
    /\ Len(disciplinas) > 1
    /\ disciplinas' = SelectSeq(disciplinas, LAMBDA d : d.codigo # k)
    /\ ajustes' = [j \in DOMAIN ajustes \ {k} |-> ajustes[j]]
    /\ Montada(proposta', Carregada, disciplinas')
    /\ UNCHANGED linha

Init ==
    /\ disciplinas = SelectSeq(Catalogo, LAMBDA d : d.codigo \in Inicial)
    /\ \E hoje \in Hoje :
          LET cfg == configPadrao(disciplinas, hoje)
          IN  /\ linha = SemDisciplinas(cfg)
              /\ ajustes = Linhas(cfg, disciplinas)
              /\ Montada(proposta, cfg, disciplinas)
    /\ pedidos = 0

Next == \/ \E cmd \in Comandos : Salvar(cmd)
        \/ \E i \in DOMAIN Catalogo : Acrescentar(Catalogo[i])
        \/ \E i \in DOMAIN Catalogo : Remover(Catalogo[i].codigo)

Spec == Init /\ [][Next]_vars

-----------------------------------------------------------------------------
(* The review queue.                                                       *)

temasPorRevisao(cfg) ==
    IF cfg.minutosRevisao <= 0 THEN 0 ELSE Min({Max({cfg.minutosRevisao \div 10, 1}), 6})

\* Slip: a topic of another subject ends the batch and loses its turn.
proximaLevaRevisao_PulaATroca(fila, cursor, porDia) ==
    LET lugar(k) == ((cursor + k - 2) % Len(fila)) + 1
        cabe(k)  == \A j \in 1..k : fila[lugar(j)].disciplina = fila[lugar(1)].disciplina
        leva     == {k \in 1..Min({porDia, Len(fila)}) : cabe(k)}
    IN  [lugares |-> [k \in leva |-> lugar(k)], cursor |-> lugar(Max(leva)) + 2]

\* The next places of the queue from cursor on, around its end, while they are
\* of one subject.
proximaLevaRevisao(fila, cursor, porDia) ==
    LET lugar(k) == ((cursor + k - 2) % Len(fila)) + 1
        cabe(k)  == \A j \in 1..k : fila[lugar(j)].disciplina = fila[lugar(1)].disciplina
        leva     == {k \in 1..Min({porDia, Len(fila)}) : cabe(k)}
    IN  [lugares |-> [k \in leva |-> lugar(k)], cursor |-> lugar(Max(leva)) + 1]

\* For each day of the learning phase, the places of the queue it revisits; the
\* queue holds what was studied on the days before, the missed ones left out.
FilaRevisao(dias, porDia, faltas) ==
    LET base    == {i \in DOMAIN dias : \A j \in 1..i : dias[j].fase # "reta"}
        novos(d) == [x \in DOMAIN d.itens |->
                        [disciplina |-> d.itens[x].disciplina, tema |-> d.itens[x].tema,
                         diaEstudo |-> d.n]]
        feitos(d) == IF d.n \in faltas THEN <<>> ELSE novos(d)
        dia(st, d) ==
            LET leva == IF st.fila = <<>> THEN [lugares |-> <<>>, cursor |-> st.cursor]
                        ELSE proximaLevaRevisao(st.fila, st.cursor, porDia)
            IN  [fila |-> st.fila \o feitos(d), cursor |-> leva.cursor,
                 levas |-> Append(st.levas, [lugares |-> leva.lugares, havia |-> Len(st.fila)])]
        passo[i \in 0..Cardinality(base)] ==
            IF i = 0 THEN [fila |-> <<>>, cursor |-> 1, levas |-> <<>>] ELSE dia(passo[i - 1], dias[i])
    IN  IF porDia <= 0 THEN [fila |-> <<>>, levas |-> <<>>]
        ELSE LET fim == passo[Cardinality(base)] IN [fila |-> fim.fila, levas |-> fim.levas]

-----------------------------------------------------------------------------
(* Properties.                                                             *)

TemasDosDias(dias, tipo, k) ==
    UNION {ToSet(dias[i].itens[x].tema) : <<i, x>> \in
              {<<i, x>> \in (DOMAIN dias) \X (1..BlocosMax) :
                  dias[i].tipo = tipo /\ x \in DOMAIN dias[i].itens /\ dias[i].itens[x].disciplina = k}}

BlocosCom(dias, t) ==
    {<<i, x>> \in (DOMAIN dias) \X (1..BlocosMax) :
        x \in DOMAIN dias[i].itens /\ t \in ToSet(dias[i].itens[x].tema)}

\* Whatever the weights, the days and the postponed subjects, a subject that
\* gets any block in a phase has every one of its topics taught in that phase:
\* none falls between the grouping, the order, the swaps and the days.
TopicoEntra ==
    LET p == proposta
    IN  \A i \in DOMAIN disciplinas :
            LET k  == disciplinas[i].codigo
                ts == ToSet(TemasDe(disciplinas[i]))
            IN  /\ p.slots[k] > 0     => ts = TemasDosDias(p.dias, "est", k)
                /\ p.slotsReta[k] > 0 => ts = TemasDosDias(p.dias, "revd", k)

\* A postponed subject is studied in the reta final for the first and only
\* time: none of its topics comes before, none comes twice, and together the
\* postponed ones leave the others at least half of the reta final.
AdiadaUmaVez ==
    LET p       == proposta
        adiadas == {k \in Codigos(disciplinas) : NaRetaFinal(Carregada, k)}
        blocos  == Len(SelectSeq(p.dias, LAMBDA d : d.tipo = "revd")) * linha.blocosPorDia
    IN  /\ \A i \in DOMAIN disciplinas : disciplinas[i].codigo \in adiadas =>
              /\ TemasDosDias(p.dias, "est", disciplinas[i].codigo) = {}
              /\ \A t \in ToSet(TemasDe(disciplinas[i])) : Cardinality(BlocosCom(p.dias, t)) <= 1
        /\ adiadas # Codigos(disciplinas) => 2 * SumFunctionOnSet(p.slotsReta, adiadas) <= blocos

\* The review goes round what was studied and skips nothing: between two visits
\* to a topic, everything that was in the queue at the first one is revisited,
\* whatever days the student missed; and a day revisits one subject.
VoltaSemPular ==
    LET dias == proposta.dias
    IN  \A faltas \in Faltas :
          LET r == FilaRevisao(dias, temasPorRevisao(linha), faltas)
              visitas == FlattenSeq([i \in DOMAIN r.levas |->
                            [k \in DOMAIN r.levas[i].lugares |->
                               [lugar |-> r.levas[i].lugares[k], havia |-> r.levas[i].havia]]])
          IN  /\ \A i \in DOMAIN r.levas : Cardinality({r.fila[l].disciplina :
                    l \in ToSet(r.levas[i].lugares)}) <= 1
              /\ \A x, y \in DOMAIN visitas :
                    x < y /\ visitas[x].lugar = visitas[y].lugar =>
                        1..visitas[x].havia \subseteq {visitas[z].lugar : z \in x..y}

\* A request that adjusts some subjects leaves every other one as it was stored.
Nomeadas(cmd) == UNION {DOMAIN cmd[f] : f \in PorDisciplina \cap DOMAIN cmd}

OutrosAjustesFicam ==
    [][\A cmd \in Comandos : Salvar(cmd) =>
          \A k \in (DOMAIN ajustes \cap Codigos(disciplinas)) \ Nomeadas(cmd) :
              k \in DOMAIN ajustes' /\ ajustes'[k] = ajustes[k]]_vars
=============================================================================
