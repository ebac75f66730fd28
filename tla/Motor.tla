--------------------------------- MODULE Motor ---------------------------------
(***************************************************************************)
(* The planner of backend/internal/domain/plano (plano.go, motor.go): from *)
(* the student's configuration and the subjects of the concurso, the days  *)
(* of the plan and what each one holds.  It is pure, so this module has    *)
(* operators only; PlanoDoEstudante.tla gives it the configurations the    *)
(* program can be in.                                                      *)
(*                                                                         *)
(* A day is a number whose remainder by 7 is the weekday (0 is Sunday), a  *)
(* topic is a value, and a block holds the sequence of topics the code     *)
(* joins into one string.  A reinforcement is in hundredths.  Go compares  *)
(* remainders as float64: two that are equal as fractions may there differ *)
(* in the last bit, here they keep the order of the syllabus.              *)
(***************************************************************************)
EXTENDS Integers, SequencesExt

Codigos(disciplinas) == {disciplinas[i].codigo : i \in DOMAIN disciplinas}

\* A map lookup in the code gives 0 for a missing key.
Ou0(f, k) == IF k \in DOMAIN f THEN f[k] ELSE 0

Onde(codes, k) == CHOOSE i \in DOMAIN codes : codes[i] = k

-----------------------------------------------------------------------------
(* The calendar.                                                           *)

weekday(t)  == t % 7
mondayOf(t) == t - ((weekday(t) + 6) % 7)

\* The study days up to the eve of the exam, which is always the last one.
DiasDoPlano(cfg) ==
    LET vesp    == cfg.prova - 1
        datas   == SelectSeq([i \in 1..Max({cfg.prova - cfg.inicio, 1}) |-> cfg.inicio + i - 1],
                             LAMBDA t : weekday(t) \in cfg.diasEstudo /\ t # vesp)
        semana(t) == (t - mondayOf(cfg.inicio)) \div 7 + 1
    IN  [i \in DOMAIN datas |-> [data |-> datas[i], semana |-> semana(datas[i]), vespera |-> FALSE]]
        \o <<[data |-> vesp, semana |-> semana(vesp), vespera |-> TRUE]>>

\* A week is of the reta final when its first day is.
FaseDaSemana(cfg, dias, s) ==
    LET primeiro == Min({dias[i].data : i \in {j \in DOMAIN dias : dias[j].semana = s}})
    IN  IF primeiro >= cfg.prova - Max({7, cfg.retaFinalDias}) THEN "reta" ELSE "base"

Conteudo(dias, s) ==
    SelectSeq([i \in DOMAIN dias |-> i], LAMBDA i : dias[i].semana = s /\ ~dias[i].vespera)

querSimulado(cfg, semanaReta) ==
    CASE cfg.simulados = "nunca"     -> FALSE
      [] cfg.simulados = "quinzenal" -> semanaReta % 2 = 1
      [] OTHER                       -> TRUE

\* A week of the learning phase: all study, but for the weekly review.
atribuiBase(cfg, dias, conteudo, i) ==
    LET noDia == SelectInSeq(conteudo, LAMBDA j : weekday(dias[j].data) = cfg.diaRevisao)
        rev   == IF noDia = 0 THEN Last(conteudo) ELSE conteudo[noDia]
    IN  IF cfg.revisaoSemanal /\ i = rev THEN "rev" ELSE "est"

\* A week of the reta final: from the end, the mock exam and then the essay.
atribuiReta(cfg, conteudo, semanaReta, i) ==
    LET temSim == querSimulado(cfg, semanaReta)
        disc   == IF temSim THEN Len(conteudo) - 1 ELSE Len(conteudo)
    IN  CASE temSim /\ i = Last(conteudo)             -> "sim"
          [] cfg.discursiva /\ i = Ou0(conteudo, disc) -> "disc"
          [] OTHER                                     -> "revd"

\* What each day is for.
atribuiFases(cfg, dias) ==
    LET semanas == {dias[i].semana : i \in {j \in DOMAIN dias : ~dias[j].vespera}}
        retas   == {s \in semanas : FaseDaSemana(cfg, dias, s) = "reta"}
        papel(i) ==
            LET s == dias[i].semana
            IN  IF s \in retas
                THEN atribuiReta(cfg, Conteudo(dias, s), Cardinality({r \in retas : r <= s}), i)
                ELSE atribuiBase(cfg, dias, Conteudo(dias, s), i)
    IN  [i \in 1..(Len(dias) - 1) |-> papel(i)] \o <<"vespera">>

filterPapel(papeis, papel) == SelectSeq([i \in DOMAIN papeis |-> i], LAMBDA i : papeis[i] = papel)

-----------------------------------------------------------------------------
(* How many blocks each subject gets.                                      *)

NaRetaFinal(cfg, k) == k \in DOMAIN cfg.soNaRetaFinal /\ cfg.soNaRetaFinal[k]

ReforcoMin == 25
ReforcoMax == 300
ReforcoDe(cfg, k) == LET r == Ou0(cfg.reforcos, k)
                     IN  IF r = 0 THEN 100 ELSE Min({Max({r, ReforcoMin}), ReforcoMax})

pesosDistribuicao(codes, pontos, cfg) ==
    [k \in ToSet(codes) |-> pontos[k] * ReforcoDe(cfg, k)]

\* The largest remainder: total blocks over codes, in proportion to pontos.
distribui(total, codes, pontos) ==
    LET ks      == ToSet(codes)
        soma    == SumFunctionOnSet(pontos, ks)
        piso(k) == IF soma = 0 THEN 0 ELSE (total * pontos[k]) \div soma
        rem(k)  == IF soma = 0 THEN 0 ELSE (total * pontos[k]) % soma
        sobra   == total - SumFunction([k \in ks |-> piso(k)])
        antes(k) == {j \in ks : \/ rem(j) > rem(k)
                                \/ rem(j) = rem(k) /\ Onde(codes, j) < Onde(codes, k)}
    IN  [k \in ks |-> piso(k) + (IF Cardinality(antes(k)) < sobra THEN 1 ELSE 0)]

semAsDaRetaFinal(cfg, codes) == SelectSeq(codes, LAMBDA k : ~NaRetaFinal(cfg, k))
asDaRetaFinal(cfg, codes)    == SelectSeq(codes, LAMBDA k : NaRetaFinal(cfg, k))

\* Slip: the postponed subjects may take the whole reta final.
distribuiReta_SemTeto(total, codes, dist, temas, cfg) ==
    LET adiadas == asDaRetaFinal(cfg, codes)
        pedidos == [k \in ToSet(adiadas) |-> Max({Len(temas[k]), 1})]
        slots   == IF SumFunction(pedidos) > total THEN distribui(total, adiadas, pedidos) ELSE pedidos
    IN  slots @@ distribui(total - SumFunction(slots), semAsDaRetaFinal(cfg, codes), dist)

\* The reta final: a block for each topic of the postponed subjects, up to half
\* of it when there are others, and the rest by weight.
distribuiReta(total, codes, dist, temas, cfg) ==
    LET adiadas == asDaRetaFinal(cfg, codes)
        outras  == semAsDaRetaFinal(cfg, codes)
        pedidos == [k \in ToSet(adiadas) |-> Max({Len(temas[k]), 1})]
        teto    == IF outras = <<>> THEN total ELSE total \div 2
        slots   == IF SumFunction(pedidos) > teto THEN distribui(teto, adiadas, pedidos) ELSE pedidos
    IN  slots @@ distribui(total - SumFunction(slots), outras, dist)

\* Slip: each group but the last loses its last topic.
reparte_SemOUltimo(temas, vagas) ==
    LET n == Len(temas)
    IN  IF vagas >= n
        THEN [i \in 1..vagas |-> [tema    |-> <<temas[((i - 1) % n) + 1]>>,
                                  passada |-> IF i <= n THEN 1 ELSE 2]]
        ELSE [j \in 1..vagas |-> [tema    |-> SubSeq(temas, ((j - 1) * n) \div vagas + 1,
                                                     (j * n) \div vagas - (IF j < vagas THEN 1 ELSE 0)),
                                  passada |-> 1]]

\* The topics of a subject over its blocks: repeated in a second pass when
\* there is room, grouped when there is not.
reparte(temas, vagas) ==
    LET n == Len(temas)
    IN  IF vagas >= n
        THEN [i \in 1..vagas |-> [tema    |-> <<temas[((i - 1) % n) + 1]>>,
                                  passada |-> IF i <= n THEN 1 ELSE 2]]
        ELSE [j \in 1..vagas |-> [tema    |-> SubSeq(temas, ((j - 1) * n) \div vagas + 1,
                                                     (j * n) \div vagas),
                                  passada |-> 1]]

-----------------------------------------------------------------------------
(* The order of the blocks.                                                *)

\* Each round every subject with blocks left earns its points, and the richest
\* (the first of them) pays the sum and takes the place.
ordena(slots, pontos, codes) ==
    LET ks   == ToSet(codes)
        soma == SumFunctionOnSet(pontos, ks)
        escolhe(cred, vivos) == CHOOSE k \in vivos : \A j \in vivos \ {k} :
            cred[k] > cred[j] \/ (cred[k] = cred[j] /\ Onde(codes, k) < Onde(codes, j))
        rodada[st \in [cred : [ks -> Int], restam : [DOMAIN slots -> Nat], ordem : Seq(ks)]] ==
            LET vivos == {k \in ks : st.restam[k] > 0}
                cred  == [k \in ks |-> st.cred[k] + (IF k \in vivos THEN pontos[k] ELSE 0)]
                esc   == escolhe(cred, vivos)
            IN  [cred   |-> [cred EXCEPT ![esc] = @ - soma],
                 restam |-> [st.restam EXCEPT ![esc] = @ - 1],
                 ordem  |-> Append(st.ordem, esc)]
        passo[i \in 0..SumFunctionOnSet(slots, ks)] ==
            IF i = 0 THEN [cred |-> [k \in ks |-> 0], restam |-> slots, ordem |-> <<>>]
                     ELSE rodada[passo[i - 1]]
    IN  passo[SumFunctionOnSet(slots, ks)].ordem

\* The places of the day that holds place i, n blocks to a day.
DiaDe(ordem, n, i) ==
    LET inicio == ((i - 1) \div n) * n + 1 IN inicio..Min({inicio + n - 1, Len(ordem)})

NoDia(ordem, n, i) == {ordem[p] : p \in DiaDe(ordem, n, i)}

\* The places after the day of i whose subject that day lacks, in a day that
\* lacks the subject of i.
Trocaveis(ordem, n, i) ==
    {j \in (Max(DiaDe(ordem, n, i)) + 1)..Len(ordem) :
        ordem[j] \notin NoDia(ordem, n, i) /\ ordem[i] \notin NoDia(ordem, n, j)}

Trocar(ordem, i, j) == [ordem EXCEPT ![i] = ordem[j], ![j] = ordem[i]]

mesmoConjunto(ordem, a, b) ==
    LET vezes(ps, k) == Cardinality({p \in ps : ordem[p] = k})
    IN  /\ Cardinality(a) = Cardinality(b)
        /\ \A k \in {ordem[p] : p \in a} : vezes(a, k) = vezes(b, k)

\* Two days running do not hold the same subjects, when a swap can help it.
desrepeteDias(ordem, n) ==
    LET arruma[ord \in Seq(ToSet(ordem)), g \in Nat] ==
            LET dia   == DiaDe(ord, n, g * n + 1)
                podem == {i \in dia : Trocaveis(ord, n, i) # {}}
            IN  IF mesmoConjunto(ord, DiaDe(ord, n, g * n), dia) /\ podem # {}
                THEN LET i == Min(podem) IN Trocar(ord, i, Min(Trocaveis(ord, n, i)))
                ELSE ord
        passo[g \in 0..((Len(ordem) - 1) \div n)] ==
            IF g = 0 THEN ordem ELSE arruma[passo[g - 1], g]
    IN  IF Len(ordem) <= n THEN ordem ELSE passo[(Len(ordem) - 1) \div n]

\* A day does not hold a subject twice, when a swap can help it.
despareia(ordem, n) ==
    LET arruma[ord \in Seq(ToSet(ordem)), i \in Nat] ==
            IF /\ \E p \in DiaDe(ord, n, i) : p < i /\ ord[p] = ord[i]
               /\ Trocaveis(ord, n, i) # {}
            THEN Trocar(ord, i, Min(Trocaveis(ord, n, i)))
            ELSE ord
        passo[i \in 0..Len(ordem)] == IF i = 0 THEN ordem ELSE arruma[passo[i - 1], i]
    IN  desrepeteDias(IF n < 2 THEN ordem ELSE passo[Len(ordem)], n)

\* The blocks of the d-th of a phase's days: the k-th place of a subject takes
\* its k-th queued topic.  A postponed subject is not revised, it is studied.
puxaBloco(ordem, n, filas, d, emRevisao) ==
    LET lugares == SelectSeq([i \in DOMAIN ordem |-> i], LAMBDA i : (i - 1) \div n = d - 1)
        item(i) ==
            LET k   == ordem[i]
                vez == Cardinality({p \in 1..i : ordem[p] = k})
                da  == IF vez <= Len(filas[k]) THEN filas[k][vez]
                                               ELSE [tema |-> <<"livre">>, passada |-> 1]
            IN  [disciplina |-> k, tema |-> da.tema, passada |-> da.passada,
                 revisao |-> k \in emRevisao]
    IN  [x \in DOMAIN lugares |-> item(lugares[x])]

-----------------------------------------------------------------------------
(* The plan.                                                               *)

metaEstudo == 20
metaRevD   == 24
RevCicloPadrao == <<30, 60, 0, 45>>      \* questions of each weekly review

simulado(cfg, disciplinas) ==
    LET doBloco(b) == {i \in DOMAIN disciplinas : (disciplinas[i].bloco = "geral") = b}
        questoes   == [i \in DOMAIN disciplinas |-> Ou0(cfg.questoes, disciplinas[i].codigo)]
    IN  [gerais       |-> SumFunctionOnSet(questoes, doBloco(TRUE)),
         especificas  |-> SumFunctionOnSet(questoes, doBloco(FALSE))]

\* Weeks numbered 1, 2, ... with no gaps.
renumera(dias, i) == Cardinality({dias[j].semana : j \in 1..i})

\* Each day with what it holds.
Preenchidos(cfg, concurso, dias, papeis, doEstudo, daReta) ==
    LET sim   == simulado(cfg, concurso.disciplinas)
        ciclo == IF concurso.revCiclo = <<>> THEN RevCicloPadrao ELSE concurso.revCiclo
        vez(i) == Cardinality({j \in 1..i : papeis[j] = papeis[i]})
        itens(i) ==
            CASE papeis[i] = "est"  -> puxaBloco(doEstudo.ordem, cfg.blocosPorDia, doEstudo.filas,
                                                 vez(i), {})
              [] papeis[i] = "revd" -> puxaBloco(daReta.ordem, cfg.blocosPorDia, daReta.filas,
                                                 vez(i), {k \in ToSet(daReta.ordem) : ~NaRetaFinal(cfg, k)})
              [] OTHER              -> <<>>
        meta(i) ==
            CASE papeis[i] = "est"  -> metaEstudo
              [] papeis[i] = "revd" -> metaRevD
              [] papeis[i] = "sim"  -> sim.gerais + sim.especificas
              [] papeis[i] = "rev"  -> ciclo[((dias[i].semana - 1) % Len(ciclo)) + 1]
              [] OTHER              -> 0
        fase(i) == IF dias[i].vespera THEN "reta" ELSE FaseDaSemana(cfg, dias, dias[i].semana)
    IN  [i \in 1..Len(dias) |->
            [n |-> i, data |-> dias[i].data, semana |-> renumera(dias, i), fase |-> fase(i),
             tipo |-> papeis[i], itens |-> itens(i), meta |-> meta(i)]] \o <<>>

\* The blocks of one phase: the topics each subject queues and the order.
Fila(codes, temas, slots) == [k \in ToSet(codes) |-> reparte(temas[k], slots[k])]

\* p is the plan built from them.  Each stage is bound to the one value it has.
construir(p, cfg, concurso, codes, temas, pontos) ==
    LET blocos(papeis, papel) == Len(filterPapel(papeis, papel)) * cfg.blocosPorDia
        semBlocos             == [k \in ToSet(codes) |-> 0]
    IN  \E dist \in {pesosDistribuicao(codes, pontos, cfg)}, base \in {semAsDaRetaFinal(cfg, codes)},
           dias \in {DiasDoPlano(cfg)} :
        \E papeis \in {atribuiFases(cfg, dias)} :
        \E slots \in {distribui(blocos(papeis, "est"), base, dist) @@ semBlocos},
           slotsReta \in {IF base = codes THEN distribui(blocos(papeis, "revd"), codes, dist)
                          ELSE distribuiReta(blocos(papeis, "revd"), codes, dist, temas, cfg)} :
        \E ordem \in {ordena(slots, dist, base)},
           ordemR \in {ordena(slotsReta, IF base = codes THEN dist ELSE slotsReta, codes)} :
        \E doEstudo \in {[filas |-> Fila(codes, temas, slots), ordem |-> despareia(ordem, cfg.blocosPorDia)]},
           daReta \in {[filas |-> Fila(codes, temas, slotsReta), ordem |-> despareia(ordemR, cfg.blocosPorDia)]} :
        p = [dias      |-> Preenchidos(cfg, concurso, dias, papeis, doEstudo, daReta),
             slots     |-> slots,
             slotsReta |-> slotsReta]

\* A subject with no topics is studied by its name.
TemasDe(d) == IF d.temas = <<>> THEN <<<<d.codigo, 0>>>> ELSE d.temas

\* p is the proposal for a configuration, normalized already.
Gerar(p, cfg, concurso) ==
    LET da(codes, k) == concurso.disciplinas[Onde(codes, k)]
    IN  \E codes \in {[i \in DOMAIN concurso.disciplinas |-> concurso.disciplinas[i].codigo]} :
        \E temas \in {[k \in ToSet(codes) |-> TemasDe(da(codes, k))]},
           pontos \in {[k \in ToSet(codes) |-> Ou0(cfg.questoes, k) * da(codes, k).peso]} :
        construir(p, cfg, concurso, codes, temas, pontos)
=============================================================================
