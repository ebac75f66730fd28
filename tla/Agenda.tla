------------------------------- MODULE Agenda -------------------------------
(***************************************************************************)
(* The schedule ("cronograma") as the domain package handles it: the pure  *)
(* functions of backend/internal/domain/plano that rearrange a list of     *)
(* activities.  No state lives here; Cronograma.tla calls these operators  *)
(* the way the services call the Go functions.                             *)
(*                                                                         *)
(* A schedule is a sequence of activities, records with the fields         *)
(*   id, data, posicao   the row, its day and its 0-based place in the day *)
(*   disciplina, tema    the subject and the block's topics, a record of   *)
(*                       `rotulo' ("" or the review label) and `partes'    *)
(*   passada             1 covers the topic, 2 repeats it                  *)
(*   movida, antecipada  placed by hand / studied ahead of its date        *)
(* Days are integers.  `dias' is what the planner says of the calendar: a  *)
(* function from the days of the plan to [tipo, fase].                     *)
(***************************************************************************)
EXTENDS Integers, Sequences, FiniteSets, SequencesExt, FiniteSetsExt

SemDisciplina == "nenhuma"
Reforco       == "Reforco"

-----------------------------------------------------------------------------
(* Filtering and ordering, in the first-order forms the proofs need: what  *)
(* is kept of a sequence is given by its places.                           *)

\* A set of numbers, in increasing order.
EmSequencia(S) ==
    LET vez == {<<Cardinality({y \in S : y <= x}), x>> : x \in S}
    IN  [k \in 1 .. Cardinality(S) |-> CHOOSE x \in S : <<k, x>> \in vez]

\* The elements at the places `escolha', in order.
SubFila(fila, escolha) ==
    LET lugares == EmSequencia(escolha)
    IN  [k \in DOMAIN lugares |-> fila[lugares[k]]]

DataPosicaoMenor(a, b) ==
    \/ a.data < b.data
    \/ a.data = b.data /\ a.posicao < b.posicao

\* Go sorts with SliceStable: ties keep the order of the list.
ordenar(as) ==
    LET antes(i, j) == DataPosicaoMenor(as[i], as[j])
        vez == {<<Cardinality({j \in DOMAIN as : antes(j, i) \/ (~antes(i, j) /\ j <= i)}), i>> :
                   i \in DOMAIN as}
    IN  [k \in DOMAIN as |-> as[CHOOSE i \in DOMAIN as : <<k, i>> \in vez]]

doDia(as, dt) == ordenar(SubFila(as, {i \in DOMAIN as : as[i].data = dt}))

\* Positions 0..n-1 in each of the given days, in place.
renumerar(as, dias) ==
    LET antes(i, j) == /\ as[i].data = as[j].data
                       /\ \/ as[i].posicao < as[j].posicao
                          \/ as[i].posicao = as[j].posicao /\ i < j
    IN  [i \in DOMAIN as |->
            IF as[i].data \in dias
            THEN [as[i] EXCEPT !.posicao = Cardinality({j \in DOMAIN as : antes(j, i)})]
            ELSE as[i]]

\* Positions 0..n-1 in the order of the sequence.
EmOrdem(as) == [i \in DOMAIN as |-> [as[i] EXCEPT !.posicao = i - 1]]

DiasDe(as) == {as[i].data : i \in DOMAIN as}
IdsDe(as)  == {as[i].id : i \in DOMAIN as}
PorID(as, id) == as[CHOOSE i \in DOMAIN as : as[i].id = id]

-----------------------------------------------------------------------------
(* What a day accepts.                                                     *)

DestinoValido(dias, dt) == dt \in DOMAIN dias /\ dias[dt].tipo \in {"est", "revd", "rev"}

\* A finished content day still receives: its flag is derived.  A finished
\* day of any other type is closed.
DestinoBloqueado(dias, dt, concluidos) ==
    dt \in concluidos /\ dt \in DOMAIN dias /\ dias[dt].tipo \notin {"est", "revd"}

faseDe(dias, dt) == IF dt \in DOMAIN dias THEN dias[dt].fase ELSE "base"

\* Slip: the days gone by receive too.
diasQueRecebem_Passado(dias, desde, fase) ==
    EmSequencia({dt \in DOMAIN dias : dias[dt].fase = fase /\ DestinoValido(dias, dt)})

diasQueRecebem(dias, desde, fase) ==
    EmSequencia({dt \in DOMAIN dias :
                    dt >= desde /\ dias[dt].fase = fase /\ DestinoValido(dias, dt)})

\* The day a study session done ahead of time is written on; 0 when none.
DiaDoEstudoFeito(dias, hoje) ==
    LET validos == {dt \in DOMAIN dias : DestinoValido(dias, dt)}
        ateHoje == {dt \in validos : dt <= hoje}
    IN  IF ateHoje # {} THEN Max(ateHoje)
        ELSE IF validos # {} THEN Min(validos) ELSE 0

-----------------------------------------------------------------------------
(* Records of study: registros maps the id of an activity to whether it is *)
(* concluded; an id in its domain has something recorded on it.            *)

Lancada(registros, id)   == id \in DOMAIN registros
Concluida(registros, id) == id \in DOMAIN registros /\ registros[id]

DiasConcluidos(as, registros) ==
    {dt \in DiasDe(as) :
        \A i \in DOMAIN as : as[i].data = dt => Concluida(registros, as[i].id)}

-----------------------------------------------------------------------------
(* Moves asked for by the student.                                         *)

\* Slip: the activities the moved one pushes aside keep their places.
Mover_SemEmpurrar(as, id, destino, posicao) ==
    ordenar([i \in DOMAIN as |->
                IF as[i].id = id
                THEN [as[i] EXCEPT !.data = destino, !.posicao = posicao, !.movida = TRUE]
                ELSE as[i]])

\* `a' takes the given place of a day, or its end.
Encaixar(lista, posicao, a) ==
    EmOrdem(InsertAt(lista, Max({0, Min({posicao, Len(lista)})}) + 1, a))

Mover(as, id, destino, posicao) ==
    LET movida    == [PorID(as, id) EXCEPT !.data = destino, !.movida = TRUE]
        restantes == SubFila(as, {i \in DOMAIN as : as[i].id # id})
    IN  ordenar(renumerar(SubFila(as, {i \in DOMAIN as : as[i].id # id /\ as[i].data # destino})
                              \o Encaixar(doDia(restantes, destino), posicao, movida),
                          {PorID(as, id).data} \ {destino}))

Trocar(as, id, destino, posicao) ==
    LET eu     == PorID(as, id)
        lista  == doDia(as, destino)
        alvo   == lista[posicao + 1].id
        troca(a) ==
            CASE a.id = id   -> [a EXCEPT !.data = destino, !.posicao = posicao, !.movida = TRUE]
              [] a.id = alvo -> [a EXCEPT !.data = eu.data, !.posicao = eu.posicao, !.movida = TRUE]
              [] OTHER       -> a
    IN  IF eu.data = destino /\ eu.posicao = posicao THEN as
        ELSE IF posicao \notin 0 .. Len(lista) - 1 THEN Mover(as, id, destino, posicao)
        ELSE IF alvo = id THEN as
        ELSE ordenar([i \in DOMAIN as |-> troca(as[i])])

\* The study days from `data' on, the chain the content slides along.
cadeiaDe(dias, data, concluidos) ==
    EmSequencia({dt \in DOMAIN dias :
                    dt >= data /\ DestinoValido(dias, dt) /\ dt \notin concluidos})

AdiarDia(as, cadeia) ==
    LET vaiPara(dt)  == CHOOSE k \in DOMAIN cadeia : cadeia[k] = dt
        saem         == {cadeia[k] : k \in 1 .. Len(cadeia) - 1}
        proximo(dt)  == cadeia[vaiPara(dt) + 1]
        saida        == [i \in DOMAIN as |->
                            IF as[i].data \in saem
                            THEN [as[i] EXCEPT !.data = proximo(as[i].data)] ELSE as[i]]
        afetados     == UNION {{dt, proximo(dt)} : dt \in saem \cap DiasDe(as)}
    IN  renumerar(saida, afetados)

AntecipouAtividade(as, id, hoje) ==
    LET origem == PorID(as, id).data
        saida  == [i \in DOMAIN as |->
                      IF as[i].id = id
                      THEN [as[i] EXCEPT !.data = hoje, !.posicao = Len(doDia(as, hoje))]
                      ELSE as[i]]
    IN  IF origem <= hoje THEN as ELSE renumerar(saida, {origem, hoje})

-----------------------------------------------------------------------------
(* Topics already studied.  Only the first pass of a subject's topic is    *)
(* coverage; whole-day activities and second passes repeat by design.      *)

coberta(a) == a.disciplina # SemDisciplina /\ a.passada = 1

Topicos(a) == {<<a.disciplina, p>> : p \in a.tema.partes}

TopicosFeitos(as, registros) ==
    UNION {Topicos(as[i]) : i \in {k \in DOMAIN as :
                coberta(as[k]) /\ Concluida(registros, as[k].id)}}

\* The block without the topics in `feito'.
SemTopicos(a, feito) ==
    [a EXCEPT !.tema.partes = {p \in @ : <<a.disciplina, p>> \notin feito}]

\* The activities the planner proposes, without what is already studied; with
\* nothing studied they stay as they are, a block of no topic among them.
SemConteudoJaConcluido(novas, atuais, registros) ==
    LET feito   == TopicosFeitos(atuais, registros)
        resta(a) == IF coberta(a) THEN SemTopicos(a, feito) ELSE a
    IN  SubFila([i \in DOMAIN novas |-> resta(novas[i])],
                {i \in DOMAIN novas :
                    coberta(novas[i]) /\ feito # {} => ~(Topicos(novas[i]) \subseteq feito)})

\* The activities in order on one day, from the place `base' on.
NoDia(as, dt, base) ==
    [k \in DOMAIN as |-> [as[k] EXCEPT !.data = dt, !.posicao = base + k - 1]]

\* `adiante' joins, at the end of the day `destino', what stays.
ReceberAdiante(as, ficam, adiante, destino) ==
    LET chegam == NoDia(adiante, destino, Len(doDia(ficam, destino))) IN
    IF adiante # <<>>
    THEN [as |-> renumerar(ficam \o [k \in DOMAIN chegam |-> [chegam[k] EXCEPT !.antecipada = TRUE]],
                           DiasDe(adiante) \cup {destino}),
          mudou |-> TRUE]
    ELSE IF ficam # as THEN [as |-> renumerar(ficam, DiasDe(ficam)), mudou |-> TRUE]
    ELSE [as |-> as, mudou |-> FALSE]

\* What is concluded ahead of its date comes to the day it was studied on;
\* the pending first pass of a studied topic leaves.
ArrumarEstudado(as, dias, hoje, registros) ==
    LET destino   == DiaDoEstudoFeito(dias, hoje)
        feito     == TopicosFeitos(as, registros)
        adianta(a) == /\ Concluida(registros, a.id) /\ a.disciplina # SemDisciplina
                      /\ a.data > hoje /\ destino # 0
        pendente(a) == coberta(a) /\ ~Concluida(registros, a.id) /\ a.data >= hoje
        some(a)   == /\ pendente(a) /\ Topicos(a) \subseteq feito
                     /\ ~Lancada(registros, a.id)
        sobra(a)  == IF pendente(a) /\ ~(Topicos(a) \subseteq feito) THEN SemTopicos(a, feito) ELSE a
    IN  ReceberAdiante(as,
            SubFila([i \in DOMAIN as |-> sobra(as[i])],
                    {i \in DOMAIN as : ~adianta(as[i]) /\ ~some(as[i])}),
            ordenar(SubFila(as, {i \in DOMAIN as : adianta(as[i])})), destino)

\* The block with some of its parts.  The label is in the text of the first one.
SoCom(a, partes) ==
    [a EXCEPT !.tema = [rotulo |-> IF (CHOOSE p \in @.partes : TRUE) \in partes THEN @.rotulo ELSE "",
                        partes |-> partes]]

\* One topic of a block becomes an activity of its own, right after it.
SepararTema(as, id, topico, novo) ==
    LET original == PorID(as, id)
        resto    == original.tema.partes \ {topico}
        empurra(a) == IF a.data = original.data /\ a.posicao > original.posicao
                      THEN [a EXCEPT !.posicao = @ + 1] ELSE a
        ajusta(a) == IF a.id = id THEN SoCom(a, resto) ELSE empurra(a)
    IN  IF resto = {} THEN as
        ELSE Append([i \in DOMAIN as |-> ajusta(as[i])],
                    [SoCom(original, {topico}) EXCEPT !.id = novo, !.posicao = original.posicao + 1])

-----------------------------------------------------------------------------
(* Rebuilding the days ahead.                                              *)

\* What is proposed for the days from `desde' on that kept nothing.
\* The proposal numbers the blocks of a day apart, so that every place of these
\* days is free and the search for the next free one moves no block.
Abertas(novas, desde, intocados) ==
    SubFila(novas, {i \in DOMAIN novas : novas[i].data >= desde /\ novas[i].data \notin intocados})

\* Slip: an activity with a record that is not concluded gives way.
Replanejar_SoConcluidas(atuais, novas, desde, registros) ==
    LET fica(a)     == a.data < desde \/ Concluida(registros, a.id) \/ a.movida
        preservadas == SubFila(atuais, {i \in DOMAIN atuais : fica(atuais[i])})
    IN  ordenar(preservadas \o Abertas(novas, desde, DiasDe(preservadas)))

\* The past, what has a record and what was placed by hand stay, and a day
\* that kept anything receives nothing new.
Replanejar(atuais, novas, desde, registros) ==
    LET fica(a)     == a.data < desde \/ Lancada(registros, a.id) \/ a.movida
        preservadas == SubFila(atuais, {i \in DOMAIN atuais : fica(atuais[i])})
    IN  ordenar(preservadas \o Abertas(novas, desde, DiasDe(preservadas)))

SemAtrasadas(as, hoje, registros) ==
    SubFila(as, {i \in DOMAIN as : as[i].data < hoje => Lancada(registros, as[i].id)})

DiasAtrasados(as, hoje, registros) ==
    {as[i].data : i \in {k \in DOMAIN as :
        as[k].data < hoje /\ ~Concluida(registros, as[k].id)}}

\* From `desde' on nothing is placed by hand any more.
SemMovidas(as, desde) ==
    [i \in DOMAIN as |-> IF as[i].data >= desde THEN [as[i] EXCEPT !.movida = FALSE] ELSE as[i]]

-----------------------------------------------------------------------------
(* Compaction: the days are repacked in order from one queue.              *)

CargaNoDia(as, dt) == Cardinality({i \in DOMAIN as : as[i].data = dt})

\* The most common load of a day that has any, the larger one on a tie.
cargaTipica(as, uteis) ==
    LET cargas  == {CargaNoDia(as, dt) : dt \in uteis} \ {0}
        vezes(n) == Cardinality({dt \in uteis : CargaNoDia(as, dt) = n})
    IN  IF cargas = {} THEN 1
        ELSE CHOOSE n \in cargas : \A m \in cargas :
                vezes(m) < vezes(n) \/ (vezes(m) = vezes(n) /\ m <= n)

ancorado(dias, dt, ocupada, concluidos) ==
    dt \in concluidos /\ (ocupada \/ DestinoBloqueado(dias, dt, concluidos))

Chave(a) == <<a.disciplina, a.tema>>

\* Slip: the day takes the end of the queue.
Escolhidas_DoFim(fila, carga) ==
    LET primeiras == {i \in DOMAIN fila : \A j \in 1 .. i - 1 : Chave(fila[j]) # Chave(fila[i])}
    IN  {i \in primeiras : Cardinality({j \in primeiras : j > i}) < carga}

\* The places in the queue one day takes: up to `carga', never a block twice.
Escolhidas(fila, carga) ==
    LET primeiras == {i \in DOMAIN fila : \A j \in 1 .. i - 1 : Chave(fila[j]) # Chave(fila[i])}
    IN  {i \in primeiras : Cardinality({j \in primeiras : j < i}) < carga}

\* Slip: what no day had room for is dropped.
ComSobra_Esquecida(p, ultimo) == p.saida

\* What no day had room for lands on the last one.
ComSobra(p, ultimo) == p.saida \o NoDia(p.fila, ultimo, CargaNoDia(p.saida, ultimo))

\* A day takes the chosen places of the queue.
Encher(p, dt, pega) ==
    [fila  |-> SubFila(p.fila, DOMAIN p.fila \ pega),
     saida |-> p.saida \o NoDia(SubFila(p.fila, pega), dt, 0)]

\* The content of the days `uteis' is repacked over them; the anchored ones
\* keep theirs, and what lies on other days is left alone.
Empacotar(conteudo, uteis, ancoras) ==
    LET ondeEsta(dias) == {i \in DOMAIN conteudo : conteudo[i].data \in dias}
        carga == cargaTipica(conteudo, ToSet(uteis))
        dia(p, dt) == IF dt \in ancoras
                      THEN [p EXCEPT !.saida = @ \o EmOrdem(doDia(conteudo, dt))]
                      ELSE Encher(p, dt, Escolhidas(p.fila, carga))
        passo[k \in 0 .. Len(uteis)] ==
            IF k = 0
            THEN [fila  |-> ordenar(SubFila(conteudo, ondeEsta(ToSet(uteis) \ ancoras))),
                  saida |-> SubFila(conteudo, DOMAIN conteudo \ ondeEsta(ToSet(uteis)))]
            ELSE dia(passo[k - 1], uteis[k])
    IN  ComSobra(passo[Len(uteis)], uteis[Len(uteis)])

\* What was studied ahead of its date goes to the end of its day; the order of
\* the days in the list does not show.
ComAntecipadas(as, fixas, naFase) ==
    LET antes(k)   == Cardinality({j \in 1 .. k - 1 : fixas[j].data = fixas[k].data})
        reposta(k) == IF fixas[k].data \in naFase
                      THEN [fixas[k] EXCEPT !.posicao = CargaNoDia(as, fixas[k].data) + antes(k)]
                      ELSE fixas[k]
    IN  as \o [k \in DOMAIN fixas |-> reposta(k)]

CompactarAtividades(as, dias, desde, concluidos) ==
    LET uteis    == diasQueRecebem(dias, desde, faseDe(dias, desde))
        conteudo == SubFila(as, {i \in DOMAIN as : ~as[i].antecipada})
        fixas    == SubFila(as, {i \in DOMAIN as : as[i].antecipada})
        ancoras  == {dt \in ToSet(uteis) :
                        ancorado(dias, dt, CargaNoDia(conteudo, dt) > 0, concluidos)}
    IN  IF uteis = <<>> THEN as
        ELSE ComAntecipadas(Empacotar(conteudo, uteis, ancoras), ordenar(fixas), ToSet(uteis))

-----------------------------------------------------------------------------
(* Reinforcement on the days compaction left empty.                        *)

\* Each element once, where it first occurs.
Unicos(s) == SubFila(s, {i \in DOMAIN s : \A j \in 1 .. i - 1 : s[j] # s[i]})

\* What the learning phase teaches, in the order it is first taught, with
\* the topics of the error notebook in front.  `itens' are the blocks the
\* planner proposes; labels are dropped.
FilaDeReforco(itens, dias, caderno) ==
    LET base   == SubFila(itens, {i \in DOMAIN itens : /\ dias[itens[i].data].fase = "base"
                                                       /\ itens[i].disciplina # SemDisciplina})
        blocos == [i \in DOMAIN base |-> <<base[i].disciplina, base[i].tema.partes>>]
    IN  Unicos(SubFila(caderno, {i \in DOMAIN caderno : caderno[i] \in ToSet(blocos)}) \o blocos)

reforcosJaUsados(as) == Cardinality({i \in DOMAIN as : as[i].tema.rotulo = Reforco})

\* A reinforcement block is stored without its subject: it has a code but
\* no disciplina_id, and the code is read back through that id.
BlocoDeReforco(id, dt, posicao, bloco) ==
    [id |-> id, data |-> dt, posicao |-> posicao, disciplina |-> SemDisciplina,
     tema |-> [rotulo |-> Reforco, partes |-> bloco[2]], passada |-> 2,
     movida |-> FALSE, antecipada |-> FALSE]

\* Each of the days `vazios' takes `carga' blocks, from where the queue is.
Reforcar(as, fila, vazios, carga, ultimo) ==
    LET cursor   == reforcosJaUsados(as)
        bloco(n) == BlocoDeReforco(ultimo + n, vazios[((n - 1) \div carga) + 1], (n - 1) % carga,
                                   fila[((cursor + n - 1) % Len(fila)) + 1])
    IN  as \o [n \in 1 .. Len(vazios) * carga |-> bloco(n)]

\* `ultimo' is the last id given.
PreencherVazios(as, dias, fila, desde, concluidos, ultimo) ==
    LET uteis == {dt \in ToSet(diasQueRecebem(dias, desde, "base")) : dias[dt].tipo = "est"}
    IN  IF fila = <<>> \/ uteis = {} THEN as
        ELSE Reforcar(as, fila,
                 EmSequencia({dt \in uteis : CargaNoDia(as, dt) = 0 /\ dt \notin concluidos}),
                 Min({cargaTipica(as, uteis), Len(fila)}), ultimo)
=============================================================================
