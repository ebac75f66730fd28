----------------------------- MODULE MapasMentais -----------------------------
(***************************************************************************)
(* The mind maps of an account: imported from an outline or a package,     *)
(* linked to the disciplines of a contest, given questions, answered, cut  *)
(* and deleted (mapa_service.go and mapa_exportacao.go over mapa_repo.go). *)
(* A request reads in one statement and writes in another; importing a     *)
(* package is a row of such requests.  An item is named by its text, and   *)
(* hangs on another; the items that hang on none are the branches.         *)
(***************************************************************************)
EXTENDS Integers, FiniteSets

CONSTANTS
    Abas, Nenhum, Slugs, Horas,
    Itens, Pai,          \* the items and, of those that have one, the parent
    Outlines,            \* texts to import: slug, items, materia and reconhecer
    Arquivos,            \* files of questions to import: the branch of each key
    Pacotes,             \* exported maps to import: outline, questions, links and answers
    Ementas,             \* what the contest is edited to: the topics of its disciplines
    Contido,             \* pairs of topics one of which has the words of the other
    MaxMapas, MaxQuestoes   \* bounds of the runs

\* A file has so many questions.
ASSUME ArquivosFinitos ==
    /\ \A f \in Arquivos : IsFiniteSet(DOMAIN f)
    /\ \A p \in Pacotes : IsFiniteSet(DOMAIN p.questoes)

VARIABLES
    ementa,      \* the contest: the topics of each discipline
    mapas,       \* per slug: the map, or Nenhum
    questoes,    \* mapas_questoes by id
    respostas,   \* mapas_respostas: pairs of question and instant
    vinculos,    \* disciplinas_mapas: <<discipline, map id>> to the topics, none being all
    aba,         \* per tab: the request between its read and its write
    proximoMapa, proximaQuestao

vars == <<ementa, mapas, questoes, respostas, vinculos, aba, proximoMapa, proximaQuestao>>
ids == <<proximoMapa, proximaQuestao>>
estudo == <<questoes, respostas>>

Livre == [passo |-> "livre"]

Init ==
    /\ ementa \in Ementas
    /\ mapas = [s \in Slugs |-> Nenhum]
    /\ questoes = <<>> /\ respostas = {} /\ vinculos = <<>>
    /\ aba = [a \in Abas |-> Livre]
    /\ proximoMapa = 1 /\ proximaQuestao = 1

Ramos(itens) == itens \ DOMAIN Pai
Ramo(i) == {i} \cup {x \in DOMAIN Pai : Pai[x] = i}
Existe(s) == mapas[s] # Nenhum
Vivo(id) == \E s \in Slugs : Existe(s) /\ mapas[s].id = id
QuestoesDe(id) == {q \in DOMAIN questoes : questoes[q].mapa = id}
Ativas(id) == {q \in QuestoesDe(id) : questoes[q].ativa}

\* The request of tab a goes on to another step, or ends.
Segue(a, passo) == aba' = [aba EXCEPT ![a] = passo]

-----------------------------------------------------------------------------
(* Topics and links.                                                       *)

TemasCitados(o, temas) == temas \cap o.reconhecer
SugereMateria(o, d, temas) == d \in o.materia \/ TemasCitados(o, temas) # {}

\* The links the text proposes, with their topics.
Sugestoes(o, temasDe) ==
    [d \in {x \in DOMAIN temasDe : SugereMateria(o, x, temasDe[x])} |-> TemasCitados(o, temasDe[d])]

EscolherTemas(escolhidos, temas) == escolhidos \subseteq temas

\* The same topic, or the only one cut another way.
TemaCorrespondente(t, temas) ==
    LET parecidos == {x \in temas : <<t, x>> \in Contido \/ <<x, t>> \in Contido} IN
    IF t \in temas THEN {t} ELSE IF Cardinality(parecidos) = 1 THEN parecidos ELSE {}

\* What a link of a package becomes here: none when its topics are all gone.
Restaurado(v) ==
    IF v.disciplina \notin DOMAIN ementa THEN {}
    ELSE LET achados == UNION {TemaCorrespondente(t, ementa[v.disciplina]) : t \in v.temas} IN
         IF v.temas # {} /\ achados = {} THEN {} ELSE {achados}

\* The topics the screen of the contest shows of a link: without a choice, all,
\* and of those chosen the ones the discipline still has.
DoConcurso(doVinculo, daMateria) == IF doVinculo = {} THEN daMateria ELSE doVinculo \cap daMateria

PodeVincular(d, id) == d \in DOMAIN ementa /\ Vivo(id)
ComVinculo(d, id, temas) ==
    [v \in DOMAIN vinculos \cup {<<d, id>>} |-> IF v = <<d, id>> THEN temas ELSE vinculos[v]]

\* After its text a package goes on with its questions, if it has them, then
\* with its links and its answers.
Continua(id, pacote) ==
    IF pacote = Nenhum THEN Livre
    ELSE [passo |-> IF DOMAIN pacote.questoes = {} THEN "estudo" ELSE "pacote", mapa |-> id, pacote |-> pacote]

-----------------------------------------------------------------------------
(* Importing an outline.                                                   *)

\* A request checks the contest, if one is open, before it writes.
ImportarLer(a, o, aberto) ==
    /\ aba[a] = Livre
    /\ Segue(a, [passo |-> "gravar", outline |-> o, pacote |-> Nenhum,
                 sugestoes |-> IF aberto THEN Sugestoes(o, ementa) ELSE <<>>])
    /\ UNCHANGED <<ementa, mapas, estudo, vinculos, ids>>

\* The branch of each question is one of the map.
ValidarQuestoes(itens, arquivo) == \A k \in DOMAIN arquivo : arquivo[k] \in Ramos(itens)

\* A package brings its own links; one without them is like an outline.
ImportarPacoteLer(a, pacote, aberto) ==
    /\ aba[a] = Livre
    /\ ValidarQuestoes(pacote.outline.itens, pacote.questoes)
    /\ Segue(a, [passo |-> "gravar", outline |-> pacote.outline, pacote |-> pacote,
                 sugestoes |-> IF aberto /\ ~ pacote.comEstudo
                               THEN Sugestoes(pacote.outline, ementa) ELSE <<>>])
    /\ UNCHANGED <<ementa, mapas, estudo, vinculos, ids>>

\* A map whose slug the account has keeps its id: only the items are replaced.
Gravar(a) ==
    LET p == aba[a]
        s == p.outline.slug
        id == IF Existe(s) THEN mapas[s].id ELSE proximoMapa IN
    /\ p.passo = "gravar"
    /\ id =< MaxMapas
    /\ mapas' = [mapas EXCEPT ![s] = [id |-> id, itens |-> p.outline.itens]]
    /\ proximoMapa' = IF Existe(s) THEN proximoMapa ELSE proximoMapa + 1
    /\ Segue(a, IF DOMAIN p.sugestoes = {} THEN Continua(id, p.pacote)
                ELSE [passo |-> "sugerir", mapa |-> id, sugestoes |-> p.sugestoes, pacote |-> p.pacote])
    /\ UNCHANGED <<ementa, estudo, vinculos, proximaQuestao>>

\* A slip: the suggestion is written over the choice.
VinculoSugerido_Sobrescreve(d, id, temas) == ComVinculo(d, id, temas)

\* ON CONFLICT DO NOTHING: a link there is stays as it is.
VinculoSugerido(d, id, temas) ==
    IF <<d, id>> \in DOMAIN vinculos THEN vinculos ELSE ComVinculo(d, id, temas)

\* One statement per discipline; the map or the discipline may be gone, and then
\* the request fails with what it did so far.
SugerirVinculo(a, d) ==
    LET p == aba[a]
        faltam == [x \in DOMAIN p.sugestoes \ {d} |-> p.sugestoes[x]] IN
    /\ p.passo = "sugerir" /\ d \in DOMAIN p.sugestoes
    /\ IF PodeVincular(d, p.mapa)
       THEN /\ vinculos' = VinculoSugerido(d, p.mapa, p.sugestoes[d])
            /\ Segue(a, IF DOMAIN faltam = {} THEN Continua(p.mapa, p.pacote)
                        ELSE [p EXCEPT !.sugestoes = faltam])
       ELSE UNCHANGED vinculos /\ Segue(a, Livre)
    /\ UNCHANGED <<ementa, mapas, estudo, ids>>

-----------------------------------------------------------------------------
(* Questions and answers.                                                  *)

\* By the key a question keeps its id; the one left out is only deactivated.
PlanejarQuestoes(id, arquivo) ==
    LET daChave(k) == {q \in QuestoesDe(id) : questoes[q].chave = k} IN
    [novas |-> {k \in DOMAIN arquivo : daChave(k) = {}},
     atualizadas |-> {q \in QuestoesDe(id) :
            /\ questoes[q].chave \in DOMAIN arquivo
            /\ ~ (questoes[q].ativa /\ questoes[q].ramo = arquivo[questoes[q].chave])},
     desativar |-> {q \in Ativas(id) : questoes[q].chave \notin DOMAIN arquivo}]

Planejada(id, arquivo, pacote, doPacote) ==
    [passo |-> "questoes", mapa |-> id, arquivo |-> arquivo, plano |-> PlanejarQuestoes(id, arquivo),
     pacote |-> pacote, doPacote |-> doPacote]

\* The file is checked against the branches the map has now.
ImportarQuestoesLer(a, s, arquivo) ==
    /\ aba[a] = Livre
    /\ Existe(s) /\ ValidarQuestoes(mapas[s].itens, arquivo)
    /\ Segue(a, Planejada(mapas[s].id, arquivo, Nenhum, Nenhum))
    /\ UNCHANGED <<ementa, mapas, estudo, vinculos, ids>>

\* Those of a package are checked again: its map may have been cut, or deleted,
\* since it was written, and then the package stops half way.
PacoteQuestoesLer(a) ==
    LET p == aba[a]
        s == p.pacote.outline.slug IN
    /\ p.passo = "pacote"
    /\ Segue(a, IF Existe(s) /\ ValidarQuestoes(mapas[s].itens, p.pacote.questoes)
                THEN Planejada(mapas[s].id, p.pacote.questoes, p.pacote, p.mapa) ELSE Livre)
    /\ UNCHANGED <<ementa, mapas, estudo, vinculos, ids>>

NovaQuestao(p, k) == [mapa |-> p.mapa, chave |-> k, ramo |-> p.arquivo[k], ativa |-> TRUE]

\* A slip: the question left out of the file is deleted.
ComQuestoes_Apaga(p, novas) ==
    [q \in (DOMAIN questoes \ p.plano.desativar) \cup DOMAIN novas |->
        IF q \in DOMAIN novas THEN NovaQuestao(p, novas[q]) ELSE questoes[q]]

\* The ids of the new ones follow in any order.
ComQuestoes(p, novas) ==
    LET depois(q) == IF q \in p.plano.atualizadas THEN NovaQuestao(p, questoes[q].chave)
                     ELSE IF q \in p.plano.desativar THEN [questoes[q] EXCEPT !.ativa = FALSE]
                     ELSE questoes[q] IN
    [q \in DOMAIN questoes \cup DOMAIN novas |->
        IF q \in DOMAIN novas THEN NovaQuestao(p, novas[q]) ELSE depois(q)]

\* One transaction: a map gone, or a key another import wrote first, undoes it.
GravarQuestoes(a) ==
    LET p == aba[a]
        n == Cardinality(p.plano.novas)
        ocupadas == {questoes[q].chave : q \in QuestoesDe(p.mapa)} IN
    /\ p.passo = "questoes"
    /\ proximaQuestao + n =< MaxQuestoes + 1
    /\ IF p.plano.novas # {} /\ (~ Vivo(p.mapa) \/ p.plano.novas \cap ocupadas # {})
       THEN UNCHANGED <<questoes, proximaQuestao>> /\ Segue(a, Livre)
       ELSE /\ \E novas \in [proximaQuestao .. proximaQuestao + n - 1 -> p.plano.novas] :
                   /\ {novas[q] : q \in DOMAIN novas} = p.plano.novas
                   /\ questoes' = ComQuestoes(p, novas)
            /\ proximaQuestao' = proximaQuestao + n
            /\ Segue(a, IF p.pacote = Nenhum THEN Livre
                        ELSE [passo |-> "estudo", mapa |-> p.doPacote, pacote |-> p.pacote])
    /\ UNCHANGED <<ementa, mapas, respostas, vinculos, proximoMapa>>

QuestaoDoDono(q) == q \in DOMAIN questoes /\ questoes[q].ativa

\* Only a question on the page is answered, and the answer holds on to it.
ResponderLer(a, q) ==
    /\ aba[a] = Livre
    /\ QuestaoDoDono(q)
    /\ Segue(a, [passo |-> "responder", questao |-> q])
    /\ UNCHANGED <<ementa, mapas, estudo, vinculos, ids>>

Responder(a, h) ==
    LET q == aba[a].questao IN
    /\ aba[a].passo = "responder"
    /\ respostas' = IF q \in DOMAIN questoes THEN respostas \cup {<<q, h>>} ELSE respostas
    /\ Segue(a, Livre)
    /\ UNCHANGED <<ementa, mapas, questoes, vinculos, ids>>

\* The answers of a package go to the questions of the same key on the page.
RestaurarRespostasLer(a) ==
    LET p == aba[a]
        daChave(k) == {q \in Ativas(p.mapa) : questoes[q].chave = k} IN
    /\ p.passo = "respostas"
    /\ Segue(a, [passo |-> "restaurar",
                 respostas |-> UNION {daChave(r[1]) \X {r[2]} : r \in p.pacote.respostas}])
    /\ UNCHANGED <<ementa, mapas, estudo, vinculos, ids>>

\* All or none; the one kept already is not written again.
RestaurarRespostas(a) ==
    LET voltam == aba[a].respostas IN
    /\ aba[a].passo = "restaurar"
    /\ respostas' = IF \A r \in voltam : r[1] \in DOMAIN questoes THEN respostas \cup voltam ELSE respostas
    /\ Segue(a, Livre)
    /\ UNCHANGED <<ementa, mapas, questoes, vinculos, ids>>

-----------------------------------------------------------------------------
(* Links, cuts and deletion.                                               *)

VincularLer(a, d, s, ligar, temas) ==
    /\ aba[a] = Livre
    /\ d \in DOMAIN ementa /\ EscolherTemas(temas, ementa[d]) /\ Existe(s)
    /\ (~ ligar => temas = {})
    /\ Segue(a, [passo |-> "vincular", disciplina |-> d, mapa |-> mapas[s].id, ligar |-> ligar,
                 temas |-> temas, pacote |-> Nenhum])
    /\ UNCHANGED <<ementa, mapas, estudo, vinculos, ids>>

\* A link of a package is written over the one there is.
RestaurarVinculoLer(a) ==
    LET p == aba[a] IN
    /\ p.passo = "estudo"
    /\ IF p.pacote.vinculos = {} THEN Segue(a, [p EXCEPT !.passo = "respostas"])
       ELSE \E v \in p.pacote.vinculos :
            LET resto == [p EXCEPT !.pacote.vinculos = @ \ {v}] IN
            Segue(a, IF Restaurado(v) = {} THEN resto
                     ELSE [passo |-> "vincular", disciplina |-> v.disciplina, mapa |-> p.mapa, ligar |-> TRUE,
                           temas |-> CHOOSE temas \in Restaurado(v) : TRUE, pacote |-> resto.pacote])
    /\ UNCHANGED <<ementa, mapas, estudo, vinculos, ids>>

Vincular(a) ==
    LET p == aba[a]
        v == <<p.disciplina, p.mapa>> IN
    /\ p.passo = "vincular"
    /\ IF p.ligar
       THEN /\ vinculos' = IF PodeVincular(p.disciplina, p.mapa)
                           THEN ComVinculo(p.disciplina, p.mapa, p.temas) ELSE vinculos
            /\ Segue(a, IF p.pacote = Nenhum \/ ~ PodeVincular(p.disciplina, p.mapa) THEN Livre
                        ELSE [passo |-> "estudo", mapa |-> p.mapa, pacote |-> p.pacote])
       ELSE /\ vinculos' = [x \in DOMAIN vinculos \ {v} |-> vinculos[x]]
            /\ Segue(a, Livre)
    /\ UNCHANGED <<ementa, mapas, estudo, ids>>

Contar(itens) == Cardinality(itens)

\* The item goes with what hangs on it, and with a branch, its questions.
SemItem(itens, i) == itens \ Ramo(i)
QuestoesDoRamo(id, i) == {q \in Ativas(id) : questoes[q].ramo = i}

ExcluirItemLer(a, s, i) ==
    /\ aba[a] = Livre
    /\ Existe(s) /\ i \in mapas[s].itens
    /\ Segue(a, [passo |-> "trocar", mapa |-> mapas[s].id, antes |-> Contar(mapas[s].itens),
                 itens |-> SemItem(mapas[s].itens, i),
                 desativar |-> QuestoesDoRamo(mapas[s].id, i)])
    /\ UNCHANGED <<ementa, mapas, estudo, vinculos, ids>>

\* Only the number of items says whether the map changed since.
TrocarItens(a) ==
    LET p == aba[a] IN
    /\ p.passo = "trocar"
    /\ IF \E s \in Slugs : Existe(s) /\ mapas[s].id = p.mapa /\ Contar(mapas[s].itens) = p.antes
       THEN /\ mapas' = [s \in Slugs |-> IF Existe(s) /\ mapas[s].id = p.mapa
                                         THEN [mapas[s] EXCEPT !.itens = p.itens] ELSE mapas[s]]
            /\ questoes' = [q \in DOMAIN questoes |->
                    IF q \in p.desativar THEN [questoes[q] EXCEPT !.ativa = FALSE] ELSE questoes[q]]
       ELSE UNCHANGED <<mapas, questoes>>
    /\ Segue(a, Livre)
    /\ UNCHANGED <<ementa, respostas, vinculos, ids>>

\* The questions, answers and links go with the map.
Excluir(s) ==
    /\ Existe(s)
    /\ mapas' = [mapas EXCEPT ![s] = Nenhum]
    /\ LET ficam == DOMAIN questoes \ QuestoesDe(mapas[s].id) IN
       /\ questoes' = [q \in ficam |-> questoes[q]]
       /\ respostas' = {r \in respostas : r[1] \in ficam}
    /\ vinculos' = [v \in {x \in DOMAIN vinculos : x[2] # mapas[s].id} |-> vinculos[v]]
    /\ UNCHANGED <<ementa, aba, ids>>

\* The contest is edited: a discipline that leaves takes its links.
EditarConcurso(e) ==
    /\ DOMAIN e \subseteq DOMAIN ementa
    /\ ementa' = e
    /\ vinculos' = [v \in {x \in DOMAIN vinculos : x[1] \in DOMAIN e} |-> vinculos[v]]
    /\ UNCHANGED <<mapas, estudo, aba, ids>>

Disciplinas == UNION {DOMAIN e : e \in Ementas}

RotasDoMapa(a) ==
    \/ \E o \in Outlines, aberto \in BOOLEAN : ImportarLer(a, o, aberto)
    \/ \E p \in Pacotes, aberto \in BOOLEAN : ImportarPacoteLer(a, p, aberto)
    \/ Gravar(a)
    \/ \E d \in Disciplinas : SugerirVinculo(a, d)
    \/ \E s \in Slugs, i \in Itens : ExcluirItemLer(a, s, i)
    \/ TrocarItens(a)

RotasDasQuestoes(a) ==
    \/ \E s \in Slugs, f \in Arquivos : ImportarQuestoesLer(a, s, f)
    \/ PacoteQuestoesLer(a) \/ GravarQuestoes(a)
    \/ \E q \in 1 .. MaxQuestoes : ResponderLer(a, q)
    \/ \E h \in Horas : Responder(a, h)
    \/ RestaurarRespostasLer(a) \/ RestaurarRespostas(a)

RotasDoConcurso(a) ==
    \/ \E d \in DOMAIN ementa, s \in Slugs, ligar \in BOOLEAN :
          \E temas \in SUBSET ementa[d] : VincularLer(a, d, s, ligar, temas)
    \/ RestaurarVinculoLer(a) \/ Vincular(a)

Next ==
    \/ \E a \in Abas : RotasDoMapa(a) \/ RotasDasQuestoes(a) \/ RotasDoConcurso(a)
    \/ \E s \in Slugs : Excluir(s)
    \/ \E e \in Ementas : EditarConcurso(e)

Spec == Init /\ [][Next]_vars

-----------------------------------------------------------------------------
(* Properties.                                                             *)

\* The map of link v and its discipline are still there after the step.
Persiste(v) == Vivo(v[2])' /\ v[1] \in DOMAIN ementa'

\* The topics chosen for a map stay as chosen: importing the map again, a file of
\* questions or the edition of the contest do not change what the link shows of
\* the topics there are, only a request to link, or the link of a package, does.
EscolhaFica ==
    [][\A v \in DOMAIN vinculos :
        Persiste(v) /\ ~ (\E a \in Abas : aba[a].passo = "vincular" /\ aba'[a].passo # "vincular")
        => /\ v \in DOMAIN vinculos'
           /\ DoConcurso(vinculos'[v], ementa'[v[1]]) = DoConcurso(vinculos[v], ementa'[v[1]])]_vars

\* An answer is kept, under the key it was given to, for as long as the map is:
\* importing the map or the questions again, and cutting a branch, keep it.
RespostaFica ==
    [][\A r \in respostas, m \in 1 .. MaxMapas :
        questoes[r[1]].mapa = m /\ Vivo(m)' =>
            /\ r \in respostas' /\ r[1] \in DOMAIN questoes'
            /\ questoes'[r[1]].chave = questoes[r[1]].chave]_vars
=============================================================================
