------------------------------ MODULE Concursos ------------------------------
(***************************************************************************)
(* The contest a student registers: its disciplines, with the schedule and *)
(* the study history that point to them, and the milestones of its notice, *)
(* with the ticks of the plan (concurso_service.go over concurso_repo.go). *)
(* The form comes whole and replaces the contest.  The service reads the   *)
(* contest in one statement and saves it in a transaction later.  A tag is *)
(* a number, in the order the numbered tags of a name are tried.           *)
(***************************************************************************)
EXTENDS Integers, Sequences, FiniteSets

CONSTANTS
    Abas, Nenhum,
    Nova, SemTag,        \* a discipline without id, and one without tag
    Tags, Nomes,         \* tags a student may choose, and names
    SiglaDe,             \* the tag derived from a name
    Links,               \* what the links of a discipline may be
    Titulos,             \* the milestones
    MaxMaterias, MaxMarcos, MaxIds, MaxConcursos   \* bounds of the runs

\* No id is the absent one.
ASSUME NenhumValido == Nenhum \notin Nat /\ Nova \notin Nat

VARIABLES
    concurso,    \* the id of the contest, or Nenhum
    materias,    \* its rows of disciplinas by id: tag, name and links
    marcos,      \* its rows of marcos, by ordem
    agendadas,   \* disciplines with activities in the cronograma
    estudadas,   \* disciplines with a study record: their activities are RESTRICTed
    cumpridos,   \* marco_checks: the rows of marcos ticked
    aba,         \* per tab: the request between its read and its write
    proximo, concursos,   \* ids given so far
    perdidas     \* history: disciplines a form kept, whose schedule the save took

vars == <<concurso, materias, marcos, agendadas, estudadas, cumpridos, aba, proximo, concursos, perdidas>>
plano == <<agendadas, estudadas, cumpridos>>
cadastro == <<concurso, materias, marcos, proximo, concursos>>

Livre == [passo |-> "livre"]

Init ==
    /\ concurso = Nenhum /\ materias = <<>> /\ marcos = <<>>
    /\ agendadas = {} /\ estudadas = {} /\ cumpridos = {}
    /\ aba = [a \in Abas |-> Livre]
    /\ proximo = 1 /\ concursos = 0
    /\ perdidas = {}

-----------------------------------------------------------------------------
(* The form.                                                               *)

Linhas == [id : 1 .. MaxIds \cup {Nova}, tag : Tags \cup {SemTag}, nome : Nomes, links : Links]

\* The page sends each discipline once, and a contest has at least one.
Formularios ==
    {l \in UNION {[1 .. n -> Linhas] : n \in 1 .. MaxMaterias} :
        \A i, j \in DOMAIN l : i # j => l[i].id = Nova \/ l[i].id # l[j].id}

Ids(lista) == {lista[i].id : i \in DOMAIN lista} \ {Nova}

\* A slip: every save makes new disciplines.
preservarIdentidade_Regrava(lista, tags) == [i \in DOMAIN lista |-> [lista[i] EXCEPT !.id = Nova]]

\* A discipline keeps its id, and without a tag the tag it had; an id that is
\* not of this contest is a new discipline.
preservarIdentidade(lista, tags) ==
    [i \in DOMAIN lista |->
        IF lista[i].id \notin DOMAIN tags THEN [lista[i] EXCEPT !.id = Nova]
        ELSE IF lista[i].tag # SemTag THEN lista[i]
        ELSE [lista[i] EXCEPT !.tag = tags[lista[i].id]]]

CodigoUnico(nome, usados) ==
    CHOOSE t \in SiglaDe[nome] .. SiglaDe[nome] + Cardinality(usados) :
        t \notin usados /\ SiglaDe[nome] .. t - 1 \subseteq usados

\* Who comes without a tag gets one nobody has.
atribuirCodigos(lista) ==
    LET tagDe(l, usados) == IF l.tag # SemTag THEN l.tag ELSE CodigoUnico(l.nome, usados)
        usados[i \in 0 .. Len(lista)] ==
            IF i = 0 THEN {lista[j].tag : j \in DOMAIN lista} \ {SemTag}
            ELSE usados[i - 1] \cup {tagDe(lista[i], usados[i - 1])} IN
    [i \in DOMAIN lista |-> [lista[i] EXCEPT !.tag = tagDe(lista[i], usados[i - 1])]]

Normalizar(lista) == atribuirCodigos(lista)

Validar(lista) ==
    /\ lista # <<>>
    /\ \A i, j \in DOMAIN lista : lista[i].tag = lista[j].tag => i = j

-----------------------------------------------------------------------------
(* Saving it.  The statements of gravarDisciplinas run in order: each line *)
(* of the form is inserted or updated, and then the rows left out go.      *)

\* UNIQUE (concurso_id, codigo) is checked at each statement: a row that comes
\* later in the form, or that will be removed, still has its tag.
RepeteTag(lista, linhas) ==
    \E i \in DOMAIN lista :
        /\ lista[i].id \in {Nova} \cup DOMAIN linhas
        /\ \E x \in DOMAIN linhas \ {lista[j].id : j \in 1 .. i} : linhas[x].tag = lista[i].tag

\* A row removed meanwhile is updated by nobody; its topics find no row.
SemALinha(lista, linhas, temas) == temas /\ ~ Ids(lista) \subseteq DOMAIN linhas

Saem(lista, linhas) == DOMAIN linhas \ Ids(lista)

IdDe(lista, i) ==
    IF lista[i].id # Nova THEN lista[i].id
    ELSE proximo + Cardinality({j \in 1 .. i - 1 : lista[j].id = Nova})

gravarDisciplinas(lista, linhas) ==
    LET gravadas == {i \in DOMAIN lista : lista[i].id \in {Nova} \cup DOMAIN linhas}
        linhaDe(x) == CHOOSE i \in gravadas : IdDe(lista, i) = x IN
    [x \in {IdDe(lista, i) : i \in gravadas} |->
        LET l == lista[linhaDe(x)] IN [tag |-> l.tag, nome |-> l.nome, links |-> l.links]]

\* A slip: the study records go first, as in Remover.
Recusada_ComoRemover(lista, linhas, temas) == RepeteTag(lista, linhas) \/ SemALinha(lista, linhas, temas)

\* An activity with a study record holds its discipline.
Recusada(lista, linhas, temas) ==
    \/ RepeteTag(lista, linhas)
    \/ SemALinha(lista, linhas, temas)
    \/ Saem(lista, linhas) \cap estudadas # {}

\* The rows of marcos are overwritten by position, and the last ones go.
gravarMarcos(lista) ==
    /\ marcos' = lista
    /\ cumpridos' = cumpridos \cap DOMAIN lista

Cabe(lista) == proximo + Cardinality({i \in DOMAIN lista : lista[i].id = Nova}) =< MaxIds + 1

gravarFilhos(lista, datas) ==
    /\ Cabe(lista)
    /\ materias' = gravarDisciplinas(lista, materias)
    /\ proximo' = proximo + Cardinality({i \in DOMAIN lista : lista[i].id = Nova})
    /\ agendadas' = agendadas \cap DOMAIN materias'
    /\ UNCHANGED estudadas
    /\ gravarMarcos(datas)

-----------------------------------------------------------------------------
(* The requests.                                                           *)

Inserir(lista, datas) ==
    /\ concurso = Nenhum /\ concursos < MaxConcursos
    /\ concursos' = concursos + 1
    /\ concurso' = concursos'
    /\ gravarFilhos(lista, datas)

\* The slug is drawn up to three times; with none free the request is refused.
Criar(form, datas) ==
    /\ Ids(form) = {} /\ Validar(Normalizar(form))
    /\ Inserir(Normalizar(form), datas)
    /\ UNCHANGED <<aba, perdidas>>

\* What of the contest read the update goes by.
Disciplinas == [x \in DOMAIN materias |-> materias[x].tag]
carregar == [id |-> concurso, tags |-> Disciplinas]

\* The form was filled before: it only names disciplines there were.
AtualizarLer(a) ==
    /\ aba[a] = Livre /\ concurso # Nenhum
    /\ aba' = [aba EXCEPT ![a] = [passo |-> "atualizar", atual |-> carregar, ate |-> proximo]]
    /\ UNCHANGED <<cadastro, plano, perdidas>>

Mantidas(lista) == Ids(lista) \cap agendadas

Atualizar(a, form, datas) ==
    LET p == aba[a]
        lista == Normalizar(preservarIdentidade(form, p.atual.tags)) IN
    /\ p.passo = "atualizar"
    /\ Ids(form) \subseteq 1 .. p.ate - 1
    /\ \E temas \in IF Ids(lista) \subseteq DOMAIN materias THEN {FALSE} ELSE BOOLEAN :
       IF concurso # p.atual.id \/ ~ Validar(lista) \/ Recusada(lista, materias, temas)
       THEN UNCHANGED <<cadastro, plano, perdidas>>
       ELSE /\ gravarFilhos(lista, datas)
            /\ perdidas' = perdidas \cup (Mantidas(form) \ agendadas')
            /\ UNCHANGED <<concurso, concursos>>
    /\ aba' = [aba EXCEPT ![a] = Livre]

RemoverLer(a) ==
    /\ aba[a] = Livre /\ concurso # Nenhum
    /\ aba' = [aba EXCEPT ![a] = [passo |-> "remover", id |-> concurso]]
    /\ UNCHANGED <<cadastro, plano, perdidas>>

\* The study records first, and then the contest, with all that hangs on it.
Remover(a) ==
    /\ aba[a].passo = "remover"
    /\ IF concurso = aba[a].id
       THEN /\ concurso' = Nenhum /\ materias' = <<>> /\ marcos' = <<>>
            /\ agendadas' = {} /\ estudadas' = {} /\ cumpridos' = {}
       ELSE UNCHANGED <<concurso, materias, marcos, plano>>
    /\ aba' = [aba EXCEPT ![a] = Livre]
    /\ UNCHANGED <<proximo, concursos, perdidas>>

\* The links, from the cronograma, by the tag.
DefinirLinks(tag, l) ==
    /\ \E x \in DOMAIN materias : materias[x].tag = tag
    /\ materias' = [x \in DOMAIN materias |->
            IF materias[x].tag = tag THEN [materias[x] EXCEPT !.links = l] ELSE materias[x]]
    /\ UNCHANGED <<concurso, marcos, proximo, concursos, plano, aba, perdidas>>

\* The plan schedules a discipline, and the student studies it and ticks or
\* unticks a milestone.
Agendar(x) ==
    /\ x \in DOMAIN materias
    /\ agendadas' = agendadas \cup {x}
    /\ UNCHANGED <<cadastro, estudadas, cumpridos, aba, perdidas>>

Estudar(x) ==
    /\ x \in agendadas
    /\ estudadas' = estudadas \cup {x}
    /\ UNCHANGED <<cadastro, agendadas, cumpridos, aba, perdidas>>

MarcarMarco(n) ==
    /\ n \in DOMAIN marcos
    /\ cumpridos' \in {cumpridos \cup {n}, cumpridos \ {n}}
    /\ UNCHANGED <<cadastro, agendadas, estudadas, aba, perdidas>>

Datas == {s \in UNION {[1 .. n -> Titulos] : n \in 0 .. MaxMarcos} :
            \A i, j \in DOMAIN s : s[i] = s[j] => i = j}

RotasDoConcurso ==
    \/ \E form \in Formularios, datas \in Datas : Criar(form, datas)
    \/ \E a \in Abas : AtualizarLer(a) \/ RemoverLer(a) \/ Remover(a)
    \/ \E a \in Abas, form \in Formularios, datas \in Datas : Atualizar(a, form, datas)

Next ==
    \/ RotasDoConcurso
    \/ \E t \in Tags, l \in Links : DefinirLinks(t, l)
    \/ \E x \in 1 .. MaxIds : Agendar(x) \/ Estudar(x)
    \/ \E n \in 1 .. MaxMarcos : MarcarMarco(n)

Spec == Init /\ [][Next]_vars

-----------------------------------------------------------------------------
(* Properties.                                                             *)

\* Saving a form does not take the schedule of a discipline it kept, whatever
\* the new name and tag of it are and whatever another tab saved meanwhile.
AgendadoFica == perdidas = {}

\* A discipline with study history is only removed with the whole contest: a
\* form without it, even an old one, is refused.
EstudoFica == [][concurso' = concurso => estudadas \subseteq estudadas' \cap DOMAIN materias']_vars

\* Found false: the tick is of the milestone: one kept by the edition of the contest keeps
\* its tick (the comment of gravarMarcos).
Cumprido(t) == \E n \in cumpridos : marcos[n] = t
CumpridoDoMesmoMarco ==
    [][marcos' # marcos /\ concurso' = concurso =>
        \A t \in Titulos : /\ \E n \in DOMAIN marcos : marcos[n] = t
                           /\ \E n \in DOMAIN marcos' : marcos'[n] = t
                           => (Cumprido(t) <=> Cumprido(t)')]_vars
=============================================================================
