-------------------------------- MODULE Leis --------------------------------
(***************************************************************************)
(* The catalogue of laws: a law is captured by the processor, published as *)
(* a version of its text, given questions, answered, linked to the         *)
(* disciplines of a contest and deleted (lei_service.go over lei_repo.go). *)
(* The service reads in one statement and writes in another, so a request  *)
(* has a step for each.  A version is named by its text.                   *)
(***************************************************************************)
EXTENDS Recortes

CONSTANTS
    Abas, Slugs, Disciplinas, Chaves, Nenhuma,
    Temas,       \* the topics of each discipline, see Recortes
    Redacoes,    \* wordings a provision may have
    Pedidos,     \* the recortes people ask for
    Unidades,    \* the provisions at the root of a unit
    Emendas,     \* the provisions the law may gain after it was first captured
    MaxIds, MaxVersoes   \* bounds of the runs

\* A package is a file: it has so many keys.
ASSUME ChavesFinitas == IsFiniteSet(Chaves)

\* What the law has from the start hangs together.
ASSUME EmendasPenduradas ==
    /\ Emendas \subseteq Refs
    /\ \A r \in DOMAIN Pai : Pai[r] \in Emendas => r \in Emendas

VARIABLES
    leis,        \* per slug: the law with its versions, or Nenhuma
    questoes,    \* leis_questoes by id
    respostas,   \* leis_respostas: the questions answered; how is left out
    vinculos,    \* disciplinas_leis: <<discipline, law id>> to the recorte
    pagina,      \* the provisions on the official page today
    captura,     \* the processor: the last capture asked for, which any tab may publish
    aba,         \* per tab: the request between its read and its write
    proximo      \* next id

vars == <<leis, questoes, respostas, vinculos, pagina, captura, aba, proximo>>
banco == <<leis, questoes, respostas, vinculos, proximo>>

Livre == [passo |-> "livre"]

Init ==
    /\ leis = [s \in Slugs |-> Nenhuma]
    /\ questoes = <<>> /\ respostas = {} /\ vinculos = <<>>
    /\ pagina = Refs \ Emendas /\ captura = [estado |-> "nenhuma"]
    /\ aba = [a \in Abas |-> Livre]
    /\ proximo = 1

Existe(s) == leis[s] # Nenhuma
TextoAtivo(s) == leis[s].ativa
Guardado(s) == leis[s].versoes[TextoAtivo(s)].recorte
UnidadesDe(s) == leis[s].versoes[TextoAtivo(s)].unidades
Estrutura(s) == DOMAIN TextoAtivo(s)
Pagina(s) == leis[s].versoes[TextoAtivo(s)].pagina   \* history: where it was taken from

-----------------------------------------------------------------------------
(* Capture and publication.                                                *)

\* The law gains a provision at its source: nobody here is told.
Emendar(x) ==
    /\ x \in Emendas \ pagina
    /\ x \in DOMAIN Pai => Pai[x] \in pagina
    /\ pagina' = pagina \cup {x}
    /\ UNCHANGED <<banco, captura, aba>>

\* What a capture of a law already kept asks for: the new recorte adds to the
\* one kept, and one empty, the whole law, takes in all the others.
PedidoDeCaptura(slug, recorte, inteira) ==
    IF inteira \/ (slug # Nenhuma /\ Guardado(slug) = {}) THEN {}
    ELSE IF slug = Nenhuma THEN recorte ELSE Guardado(slug) \cup recorte

Capturar(a, slug, recorte, inteira) ==
    /\ aba[a] = Livre
    /\ slug # Nenhuma => Existe(slug)
    /\ captura' = [estado |-> "rodando", recorte |-> PedidoDeCaptura(slug, recorte, inteira)]
    /\ UNCHANGED <<banco, pagina, aba>>

\* Of a page the processor keeps what descends from the roots, with their ancestors.
Guardar(recorte, ds) ==
    IF recorte = {} THEN ds
    ELSE {r \in ds : NoRecorte(ds, recorte, r) \/ \E x \in recorte : descende(ds, x, {r})}

\* It finishes with the page and the wording of the day, if the page has all the
\* roots asked for; it may also fail, be blocked or have warnings nobody accepted,
\* and then there is nothing to publish.
CapturaTermina ==
    /\ captura.estado = "rodando"
    /\ LET r == captura.recorte IN
       captura' \in {[estado |-> "nenhuma"]} \cup
           {[estado |-> "pronta", recorte |-> r, pagina |-> pagina,
             texto |-> [y \in Guardar(r, pagina) |-> x]] :
                x \in IF r \subseteq pagina THEN Redacoes ELSE {}}
    /\ UNCHANGED <<banco, pagina, aba>>

ConferirPublicacao(c) == c.estado = "pronta"

\* A new law takes no slug of another; an update carries the units over.
PublicarLer(a, slug, nova) ==
    /\ aba[a] = Livre
    /\ ConferirPublicacao(captura)
    /\ IF nova THEN ~ Existe(slug) ELSE Existe(slug)
    /\ aba' = [aba EXCEPT ![a] =
            [passo |-> "publicar", slug |-> slug, nova |-> nova, texto |-> captura.texto,
             recorte |-> captura.recorte, pagina |-> captura.pagina,
             unidades |-> IF nova THEN <<>> ELSE UnidadesDe(slug)]]
    /\ UNCHANGED <<banco, pagina, captura>>

\* GravarTexto: the slug decides the row, a version kept already is only made
\* active again (with the recorte it had), and the units are replaced.  The page
\* it was taken from is history, for the properties.
ComVersao(versoes, p) ==
    [t \in DOMAIN versoes \cup {p.texto} |->
        IF t # p.texto THEN versoes[t]
        ELSE LET de == IF t \in DOMAIN versoes THEN versoes[t] ELSE p IN
             [recorte |-> de.recorte, pagina |-> de.pagina, unidades |-> p.unidades]]

GravarTexto(a) ==
    LET p == aba[a]
        antes == IF Existe(p.slug) THEN leis[p.slug] ELSE [id |-> proximo, versoes |-> <<>>] IN
    /\ p.passo = "publicar"
    /\ (~ Existe(p.slug) => proximo < MaxIds)
    /\ Cardinality(DOMAIN antes.versoes \cup {p.texto}) =< MaxVersoes
    /\ leis' = [leis EXCEPT ![p.slug] =
            [id |-> antes.id, ativa |-> p.texto, versoes |-> ComVersao(antes.versoes, p)]]
    /\ proximo' = IF Existe(p.slug) THEN proximo ELSE proximo + 1
    /\ aba' = [aba EXCEPT ![a] = Livre]
    /\ UNCHANGED <<questoes, respostas, vinculos, pagina, captura>>

-----------------------------------------------------------------------------
(* Questions.  A package brings units and the questions of each; a unit is *)
(* named by the provision at its root, its hash is the text below it.      *)

HashUnidade(texto, u) == [x \in {y \in DOMAIN texto : descende(DOMAIN texto, y, {u})} |-> texto[x]]

QuestoesDe(id) == {q \in DOMAIN questoes : questoes[q].lei = id}

\* By the key a question keeps its id; the one left out is only deactivated.
PlanejarImportacao(id, pacote) ==
    LET gravadas == QuestoesDe(id)
        daChave(k) == {q \in gravadas : questoes[q].chave = k} IN
    [novas |-> {k \in DOMAIN pacote : daChave(k) = {}},
     atualizadas |-> {q \in gravadas : /\ questoes[q].chave \in DOMAIN pacote
                                       /\ ~ (questoes[q].ativa /\ questoes[q].unidade = pacote[questoes[q].chave])},
     desativar |-> {q \in gravadas : questoes[q].ativa /\ questoes[q].chave \notin DOMAIN pacote}]

\* Validar: the unit of each question comes in the package, its provision is
\* in the text, and no unit carries the hash of another wording.
Validar(texto, unidades, pacote) ==
    /\ \A k \in DOMAIN pacote : pacote[k] \in DOMAIN unidades
    /\ \A u \in DOMAIN unidades : u \in DOMAIN texto /\ unidades[u] = HashUnidade(texto, u)

\* Units written now get the hash of this text; the others bring their own.
ComHash(texto, us, antigas) ==
    [u \in us |-> IF u \in DOMAIN antigas THEN antigas[u] ELSE HashUnidade(texto, u)]

ImportarLer(a, slug, reusa, pacote) ==
    /\ aba[a] = Livre /\ Existe(slug)
    /\ LET texto == TextoAtivo(slug)
           unidades == ComHash(texto, {pacote[k] : k \in DOMAIN pacote}, IF reusa THEN UnidadesDe(slug) ELSE <<>>) IN
       /\ Validar(texto, unidades, pacote)
       /\ aba' = [aba EXCEPT ![a] =
               [passo |-> "importar", lei |-> leis[slug].id, slug |-> slug, versao |-> texto,
                unidades |-> unidades, pacote |-> pacote,
                plano |-> PlanejarImportacao(leis[slug].id, pacote)]]
    /\ UNCHANGED <<banco, pagina, captura>>

NovaQuestao(p, k) == [lei |-> p.lei, chave |-> k, unidade |-> p.pacote[k], ativa |-> TRUE]

\* The bound of the runs leaves room for one new question at a time.
CabeNoLimite(p) == Cardinality(p.plano.novas) =< 1 /\ (p.plano.novas # {} => proximo < MaxIds)

\* The questions after the import, among those that stay.
ComPlano(p, ficam) ==
    [q \in ficam \cup (IF p.plano.novas = {} THEN {} ELSE {proximo}) |->
        IF q = proximo THEN NovaQuestao(p, CHOOSE k \in p.plano.novas : TRUE)
        ELSE IF q \in p.plano.atualizadas THEN NovaQuestao(p, questoes[q].chave)
        ELSE IF q \in p.plano.desativar THEN [questoes[q] EXCEPT !.ativa = FALSE]
        ELSE questoes[q]]

\* Slip: what left the package is deleted, and takes its answers along.
aplicarQuestoes_Apaga(p) ==
    /\ questoes' = ComPlano(p, DOMAIN questoes \ p.plano.desativar)
    /\ respostas' = respostas \ p.plano.desativar
    /\ proximo' = proximo + Cardinality(p.plano.novas)

aplicarQuestoes(p) ==
    /\ questoes' = ComPlano(p, DOMAIN questoes)
    /\ proximo' = proximo + Cardinality(p.plano.novas)
    /\ UNCHANGED respostas

\* GravarQuestoes: the version by its name, active or not; a key that came in
\* between or a law that left undoes the transaction.
GravarQuestoes(a) ==
    LET p == aba[a]
        cabe == /\ Existe(p.slug) /\ leis[p.slug].id = p.lei
                /\ \A q \in QuestoesDe(p.lei) : questoes[q].chave \notin p.plano.novas IN
    /\ p.passo = "importar"
    /\ (cabe => CabeNoLimite(p))
    /\ aba' = [aba EXCEPT ![a] = Livre]
    /\ IF cabe
       THEN /\ leis' = [leis EXCEPT ![p.slug].versoes[p.versao].unidades = p.unidades]
            /\ aplicarQuestoes(p)
       ELSE UNCHANGED <<leis, questoes, respostas, proximo>>
    /\ UNCHANGED <<vinculos, pagina, captura>>

\* Only an active question takes an answer; its row must still be there.
ResponderLer(a, q) ==
    /\ aba[a] = Livre
    /\ q \in DOMAIN questoes /\ questoes[q].ativa
    /\ aba' = [aba EXCEPT ![a] = [passo |-> "responder", questao |-> q]]
    /\ UNCHANGED <<banco, pagina, captura>>

Responder(a) ==
    LET p == aba[a] IN
    /\ p.passo = "responder"
    /\ aba' = [aba EXCEPT ![a] = Livre]
    /\ respostas' = respostas \cup ({p.questao} \cap DOMAIN questoes)
    /\ UNCHANGED <<leis, questoes, vinculos, pagina, captura, proximo>>

-----------------------------------------------------------------------------
(* The law in a contest, and its deletion.                                 *)

VinculoDe(d, s) == vinculos[<<d, leis[s].id>>]
Vinculada(d, s) == Existe(s) /\ <<d, leis[s].id>> \in DOMAIN vinculos

\* Without a recorte it comes from the topics of the discipline; one given
\* must exist; added to the one the discipline had, unless either is all of it.
RefsDoVinculo(d, s, recorte, somar) ==
    LET ds == Estrutura(s)
        refs == IF recorte = Nenhuma THEN RecorteDoEdital(Temas[d], ds) ELSE RaizesNaOrdem(ds, recorte) IN
    IF ~ somar \/ refs = {} \/ ~ Vinculada(d, s) THEN refs
    ELSE IF VinculoDe(d, s) = {} THEN {}
    ELSE RaizesNaOrdem(ds, VinculoDe(d, s) \cup refs)

VincularLer(a, d, s, recorte, somar) ==
    /\ aba[a] = Livre /\ Existe(s)
    /\ recorte # Nenhuma => recorte \subseteq Estrutura(s)
    /\ aba' = [aba EXCEPT ![a] = [passo |-> "vincular", disciplina |-> d, slug |-> s, lei |-> leis[s].id,
                                  refs |-> RefsDoVinculo(d, s, recorte, somar)]]
    /\ UNCHANGED <<banco, pagina, captura>>

Vincular(a) ==
    LET p == aba[a]
        par == <<p.disciplina, p.lei>> IN
    /\ p.passo = "vincular"
    /\ aba' = [aba EXCEPT ![a] = Livre]
    /\ vinculos' = IF Existe(p.slug) /\ leis[p.slug].id = p.lei
                   THEN [v \in DOMAIN vinculos \cup {par} |-> IF v = par THEN p.refs ELSE vinculos[v]]
                   ELSE vinculos
    /\ UNCHANGED <<leis, questoes, respostas, pagina, captura, proximo>>

Sem(tabela, chaves) == [x \in DOMAIN tabela \ chaves |-> tabela[x]]

Desvincular(a, d, s) ==
    /\ aba[a] = Livre /\ Vinculada(d, s)
    /\ vinculos' = Sem(vinculos, {<<d, leis[s].id>>})
    /\ UNCHANGED <<leis, questoes, respostas, pagina, captura, aba, proximo>>

\* The answers first, then the law with all that hangs from it, in one transaction.
Excluir(a, s) ==
    /\ aba[a] = Livre /\ Existe(s)
    /\ respostas' = respostas \ QuestoesDe(leis[s].id)
    /\ leis' = [leis EXCEPT ![s] = Nenhuma]
    /\ questoes' = Sem(questoes, QuestoesDe(leis[s].id))
    /\ vinculos' = Sem(vinculos, {v \in DOMAIN vinculos : v[2] = leis[s].id})
    /\ UNCHANGED <<pagina, captura, aba, proximo>>

\* What the search proposes for a topic, from the page of today and the recorte
\* of the version kept: link that version, or capture more of the law.
Acao(s, t) ==
    LET recorte == LerTema(t, pagina) IN
    IF ~ Existe(s) THEN "importar"
    ELSE IF Guardado(s) = {} THEN "vincular"
    ELSE IF recorte = {} \/ \E r \in recorte : ~ NoRecorte(pagina, Guardado(s), r) THEN "ampliar"
    ELSE "vincular"

\* DoConcurso: the topics of a discipline shown as covered by a law.
Cobertos(d, s) ==
    {t \in Temas[d] : /\ Vinculada(d, s) /\ CitadaEm(t)
                      /\ cobre(Estrutura(s), VinculoDe(d, s), RecorteDoEdital({t}, Estrutura(s)))}

\* What the disciplines of the contest that have the law ask of it: {} is all of it.
RecorteNoConcurso(s) ==
    LET pedidos == {VinculoDe(d, s) : d \in {x \in Disciplinas : Vinculada(x, s)}} IN
    IF {} \in pedidos THEN {} ELSE RaizesNaOrdem(Estrutura(s), UNION pedidos)

\* Ler: the provisions of the law shown to who opens it from the contest.
Ler(s) == {x \in Estrutura(s) : NoRecorte(Estrutura(s), RecorteNoConcurso(s), x)}

\* The routes of the handler, by what they are about.
RotasDoTexto(a) ==
    \/ \E s \in Slugs \cup {Nenhuma}, r \in Pedidos, i \in BOOLEAN : Capturar(a, s, r, i)
    \/ \E s \in Slugs, nova \in BOOLEAN : PublicarLer(a, s, nova)
    \/ GravarTexto(a)
    \/ \E s \in Slugs : Excluir(a, s)

RotasDasQuestoes(a) ==
    \/ \E s \in Slugs, reusa \in BOOLEAN, ks \in SUBSET Chaves : \E pacote \in [ks -> Unidades] :
          ImportarLer(a, s, reusa, pacote)
    \/ GravarQuestoes(a)
    \/ \E q \in DOMAIN questoes : ResponderLer(a, q)
    \/ Responder(a)

RotasDoConcurso(a) ==
    \/ \E d \in Disciplinas, s \in Slugs, r \in Pedidos \cup {Nenhuma}, m \in BOOLEAN : VincularLer(a, d, s, r, m)
    \/ Vincular(a)
    \/ \E d \in Disciplinas, s \in Slugs : Desvincular(a, d, s)

Next ==
    \/ \E a \in Abas : RotasDoTexto(a) \/ RotasDasQuestoes(a) \/ RotasDoConcurso(a)
    \/ CapturaTermina
    \/ \E x \in Emendas : Emendar(x)

Spec == Init /\ [][Next]_vars

-----------------------------------------------------------------------------
\* What a topic asks of the law, in provisions: all of it, or what descends
\* from the roots.
Pede(t, ds) ==
    LET recorte == LerTema(t, ds) IN
    {x \in ds : recorte = {} \/ Linha[x] \cap recorte # {}}

\* When the search says that linking is enough, the version kept lacks nothing of
\* what the topic asks for but what the law gained after the version was captured,
\* whatever was captured, amended, published again or put back before
\* (lei_service.go: "AcaoVincular, a versao guardada ja cobre o topico").
VincularBasta ==
    \A s \in Slugs, d \in Disciplinas : \A t \in Temas[d] :
        Acao(s, t) = "vincular" => Pede(t, pagina) \cap Pagina(s) \subseteq Estrutura(s)

\* A topic shown as covered is covered for who reads: the law opened from the
\* contest shows all that the version kept has of what the topic asks for, after
\* any sum of recortes and any text published over it ("nao basta citar a lei").
CobreDeVerdade ==
    \A s \in Slugs, d \in Disciplinas : \A t \in Cobertos(d, s) : Pede(t, Refs) \cap Estrutura(s) \subseteq Ler(s)

\* An answer is history: importing and publishing again, in whatever order,
\* never take one away nor leave it without its question, only the deletion of
\* its law does (importacao.go: "as respostas a ela continuam sendo historia").
HistoriaFica ==
    [][\A q \in respostas :
          \/ q \in respostas' /\ q \in DOMAIN questoes'
             /\ questoes'[q].chave = questoes[q].chave /\ questoes'[q].lei = questoes[q].lei
          \/ \A s \in Slugs : leis'[s] = Nenhuma \/ leis'[s].id # questoes[q].lei]_vars
=============================================================================
