------------------------- MODULE MapasMentais_proofs -------------------------
(***************************************************************************)
(* What is proved of the mind maps, for any account, files and packages:   *)
(* an answer is kept for as long as its map is, and the topics chosen for  *)
(* a map stay as chosen.  The invariant is that ids are given once, so     *)
(* that what a request or a link has in hand is either the row it saw or   *)
(* gone for good, and that answers hang on questions there are.            *)
(***************************************************************************)
EXTENDS MapasMentais, FiniteSetTheorems, TLAPS

\* Ids are given once, and answers hang on questions there are.
Identidades ==
    /\ proximoMapa \in Nat \ {0} /\ proximaQuestao \in Nat \ {0}
    /\ DOMAIN mapas = Slugs
    /\ \A s \in Slugs : Existe(s) => DOMAIN mapas[s] = {"id", "itens"} /\ mapas[s].id \in 1 .. proximoMapa - 1
    /\ \A s, z \in Slugs : Existe(s) /\ Existe(z) /\ mapas[s].id = mapas[z].id => s = z
    /\ DOMAIN questoes \subseteq 1 .. proximaQuestao - 1
    /\ \A q \in DOMAIN questoes : DOMAIN questoes[q] = {"mapa", "chave", "ramo", "ativa"}
    /\ \A r \in respostas : r[1] \in DOMAIN questoes

\* The files in the hands of the requests, and what was planned of them, are finite.
Finita(p) ==
    /\ "passo" \in DOMAIN p
    /\ p.passo = "questoes" => IsFiniteSet(p.plano.novas)
    /\ p.passo \in {"gravar", "sugerir", "pacote"} =>
          "pacote" \in DOMAIN p /\ (p.pacote # Nenhum => IsFiniteSet(DOMAIN p.pacote.questoes))
    /\ p.passo = "pacote" => p.pacote # Nenhum

IInv == Identidades /\ DOMAIN aba = Abas /\ \A a \in Abas : Finita(aba[a])

\* What RespostaFica and EscolhaFica say of a step.
RespostaNoPasso ==
    \A r \in respostas, m \in 1 .. MaxMapas :
        questoes[r[1]].mapa = m /\ Vivo(m)' =>
            /\ r \in respostas' /\ r[1] \in DOMAIN questoes'
            /\ questoes'[r[1]].chave = questoes[r[1]].chave

EscolhaNoPasso ==
    \A v \in DOMAIN vinculos :
        Persiste(v) /\ ~ (\E a \in Abas : aba[a].passo = "vincular" /\ aba'[a].passo # "vincular")
        => /\ v \in DOMAIN vinculos'
           /\ DoConcurso(vinculos'[v], ementa'[v[1]]) = DoConcurso(vinculos[v], ementa'[v[1]])

Bom == IInv' /\ RespostaNoPasso /\ EscolhaNoPasso

\* No map, no question, no request: the invariant holds at the start.
LEMMA IInvNoInicio == Init => IInv
<1> SUFFICES ASSUME Init PROVE IInv
  OBVIOUS
<1>1. \A s \in Slugs : ~ Existe(s)
  BY DEF Init, Existe
<1>2. DOMAIN questoes = {} /\ respostas = {} /\ DOMAIN mapas = Slugs /\ DOMAIN aba = Abas
  BY DEF Init
<1>3. \A a \in Abas : Finita(aba[a])
  BY DEF Init, Livre, Finita
<1> QED BY <1>1, <1>2, <1>3 DEF Init, IInv, Identidades

-----------------------------------------------------------------------------
(* The steps, by the tables they write.                                    *)

\* A tab that goes on with passo, the others where they are.
LEMMA SoUmaAba ==
    ASSUME IInv, NEW a \in Abas, NEW passo, Segue(a, passo), Finita(passo)
    PROVE  DOMAIN aba' = Abas /\ \A b \in Abas : Finita(aba'[b])
<1>1. DOMAIN aba' = Abas /\ aba'[a] = passo /\ \A b \in Abas : b # a => aba'[b] = aba[b]
  BY DEF IInv, Segue
<1>2. \A b \in Abas : Finita(aba[b])
  BY DEF IInv
<1> QED BY <1>1, <1>2

\* A tab with no request carries no file.
LEMMA LivreFinita == Finita(Livre)
BY DEF Livre, Finita

\* Steps that write neither the maps nor what is studied.
LEMMA SemEstudo ==
    ASSUME IInv, UNCHANGED <<mapas, estudo, ids>>, DOMAIN aba' = Abas, \A b \in Abas : Finita(aba'[b])
    PROVE  IInv' /\ RespostaNoPasso
<1>1. /\ mapas' = mapas /\ questoes' = questoes /\ respostas' = respostas
      /\ proximoMapa' = proximoMapa /\ proximaQuestao' = proximaQuestao
  BY DEF estudo, ids
<1>2. Identidades'
  BY <1>1 DEF IInv, Identidades, Existe
<1>3. RespostaNoPasso
  BY <1>1 DEF IInv, Identidades, RespostaNoPasso
<1> QED BY <1>2, <1>3 DEF IInv

\* Steps that leave the links and the contest.
LEMMA SemVinculos ==
    ASSUME UNCHANGED <<ementa, vinculos>>
    PROVE  EscolhaNoPasso
BY DEF EscolhaNoPasso

\* A request that only reads.
LEMMA SoLe ==
    ASSUME IInv, NEW a \in Abas, NEW passo, Segue(a, passo), Finita(passo),
           UNCHANGED <<ementa, mapas, estudo, vinculos, ids>>
    PROVE  Bom
BY SoUmaAba, SemEstudo, SemVinculos DEF Bom

\* The step a package goes on to.
LEMMA ContinuaFinita ==
    ASSUME NEW id, NEW pacote, pacote # Nenhum => IsFiniteSet(DOMAIN pacote.questoes)
    PROVE  Finita(Continua(id, pacote))
<1>1. CASE pacote = Nenhum
  BY <1>1, LivreFinita DEF Continua
<1>2. CASE pacote # Nenhum /\ DOMAIN pacote.questoes = {}
  BY <1>2 DEF Continua, Finita
<1>3. CASE pacote # Nenhum /\ DOMAIN pacote.questoes # {}
  BY <1>3 DEF Continua, Finita
<1> QED BY <1>1, <1>2, <1>3

\* Of a file with so many questions, so many are new.
LEMMA PlanejadaFinita ==
    ASSUME NEW id, NEW arquivo, IsFiniteSet(DOMAIN arquivo), NEW pacote, NEW doPacote
    PROVE  Finita(Planejada(id, arquivo, pacote, doPacote))
<1> DEFINE plano == PlanejarQuestoes(id, arquivo)
           p == Planejada(id, arquivo, pacote, doPacote)
<1>1. plano.novas \subseteq DOMAIN arquivo
  BY DEF PlanejarQuestoes
<1>2. IsFiniteSet(plano.novas)
  BY <1>1, FS_Subset
<1>3. "passo" \in DOMAIN p /\ p.passo = "questoes" /\ p.plano = plano
  BY DEF Planejada
<1> HIDE DEF p, plano
<1> QED BY <1>2, <1>3 DEF Finita, p

-----------------------------------------------------------------------------
(* The requests that only read.                                            *)

\* What only reads or hands a row of a package on keeps answers and choices.
LEMMA LeiturasFicam ==
    ASSUME IInv, NEW a \in Abas,
           \/ \E o \in Outlines, aberto \in BOOLEAN : ImportarLer(a, o, aberto)
           \/ \E p \in Pacotes, aberto \in BOOLEAN : ImportarPacoteLer(a, p, aberto)
           \/ \E s \in Slugs, i \in Itens : ExcluirItemLer(a, s, i)
           \/ \E s \in Slugs, f \in Arquivos : ImportarQuestoesLer(a, s, f)
           \/ PacoteQuestoesLer(a) \/ RestaurarRespostasLer(a) \/ RestaurarVinculoLer(a)
           \/ \E q \in 1 .. MaxQuestoes : ResponderLer(a, q)
           \/ \E d \in DOMAIN ementa, s \in Slugs, ligar \in BOOLEAN :
                 \E temas \in SUBSET ementa[d] : VincularLer(a, d, s, ligar, temas)
    PROVE  Bom
<1>0. Finita(aba[a])
  BY DEF IInv
<1>1. ASSUME NEW o, NEW aberto, ImportarLer(a, o, aberto) PROVE Bom
  <2> DEFINE passo == [passo |-> "gravar", outline |-> o, pacote |-> Nenhum,
                       sugestoes |-> IF aberto THEN Sugestoes(o, ementa) ELSE <<>>]
  <2>1. Finita(passo)
    BY DEF Finita
  <2>2. Segue(a, passo) /\ UNCHANGED <<ementa, mapas, estudo, vinculos, ids>>
    BY <1>1 DEF ImportarLer
  <2> HIDE DEF passo
  <2> QED BY <2>1, <2>2, SoLe
<1>2. ASSUME NEW p \in Pacotes, NEW aberto, ImportarPacoteLer(a, p, aberto) PROVE Bom
  <2> DEFINE passo == [passo |-> "gravar", outline |-> p.outline, pacote |-> p,
                       sugestoes |-> IF aberto /\ ~ p.comEstudo THEN Sugestoes(p.outline, ementa) ELSE <<>>]
  <2>1. Finita(passo)
    BY ArquivosFinitos DEF Finita
  <2>2. Segue(a, passo) /\ UNCHANGED <<ementa, mapas, estudo, vinculos, ids>>
    BY <1>2 DEF ImportarPacoteLer
  <2> HIDE DEF passo
  <2> QED BY <2>1, <2>2, SoLe
<1>3. ASSUME NEW s, NEW i, ExcluirItemLer(a, s, i) PROVE Bom
  <2> DEFINE passo == [passo |-> "trocar", mapa |-> mapas[s].id, antes |-> Contar(mapas[s].itens),
                       itens |-> SemItem(mapas[s].itens, i), desativar |-> QuestoesDoRamo(mapas[s].id, i)]
  <2>1. Finita(passo)
    BY DEF Finita
  <2>2. Segue(a, passo) /\ UNCHANGED <<ementa, mapas, estudo, vinculos, ids>>
    BY <1>3 DEF ExcluirItemLer
  <2> HIDE DEF passo
  <2> QED BY <2>1, <2>2, SoLe
<1>4. ASSUME NEW s, NEW f \in Arquivos, ImportarQuestoesLer(a, s, f) PROVE Bom
  <2>1. Finita(Planejada(mapas[s].id, f, Nenhum, Nenhum))
    BY ArquivosFinitos, PlanejadaFinita
  <2> QED BY <1>4, <2>1, SoLe DEF ImportarQuestoesLer
<1>5. ASSUME PacoteQuestoesLer(a) PROVE Bom
  <2> DEFINE p == aba[a]
             cabe == /\ Existe(p.pacote.outline.slug)
                     /\ ValidarQuestoes(mapas[p.pacote.outline.slug].itens, p.pacote.questoes)
             plano == Planejada(mapas[p.pacote.outline.slug].id, p.pacote.questoes, p.pacote, p.mapa)
             passo == IF cabe THEN plano ELSE Livre
  <2>1. p.passo = "pacote" /\ Segue(a, passo) /\ UNCHANGED <<ementa, mapas, estudo, vinculos, ids>>
    BY <1>5 DEF PacoteQuestoesLer
  <2>2. IsFiniteSet(DOMAIN p.pacote.questoes)
    BY <1>0, <2>1 DEF Finita
  <2>3. Finita(plano)
    BY <2>2, PlanejadaFinita
  <2>4. Finita(passo)
    BY <2>3, LivreFinita
  <2> HIDE DEF passo
  <2> QED BY <2>1, <2>4, SoLe
<1>6. ASSUME RestaurarRespostasLer(a) PROVE Bom
  <2> DEFINE p == aba[a]
             daChave(k) == {q \in Ativas(p.mapa) : questoes[q].chave = k}
             passo == [passo |-> "restaurar",
                       respostas |-> UNION {daChave(r[1]) \X {r[2]} : r \in p.pacote.respostas}]
  <2>1. Finita(passo)
    BY DEF Finita
  <2>2. Segue(a, passo) /\ UNCHANGED <<ementa, mapas, estudo, vinculos, ids>>
    BY <1>6 DEF RestaurarRespostasLer
  <2> HIDE DEF passo
  <2> QED BY <2>1, <2>2, SoLe
<1>7. ASSUME RestaurarVinculoLer(a) PROVE Bom
  <2> DEFINE p == aba[a]
             resto(v) == [p EXCEPT !.pacote.vinculos = @ \ {v}]
             vincular(v) == [passo |-> "vincular", disciplina |-> v.disciplina, mapa |-> p.mapa, ligar |-> TRUE,
                             temas |-> CHOOSE temas \in Restaurado(v) : TRUE, pacote |-> resto(v).pacote]
  <2>1. p.passo = "estudo" /\ "passo" \in DOMAIN p /\ UNCHANGED <<ementa, mapas, estudo, vinculos, ids>>
    BY <1>0, <1>7 DEF RestaurarVinculoLer, Finita
  <2>2. \/ Segue(a, [p EXCEPT !.passo = "respostas"])
        \/ \E v \in p.pacote.vinculos : Segue(a, resto(v)) \/ Segue(a, vincular(v))
    BY <1>7 DEF RestaurarVinculoLer
  <2>3. Finita([p EXCEPT !.passo = "respostas"])
    BY <2>1 DEF Finita
  <2>4. \A v : Finita(resto(v))
    BY <2>1 DEF Finita
  <2>5. \A v : Finita(vincular(v))
    BY DEF Finita
  <2> HIDE DEF p, resto, vincular
  <2> QED BY <2>1, <2>2, <2>3, <2>4, <2>5, SoLe
<1>8. ASSUME NEW q, ResponderLer(a, q) PROVE Bom
  <2>1. Finita([passo |-> "responder", questao |-> q])
    BY DEF Finita
  <2> QED BY <1>8, <2>1, SoLe DEF ResponderLer
<1>9. ASSUME NEW d, NEW s, NEW ligar, NEW temas, VincularLer(a, d, s, ligar, temas) PROVE Bom
  <2> DEFINE passo == [passo |-> "vincular", disciplina |-> d, mapa |-> mapas[s].id, ligar |-> ligar,
                       temas |-> temas, pacote |-> Nenhum]
  <2>1. Finita(passo)
    BY DEF Finita
  <2>2. Segue(a, passo) /\ UNCHANGED <<ementa, mapas, estudo, vinculos, ids>>
    BY <1>9 DEF VincularLer
  <2> HIDE DEF passo
  <2> QED BY <2>1, <2>2, SoLe
<1> QED BY <1>1, <1>2, <1>3, <1>4, <1>5, <1>6, <1>7, <1>8, <1>9

-----------------------------------------------------------------------------
(* The requests that write.                                                *)

\* A map keeps its id when its items are replaced, and a new one has the next.
LEMMA GravarFica == ASSUME IInv, NEW a \in Abas, Gravar(a) PROVE Bom
<1> DEFINE p == aba[a]
           s == p.outline.slug
           id == IF Existe(s) THEN mapas[s].id ELSE proximoMapa
           mapa == [id |-> id, itens |-> p.outline.itens]
           sugerir == [passo |-> "sugerir", mapa |-> id, sugestoes |-> p.sugestoes, pacote |-> p.pacote]
           passo == IF DOMAIN p.sugestoes = {} THEN Continua(id, p.pacote) ELSE sugerir
<1>1. /\ p.passo = "gravar" /\ mapas' = [mapas EXCEPT ![s] = mapa] /\ Segue(a, passo)
      /\ proximoMapa' = IF Existe(s) THEN proximoMapa ELSE proximoMapa + 1
      /\ ementa' = ementa /\ questoes' = questoes /\ respostas' = respostas /\ vinculos' = vinculos
      /\ proximaQuestao' = proximaQuestao
  BY DEF Gravar, estudo
<1>2. p.pacote # Nenhum => IsFiniteSet(DOMAIN p.pacote.questoes)
  BY <1>1 DEF IInv, Finita
<1>3. Finita(sugerir)
  BY <1>2 DEF Finita
<1>4. Finita(passo)
  BY <1>2, <1>3, ContinuaFinita
<1>5. s \in Slugs => /\ id \in 1 .. proximoMapa' - 1
                     /\ \A z \in Slugs \ {s} : Existe(z) => mapas[z].id # id
  <2>1. proximoMapa \in Nat \ {0} /\ \A z \in Slugs : Existe(z) => mapas[z].id \in 1 .. proximoMapa - 1
    BY DEF IInv, Identidades
  <2>2. CASE Existe(s)
    BY <1>1, <2>1, <2>2 DEF IInv, Identidades
  <2>3. CASE ~ Existe(s)
    <3>1. id = proximoMapa /\ proximoMapa' = proximoMapa + 1
      BY <1>1, <2>3
    <3> QED BY <2>1, <3>1
  <2> QED BY <2>2, <2>3
<1>6. DOMAIN mapa = {"id", "itens"} /\ mapa.id = id
  OBVIOUS
<1>7. proximoMapa' \in Nat \ {0} /\ proximoMapa =< proximoMapa'
  BY <1>1 DEF IInv, Identidades
<1> HIDE DEF p, s, id, mapa, sugerir, passo
<1>8. DOMAIN mapas' = Slugs /\ \A z \in Slugs : mapas'[z] = IF z = s THEN mapa ELSE mapas[z]
  BY <1>1 DEF IInv, Identidades
<1>9. \A z \in Slugs : Existe(z)' => /\ DOMAIN mapas'[z] = {"id", "itens"}
                                     /\ mapas'[z].id \in 1 .. proximoMapa' - 1
  <2> TAKE z \in Slugs
  <2>1. CASE z = s
    BY <1>5, <1>6, <1>8, <2>1
  <2>2. CASE z # s
    BY <1>7, <1>8, <2>2 DEF IInv, Identidades, Existe
  <2> QED BY <2>1, <2>2
<1>10. \A y, z \in Slugs : Existe(y)' /\ Existe(z)' /\ mapas'[y].id = mapas'[z].id => y = z
  BY <1>5, <1>6, <1>8 DEF IInv, Identidades, Existe
<1>11. Identidades'
  BY <1>1, <1>7, <1>8, <1>9, <1>10 DEF IInv, Identidades
<1>12. RespostaNoPasso
  BY <1>1 DEF IInv, Identidades, RespostaNoPasso
<1> QED BY <1>1, <1>4, <1>11, <1>12, SoUmaAba, SemVinculos DEF Bom, IInv

\* What the text suggests is not written over a link there is.
LEMMA SugerirFica == ASSUME IInv, NEW a \in Abas, NEW d, SugerirVinculo(a, d) PROVE Bom
<1> DEFINE p == aba[a]
           faltam == [x \in DOMAIN p.sugestoes \ {d} |-> p.sugestoes[x]]
           passo == IF DOMAIN faltam = {} THEN Continua(p.mapa, p.pacote) ELSE [p EXCEPT !.sugestoes = faltam]
<1>1. /\ p.passo = "sugerir" /\ UNCHANGED <<ementa, mapas, estudo, ids>>
      /\ \/ vinculos' = VinculoSugerido(d, p.mapa, p.sugestoes[d]) /\ Segue(a, passo)
         \/ vinculos' = vinculos /\ Segue(a, Livre)
  BY DEF SugerirVinculo
<1>2. /\ "passo" \in DOMAIN p /\ "pacote" \in DOMAIN p
      /\ p.pacote # Nenhum => IsFiniteSet(DOMAIN p.pacote.questoes)
  BY <1>1 DEF IInv, Finita
<1>3. Finita([p EXCEPT !.sugestoes = faltam])
  BY <1>1, <1>2 DEF Finita
<1>4. Finita(passo)
  BY <1>2, <1>3, ContinuaFinita
<1>5. \A v \in DOMAIN vinculos : v \in DOMAIN vinculos' /\ vinculos'[v] = vinculos[v]
  BY <1>1 DEF VinculoSugerido, ComVinculo
<1>6. EscolhaNoPasso
  BY <1>5 DEF EscolhaNoPasso
<1> HIDE DEF p, faltam, passo
<1>7. DOMAIN aba' = Abas /\ \A b \in Abas : Finita(aba'[b])
  BY <1>1, <1>4, LivreFinita, SoUmaAba
<1> QED BY <1>1, <1>6, <1>7, SemEstudo DEF Bom

\* An import writes new questions under the next ids, and of the others
\* neither the key nor the id.
LEMMA GravarQuestoesFica == ASSUME IInv, NEW a \in Abas, GravarQuestoes(a) PROVE Bom
<1> DEFINE p == aba[a]
           n == Cardinality(p.plano.novas)
           depois == [passo |-> "estudo", mapa |-> p.doPacote, pacote |-> p.pacote]
           passo == IF p.pacote = Nenhum THEN Livre ELSE depois
<1>1. /\ p.passo = "questoes"
      /\ ementa' = ementa /\ mapas' = mapas /\ respostas' = respostas /\ vinculos' = vinculos
      /\ proximoMapa' = proximoMapa
  BY DEF GravarQuestoes
<1>2. n \in Nat
  BY <1>1, FS_CardinalityType DEF IInv, Finita
<1>3. Finita(depois)
  BY DEF Finita
<1>4. Finita(passo)
  BY <1>3, LivreFinita
<1>5. \/ UNCHANGED <<questoes, proximaQuestao>> /\ Segue(a, Livre)
      \/ /\ \E novas \in [proximaQuestao .. proximaQuestao + n - 1 -> p.plano.novas] :
               questoes' = ComQuestoes(p, novas)
         /\ proximaQuestao' = proximaQuestao + n /\ Segue(a, passo)
  BY DEF GravarQuestoes
<1> HIDE DEF depois, passo
<1>6. DOMAIN aba' = Abas /\ \A b \in Abas : Finita(aba'[b])
  BY <1>4, <1>5, LivreFinita, SoUmaAba
<1>7. CASE UNCHANGED <<questoes, proximaQuestao>>
  <2>1. UNCHANGED <<mapas, estudo, ids>>
    BY <1>1, <1>7 DEF estudo, ids
  <2> QED BY <1>1, <1>6, <2>1, SemEstudo, SemVinculos DEF Bom
<1>8. ASSUME NEW novas \in [proximaQuestao .. proximaQuestao + n - 1 -> p.plano.novas],
             questoes' = ComQuestoes(p, novas), proximaQuestao' = proximaQuestao + n
      PROVE  Bom
  <2> DEFINE dela(q) == IF q \in p.plano.atualizadas THEN NovaQuestao(p, questoes[q].chave)
                        ELSE IF q \in p.plano.desativar THEN [questoes[q] EXCEPT !.ativa = FALSE]
                        ELSE questoes[q]
  <2>1. /\ proximaQuestao \in Nat \ {0} /\ DOMAIN questoes \subseteq 1 .. proximaQuestao - 1
        /\ \A q \in DOMAIN questoes : DOMAIN questoes[q] = {"mapa", "chave", "ramo", "ativa"}
    BY DEF IInv, Identidades
  <2>2. DOMAIN novas = proximaQuestao .. proximaQuestao + n - 1
    OBVIOUS
  <2>3. questoes' = [q \in DOMAIN questoes \cup DOMAIN novas |->
                        IF q \in DOMAIN novas THEN NovaQuestao(p, novas[q]) ELSE dela(q)]
    BY <1>8 DEF ComQuestoes
  <2>4. \A q \in DOMAIN questoes : /\ DOMAIN dela(q) = {"mapa", "chave", "ramo", "ativa"}
                                   /\ dela(q).chave = questoes[q].chave
    <3> TAKE q \in DOMAIN questoes
    <3>1. CASE q \in p.plano.atualizadas
      BY <3>1 DEF NovaQuestao
    <3>2. CASE q \notin p.plano.atualizadas
      BY <2>1, <3>2
    <3> QED BY <3>1, <3>2
  <2>5. \A q : DOMAIN NovaQuestao(p, novas[q]) = {"mapa", "chave", "ramo", "ativa"}
    BY DEF NovaQuestao
  <2> HIDE DEF p, n, dela
  <2>6. /\ DOMAIN questoes' = DOMAIN questoes \cup DOMAIN novas
        /\ \A q \in DOMAIN questoes : q \notin DOMAIN novas /\ questoes'[q] = dela(q)
        /\ \A q \in DOMAIN novas : questoes'[q] = NovaQuestao(p, novas[q])
    BY <1>2, <2>1, <2>2, <2>3
  <2>7. proximaQuestao' \in Nat \ {0} /\ DOMAIN questoes' \subseteq 1 .. proximaQuestao' - 1
    BY <1>2, <1>8, <2>1, <2>2, <2>6
  <2>8. \A q \in DOMAIN questoes' : DOMAIN questoes'[q] = {"mapa", "chave", "ramo", "ativa"}
    BY <2>4, <2>5, <2>6
  <2>9. Identidades'
    BY <1>1, <2>6, <2>7, <2>8 DEF IInv, Identidades, Existe
  <2>10. RespostaNoPasso
    BY <1>1, <2>4, <2>6 DEF IInv, Identidades, RespostaNoPasso
  <2> QED BY <1>1, <1>6, <2>9, <2>10, SemVinculos DEF Bom, IInv
<1> QED BY <1>5, <1>7, <1>8

\* An answer holds on to its question.
LEMMA RespostasFicam ==
    ASSUME IInv, NEW a \in Abas, (\E h \in Horas : Responder(a, h)) \/ RestaurarRespostas(a)
    PROVE  Bom
<1>1. /\ Segue(a, Livre) /\ UNCHANGED <<ementa, mapas, questoes, vinculos, ids>>
      /\ respostas \subseteq respostas'
      /\ \A r \in respostas' \ respostas : r[1] \in DOMAIN questoes
  <2>1. ASSUME NEW h, Responder(a, h)
        PROVE  respostas \subseteq respostas' /\ \A r \in respostas' \ respostas : r[1] \in DOMAIN questoes
    BY <2>1 DEF Responder
  <2>2. ASSUME RestaurarRespostas(a)
        PROVE  respostas \subseteq respostas' /\ \A r \in respostas' \ respostas : r[1] \in DOMAIN questoes
    BY <2>2 DEF RestaurarRespostas
  <2>3. Segue(a, Livre) /\ UNCHANGED <<ementa, mapas, questoes, vinculos, ids>>
    BY DEF Responder, RestaurarRespostas
  <2> QED BY <2>1, <2>2, <2>3
<1>2. Identidades'
  BY <1>1 DEF IInv, Identidades, Existe, ids
<1>3. RespostaNoPasso
  BY <1>1 DEF IInv, Identidades, RespostaNoPasso
<1> QED BY <1>1, <1>2, <1>3, SoUmaAba, LivreFinita, SemVinculos DEF Bom, IInv

\* A request to link is the one that may change what was chosen.
LEMMA VincularFica == ASSUME IInv, NEW a \in Abas, Vincular(a) PROVE Bom
<1> DEFINE p == aba[a]
           depois == [passo |-> "estudo", mapa |-> p.mapa, pacote |-> p.pacote]
<1>1. /\ p.passo = "vincular" /\ UNCHANGED <<ementa, mapas, estudo, ids>>
      /\ Segue(a, Livre) \/ Segue(a, depois)
  BY DEF Vincular
<1>2. Finita(depois) /\ depois.passo # "vincular"
  BY DEF Finita
<1>3. Finita(Livre) /\ Livre.passo # "vincular"
  BY LivreFinita DEF Livre
<1> HIDE DEF depois
<1>4. DOMAIN aba' = Abas /\ \A b \in Abas : Finita(aba'[b])
  BY <1>1, <1>2, <1>3, SoUmaAba
<1>5. aba'[a].passo # "vincular"
  BY <1>1, <1>2, <1>3 DEF Segue, IInv
<1>6. EscolhaNoPasso
  BY <1>1, <1>5 DEF EscolhaNoPasso
<1> QED BY <1>1, <1>4, <1>6, SemEstudo DEF Bom

\* Cutting a branch puts its questions aside, with their keys.
LEMMA TrocarFica == ASSUME IInv, NEW a \in Abas, TrocarItens(a) PROVE Bom
<1> DEFINE p == aba[a]
<1>1. /\ Segue(a, Livre) /\ respostas' = respostas /\ ementa' = ementa /\ vinculos' = vinculos
      /\ proximoMapa' = proximoMapa /\ proximaQuestao' = proximaQuestao
      /\ \/ mapas' = mapas /\ questoes' = questoes
         \/ /\ mapas' = [s \in Slugs |-> IF Existe(s) /\ mapas[s].id = p.mapa
                                         THEN [mapas[s] EXCEPT !.itens = p.itens] ELSE mapas[s]]
            /\ questoes' = [q \in DOMAIN questoes |->
                    IF q \in p.desativar THEN [questoes[q] EXCEPT !.ativa = FALSE] ELSE questoes[q]]
  BY DEF TrocarItens, ids
<1>2. /\ DOMAIN questoes' = DOMAIN questoes
      /\ \A q \in DOMAIN questoes : /\ DOMAIN questoes'[q] = {"mapa", "chave", "ramo", "ativa"}
                                    /\ questoes'[q].chave = questoes[q].chave
  <2>1. \A q \in DOMAIN questoes : DOMAIN questoes[q] = {"mapa", "chave", "ramo", "ativa"}
    BY DEF IInv, Identidades
  <2> HIDE DEF p
  <2> QED BY <1>1, <2>1
<1>3. /\ DOMAIN mapas' = Slugs
      /\ \A s \in Slugs : Existe(s)' => /\ Existe(s) /\ DOMAIN mapas'[s] = {"id", "itens"}
                                        /\ mapas'[s].id = mapas[s].id
  <2>1. DOMAIN mapas = Slugs /\ \A s \in Slugs : Existe(s) => DOMAIN mapas[s] = {"id", "itens"}
    BY DEF IInv, Identidades
  <2> HIDE DEF p
  <2> QED BY <1>1, <2>1 DEF Existe
<1>4. Identidades'
  BY <1>1, <1>2, <1>3 DEF IInv, Identidades
<1>5. RespostaNoPasso
  BY <1>1, <1>2 DEF IInv, Identidades, RespostaNoPasso
<1> QED BY <1>1, <1>4, <1>5, SoUmaAba, LivreFinita, SemVinculos DEF Bom, IInv

\* A map that goes takes its own, and its id is of no other.
LEMMA ExcluirFica == ASSUME IInv, NEW s \in Slugs, Excluir(s) PROVE Bom
<1>0. PICK id : id = mapas[s].id
  OBVIOUS
<1> DEFINE ficam == DOMAIN questoes \ QuestoesDe(id)
<1>1. /\ Existe(s) /\ mapas' = [mapas EXCEPT ![s] = Nenhum]
      /\ questoes' = [q \in ficam |-> questoes[q]] /\ respostas' = {r \in respostas : r[1] \in ficam}
      /\ vinculos' = [v \in {x \in DOMAIN vinculos : x[2] # id} |-> vinculos[v]]
      /\ ementa' = ementa /\ aba' = aba /\ proximoMapa' = proximoMapa /\ proximaQuestao' = proximaQuestao
  BY <1>0 DEF Excluir, ids
<1>2. /\ DOMAIN mapas' = Slugs
      /\ \A z \in Slugs : Existe(z)' => z # s /\ Existe(z) /\ mapas'[z] = mapas[z]
  BY <1>1 DEF IInv, Identidades, Existe
<1>3. ~ Vivo(id)'
  <2> SUFFICES ASSUME NEW z \in Slugs, Existe(z)', mapas'[z].id = id PROVE FALSE
    BY DEF Vivo
  <2> QED BY <1>0, <1>1, <1>2 DEF IInv, Identidades
<1>4. /\ DOMAIN questoes' = ficam /\ \A q \in ficam : questoes'[q] = questoes[q]
      /\ \A q \in DOMAIN questoes : q \in ficam \/ questoes[q].mapa = id
  BY <1>1 DEF QuestoesDe
<1>5. Identidades'
  BY <1>1, <1>2, <1>4 DEF IInv, Identidades
<1>6. RespostaNoPasso
  BY <1>1, <1>3, <1>4 DEF IInv, Identidades, RespostaNoPasso
<1>7. EscolhaNoPasso
  BY <1>1, <1>3 DEF EscolhaNoPasso, Persiste
<1> QED BY <1>1, <1>5, <1>6, <1>7 DEF Bom, IInv

\* A new edition of the contest drops the links of its removed disciplines and no other.
LEMMA EditarFica == ASSUME IInv, NEW e, EditarConcurso(e) PROVE Bom
<1>1. /\ UNCHANGED <<mapas, estudo, ids>> /\ aba' = aba /\ ementa' = e
      /\ vinculos' = [v \in {x \in DOMAIN vinculos : x[1] \in DOMAIN e} |-> vinculos[v]]
  BY DEF EditarConcurso
<1>2. EscolhaNoPasso
  BY <1>1 DEF EscolhaNoPasso, Persiste
<1>3. DOMAIN aba' = Abas /\ \A b \in Abas : Finita(aba'[b])
  BY <1>1 DEF IInv
<1> QED BY <1>1, <1>2, <1>3, SemEstudo DEF Bom

-----------------------------------------------------------------------------
\* Every step keeps the invariant, the answers and the choices.
LEMMA PassoFica == ASSUME IInv, [Next]_vars PROVE Bom
<1>1. CASE UNCHANGED vars
  <2>1. UNCHANGED <<mapas, estudo, ids>> /\ UNCHANGED <<ementa, vinculos>> /\ aba' = aba
    BY <1>1 DEF vars, estudo, ids
  <2> QED BY <2>1, SemEstudo, SemVinculos DEF Bom, IInv
<1>2. ASSUME NEW a \in Abas, RotasDoMapa(a) PROVE Bom
  BY <1>2, LeiturasFicam, GravarFica, SugerirFica, TrocarFica DEF RotasDoMapa
<1>3. ASSUME NEW a \in Abas, RotasDasQuestoes(a) PROVE Bom
  BY <1>3, LeiturasFicam, GravarQuestoesFica, RespostasFicam DEF RotasDasQuestoes
<1>4. ASSUME NEW a \in Abas, RotasDoConcurso(a) PROVE Bom
  BY <1>4, LeiturasFicam, VincularFica DEF RotasDoConcurso
<1> QED BY <1>1, <1>2, <1>3, <1>4, ExcluirFica, EditarFica DEF Next

\* The invariant holds in every state.
LEMMA IInvSempre == Spec => []IInv
<1>1. IInv /\ [Next]_vars => IInv'
  BY PassoFica DEF Bom
<1> QED BY <1>1, IInvNoInicio, PTL DEF Spec

\* An answer is kept, under the key it was given to, for as long as the map is,
\* for any files, packages and tabs.
THEOREM RespostaSempreFica == Spec => RespostaFica
<1>1. IInv /\ [Next]_vars => [RespostaNoPasso]_vars
  BY PassoFica DEF Bom
<1> QED BY <1>1, IInvSempre, PTL DEF Spec, RespostaFica, RespostaNoPasso

\* The topics chosen for a map stay as chosen until a request, or the link of a
\* package, changes them.
THEOREM EscolhaSempreFica == Spec => EscolhaFica
<1>1. IInv /\ [Next]_vars => [EscolhaNoPasso]_vars
  BY PassoFica DEF Bom
<1> QED BY <1>1, IInvSempre, PTL DEF Spec, EscolhaFica, EscolhaNoPasso
=============================================================================
