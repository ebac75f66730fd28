------------------------ MODULE PedidosDeMapa_proofs ------------------------
(***************************************************************************)
(* Proofs about the requests for mind maps, for every set of requests,     *)
(* slugs, dispatches and results, and every bound: types, that what is     *)
(* being processed can be handed over again, that a finished request has   *)
(* its map, that an outcome is final and that no request is worked on      *)
(* twice at a time.                                                        *)
(***************************************************************************)
EXTENDS PedidosDeMapa, TLAPS

-----------------------------------------------------------------------------
(* The type invariant, by service, with what each busy slot carries.       *)

LinhasBem ==
    /\ situacao \in [Pedidos -> Situacoes]
    /\ pdf \in [Pedidos -> BOOLEAN]
    /\ mapaDe \in [Pedidos -> Slugs \cup {Nenhum}]
    /\ mapas \in [Slugs -> Pedidos \cup {"livre", "apagado", "tela"}]

FasesDeTarefa == {"livre", "lida", "pdf", "enviar", "aceito", "recusado"}
UmaTarefa == [fase : FasesDeTarefa, pedido : Pedidos \cup {Nenhum},
              de : {"na_fila", "processando"}, resto : SUBSET Pedidos]

TarefasBem ==
    /\ tarefa \in [Tarefas -> UmaTarefa]
    /\ \A t \in Tarefas : tarefa[t].fase # "livre" => tarefa[t].pedido \in Pedidos
    /\ redespacho \in {"pedir", "feito"} \cup Tarefas

FasesDeAtendente == {"vago", "chegou", "lido", "conferido", "importado", "gravado"}
UmAtendente == [fase : FasesDeAtendente, pedido : Pedidos \cup {Nenhum},
                slug : Slugs \cup {Nenhum}, visto : Slugs \cup {Nenhum}]

AtendentesBem ==
    /\ atendente \in [Atendentes -> UmAtendente]
    /\ \A h \in Atendentes : atendente[h].fase # "vago" =>
          atendente[h].pedido \in Pedidos /\ atendente[h].slug \in Slugs

FasesDasMaos == {"ociosa", "claude", "entregar", "esperando", "avisar"}
Maos == [fase : FasesDasMaos, pedido : Pedidos \cup {Nenhum}, slug : Slugs \cup {Nenhum},
         quem : Atendentes \cup {Nenhum}, vez : 1 .. MaxVezes, rede : 0 .. MaxRede - 1]

ProcBem ==
    /\ fila \in Seq(Pedidos) /\ naFila \in SUBSET Pedidos
    /\ maos \in Maos
    /\ maos.fase # "ociosa" => maos.pedido \in Pedidos
    /\ maos.fase \in {"entregar", "esperando"} => maos.slug \in Slugs

LimitesBem == cliques \in Nat /\ telas \in Nat /\ mortes \in Nat

Tipos == LinhasBem /\ TarefasBem /\ AtendentesBem /\ ProcBem /\ LimitesBem

\* The parts together are the type invariant of the module.
LEMMA TiposDaoTypeOK == Tipos => TypeOK
  BY DEF Tipos, TypeOK, LinhasBem, TarefasBem, UmaTarefa, FasesDeTarefa, AtendentesBem,
         UmAtendente, FasesDeAtendente, ProcBem, Maos, FasesDasMaos, LimitesBem

-----------------------------------------------------------------------------
(* The pieces the actions are made of.                                     *)

\* A task that ends leaves the tasks well formed.
LEMMA LiberarBem ==
    ASSUME TarefasBem, NEW t \in Tarefas, Liberar(t)
    PROVE  TarefasBem'
  BY DEF TarefasBem, Liberar, Livre, UmaTarefa, FasesDeTarefa

\* So does one that moves on.
LEMMA AvancarBem ==
    ASSUME TarefasBem, NEW t \in Tarefas, tarefa[t].fase # "livre",
           NEW f \in FasesDeTarefa, Avancar(t, f)
    PROVE  TarefasBem'
  BY DEF TarefasBem, Avancar, UmaTarefa, FasesDeTarefa

\* And one that starts.
LEMMA ComecarBem ==
    ASSUME TarefasBem, NEW t \in Tarefas, NEW p \in Pedidos, NEW f \in FasesDeTarefa,
           NEW d \in {"na_fila", "processando"}, NEW r \in SUBSET Pedidos,
           Comecar(t, p, f, d, r), redespacho' \in {redespacho, t, "feito"}
    PROVE  TarefasBem'
  BY DEF TarefasBem, Comecar, UmaTarefa, FasesDeTarefa

\* The processor that puts a request down is well formed.
LEMMA LargarBem ==
    ASSUME ProcBem, Largar, UNCHANGED fila
    PROVE  ProcBem'
  <1>1. Ociosa \in Maos
    BY LimitesValidos DEF Ociosa, Maos, FasesDasMaos
  <1>. QED
    BY <1>1 DEF ProcBem, Largar, Ociosa

\* An answer leaves both sides well formed.
LEMMA ResponderBem ==
    ASSUME AtendentesBem, ProcBem, NEW h \in Atendentes, NEW r, Responder(h, r), UNCHANGED fila
    PROVE  AtendentesBem' /\ ProcBem'
  <1>1. AtendentesBem'
    BY DEF AtendentesBem, Responder, Vago, UmAtendente, FasesDeAtendente
  <1>2. CASE maos.fase = "esperando" /\ maos.quem = h
    <2>1. CASE Largar
      BY <1>1, <2>1, LargarBem
    <2>2. CASE /\ maos.vez < MaxVezes
               /\ maos' = [maos EXCEPT !.fase = "claude", !.quem = Nenhum, !.vez = @ + 1]
               /\ UNCHANGED naFila
      <3>1. maos' = [fase |-> "claude", pedido |-> maos.pedido, slug |-> maos.slug,
                      quem |-> Nenhum, vez |-> maos.vez + 1, rede |-> maos.rede]
        BY <2>2 DEF ProcBem, Maos
      <3>2. maos.vez + 1 \in 1 .. MaxVezes
        BY <2>2, LimitesValidos DEF ProcBem, Maos
      <3>3. maos' \in Maos
        BY <3>1, <3>2 DEF ProcBem, Maos, FasesDasMaos
      <3>4. maos'.fase = "claude" /\ maos'.pedido = maos.pedido /\ maos.pedido \in Pedidos
        BY <1>2, <2>2 DEF ProcBem, Maos
      <3>. QED
        BY <1>1, <3>3, <3>4, <2>2 DEF ProcBem
    <2>3. CASE /\ maos' = [maos EXCEPT !.fase = "avisar", !.quem = Nenhum, !.rede = 0]
               /\ UNCHANGED naFila
      <3>1. maos' = [fase |-> "avisar", pedido |-> maos.pedido, slug |-> maos.slug,
                      quem |-> Nenhum, vez |-> maos.vez, rede |-> 0]
        BY <2>3 DEF ProcBem, Maos
      <3>2. 0 \in 0 .. MaxRede - 1
        BY <2>3, LimitesValidos DEF ProcBem, Maos
      <3>3. maos' \in Maos
        BY <3>1, <3>2 DEF ProcBem, Maos, FasesDasMaos
      <3>4. maos'.fase = "avisar" /\ maos'.pedido = maos.pedido /\ maos.pedido \in Pedidos
        BY <1>2, <2>3 DEF ProcBem, Maos
      <3>. QED
        BY <1>1, <3>3, <3>4, <2>3 DEF ProcBem
    <2>. QED
      BY <1>2, <2>1, <2>2, <2>3 DEF Responder, Ler
  <1>3. CASE ~(maos.fase = "esperando" /\ maos.quem = h)
    BY <1>1, <1>3 DEF Responder, ProcBem
  <1>. QED
    BY <1>1, <1>2, <1>3

\* A result that moves on leaves both sides well formed.
LEMMA PassarBem ==
    ASSUME AtendentesBem, ProcBem, NEW h \in Atendentes, atendente[h].fase # "vago",
           NEW f \in FasesDeAtendente, Passar(h, f), UNCHANGED fila
    PROVE  AtendentesBem' /\ ProcBem'
  BY DEF AtendentesBem, ProcBem, Passar, UmAtendente, FasesDeAtendente

-----------------------------------------------------------------------------
(* Type correctness.                                                       *)

\* At the start everything is idle.
LEMMA TiposNoInicio == Init => Tipos
  <1>. SUFFICES ASSUME Init PROVE Tipos
    OBVIOUS
  <1>1. LinhasBem
    BY DEF Init, LinhasBem, Situacoes
  <1>2. TarefasBem
    BY DEF Init, TarefasBem, Livre, UmaTarefa, FasesDeTarefa
  <1>3. AtendentesBem
    BY DEF Init, AtendentesBem, Vago, UmAtendente, FasesDeAtendente
  <1>4. ProcBem
    <2>1. Ociosa \in Maos
      BY LimitesValidos DEF Ociosa, Maos, FasesDasMaos
    <2>. QED
      BY <2>1 DEF Init, ProcBem, Ociosa
  <1>. QED
    BY <1>1, <1>2, <1>3, <1>4 DEF Tipos, LimitesBem, Init

\* A dispatch keeps everything well formed.
LEMMA TiposNoDespacho ==
    ASSUME Tipos, NEW t \in Tarefas, Despacho(t)
    PROVE  Tipos'
  <1>. LinhasBem /\ TarefasBem /\ AtendentesBem /\ ProcBem /\ LimitesBem
    BY DEF Tipos
  <1>1. ASSUME NEW p \in Pedidos, Pedir(t, p) PROVE Tipos'
    <2>1. LinhasBem'
      BY <1>1 DEF Pedir, LinhasBem, Situacoes
    <2>2. TarefasBem'
      BY <1>1, ComecarBem DEF Pedir, FasesDeTarefa
    <2>. QED
      BY <1>1, <2>1, <2>2 DEF Pedir, Tipos, AtendentesBem, ProcBem, LimitesBem, proc, limites
  <1>2. ASSUME NEW p \in Pedidos, ReenfileirarLer(t, p) PROVE Tipos'
    <2>1. TarefasBem'
      BY <1>2, ComecarBem DEF ReenfileirarLer, FasesDeTarefa
    <2>. QED
      BY <1>2, <2>1
      DEF ReenfileirarLer, Tipos, LinhasBem, AtendentesBem, ProcBem, LimitesBem, linhas, proc
  <1>3. CASE ReenfileirarMudar(t)
    <2>1. LinhasBem'
      BY <1>3 DEF ReenfileirarMudar, LinhasBem, Situacoes
    <2>2. TarefasBem'
      BY <1>3, AvancarBem, LiberarBem DEF ReenfileirarMudar, FasesDeTarefa
    <2>. QED
      BY <1>3, <2>1, <2>2
      DEF ReenfileirarMudar, Tipos, AtendentesBem, ProcBem, LimitesBem, proc, limites
  <1>4. CASE LerPDF(t)
    <2>1. TarefasBem'
      BY <1>4, AvancarBem, LiberarBem DEF LerPDF, FasesDeTarefa
    <2>. QED
      BY <1>4, <2>1
      DEF LerPDF, Tipos, LinhasBem, AtendentesBem, ProcBem, LimitesBem, linhas, proc, limites
  <1>5. ASSUME NEW chegou \in BOOLEAN, NEW ouviu \in BOOLEAN, Enviar(t, chegou, ouviu)
        PROVE  Tipos'
    <2>1. TarefasBem'
      BY <1>5, AvancarBem DEF Enviar, FasesDeTarefa
    <2>2. tarefa[t].pedido \in Pedidos
      BY <1>5 DEF Enviar, TarefasBem
    <2>3. fila' \in Seq(Pedidos) /\ naFila' \in SUBSET Pedidos /\ maos' = maos
      BY <1>5, <2>2 DEF Enviar, iniciar, ProcBem
    <2>4. ProcBem'
      BY <2>3 DEF ProcBem
    <2>. QED
      BY <1>5, <2>1, <2>4
      DEF Enviar, Tipos, LinhasBem, AtendentesBem, LimitesBem, linhas, limites
  <1>6. CASE Marcar(t)
    <2>1. LinhasBem'
      BY <1>6 DEF Marcar, LinhasBem, Situacoes
    <2>2. TarefasBem'
      <3>1. CASE Liberar(t)
        BY <3>1, LiberarBem
      <3>2. CASE \E q \in tarefa[t].resto :
                    /\ Comecar(t, q, "pdf", "processando", tarefa[t].resto \ {q})
                    /\ UNCHANGED redespacho
        <4>1. tarefa[t].resto \in SUBSET Pedidos
          BY DEF TarefasBem, UmaTarefa
        <4>. QED
          BY <3>2, <4>1, ComecarBem DEF FasesDeTarefa
      <3>. QED
        BY <1>6, <3>1, <3>2 DEF Marcar, Seguir
    <2>. QED
      BY <1>6, <2>1, <2>2
      DEF Marcar, Tipos, AtendentesBem, ProcBem, LimitesBem, proc, limites
  <1>7. CASE TarefaFalha(t)
    <2>1. TarefasBem'
      BY <1>7, LiberarBem DEF TarefaFalha
    <2>. QED
      BY <1>7, <2>1
      DEF TarefaFalha, Tipos, LinhasBem, AtendentesBem, ProcBem, LimitesBem, linhas, proc, limites
  <1>8. CASE Redespachar(t)
    <2>. DEFINE lista == {p \in Pedidos : situacao[p] = "processando" /\ TemOQueEntregar(p)}
    <2>1. TarefasBem'
      <3>1. CASE redespacho' = "feito" /\ UNCHANGED tarefa
        BY <3>1 DEF TarefasBem
      <3>2. CASE \E p \in lista : /\ Comecar(t, p, "pdf", "processando", lista \ {p})
                                  /\ redespacho' = t
        <4>1. lista \subseteq Pedidos
          OBVIOUS
        <4>. HIDE DEF lista
        <4>. QED
          BY <3>2, <4>1, ComecarBem DEF FasesDeTarefa
      <3>. QED
        BY <1>8, <3>1, <3>2 DEF Redespachar
    <2>. QED
      BY <1>8, <2>1
      DEF Redespachar, Tipos, LinhasBem, AtendentesBem, ProcBem, LimitesBem, linhas, proc, limites
  <1>. QED
    BY <1>1, <1>2, <1>3, <1>4, <1>5, <1>6, <1>7, <1>8 DEF Despacho

\* So does importing a result, at each of its statements.
LEMMA TiposNaConclusao ==
    ASSUME Tipos, NEW h \in Atendentes, Conclusao(h)
    PROVE  Tipos'
  <1>. LinhasBem /\ TarefasBem /\ AtendentesBem /\ ProcBem /\ LimitesBem
    BY DEF Tipos
  <1>1. TarefasBem' /\ LimitesBem'
    BY DEF Conclusao, ConcluirLer, ConferirSlug, ConferirSlugFalha, Importar, GravarMapaDoPedido, RecusarQuestoes,
           Finalizar, AtendenteFalha, TarefasBem, LimitesBem, limites
  <1>2. fila' = fila
    BY DEF Conclusao, ConcluirLer, ConferirSlug, ConferirSlugFalha, Importar, GravarMapaDoPedido, RecusarQuestoes,
           Finalizar, AtendenteFalha
  <1>3. atendente[h].fase # "vago" /\ atendente[h].pedido \in Pedidos /\ atendente[h].slug \in Slugs
    BY DEF Conclusao, ConcluirLer, ConferirSlug, ConferirSlugFalha, Importar, GravarMapaDoPedido, RecusarQuestoes,
           Finalizar, AtendenteFalha, AtendentesBem
  <1>4. AtendentesBem' /\ ProcBem'
    <2>1. CASE \E r : Responder(h, r)
      BY <2>1, <1>2, ResponderBem
    <2>2. CASE \E f \in FasesDeAtendente : Passar(h, f)
      BY <2>2, <1>2, <1>3, PassarBem
    <2>3. CASE /\ atendente' = [atendente EXCEPT ![h] =
                  [fase |-> "lido", pedido |-> atendente[h].pedido, slug |-> atendente[h].slug,
                   visto |-> mapaDe[atendente[h].pedido]]]
               /\ UNCHANGED <<maos, naFila>>
      <3>1. mapaDe[atendente[h].pedido] \in Slugs \cup {Nenhum}
        BY <1>3 DEF LinhasBem
      <3>2. AtendentesBem'
        BY <1>3, <2>3, <3>1 DEF AtendentesBem, UmAtendente, FasesDeAtendente
      <3>. QED
        BY <1>2, <2>3, <3>2 DEF ProcBem
    <2>. QED
      BY <2>1, <2>2, <2>3
      DEF Conclusao, ConcluirLer, ConferirSlug, ConferirSlugFalha, Importar, GravarMapaDoPedido, RecusarQuestoes,
          Finalizar, AtendenteFalha, FasesDeAtendente
  <1>5. LinhasBem'
    <2>1. CASE Importar(h)
      BY <1>3, <2>1 DEF Importar, LinhasBem, linhas
    <2>2. CASE GravarMapaDoPedido(h)
      BY <1>3, <2>2 DEF GravarMapaDoPedido, LinhasBem
    <2>3. CASE Finalizar(h)
      BY <1>3, <2>3 DEF Finalizar, LinhasBem, linhas, Situacoes
    <2>4. CASE UNCHANGED <<linhas, mapas>>
      BY <2>4 DEF LinhasBem, linhas
    <2>. QED
      BY <2>1, <2>2, <2>3, <2>4
      DEF Conclusao, ConcluirLer, ConferirSlug, ConferirSlugFalha, RecusarQuestoes, AtendenteFalha
  <1>. QED
    BY <1>1, <1>4, <1>5 DEF Tipos

\* And so do the processor's steps.
LEMMA TiposNoProcessador ==
    ASSUME Tipos, Processador
    PROVE  Tipos'
  <1>. LinhasBem /\ TarefasBem /\ AtendentesBem /\ ProcBem /\ LimitesBem
    BY DEF Tipos
  <1>0. TarefasBem' /\ LimitesBem'
    BY DEF Processador, Pegar, Claude, SemResposta, Entregar, AvisarFalha,
           TarefasBem, LimitesBem, backend, limites
  <1>1. CASE Pegar
    <2>1. Head(fila) \in Pedidos /\ Tail(fila) \in Seq(Pedidos)
      BY <1>1 DEF Pegar, ProcBem
    <2>2. maos' \in Maos /\ maos'.fase = "claude" /\ maos'.pedido \in Pedidos
      <3>1. maos' = [fase |-> "claude", pedido |-> Head(fila), slug |-> Nenhum,
                     quem |-> Nenhum, vez |-> 1, rede |-> 0]
        BY <1>1 DEF Pegar, Ociosa
      <3>2. 1 \in 1 .. MaxVezes /\ 0 \in 0 .. MaxRede - 1
        BY LimitesValidos
      <3>. QED
        BY <2>1, <3>1, <3>2 DEF Maos, FasesDasMaos
    <2>3. ProcBem'
      BY <1>1, <2>1, <2>2 DEF Pegar, ProcBem
    <2>. QED
      BY <1>0, <1>1, <2>3 DEF Pegar, Tipos, LinhasBem, AtendentesBem, linhas, backend
  <1>2. CASE Claude
    <2>1. ProcBem'
      <3>1. 0 \in 0 .. MaxRede - 1
        BY LimitesValidos
      <3>2. ASSUME NEW s \in Slugs, maos' = [maos EXCEPT !.fase = "entregar", !.slug = s, !.rede = 0]
            PROVE  ProcBem'
        <4>1. maos' = [fase |-> "entregar", pedido |-> maos.pedido, slug |-> s,
                       quem |-> maos.quem, vez |-> maos.vez, rede |-> 0]
          BY <3>2 DEF ProcBem, Maos
        <4>. QED
          BY <1>2, <3>1, <4>1 DEF Claude, ProcBem, Maos, FasesDasMaos
      <3>3. CASE maos' = [maos EXCEPT !.fase = "avisar", !.rede = 0]
        <4>1. maos' = [fase |-> "avisar", pedido |-> maos.pedido, slug |-> maos.slug,
                       quem |-> maos.quem, vez |-> maos.vez, rede |-> 0]
          BY <3>3 DEF ProcBem, Maos
        <4>. QED
          BY <1>2, <3>1, <4>1 DEF Claude, ProcBem, Maos, FasesDasMaos
      <3>. QED
        BY <1>2, <3>2, <3>3 DEF Claude
    <2>. QED
      BY <1>0, <1>2, <2>1 DEF Claude, Tipos, LinhasBem, AtendentesBem, linhas, backend
  <1>3. CASE SemResposta
    <2>1. maos' \in Maos /\ maos'.pedido = maos.pedido /\ maos'.slug = maos.slug
      <3>1. CASE /\ maos.rede + 1 < MaxRede
                 /\ maos' = [maos EXCEPT !.fase = "entregar", !.quem = Nenhum, !.rede = @ + 1]
        <4>1. maos' = [fase |-> "entregar", pedido |-> maos.pedido, slug |-> maos.slug,
                       quem |-> Nenhum, vez |-> maos.vez, rede |-> maos.rede + 1]
          BY <3>1 DEF ProcBem, Maos
        <4>2. maos.rede + 1 \in 0 .. MaxRede - 1
          BY <3>1, LimitesValidos DEF ProcBem, Maos
        <4>. QED
          BY <4>1, <4>2 DEF ProcBem, Maos, FasesDasMaos
      <3>2. CASE maos' = [maos EXCEPT !.fase = "avisar", !.quem = Nenhum, !.rede = 0]
        <4>1. maos' = [fase |-> "avisar", pedido |-> maos.pedido, slug |-> maos.slug,
                       quem |-> Nenhum, vez |-> maos.vez, rede |-> 0]
          BY <3>2 DEF ProcBem, Maos
        <4>2. 0 \in 0 .. MaxRede - 1
          BY LimitesValidos
        <4>. QED
          BY <4>1, <4>2 DEF ProcBem, Maos, FasesDasMaos
      <3>. QED
        BY <1>3, <3>1, <3>2 DEF SemResposta
    <2>2. ProcBem'
      BY <1>3, <2>1 DEF SemResposta, ProcBem
    <2>. QED
      BY <1>0, <1>3, <2>2 DEF SemResposta, Tipos, LinhasBem, AtendentesBem, linhas, backend
  <1>4. ASSUME NEW h \in Atendentes, Entregar(h) PROVE Tipos'
    <2>1. maos.pedido \in Pedidos /\ maos.slug \in Slugs
      BY <1>4 DEF Entregar, ProcBem
    <2>2. AtendentesBem'
      BY <1>4, <2>1 DEF Entregar, AtendentesBem, UmAtendente, FasesDeAtendente
    <2>3. ProcBem'
      BY <1>4, <2>1 DEF Entregar, ProcBem, Maos, FasesDasMaos
    <2>. QED
      BY <1>0, <1>4, <2>2, <2>3 DEF Entregar, Tipos, LinhasBem, linhas
  <1>5. ASSUME NEW valeu \in BOOLEAN, NEW ouviu \in BOOLEAN, AvisarFalha(valeu, ouviu)
        PROVE  Tipos'
    <2>1. LinhasBem'
      BY <1>5 DEF AvisarFalha, LinhasBem, Situacoes
    <2>2. ProcBem'
      <3>1. CASE Largar
        BY <1>5, <3>1, LargarBem DEF AvisarFalha
      <3>2. CASE /\ maos.rede + 1 # MaxRede
                 /\ maos' = [maos EXCEPT !.rede = @ + 1] /\ UNCHANGED naFila
        <4>1. maos.rede + 1 \in 0 .. MaxRede - 1
          BY <3>2, LimitesValidos DEF ProcBem, Maos
        <4>2. maos' = [fase |-> maos.fase, pedido |-> maos.pedido, slug |-> maos.slug,
                       quem |-> maos.quem, vez |-> maos.vez, rede |-> maos.rede + 1]
          BY <3>2 DEF ProcBem, Maos
        <4>. QED
          BY <1>5, <3>2, <4>1, <4>2 DEF AvisarFalha, ProcBem, Maos
      <3>. QED
        BY <1>5, <3>1, <3>2 DEF AvisarFalha
    <2>. QED
      BY <1>0, <1>5, <2>1, <2>2 DEF AvisarFalha, Tipos, AtendentesBem, backend
  <1>. QED
    BY <1>1, <1>2, <1>3, <1>4, <1>5 DEF Processador

\* Every step keeps the types.
LEMMA TiposNoPasso == Tipos /\ [Next]_vars => Tipos'
  <1>. SUFFICES ASSUME Tipos, [Next]_vars PROVE Tipos'
    OBVIOUS
  <1>. USE DEF Tipos, LinhasBem, TarefasBem, AtendentesBem, ProcBem, LimitesBem,
               linhas, backend, proc, limites
  <1>1. CASE UNCHANGED vars
    BY <1>1 DEF vars
  <1>2. ASSUME NEW p \in Pedidos, Excluir(p) PROVE Tipos'
    BY <1>2 DEF Excluir, Situacoes
  <1>3. ASSUME NEW p \in Pedidos, DescartarPDF(p) PROVE Tipos'
    BY <1>3 DEF DescartarPDF
  <1>4. ASSUME NEW s \in Slugs, ImportarNaTela(s) \/ ExcluirMapa(s) PROVE Tipos'
    BY <1>4 DEF ImportarNaTela, ExcluirMapa, NaTela
  <1>5. CASE MorrerBackend
    BY <1>5 DEF MorrerBackend, Morrer, Livre, Vago, UmaTarefa, FasesDeTarefa, UmAtendente,
                FasesDeAtendente
  <1>6. CASE MorrerProcessador
    <2>1. Ociosa \in Maos
      BY LimitesValidos DEF Ociosa, Maos, FasesDasMaos
    <2>. QED
      BY <1>6, <2>1 DEF MorrerProcessador, Morrer, Ociosa
  <1>7. CASE InsistirNoRedespacho
    BY <1>7 DEF InsistirNoRedespacho
  <1>. QED
    BY <1>1, <1>2, <1>3, <1>4, <1>5, <1>6, <1>7, TiposNoDespacho, TiposNaConclusao,
       TiposNoProcessador
    DEF Next

\* The variables keep their types in every behaviour.
THEOREM TiposSempre == Spec => []TypeOK
  BY TiposNoInicio, TiposNoPasso, TiposDaoTypeOK, PTL DEF Spec

-----------------------------------------------------------------------------
(* What is being processed can be handed over again.                       *)

\* A dispatch on its way still has its PDF, unless the request ended: the
\* row may be marked as being processed by whoever is sending it, so the
\* property is inductive only with this.
EnvioTem ==
    \A t \in Tarefas : tarefa[t].fase \in {"enviar", "aceito", "recusado"} =>
        \/ TemOQueEntregar(tarefa[t].pedido)
        \/ situacao[tarefa[t].pedido] \in {"pronto", "excluido"}

EntregaInv == Tipos /\ ProcessandoTemOQueEntregar /\ EnvioTem

\* A step that leaves the PDFs alone, never takes a request out of its end
\* and marks as processed only what was, keeps both.
LEMMA EntregaSemPDF ==
    ASSUME EntregaInv, Tipos', pdf' = pdf,
           \A p \in Pedidos : situacao[p] \in {"pronto", "excluido"} => situacao'[p] = situacao[p],
           \A p \in Pedidos : situacao'[p] = "processando" =>
               \/ situacao[p] = "processando"
               \/ \E t \in Tarefas :
                     /\ tarefa[t].fase \in {"enviar", "aceito", "recusado"}
                     /\ tarefa[t].pedido = p
                     /\ situacao[p] \notin {"pronto", "excluido"},
           \A t \in Tarefas : tarefa'[t].fase \in {"enviar", "aceito", "recusado"} =>
               \/ /\ tarefa[t].fase \in {"enviar", "aceito", "recusado"}
                  /\ tarefa'[t].pedido = tarefa[t].pedido
               \/ TemOQueEntregar(tarefa'[t].pedido)
    PROVE  EntregaInv'
  <1>1. \A p : TemOQueEntregar(p) <=> TemOQueEntregar(p)'
    BY DEF TemOQueEntregar
  <1>2. ProcessandoTemOQueEntregar'
    BY <1>1 DEF EntregaInv, ProcessandoTemOQueEntregar, EnvioTem
  <1>3. \A t \in Tarefas : tarefa[t].fase # "livre" => tarefa[t].pedido \in Pedidos
    BY DEF EntregaInv, Tipos, TarefasBem
  <1>4. EnvioTem'
    BY <1>1, <1>3 DEF EntregaInv, EnvioTem
  <1>. QED
    BY <1>2, <1>4 DEF EntregaInv

\* At the start nothing is being processed nor sent.
LEMMA EntregaNoInicio == Init => EntregaInv
  BY TiposNoInicio DEF Init, EntregaInv, ProcessandoTemOQueEntregar, EnvioTem, Livre

\* A dispatch keeps it: what it sends it has just read.
LEMMA EntregaNoDespacho ==
    ASSUME EntregaInv, Tipos', NEW t \in Tarefas, Despacho(t)
    PROVE  EntregaInv'
  <1>. Tipos /\ LinhasBem /\ TarefasBem
    BY DEF EntregaInv, Tipos
  <1>. USE DEF LinhasBem, TarefasBem, UmaTarefa
  <1>1. ASSUME NEW p \in Pedidos, Pedir(t, p) PROVE EntregaInv'
    <2>1. \A q \in Pedidos : TemOQueEntregar(q)' <=> (q = p \/ TemOQueEntregar(q))
      BY <1>1 DEF Pedir, TemOQueEntregar
    <2>2. ProcessandoTemOQueEntregar'
      BY <1>1, <2>1 DEF Pedir, EntregaInv, ProcessandoTemOQueEntregar
    <2>3. ASSUME NEW u \in Tarefas, tarefa'[u].fase \in {"enviar", "aceito", "recusado"}
          PROVE  \/ TemOQueEntregar(tarefa[u].pedido)'
                 \/ situacao'[tarefa'[u].pedido] \in {"pronto", "excluido"}
      <3>1. CASE u = t
        BY <1>1, <2>1, <3>1 DEF Pedir, Comecar
      <3>2. CASE u # t
        <4>1. tarefa'[u] = tarefa[u] /\ tarefa[u].pedido \in Pedidos
          BY <1>1, <2>3, <3>2 DEF Pedir, Comecar
        <4>. QED
          BY <1>1, <2>1, <2>3, <4>1 DEF Pedir, EntregaInv, EnvioTem
      <3>. QED
        BY <3>1, <3>2
    <2>. QED
      BY <2>2, <2>3 DEF EntregaInv, EnvioTem
  <1>2. ASSUME NEW p \in Pedidos, ReenfileirarLer(t, p) PROVE EntregaInv'
    BY <1>2, EntregaSemPDF DEF ReenfileirarLer, Comecar, linhas
  <1>3. CASE ReenfileirarMudar(t)
    BY <1>3, EntregaSemPDF DEF ReenfileirarMudar, Reenfileiraveis, Avancar, Liberar, Livre
  <1>4. CASE LerPDF(t)
    BY <1>4, EntregaSemPDF DEF LerPDF, Avancar, Liberar, Livre, linhas
  <1>5. ASSUME NEW chegou \in BOOLEAN, NEW ouviu \in BOOLEAN, Enviar(t, chegou, ouviu)
        PROVE  EntregaInv'
    BY <1>5, EntregaSemPDF DEF Enviar, Avancar, linhas
  <1>6. CASE Marcar(t)
    BY <1>6, EntregaSemPDF DEF Marcar, Seguir, Comecar, Liberar, Livre
  <1>7. CASE TarefaFalha(t)
    BY <1>7, EntregaSemPDF DEF TarefaFalha, Liberar, Livre, linhas
  <1>8. CASE Redespachar(t)
    BY <1>8, EntregaSemPDF DEF Redespachar, Comecar, linhas
  <1>. QED
    BY <1>1, <1>2, <1>3, <1>4, <1>5, <1>6, <1>7, <1>8 DEF Despacho

\* Every step keeps it.
LEMMA EntregaNoPasso ==
    ASSUME EntregaInv, [Next]_vars
    PROVE  EntregaInv'
  <1>. Tipos /\ Tipos' /\ LinhasBem /\ TarefasBem /\ AtendentesBem
    BY TiposNoPasso DEF EntregaInv, Tipos
  <1>1. CASE UNCHANGED vars
    BY <1>1, EntregaSemPDF DEF vars, linhas, backend
  <1>2. ASSUME NEW h \in Atendentes, Conclusao(h) PROVE EntregaInv'
    <2>1. tarefa' = tarefa
      BY <1>2 DEF Conclusao, ConcluirLer, ConferirSlug, ConferirSlugFalha, Importar, GravarMapaDoPedido,
                  RecusarQuestoes, Finalizar, AtendenteFalha
    <2>2. CASE Finalizar(h) /\ situacao[atendente[h].pedido] = "processando"
      <3>. DEFINE p == atendente[h].pedido
      <3>1. p \in Pedidos
        BY <2>2 DEF Finalizar, AtendentesBem
      <3>2. /\ situacao' = [situacao EXCEPT ![p] = "pronto"]
            /\ pdf' = [pdf EXCEPT ![p] = FALSE]
        BY <2>2 DEF Finalizar
      <3>3. \A q : q # p => (TemOQueEntregar(q)' <=> TemOQueEntregar(q))
        BY <3>2 DEF TemOQueEntregar, LinhasBem
      <3>4. ProcessandoTemOQueEntregar'
        BY <3>1, <3>2, <3>3 DEF EntregaInv, ProcessandoTemOQueEntregar, LinhasBem
      <3>5. EnvioTem'
        BY <2>1, <3>1, <3>2, <3>3 DEF EntregaInv, EnvioTem, LinhasBem, TarefasBem
      <3>. QED
        BY <3>4, <3>5 DEF EntregaInv
    <2>3. CASE UNCHANGED <<situacao, pdf>>
      BY <2>1, <2>3, EntregaSemPDF
    <2>. QED
      BY <1>2, <2>2, <2>3
      DEF Conclusao, ConcluirLer, ConferirSlug, ConferirSlugFalha, Importar, GravarMapaDoPedido, RecusarQuestoes,
          Finalizar, AtendenteFalha, linhas
  <1>3. CASE Processador
    <2>1. tarefa' = tarefa /\ pdf' = pdf
      BY <1>3 DEF Processador, Pegar, Claude, SemResposta, Entregar, AvisarFalha, backend, linhas
    <2>2. \A p \in Pedidos : \/ situacao'[p] = situacao[p]
                             \/ situacao[p] = "processando" /\ situacao'[p] = "falhou"
      <3>1. ASSUME NEW c \in BOOLEAN, NEW o \in BOOLEAN, AvisarFalha(c, o), NEW p \in Pedidos
            PROVE  \/ situacao'[p] = situacao[p]
                   \/ situacao[p] = "processando" /\ situacao'[p] = "falhou"
        BY <3>1 DEF AvisarFalha, LinhasBem
      <3>2. CASE situacao' = situacao
        BY <3>2
      <3>. QED
        BY <1>3, <3>1, <3>2 DEF Processador, Pegar, Claude, SemResposta, Entregar, linhas
    <2>. QED
      BY <2>1, <2>2, EntregaSemPDF
  <1>4. ASSUME NEW p \in Pedidos, Excluir(p) PROVE EntregaInv'
    <2>1. \A q : q # p => (TemOQueEntregar(q)' <=> TemOQueEntregar(q))
      BY <1>4 DEF Excluir, TemOQueEntregar, LinhasBem
    <2>2. ProcessandoTemOQueEntregar'
      BY <1>4, <2>1 DEF Excluir, EntregaInv, ProcessandoTemOQueEntregar, LinhasBem
    <2>3. EnvioTem'
      BY <1>4, <2>1 DEF Excluir, EntregaInv, EnvioTem, LinhasBem, TarefasBem, backend
    <2>. QED
      BY <2>2, <2>3 DEF EntregaInv
  <1>5. ASSUME NEW p \in Pedidos, DescartarPDF(p) PROVE EntregaInv'
    <2>1. \A q : q # p => (TemOQueEntregar(q)' <=> TemOQueEntregar(q))
      BY <1>5 DEF DescartarPDF, TemOQueEntregar, LinhasBem
    <2>2. ProcessandoTemOQueEntregar'
      BY <1>5, <2>1 DEF DescartarPDF, EntregaInv, ProcessandoTemOQueEntregar
    <2>3. EnvioTem'
      BY <1>5, <2>1 DEF DescartarPDF, EntregaInv, EnvioTem, TarefasBem, backend
    <2>. QED
      BY <2>2, <2>3 DEF EntregaInv
  <1>6. ASSUME NEW s \in Slugs, ImportarNaTela(s) \/ ExcluirMapa(s) PROVE EntregaInv'
    BY <1>6, EntregaSemPDF DEF ImportarNaTela, ExcluirMapa, linhas, backend
  <1>7. CASE MorrerBackend
    BY <1>7, EntregaSemPDF DEF MorrerBackend, Livre, linhas
  <1>8. CASE MorrerProcessador
    BY <1>8, EntregaSemPDF DEF MorrerProcessador, linhas, backend
  <1>9. CASE InsistirNoRedespacho
    BY <1>9, EntregaSemPDF DEF InsistirNoRedespacho, linhas, backend
  <1>. QED
    BY <1>1, <1>2, <1>3, <1>4, <1>5, <1>6, <1>7, <1>8, <1>9, EntregaNoDespacho DEF Next

\* While a request is being processed there is what to hand over again,
\* whatever the sweep, the dispatches and the results do and in any order.
THEOREM SempreTemOQueEntregar == Spec => []ProcessandoTemOQueEntregar
  <1>1. Init => EntregaInv
    BY EntregaNoInicio
  <1>2. EntregaInv /\ [Next]_vars => EntregaInv'
    BY EntregaNoPasso
  <1>3. EntregaInv => ProcessandoTemOQueEntregar
    BY DEF EntregaInv
  <1>. QED
    BY <1>1, <1>2, <1>3, PTL DEF Spec

-----------------------------------------------------------------------------
(* A finished request has its map.                                         *)

\* A result past the import has its map stored.
ImportadoTemMapa ==
    \A h \in Atendentes : atendente[h].fase \in {"importado", "gravado"} =>
        mapas[atendente[h].slug] # "livre"

ProntoInv == Tipos /\ ProntoTemMapa /\ ImportadoTemMapa

\* A step that forgets no map, finishes no request and rewrites no finished
\* one's map, nor takes a result past the import, keeps it.
LEMMA ProntoSemConclusao ==
    ASSUME ProntoInv, Tipos', \A s \in Slugs : mapas'[s] = "livre" => mapas[s] = "livre",
           \A p \in Pedidos : situacao'[p] = "pronto" =>
               situacao[p] = "pronto" /\ mapaDe'[p] = mapaDe[p],
           \A h \in Atendentes : atendente'[h].fase \in {"importado", "gravado"} =>
               atendente'[h] = atendente[h]
    PROVE  ProntoInv'
  BY DEF ProntoInv, ProntoTemMapa, ImportadoTemMapa, Tipos, AtendentesBem

\* Importing a result keeps it: the request is finished with the slug that
\* was imported.
LEMMA ProntoNaConclusao ==
    ASSUME ProntoInv, Tipos', NEW h \in Atendentes, Conclusao(h)
    PROVE  ProntoInv'
  <1>. Tipos /\ LinhasBem /\ AtendentesBem
    BY DEF ProntoInv, Tipos
  <1>. USE DEF LinhasBem, AtendentesBem, UmAtendente
  <1>1. CASE ConcluirLer(h)
    BY <1>1, ProntoSemConclusao DEF ConcluirLer, Responder, Vago, linhas
  <1>2. CASE ConferirSlug(h) \/ ConferirSlugFalha(h)
    BY <1>2, ProntoSemConclusao DEF ConferirSlug, ConferirSlugFalha, Responder, Passar, Vago, linhas
  <1>3. CASE Importar(h)
    BY <1>3, PedidosValidos
    DEF Importar, Passar, linhas, ProntoInv, ProntoTemMapa, ImportadoTemMapa
  <1>4. CASE GravarMapaDoPedido(h)
    BY <1>4 DEF GravarMapaDoPedido, Passar, ProntoInv, ProntoTemMapa, ImportadoTemMapa
  <1>5. CASE RecusarQuestoes(h)
    BY <1>5, ProntoSemConclusao DEF RecusarQuestoes, Responder, Vago, linhas
  <1>6. CASE Finalizar(h)
    BY <1>6 DEF Finalizar, Responder, Vago, linhas, ProntoInv, ProntoTemMapa, ImportadoTemMapa
  <1>7. CASE AtendenteFalha(h)
    BY <1>7, ProntoSemConclusao DEF AtendenteFalha, Responder, Vago, linhas
  <1>. QED
    BY <1>1, <1>2, <1>3, <1>4, <1>5, <1>6, <1>7 DEF Conclusao

\* Every step keeps it.
LEMMA ProntoNoPasso ==
    ASSUME ProntoInv, [Next]_vars
    PROVE  ProntoInv'
  <1>. Tipos /\ Tipos' /\ LinhasBem /\ TarefasBem /\ AtendentesBem
    BY TiposNoPasso DEF ProntoInv, Tipos
  <1>. USE DEF LinhasBem
  <1>1. CASE UNCHANGED vars
    BY <1>1, ProntoSemConclusao DEF vars, linhas, backend
  <1>2. ASSUME NEW t \in Tarefas, Despacho(t) PROVE ProntoInv'
    <2>1. UNCHANGED <<mapas, mapaDe, atendente>>
      BY <1>2 DEF Despacho, Pedir, ReenfileirarLer, ReenfileirarMudar, LerPDF, Enviar, Marcar,
                  TarefaFalha, Redespachar, linhas
    <2>2. \A p \in Pedidos : situacao'[p] = "pronto" => situacao[p] = "pronto"
      BY <1>2 DEF Despacho, Pedir, ReenfileirarLer, ReenfileirarMudar, LerPDF, Enviar, Marcar,
                  TarefaFalha, Redespachar, linhas
    <2>. QED
      BY <2>1, <2>2, ProntoSemConclusao
  <1>3. CASE Processador
    <2>1. UNCHANGED <<mapas, mapaDe>>
      BY <1>3 DEF Processador, Pegar, Claude, SemResposta, Entregar, AvisarFalha, linhas
    <2>2. \A p \in Pedidos : situacao'[p] = "pronto" => situacao[p] = "pronto"
      BY <1>3 DEF Processador, Pegar, Claude, SemResposta, Entregar, AvisarFalha, linhas
    <2>3. \A h \in Atendentes : atendente'[h].fase \in {"importado", "gravado"} =>
              atendente'[h] = atendente[h]
      <3>1. ASSUME NEW k \in Atendentes, Entregar(k), NEW h \in Atendentes,
                   atendente'[h].fase \in {"importado", "gravado"}
            PROVE  atendente'[h] = atendente[h]
        BY <3>1 DEF Entregar, AtendentesBem
      <3>2. CASE atendente' = atendente
        BY <3>2
      <3>. QED
        BY <1>3, <3>1, <3>2 DEF Processador, Pegar, Claude, SemResposta, AvisarFalha, backend
    <2>. QED
      BY <2>1, <2>2, <2>3, ProntoSemConclusao
  <1>4. ASSUME NEW p \in Pedidos, Excluir(p) \/ DescartarPDF(p) PROVE ProntoInv'
    BY <1>4, ProntoSemConclusao DEF Excluir, DescartarPDF, backend
  <1>5. ASSUME NEW s \in Slugs, ImportarNaTela(s) \/ ExcluirMapa(s) PROVE ProntoInv'
    BY <1>5, ProntoSemConclusao DEF ImportarNaTela, ExcluirMapa, linhas, backend
  <1>6. CASE MorrerBackend \/ MorrerProcessador \/ InsistirNoRedespacho
    BY <1>6, ProntoSemConclusao
    DEF MorrerBackend, MorrerProcessador, InsistirNoRedespacho, Vago, linhas, backend
  <1>. QED
    BY <1>1, <1>2, <1>3, <1>4, <1>5, <1>6, ProntoNaConclusao DEF Next

\* A finished request points at a map that was imported.
THEOREM ProntoSempreTemMapa == Spec => []ProntoTemMapa
  <1>1. Init => ProntoInv
    BY TiposNoInicio DEF Init, ProntoInv, ProntoTemMapa, ImportadoTemMapa, Vago
  <1>2. ProntoInv /\ [Next]_vars => ProntoInv'
    BY ProntoNoPasso
  <1>3. ProntoInv => ProntoTemMapa
    BY DEF ProntoInv
  <1>. QED
    BY <1>1, <1>2, <1>3, PTL DEF Spec

-----------------------------------------------------------------------------
(* An outcome is final.                                                    *)

\* No step takes a finished request anywhere but to deleted, nor a deleted
\* one anywhere.
LEMMA DesfechoNoPasso ==
    ASSUME Tipos, Next, NEW p \in Pedidos
    PROVE  /\ situacao[p] = "pronto" => situacao'[p] \in {"pronto", "excluido"}
           /\ situacao[p] = "excluido" => situacao'[p] = "excluido"
  <1>. LinhasBem /\ TarefasBem
    BY DEF Tipos
  <1>. USE DEF LinhasBem, linhas
  <1>1. ASSUME NEW t \in Tarefas, Despacho(t)
        PROVE  situacao[p] \in {"pronto", "excluido"} => situacao'[p] = situacao[p]
    <2>1. CASE Marcar(t)
      BY <2>1 DEF Marcar, TarefasBem, UmaTarefa
    <2>2. CASE ~Marcar(t)
      BY <1>1, <2>2 DEF Despacho, Pedir, ReenfileirarLer, ReenfileirarMudar, Reenfileiraveis,
                  LerPDF, Enviar, TarefaFalha, Redespachar
    <2>. QED
      BY <2>1, <2>2
  <1>2. ASSUME NEW h \in Atendentes, Conclusao(h)
        PROVE  situacao[p] \in {"pronto", "excluido"} => situacao'[p] = situacao[p]
    BY <1>2 DEF Conclusao, ConcluirLer, ConferirSlug, ConferirSlugFalha, Importar, GravarMapaDoPedido,
                RecusarQuestoes, Finalizar, AtendenteFalha
  <1>3. CASE Processador
    BY <1>3 DEF Processador, Pegar, Claude, SemResposta, Entregar, AvisarFalha
  <1>4. ASSUME NEW q \in Pedidos, Excluir(q) \/ DescartarPDF(q)
        PROVE  situacao'[p] = situacao[p] \/ situacao'[p] = "excluido"
    BY <1>4 DEF Excluir, DescartarPDF
  <1>5. CASE \/ \E s \in Slugs : ImportarNaTela(s)
             \/ \E s \in Slugs : ExcluirMapa(s)
             \/ MorrerBackend \/ MorrerProcessador \/ InsistirNoRedespacho
    BY <1>5 DEF ImportarNaTela, ExcluirMapa, MorrerBackend, MorrerProcessador, InsistirNoRedespacho
  <1>. QED
    BY <1>1, <1>2, <1>3, <1>4, <1>5 DEF Next

\* A finished request stays finished until it is deleted, and a deleted one
\* never comes back, however late the other actors are.
THEOREM DesfechoSempreDefinitivo == Spec => DesfechoEhDefinitivo
  <1>. DEFINE A == \A p \in Pedidos :
                      /\ situacao[p] = "pronto" => situacao'[p] \in {"pronto", "excluido"}
                      /\ situacao[p] = "excluido" => situacao'[p] = "excluido"
  <1>1. Spec => []Tipos
    BY TiposNoInicio, TiposNoPasso, PTL DEF Spec
  <1>2. Tipos /\ [Next]_vars => [A]_vars
    BY DesfechoNoPasso
  <1>. QED
    BY <1>1, <1>2, PTL DEF Spec, DesfechoEhDefinitivo

-----------------------------------------------------------------------------
(* No request is worked on twice at a time.                                *)

\* The hands hold no request when idle: the queue and the set of requests
\* the processor has agree only with this.
MaosVazias == maos.fase = "ociosa" => maos.pedido = Nenhum

FilaInv == Tipos /\ SemTrabalhoDobrado /\ MaosVazias

\* A request the queue does not hold joins it at the end: none is repeated.
LEMMA EntrarNaFila ==
    ASSUME NEW f \in Seq(Pedidos), IsInjective(f), NEW p \in Pedidos, p \notin ToSet(f)
    PROVE  IsInjective(Append(f, p)) /\ ToSet(Append(f, p)) = ToSet(f) \cup {p}
  <1>. DEFINE g == Append(f, p)
  <1>1. Len(g) = Len(f) + 1 /\ DOMAIN g = 1 .. Len(f) + 1 /\ DOMAIN f = 1 .. Len(f) /\ Len(f) \in Nat
    OBVIOUS
  <1>2. \A i \in 1 .. Len(f) : g[i] = f[i]
    OBVIOUS
  <1>3. g[Len(f) + 1] = p
    OBVIOUS
  <1>. HIDE DEF g
  <1>4. \A i \in 1 .. Len(f) : f[i] \in ToSet(f)
    BY <1>1 DEF ToSet
  <1>5. IsInjective(g)
    <2>. SUFFICES ASSUME NEW i \in DOMAIN g, NEW j \in DOMAIN g, g[i] = g[j] PROVE i = j
      BY DEF IsInjective
    <2>1. CASE i \in 1 .. Len(f) /\ j \in 1 .. Len(f)
      BY <1>1, <1>2, <2>1 DEF IsInjective
    <2>2. CASE i = Len(f) + 1 \/ j = Len(f) + 1
      <3>1. i \in 1 .. Len(f) => g[i] # p
        BY <1>2, <1>4
      <3>2. j \in 1 .. Len(f) => g[j] # p
        BY <1>2, <1>4
      <3>. QED
        BY <1>1, <1>3, <2>2, <3>1, <3>2
    <2>. QED
      BY <1>1, <2>1, <2>2
  <1>6. ToSet(g) = ToSet(f) \cup {p}
    <2>1. ToSet(g) \subseteq ToSet(f) \cup {p}
      BY <1>1, <1>2, <1>3, <1>4 DEF ToSet
    <2>2. ToSet(f) \cup {p} \subseteq ToSet(g)
      BY <1>1, <1>2, <1>3 DEF ToSet
    <2>. QED
      BY <2>1, <2>2
  <1>. QED
    BY <1>5, <1>6 DEF g

\* The head that leaves the queue is not left in it.
LEMMA SairDaFila ==
    ASSUME NEW f \in Seq(Pedidos), f # <<>>, IsInjective(f)
    PROVE  /\ IsInjective(Tail(f))
           /\ Head(f) \notin ToSet(Tail(f))
           /\ ToSet(f) = ToSet(Tail(f)) \cup {Head(f)}
  <1>. DEFINE g == Tail(f)
  <1>1. /\ Len(f) \in Nat \ {0} /\ DOMAIN f = 1 .. Len(f) /\ DOMAIN g = 1 .. Len(f) - 1
        /\ Head(f) = f[1]
    OBVIOUS
  <1>2. \A i \in 1 .. Len(f) - 1 : g[i] = f[i + 1]
    OBVIOUS
  <1>. HIDE DEF g
  <1>3. \A i \in 1 .. Len(f) - 1 : i + 1 \in DOMAIN f /\ i + 1 # 1
    BY <1>1
  <1>4. IsInjective(g)
    BY <1>1, <1>2, <1>3 DEF IsInjective
  <1>5. Head(f) \notin ToSet(g)
    BY <1>1, <1>2, <1>3 DEF IsInjective, ToSet
  <1>6. ToSet(f) = ToSet(g) \cup {Head(f)}
    <2>1. ASSUME NEW i \in 1 .. Len(f) PROVE f[i] \in ToSet(g) \cup {Head(f)}
      <3>1. CASE i = 1
        BY <1>1, <3>1
      <3>2. CASE i # 1
        <4>1. i - 1 \in 1 .. Len(f) - 1 /\ (i - 1) + 1 = i
          BY <1>1, <2>1, <3>2
        <4>. QED
          BY <1>1, <1>2, <4>1 DEF ToSet
      <3>. QED
        BY <3>1, <3>2
    <2>2. ToSet(g) \cup {Head(f)} \subseteq ToSet(f)
      BY <1>1, <1>2, <1>3 DEF ToSet
    <2>. QED
      BY <1>1, <2>1, <2>2 DEF ToSet
  <1>. QED
    BY <1>4, <1>5, <1>6 DEF g

\* What leaves the queue and its set alone, and keeps the request in hand,
\* keeps the invariant.
LEMMA FilaIgual ==
    ASSUME FilaInv, Tipos', UNCHANGED <<fila, naFila>>, maos'.pedido = maos.pedido,
           maos'.fase = "ociosa" => maos.fase = "ociosa"
    PROVE  FilaInv'
  BY DEF FilaInv, SemTrabalhoDobrado, MaosVazias

\* Putting the request down takes it from the set.
LEMMA FilaAoLargar ==
    ASSUME FilaInv, Tipos', fila' = fila, Largar
    PROVE  FilaInv'
  <1>1. Nenhum \notin ToSet(fila)
    BY PedidosValidos DEF FilaInv, Tipos, ProcBem, ToSet
  <1>. QED
    BY <1>1 DEF FilaInv, SemTrabalhoDobrado, MaosVazias, Largar, Ociosa

\* An answer either has the request put down or leaves it in hand.
LEMMA FilaAoResponder ==
    ASSUME FilaInv, Tipos', fila' = fila, NEW h, NEW r, Responder(h, r)
    PROVE  FilaInv'
  <1>. maos \in Maos
    BY DEF FilaInv, Tipos, ProcBem
  <1>1. CASE Largar
    BY <1>1, FilaAoLargar
  <1>2. CASE naFila' = naFila /\ maos'.pedido = maos.pedido
             /\ (maos'.fase = "ociosa" => maos.fase = "ociosa")
    BY <1>2, FilaIgual
  <1>. QED
    BY <1>1, <1>2 DEF Responder, Ler, Maos

\* Every step keeps it.
LEMMA FilaNoPasso ==
    ASSUME FilaInv, [Next]_vars
    PROVE  FilaInv'
  <1>. Tipos /\ Tipos' /\ TarefasBem /\ ProcBem /\ SemTrabalhoDobrado /\ MaosVazias
    BY TiposNoPasso DEF FilaInv, Tipos
  <1>1. CASE UNCHANGED vars
    BY <1>1, FilaIgual DEF vars, proc
  <1>2. ASSUME NEW t \in Tarefas, Despacho(t) PROVE FilaInv'
    <2>1. CASE UNCHANGED proc
      BY <2>1, FilaIgual DEF proc
    <2>2. ASSUME NEW chegou \in BOOLEAN, NEW ouviu \in BOOLEAN, Enviar(t, chegou, ouviu)
          PROVE  FilaInv'
      <3>. DEFINE p == tarefa[t].pedido
      <3>1. p \in Pedidos /\ maos' = maos
        BY <2>2 DEF Enviar, TarefasBem
      <3>2. CASE UNCHANGED <<fila, naFila>>
        BY <3>1, <3>2, FilaIgual
      <3>3. CASE p \notin naFila /\ fila' = Append(fila, p) /\ naFila' = naFila \cup {p}
        <4>1. p \notin ToSet(fila) /\ p # maos.pedido
          BY <3>1, <3>3, PedidosValidos DEF SemTrabalhoDobrado
        <4>2. IsInjective(fila') /\ ToSet(fila') = ToSet(fila) \cup {p}
          BY <3>1, <3>3, <4>1, EntrarNaFila DEF SemTrabalhoDobrado, ProcBem
        <4>. QED
          BY <3>1, <3>3, <4>1, <4>2 DEF FilaInv, SemTrabalhoDobrado, MaosVazias, ToSet
      <3>. QED
        BY <2>2, <3>2, <3>3 DEF Enviar, iniciar
    <2>. QED
      BY <1>2, <2>1, <2>2 DEF Despacho, Pedir, ReenfileirarLer, ReenfileirarMudar, LerPDF, Marcar,
                              TarefaFalha, Redespachar
  <1>3. ASSUME NEW h \in Atendentes, Conclusao(h) PROVE FilaInv'
    <2>1. fila' = fila
      BY <1>3 DEF Conclusao, ConcluirLer, ConferirSlug, ConferirSlugFalha, Importar, GravarMapaDoPedido,
                  RecusarQuestoes, Finalizar, AtendenteFalha
    <2>2. CASE \E r : Responder(h, r)
      BY <2>1, <2>2, FilaAoResponder
    <2>3. CASE UNCHANGED <<maos, naFila>>
      BY <2>1, <2>3, FilaIgual
    <2>. QED
      BY <1>3, <2>2, <2>3 DEF Conclusao, ConcluirLer, ConferirSlug, ConferirSlugFalha, Importar, GravarMapaDoPedido,
                  RecusarQuestoes, Finalizar, AtendenteFalha, Passar
  <1>4. CASE Pegar
    <2>1. /\ IsInjective(fila') /\ Head(fila) \notin ToSet(fila')
          /\ ToSet(fila) = ToSet(fila') \cup {Head(fila)}
      BY <1>4, SairDaFila DEF Pegar, ProcBem, SemTrabalhoDobrado
    <2>2. Head(fila) # Nenhum /\ maos.pedido = Nenhum
      BY <1>4, PedidosValidos DEF Pegar, ProcBem, MaosVazias
    <2>3. maos'.pedido = Head(fila) /\ maos'.fase = "claude" /\ naFila' = naFila
      BY <1>4 DEF Pegar, Ociosa
    <2>. QED
      BY <2>1, <2>2, <2>3 DEF FilaInv, SemTrabalhoDobrado, MaosVazias
  <1>5. CASE Claude \/ SemResposta \/ \E h \in Atendentes : Entregar(h)
    BY <1>5, FilaIgual DEF Claude, SemResposta, Entregar, ProcBem, Maos
  <1>6. ASSUME NEW valeu \in BOOLEAN, NEW ouviu \in BOOLEAN, AvisarFalha(valeu, ouviu)
        PROVE  FilaInv'
    <2>1. CASE Largar
      BY <1>6, <2>1, FilaAoLargar DEF AvisarFalha
    <2>2. CASE maos' = [maos EXCEPT !.rede = @ + 1] /\ UNCHANGED naFila
      BY <1>6, <2>2, FilaIgual DEF AvisarFalha, ProcBem, Maos
    <2>. QED
      BY <1>6, <2>1, <2>2 DEF AvisarFalha
  <1>7. ASSUME NEW p \in Pedidos, Excluir(p) \/ DescartarPDF(p) PROVE FilaInv'
    BY <1>7, FilaIgual DEF Excluir, DescartarPDF, proc
  <1>8. CASE \/ \E s \in Slugs : ImportarNaTela(s) \/ ExcluirMapa(s)
             \/ MorrerBackend \/ InsistirNoRedespacho
    BY <1>8, FilaIgual DEF ImportarNaTela, ExcluirMapa, MorrerBackend, InsistirNoRedespacho, proc
  <1>9. CASE MorrerProcessador
    BY <1>9 DEF MorrerProcessador, Ociosa, FilaInv, SemTrabalhoDobrado, MaosVazias, IsInjective, ToSet
  <1>. QED
    BY <1>1, <1>2, <1>3, <1>4, <1>5, <1>6, <1>7, <1>8, <1>9 DEF Next, Processador

\* The same request is never worked on twice at a time, however often it is
\* delivered again and whichever service dies.
THEOREM NuncaTrabalhoDobrado == Spec => []SemTrabalhoDobrado
  <1>1. Init => FilaInv
    BY TiposNoInicio
    DEF Init, Ociosa, FilaInv, SemTrabalhoDobrado, MaosVazias, IsInjective, ToSet
  <1>2. FilaInv /\ [Next]_vars => FilaInv'
    BY FilaNoPasso
  <1>3. FilaInv => SemTrabalhoDobrado
    BY DEF FilaInv
  <1>. QED
    BY <1>1, <1>2, <1>3, PTL DEF Spec
=============================================================================
