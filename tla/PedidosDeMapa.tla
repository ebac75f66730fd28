--------------------------- MODULE PedidosDeMapa ----------------------------
(***************************************************************************)
(* The requests for mind maps of one account, across the two services that *)
(* handle them.                                                            *)
(*                                                                         *)
(* The backend (service/mapa_pedidos.go) keeps a row per request and hands *)
(* it to the processor over HTTP; the processor (service/mapas/fila.py)    *)
(* answers 202, keeps it in a queue in memory, works on one at a time with *)
(* Claude and posts the map, or the failure, back.  Every change of a row  *)
(* is one UPDATE that names the situations it may leave (MudarPedido); all *)
(* around it the backend reads, waits for the network and writes in steps  *)
(* of its own, and either service may die and come back at any time.       *)
(***************************************************************************)
EXTENDS Naturals, Sequences, SequencesExt, Functions

CONSTANTS
    Pedidos,     \* requests for a map
    Aulas,       \* those made from a PDF; the others carry a subject instead
    Slugs,       \* names Claude may give to a map
    Tarefas,     \* requests the backend dispatches from, at the same time
    Atendentes,  \* results the backend receives, at the same time
    Nenhum,      \* no request, no map, no request's map
    MaxVezes,    \* tries Claude has at a map the import refuses
    MaxRede,     \* tries the processor has at a call with no answer
    MaxCliques,  \* bound: how often "put back in the queue" is asked for
    MaxTelas,    \* bound: maps imported and deleted through the screen
    MaxMortes    \* bound: how often a service dies

ASSUME PedidosValidos ==
    /\ Aulas \subseteq Pedidos /\ Nenhum \notin Pedidos \cup Slugs
    /\ Pedidos \cap {"livre", "apagado", "tela"} = {}
ASSUME LimitesValidos == MaxVezes \in Nat \ {0} /\ MaxRede \in Nat \ {0}

VARIABLES
    situacao,    \* the rows: where each request is
    pdf,         \* is its PDF stored?
    mapaDe,      \* the map it generated
    mapas,       \* slug -> the request that wrote the map, "tela", "apagado" or "livre"
    tarefa,      \* backend: the dispatches in progress
    atendente,   \* backend: the results being imported
    fila,        \* processor: the queue
    naFila,      \* processor: the requests it has, against duplicates
    maos,        \* processor: the one it works on
    redespacho,  \* the call it makes on start: "pedir", its task, or "feito"
    cliques, telas, mortes

linhas   == <<situacao, pdf, mapaDe>>
backend  == <<tarefa, atendente>>
proc     == <<fila, naFila, maos>>
limites  == <<cliques, telas, mortes>>
vars     == <<linhas, mapas, backend, proc, redespacho, limites>>

Livre  == [fase |-> "livre", pedido |-> Nenhum, de |-> "na_fila", resto |-> {}]
Vago   == [fase |-> "vago", pedido |-> Nenhum, slug |-> Nenhum, visto |-> Nenhum]
Ociosa == [fase |-> "ociosa", pedido |-> Nenhum, slug |-> Nenhum, quem |-> Nenhum,
           vez |-> 1, rede |-> 0]

Init ==
    /\ situacao = [p \in Pedidos |-> "nenhum"]
    /\ pdf = [p \in Pedidos |-> FALSE]
    /\ mapaDe = [p \in Pedidos |-> Nenhum]
    /\ mapas = [s \in Slugs |-> "livre"]
    /\ tarefa = [t \in Tarefas |-> Livre]
    /\ atendente = [h \in Atendentes |-> Vago]
    /\ fila = <<>> /\ naFila = {} /\ maos = Ociosa
    /\ redespacho = "pedir"
    /\ cliques = 0 /\ telas = 0 /\ mortes = 0

\* There is something to hand to the processor.
TemOQueEntregar(p) == pdf[p] \/ p \notin Aulas

\* The account has a map of that name.
Existe(s) == mapas[s] \notin {"livre", "apagado"}

-----------------------------------------------------------------------------
(* Backend: dispatching.                                                   *)

\* A task ends; when the processor waits for it, it has its answer.
Liberar(t) ==
    /\ tarefa' = [tarefa EXCEPT ![t] = Livre]
    /\ redespacho' = IF redespacho = t THEN "feito" ELSE redespacho

Avancar(t, f) ==
    /\ tarefa' = [tarefa EXCEPT ![t].fase = f]
    /\ UNCHANGED redespacho

Comecar(t, p, f, de, resto) ==
    tarefa' = [tarefa EXCEPT ![t] = [fase |-> f, pedido |-> p, de |-> de, resto |-> resto]]

\* Pedir and PedirAssunto: the row is created and goes to the processor.
Pedir(t, p) ==
    /\ tarefa[t].fase = "livre"
    /\ situacao[p] = "nenhum"
    /\ situacao' = [situacao EXCEPT ![p] = "na_fila"]
    /\ pdf' = [pdf EXCEPT ![p] = p \in Aulas]
    /\ Comecar(t, p, "enviar", "na_fila", {})
    /\ UNCHANGED <<mapaDe, mapas, atendente, proc, redespacho, limites>>

Reenfileiraveis == {"falhou", "processando", "na_fila"}

ReenfileirarLer(t, p) ==
    /\ cliques < MaxCliques /\ cliques' = cliques + 1
    /\ tarefa[t].fase = "livre"
    /\ situacao[p] \in Reenfileiraveis
    /\ TemOQueEntregar(p)
    /\ Comecar(t, p, "lida", "na_fila", {})
    /\ UNCHANGED <<linhas, mapas, atendente, proc, redespacho, telas, mortes>>

ReenfileirarMudar(t) ==
    LET p == tarefa[t].pedido IN
    /\ tarefa[t].fase = "lida"
    /\ IF situacao[p] \in Reenfileiraveis
       THEN situacao' = [situacao EXCEPT ![p] = "na_fila"] /\ Avancar(t, "pdf")
       ELSE UNCHANGED situacao /\ Liberar(t)
    /\ UNCHANGED <<pdf, mapaDe, mapas, atendente, proc, limites>>

\* The PDF may be gone since the row was read: the task ends with an error,
\* and so does the redispatch it belongs to.
LerPDF(t) ==
    /\ tarefa[t].fase = "pdf"
    /\ IF TemOQueEntregar(tarefa[t].pedido) THEN Avancar(t, "enviar") ELSE Liberar(t)
    /\ UNCHANGED <<linhas, mapas, atendente, proc, limites>>

\* Slip: a request delivered again is queued again.
iniciar_SemConferir(p) ==
    /\ fila' = Append(fila, p)
    /\ naFila' = naFila \cup {p}

\* Processor: the same request delivered again is not duplicated.
iniciar(p) ==
    /\ fila' = IF p \in naFila THEN fila ELSE Append(fila, p)
    /\ naFila' = naFila \cup {p}

\* Processar: the work arrives or not, and its 202 is heard or not.
Enviar(t, chegou, ouviu) ==
    /\ tarefa[t].fase = "enviar"
    /\ ouviu => chegou
    /\ IF chegou THEN iniciar(tarefa[t].pedido) ELSE UNCHANGED <<fila, naFila>>
    /\ Avancar(t, IF ouviu THEN "aceito" ELSE "recusado")
    /\ UNCHANGED <<linhas, mapas, atendente, maos, limites>>

\* A redispatch goes on to one of the requests it has left.
Seguir(t) ==
    \/ tarefa[t].resto = {} /\ Liberar(t)
    \/ \E q \in tarefa[t].resto :
          /\ Comecar(t, q, "pdf", "processando", tarefa[t].resto \ {q})
          /\ UNCHANGED redespacho

\* Slip: the UPDATE does not name the situation it leaves.
Marcar_SemConferir(t) ==
    /\ tarefa[t].fase \in {"aceito", "recusado"}
    /\ situacao' = [situacao EXCEPT ![tarefa[t].pedido] =
                       IF tarefa[t].fase = "aceito" THEN "processando" ELSE "na_fila"]
    /\ Seguir(t)
    /\ UNCHANGED <<pdf, mapaDe, mapas, atendente, proc, limites>>

\* The end of despachar: the row moves on if it is still where the task
\* found it; if not, the task ends with an error and what it had left with it.
Marcar(t) ==
    LET p == tarefa[t].pedido IN
    /\ tarefa[t].fase \in {"aceito", "recusado"}
    /\ IF situacao[p] = tarefa[t].de
       THEN /\ situacao' = [situacao EXCEPT ![p] =
                               IF tarefa[t].fase = "aceito" THEN "processando" ELSE "na_fila"]
            /\ Seguir(t)
       ELSE UNCHANGED situacao /\ Liberar(t)
    /\ UNCHANGED <<pdf, mapaDe, mapas, atendente, proc, limites>>

\* A statement of the task fails.
TarefaFalha(t) ==
    /\ tarefa[t].fase # "livre"
    /\ Liberar(t)
    /\ UNCHANGED <<linhas, mapas, atendente, proc, limites>>

\* The processor, just up, asks for what it had.
Redespachar(t) ==
    LET lista == {p \in Pedidos : situacao[p] = "processando" /\ TemOQueEntregar(p)} IN
    /\ redespacho = "pedir"
    /\ tarefa[t].fase = "livre"
    /\ \/ /\ lista = {}
          /\ redespacho' = "feito"
          /\ UNCHANGED tarefa
       \/ \E p \in lista :
             /\ Comecar(t, p, "pdf", "processando", lista \ {p})
             /\ redespacho' = t
    /\ UNCHANGED <<linhas, mapas, atendente, proc, limites>>

Excluir(p) ==
    /\ situacao[p] \in Reenfileiraveis \cup {"pronto"}
    /\ situacao' = [situacao EXCEPT ![p] = "excluido"]
    /\ pdf' = [pdf EXCEPT ![p] = FALSE]
    /\ mapaDe' = [mapaDe EXCEPT ![p] = Nenhum]
    /\ UNCHANGED <<mapas, backend, proc, redespacho, limites>>

\* Slip: the sweep takes the PDF of any request that has waited a week.
DescartarPDF_Qualquer(p) ==
    /\ pdf[p]
    /\ \A t \in Tarefas : tarefa[t].pedido = p => tarefa[t].fase = "lida"
    /\ pdf' = [pdf EXCEPT ![p] = FALSE]
    /\ UNCHANGED <<situacao, mapaDe, mapas, backend, proc, redespacho, limites>>

\* The worker's sweep: the PDF of a request that failed a week ago.  No task
\* takes a week: the one in progress has only just read the row.
DescartarPDF(p) ==
    /\ situacao[p] = "falhou" /\ pdf[p]
    /\ \A t \in Tarefas : tarefa[t].pedido = p => tarefa[t].fase = "lida"
    /\ pdf' = [pdf EXCEPT ![p] = FALSE]
    /\ UNCHANGED <<situacao, mapaDe, mapas, backend, proc, redespacho, limites>>

\* The student imports a map of their own through the screen, or deletes one.
NaTela == telas < MaxTelas /\ telas' = telas + 1

ImportarNaTela(s) ==
    /\ NaTela
    /\ mapas' = [mapas EXCEPT ![s] = "tela"]
    /\ UNCHANGED <<linhas, backend, proc, redespacho, cliques, mortes>>

ExcluirMapa(s) ==
    /\ NaTela
    /\ Existe(s)
    /\ mapas' = [mapas EXCEPT ![s] = "apagado"]
    /\ UNCHANGED <<linhas, backend, proc, redespacho, cliques, mortes>>

-----------------------------------------------------------------------------
(* Processor: one request at a time.                                       *)

Pegar ==
    /\ maos.fase = "ociosa" /\ fila # <<>>
    /\ maos' = [Ociosa EXCEPT !.fase = "claude", !.pedido = Head(fila)]
    /\ fila' = Tail(fila)
    /\ UNCHANGED <<linhas, mapas, backend, naFila, redespacho, limites>>

\* Claude makes a map under some name, or cannot (not connected, refused).
Claude ==
    /\ maos.fase = "claude"
    /\ \/ \E s \in Slugs : maos' = [maos EXCEPT !.fase = "entregar", !.slug = s, !.rede = 0]
       \/ maos' = [maos EXCEPT !.fase = "avisar", !.rede = 0]
    /\ UNCHANGED <<linhas, mapas, backend, fila, naFila, redespacho, limites>>

Entregar(h) ==
    /\ maos.fase = "entregar" /\ atendente[h].fase = "vago"
    /\ atendente' = [atendente EXCEPT ![h] =
          [fase |-> "chegou", pedido |-> maos.pedido, slug |-> maos.slug, visto |-> Nenhum]]
    /\ maos' = [maos EXCEPT !.fase = "esperando", !.quem = h]
    /\ UNCHANGED <<linhas, mapas, tarefa, fila, naFila, redespacho, limites>>

\* Slip: the request stays among those it has.
Largar_SemDescartar ==
    /\ maos' = Ociosa
    /\ UNCHANGED naFila

\* Done with the request, one way or another.
Largar ==
    /\ maos' = Ociosa
    /\ naFila' = naFila \ {maos.pedido}

\* The backend does not answer: it tries again, and in the end gives up.
SemResposta ==
    /\ maos.fase \in {"entregar", "esperando"}
    /\ maos' = IF maos.rede + 1 < MaxRede
               THEN [maos EXCEPT !.fase = "entregar", !.quem = Nenhum, !.rede = @ + 1]
               ELSE [maos EXCEPT !.fase = "avisar", !.quem = Nenhum, !.rede = 0]
    /\ UNCHANGED <<linhas, mapas, backend, fila, naFila, redespacho, limites>>

\* The failure is told; backend (Falhar): only what is being processed fails.
\* Any answer will do, also that of a backend that could not write it.
AvisarFalha(valeu, ouviu) ==
    LET p == maos.pedido IN
    /\ maos.fase = "avisar"
    /\ situacao' = IF valeu /\ situacao[p] = "processando"
                   THEN [situacao EXCEPT ![p] = "falhou"] ELSE situacao
    /\ IF ouviu \/ maos.rede + 1 = MaxRede THEN Largar
       ELSE maos' = [maos EXCEPT !.rede = @ + 1] /\ UNCHANGED naFila
    /\ UNCHANGED <<pdf, mapaDe, mapas, backend, fila, redespacho, limites>>

\* The processor reads an answer of the backend.
Ler(resposta) ==
    \/ /\ resposta \in {"aceito", "fora_de_hora"}
       /\ Largar
    \/ /\ resposta = "recusado" /\ maos.vez < MaxVezes
       /\ maos' = [maos EXCEPT !.fase = "claude", !.quem = Nenhum, !.vez = @ + 1]
       /\ UNCHANGED naFila
    \/ /\ resposta = "erro" \/ (resposta = "recusado" /\ maos.vez = MaxVezes)
       /\ maos' = [maos EXCEPT !.fase = "avisar", !.quem = Nenhum, !.rede = 0]
       /\ UNCHANGED naFila

-----------------------------------------------------------------------------
(* Backend: importing a result (Concluir), a statement at a time.          *)

\* The answer reaches the processor if it still waits for this call.
Responder(h, resposta) ==
    /\ atendente' = [atendente EXCEPT ![h] = Vago]
    /\ IF maos.fase = "esperando" /\ maos.quem = h THEN Ler(resposta)
       ELSE UNCHANGED <<maos, naFila>>

Passar(h, f) ==
    /\ atendente' = [atendente EXCEPT ![h].fase = f]
    /\ UNCHANGED <<maos, naFila>>

ConcluirLer(h) ==
    LET p == atendente[h].pedido IN
    /\ atendente[h].fase = "chegou"
    /\ IF situacao[p] = "processando"
       THEN /\ atendente' = [atendente EXCEPT ![h] =
                  [fase |-> "lido", pedido |-> p, slug |-> atendente[h].slug, visto |-> mapaDe[p]]]
            /\ UNCHANGED <<maos, naFila>>
       ELSE Responder(h, "fora_de_hora")
    /\ UNCHANGED <<linhas, mapas, tarefa, fila, redespacho, limites>>

\* The outline is not one, or its slug is that of another map: back to
\* Claude with the reason.
ConferirSlug(h) ==
    LET a == atendente[h] IN
    /\ a.fase = "lido"
    /\ \/ Responder(h, "recusado")
       \/ (a.slug = a.visto \/ ~Existe(a.slug)) /\ Passar(h, "conferido")
    /\ UNCHANGED <<linhas, mapas, tarefa, fila, redespacho, limites>>

\* Slip: a query that fails passes for the map being there already.
ConferirSlugFalha_ComoAchado(h) ==
    /\ atendente[h].fase = "lido"
    /\ Passar(h, "importado")
    /\ UNCHANGED <<linhas, mapas, tarefa, fila, redespacho, limites>>

\* The query for that map fails, which counts as no map.
ConferirSlugFalha(h) ==
    /\ atendente[h].fase = "lido"
    /\ Passar(h, "conferido")
    /\ UNCHANGED <<linhas, mapas, tarefa, fila, redespacho, limites>>

Importar(h) ==
    LET a == atendente[h] IN
    /\ a.fase = "conferido"
    /\ mapas' = [mapas EXCEPT ![a.slug] = a.pedido]
    /\ Passar(h, "importado")
    /\ UNCHANGED <<linhas, tarefa, fila, redespacho, limites>>

\* No row, nothing noted.
GravarMapaDoPedido(h) ==
    LET a == atendente[h] IN
    /\ a.fase = "importado"
    /\ mapaDe' = IF situacao[a.pedido] = "excluido" THEN mapaDe
                 ELSE [mapaDe EXCEPT ![a.pedido] = a.slug]
    /\ Passar(h, "gravado")
    /\ UNCHANGED <<situacao, pdf, mapas, tarefa, fila, redespacho, limites>>

\* The questions or the pictures are refused; or their map, or the contest of
\* the request, was deleted meanwhile, and the answer is that of a request
\* nobody waits for.
RecusarQuestoes(h) ==
    /\ atendente[h].fase = "gravado"
    /\ Responder(h, "recusado") \/ Responder(h, "fora_de_hora")
    /\ UNCHANGED <<linhas, mapas, tarefa, fila, redespacho, limites>>

Finalizar(h) ==
    LET a == atendente[h] IN
    /\ a.fase = "gravado"
    /\ IF situacao[a.pedido] = "processando"
       THEN /\ situacao' = [situacao EXCEPT ![a.pedido] = "pronto"]
            /\ mapaDe' = [mapaDe EXCEPT ![a.pedido] = a.slug]
            /\ pdf' = [pdf EXCEPT ![a.pedido] = FALSE]
            /\ Responder(h, "aceito")
       ELSE /\ UNCHANGED linhas
            /\ Responder(h, "fora_de_hora")
    /\ UNCHANGED <<mapas, tarefa, fila, redespacho, limites>>

\* A statement fails, or the call is cancelled.
AtendenteFalha(h) ==
    /\ atendente[h].fase # "vago"
    /\ Responder(h, "erro")
    /\ UNCHANGED <<linhas, mapas, tarefa, fila, redespacho, limites>>

-----------------------------------------------------------------------------
(* Deaths, and the processor's first call.                                 *)

Morrer == mortes < MaxMortes /\ mortes' = mortes + 1

MorrerBackend ==
    /\ Morrer
    /\ tarefa' = [t \in Tarefas |-> Livre]
    /\ atendente' = [h \in Atendentes |-> Vago]
    /\ redespacho' = IF redespacho \in Tarefas THEN "pedir" ELSE redespacho
    /\ UNCHANGED <<linhas, mapas, proc, cliques, telas>>

MorrerProcessador ==
    /\ Morrer
    /\ fila' = <<>> /\ naFila' = {} /\ maos' = Ociosa
    /\ redespacho' = "pedir"
    /\ UNCHANGED <<linhas, mapas, backend, cliques, telas>>

\* No answer to the redispatch: it asks again, and in the end gives up.
InsistirNoRedespacho ==
    /\ \/ redespacho \in Tarefas /\ redespacho' = "pedir"
       \/ redespacho # "feito" /\ redespacho' = "feito"
    /\ UNCHANGED <<linhas, mapas, backend, proc, limites>>

-----------------------------------------------------------------------------
Despacho(t) ==
    \/ \E p \in Pedidos : Pedir(t, p) \/ ReenfileirarLer(t, p)
    \/ ReenfileirarMudar(t) \/ LerPDF(t) \/ Marcar(t) \/ TarefaFalha(t) \/ Redespachar(t)
    \/ \E chegou, ouviu \in BOOLEAN : Enviar(t, chegou, ouviu)

Conclusao(h) ==
    \/ ConcluirLer(h) \/ ConferirSlug(h) \/ ConferirSlugFalha(h) \/ Importar(h) \/ GravarMapaDoPedido(h)
    \/ RecusarQuestoes(h) \/ Finalizar(h) \/ AtendenteFalha(h)

Processador ==
    \/ Pegar \/ Claude \/ SemResposta
    \/ \E h \in Atendentes : Entregar(h)
    \/ \E valeu, ouviu \in BOOLEAN : AvisarFalha(valeu, ouviu)

Next ==
    \/ \E t \in Tarefas : Despacho(t)
    \/ \E h \in Atendentes : Conclusao(h)
    \/ Processador
    \/ \E p \in Pedidos : Excluir(p) \/ DescartarPDF(p)
    \/ \E s \in Slugs : ImportarNaTela(s) \/ ExcluirMapa(s)
    \/ MorrerBackend \/ MorrerProcessador \/ InsistirNoRedespacho

Spec == Init /\ [][Next]_vars

\* The processor's loop runs: Claude ends, a call gets an answer or times out.
FairSpec == Spec /\ WF_vars(Processador)

-----------------------------------------------------------------------------
(* Properties.                                                             *)

Situacoes == {"nenhum", "na_fila", "processando", "pronto", "falhou", "excluido"}

\* The variables have their types.
TypeOK ==
    /\ situacao \in [Pedidos -> Situacoes]
    /\ pdf \in [Pedidos -> BOOLEAN]
    /\ mapaDe \in [Pedidos -> Slugs \cup {Nenhum}]
    /\ mapas \in [Slugs -> Pedidos \cup {"livre", "apagado", "tela"}]
    /\ tarefa \in [Tarefas -> [fase : {"livre", "lida", "pdf", "enviar", "aceito", "recusado"},
                               pedido : Pedidos \cup {Nenhum}, de : {"na_fila", "processando"},
                               resto : SUBSET Pedidos]]
    /\ atendente \in [Atendentes ->
          [fase : {"vago", "chegou", "lido", "conferido", "importado", "gravado"},
           pedido : Pedidos \cup {Nenhum}, slug : Slugs \cup {Nenhum}, visto : Slugs \cup {Nenhum}]]
    /\ fila \in Seq(Pedidos) /\ naFila \in SUBSET Pedidos
    /\ maos \in [fase : {"ociosa", "claude", "entregar", "esperando", "avisar"},
                 pedido : Pedidos \cup {Nenhum}, slug : Slugs \cup {Nenhum},
                 quem : Atendentes \cup {Nenhum}, vez : 1 .. MaxVezes, rede : 0 .. MaxRede - 1]
    /\ redespacho \in {"pedir", "feito"} \cup Tarefas
    /\ cliques \in Nat /\ telas \in Nat /\ mortes \in Nat

\* A request in the hands of the processor can always be handed to it again:
\* while it is being processed its PDF is stored, whatever the sweep, the
\* repeated dispatches and the late results do.
ProcessandoTemOQueEntregar ==
    \A p \in Pedidos : situacao[p] = "processando" => TemOQueEntregar(p)

\* A finished request points at a map that was imported, and is still there
\* unless the student deleted it.
ProntoTemMapa ==
    \A p \in Pedidos : situacao[p] = "pronto" =>
        mapaDe[p] \in Slugs /\ mapas[mapaDe[p]] # "livre"

\* The same request is never worked on twice at a time: the queue repeats
\* none, and holds none of what is being worked on.
SemTrabalhoDobrado ==
    /\ IsInjective(fila)
    /\ maos.pedido \notin ToSet(fila)
    /\ naFila = ToSet(fila) \cup ({maos.pedido} \ {Nenhum})

\* A finished request stays finished until it is deleted, and a deleted one
\* never comes back: no late dispatch, failure or retry reopens it.
DesfechoEhDefinitivo ==
    [][\A p \in Pedidos :
          /\ situacao[p] = "pronto" => situacao'[p] \in {"pronto", "excluido"}
          /\ situacao[p] = "excluido" => situacao'[p] = "excluido"]_vars

\* The processor gets to the end of every request it accepts: none is left
\* in the queue for good, blocking its own new deliveries.
TodoTrabalhoTermina == \A p \in Pedidos : p \in naFila ~> p \notin naFila
=============================================================================
