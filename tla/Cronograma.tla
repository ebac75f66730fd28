----------------------------- MODULE Cronograma -----------------------------
(***************************************************************************)
(* One student's plan as the services of backend/internal/service change   *)
(* it, one request at a time: CronogramaService (mover, trocar, adiar,     *)
(* antecipar, compactar, restaurar, absorver, reorganizar), RegistroService*)
(* (registrar, estudar tema, limpar) and PlanoService (salvar).            *)
(*                                                                         *)
(* Every request reads the whole schedule, computes a new one and writes   *)
(* it in one transaction, which the database refuses when two rows share a *)
(* place or when a row with a record would go.  Requests that write in two *)
(* transactions have an interrupted form, the process or the database      *)
(* failing between the two.  Concurrent requests are in                    *)
(* BancoDoCronograma.tla.                                                  *)
(***************************************************************************)
EXTENDS Agenda

CONSTANTS
    Configs,     \* configurations a student may choose, records with `inicio'
    Gerar,       \* the planner: a configuration -> [dias, itens]
    Prova,       \* the day of the exam
    UltimoDia,   \* bound: the clock stops here
    Topico,      \* the topics of the syllabus
    Caderno,     \* the error notebook, worst topics first
    Datas,       \* bound: the days requests name
    Posicoes,    \* bound: the places requests name
    Operacoes,   \* bound: the kinds of request this instance makes
    MaxPedidos   \* bound: how many requests it makes

Temas == [rotulo : {"", "Dirigida", Reforco}, partes : SUBSET Topico]

\* A block as the planner proposes it.
Blocos == [data : 1 .. Prova, posicao : Nat, disciplina : STRING, tema : Temas, passada : {1, 2}]

\* The service refuses a plan that starts on the day of the exam or after it.
ASSUME Calendario == Prova \in Nat /\ \A cfg \in Configs : cfg.inicio \in 1 .. Prova - 1

\* Whatever day it is asked to start on, the planner answers with days up to
\* the exam and blocks on them.
ASSUME PlanoBemFormado ==
    \A cfg \in Configs : \A c \in {cfg} \cup {[cfg EXCEPT !.inicio = dt] : dt \in 1 .. Prova - 1} :
        Gerar[c].itens \in Seq(Blocos) /\ DOMAIN Gerar[c].dias \subseteq 1 .. Prova

\* Materializing a plan numbers the blocks of each day one by one.
ASSUME LugaresDoPlano ==
    \A cfg \in Configs : \A c \in {cfg} \cup {[cfg EXCEPT !.inicio = dt] : dt \in 1 .. Prova - 1} :
        LET itens == Gerar[c].itens
        IN  \A i, j \in DOMAIN itens :
                itens[i].data = itens[j].data /\ itens[i].posicao = itens[j].posicao => i = j

\* Requests name days and places by number.
ASSUME Pedidos == Datas \subseteq Int /\ Posicoes \subseteq Int

\* The notebook names subjects and their topics.
ASSUME CadernoDeBlocos == Caderno \in Seq(STRING \X SUBSET Topico)

\* The bounds are numbers, and the clock does not stop before a plan starts.
ASSUME Limites ==
    MaxPedidos \in Nat /\ UltimoDia \in Nat /\ \A cfg \in Configs : cfg.inicio <= UltimoDia

VARIABLES
    cronograma,  \* the stored activities, in (data, posicao) order
    registros,   \* what was recorded: id -> concluded?
    config,      \* the stored configuration
    hoje,        \* the current day
    recusa,      \* the request whose write the database refused, or "nenhuma"
    interrompida,\* a record or configuration was saved, the schedule not put right
    pedidos      \* requests made

vars == <<cronograma, registros, config, hoje, recusa, interrompida, pedidos>>

Pode(op) == /\ op \in Operacoes
            /\ pedidos < MaxPedidos
            /\ pedidos' = pedidos + 1

-----------------------------------------------------------------------------
(* What every service does around the domain functions.                    *)

PlanoDe(cfg) == Gerar[cfg]
Dias         == PlanoDe(config).dias

\* The last id given to a row of the list or to a stored one; the next ones
\* are new (uuid.New).
UltimoId(as) == Max({0} \cup IdsDe(as) \cup IdsDe(cronograma))

\* The blocks of a plan as rows, each with an id of its own.
Materializar(itens, ultimo) ==
    [k \in DOMAIN itens |->
        [id |-> ultimo + k, data |-> itens[k].data, posicao |-> itens[k].posicao,
         disciplina |-> itens[k].disciplina, tema |-> itens[k].tema, passada |-> itens[k].passada,
         movida |-> FALSE, antecipada |-> FALSE]]

Novas(cfg) == Materializar(PlanoDe(cfg).itens, UltimoId(cronograma))

\* Slip: the days that free up are left empty.
compactarDesde_SemReforco(as, desde, base, cfg, regs) ==
    CompactarAtividades(as, PlanoDe(cfg).dias, desde, DiasConcluidos(base, regs))

\* The days that freed up are filled with reinforcement.
Reforcado(as, plano, desde, concluidos) ==
    PreencherVazios(as, plano.dias, FilaDeReforco(plano.itens, plano.dias, Caderno),
                    desde, concluidos, UltimoId(as))

\* Closes the gaps from `desde' on and fills what frees up; `base' is the
\* schedule the finished days are read from.
compactarDesde(as, desde, base, cfg, regs) ==
    Reforcado(CompactarAtividades(as, PlanoDe(cfg).dias, desde, DiasConcluidos(base, regs)),
              PlanoDe(cfg), desde, DiasConcluidos(base, regs))

\* What arranging the studied blocks changed is packed from `desde' on.
Fechado(r, desde, cfg, regs) ==
    IF r.mudou THEN compactarDesde(r.as, desde, r.as, cfg, regs) ELSE r.as

\* Slips: nothing is put right after a schedule is rebuilt, and the packing
\* starts at today and drags along what was just concluded.
emDiaComOEstudado_Nunca(as, cfg, regs) == as

emDiaComOEstudado_DesdeHoje(as, cfg, regs) ==
    Fechado(ArrumarEstudado(as, PlanoDe(cfg).dias, hoje, regs), hoje, cfg, regs)

emDiaComOEstudado(as, cfg, regs) ==
    LET dias == PlanoDe(cfg).dias IN
    Fechado(ArrumarEstudado(as, dias, hoje, regs),
            Max({DiaDoEstudoFeito(dias, hoje), hoje}) + 1, cfg, regs)

\* SubstituirAtividades is accepted: no two rows in one place, and no row
\* with a record left out.
Gravavel(as, regs) ==
    /\ \A i, j \in DOMAIN as :
          (as[i].data = as[j].data /\ as[i].posicao = as[j].posicao) => i = j
    /\ DOMAIN regs \subseteq IdsDe(as)

\* Slip: the schedule is read back in the order it was computed.
Gravar_SemOrdem(op, as, regs) ==
    /\ cronograma' = IF Gravavel(as, regs) THEN as ELSE cronograma
    /\ recusa'     = IF Gravavel(as, regs) THEN "nenhuma" ELSE op

Gravar(op, as, regs) ==
    /\ cronograma' = IF Gravavel(as, regs) THEN ordenar(as) ELSE cronograma
    /\ recusa'     = IF Gravavel(as, regs) THEN "nenhuma" ELSE op

gravarEMontar(op, as) ==
    LET novo == emDiaComOEstudado(as, config, registros) IN
    /\ Gravar(op, novo, registros)
    /\ interrompida' = (interrompida /\ ~Gravavel(novo, registros))
    /\ UNCHANGED <<registros, config, hoje>>

-----------------------------------------------------------------------------
(* Opening the plan: the first reading of an empty schedule writes the     *)
(* whole of it.  Every other request starts from a plan already opened.    *)

Abrir ==
    /\ cronograma = <<>>
    /\ Gravar("abrir", Novas(config), registros)
    /\ UNCHANGED <<registros, config, hoje, interrompida, pedidos>>

Aberto == cronograma # <<>>
Concluidos == DiasConcluidos(cronograma, registros)

-----------------------------------------------------------------------------
(* CronogramaService.                                                      *)

\* A concluded activity does not move, and neither does one traded with it.
PodeMover(id, destino) ==
    /\ ~Concluida(registros, id)
    /\ DestinoValido(Dias, destino)
    /\ ~DestinoBloqueado(Dias, destino, Concluidos)

AlvoMovivel(id, destino, posicao) ==
    LET lista == doDia(cronograma, destino) IN
    posicao \in 0 .. Len(lista) - 1 =>
        (lista[posicao + 1].id = id \/ ~Concluida(registros, lista[posicao + 1].id))

\* Moving a subject to an earlier day leaves a gap, closed from today on.
PedirMover(id, destino, posicao) ==
    LET origem == PorID(cronograma, id).data
        movidas == Mover(cronograma, id, destino, posicao)
    IN  /\ Pode("mover") /\ Aberto /\ PodeMover(id, destino)
        /\ gravarEMontar("mover",
              IF destino < origem
              THEN compactarDesde(movidas, Max({origem, hoje}), cronograma, config, registros)
              ELSE movidas)

PedirTrocar(id, destino, posicao) ==
    /\ Pode("trocar") /\ Aberto /\ PodeMover(id, destino)
    /\ AlvoMovivel(id, destino, posicao)
    /\ gravarEMontar("trocar", Trocar(cronograma, id, destino, posicao))

PedirAdiarDia(data) ==
    LET cadeia == cadeiaDe(Dias, data, Concluidos) IN
    /\ Pode("adiar") /\ Aberto
    /\ data \notin Concluidos
    /\ Len(cadeia) >= 2
    /\ gravarEMontar("adiar", AdiarDia(cronograma, cadeia))

\* `dia' comes with the request; nothing ties it to the clock.
PedirAntecipar(id, dia) ==
    /\ Pode("antecipar") /\ Aberto
    /\ PorID(cronograma, id).data > dia =>
          DestinoValido(Dias, dia) /\ ~DestinoBloqueado(Dias, dia, Concluidos)
    /\ gravarEMontar("antecipar", AntecipouAtividade(cronograma, id, dia))

PedirCompactar ==
    /\ Pode("compactar") /\ Aberto
    /\ gravarEMontar("compactar", compactarDesde(cronograma, hoje, cronograma, config, registros))

RestaurarOrdem ==
    /\ Pode("restaurar") /\ Aberto
    /\ gravarEMontar("restaurar",
          Replanejar(SemMovidas(cronograma, hoje), Novas(config), hoje, registros))

\* Slip: the planner starts from the plan's first day, not from today.
redistribuirDesde_DoInicio(desde) ==
    LET antes   == SubFila(cronograma, {i \in DOMAIN cronograma : cronograma[i].data < desde})
        janela  == SubFila(cronograma, {i \in DOMAIN cronograma : cronograma[i].data >= desde})
        atuais  == SemMovidas(antes \o SemAtrasadas(janela, hoje, registros), hoje)
        novas   == SemConteudoJaConcluido(Novas(config), cronograma, registros)
        replanejadas == Replanejar(atuais, novas, hoje, registros)
    IN  CompactarAtividades(replanejadas, Dias, hoje, DiasConcluidos(replanejadas, registros))

\* The overdue days from `desde' on are emptied, and what is left of the
\* syllabus is planned again from today and compacted.
redistribuirDesde(desde) ==
    LET cfg     == [config EXCEPT !.inicio = hoje]
        antes   == SubFila(cronograma, {i \in DOMAIN cronograma : cronograma[i].data < desde})
        janela  == SubFila(cronograma, {i \in DOMAIN cronograma : cronograma[i].data >= desde})
        atuais  == SemMovidas(antes \o SemAtrasadas(janela, hoje, registros), hoje)
        novas   == SemConteudoJaConcluido(Novas(cfg), cronograma, registros)
        replanejadas == Replanejar(atuais, novas, hoje, registros)
    IN  CompactarAtividades(replanejadas, PlanoDe(cfg).dias, hoje,
                            DiasConcluidos(replanejadas, registros))

\* Asked for by the student or, once a day, by the worker.
AbsorverAtraso ==
    /\ Pode("absorver") /\ Aberto
    /\ DiasAtrasados(cronograma, hoje, registros) # {}
    /\ hoje < Prova
    /\ gravarEMontar("absorver", redistribuirDesde(0))

ReorganizarDesde(data) ==
    LET desde == Max({data, config.inicio})
        cfg   == [config EXCEPT !.inicio = desde]
    IN  /\ Pode("reorganizar") /\ Aberto
        /\ desde < Prova
        /\ desde < hoje => hoje < Prova
        /\ gravarEMontar("reorganizar",
              IF desde < hoje THEN redistribuirDesde(desde)
              ELSE Replanejar(SemMovidas(cronograma, desde), Novas(cfg), desde, registros))

-----------------------------------------------------------------------------
(* RegistroService.  The record is saved in a transaction of its own; the  *)
(* schedule is put right in a second one.                                  *)

Lancar(id, concluido) ==
    [x \in DOMAIN registros \cup {id} |-> IF x = id THEN concluido ELSE registros[x]]

\* Slip: undoing a conclusion leaves the activity marked as ahead of time.
SemAntecipada_Nunca(as, id) == as

SemAntecipada(as, id) ==
    [i \in DOMAIN as |-> IF as[i].id = id THEN [as[i] EXCEPT !.antecipada = FALSE] ELSE as[i]]

\* The schedule Registrar writes after the record.
DepoisDoRegistro(as, id, concluido, regs) ==
    IF concluido THEN emDiaComOEstudado(as, config, regs)
    ELSE SemAntecipada(as, id)

Registrar(id, concluido) ==
    LET regs == Lancar(id, concluido)
        novo == DepoisDoRegistro(cronograma, id, concluido, regs)
    IN  /\ Pode("registrar") /\ Aberto
        /\ registros' = regs
        /\ Gravar("registrar", novo, regs)
        /\ interrompida' = (~Gravavel(novo, regs) \/ (~concluido /\ interrompida))
        /\ UNCHANGED <<config, hoje>>

\* The second transaction never happens.
RegistrarInterrompido(id, concluido) ==
    /\ Pode("falha") /\ Aberto
    /\ registros' = Lancar(id, concluido)
    /\ interrompida' = TRUE
    /\ recusa' = "nenhuma"
    /\ UNCHANGED <<cronograma, config, hoje>>

NovoId == UltimoId(cronograma) + 1

EhTopicoDe(id, topico) == topico \in PorID(cronograma, id).tema.partes

\* One topic of a block is marked as studied: it is split off and stored,
\* then recorded as concluded like any other activity.
EstudarTema(id, topico) ==
    LET separadas == SepararTema(cronograma, id, topico, NovoId)
        quem == IF separadas = cronograma THEN id ELSE NovoId
        regs == Lancar(quem, TRUE)
        novo == DepoisDoRegistro(ordenar(separadas), quem, TRUE, regs)
    IN  /\ Pode("estudar") /\ Aberto
        /\ EhTopicoDe(id, topico)
        /\ IF Gravavel(separadas, registros)
           THEN /\ registros' = regs
                /\ cronograma' = ordenar(IF Gravavel(novo, regs) THEN novo ELSE separadas)
                /\ recusa' = IF Gravavel(novo, regs) THEN "nenhuma" ELSE "estudar"
                /\ interrompida' = ~Gravavel(novo, regs)
           ELSE /\ recusa' = "estudar"
                /\ UNCHANGED <<cronograma, registros, interrompida>>
        /\ UNCHANGED <<config, hoje>>

\* The topic is split off and its record is not made.
EstudarTemaInterrompido(id, topico) ==
    LET separadas == SepararTema(cronograma, id, topico, NovoId)
    IN  /\ Pode("estudar_falha") /\ Aberto
        /\ EhTopicoDe(id, topico)
        /\ Gravar("estudar_falha", separadas, registros)
        /\ interrompida' = (interrompida \/ Gravavel(separadas, registros))
        /\ UNCHANGED <<registros, config, hoje>>

LimparRegistros ==
    /\ Pode("limpar") /\ Aberto
    /\ registros' = <<>>
    /\ recusa' = "nenhuma"
    /\ UNCHANGED <<cronograma, config, hoje, interrompida>>

-----------------------------------------------------------------------------
(* PlanoService.Salvar: the configuration, then the days ahead.            *)

\* From today, or from the new start of the plan when it moved back.
desdeQuando(antes, depois) ==
    IF depois.inicio < antes.inicio /\ depois.inicio < hoje THEN depois.inicio ELSE hoje

Salvar(cfg) ==
    LET replanejado == Replanejar(cronograma, Novas(cfg), desdeQuando(config, cfg), registros)
        novo == emDiaComOEstudado(replanejado, cfg, registros)
    IN  /\ Pode("salvar") /\ Aberto
        /\ cfg # config
        /\ config' = cfg
        /\ Gravar("salvar", novo, registros)
        /\ interrompida' = ~Gravavel(novo, registros)
        /\ UNCHANGED <<registros, hoje>>

SalvarInterrompido(cfg) ==
    /\ Pode("falha") /\ Aberto
    /\ cfg # config
    /\ config' = cfg
    /\ recusa' = "nenhuma"
    /\ interrompida' = TRUE
    /\ UNCHANGED <<cronograma, registros, hoje>>

-----------------------------------------------------------------------------
PassaODia ==
    /\ hoje < UltimoDia
    /\ hoje' = hoje + 1
    /\ recusa' = "nenhuma"
    /\ UNCHANGED <<cronograma, registros, config, interrompida, pedidos>>

Init ==
    /\ cronograma = <<>>
    /\ registros = <<>>
    /\ config \in Configs
    /\ hoje = config.inicio
    /\ recusa = "nenhuma"
    /\ interrompida = FALSE
    /\ pedidos = 0

Next ==
    \/ Abrir
    \/ \E id \in IdsDe(cronograma), dt \in Datas, p \in Posicoes : PedirMover(id, dt, p)
    \/ \E id \in IdsDe(cronograma), dt \in Datas, p \in Posicoes : PedirTrocar(id, dt, p)
    \/ \E dt \in Datas : PedirAdiarDia(dt)
    \/ \E id \in IdsDe(cronograma), dt \in Datas : PedirAntecipar(id, dt)
    \/ PedirCompactar
    \/ RestaurarOrdem
    \/ AbsorverAtraso
    \/ \E dt \in Datas : ReorganizarDesde(dt)
    \/ \E id \in IdsDe(cronograma), c \in BOOLEAN : Registrar(id, c)
    \/ \E id \in IdsDe(cronograma), c \in BOOLEAN : RegistrarInterrompido(id, c)
    \/ \E id \in IdsDe(cronograma), t \in Topico : EstudarTema(id, t)
    \/ \E id \in IdsDe(cronograma), t \in Topico : EstudarTemaInterrompido(id, t)
    \/ LimparRegistros
    \/ \E cfg \in Configs : Salvar(cfg)
    \/ \E cfg \in Configs : SalvarInterrompido(cfg)
    \/ PassaODia

Spec == Init /\ [][Next]_vars

-----------------------------------------------------------------------------
(* Properties.                                                             *)

\* The variables have their types, ids are not repeated and the stored rows
\* come back in (data, posicao) order.
TypeOK ==
    /\ \A i \in DOMAIN cronograma :
          /\ cronograma[i].id \in Nat /\ cronograma[i].data \in 1 .. Prova
          /\ cronograma[i].posicao \in Nat /\ cronograma[i].passada \in {1, 2}
          /\ cronograma[i].tema \in Temas
    /\ \A i, j \in DOMAIN cronograma : i < j =>
          /\ cronograma[i].id # cronograma[j].id
          /\ DataPosicaoMenor(cronograma[i], cronograma[j])
    /\ registros \in [DOMAIN registros -> BOOLEAN] /\ DOMAIN registros \subseteq Nat
    /\ config \in Configs /\ hoje \in 1 .. UltimoDia /\ pedidos \in 0 .. MaxPedidos
    /\ recusa \in Operacoes \cup {"nenhuma", "abrir"} /\ interrompida \in BOOLEAN

\* No sequence of requests leads the services to a schedule the database
\* refuses: a repeated place in a day, or a recorded activity left out.
NuncaRecusado == recusa = "nenhuma"

\* With the moves by hand too.  A trade alone may be refused: it writes the
\* index of its target in the day, where the positions stored may have a gap.
SoTrocarRecusado == recusa \in {"nenhuma", "trocar"}

\* A studied topic is not charged again: from today on, no pending block
\* without a record teaches for the first time what is already concluded,
\* whichever request rebuilt the days ahead.
EstudadoNaoVolta ==
    ~interrompida =>
        \A i \in DOMAIN cronograma :
            LET a == cronograma[i] IN
            coberta(a) /\ a.data >= hoje /\ ~Lancada(registros, a.id) =>
                Topicos(a) \cap TopicosFeitos(cronograma, registros) = {}

\* What is concluded is never left waiting on a day to come, second passes
\* included: it lies on a day gone by, or on the day what is studied ahead
\* goes to, the first of the plan when the plan has not begun.  (A plan none
\* of whose days receives has nowhere to put it.)
ConcluidaEmDia ==
    ~interrompida /\ DiaDoEstudoFeito(Dias, hoje) # 0 =>
        \A i \in DOMAIN cronograma :
            LET a == cronograma[i] IN
            Concluida(registros, a.id) /\ a.disciplina # SemDisciplina
                => a.data <= Max({hoje, DiaDoEstudoFeito(Dias, hoje)})

\* Rearranging by hand, postponing, compacting and splitting never lose a
\* topic: each keeps a block that teaches it for the first time.
TopicoNaoSome ==
    Aberto => \A t \in Topico : \E i \in DOMAIN cronograma :
                  coberta(cronograma[i]) /\ t \in cronograma[i].tema.partes

\* A block hidden from its day as studied ahead of time is a concluded one:
\* undoing the conclusion gives it back to the day.
AntecipadaConcluida ==
    ~interrompida =>
        \A i \in DOMAIN cronograma :
            cronograma[i].antecipada => Concluida(registros, cronograma[i].id)

NoMesmoDia(id) == PorID(cronograma', id).data = PorID(cronograma, id).data

\* No request that rebuilds the schedule or records study touches the days
\* gone by: what has a record there stays on its day.
PassadoNaoMuda ==
    [][\A i \in DOMAIN cronograma :
          LET a == cronograma[i] IN
          Lancada(registros, a.id) /\ a.data < hoje => NoMesmoDia(a.id)]_vars

\* Compacting leaves no open day of study without activities: a step that
\* leaves one is none.
CompactarSemVao ==
    [][(\E dt \in DOMAIN Dias :
            /\ dt >= hoje /\ Dias[dt].tipo = "est" /\ dt \notin Concluidos
            /\ CargaNoDia(cronograma', dt) = 0) => ~ PedirCompactar]_vars

\* Compacting keeps the order: of two blocks that are not repeated, the one
\* that came first still does.  (What a failure left undone is done with it.)
CompactarMantemAOrdem ==
    [][PedirCompactar /\ ~interrompida =>
          LET unica(a) == \A k \in DOMAIN cronograma :
                              Chave(cronograma[k]) = Chave(a) => cronograma[k] = a
              livre(a) == unica(a) /\ ~a.antecipada /\ a.data \notin Concluidos
          IN  \A i, j \in DOMAIN cronograma :
                  LET a == cronograma[i]
                      b == cronograma[j]
                  IN  i < j /\ livre(a) /\ livre(b) =>
                          DataPosicaoMenor(PorID(cronograma', a.id), PorID(cronograma', b.id))]_vars

\* The topics the planner has room for from today on.
Cabem == UNION {Topicos(a) : a \in {x \in ToSet(Novas([config EXCEPT !.inicio = hoje])) : coberta(x)}}

NaAgenda(t) == \E i \in DOMAIN cronograma : coberta(cronograma[i]) /\ t \in Topicos(cronograma[i])

\* The content of a lost day comes back: after the delay is absorbed, a topic
\* the planner has room for is studied or on the schedule.  It takes days
\* ahead with nothing recorded on them: what the planner put on a day that
\* keeps a recorded block is on no other.
AtrasoVoltaAAgenda ==
    [][AbsorverAtraso /\ (\A i \in DOMAIN cronograma :
              cronograma[i].data >= hoje => ~Lancada(registros, cronograma[i].id))
          => \A t \in Cabem : t \in TopicosFeitos(cronograma', registros') \/ NaAgenda(t)']_vars
=============================================================================
