# Verification of studygo

studygo plans a student's preparation for a public contest: it lays the topics of
the syllabus over the days that are left, records what was studied, puts the
schedule right when days are lost, and makes mind maps of lessons with Claude.
It is a Go backend over PostgreSQL (`src/backend`), a Python service that talks to
Claude (`src/processador`), a Svelte screen (`src/frontend`), and a worker that runs
once in a while beside the backend.

This directory holds TLA+ models of the parts where order, failure and concurrency
decide whether the program is right, the TLC configurations that check them on small
instances, and TLAPS proofs of what holds for every instance. Names follow the
source (Portuguese, without accents), so that a definition and the function it
models are found by the same word.

## How to run

    tlc -workers 2 -config refazer.cfg MCCronograma.tla      # one run
    tlapm PedidosDeMapa_proofs.tla                           # the proofs of a module

`PROJECT.json` lists the runs with their modules, a mutation of the code for every
property (a "Slip" operator in the modules, with the change a bug would make),
the source lines every definition models, the hazards of the code and the findings.

## The system

### Schedule

| part | where | state | operations |
|---|---|---|---|
| **Agenda**: the pure functions over the list of activities | `backend/internal/domain/plano` (`atividade.go`, `replanejar.go`, `estudado.go`, `topicos.go`) | none | Mover, Trocar, AdiarDia, AntecipouAtividade, CompactarAtividades, PreencherVazios, Replanejar, ArrumarEstudado, SepararTema and the filters around them |
| **Schedule service** | `service/cronograma_service.go`, `comum.go` | table `atividades` | mover, trocar, adiar, antecipar, compactar, restaurar, absorver atraso, reorganizar |
| **Records** | `service/registro_service.go` | table `registros_atividade` | registrar, registrar dia, estudar tema, limpar, notes |
| **Plan** | `service/plano_service.go` | the configuration (below), milestones (with the contest) | salvar (and replan), marcar marco |
| **Storage** | `adapter/postgres/cronograma_repo.go` and the migrations | rows, locks, the deferred UNIQUE, ON DELETE RESTRICT | SubstituirAtividades, SalvarRegistro, ... |
| **Worker** | `service/notificacao_service.go`, `varredura` of PDFs | the day it last ran | absorb delays, remind, discard PDFs |

Every request of this half has the same shape: read activities and records, compute a
whole new schedule, write it in one transaction that deletes what left and upserts the
rest. No version is compared, and recording a study writes in two transactions, one
for the record and one for the schedule. What must be right: what was studied is
never erased nor charged again; nothing of the syllabus is lost by rearranging it; the
past is not rewritten; a legal sequence of requests never leads to a schedule the
database refuses; two requests at a time do not spoil the table.

### Maps

| part | where | state | operations |
|---|---|---|---|
| **Requests for maps** | `service/mapa_pedidos.go`, `adapter/postgres/mapa_pedidos_repo.go` | a row per request: situation, PDF, map | Pedir, PedirAssunto, Reenfileirar, Redespachar, Excluir, Concluir, Falhar, the sweep of PDFs |
| **Queue of maps** | `processador/app/service/mapas/fila.py`, `adapter/backend/cliente.py` | a queue in memory, the set of requests it has, the one it works on | iniciar, processar, entregar, avisar, pedir redespacho |
| **Maps** | `service/mapas_service.go`, `adapter/postgres/mapas_repo.go` | the maps of the account by slug | import, delete, questions, pictures |
| **Claude**: connection, token, breaker | `processador/app/adapter/claude`, `adapter/editalproc/disjuntor.go` | a login session in a pseudo-terminal; closed, open, half open | connect, answer, trip, probe |

The row and the queue live in two processes joined by HTTP calls that may time out
after having had their effect, and either process may die. What must be right: a
request in the hands of the processor can be handed over again; a finished one has
its map and stays finished; no request is worked on twice at a time; every accepted
request leaves the queue; a map of the student's is never replaced in silence.

### Accounts, laws, contests, mind maps, planner

| part | where | state | operations |
|---|---|---|---|
| **Accounts and sessions** | `service/auth_service.go`, `adapter/postgres/usuario_repo.go`, the cookie in `httpapi/auth_handler.go` | tables `usuarios` and `refresh_tokens`, the browser's cookie, an access token per tab | register, log in, renew, log out, the sweep of dead rows |
| **Limiter** | `platform/middleware/limitador.go` | a bucket of tokens per client, in a bounded table | permitir, varrer |
| **Breaker** and **client** of the processor | `adapter/editalproc/disjuntor.go`, `client.go` | failures in a row, open until, probing | permite, sucesso, falha, fechado |
| **Laws** | `service/lei_service.go`, `domain/lei`, `adapter/postgres/lei_repo.go` | laws with their versions, questions, answers, links with the part (recorte) asked for | capture, publish, import questions, answer, link by hand or by search, read, delete |
| **Contests** | `service/concurso_service.go`, `adapter/postgres/concurso_repo.go` | contest, subjects with their tags, milestones, links; what the plan hangs on them | create, save the form, remove, links, tick |
| **Mind maps** | `service/mapa_service.go`, `mapa_exportacao.go`, `adapter/postgres/mapa_repo.go` | maps, links with topics, questions, answers, cuts | import an outline or a package, choose topics, answer, cut, delete |
| **Planner** (motor) | `domain/plano/motor.go`, `plano.go`, `date.go` | none | configuration and subjects -> days and blocks |
| **Configuration** | `service/plano_service.go`, `domain/plano/config.go`, `adapter/postgres/plano_repo.go` | the row of `planos`, the rows of `plano_disciplinas` | patch, correct, store, read |
| **Review queue** | `domain/plano/fila_revisao.go` | none | the topics to revisit on every guided-review day |

All of these read in one statement and write in another, and two tabs (or a tab and a student of
another account, for the limiter and the breaker) fall in between. What must be right: a spent token
opens nothing; no client passes its rate although the table forgets clients (it does, under one of
the two limits: a finding); only the processor's unavailability opens the breaker and a probe always
reports; linking is proposed and a topic shown as covered only when the text is there; answers,
choices and study history are lost only to whom asks for it; every topic the planner has room for is
taught; and a patch of one subject leaves the others alone.

### The rest

Migrations, the login of Claude, reading exam notices in the processor, spreadsheets and
questions of TEC, exports, statistics, the error notebook, the HTTP port, the screen, the
build: `PROJECT.json` lists every component with what is left out and why.

## The modules

    Agenda  <-  Cronograma  <-  MCCronograma, Cronograma_proofs
    Historia  <..implements..  BancoDoCronograma  <-  MCBancoDoCronograma, BancoDoCronograma_proofs
    PedidosDeMapa  <-  MCPedidosDeMapa, PedidosDeMapa_proofs
    Motor  <-  PlanoDoEstudante  <-  MCPlanoDoEstudante
    Contas  <-  MCContas, Contas_proofs
    Relogio  <-  Limitador, Disjuntor  <-  Importacao  <-  MCImportacao
    Limitador  <-  Limites  <-  MCLimites;  Limites, Importacao  <-  Importacao_proofs
    Recortes  <-  Leis  <-  MCLeis, Leis_proofs
    Concursos  <-  MCConcursos, Concursos_proofs
    MapasMentais  <-  MCMapasMentais, MapasMentais_proofs

**Agenda** translates the functions of the domain package, one operator for each. A
schedule is a sequence of records, as in Go it is a slice, because order within the
list decides ties (`sort.SliceStable`). The text of a theme is abstracted to the set of
topics it joins plus a label (`""`, `Dirigida`, `Reforco`), which is all the code takes
it apart into. Days are integers and the calendar is a function to kind and phase.
The operators are first-order, so that they can be reasoned about: what a loop
keeps of a list is a set of its places (`SubFila`), a stable sort puts each row at the
number of those that come up to it (`ordenar`), and a loop that carries a state is a
recursive function over its counter (`Empacotar`).

**Cronograma** has the stored rows (`cronograma`), the records (`registros`, a function
from ids to "concluded?"), the stored configuration and the clock, and one action per
operation of CronogramaService, RegistroService and PlanoService, one request at a
time. An action is the whole handler: guards from its early returns, the domain
functions it calls in their order, `emDiaComOEstudado` where it ends in it, and
`Gravar`, which accepts a schedule only if the database does. `recusa` remembers a
refused write. Operations that write twice have an interrupted form
(`RegistrarInterrompido`, `EstudarTemaInterrompido`, `SalvarInterrompido`): the process
fails between the transactions; `interrompida` says the schedule is not in step yet, be it
for such a failure or because the database refused the second write. EstudarTema sorts and
writes the split schedule before it records (`registro_service.go:141-176`), so a refusal of
what follows leaves the split one. The planner is the constant `Gerar`: the services use no
more of it than its result, of which the module assumes what Materializar gives it
(`PlanoBemFormado`: blocks on days up to the exam; `LugaresDoPlano`: numbered apart within a
day; `Calendario`: it starts before the exam).

**Historia** says what the database promises of a plan: rows come and go, one with a
record stays until the student erases the history. **BancoDoCronograma** is the
implementation: requests interleave statement by statement (`LerAtividades`,
`LerRegistros`, `SalvarRegistro`, `Comecar` (the snapshot of the DELETE), `Remover`,
`Gravar` (upsert and COMMIT)), in READ COMMITTED, with the rows a transaction deleted
locked by it, the deadlock detector (`Impasse`) and a death at any point (`Cair`). What
a request writes is any schedule that keeps the recorded activities it read and
repeats no place; that the services compute no other is `NuncaRecusado` of
Cronograma. So the two models divide the question: one for what is computed, one for
what happens to it.

**PedidosDeMapa** composes the two services. Rows: `situacao`, `pdf`, `mapaDe`. Backend:
`tarefa`, the dispatches in progress, each with the situation it read before the
network call and what a redispatch has left; `atendente`, the results being imported, a
statement at a time. Processor: `fila`, `naFila`, `maos`, and `redespacho`, the call it
makes on start. `Enviar(t, chegou, ouviu)` splits a call into what arrived and what was
heard of it, so a timeout after the effect is a step like any other. The session with
Claude is its outcome: a map under some name, or a failure. `mapas` says who last wrote
each name: a request, the screen, or nobody.

**Motor** translates the planner, with operators only: the calendar (`montarDias`), what is
guided review, eve or free, the weights of the subjects, the blocks each gets
(`distribui`, `distribuiReta`), their order (`ordena`, `despareia`, `desrepeteDias`), the
topics of each block (`reparte`, `puxaBloco`) and the numbering. `Gerar(p, cfg, concurso)`
holds when `p` is the plan the code makes of `cfg`: the stages are bound with
`\E x \in {e}`, so that each is computed once. A loop of the code that swaps or takes out as it
goes is a recursive function over its counter. Reinforcements are in hundredths and
remainders fractions; Go's float64 may tell apart two that are equal, here they keep the
order of the syllabus.

**PlanoDoEstudante** has the row of `planos` (`linha`), the rows of `plano_disciplinas` (`ajustes`)
and the subjects of the contest (`disciplinas`), and two kinds of action: a request that
patches the configuration (`Salvar`: load, `aplicarConfig` with every refusal and
correction, store) and an edit of the contest (`Acrescentar`, `Remover`). `proposta` is
what Motor makes of every configuration that arises, and `FilaRevisao` what its
guided-review days revisit. What Cronograma takes as given is here computed.

**Contas** has one browser with tabs that share its cookie. A request takes the cookie when
it leaves, its statements run one by one (`RefreshTokenValido`, `RevogarRefreshToken`, `PorID`,
`GuardarRefreshToken`, ...), any may fail, and its answer sets or erases the cookie when it
comes, if it comes. The sweep, expiry and the deletion of an account are steps of their own.
`gastos` and `tarde` are history: which tokens a finished request used up, and whether
the one a request presents was among them when it left.

**Limitador** and **Disjuntor** read the clock of **Relogio** and are the two stateful filters a
call to the processor goes through. A token is 60 parts and a second refills `PorMinuto` of them, so
that the float64 of the code is an integer. **Limites** is the limiter before a route, on its own,
with both limits of the router as constants (`LimitesPadrao`) and what was let through as history.
**Importacao** composes limiter and breaker: the wizard that imports an exam notice is limited and
shows the breaker on its screen before the upload, the capture of laws shares the client and so the
breaker. A request is checked, read, allowed, sent and reported in steps of their own, and
`seguidas` counts, beside the breaker, the unavailable answers in a row. What is read of an upload
is what the code reads: the body up to its limit, a PDF up to one byte past its own (`lerPDF`), a
text instead of the PDF when there is one; `pdf` keeps what the student sent and `lido` what goes on
to the processor.

**Recortes** has the part of a law a topic asks for: a set of roots of the tree of its
provisions, everything if empty; joining, covering, cutting, and reading a topic of the
notice as pieces that name the law, cite articles or say words of a heading. **Leis**
keeps laws with versions (named by their text), each with the recorte it was captured with,
questions per law, answers, and links per discipline; a tab is in the middle of a
capture, a publication or an import, between its reads and its writes. `pagina` is the
official page of the law today, which may gain a provision at any time (`Emendar`, external);
a search reads that page, the link and the reader read the version kept, and each version remembers,
as history, the page it was taken from.

**Concursos** saves the whole form over the contest: `preservarIdentidade` gives the
subjects of the form the rows they had, new ones get the first free tag of their name, those
left out are removed unless RESTRICT keeps them, milestones are overwritten by position.
The plan is there as what hangs on the rows: `agendadas`, `estudadas`, `cumpridos`.

**MapasMentais** imports an outline (itself, then its links one by one) or a package (a row of
such requests that may stop between any two), chooses topics, answers, cuts to the items of
an earlier edition and deletes, each request in the statements it makes.

## What the runs check

All `pass` runs end with no error; the two `violation` runs show where the code does other than
its own comment says, and each has a finding in `PROJECT.json`.

| run | question |
|---|---|
| `refazer` | recording, splitting a topic off, saving, restoring, reorganising, absorbing and erasing, with failures between transactions: what is studied lies in its day (`ConcluidaEmDia`), is not charged again (`EstudadoNaoVolta`), the past stays (`PassadoNaoMuda`), the content of lost days comes back (`AtrasoVoltaAAgenda`), and no write is refused (`NuncaRecusado`) |
| `arrumar` | moving, trading, postponing, anticipating, splitting and compacting never lose a topic (`TopicoNaoSome`), and only a trade may be refused (`SoTrocarRecusado`); compaction leaves no open day empty (`CompactarSemVao`) and keeps the order (`CompactarMantemAOrdem`); hidden as "studied ahead" means concluded (`AntecipadaConcluida`) |
| `banco` | two requests interleaved and dying: no orphan record (`ReferenciaIntegra`), what the locks guarantee (`RemovidasSemRegistro`), Historia implemented (`CumpreHistoria`); every request ends, also when two wait for each other (`TodoPedidoTermina`) |
| `mapas` | two dispatches of one request at a time, deliveries tried twice, a click, a death, refusals, the screen, the sweep: it can be handed over again (`ProcessandoTemOQueEntregar`), is worked on once at a time (`SemTrabalhoDobrado`), ends with a map that was imported (`ProntoTemMapa`), what ended stays so (`DesfechoEhDefinitivo`), and what the processor accepts leaves its queue (`TodoTrabalhoTermina`) |
| `contas` | two tabs over two accounts: a spent token opens nothing (`TokenGastoNaoRenova`), no session row outlives its account (`LinhaTemConta`), dead rows leave the table (`MortoSaiDaTabela`), and no dead token is presented for ever (`TokenMortoNaoVoltaSempre`) |
| `importacao` | three students and one breaker, behind the limit of the editais: only unavailability in a row opens the breaker (`AbreSoPorIndisponibilidade`), a half-open breaker has the call that will report (`SondaTemChamada`), and no PDF arrives cut, at the sizes of the code (`NadaTruncado`) |
| `limite_edital` (violation) | under the limit of the editais and with the table of clients full, a client whose bucket is empty is forgotten and gets a second burst (`TetoPorCliente`) |
| `leis` | two tabs over a law that gains an article meanwhile: linking is proposed only when the text kept lacks nothing of what the topic asks for but what the law gained since it was captured (`VincularBasta`), a topic shown as covered is covered in the reader (`CobreDeVerdade`), answers go only with their law (`HistoriaFica`) |
| `concursos` | two tabs save a contest that is being studied: a save keeps the schedule of what its form kept (`AgendadoFica`), no edit removes a subject with history (`EstudoFica`) |
| `concursos_marcos` (violation) | a milestone inserted before another takes its tick (`CumpridoDoMesmoMarco`) |
| `mentais` | two tabs import, cut, link and answer, with a package that stops half way: a choice of topics (`EscolhaFica`) and an answer (`RespostaFica`) are undone only by who asks for it |
| `plano` | under every configuration that three requests or edits reach: every topic of a subject that got blocks is taught (`TopicoEntra`), a postponed subject is studied once, in the reta final (`AdiadaUmaVez`), the review goes round without skipping a topic (`VoltaSemPular`), and a patch leaves the other subjects alone (`OutrosAjustesFicam`) |

### Other disagreements met while modelling

The models have these behaviours unless it is said otherwise (no guard was added to avoid one), and
the properties above are worded so that they say what does hold. None has a run of its own but the
limit of the editais.

*Schedule.* A trade writes the index of its target in the day, while the stored positions
may have a gap (`Replanejar` keeps what was moved by hand at its place): two rows then share
a place and the UNIQUE refuses the write (`atividade.go:373`; it takes a move, a save and a
trade). Absorbing a delay drops the topics planned for a day that already has a record
(`comum.go:308`, against `atraso_fluxo_test.go:53`). Erasing the history leaves activities
hidden as studied ahead (`registro_service.go:270`). Postponing a partly done day carries its
concluded activity along, and absorbing a delay may repack a block that has a record, so
`PassadoNaoMuda` is asked of `refazer`, where nothing is postponed, and of days gone by. Undoing
a conclusion with a failure between its transactions leaves the activity hidden, as does
splitting a topic off a hidden block without the record that follows, so
`AntecipadaConcluida` is asked of `arrumar`, without failures. Two rewrites at a time leave the
union of two schedules (`cronograma_repo.go:104`): rows inserted by the first are invisible
to the DELETE of the second. The typical load changes with the packing itself, so compacting
twice may differ from compacting once; a note of a day is written back whole; after a failed
replan, saving the same configuration again replans nothing (`plano_service.go:87`).

*Maps.* A failure told before the dispatch marks the row is lost, and the row is marked as
processed by nobody (`mapa_pedidos.go:249`). One request gone in the middle ends the redispatch and
those after it stay behind (`mapa_pedidos.go:178`). The processor drops its map on a 409 given to
a request that still waits (`fila.py:145`). A map imported on the screen between the check
of a slug and the import is replaced (`mapa_pedidos.go:282`).

*Accounts and processor.* A renewal past its revocation outlives the logout of another tab, and sets
the cookie again (`auth_service.go:132`), and two tabs that present one token may both find it valid
before either revokes it, and both be renewed (`auth_service.go:127`): `TokenGastoNaoRenova` speaks
of tokens a *finished* request used up. `router.go:41` says 12 an hour of a limit of 12 * 60 a
minute (`router.go:47`); for it the time to refill, in whole seconds, is zero, and the sweep of a
full table forgets everybody: that one has its run, `limite_edital`. A late result frees the probe
of another; a client that hangs up counts as a failure of the processor, a request that could not be
built as a success.

*Laws.* A search compares what today's page has of the topic with the recorte of the version kept,
not with its text (`lei_service.go:148-161`): once the law gains a provision under a root that was
captured, or when the whole law was, the search answers "vincular", that "a versão guardada já cobre
o tópico" (line 99), though the text kept lacks it. The run `leis` reaches this; `VincularBasta`
says what remains true, that nothing else is missing. A topic that cites an article not captured is
shown as covered by what was captured (`lei_service.go:710`, against 633-635 and 738-740), since
what it asks for is read against the text kept; `CobreDeVerdade` speaks of the provisions that text
has. Publishing while importing loses the answers' units; two first publications race on the slug;
an answer is graded by the gabarito it read.

*Contests.* Exchanging two tags, or reusing the tag of a subject being removed, stumbles on the
UNIQUE in mid-transaction though `Validar` let it pass. Removing a studied subject is refused
with an internal error. The save of a stale tab removes subjects another tab added, and drops
those another removed.

*Mind maps.* A cut compares only the number of items (`mapa.go:115`), so a map imported again with
as many takes the old tree back. Importing again brings back links the student removed, and leaves
questions of branches that are gone. A package sent again links as it was exported, over what the
student chose since (`mapa_exportacao.go:223`): `EscolhaFica` counts its link step as a request to
link.

*Plan.* A subject added to the contest after the plan has no row in `plano_disciplinas`, so no
blocks; postponing or reinforcing it is answered as done and not stored (`plano_repo.go:236`). A
postponed subject gets no block if the reta final has no guided review. Clearing `simulados` resets
the whole method (`config.go:114`). Removing the others leaves every subject postponed, which
`aplicarConfig` refuses. The review queue may list a topic twice in a day. Exchanging one
reinforcement day for another is not seen as a change (`plano_service.go:145`; of this Cronograma
has only that the configuration changed).

### Bounds, and why they are enough

*Cronograma*: one subject with three topics, a plan of six days that has every kind of
day (three of study, a free one, guided review, the eve) and both phases, one or two
blocks a day, so that blocks repeat, join several topics or fill a day. `MaxPedidos` is
three requests besides the passing of days: a gap takes a move, stumbling on it another,
a study recorded in between the third. `UltimoDia` stops the clock when the days of
study are over or just after; `Operacoes` names the requests a run makes, each property
having those that could break it together, and `Datas` and `Posicoes` the days and
places they name: a day of the past or present and one ahead, a first place and a
second. Ids are numbers, each new one past all that the schedule in hand and the stored one have
(`uuid.New()` gives what no row has); none is bounded. A row that went without a record may leave its
number to a later one: nothing else names it any more. Because clock and requests end,
`CHECK_DEADLOCK FALSE`. In `refazer` there are two configurations, which differ in the blocks of a day and
the start, the parts of a configuration these functions look at; `arrumar` has one.

*BancoDoCronograma*: two requests, as every conflict in the code is between two; two ids
and two places, so that rows are removed, kept, brought back and created, both may want
the same place and each may wait for a row of the other. It starts with a schedule
stored or none yet (the first reading materialises it). A request begins again when it
ended, without bound. The safety of any number of requests, ids and places is proved.

*PedidosDeMapa*: the bounds are `MaxVezes` (a constant of the code, made two), `MaxRede`,
`MaxCliques`, `MaxTelas` and `MaxMortes`, one each. There is one request, since requests meet only
in the queue, two dispatches of it and one name for its map. Several requests, results imported at
the same time, more names and larger bounds are covered by the proofs. With all used up and
everything deleted nothing is left to do, so `CHECK_DEADLOCK FALSE`.

*Contas*: two accounts (one stays while the other is deleted), two tabs (every conflict is between
two requests) and two tokens: one to be spent and the one it is exchanged for. Tokens run out,
so the system may stop.

*Importacao*: three students, the last to make the third failure in a row, of whose buckets the
table has room for one; the limit of the editais as the router has it. Three failures open the
breaker for two seconds of six, so that it opens, is probed, closes and opens again. PDFs are empty,
at the limit of the code, one byte past it, between it and the limit of the body, and larger than
both; texts empty, short and too large. `MCImportacao` has the students symmetric; no liveness is
checked.

*Limites*: two clients, of whose buckets the table has room for one instead of 10 000; the violation
needs no time to pass. The limit of the authentication has no run: a bucket refills in 30 seconds
and holds ten tokens, and what it promises is proved for any number of clients
(`TetoDaAutenticacao`).

*Leis*: a chapter with an article, which the law has only later (`Emendas`), and another article
outside it, so that a recorte may hold all, part or none of a topic and a version may lack what the
page has. A page has one wording: a text differs from another by its recorte and by the article.
Three ids and two versions, so that a version is replaced and put back, a law is deleted and
created again. One question key.

*Concursos*: two subjects whose names derive the same tag, a third row for one that comes back, two
links; one milestone in `concursos`, two in `concursos_marcos`, which is what an insertion before
another takes.

*MapasMentais*: a branch and an item, an edition with both and one with the branch alone, two
question keys on the same branch, a package with study and one without, two map ids (one deleted and imported
again). An edition of the contest may take the topic a link names.

*PlanoDoEstudante*: three subjects, one without topics, and a fourth added later, with 3, 7, 0 and 2
topics, weights and numbers of questions that differ; the exam three weeks off, or moved
nearer and farther, or already past. `MaxPedidos` is three: every pair of patches meets, and a
third follows. The 18 patches (`MCComandos`) each reach a correction or a refusal of
`aplicarConfig` or a branch of the planner. `MCFaltas` are the days missed that the queue carries over.

### Fairness

`BancoDoCronograma.FairSpec`: weak fairness of each request's next step (the server runs
what it can), strong fairness of the statements that wait for locks (PostgreSQL wakes
waiters in order, so a row released again and again reaches each of them). Nothing is
assumed of deaths, and the deadlock detector is itself a step.

`PedidosDeMapa.FairSpec`: weak fairness of the processor alone: its loop goes on, the
session with Claude has a limit of time and every HTTP call a timeout, after which it
tries again or gives up. Nothing is assumed of the backend, which may never answer.

`Contas.FairSpec`: weak fairness of the sweep (the worker runs it every day), of every statement
of the server, and of the answers; strong fairness of the answer to a refused renewal, which a
lost answer disables again and again but not for ever. Nothing is assumed of the student.

Leis, Concursos, MapasMentais, Importacao and PlanoDoEstudante promise no liveness.

## What is proved

Type correctness of five modules, each safety property of seven and all but three of the schedule's, for
every set of requests, ids, places, slugs, dispatches, tabs, accounts, students, forms, syllabuses and
calendars, every planner, and every bound. Where a type
invariant is a theorem (`TiposSempre`) the run of its module does not check it again.

*BancoDoCronograma_proofs* (assuming only `IniciaisValidos`: the schedules stored at the start
repeat no place). `ReferenciaIntegra` is not inductive: a COMMIT removes rows chosen at the DELETE,
long before. The invariant adds `RemovidasSemRegistro`, what the locks give: rows already deleted by
an open transaction are still in the committed table, belong to it alone and carry no record. A
record cannot arrive, since SalvarRegistro waits for the row; a second transaction cannot hold it,
since Remover waits too. `CumpreHistoria` maps COMMIT to Reescrever, a record to Lancar, the erasing
to Esquecer and the rest to stutters.

*PedidosDeMapa_proofs* (assuming `PedidosValidos`: a request is no slug, screen or absent
map; and `LimitesValidos`: at least one try).

- `ProcessandoTemOQueEntregar` needs `EnvioTem`: a dispatch that passed the reading of the
  PDF found one, and it is stored still, or the row is in a situation from which the
  late UPDATE will not mark it. That no sweep overtakes a dispatch (a week against
  minutes) is in the guard of DescartarPDF and is what the mutation drops.
- `ProntoTemMapa` needs `ImportadoTemMapa`: a result past the import has its slug among the
  maps, whoever wrote them since.
- `SemTrabalhoDobrado` needs `MaosVazias`: idle hands hold no request.
- `DesfechoEhDefinitivo`, an action property, follows from the types: every UPDATE
  names the situation it may leave.

*Contas_proofs* (assuming `NenhumValido`: no account or token is the absent one).
`TokenGastoNaoRenova` needs that revocation is final (`Gastos`), that a request past its own
revocation carries a revoked token (`Revogados`), and that a request noted as late
presents a spent one (`Tardes`); `LinhaTemConta` needs that a token somebody holds was
inserted (`Emitidos`) and that only some routes pass some steps (`Rotas`).

*Importacao_proofs* (assuming the constants are naturals, and for `TetoSempre` alone `Exato`: the
time to refill is a whole number of seconds). `TetoPorCliente` needs the debt of a bucket
(`Divida`): what a client was let through since any of its requests, plus what its bucket holds, is
within the burst and the refill; a client that was forgotten owes nothing, since whoever was not
seen for the time to refill has refilled (`Esquecido`). That last step is where `Exato` is needed,
and where the code goes wrong for the editais. The limit of the authentication routes is exact, so
it is kept (`TetoDaAutenticacao`). `NuncaTruncado` is arithmetic over `lerPDF`: a PDF that does not
fit has at least one byte past the limit, and that byte is read. For the breaker, `DInv` ties the
failures it counts to those in a row, and every half-open breaker to a request in the network.

*Concursos_proofs* (assuming `NenhumValido`: no id is the absent one). `EstudoFica` follows from the
foreign keys (`Pendem`: what is studied is scheduled, what is scheduled has its row) and the refusal
of a save that leaves out what is studied. `AgendadoFica` needs what the two statements of a save
leave between them (`Lidas`): as long as the contest is the one that was read, every row that a form
filled by then can name was read too, since ids are given once; so the form's line keeps its id.

*Cronograma_proofs* (assuming `Calendario`, `PlanoBemFormado`, `LugaresDoPlano`, that requests name days and
places by number, `Pedidos`, the notebook subjects and sets of topics, `CadernoDeBlocos`, and that the
bounds are numbers, `Limites`). Its theorems come in two layers.

The first is about what is studied: `ConcluidaEmDia`, `EstudadoNaoVolta` and `AntecipadaConcluida`. None is
inductive: each speaks of some
rows, and what a rearrangement makes of those depends on all the others. The inductive
invariant (`InvarianteSempre`) is that the rows are rows, the database would accept them
(`Gravavel`: no place twice, every record with its row), and, unless a request was cut in two, they
are in order with the records (`EmDia`): what is concluded of a subject lies up to the day study ahead
is written on, and from today on nothing pending teaches for the first time what is concluded.

The heart is `EmDiaDeixaEmOrdem`: `emDiaComOEstudado` returns a schedule in order *whatever
schedule it is given*. Arranging what is studied puts every row in order; the compaction that follows
could spoil it, and does not because it moves rows only between days after the last one a
concluded block may lie on (`VindasBoas`). So the requests that end in it need nothing of what
they did before (`Escrita`, `Montada`), and what is left are the steps without it: a day
passing (`DiaSeguinte`), undoing a conclusion, erasing the history, the first reading, and requests a
failure or a refusal cuts in two. The lemmas below these say what the operators of Agenda do:
sorting keeps the rows (`ordenarReordena`, from `Turnos`: under a total order the elements of
a finite set have turns 1 to its size), and what packing puts on a day was in the queue or there before.
`AntecipadaSempreConcluida` assumes that `limpar`, `falha` and `estudar_falha` are not among the
operations: with the first the code does break it (see the disagreements), with the others the
marks of a hidden block are not in step with its record; `arrumar` has the same operations.

The second is about the rows themselves, and is where the requests do depend on the schedule
they are given. Its invariant (`CertoSempre`: `Certo` and `SoTroca` beside the one above) is that ids are not
repeated, rows come in (day, place) order, and nothing but a trade was ever refused. That a write is
accepted is two facts of every domain function, one lemma each: it returns every row it
must, once (`SemRepetir`, `Conserva`), and no two in a place (`SemColisao`). The second is the delicate one:
it does not follow from the first for any function alone, because each leaves some rows their places and
numbers the others. `renumerarLugares` says when numbering some days cannot collide;
`EmpacotarLugares` keeps through the loop of the packing that what is out so far is numbered from the
start of each day it fills, so that what stays behind and what is put there lie apart; reinforcement lands on
empty days only. A trade alone writes an index where a place was meant, and is the one refusal
(`SoTrocarSempreRecusado`; without trades there is none, `NadaRecusado`). From the same facts follow:

- `TiposCertos`: `TypeOK`, in which the rows are sorted.
- `PassadoGuardado`: what is stored on a day gone by is followed by its id. `Presas` are the rows a step may
  leave, those with such an id being on their day; every function is shown to stay within any set of rows that only
  a change of day in the past leaves (`Adiante`), of which this is one. It assumes that nothing is moved by
  hand, postponed or anticipated (`DeMao`), which may move such a row and which `refazer` leaves out too.
- `TopicoNuncaSome`: a row that teaches a topic (`Ensina`) is followed the same way, the rows that
  with its id teach the topic (`Com`) being another such set; in the split of a topic the row split off takes over. It assumes
  a planner that gives every topic a block (`PlanoCobre`; of the planner itself `TopicoEntra` says when it
  does) and, as in `arrumar`, no request that plans again: those drop what is already studied, and a day lost whose
  record is not a conclusion (see the disagreements).

The proofs corrected the model twice: the schedule EstudarTema leaves when its
second write is refused was not sorted, and ids came from a finite set, of which the bound was in no assumption.

*Leis_proofs* (assuming of Recortes `RefsValidas` and `Arvore`: a provision comes after its parent,
as `Estrutura.Validar` asks; and `ChavesFinitas`: a package has so many keys). `VincularSempreBasta`
needs that the text of every version kept is the page of its day cut to the recorte stored with it,
that what was captured or a tab is about to publish is too (`VersoesInteiras`, `Publica`), and that
a page only grows and always has the parent of what it has (`PaginaCompleta`), so that what descends
from a root today did then, if it was there. `CobreSempreDeVerdade` is then about Recortes: cutting
to a recorte keeps all that descends from its roots, so what covers the topic is shown, by descent
in the tree. `HistoriaSempreFica` needs that ids are given once (`Identidades`) and that what an
import planned to change are questions of its law (`Planejado`), so that the questions a second tab
put there meanwhile are not among them.

*MapasMentais_proofs* (assuming `ArquivosFinitos`: a file has so many questions). Both promises
need that ids of maps and questions are given once and that answers hang on questions
there are (`Identidades`): a row of a deleted map would otherwise be taken for one of the map imported
under its name again. With that, each step is one of three kinds: it leaves the answers
and links alone, it overwrites a question under its own key, or it is the link asked for.

The recursive functions over data that these proofs meet (`Linha`, `Empacotar`, the turns of a sort) are
reached without the induction theorems of the library: by a least counterexample in a well-founded
order, with the property given as a set, and by stating the value of the function beforehand.

Only model-checked:

- liveness (`TodoPedidoTermina`, `TodoTrabalhoTermina`, `MortoSaiDaTabela`,
  `TokenMortoNaoVoltaSempre`), which is beyond the prover, as is ENABLED;
- of Cronograma, `CompactarSemVao`, `CompactarMantemAOrdem` and `AtrasoVoltaAAgenda`: the first two say how
  the loads that packing chose fall on every day, by the arithmetic of typical load and of what is
  left over, the third that a count of blocks fits in the days ahead;
- `TopicoEntra`, `AdiadaUmaVez`, `VoltaSemPular` and `OutrosAjustesFicam` of PlanoDoEstudante: the first three say what
  whole passes of the planner over lists of days compute, with sorts and folds of the community modules
  that take operators as arguments, which the prover does not open.

## What is not modelled

- Of the schedule: notes, RegistrarDia (Registrar for each activity of a
  day), and the views (blocks of a day, notebook, statistics).
- Of the planner: the wording of days and blocks, and the minutes of a block (`blocos.go`), whose sum may
  miss a tiny budget.
- Of the maps: the text of an outline and its pictures, the order of the redispatch (any), the
  folder of work and the login of Claude (it can or cannot).
- Of accounts: the hash of passwords, the visual theme, the signature of access tokens (one is valid,
  expired or absent).
- Of laws and notices: the scraping and parsing in the processor (a text is one of a few).
- Of contests: the dossier, deadlines and alerts, texts that nothing changes.
- Migrations: they run once before anything is served; what could go wrong (an advisory lock on one connection,
  the work on others) is in how the driver hands out connections.
- The daily pass stops at the first plan whose mail fails (`notificacao_service.go:41`): reminders keep only the
  day they last ran, and that pass is a loop over plans that share nothing.
- One plan and one account at a time, but where the state is shared (breaker, limiter, sessions): no statement of
  the other services reaches over two of them.

## Plan

1. Done: the schedule (Agenda, Cronograma, Historia, BancoDoCronograma), the maps' requests
   (PedidosDeMapa), the sessions (Contas), the calls to the processor (Importacao), laws, contests,
   mind maps, the planner and the configuration.
2. Done: the proofs of the seven concurrent modules and of the schedule.
3. Next: what packing leaves on each day (`CompactarSemVao`, `CompactarMantemAOrdem`), which needs the sums that
   `Empacotar` keeps as an invariant of its loop; the planner with its folds written as recursive functions,
   for `TopicoEntra`.
