------------------------- MODULE BancoDoCronograma --------------------------
(***************************************************************************)
(* The schedule of one plan in PostgreSQL and the requests that rewrite it *)
(* at the same time: two tabs, a double click, the worker at midnight.     *)
(*                                                                         *)
(* A request reads the activities and then the records, two statements     *)
(* (comum.go carregar), computes a new schedule from what it read and      *)
(* writes it with SubstituirAtividades, one READ COMMITTED transaction:    *)
(* a DELETE of the rows that left, an upsert of the others, a COMMIT that  *)
(* checks the deferred UNIQUE (plano_id, data, posicao).  No version is    *)
(* compared: what was read may be stale when it is written.                *)
(*                                                                         *)
(* What is computed is any schedule the services could compute: it keeps   *)
(* the recorded activities that were read and repeats no place.  That they *)
(* compute nothing else is what Cronograma.tla checks (NuncaRecusado).     *)
(***************************************************************************)
CONSTANTS
    Pedidos,   \* concurrent requests
    Ids,       \* ids of activities
    Lugares,   \* places of the schedule, a (data, posicao) each
    Iniciais   \* stored schedules at the start, none yet among them

Tabelas == UNION {[S -> Lugares] : S \in SUBSET Ids}
SemRepetir(t) == \A x, y \in DOMAIN t : t[x] = t[y] => x = y

ASSUME IniciaisValidos == \A t \in Iniciais : t \in Tabelas /\ SemRepetir(t)

VARIABLES
    linhas,     \* atividades: id -> place
    registros,  \* registros_atividade: the ids with a record
    usados,     \* every id ever given to an activity
    fase,       \* where each request is
    lidas,      \* the activities a request read
    lidos,      \* the records it read or wrote
    lista,      \* the schedule it is writing
    alvo        \* the rows its DELETE is to remove, then those it removed

vars == <<linhas, registros, usados, fase, lidas, lidos, lista, alvo>>

Fases == {"parado", "lendo", "lido", "registrado", "apagando", "gravando"}
Vazia == [x \in {} |-> x]

Init ==
    /\ linhas \in Iniciais
    /\ registros = {}
    /\ usados = DOMAIN linhas
    /\ fase = [p \in Pedidos |-> "parado"]
    /\ lidas = [p \in Pedidos |-> Vazia]
    /\ lidos = [p \in Pedidos |-> {}]
    /\ lista = [p \in Pedidos |-> Vazia]
    /\ alvo = [p \in Pedidos |-> {}]

\* A request ends: answered, refused by the database or dead, its
\* transaction rolled back.
Encerrar(p) ==
    /\ fase' = [fase EXCEPT ![p] = "parado"]
    /\ lidas' = [lidas EXCEPT ![p] = Vazia]
    /\ lidos' = [lidos EXCEPT ![p] = {}]
    /\ lista' = [lista EXCEPT ![p] = Vazia]
    /\ alvo' = [alvo EXCEPT ![p] = {}]

\* The rows a transaction in progress has deleted are locked by it.
Travadas(p) == IF fase[p] = "gravando" THEN alvo[p] ELSE {}
TravadasPorOutros(p) == UNION {Travadas(q) : q \in Pedidos \ {p}}

-----------------------------------------------------------------------------
LerAtividades(p) ==
    /\ fase[p] = "parado"
    /\ fase' = [fase EXCEPT ![p] = "lendo"]
    /\ lidas' = [lidas EXCEPT ![p] = linhas]
    /\ UNCHANGED <<linhas, registros, usados, lidos, lista, alvo>>

LerRegistros(p) ==
    /\ fase[p] = "lendo"
    /\ fase' = [fase EXCEPT ![p] = "lido"]
    /\ lidos' = [lidos EXCEPT ![p] = registros]
    /\ UNCHANGED <<linhas, registros, usados, lidas, lista, alvo>>

\* Slips: the record is written without waiting for the row, or with no row
\* to point at.
SalvarRegistro_SemEspera(p, id) ==
    /\ fase[p] = "lido"
    /\ id \in DOMAIN lidas[p] \cap DOMAIN linhas
    /\ registros' = registros \cup {id}
    /\ lidos' = [lidos EXCEPT ![p] = @ \cup {id}]
    /\ fase' = [fase EXCEPT ![p] = "registrado"]
    /\ UNCHANGED <<linhas, usados, lidas, lista, alvo>>

SalvarRegistro_SemLinha(p, id) ==
    /\ fase[p] = "lido"
    /\ id \in DOMAIN lidas[p] \ TravadasPorOutros(p)
    /\ registros' = registros \cup {id}
    /\ lidos' = [lidos EXCEPT ![p] = @ \cup {id}]
    /\ fase' = [fase EXCEPT ![p] = "registrado"]
    /\ UNCHANGED <<linhas, usados, lidas, lista, alvo>>

\* INSERT ... SELECT from the activity: it waits for a transaction that is
\* deleting the row, and is refused when the row is gone.
SalvarRegistro(p, id) ==
    /\ fase[p] = "lido"
    /\ id \in DOMAIN lidas[p]
    /\ id \notin TravadasPorOutros(p)
    /\ IF id \in DOMAIN linhas
       THEN /\ registros' = registros \cup {id}
            /\ lidos' = [lidos EXCEPT ![p] = @ \cup {id}]
            /\ fase' = [fase EXCEPT ![p] = "registrado"]
            /\ UNCHANGED <<lidas, lista, alvo>>
       ELSE /\ Encerrar(p)
            /\ UNCHANGED registros
    /\ UNCHANGED <<linhas, usados>>

ApagarRegistros(p) ==
    /\ fase[p] = "lido"
    /\ registros' = {}
    /\ Encerrar(p)
    /\ UNCHANGED <<linhas, usados>>

\* Nothing to rewrite: the request ends with what it read.
SemMudanca(p) ==
    /\ fase[p] \in {"lido", "registrado"}
    /\ Encerrar(p)
    /\ UNCHANGED <<linhas, registros, usados>>

\* The schedules a request may compute from what it read.
Calculaveis(p) ==
    {t \in Tabelas :
        /\ t # Vazia /\ SemRepetir(t)
        /\ lidos[p] \cap DOMAIN lidas[p] \subseteq DOMAIN t
        /\ DOMAIN t \cap usados \subseteq DOMAIN lidas[p]}

\* SubstituirAtividades: the DELETE takes its snapshot of what to remove.
Comecar(p) ==
    /\ fase[p] \in {"lido", "registrado"}
    /\ \E t \in Calculaveis(p) :
          /\ lista' = [lista EXCEPT ![p] = t]
          /\ alvo' = [alvo EXCEPT ![p] = DOMAIN linhas \ DOMAIN t]
          /\ usados' = usados \cup DOMAIN t
    /\ fase' = [fase EXCEPT ![p] = "apagando"]
    /\ UNCHANGED <<linhas, registros, lidas, lidos>>

\* Slip: a row goes whatever points at it.
Remover_SemRestrict(p) ==
    /\ fase[p] = "apagando"
    /\ alvo[p] \cap TravadasPorOutros(p) = {}
    /\ fase' = [fase EXCEPT ![p] = "gravando"]
    /\ alvo' = [alvo EXCEPT ![p] = @ \cap DOMAIN linhas]
    /\ UNCHANGED <<linhas, registros, usados, lidas, lidos, lista>>

\* It waits for rows another transaction holds, skips those no longer there,
\* and is refused (ON DELETE RESTRICT) if one of the others has a record.
Remover(p) ==
    LET saem == alvo[p] \cap DOMAIN linhas IN
    /\ fase[p] = "apagando"
    /\ alvo[p] \cap TravadasPorOutros(p) = {}
    /\ IF saem \cap registros = {}
       THEN /\ fase' = [fase EXCEPT ![p] = "gravando"]
            /\ alvo' = [alvo EXCEPT ![p] = saem]
            /\ UNCHANGED <<lidas, lidos, lista>>
       ELSE Encerrar(p)
    /\ UNCHANGED <<linhas, registros, usados>>

\* The table once the transaction of p is in: the rows it did not see stay.
Resultado(p) ==
    [id \in (DOMAIN linhas \ alvo[p]) \cup DOMAIN lista[p] |->
        IF id \in DOMAIN lista[p] THEN lista[p][id] ELSE linhas[id]]

\* Slip: a refused COMMIT does not end the transaction.
Gravar_SemRollback(p) ==
    /\ fase[p] = "gravando"
    /\ DOMAIN lista[p] \cap TravadasPorOutros(p) = {}
    /\ SemRepetir(Resultado(p))
    /\ linhas' = Resultado(p)
    /\ Encerrar(p)
    /\ UNCHANGED <<registros, usados>>

\* The upsert, which waits for the rows others hold and brings back those
\* they removed, and the COMMIT, refused when two rows share a place.
Gravar(p) ==
    /\ fase[p] = "gravando"
    /\ DOMAIN lista[p] \cap TravadasPorOutros(p) = {}
    /\ IF SemRepetir(Resultado(p))
       THEN linhas' = Resultado(p)
       ELSE UNCHANGED linhas
    /\ Encerrar(p)
    /\ UNCHANGED <<registros, usados>>

\* p waits for a row that q holds.
Espera(p, q) ==
    /\ p # q
    /\ fase[p] = "gravando"
    /\ DOMAIN lista[p] \cap Travadas(q) # {}

\* Requests waiting on each other: the server refuses one of them.
Impasse(p) ==
    /\ \E S \in SUBSET Pedidos :
          p \in S /\ \A q \in S : \E r \in S : Espera(q, r)
    /\ Encerrar(p)
    /\ UNCHANGED <<linhas, registros, usados>>

\* The process, the connection or the client goes away.
Cair(p) ==
    /\ fase[p] # "parado"
    /\ Encerrar(p)
    /\ UNCHANGED <<linhas, registros, usados>>

Passo(p) ==
    \/ LerAtividades(p) \/ LerRegistros(p)
    \/ \E id \in Ids : SalvarRegistro(p, id)
    \/ ApagarRegistros(p) \/ SemMudanca(p)
    \/ Comecar(p) \/ Remover(p) \/ Gravar(p) \/ Impasse(p)

Next == \E p \in Pedidos : Passo(p) \/ Cair(p)

Spec == Init /\ [][Next]_vars

\* The server runs what it can, and a released row goes to whoever waits.
FairSpec ==
    /\ Spec
    /\ \A p \in Pedidos :
          WF_vars(Passo(p)) /\ SF_vars(Remover(p)) /\ SF_vars(Gravar(p))

-----------------------------------------------------------------------------
(* Properties.                                                             *)

\* The variables have their types and no row has an id never handed out.
TypeOK ==
    /\ linhas \in Tabelas
    /\ registros \in SUBSET Ids
    /\ usados \in SUBSET Ids /\ DOMAIN linhas \subseteq usados
    /\ fase \in [Pedidos -> Fases]
    /\ lidas \in [Pedidos -> Tabelas]
    /\ lidos \in [Pedidos -> SUBSET Ids]
    /\ lista \in [Pedidos -> Tabelas]
    /\ \A p \in Pedidos : DOMAIN lista[p] \subseteq usados
    /\ alvo \in [Pedidos -> SUBSET Ids]

\* What was studied is never erased: every record points at an activity that
\* is on the schedule, however the requests interleave and die.
ReferenciaIntegra == registros \subseteq DOMAIN linhas

\* What the locks guarantee: the rows a transaction has deleted carry no
\* record, are still in the committed table and are its own.
RemovidasSemRegistro ==
    \A p \in Pedidos :
        /\ Travadas(p) \cap registros = {}
        /\ Travadas(p) \subseteq DOMAIN linhas
        /\ \A q \in Pedidos \ {p} : Travadas(p) \cap Travadas(q) = {}

\* Rewriting the schedule implements the promise of Historia.tla.
Promessa == INSTANCE Historia WITH atividades <- DOMAIN linhas, estudadas <- registros
CumpreHistoria == Promessa!Spec

\* A request always ends, also when two wait for each other's rows.
TodoPedidoTermina == \A p \in Pedidos : fase[p] # "parado" ~> fase[p] = "parado"
=============================================================================
