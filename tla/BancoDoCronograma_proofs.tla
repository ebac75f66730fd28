---------------------- MODULE BancoDoCronograma_proofs ----------------------
(***************************************************************************)
(* Proofs, for every set of requests, activities and places, that a record *)
(* always points at an activity of the schedule and that rewriting the     *)
(* schedule implements Historia.tla.                                       *)
(***************************************************************************)
EXTENDS BancoDoCronograma, TLAPS

-----------------------------------------------------------------------------
(* A table is a function from some of the ids to places.                   *)

\* Membership in Tabelas, spelled out.
LEMMA TabelaEhFuncao ==
    ASSUME NEW t
    PROVE  t \in Tabelas <=> DOMAIN t \in SUBSET Ids /\ t \in [DOMAIN t -> Lugares]
  BY DEF Tabelas

\* The empty table, what a request holds when it is not writing.
LEMMA VaziaEhTabela == Vazia \in Tabelas /\ DOMAIN Vazia = {}
  BY DEF Tabelas, Vazia

\* The committed table with the rows of a request put over it is a table.
LEMMA ResultadoEhTabela ==
    ASSUME TypeOK, NEW p \in Pedidos
    PROVE  /\ Resultado(p) \in Tabelas
           /\ DOMAIN Resultado(p) = (DOMAIN linhas \ alvo[p]) \cup DOMAIN lista[p]
  <1>. DEFINE D == (DOMAIN linhas \ alvo[p]) \cup DOMAIN lista[p]
  <1>1. linhas \in Tabelas /\ lista[p] \in Tabelas
    BY DEF TypeOK
  <1>2. D \in SUBSET Ids
    BY <1>1, TabelaEhFuncao
  <1>3. DOMAIN Resultado(p) = D
    BY DEF Resultado
  <1>4. \A id \in D : Resultado(p)[id] \in Lugares
    BY <1>1, TabelaEhFuncao DEF Resultado
  <1>5. Resultado(p) = [id \in D |-> Resultado(p)[id]]
    BY DEF Resultado
  <1>6. Resultado(p) \in [D -> Lugares]
    BY <1>4, <1>5
  <1>. QED
    BY <1>2, <1>3, <1>6 DEF Tabelas

-----------------------------------------------------------------------------
(* Type correctness.                                                       *)

\* A request that ends leaves its local state well typed.
LEMMA EncerrarTipos ==
    ASSUME TypeOK, NEW p \in Pedidos, Encerrar(p)
    PROVE  /\ fase' \in [Pedidos -> Fases] /\ lidas' \in [Pedidos -> Tabelas]
           /\ lidos' \in [Pedidos -> SUBSET Ids] /\ lista' \in [Pedidos -> Tabelas]
           /\ alvo' \in [Pedidos -> SUBSET Ids]
           /\ \A q \in Pedidos : DOMAIN lista'[q] \subseteq usados
  BY VaziaEhTabela DEF TypeOK, Encerrar, Fases

\* The stored schedules a plan starts from have the types.
LEMMA TiposNoInicio == Init => TypeOK
  <1>. SUFFICES ASSUME Init PROVE TypeOK
    OBVIOUS
  <1>1. linhas \in Tabelas
    BY IniciaisValidos DEF Init
  <1>2. DOMAIN linhas \in SUBSET Ids
    BY <1>1, TabelaEhFuncao
  <1>. QED
    BY <1>1, <1>2, VaziaEhTabela DEF Init, TypeOK, Fases

\* Every step of every request keeps the types.
LEMMA TiposNoPasso == TypeOK /\ [Next]_vars => TypeOK'
  <1>. SUFFICES ASSUME TypeOK, [Next]_vars PROVE TypeOK'
    OBVIOUS
  <1>1. CASE UNCHANGED vars
    BY <1>1 DEF TypeOK, vars
  <1>2. ASSUME NEW p \in Pedidos, LerAtividades(p) PROVE TypeOK'
    BY <1>2 DEF LerAtividades, TypeOK, Fases
  <1>3. ASSUME NEW p \in Pedidos, LerRegistros(p) PROVE TypeOK'
    BY <1>3 DEF LerRegistros, TypeOK, Fases
  <1>4. ASSUME NEW p \in Pedidos, NEW id \in Ids, SalvarRegistro(p, id) PROVE TypeOK'
    <2>1. CASE id \in DOMAIN linhas
      BY <1>4, <2>1 DEF SalvarRegistro, TypeOK, Fases
    <2>2. CASE id \notin DOMAIN linhas
      <3>1. Encerrar(p)
        BY <1>4, <2>2 DEF SalvarRegistro
      <3>. QED
        BY <1>4, <2>2, <3>1, EncerrarTipos DEF SalvarRegistro, TypeOK
    <2>. QED
      BY <2>1, <2>2
  <1>5. ASSUME NEW p \in Pedidos, ApagarRegistros(p) PROVE TypeOK'
    <2>1. Encerrar(p)
      BY <1>5 DEF ApagarRegistros
    <2>. QED
      BY <1>5, <2>1, EncerrarTipos DEF ApagarRegistros, TypeOK
  <1>6. ASSUME NEW p \in Pedidos, SemMudanca(p) \/ Impasse(p) \/ Cair(p) PROVE TypeOK'
    <2>1. Encerrar(p) /\ UNCHANGED <<linhas, registros, usados>>
      BY <1>6 DEF SemMudanca, Impasse, Cair
    <2>. QED
      BY <2>1, EncerrarTipos DEF TypeOK
  <1>7. ASSUME NEW p \in Pedidos, Comecar(p) PROVE TypeOK'
    <2>1. PICK t \in Calculaveis(p) :
              /\ lista' = [lista EXCEPT ![p] = t]
              /\ alvo' = [alvo EXCEPT ![p] = DOMAIN linhas \ DOMAIN t]
              /\ usados' = usados \cup DOMAIN t
      BY <1>7 DEF Comecar
    <2>2. t \in Tabelas /\ DOMAIN t \in SUBSET Ids
      BY TabelaEhFuncao DEF Calculaveis
    <2>3. /\ fase' = [fase EXCEPT ![p] = "apagando"]
          /\ UNCHANGED <<linhas, registros, lidas, lidos>>
      BY <1>7 DEF Comecar
    <2>4. DOMAIN linhas \subseteq Ids
      BY DEF TypeOK
    <2>5. \A q \in Pedidos : DOMAIN lista'[q] \subseteq usados'
      BY <2>1 DEF TypeOK
    <2>. QED
      BY <2>1, <2>2, <2>3, <2>4, <2>5 DEF TypeOK, Fases
  <1>8. ASSUME NEW p \in Pedidos, Remover(p) PROVE TypeOK'
    <2>1. CASE Encerrar(p)
      BY <1>8, <2>1, EncerrarTipos DEF Remover, TypeOK
    <2>2. CASE /\ fase' = [fase EXCEPT ![p] = "gravando"]
               /\ alvo' = [alvo EXCEPT ![p] = alvo[p] \cap DOMAIN linhas]
               /\ UNCHANGED <<lidas, lidos, lista>>
      BY <1>8, <2>2 DEF Remover, TypeOK, Fases
    <2>. QED
      BY <1>8, <2>1, <2>2 DEF Remover
  <1>9. ASSUME NEW p \in Pedidos, Gravar(p) PROVE TypeOK'
    <2>1. Encerrar(p) /\ UNCHANGED <<registros, usados>>
      BY <1>9 DEF Gravar
    <2>2. linhas' = linhas \/ linhas' = Resultado(p)
      BY <1>9 DEF Gravar
    <2>3. DOMAIN Resultado(p) \subseteq usados
      BY ResultadoEhTabela DEF TypeOK
    <2>4. linhas' \in Tabelas /\ DOMAIN linhas' \subseteq usados'
      BY <2>1, <2>2, <2>3, ResultadoEhTabela DEF TypeOK
    <2>. QED
      BY <2>1, <2>4, EncerrarTipos DEF TypeOK
  <1>. QED
    BY <1>1, <1>2, <1>3, <1>4, <1>5, <1>6, <1>7, <1>8, <1>9 DEF Next, Passo

\* The variables keep their types in every behaviour.
THEOREM TiposSempre == Spec => []TypeOK
  BY TiposNoInicio, TiposNoPasso, PTL DEF Spec

-----------------------------------------------------------------------------
(* What was studied is never erased.                                       *)
(*                                                                         *)
(* That every record points at a row is not inductive: the COMMIT removes  *)
(* rows chosen earlier.  What carries it across is that nothing is recorded*)
(* on a row from the moment a transaction deletes it until it ends.        *)

IInv == TypeOK /\ ReferenciaIntegra /\ RemovidasSemRegistro

\* A request that ends holds no rows and leaves the others theirs.
LEMMA EncerrarSolta ==
    ASSUME TypeOK, NEW p \in Pedidos, Encerrar(p)
    PROVE  \A q \in Pedidos : Travadas(q)' = IF q = p THEN {} ELSE Travadas(q)
  BY DEF TypeOK, Encerrar, Travadas

\* A request that moves to a phase that holds no rows, from another, changes
\* nobody's rows.
LEMMA FaseSemTrava ==
    ASSUME TypeOK, NEW p \in Pedidos, fase[p] # "gravando",
           NEW f \in Fases \ {"gravando"}, fase' = [fase EXCEPT ![p] = f],
           \A q \in Pedidos \ {p} : alvo'[q] = alvo[q]
    PROVE  \A q \in Pedidos : Travadas(q)' = Travadas(q)
  BY DEF TypeOK, Travadas

\* Fewer rows held, the same records and rows: the invariant stays.
LEMMA MenosTravas ==
    ASSUME IInv, UNCHANGED linhas, registros' \subseteq registros,
           \A q \in Pedidos : Travadas(q)' \subseteq Travadas(q)
    PROVE  ReferenciaIntegra' /\ RemovidasSemRegistro'
  <1>1. ReferenciaIntegra'
    BY DEF IInv, ReferenciaIntegra
  <1>2. RemovidasSemRegistro'
    <2>. SUFFICES ASSUME NEW q \in Pedidos
                  PROVE  /\ Travadas(q)' \cap registros' = {}
                         /\ Travadas(q)' \subseteq DOMAIN linhas'
                         /\ \A r \in Pedidos \ {q} : Travadas(q)' \cap Travadas(r)' = {}
      BY DEF RemovidasSemRegistro
    <2>1. Travadas(q) \cap registros = {} /\ Travadas(q) \subseteq DOMAIN linhas
      BY DEF IInv, RemovidasSemRegistro
    <2>2. \A r \in Pedidos \ {q} : Travadas(q) \cap Travadas(r) = {}
      BY DEF IInv, RemovidasSemRegistro
    <2>. QED
      BY <2>1, <2>2
  <1>. QED
    BY <1>1, <1>2

\* At the start nothing is recorded and nobody holds a row.
LEMMA IInvNoInicio == Init => IInv
  <1>. SUFFICES ASSUME Init PROVE IInv
    OBVIOUS
  <1>1. ReferenciaIntegra
    BY DEF Init, ReferenciaIntegra
  <1>2. \A p \in Pedidos : Travadas(p) = {}
    BY DEF Init, Travadas
  <1>. QED
    BY <1>1, <1>2, TiposNoInicio DEF IInv, RemovidasSemRegistro

\* Recording: the row is there and nobody is deleting it.
LEMMA RegistrarPreserva ==
    ASSUME IInv, NEW p \in Pedidos, NEW id \in Ids, SalvarRegistro(p, id)
    PROVE  ReferenciaIntegra' /\ RemovidasSemRegistro'
  <1>. TypeOK
    BY DEF IInv
  <1>1. CASE id \in DOMAIN linhas
    <2>1. \A q \in Pedidos : Travadas(q)' = Travadas(q)
      BY <1>1, FaseSemTrava DEF SalvarRegistro, Fases
    <2>2. \A q \in Pedidos : id \notin Travadas(q)
      BY DEF SalvarRegistro, TravadasPorOutros, Travadas
    <2>3. linhas' = linhas /\ registros' = registros \cup {id}
      BY <1>1 DEF SalvarRegistro
    <2>4. ReferenciaIntegra'
      BY <1>1, <2>3 DEF IInv, ReferenciaIntegra
    <2>5. \A q \in Pedidos : Travadas(q)' \cap registros' = {}
      BY <2>1, <2>2, <2>3 DEF IInv, RemovidasSemRegistro
    <2>. QED
      BY <2>1, <2>3, <2>4, <2>5 DEF IInv, RemovidasSemRegistro
  <1>2. CASE id \notin DOMAIN linhas
    <2>1. Encerrar(p) /\ linhas' = linhas /\ registros' = registros
      BY <1>2 DEF SalvarRegistro
    <2>2. \A q \in Pedidos : Travadas(q)' \subseteq Travadas(q)
      BY <2>1, EncerrarSolta
    <2>. QED
      BY <2>1, <2>2, MenosTravas
  <1>. QED
    BY <1>1, <1>2

\* Deleting: only rows that are there, without a record, that nobody holds.
LEMMA RemoverPreserva ==
    ASSUME IInv, NEW p \in Pedidos, Remover(p)
    PROVE  ReferenciaIntegra' /\ RemovidasSemRegistro'
  <1>. DEFINE saem == alvo[p] \cap DOMAIN linhas
  <1>. TypeOK
    BY DEF IInv
  <1>1. linhas' = linhas /\ registros' = registros
    BY DEF Remover
  <1>2. CASE saem \cap registros = {}
    <2>1. /\ fase' = [fase EXCEPT ![p] = "gravando"]
          /\ alvo' = [alvo EXCEPT ![p] = saem]
      BY <1>2 DEF Remover
    <2>2. Travadas(p)' = saem /\ \A q \in Pedidos \ {p} : Travadas(q)' = Travadas(q)
      BY <2>1 DEF TypeOK, Travadas
    <2>3. \A q \in Pedidos \ {p} : saem \cap Travadas(q) = {}
      BY DEF Remover, TravadasPorOutros
    <2>4. ReferenciaIntegra'
      BY <1>1 DEF IInv, ReferenciaIntegra
    <2>. QED
      BY <1>1, <1>2, <2>2, <2>3, <2>4 DEF IInv, RemovidasSemRegistro
  <1>3. CASE saem \cap registros # {}
    <2>1. Encerrar(p)
      BY <1>3 DEF Remover
    <2>2. \A q \in Pedidos : Travadas(q)' \subseteq Travadas(q)
      BY <2>1, EncerrarSolta
    <2>. QED
      BY <1>1, <2>2, MenosTravas
  <1>. QED
    BY <1>2, <1>3

\* Committing: what leaves has no record, and no other transaction's rows
\* leave with it.
LEMMA GravarPreserva ==
    ASSUME IInv, NEW p \in Pedidos, Gravar(p)
    PROVE  ReferenciaIntegra' /\ RemovidasSemRegistro'
  <1>. TypeOK
    BY DEF IInv
  <1>1. Encerrar(p) /\ registros' = registros
    BY DEF Gravar
  <1>2. \A q \in Pedidos : Travadas(q)' = IF q = p THEN {} ELSE Travadas(q)
    BY <1>1, EncerrarSolta
  <1>3. CASE linhas' = linhas
    <2>1. \A q \in Pedidos : Travadas(q)' \subseteq Travadas(q)
      BY <1>2
    <2>. QED
      BY <1>1, <1>3, <2>1, MenosTravas
  <1>4. CASE linhas' = Resultado(p)
    <2>1. Travadas(p) = alvo[p]
      BY DEF Gravar, Travadas
    <2>2. DOMAIN linhas' = (DOMAIN linhas \ alvo[p]) \cup DOMAIN lista[p]
      BY <1>4, ResultadoEhTabela
    <2>3. ReferenciaIntegra'
      BY <1>1, <2>1, <2>2 DEF IInv, ReferenciaIntegra, RemovidasSemRegistro
    <2>4. \A q \in Pedidos : Travadas(q)' \subseteq DOMAIN linhas'
      BY <1>2, <2>1, <2>2 DEF IInv, RemovidasSemRegistro
    <2>. QED
      BY <1>1, <1>2, <2>3, <2>4 DEF IInv, RemovidasSemRegistro
  <1>. QED
    BY <1>3, <1>4 DEF Gravar

\* Every step of every request keeps records, rows and locks consistent.
LEMMA IInvNoPasso == IInv /\ [Next]_vars => IInv'
  <1>. SUFFICES ASSUME IInv, [Next]_vars PROVE IInv'
    OBVIOUS
  <1>0. TypeOK /\ TypeOK'
    BY TiposNoPasso DEF IInv
  <1>. SUFFICES ReferenciaIntegra' /\ RemovidasSemRegistro'
    BY <1>0 DEF IInv
  <1>1. CASE UNCHANGED vars
    BY <1>1 DEF IInv, ReferenciaIntegra, RemovidasSemRegistro, Travadas, vars
  <1>2. ASSUME NEW p \in Pedidos, LerAtividades(p) \/ LerRegistros(p) \/ Comecar(p)
        PROVE  ReferenciaIntegra' /\ RemovidasSemRegistro'
    <2>1. linhas' = linhas /\ registros' = registros
      BY <1>2 DEF LerAtividades, LerRegistros, Comecar
    <2>2. /\ fase[p] # "gravando"
          /\ \E f \in Fases \ {"gravando"} : fase' = [fase EXCEPT ![p] = f]
          /\ \A q \in Pedidos \ {p} : alvo'[q] = alvo[q]
      BY <1>0, <1>2 DEF LerAtividades, LerRegistros, Comecar, Fases, TypeOK
    <2>3. \A q \in Pedidos : Travadas(q)' = Travadas(q)
      BY <1>0, <2>2, FaseSemTrava
    <2>. QED
      BY <2>1, <2>3, MenosTravas
  <1>3. ASSUME NEW p \in Pedidos, ApagarRegistros(p) \/ SemMudanca(p) \/ Impasse(p) \/ Cair(p)
        PROVE  ReferenciaIntegra' /\ RemovidasSemRegistro'
    <2>1. Encerrar(p) /\ linhas' = linhas /\ registros' \subseteq registros
      BY <1>3 DEF ApagarRegistros, SemMudanca, Impasse, Cair
    <2>2. \A q \in Pedidos : Travadas(q)' \subseteq Travadas(q)
      BY <1>0, <2>1, EncerrarSolta
    <2>. QED
      BY <2>1, <2>2, MenosTravas
  <1>. QED
    BY <1>1, <1>2, <1>3, RegistrarPreserva, RemoverPreserva, GravarPreserva DEF Next, Passo

\* Every record points at an activity of the schedule, in every behaviour.
THEOREM RegistroNuncaOrfao == Spec => []ReferenciaIntegra
  <1>1. IInv => ReferenciaIntegra
    BY DEF IInv
  <1>. QED
    BY <1>1, IInvNoInicio, IInvNoPasso, PTL DEF Spec

\* The rows a transaction has deleted are its own and carry no record.
THEOREM TravasSempre == Spec => []RemovidasSemRegistro
  <1>1. IInv => RemovidasSemRegistro
    BY DEF IInv
  <1>. QED
    BY <1>1, IInvNoInicio, IInvNoPasso, PTL DEF Spec

-----------------------------------------------------------------------------
(* Refinement: a step of the requests is a step of Historia or leaves the  *)
(* activities and their records as they are.                               *)

\* What is stored at the start is a start of Historia.
LEMMA PromessaNoInicio == Init => Promessa!Init
  <1>. SUFFICES ASSUME Init PROVE DOMAIN linhas \in SUBSET Ids /\ registros = {}
    BY DEF Promessa!Init
  <1>1. linhas \in Tabelas
    BY IniciaisValidos DEF Init
  <1>. QED
    BY <1>1, TabelaEhFuncao DEF Init

\* A step of any request is a step of Historia or a stutter.
LEMMA PromessaNoPasso ==
    IInv /\ [Next]_vars => [Promessa!Next]_<<DOMAIN linhas, registros>>
  <1>. SUFFICES ASSUME IInv, [Next]_vars
                PROVE  Promessa!Next \/ UNCHANGED <<DOMAIN linhas, registros>>
    OBVIOUS
  <1>0. IInv' /\ TypeOK /\ TypeOK'
    BY IInvNoPasso DEF IInv
  <1>1. CASE linhas' = linhas /\ registros' = registros
    BY <1>1
  <1>2. ASSUME NEW p \in Pedidos, Gravar(p) PROVE Promessa!Next
    <2>1. registros' = registros
      BY <1>2 DEF Gravar
    <2>2. registros \subseteq DOMAIN linhas'
      BY <1>0, <2>1 DEF IInv, ReferenciaIntegra
    <2>3. DOMAIN linhas' \in SUBSET Ids
      BY <1>0, TabelaEhFuncao DEF TypeOK
    <2>. QED
      BY <2>1, <2>2, <2>3 DEF Promessa!Next, Promessa!Reescrever
  <1>3. ASSUME NEW p \in Pedidos, NEW id \in Ids, SalvarRegistro(p, id)
        PROVE  Promessa!Next \/ UNCHANGED <<DOMAIN linhas, registros>>
    <2>1. linhas' = linhas
      BY <1>3 DEF SalvarRegistro
    <2>2. \/ registros' = registros
          \/ id \in DOMAIN linhas /\ registros' = registros \cup {id}
      BY <1>3 DEF SalvarRegistro
    <2>. QED
      BY <2>1, <2>2 DEF Promessa!Next, Promessa!Lancar
  <1>4. ASSUME NEW p \in Pedidos, ApagarRegistros(p) PROVE Promessa!Next
    BY <1>4 DEF ApagarRegistros, Promessa!Next, Promessa!Esquecer
  <1>5. \/ linhas' = linhas /\ registros' = registros
        \/ \E p \in Pedidos : Gravar(p) \/ ApagarRegistros(p)
        \/ \E p \in Pedidos : \E id \in Ids : SalvarRegistro(p, id)
    BY DEF Next, Passo, vars, LerAtividades, LerRegistros, SemMudanca, Comecar,
           Remover, Impasse, Cair
  <1>. QED
    BY <1>1, <1>2, <1>3, <1>4, <1>5

\* Rewriting the schedule implements the promise: an activity with a record
\* leaves only when the student erases the history.
THEOREM PromessaCumprida == Spec => CumpreHistoria
  <1>1. Spec => []IInv
    BY IInvNoInicio, IInvNoPasso, PTL DEF Spec
  <1>. QED
    BY <1>1, PromessaNoInicio, PromessaNoPasso, PTL
       DEF Spec, CumpreHistoria, Promessa!Spec
=============================================================================
