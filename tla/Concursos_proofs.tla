-------------------------- MODULE Concursos_proofs ---------------------------
(***************************************************************************)
(* What a save keeps, for any number of tabs, disciplines and contests.    *)
(* What is studied is scheduled, and what is scheduled has its row         *)
(* (Pendem); a tab in the middle of an update read the contest             *)
(* there is, with every row of it that a form filled by then can name      *)
(* (Lidas), or one that is gone for good.                                  *)
(***************************************************************************)
EXTENDS Concursos, FiniteSetTheorems, TLAPS

\* The foreign keys.
Pendem ==
    /\ estudadas \subseteq agendadas /\ agendadas \subseteq DOMAIN materias
    /\ DOMAIN materias \subseteq 1 .. proximo - 1
    /\ concurso = Nenhum => DOMAIN materias = {}

\* What a tab read; the ids of contests are given once.
Lidas(a) ==
    LET p == aba[a] IN
    p.passo = "atualizar" =>
        /\ p.ate \in Nat /\ p.ate =< proximo
        /\ p.atual.id \in 1 .. concursos
        /\ concurso = p.atual.id =>
              \A x \in DOMAIN materias : x < p.ate => x \in DOMAIN p.atual.tags

Contagens ==
    /\ proximo \in Nat \ {0} /\ concursos \in Nat
    /\ concurso \in {Nenhum} \cup 1 .. concursos
    /\ DOMAIN aba = Abas

IInv == Contagens /\ Pendem /\ (\A a \in Abas : Lidas(a)) /\ AgendadoFica

\* There is no contest, and no tab has read one.
LEMMA IInvNoInicio == Init => IInv
<1> SUFFICES ASSUME Init PROVE IInv
  OBVIOUS
<1>1. DOMAIN materias = {}
  BY DEF Init
<1>2. \A a \in Abas : aba[a].passo = "livre"
  BY DEF Init, Livre
<1> QED BY <1>1, <1>2 DEF Init, IInv, Contagens, Pendem, Lidas, AgendadoFica

-----------------------------------------------------------------------------
(* The statements of a save.                                               *)

Novas(lista) == {i \in DOMAIN lista : lista[i].id = Nova}

\* Giving tags leaves the ids as they are.
LEMMA IdsFicam ==
    ASSUME NEW L, \A i \in DOMAIN L : "id" \in DOMAIN L[i]
    PROVE  /\ DOMAIN Normalizar(L) = DOMAIN L
           /\ \A i \in DOMAIN L : Normalizar(L)[i].id = L[i].id
BY DEF Normalizar, atribuirCodigos

\* A form is a sequence of lines, each with an id or none.
LEMMA FormulariosTipos ==
    ASSUME NEW form \in Formularios
    PROVE  \E n \in Nat : DOMAIN form = 1 .. n /\ \A i \in 1 .. n : "id" \in DOMAIN form[i]
<1>1. PICK n \in 1 .. MaxMaterias : form \in [1 .. n -> Linhas]
  BY DEF Formularios
<1>2. n \in Nat /\ DOMAIN form = 1 .. n
  BY <1>1
<1>3. \A l \in Linhas : "id" \in DOMAIN l
  BY DEF Linhas
<1> QED BY <1>1, <1>2, <1>3

\* What the update makes of a form: the ids it read stay, the others are new.
LEMMA IdsDaAtualizacao ==
    ASSUME NEW form \in Formularios, NEW tags
    PROVE  LET lista == Normalizar(preservarIdentidade(form, tags)) IN
           /\ \E n \in Nat : DOMAIN lista = 1 .. n
           /\ DOMAIN lista = DOMAIN form
           /\ \A i \in DOMAIN form :
                lista[i].id = IF form[i].id \in DOMAIN tags THEN form[i].id ELSE Nova
<1> DEFINE L == preservarIdentidade(form, tags)
<1>1. PICK n \in Nat : DOMAIN form = 1 .. n /\ \A i \in 1 .. n : "id" \in DOMAIN form[i]
  BY FormulariosTipos
<1>2. /\ DOMAIN L = DOMAIN form
      /\ \A i \in DOMAIN form : /\ "id" \in DOMAIN L[i]
                                /\ L[i].id = IF form[i].id \in DOMAIN tags THEN form[i].id ELSE Nova
  BY <1>1 DEF preservarIdentidade
<1> HIDE DEF L
<1>3. DOMAIN Normalizar(L) = DOMAIN L /\ \A i \in DOMAIN L : Normalizar(L)[i].id = L[i].id
  BY <1>2, IdsFicam
<1> QED BY <1>1, <1>2, <1>3 DEF L

\* The ids given are the next ones.
LEMMA IdsNovos ==
    ASSUME NEW lista, NEW n \in Nat, DOMAIN lista = 1 .. n
    PROVE  /\ Cardinality(Novas(lista)) \in Nat
           /\ \A i \in Novas(lista) :
                 /\ Cardinality({j \in 1 .. i - 1 : lista[j].id = Nova}) \in Nat
                 /\ Cardinality({j \in 1 .. i - 1 : lista[j].id = Nova}) < Cardinality(Novas(lista))
<1>1. IsFiniteSet(Novas(lista))
  BY FS_Interval, FS_Subset DEF Novas
<1>2. ASSUME NEW i \in Novas(lista)
      PROVE  LET A == {j \in 1 .. i - 1 : lista[j].id = Nova} IN
             Cardinality(A) \in Nat /\ Cardinality(A) < Cardinality(Novas(lista))
  <2> DEFINE A == {j \in 1 .. i - 1 : lista[j].id = Nova}
  <2>1. A \subseteq Novas(lista) /\ i \notin A
    BY DEF Novas
  <2>2. A # Novas(lista)
    BY <2>1
  <2> HIDE DEF A
  <2>3. IsFiniteSet(A) /\ Cardinality(A) =< Cardinality(Novas(lista))
    BY <1>1, <2>1, FS_Subset
  <2>4. Cardinality(A) # Cardinality(Novas(lista))
    BY <1>1, <2>1, <2>2, FS_Subset
  <2>5. Cardinality(A) \in Nat /\ Cardinality(Novas(lista)) \in Nat
    BY <1>1, <2>3, FS_CardinalityType
  <2> QED BY <2>3, <2>4, <2>5 DEF A
<1> QED BY <1>1, <1>2, FS_CardinalityType

\* The rows after the save: those there were that the form names, and new ones.
LEMMA LinhasGravadas ==
    ASSUME IInv, NEW lista, NEW n \in Nat, DOMAIN lista = 1 .. n, NEW datas, gravarFilhos(lista, datas)
    PROVE  /\ proximo' \in Nat \ {0} /\ proximo =< proximo'
           /\ Ids(lista) \cap DOMAIN materias \subseteq DOMAIN materias'
           /\ \A x \in DOMAIN materias' : x \in DOMAIN materias \/ x \in proximo .. proximo' - 1
           /\ agendadas' = agendadas \cap DOMAIN materias' /\ estudadas' = estudadas
<1> DEFINE gravadas == {i \in DOMAIN lista : lista[i].id \in {Nova} \cup DOMAIN materias}
<1>1. /\ DOMAIN materias' = {IdDe(lista, i) : i \in gravadas}
      /\ proximo' = proximo + Cardinality(Novas(lista))
      /\ agendadas' = agendadas \cap DOMAIN materias' /\ estudadas' = estudadas
  BY DEF gravarFilhos, gravarDisciplinas, Novas
<1>2. proximo \in Nat \ {0} /\ Cardinality(Novas(lista)) \in Nat
  BY IdsNovos DEF IInv, Contagens
<1>3. Ids(lista) \cap DOMAIN materias \subseteq DOMAIN materias'
  <2> SUFFICES ASSUME NEW x \in Ids(lista), x \in DOMAIN materias PROVE x \in DOMAIN materias'
    OBVIOUS
  <2>1. PICK i \in DOMAIN lista : lista[i].id = x /\ x # Nova
    BY DEF Ids
  <2>2. i \in gravadas /\ IdDe(lista, i) = x
    BY <2>1 DEF IdDe
  <2> QED BY <1>1, <2>2
<1>4. ASSUME NEW i \in gravadas
      PROVE  IdDe(lista, i) \in DOMAIN materias \/ IdDe(lista, i) \in proximo .. proximo' - 1
  <2>1. CASE lista[i].id # Nova
    BY <2>1 DEF IdDe
  <2>2. CASE lista[i].id = Nova
    <3> DEFINE k == Cardinality({j \in 1 .. i - 1 : lista[j].id = Nova})
               m == Cardinality(Novas(lista))
    <3>1. i \in Novas(lista)
      BY <2>2 DEF Novas
    <3>2. k \in Nat /\ k < m /\ m \in Nat
      BY <3>1, IdsNovos
    <3>3. IdDe(lista, i) = proximo + k /\ proximo' = proximo + m
      BY <1>1, <2>2 DEF IdDe
    <3> HIDE DEF k, m
    <3> QED BY <1>2, <3>2, <3>3
  <2> QED BY <2>1, <2>2
<1> QED BY <1>1, <1>2, <1>3, <1>4

-----------------------------------------------------------------------------
(* The requests.                                                           *)

\* Nothing hangs on a contest about to be made.
LEMMA AoCriar ==
    ASSUME IInv, NEW form \in Formularios, NEW datas, Criar(form, datas)
    PROVE  IInv'
<1> DEFINE lista == Normalizar(form)
<1>1. PICK n \in Nat : DOMAIN lista = 1 .. n
  <2>1. PICK n \in Nat : DOMAIN form = 1 .. n /\ \A i \in 1 .. n : "id" \in DOMAIN form[i]
    BY FormulariosTipos
  <2> QED BY <2>1, IdsFicam
<1>2. /\ concurso = Nenhum /\ concursos' = concursos + 1 /\ concurso' = concursos'
      /\ gravarFilhos(lista, datas) /\ UNCHANGED <<aba, perdidas>>
  BY DEF Criar, Inserir
<1> HIDE DEF lista
<1>3. /\ proximo' \in Nat \ {0} /\ proximo =< proximo'
      /\ \A x \in DOMAIN materias' : x \in DOMAIN materias \/ x \in proximo .. proximo' - 1
      /\ agendadas' = agendadas \cap DOMAIN materias' /\ estudadas' = estudadas
  BY <1>1, <1>2, LinhasGravadas
<1>4. proximo \in Nat \ {0} /\ concursos \in Nat /\ DOMAIN materias = {} /\ estudadas = {}
  BY <1>2 DEF IInv, Contagens, Pendem
<1>5. Contagens' /\ AgendadoFica'
  BY <1>2, <1>3, <1>4 DEF IInv, Contagens, AgendadoFica
<1>6. Pendem'
  BY <1>2, <1>3, <1>4, NenhumValido DEF Pendem
<1>7. ASSUME NEW a \in Abas PROVE Lidas(a)'
  BY <1>2, <1>3, <1>4 DEF IInv, Lidas
<1> QED BY <1>5, <1>6, <1>7 DEF IInv

\* A save that is not refused keeps what is studied, and the schedule of every
\* discipline the form keeps, which the tab had read.
LEMMA AoAtualizar ==
    ASSUME IInv, NEW a \in Abas, NEW form \in Formularios, NEW datas, Atualizar(a, form, datas)
    PROVE  IInv' /\ estudadas \subseteq estudadas' \cap DOMAIN materias'
<1> DEFINE p == aba[a]
           lista == Normalizar(preservarIdentidade(form, p.atual.tags))
<1>0. /\ p.passo = "atualizar" /\ Ids(form) \subseteq 1 .. p.ate - 1
      /\ aba' = [aba EXCEPT ![a] = Livre]
  BY DEF Atualizar
<1>a. DOMAIN aba' = Abas /\ \A b \in Abas : b # a => aba'[b] = aba[b]
  BY <1>0 DEF IInv, Contagens
<1>b. aba'[a].passo = "livre"
  BY <1>0 DEF IInv, Contagens, Livre
<1>1. CASE UNCHANGED <<cadastro, plano, perdidas>>
  <2>1. /\ concurso' = concurso /\ materias' = materias /\ proximo' = proximo /\ concursos' = concursos
        /\ agendadas' = agendadas /\ estudadas' = estudadas /\ perdidas' = perdidas
    BY <1>1 DEF cadastro, plano
  <2>2. Contagens' /\ Pendem' /\ AgendadoFica'
    BY <1>a, <2>1 DEF IInv, Contagens, Pendem, AgendadoFica
  <2>3. ASSUME NEW b \in Abas PROVE Lidas(b)'
    BY <1>a, <1>b, <2>1 DEF IInv, Lidas
  <2> QED BY <2>1, <2>2, <2>3 DEF IInv, Pendem
<1>2. CASE ~ UNCHANGED <<cadastro, plano, perdidas>>
  <2>1. PICK temas \in BOOLEAN :
           /\ concurso = p.atual.id /\ ~ Recusada(lista, materias, temas)
           /\ gravarFilhos(lista, datas)
           /\ perdidas' = perdidas \cup (Mantidas(form) \ agendadas')
           /\ UNCHANGED <<concurso, concursos>>
    BY <1>2 DEF Atualizar
  <2>2. /\ \E n \in Nat : DOMAIN lista = 1 .. n
        /\ DOMAIN lista = DOMAIN form
        /\ \A i \in DOMAIN form :
              lista[i].id = IF form[i].id \in DOMAIN p.atual.tags THEN form[i].id ELSE Nova
    BY IdsDaAtualizacao
  <2> HIDE DEF lista
  <2>3. /\ proximo' \in Nat \ {0} /\ proximo =< proximo'
        /\ Ids(lista) \cap DOMAIN materias \subseteq DOMAIN materias'
        /\ \A x \in DOMAIN materias' : x \in DOMAIN materias \/ x \in proximo .. proximo' - 1
        /\ agendadas' = agendadas \cap DOMAIN materias' /\ estudadas' = estudadas
    BY <2>1, <2>2, LinhasGravadas
  <2>4. /\ p.ate \in Nat /\ p.ate =< proximo /\ p.atual.id \in 1 .. concursos
        /\ \A x \in DOMAIN materias : x < p.ate => x \in DOMAIN p.atual.tags
    BY <1>0, <2>1 DEF IInv, Lidas
  <2>5. /\ proximo \in Nat \ {0} /\ concursos \in Nat /\ DOMAIN materias \subseteq 1 .. proximo - 1
        /\ estudadas \subseteq agendadas /\ agendadas \subseteq DOMAIN materias
    BY DEF IInv, Contagens, Pendem
  <2>6. estudadas \subseteq DOMAIN materias'
    <3>1. (DOMAIN materias \ Ids(lista)) \cap estudadas = {}
      BY <2>1 DEF Recusada, Saem
    <3> QED BY <2>3, <2>5, <3>1
  <2>7. Mantidas(form) \subseteq agendadas'
    <3> SUFFICES ASSUME NEW x \in Ids(form), x \in agendadas PROVE x \in agendadas'
      BY DEF Mantidas
    <3>1. PICK i \in DOMAIN form : form[i].id = x /\ x # Nova
      BY DEF Ids
    <3>2. x \in 1 .. p.ate - 1 /\ x \in DOMAIN materias
      BY <1>0, <2>5
    <3>3. x \in DOMAIN p.atual.tags
      BY <2>4, <3>2
    <3>4. x \in Ids(lista)
      BY <2>2, <3>1, <3>3 DEF Ids
    <3> QED BY <2>3, <3>2, <3>4
  <2>8. Contagens' /\ AgendadoFica'
    BY <1>a, <2>1, <2>3, <2>7 DEF IInv, Contagens, AgendadoFica
  <2>9. concurso # Nenhum
    BY <2>1, <2>4, <2>5, NenhumValido
  <2>10. Pendem'
    BY <2>1, <2>3, <2>5, <2>6, <2>9 DEF Pendem
  <2>11. ASSUME NEW b \in Abas PROVE Lidas(b)'
    <3>1. CASE b = a
      BY <1>b, <3>1 DEF Lidas
    <3>2. CASE b # a
      BY <1>a, <2>1, <2>3, <2>5, <3>2 DEF IInv, Lidas
    <3> QED BY <3>1, <3>2
  <2> QED BY <2>3, <2>6, <2>8, <2>10, <2>11 DEF IInv
<1> QED BY <1>1, <1>2

\* The other requests of the contest: reading it, and removing it.
LEMMA AoLerOuRemover ==
    ASSUME IInv, NEW a \in Abas, AtualizarLer(a) \/ RemoverLer(a) \/ Remover(a)
    PROVE  IInv' /\ (concurso' = concurso => estudadas \subseteq estudadas' \cap DOMAIN materias')
<1> USE DEF cadastro, plano
<1>1. CASE AtualizarLer(a)
  <2>1. /\ concurso # Nenhum
        /\ aba' = [aba EXCEPT ![a] = [passo |-> "atualizar", atual |-> carregar, ate |-> proximo]]
        /\ UNCHANGED <<cadastro, plano, perdidas>>
    BY <1>1 DEF AtualizarLer
  <2>2. /\ DOMAIN aba' = Abas /\ \A b \in Abas : b # a => aba'[b] = aba[b]
        /\ aba'[a] = [passo |-> "atualizar", atual |-> carregar, ate |-> proximo]
    BY <2>1 DEF IInv, Contagens
  <2>3. carregar.id = concurso /\ DOMAIN carregar.tags = DOMAIN materias
    BY DEF carregar, Disciplinas
  <2>4. Contagens' /\ Pendem' /\ AgendadoFica'
    BY <2>1, <2>2 DEF IInv, Contagens, Pendem, AgendadoFica
  <2>5. Lidas(a)'
    <3>1. aba'[a].ate = proximo /\ aba'[a].atual = carregar
      BY <2>2
    <3> QED BY <2>1, <2>3, <3>1 DEF IInv, Contagens, Lidas
  <2>6. ASSUME NEW b \in Abas, b # a PROVE Lidas(b)'
    BY <2>1, <2>2, <2>6 DEF IInv, Lidas
  <2> QED BY <2>1, <2>4, <2>5, <2>6 DEF IInv, Pendem
<1>2. CASE RemoverLer(a)
  <2>1. /\ aba' = [aba EXCEPT ![a] = [passo |-> "remover", id |-> concurso]]
        /\ UNCHANGED <<cadastro, plano, perdidas>>
    BY <1>2 DEF RemoverLer
  <2>2. /\ DOMAIN aba' = Abas /\ \A b \in Abas : b # a => aba'[b] = aba[b]
        /\ aba'[a].passo = "remover"
    BY <2>1 DEF IInv, Contagens
  <2>3. Contagens' /\ Pendem' /\ AgendadoFica'
    BY <2>1, <2>2 DEF IInv, Contagens, Pendem, AgendadoFica
  <2>4. ASSUME NEW b \in Abas PROVE Lidas(b)'
    BY <2>1, <2>2 DEF IInv, Lidas
  <2> QED BY <2>1, <2>3, <2>4 DEF IInv, Pendem
<1>3. CASE Remover(a)
  <2>1. aba' = [aba EXCEPT ![a] = Livre] /\ UNCHANGED <<proximo, concursos, perdidas>>
    BY <1>3 DEF Remover
  <2>2. /\ DOMAIN aba' = Abas /\ \A b \in Abas : b # a => aba'[b] = aba[b]
        /\ aba'[a].passo = "livre"
    BY <2>1 DEF IInv, Contagens, Livre
  <2>3. CASE concurso = aba[a].id
    <3>1. concurso' = Nenhum /\ materias' = <<>> /\ agendadas' = {} /\ estudadas' = {}
      BY <1>3, <2>3 DEF Remover
    <3>2. DOMAIN materias' = {}
      BY <3>1
    <3>3. Contagens' /\ Pendem' /\ AgendadoFica'
      BY <2>1, <2>2, <3>1, <3>2 DEF IInv, Contagens, Pendem, AgendadoFica
    <3>4. ASSUME NEW b \in Abas PROVE Lidas(b)'
      BY <2>1, <2>2, <3>1, <3>2, NenhumValido DEF IInv, Lidas
    <3>5. concurso' = concurso => estudadas = {}
      BY <3>1 DEF IInv, Pendem
    <3> QED BY <3>3, <3>4, <3>5 DEF IInv
  <2>4. CASE concurso # aba[a].id
    <3>1. UNCHANGED <<concurso, materias, plano>>
      BY <1>3, <2>4 DEF Remover
    <3>2. Contagens' /\ Pendem' /\ AgendadoFica'
      BY <2>1, <2>2, <3>1 DEF IInv, Contagens, Pendem, AgendadoFica
    <3>3. ASSUME NEW b \in Abas PROVE Lidas(b)'
      BY <2>1, <2>2, <3>1 DEF IInv, Lidas
    <3> QED BY <3>1, <3>2, <3>3 DEF IInv, Pendem
  <2> QED BY <2>3, <2>4
<1> QED BY <1>1, <1>2, <1>3

\* What happens to the plan, and the links, remove no row.
LEMMA NoPlano ==
    ASSUME IInv,
           \/ \E t, l : DefinirLinks(t, l)
           \/ \E x : Agendar(x) \/ Estudar(x)
           \/ \E k : MarcarMarco(k)
           \/ UNCHANGED vars
    PROVE  IInv' /\ estudadas \subseteq estudadas' \cap DOMAIN materias'
<1>1. /\ UNCHANGED <<concurso, proximo, concursos, aba, perdidas>>
      /\ DOMAIN materias' = DOMAIN materias
      /\ estudadas \subseteq estudadas' /\ estudadas' \subseteq agendadas'
      /\ agendadas' \subseteq DOMAIN materias
  BY DEF DefinirLinks, Agendar, Estudar, MarcarMarco, vars, cadastro, plano, IInv, Pendem
<1>2. Contagens' /\ Pendem' /\ AgendadoFica'
  BY <1>1 DEF IInv, Contagens, Pendem, AgendadoFica
<1>3. ASSUME NEW a \in Abas PROVE Lidas(a)'
  BY <1>1 DEF IInv, Lidas
<1> QED BY <1>1, <1>2, <1>3 DEF IInv, Pendem

\* No request breaks it, and none takes study history from the contest.
LEMMA IInvNoPasso ==
    ASSUME IInv, [Next]_vars
    PROVE  IInv' /\ (concurso' = concurso => estudadas \subseteq estudadas' \cap DOMAIN materias')
<1>1. CASE \E form \in Formularios, datas \in Datas : Criar(form, datas)
  <2>1. IInv'
    BY <1>1, AoCriar
  <2>2. estudadas = {}
    BY <1>1 DEF Criar, Inserir, IInv, Pendem
  <2> QED BY <2>1, <2>2
<1>2. CASE \E a \in Abas, form \in Formularios, datas \in Datas : Atualizar(a, form, datas)
  BY <1>2, AoAtualizar
<1>3. CASE \E a \in Abas : AtualizarLer(a) \/ RemoverLer(a) \/ Remover(a)
  BY <1>3, AoLerOuRemover
<1>4. CASE \/ \E t \in Tags, l \in Links : DefinirLinks(t, l)
           \/ \E x \in 1 .. MaxIds : Agendar(x) \/ Estudar(x)
           \/ \E k \in 1 .. MaxMarcos : MarcarMarco(k)
           \/ UNCHANGED vars
  BY <1>4, NoPlano
<1> QED BY <1>1, <1>2, <1>3, <1>4 DEF Next, RotasDoConcurso

\* A save never takes the schedule of a discipline its form kept.
THEOREM AgendadoSempreFica == Spec => []AgendadoFica
<1>1. IInv => AgendadoFica
  BY DEF IInv
<1>2. IInv /\ [Next]_vars => IInv'
  BY IInvNoPasso
<1> QED BY <1>1, <1>2, IInvNoInicio, PTL DEF Spec

\* Study history is only removed with its whole contest.
THEOREM EstudoSempreFica == Spec => EstudoFica
<1>1. IInv /\ [Next]_vars
      => IInv' /\ (concurso' = concurso => estudadas \subseteq estudadas' \cap DOMAIN materias')
  BY IInvNoPasso
<1> QED BY <1>1, IInvNoInicio, PTL DEF Spec, EstudoFica
=============================================================================
