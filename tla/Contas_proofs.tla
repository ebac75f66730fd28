--------------------------- MODULE Contas_proofs ----------------------------
(***************************************************************************)
(* The session invariants of Contas, for every set of accounts, tokens and *)
(* tabs.  What makes TokenGastoNaoRenova inductive is that revocation is   *)
(* final (Gastos) and that a request past its revocation carries a revoked *)
(* token (Revogados); LinhaTemConta needs that whoever holds a token holds *)
(* one whose row was inserted (Emitidos).                                  *)
(***************************************************************************)
EXTENDS Contas, TLAPS

Gastos == \A t \in gastos : tabela[t] \in {"revogado", "fora"}

Revogados ==
    \A a \in Abas : /\ pedido[a].rota \in {"renovar", "sair"} /\ pedido[a].token \in Tokens
                    /\ pedido[a].passo \in {"porid", "emitir", "responder"}
                    => tabela[pedido[a].token] \in {"revogado", "fora"}

Tardes == \A a \in Abas : pedido[a].tarde => pedido[a].token \in gastos

Emitidos ==
    /\ cookie \in Tokens => tabela[cookie] # "nova"
    /\ \A a \in Abas : /\ pedido[a].token \in Tokens => tabela[pedido[a].token] # "nova"
                       /\ pedido[a].novo \in Tokens => tabela[pedido[a].novo] # "nova"

\* Only a renewal or a logout validates or revokes, and it has a token;
\* only a registration or a login comes with its account.
Rotas ==
    \A a \in Abas :
        /\ pedido[a].passo = "validar" => pedido[a].rota = "renovar"
        /\ pedido[a].passo = "revogar" => pedido[a].rota \in {"renovar", "sair"}
        /\ pedido[a].passo \in {"validar", "revogar"} => pedido[a].token \in Tokens
        /\ pedido[a].passo \in {"cadastrar", "conferir"} => pedido[a].rota = "entrar"
        /\ pedido[a].passo = "cadastrar" => pedido[a].conta \in Emails
        /\ (pedido[a].passo = "responder" /\ pedido[a].rota # "sair") => pedido[a].novo \in Tokens
        /\ pedido[a].passo \in {"porid", "emitir"} => pedido[a].rota # "sair"

IInv == /\ TypeOK /\ Rotas /\ Gastos /\ Revogados /\ Tardes /\ TokenGastoNaoRenova
        /\ Emitidos /\ LinhaTemConta

\* Nobody has anything at the start.
LEMMA IInvNoInicio == Init => IInv
<1> SUFFICES ASSUME Init PROVE IInv
  OBVIOUS
<1>1. TypeOK
  BY DEF Init, TypeOK, Estados, Parado
<1>2. Rotas /\ Gastos /\ Revogados /\ Tardes /\ TokenGastoNaoRenova /\ Emitidos /\ LinhaTemConta
  BY NenhumValido DEF Init, Parado, Rotas, Gastos, Revogados, Tardes, TokenGastoNaoRenova, Emitidos, LinhaTemConta
<1> QED BY <1>1, <1>2 DEF IInv

USE NenhumValido DEF TypeOK, Estados, Parado, Passo, Ir, Fim, Rotas

\* What the browser sends is remembered as late exactly when its token was spent.
LEMMA IInvAoEnviar ==
    ASSUME IInv, NEW a \in Abas,
           (\E e \in Emails : PedirEntrada(a, e)) \/ PedirRenovacao(a) \/ PedirSaida(a)
    PROVE  IInv'
<1> USE DEF IInv, Enviar
<1>1. CASE \E e \in Emails : PedirEntrada(a, e)
  <2> PICK e \in Emails : PedirEntrada(a, e)
    BY <1>1
  <2> PICK passo \in {"conferir", "cadastrar"} :
           pedido' = [pedido EXCEPT ![a] = [rota |-> "entrar", passo |-> passo, token |-> Nenhum,
                                            conta |-> e, novo |-> Nenhum, tarde |-> FALSE]]
    <3>1. Nenhum \notin gastos
      OBVIOUS
    <3>2. CASE Enviar(a, "entrar", "conferir", Nenhum, e)
      <4>1. pedido' = [pedido EXCEPT ![a] = [rota |-> "entrar", passo |-> "conferir", token |-> Nenhum,
                                   conta |-> e, novo |-> Nenhum, tarde |-> Nenhum \in gastos]]
        BY <3>2, Zenon
      <4>2. (Nenhum \in gastos) = FALSE
        BY <3>1
      <4>3. pedido' = [pedido EXCEPT ![a] = [rota |-> "entrar", passo |-> "conferir", token |-> Nenhum,
                                   conta |-> e, novo |-> Nenhum, tarde |-> FALSE]]
        BY <4>1, <4>2, Zenon
      <4> QED BY <4>3
    <3>3. CASE Enviar(a, "entrar", "cadastrar", Nenhum, e)
      <4>1. pedido' = [pedido EXCEPT ![a] = [rota |-> "entrar", passo |-> "cadastrar", token |-> Nenhum,
                                   conta |-> e, novo |-> Nenhum, tarde |-> Nenhum \in gastos]]
        BY <3>3, Zenon
      <4>2. (Nenhum \in gastos) = FALSE
        BY <3>1
      <4>3. pedido' = [pedido EXCEPT ![a] = [rota |-> "entrar", passo |-> "cadastrar", token |-> Nenhum,
                                   conta |-> e, novo |-> Nenhum, tarde |-> FALSE]]
        BY <4>1, <4>2, Zenon
      <4> QED BY <4>3
    <3> QED BY <3>2, <3>3 DEF PedirEntrada
  <2> UNCHANGED <<contas, tabela, dono, cookie, acesso, gastos>>
    BY DEF PedirEntrada
  <2>1. TypeOK'
    BY DEF IInv
  <2>2. Rotas'
    BY DEF IInv
  <2>3. Gastos'
    BY DEF Gastos
  <2>4. Revogados'
    BY DEF Revogados
  <2>5. Tardes'
    BY DEF Tardes
  <2>6. TokenGastoNaoRenova'
    BY DEF TokenGastoNaoRenova
  <2>7. Emitidos'
    BY DEF Emitidos
  <2>8. LinhaTemConta'
    BY DEF LinhaTemConta
  <2> QED BY <2>1, <2>2, <2>3, <2>4, <2>5, <2>6, <2>7, <2>8 DEF IInv
<1>2. CASE PedirRenovacao(a)
  <2> USE <1>2 DEF PedirRenovacao
  <2>1. TypeOK'
    BY DEF IInv
  <2>2. Rotas'
    BY DEF IInv
  <2>3. Gastos'
    BY DEF Gastos
  <2>4. Revogados'
    BY DEF Revogados
  <2>5. Tardes'
    BY DEF Tardes
  <2>6. TokenGastoNaoRenova'
    BY DEF TokenGastoNaoRenova
  <2>7. Emitidos'
    BY DEF Emitidos
  <2>8. LinhaTemConta'
    BY DEF LinhaTemConta
  <2> QED BY <2>1, <2>2, <2>3, <2>4, <2>5, <2>6, <2>7, <2>8 DEF IInv
<1>3. CASE PedirSaida(a)
  <2> USE <1>3 DEF PedirSaida
  <2>1. TypeOK'
    BY DEF IInv
  <2>2. Rotas'
    BY DEF IInv
  <2>3. Gastos'
    BY DEF Gastos
  <2>4. Revogados'
    BY DEF Revogados
  <2>5. Tardes'
    BY DEF Tardes
  <2>6. TokenGastoNaoRenova'
    BY DEF TokenGastoNaoRenova
  <2>7. Emitidos'
    BY DEF Emitidos
  <2>8. LinhaTemConta'
    BY DEF LinhaTemConta
  <2> QED BY <2>1, <2>2, <2>3, <2>4, <2>5, <2>6, <2>7, <2>8 DEF IInv
<1> QED BY <1>1, <1>2, <1>3

\* A statement of the server: the validation lets no spent token past, the
\* revocation is what the later steps rely on, and the insert needs the account.
LEMMA IInvNoServidor ==
    ASSUME IInv, NEW a \in Abas, Servidor(a)
    PROVE  IInv'
<1> USE DEF IInv
<1>1. CASE Cadastrar(a)
  <2> USE <1>1 DEF Cadastrar
  <2>1. TypeOK'
    BY DEF IInv
  <2>2. Rotas'
    BY DEF IInv
  <2>3. Gastos'
    BY DEF Gastos
  <2>4. Revogados'
    BY DEF Revogados
  <2>5. Tardes'
    BY DEF Tardes
  <2>6. TokenGastoNaoRenova'
    BY DEF TokenGastoNaoRenova
  <2>7. Emitidos'
    BY DEF Emitidos
  <2>8. LinhaTemConta'
    BY DEF LinhaTemConta
  <2> QED BY <2>1, <2>2, <2>3, <2>4, <2>5, <2>6, <2>7, <2>8 DEF IInv
<1>2. CASE Entrar(a)
  <2> USE <1>2 DEF Entrar
  <2>1. TypeOK'
    BY DEF IInv
  <2>2. Rotas'
    <3>1. pedido[a].passo = "conferir" /\ pedido[a].rota = "entrar"
      BY DEF Rotas
    <3>2. PICK passo \in {"emitir", "recusar"} : pedido' = [pedido EXCEPT ![a].passo = passo]
      OBVIOUS
    <3>3. /\ pedido'[a].passo \in {"emitir", "recusar"} /\ pedido'[a].rota = "entrar"
          /\ \A b \in Abas \ {a} : pedido'[b] = pedido[b]
      BY <3>1, <3>2
    <3> QED BY <3>3
  <2>3. Gastos'
    BY DEF Gastos
  <2>4. Revogados'
    BY DEF Revogados
  <2>5. Tardes'
    BY DEF Tardes
  <2>6. TokenGastoNaoRenova'
    BY DEF TokenGastoNaoRenova
  <2>7. Emitidos'
    BY DEF Emitidos
  <2>8. LinhaTemConta'
    BY DEF LinhaTemConta
  <2> QED BY <2>1, <2>2, <2>3, <2>4, <2>5, <2>6, <2>7, <2>8 DEF IInv
<1>3. CASE RefreshTokenValido(a)
  <2> USE <1>3 DEF RefreshTokenValido, Validado
  <2>1. TypeOK'
    BY DEF IInv
  <2>2. Rotas'
    BY DEF IInv
  <2>3. Gastos'
    BY DEF Gastos
  <2>4. Revogados'
    BY DEF Revogados
  <2>5. Tardes'
    BY DEF Tardes
  <2>6. TokenGastoNaoRenova'
    BY DEF TokenGastoNaoRenova, Gastos, Tardes
  <2>7. Emitidos'
    BY DEF Emitidos
  <2>8. LinhaTemConta'
    BY DEF LinhaTemConta
  <2> QED BY <2>1, <2>2, <2>3, <2>4, <2>5, <2>6, <2>7, <2>8 DEF IInv
<1>4. CASE RevogarRefreshToken(a)
  <2> USE <1>4 DEF RevogarRefreshToken
  <2>1. TypeOK'
    BY DEF IInv
  <2>2. Rotas'
    BY DEF IInv
  <2>3. Gastos'
    BY DEF Gastos
  <2>4. Revogados'
    BY DEF Revogados
  <2>5. Tardes'
    BY DEF Tardes
  <2>6. TokenGastoNaoRenova'
    BY DEF TokenGastoNaoRenova
  <2>7. Emitidos'
    BY DEF Emitidos
  <2>8. LinhaTemConta'
    BY DEF LinhaTemConta, Emitidos
  <2> QED BY <2>1, <2>2, <2>3, <2>4, <2>5, <2>6, <2>7, <2>8 DEF IInv
<1>5. CASE PorID(a)
  BY <1>5 DEF PorID, Gastos, Revogados, Tardes, TokenGastoNaoRenova, Emitidos, LinhaTemConta
<1>6. CASE emitirPar(a)
  <2> USE <1>6 DEF emitirPar, GuardarRefreshToken, Novos
  <2>1. TypeOK'
    BY DEF IInv
  <2>2. Rotas'
    BY DEF IInv
  <2>3. Gastos'
    BY DEF Gastos
  <2>4. Revogados'
    BY DEF Revogados
  <2>5. Tardes'
    BY DEF Tardes
  <2>6. TokenGastoNaoRenova'
    BY DEF TokenGastoNaoRenova
  <2>7. Emitidos'
    BY DEF Emitidos
  <2>8. LinhaTemConta'
    BY DEF LinhaTemConta
  <2> QED BY <2>1, <2>2, <2>3, <2>4, <2>5, <2>6, <2>7, <2>8 DEF IInv
<1>7. CASE FalharNoBanco(a)
  BY <1>7 DEF FalharNoBanco, Gastos, Revogados, Tardes, TokenGastoNaoRenova, Emitidos, LinhaTemConta
<1> QED BY <1>1, <1>2, <1>3, <1>4, <1>5, <1>6, <1>7 DEF Servidor, Renovar

\* An answer spends only what was revoked.
LEMMA IInvNaResposta ==
    ASSUME IInv, NEW a \in Abas, Resposta(a)
    PROVE  IInv'
<1> USE DEF IInv, Gasto, gravarRefresh, apagarRefresh
<1>1. CASE ReceberPar(a)
  BY <1>1 DEF ReceberPar, Gastos, Revogados, Tardes, TokenGastoNaoRenova, Emitidos, LinhaTemConta
<1>2. CASE Sair(a)
  BY <1>2 DEF Sair, Gastos, Revogados, Tardes, TokenGastoNaoRenova, Emitidos, LinhaTemConta
<1>3. CASE RenovarRecusado(a)
  BY <1>3 DEF RenovarRecusado, Gastos, Revogados, Tardes, TokenGastoNaoRenova, Emitidos, LinhaTemConta
<1>4. CASE EntradaRecusada(a)
  BY <1>4 DEF EntradaRecusada, Gastos, Revogados, Tardes, TokenGastoNaoRenova, Emitidos, LinhaTemConta
<1>5. CASE PerderResposta(a)
  BY <1>5 DEF PerderResposta, Gastos, Revogados, Tardes, TokenGastoNaoRenova, Emitidos, LinhaTemConta
<1> QED BY <1>1, <1>2, <1>3, <1>4, <1>5 DEF Resposta

\* Every step keeps the invariant; the rest only lets rows and tokens go.
LEMMA IInvNoPasso == IInv /\ [Next]_vars => IInv'
<1> SUFFICES ASSUME IInv, [Next]_vars PROVE IInv'
  OBVIOUS
<1> USE DEF apagarRefresh
<1>1. ASSUME NEW a \in Abas, Autenticar(a) \/ VencerAcesso(a) PROVE IInv'
  BY <1>1 DEF IInv, Autenticar, VencerAcesso, Gastos, Revogados, Tardes, TokenGastoNaoRenova, Emitidos, LinhaTemConta
<1>2. ASSUME NEW t \in Tokens, VencerRefresh(t) PROVE IInv'
  BY <1>2 DEF IInv, VencerRefresh, Gastos, Revogados, Tardes, TokenGastoNaoRenova, Emitidos, LinhaTemConta
<1>3. CASE VencerCookie
  BY <1>3 DEF IInv, VencerCookie, Gastos, Revogados, Tardes, TokenGastoNaoRenova, Emitidos, LinhaTemConta
<1>4. CASE LimparRefreshTokens
  BY <1>4 DEF IInv, LimparRefreshTokens, Varridos, Gastos, Revogados, Tardes, TokenGastoNaoRenova, Emitidos, LinhaTemConta
<1>5. ASSUME NEW e \in Emails, ApagarConta(e) PROVE IInv'
  BY <1>5 DEF IInv, ApagarConta, Gastos, Revogados, Tardes, TokenGastoNaoRenova, Emitidos, LinhaTemConta
<1>6. CASE UNCHANGED vars
  BY <1>6 DEF IInv, vars, Gastos, Revogados, Tardes, TokenGastoNaoRenova, Emitidos, LinhaTemConta
<1> QED BY <1>1, <1>2, <1>3, <1>4, <1>5, <1>6, IInvAoEnviar, IInvNoServidor, IInvNaResposta DEF Next

\* The invariant holds in every behaviour, fair or not.
LEMMA IInvSempre == Spec => []IInv
BY IInvNoInicio, IInvNoPasso, PTL DEF Spec

\* The tables, the cookie, the tabs and their requests keep their types.
THEOREM TiposSempre == Spec => []TypeOK
BY IInvSempre, PTL DEF IInv

\* A spent refresh token never opens another session, for any number of tabs.
THEOREM GastoNuncaRenova == Spec => []TokenGastoNaoRenova
BY IInvSempre, PTL DEF IInv

\* No session row outlives its account.
THEOREM LinhaSempreTemConta == Spec => []LinhaTemConta
BY IInvSempre, PTL DEF IInv
=============================================================================
