------------------------------- MODULE Contas -------------------------------
(***************************************************************************)
(* Accounts and sessions: service/auth_service.go over usuario_repo.go,    *)
(* with the cookie that carries the refresh token (httpapi/auth_handler.go *)
(* and cookie_sessao.go) and the access token each tab holds in memory     *)
(* (crypto/jwt.go, auth_middleware.go).                                    *)
(*                                                                         *)
(* One browser, whose tabs share the cookie.  A request takes the cookie   *)
(* as it is when it leaves; the server runs its statements one by one, any *)
(* of which may fail; the answer sets or erases the cookie when it comes   *)
(* back, if it does.  So the answers of two tabs may cross.                *)
(***************************************************************************)
EXTENDS Naturals, FiniteSets

CONSTANTS
    Emails,   \* accounts, by their normalised e-mail
    Tokens,   \* refresh tokens: random, so none is drawn twice (their number bounds the run)
    Abas,     \* tabs: each makes one request at a time
    Nenhum    \* no token, no account

ASSUME NenhumValido == Nenhum \notin Emails \cup Tokens /\ "vencido" \notin Emails \cup {Nenhum}

VARIABLES
    contas,   \* table usuarios
    tabela,   \* table refresh_tokens, by token: a state of Estados
    dono,     \* the account of each row
    cookie,   \* the refresh token the browser has
    acesso,   \* per tab: the account of its access token, "vencido" or Nenhum
    pedido,   \* per tab: its request in flight
    gastos    \* history: tokens that a finished renewal or logout used up

vars == <<contas, tabela, dono, cookie, acesso, pedido, gastos>>

\* "nova" was never drawn, "fora" has left the table.
Estados == {"nova", "vale", "revogado", "vencido", "fora"}

Parado == [rota |-> "nenhuma", passo |-> "parado", token |-> Nenhum, conta |-> Nenhum,
           novo |-> Nenhum, tarde |-> FALSE]

Init ==
    /\ contas = {} /\ cookie = Nenhum
    /\ tabela = [t \in Tokens |-> "nova"]
    /\ dono = [t \in Tokens |-> Nenhum]
    /\ acesso = [a \in Abas |-> Nenhum]
    /\ pedido = [a \in Abas |-> Parado]
    /\ gastos = {}

Novos == {t \in Tokens : tabela[t] = "nova"}
Passo(a, de) == pedido[a].passo = de
Ir(a, passo) == pedido' = [pedido EXCEPT ![a].passo = passo]
Fim(a) == pedido' = [pedido EXCEPT ![a] = Parado]

-----------------------------------------------------------------------------
(* The browser sends.  `tarde' remembers that the token was already spent. *)

Enviar(a, rota, passo, token, conta) ==
    /\ Passo(a, "parado")
    /\ pedido' = [pedido EXCEPT ![a] =
            [rota |-> rota, passo |-> passo, token |-> token, conta |-> conta,
             novo |-> Nenhum, tarde |-> token \in gastos]]

\* Bound: a token is left for each session about to be opened.
HaToken == Cardinality({a \in Abas : pedido[a].rota \in {"entrar", "renovar"}}) < Cardinality(Novos)

PedirEntrada(a, e) ==
    /\ HaToken
    /\ \/ e \in contas /\ Enviar(a, "entrar", "conferir", Nenhum, e)
       \/ Enviar(a, "entrar", "cadastrar", Nenhum, e)
    /\ UNCHANGED <<contas, tabela, dono, cookie, acesso, gastos>>

\* On opening the app, and when the access token no longer serves.
PedirRenovacao(a) ==
    /\ cookie # Nenhum /\ acesso[a] \notin Emails
    /\ HaToken \/ tabela[cookie] # "vale"
    /\ Enviar(a, "renovar", "validar", cookie, Nenhum)
    /\ UNCHANGED <<contas, tabela, dono, cookie, acesso, gastos>>

\* The tab forgets its session and tells the server, which has nothing to
\* revoke when no cookie came.
PedirSaida(a) ==
    /\ acesso[a] # Nenhum
    /\ acesso' = [acesso EXCEPT ![a] = Nenhum]
    /\ Enviar(a, "sair", IF cookie = Nenhum THEN "responder" ELSE "revogar", cookie, Nenhum)
    /\ UNCHANGED <<contas, tabela, dono, cookie, gastos>>

-----------------------------------------------------------------------------
(* The server, a statement at a time.                                      *)

\* Criar: ErrEmailEmUso, or an account whose first session may still fail.
Cadastrar(a) ==
    /\ Passo(a, "cadastrar")
    /\ IF pedido[a].conta \in contas THEN Ir(a, "recusar") ELSE Ir(a, "emitir")
    /\ contas' = contas \cup {pedido[a].conta}
    /\ UNCHANGED <<tabela, dono, cookie, acesso, gastos>>

\* PorEmail and the password: an unknown account and a wrong password look alike.
Entrar(a) ==
    /\ Passo(a, "conferir")
    /\ Ir(a, "recusar") \/ (pedido[a].conta \in contas /\ Ir(a, "emitir"))
    /\ UNCHANGED <<contas, tabela, dono, cookie, acesso, gastos>>

Validado(a, servem) ==
    /\ Passo(a, "validar")
    /\ IF tabela[pedido[a].token] \in servem
       THEN pedido' = [pedido EXCEPT ![a].passo = "revogar", ![a].conta = dono[pedido[a].token]]
       ELSE Ir(a, "recusar")
    /\ UNCHANGED <<contas, tabela, dono, cookie, acesso, gastos>>

\* Slip: a revoked token is still good.
RefreshTokenValido_Revogado(a) == Validado(a, {"vale", "revogado"})
RefreshTokenValido(a) == Validado(a, {"vale"})

\* A row that is gone, or revoked already, is no error.
RevogarRefreshToken(a) ==
    LET t == pedido[a].token IN
    /\ Passo(a, "revogar")
    /\ tabela' = [tabela EXCEPT ![t] = IF @ = "fora" THEN @ ELSE "revogado"]
    /\ Ir(a, IF pedido[a].rota = "sair" THEN "responder" ELSE "porid")
    /\ UNCHANGED <<contas, dono, cookie, acesso, gastos>>

PorID(a) ==
    /\ Passo(a, "porid")
    /\ Ir(a, IF pedido[a].conta \in contas THEN "emitir" ELSE "recusar")
    /\ UNCHANGED <<contas, tabela, dono, cookie, acesso, gastos>>

\* The renewal: each statement on its own, so two may validate before either revokes.
Renovar(a) == RefreshTokenValido(a) \/ RevogarRefreshToken(a) \/ PorID(a)

GuardarRefreshToken(t, e) ==
    /\ tabela' = [tabela EXCEPT ![t] = "vale"]
    /\ dono' = [dono EXCEPT ![t] = e]

\* Slip: a row that references no account.
emitirPar_SemConta(a) ==
    /\ Passo(a, "emitir")
    /\ \E t \in Novos :
           /\ GuardarRefreshToken(t, pedido[a].conta)
           /\ pedido' = [pedido EXCEPT ![a].passo = "responder", ![a].novo = t]
    /\ UNCHANGED <<contas, cookie, acesso, gastos>>

\* The row references the account.
emitirPar(a) ==
    /\ Passo(a, "emitir")
    /\ IF pedido[a].conta \in contas
       THEN \E t \in Novos :
                /\ GuardarRefreshToken(t, pedido[a].conta)
                /\ pedido' = [pedido EXCEPT ![a].passo = "responder", ![a].novo = t]
       ELSE Ir(a, "recusar") /\ UNCHANGED <<tabela, dono>>
    /\ UNCHANGED <<contas, cookie, acesso, gastos>>

\* Any statement may fail.
FalharNoBanco(a) ==
    /\ pedido[a].passo \in {"cadastrar", "conferir", "validar", "revogar", "porid", "emitir"}
    /\ Ir(a, "recusar")
    /\ UNCHANGED <<contas, tabela, dono, cookie, acesso, gastos>>

-----------------------------------------------------------------------------
(* The browser receives.                                                   *)

gravarRefresh(t) == cookie' = t
apagarRefresh == cookie' = Nenhum

\* What a finished renewal or logout used up.
Gasto(a) == IF pedido[a].rota \in {"renovar", "sair"} THEN {pedido[a].token} \ {Nenhum} ELSE {}

\* The new pair: the cookie, and the account with its access token.
ReceberPar(a) ==
    /\ Passo(a, "responder") /\ pedido[a].rota \in {"entrar", "renovar"}
    /\ gravarRefresh(pedido[a].novo)
    /\ acesso' = [acesso EXCEPT ![a] = pedido[a].conta]
    /\ gastos' = gastos \cup Gasto(a)
    /\ Fim(a)
    /\ UNCHANGED <<contas, tabela, dono>>

\* The cookie goes whether or not the token could be revoked.
Sair(a) ==
    /\ pedido[a].passo \in {"responder", "recusar"} /\ pedido[a].rota = "sair"
    /\ apagarRefresh
    /\ gastos' = gastos \cup (IF Passo(a, "responder") THEN Gasto(a) ELSE {})
    /\ Fim(a)
    /\ UNCHANGED <<contas, tabela, dono, acesso>>

\* Slip: a refused renewal leaves the cookie where it is.
RenovarRecusado_SemApagar(a) ==
    /\ Passo(a, "recusar") /\ pedido[a].rota = "renovar"
    /\ acesso' = [acesso EXCEPT ![a] = Nenhum]
    /\ Fim(a)
    /\ UNCHANGED <<contas, tabela, dono, cookie, gastos>>

\* A refused renewal ends the session in the browser too, whatever the cookie is by now.
RenovarRecusado(a) ==
    /\ Passo(a, "recusar") /\ pedido[a].rota = "renovar"
    /\ apagarRefresh
    /\ acesso' = [acesso EXCEPT ![a] = Nenhum]
    /\ Fim(a)
    /\ UNCHANGED <<contas, tabela, dono, gastos>>

\* A refused login or registration changes nothing in the browser.
EntradaRecusada(a) ==
    /\ Passo(a, "recusar") /\ pedido[a].rota = "entrar"
    /\ Fim(a)
    /\ UNCHANGED <<contas, tabela, dono, cookie, acesso, gastos>>

\* The answer never comes; for the tab that is no invalid session.
PerderResposta(a) ==
    /\ pedido[a].passo \in {"responder", "recusar"}
    /\ gastos' = gastos \cup (IF Passo(a, "responder") THEN Gasto(a) ELSE {})
    /\ Fim(a)
    /\ UNCHANGED <<contas, tabela, dono, cookie, acesso>>

-----------------------------------------------------------------------------
(* A call with the access token, time, the worker, and the operator.       *)

\* An account that is gone gets 401 as an expired token does; the tab will renew.
Autenticar(a) ==
    /\ Passo(a, "parado") /\ acesso[a] \in Emails \ contas
    /\ acesso' = [acesso EXCEPT ![a] = "vencido"]
    /\ UNCHANGED <<contas, tabela, dono, cookie, pedido, gastos>>

VencerAcesso(a) ==
    /\ acesso[a] \in Emails
    /\ acesso' = [acesso EXCEPT ![a] = "vencido"]
    /\ UNCHANGED <<contas, tabela, dono, cookie, pedido, gastos>>

VencerRefresh(t) ==
    /\ tabela[t] = "vale"
    /\ tabela' = [tabela EXCEPT ![t] = "vencido"]
    /\ UNCHANGED <<contas, dono, cookie, acesso, pedido, gastos>>

\* The cookie has the term of its row.
VencerCookie ==
    /\ cookie # Nenhum /\ tabela[cookie] \in {"vencido", "fora"}
    /\ apagarRefresh
    /\ UNCHANGED <<contas, tabela, dono, acesso, pedido, gastos>>

Varridos(M) ==
    /\ M # {}
    /\ tabela' = [t \in Tokens |-> IF t \in M THEN "fora" ELSE tabela[t]]
    /\ dono' = [t \in Tokens |-> IF t \in M THEN Nenhum ELSE dono[t]]

\* Slip: only what expired is swept.
LimparRefreshTokens_SoVencidos ==
    /\ Varridos({t \in Tokens : tabela[t] = "vencido"})
    /\ UNCHANGED <<contas, cookie, acesso, pedido, gastos>>

LimparRefreshTokens ==
    /\ Varridos({t \in Tokens : tabela[t] \in {"revogado", "vencido"}})
    /\ UNCHANGED <<contas, cookie, acesso, pedido, gastos>>

\* An account deleted by hand takes its tokens along; access tokens survive.
ApagarConta(e) ==
    LET dele == {t \in Tokens : dono[t] = e} IN
    /\ e \in contas
    /\ contas' = contas \ {e}
    /\ tabela' = [t \in Tokens |-> IF t \in dele THEN "fora" ELSE tabela[t]]
    /\ dono' = [t \in Tokens |-> IF t \in dele THEN Nenhum ELSE dono[t]]
    /\ UNCHANGED <<cookie, acesso, pedido, gastos>>

-----------------------------------------------------------------------------
Servidor(a) == Cadastrar(a) \/ Entrar(a) \/ Renovar(a) \/ emitirPar(a) \/ FalharNoBanco(a)
Resposta(a) == \/ ReceberPar(a) \/ Sair(a) \/ RenovarRecusado(a) \/ EntradaRecusada(a)
               \/ PerderResposta(a)

Next ==
    \/ \E a \in Abas : \/ \E e \in Emails : PedirEntrada(a, e)
                       \/ PedirRenovacao(a) \/ PedirSaida(a)
                       \/ Servidor(a) \/ Resposta(a) \/ Autenticar(a) \/ VencerAcesso(a)
    \/ \E t \in Tokens : VencerRefresh(t)
    \/ VencerCookie \/ LimparRefreshTokens
    \/ \E e \in Emails : ApagarConta(e)

Spec == Init /\ [][Next]_vars

\* The worker keeps sweeping, the server carries out what it received, and an
\* answer that keeps being given does not get lost every time.
Fairness ==
    /\ WF_vars(LimparRefreshTokens)
    /\ \A a \in Abas : WF_vars(Servidor(a)) /\ WF_vars(Resposta(a)) /\ SF_vars(RenovarRecusado(a))

FairSpec == Spec /\ Fairness

-----------------------------------------------------------------------------
TypeOK ==
    /\ contas \subseteq Emails /\ gastos \subseteq Tokens
    /\ tabela \in [Tokens -> Estados]
    /\ dono \in [Tokens -> Emails \cup {Nenhum}]
    /\ cookie \in Tokens \cup {Nenhum}
    /\ acesso \in [Abas -> Emails \cup {"vencido", Nenhum}]
    /\ pedido \in [Abas -> [rota : {"nenhuma", "entrar", "renovar", "sair"},
                            passo : {"parado", "cadastrar", "conferir", "validar", "revogar",
                                     "porid", "emitir", "responder", "recusar"},
                            token : Tokens \cup {Nenhum}, conta : Emails \cup {Nenhum},
                            novo : Tokens \cup {Nenhum}, tarde : BOOLEAN]]

\* A token that a finished renewal or logout used up opens no other session,
\* however late the tab presents it: rotation is final (usuario_repo.go: a
\* revoked row "nao tem como voltar a valer"; the sweep that follows deletes it).
TokenGastoNaoRenova ==
    \A a \in Abas : pedido[a].rota = "renovar" /\ pedido[a].tarde =>
                        pedido[a].passo \in {"validar", "recusar"}

\* Every row of refresh_tokens is an account's, so its cookie can only reopen
\* that account; a row whose account is gone goes with it, even when the
\* deletion falls between the check of a renewal and its insert.
LinhaTemConta ==
    \A t \in Tokens : tabela[t] \in {"vale", "revogado", "vencido"} => dono[t] \in contas

\* Whatever stopped authenticating leaves the table (LimparRefreshTokens: "a
\* tabela so crescia").
MortoSaiDaTabela ==
    \A t \in Tokens : (tabela[t] \in {"revogado", "vencido"}) ~> (tabela[t] = "fora")

\* No dead token is presented for ever: a refused renewal erases the cookie
\* (auth_handler.go Renovar: without it "o app tentaria renovar para sempre
\* com um token que o banco ja nao conhece").
TokenMortoNaoVoltaSempre ==
    \A t \in Tokens :
        <>[](\A a \in Abas : ~ (Passo(a, "validar") /\ pedido[a].token = t /\ tabela[t] # "vale"))
=============================================================================
