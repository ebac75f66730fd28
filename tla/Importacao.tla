----------------------------- MODULE Importacao -----------------------------
(***************************************************************************)
(* The calls to the processor: the wizard that imports an edital           *)
(* (httpapi/concurso_handler.go, behind the limiter of its routes) and the *)
(* capture of a law, which share one client (editalproc/client.go) and so  *)
(* one breaker.  An upload takes time, and the processor longer: between   *)
(* the check of the screen, the reading of the body and the call the       *)
(* breaker may change under the feet of a request.                         *)
(***************************************************************************)
EXTENDS Limitador, Disjuntor

CONSTANTS Tamanhos,   \* bytes of the PDFs the students send; 0 is no PDF
          Textos      \* bytes of the texts they paste instead; 0 is none

ASSUME TamanhosValidos == Tamanhos \subseteq Nat /\ Textos \subseteq Nat

VARIABLES
    pedido,       \* per student: the request in flight
    seguidas      \* history: unavailable answers since the last healthy one

vars == <<agora, baldes, falhas, abertoAte, sondando, pedido, seguidas>>

maxEditalPDF == 20 * 1048576
maxCorpoEdital == 24 * 1048576

Rotas == {"analisar", "estrutura", "conteudo", "lei"}

\* `pdf' is what the student sent, `lido' what of it goes to the processor.
Livre == [passo |-> "livre", rota |-> "lei", pdf |-> 0, lido |-> 0]

Init ==
    /\ agora = 1
    /\ InitLimitador /\ InitDisjuntor
    /\ pedido = [c \in Clientes |-> Livre]
    /\ seguidas = 0

Passo(c, p) == pedido[c].passo = p
Ir(c, p) == pedido' = [pedido EXCEPT ![c].passo = p]
Responder(c) == pedido' = [pedido EXCEPT ![c] = Livre]

\* The law routes have no limiter and no check of their own.
PedirLei(c) ==
    /\ Passo(c, "livre")
    /\ pedido' = [pedido EXCEPT ![c].passo = "chamar"]
    /\ UNCHANGED <<agora, baldes, falhas, abertoAte, sondando, seguidas>>

\* Authenticated first, limited after.
PedirEdital(c, rota) ==
    /\ Passo(c, "livre")
    /\ rota \in Rotas \ {"lei"}
    /\ permitir(c)
    /\ pedido' = IF Passa(c)
                 THEN [pedido EXCEPT ![c] = [passo |-> "guarda", rota |-> rota, pdf |-> 0, lido |-> 0]]
                 ELSE pedido
    /\ UNCHANGED <<agora, falhas, abertoAte, sondando, seguidas>>

\* 503 before the body is read, while the breaker is open.
guardaImport(c) ==
    /\ Passo(c, "guarda")
    /\ IF Fechado THEN Ir(c, "ler") ELSE Responder(c)
    /\ UNCHANGED <<agora, baldes, falhas, abertoAte, sondando, seguidas>>

Menor(x, y) == IF x < y THEN x ELSE y

\* Slip: without the byte over the limit, what was cut is not told from what fits.
lerPDF_SemByteAMais(pdf) ==
    LET lido == Menor(pdf, maxEditalPDF) IN [cabe |-> lido =< maxEditalPDF, lido |-> lido]

\* At most one byte over the limit is read, and refused.
lerPDF(pdf) ==
    LET lido == Menor(pdf, maxEditalPDF + 1) IN [cabe |-> lido =< maxEditalPDF, lido |-> lido]

\* From the call on, only what was read matters.
Enviar(c, pdf, lido) ==
    pedido' = [pedido EXCEPT ![c] = [passo |-> "chamar", rota |-> "lei", pdf |-> pdf, lido |-> lido]]

\* The fields a body brings beside the text or the PDF.
Extras == [documento : BOOLEAN, disciplinas : BOOLEAN]

\* The body is limited as a whole, the file after it; a text hides the file, and
\* a document of an earlier step goes instead of either.
lerUploadEdital(c, texto, pdf, extras) ==
    LET arquivo == IF texto = 0 THEN pdf ELSE 0
        f == lerPDF(arquivo)
        vazia == texto = 0 /\ f.lido = 0
        passo3 == pedido[c].rota = "conteudo"
        serve == IF passo3 THEN extras.disciplinas /\ (extras.documento \/ ~ vazia) ELSE ~ vazia IN
    /\ Passo(c, "ler") /\ pedido[c].rota \in {"analisar", "conteudo"}
    /\ IF texto + pdf > maxCorpoEdital \/ ~ f.cabe \/ ~ serve
       THEN Responder(c)
       ELSE IF passo3 /\ extras.documento THEN Enviar(c, 0, 0) ELSE Enviar(c, arquivo, f.lido)
    /\ UNCHANGED <<agora, baldes, falhas, abertoAte, sondando, seguidas>>

\* The structure is asked by document and position, with no upload.
EstruturaEdital(c, documento, cargo) ==
    /\ Passo(c, "ler") /\ pedido[c].rota = "estrutura"
    /\ IF documento /\ cargo THEN Enviar(c, 0, 0) ELSE Responder(c)
    /\ UNCHANGED <<agora, baldes, falhas, abertoAte, sondando, seguidas>>

\* A body that is not what it says to be, or that stops coming.
CorpoInvalido(c) ==
    /\ Passo(c, "ler")
    /\ Responder(c)
    /\ UNCHANGED <<agora, baldes, falhas, abertoAte, sondando, seguidas>>

\* do: refused on the spot with the breaker open.
ChamarRecusado(c) ==
    /\ Passo(c, "chamar") /\ ~ Permite
    /\ Responder(c)
    /\ UNCHANGED <<agora, baldes, falhas, abertoAte, sondando, seguidas>>

Chamar(c) ==
    /\ Passo(c, "chamar")
    /\ Permitir
    /\ Ir(c, "rede")
    /\ UNCHANGED <<agora, baldes, seguidas>>

\* Slip: a request that could not be built does not give the probe back.
ChamarSemMontar_SemDevolver(c) ==
    /\ Passo(c, "chamar")
    /\ Permitir
    /\ Responder(c)
    /\ UNCHANGED <<agora, baldes, seguidas>>

\* The request could not be built: counted as a success, which also closes the breaker.
ChamarSemMontar(c) ==
    /\ Passo(c, "chamar") /\ Permite
    /\ Sucesso
    /\ Responder(c)
    /\ seguidas' = 0
    /\ UNCHANGED <<agora, baldes>>

\* Slip: every answer that is an error counts.
registrar_Tudo(indisponivel) == Falha

\* Only unavailability counts against the processor.
registrar(indisponivel) == IF indisponivel THEN Falha ELSE Sucesso

\* Saturated at the limit.
Contar(indisponivel) == seguidas' = IF indisponivel THEN Menor(seguidas + 1, Limite) ELSE 0

\* mapError: transient, 5xx or 429 is unavailability; the rest refuses the edital.
RespostaDeErro(c, transitorio) ==
    /\ Passo(c, "rede")
    /\ registrar(transitorio)
    /\ Contar(transitorio)
    /\ Responder(c)
    /\ UNCHANGED <<agora, baldes>>

\* No answer at all (the timeout, or the student who left), or one that cannot be read.
SemResposta(c) ==
    /\ Passo(c, "rede")
    /\ Falha
    /\ Contar(TRUE)
    /\ Responder(c)
    /\ UNCHANGED <<agora, baldes>>

RespostaBoa(c) ==
    /\ Passo(c, "rede")
    /\ Sucesso
    /\ Contar(FALSE)
    /\ Responder(c)
    /\ UNCHANGED <<agora, baldes>>

Resposta(c) == (\E t \in BOOLEAN : RespostaDeErro(c, t)) \/ SemResposta(c) \/ RespostaBoa(c)

Passar ==
    /\ Correr
    /\ UNCHANGED <<baldes, falhas, abertoAte, sondando, pedido, seguidas>>

Next ==
    \/ \E c \in Clientes :
          \/ PedirLei(c)
          \/ \E rota \in Rotas : PedirEdital(c, rota)
          \/ guardaImport(c)
          \/ \E texto \in Textos, pdf \in Tamanhos, e \in Extras : lerUploadEdital(c, texto, pdf, e)
          \/ \E d, cargo \in BOOLEAN : EstruturaEdital(c, d, cargo)
          \/ CorpoInvalido(c)
          \/ ChamarRecusado(c) \/ Chamar(c) \/ ChamarSemMontar(c)
          \/ Resposta(c)
    \/ Passar

Spec == Init /\ [][Next]_vars

-----------------------------------------------------------------------------
Pedidos == [passo : {"livre", "guarda", "ler", "chamar", "rede"}, rota : Rotas,
            pdf : Tamanhos \cup {0}, lido : Nat]

TypeOK ==
    /\ agora \in 1 .. MaxAgora
    /\ TiposDoLimitador /\ TiposDoDisjuntor
    /\ pedido \in [Clientes -> Pedidos]
    /\ seguidas \in 0 .. Limite

\* The breaker is open only after Limite unavailable answers with no healthy
\* one among them: an edital the processor refuses, of whatever student, does
\* not take the import away from the others (disjuntor.go: "so falha de
\* DISPONIBILIDADE conta").
AbreSoPorIndisponibilidade == abertoAte # 0 => seguidas >= Limite

\* A PDF sent to the processor is the student's, whole: what the reading cuts is
\* refused (lerPDF, where a cut PDF once went on as if it were valid).
NadaTruncado == \A c \in Clientes : pedido[c].lido = pedido[c].pdf

\* A breaker half open always has the call that will report it, however the
\* answers cross: whatever becomes of a probe, it is reported (client.go: "ou
\* o disjuntor trava meio-aberto para sempre").
SondaTemChamada == sondando => \E c \in Clientes : Passo(c, "rede")

=============================================================================
