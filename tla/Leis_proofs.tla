----------------------------- MODULE Leis_proofs -----------------------------
(***************************************************************************)
(* What is proved of the catalogue of laws, for any law, topics, tabs and  *)
(* texts.  The first part is about the tree of provisions: Linha is the    *)
(* solution of its equation, and the facts a proof by induction over the   *)
(* tree would give are taken from the provision nearest the root among     *)
(* those that fail (Arvore).  The second is the invariant: a version kept  *)
(* is what Guardar makes of its recorte, ids are given once, and answers   *)
(* hang on questions there are.                                            *)
(***************************************************************************)
EXTENDS Leis, FiniteSetTheorems, TLAPS

-----------------------------------------------------------------------------
(* The tree of provisions.                                                 *)

\* The sets that hold, with a provision, its parent.
Fechados == {S \in SUBSET Refs : \A y \in S \cap DOMAIN Pai : Pai[y] \in S}

\* Linha without the recursion: what every closed set that has r must have.
Acima(r) == {x \in Refs : \A S \in Fechados : r \in S => x \in S}

\* Going up from a provision is going up from its parent.
LEMMA AcimaPorPasso ==
    ASSUME NEW r \in Refs
    PROVE  Acima(r) = {r} \cup (IF r \in DOMAIN Pai THEN Acima(Pai[r]) ELSE {})
<1> DEFINE C == {r} \cup (IF r \in DOMAIN Pai THEN Acima(Pai[r]) ELSE {})
<1>1. \A q \in Refs : q \in Acima(q) /\ Acima(q) \in Fechados
  BY RefsValidas DEF Acima, Fechados
<1>2. C \in Fechados
  BY <1>1, RefsValidas DEF Fechados
<1>3. Acima(r) \subseteq C
  BY <1>2 DEF Acima
<1>4. C \subseteq Acima(r)
  BY <1>1, RefsValidas DEF Acima, Fechados
<1> QED BY <1>3, <1>4

\* The equation of Linha has a solution, so Linha is one.
LEMMA LinhaPorPasso ==
    Linha = [r \in Refs |-> {r} \cup (IF r \in DOMAIN Pai THEN Linha[Pai[r]] ELSE {})]
<1> DEFINE f == [r \in Refs |-> Acima(r)]
           Solve(g) == g = [r \in Refs |-> {r} \cup (IF r \in DOMAIN Pai THEN g[Pai[r]] ELSE {})]
<1>1. \A r \in Refs : f[r] = {r} \cup (IF r \in DOMAIN Pai THEN f[Pai[r]] ELSE {})
  BY AcimaPorPasso, RefsValidas
<1>2. Solve(f)
  BY <1>1
<1>3. Linha = CHOOSE g : Solve(g)
  BY DEF Linha
<1> HIDE DEF Solve, f
<1>4. Solve(CHOOSE g : Solve(g))
  BY <1>2
<1>5. Solve(Linha)
  BY <1>3, <1>4
<1> QED BY <1>5 DEF Solve

\* What each step of a chain says of the next.
LEMMA LinhaSobe ==
    ASSUME NEW r \in Refs
    PROVE  /\ r \in Linha[r]
           /\ r \in DOMAIN Pai => Pai[r] \in Refs /\ Linha[r] = {r} \cup Linha[Pai[r]]
           /\ r \notin DOMAIN Pai => Linha[r] = {r}
BY LinhaPorPasso, RefsValidas

\* What is above a provision is of the law, and all that is above it is too.
LEMMA LinhaTransitiva ==
    ASSUME NEW x \in Refs, NEW y \in Linha[x]
    PROVE  y \in Refs /\ Linha[y] \subseteq Linha[x]
<1> DEFINE Falha == {r \in Refs : ~ \A z \in Linha[r] : z \in Refs /\ Linha[z] \subseteq Linha[r]}
<1>1. Falha = {}
  <2> SUFFICES ASSUME Falha # {} PROVE FALSE
    OBVIOUS
  <2>1. PICK r \in Falha : r \in DOMAIN Pai => Pai[r] \notin Falha
    BY Arvore
  <2>2. r \in DOMAIN Pai =>
           Pai[r] \in Refs /\ \A z \in Linha[Pai[r]] : z \in Refs /\ Linha[z] \subseteq Linha[Pai[r]]
    BY <2>1, LinhaSobe
  <2>3. \A z \in Linha[r] : z \in Refs /\ Linha[z] \subseteq Linha[r]
    BY <2>1, <2>2, LinhaSobe
  <2> QED BY <2>1, <2>3
<1> QED BY <1>1

\* Of two provisions above a third, one is above the other.
LEMMA LinhaReta ==
    ASSUME NEW x \in Refs, NEW y \in Linha[x], NEW z \in Linha[x]
    PROVE  y \in Linha[z] \/ z \in Linha[y]
<1> DEFINE Falha == {r \in Refs : ~ \A v, w \in Linha[r] : v \in Linha[w] \/ w \in Linha[v]}
<1>1. Falha = {}
  <2> SUFFICES ASSUME Falha # {} PROVE FALSE
    OBVIOUS
  <2>1. PICK r \in Falha : r \in DOMAIN Pai => Pai[r] \notin Falha
    BY Arvore
  <2>2. r \in DOMAIN Pai => \A v, w \in Linha[Pai[r]] : v \in Linha[w] \/ w \in Linha[v]
    BY <2>1, LinhaSobe
  <2>3. \A v, w \in Linha[r] : v \in Linha[w] \/ w \in Linha[v]
    BY <2>1, <2>2, LinhaSobe
  <2> QED BY <2>1, <2>3
<1> QED BY <1>1

\* A part of the law that holds, with a provision, those above it.
Completa(ds) == ds \subseteq Refs /\ \A x \in ds : Linha[x] \subseteq ds

\* Among provisions with all their parents, descending is having a root in the line above.
LEMMA DescendeDe ==
    ASSUME NEW ds, Completa(ds), NEW x \in ds, NEW raizes
    PROVE  descende(ds, x, raizes) <=> Linha[x] \cap raizes # {}
BY DEF descende

\* Taking out the roots inside another takes nothing out of what they ask for.
LEMMA RaizesBastam ==
    ASSUME NEW ds, Completa(ds), NEW refs, NEW x \in ds, Linha[x] \cap refs # {}
    PROVE  Linha[x] \cap RaizesNaOrdem(ds, refs) # {}
<1> DEFINE Falha == {r \in ds : Linha[r] \cap refs # {} /\ Linha[r] \cap RaizesNaOrdem(ds, refs) = {}}
<1>1. Falha = {}
  <2> SUFFICES ASSUME Falha # {} PROVE FALSE
    OBVIOUS
  <2>0. Falha \in SUBSET Refs
    BY DEF Completa
  <2>1. PICK r \in Falha : r \in DOMAIN Pai => Pai[r] \notin Falha
    BY <2>0, Arvore
  <2>2. r \in ds /\ r \in Refs
    BY <2>0, <2>1
  <2>3. ASSUME r \in DOMAIN Pai PROVE Pai[r] \in ds /\ Linha[r] = {r} \cup Linha[Pai[r]]
    BY <2>2, <2>3, LinhaSobe DEF Completa
  <2>4. ASSUME r \in DOMAIN Pai PROVE Linha[Pai[r]] \cap refs = {}
    BY <2>1, <2>3, <2>4
  <2>5. r \in refs
    BY <2>1, <2>2, <2>3, <2>4, LinhaSobe
  <2>6. ASSUME r \in DOMAIN Pai PROVE ~ descende(ds, Pai[r], refs)
    BY <2>3, <2>4, <2>6, DescendeDe
  <2>7. r \in RaizesNaOrdem(ds, refs)
    BY <2>2, <2>5, <2>6 DEF RaizesNaOrdem
  <2> QED BY <2>1, <2>2, <2>7, LinhaSobe
<1> QED BY <1>1

\* The provisions kept of a capture are all, or what descends from the roots
\* and what is above them; either way they hang together.
LEMMA GuardarCompleta ==
    ASSUME NEW recorte, NEW ds, Completa(ds)
    PROVE  Completa(Guardar(recorte, ds)) /\ Guardar(recorte, ds) \subseteq ds
<1>1. CASE recorte = {}
  BY <1>1 DEF Guardar
<1>2. CASE recorte # {}
  <2> DEFINE Desce(r) == Linha[r] \cap recorte # {}
             Sobe(r) == \E x \in recorte \cap ds : r \in Linha[x]
  <2>1. ds \subseteq Refs /\ \A r \in ds : Linha[r] \subseteq ds
    BY DEF Completa
  <2>2. Guardar(recorte, ds) = {r \in ds : Desce(r) \/ Sobe(r)}
    <3>1. \A r \in ds : NoRecorte(ds, recorte, r) <=> Desce(r)
      BY <1>2, DescendeDe DEF NoRecorte
    <3>2. \A r \in ds : (\E x \in recorte : descende(ds, x, {r})) <=> Sobe(r)
      BY <2>1, LinhaSobe DEF descende
    <3> HIDE DEF Desce, Sobe
    <3> QED BY <1>2, <3>1, <3>2 DEF Guardar
  <2>3. ASSUME NEW r \in ds, Desce(r), NEW z \in Linha[r]
        PROVE  Desce(z) \/ Sobe(z)
    <3>1. PICK w \in Linha[r] : w \in recorte
      BY <2>3
    <3>2. w \in ds /\ (w \in Linha[z] \/ z \in Linha[w])
      BY <2>1, <2>3, <3>1, LinhaReta
    <3> QED BY <3>1, <3>2
  <2>4. ASSUME NEW r \in ds, Sobe(r), NEW z \in Linha[r]
        PROVE  Sobe(z)
    BY <2>1, <2>4, LinhaTransitiva
  <2>5. \A r \in Guardar(recorte, ds) : Linha[r] \subseteq Guardar(recorte, ds)
    <3> SUFFICES ASSUME NEW r \in ds, Desce(r) \/ Sobe(r), NEW z \in Linha[r]
                 PROVE  z \in ds /\ (Desce(z) \/ Sobe(z))
      BY <2>2
    <3> QED BY <2>1, <2>3, <2>4
  <2> QED BY <2>1, <2>2, <2>5 DEF Completa
<1> QED BY <1>1, <1>2

\* The law with all its provisions, and what it has from the start, hang together.
LEMMA RefsCompleta == Completa(Refs)
BY LinhaTransitiva DEF Completa

LEMMA InicioCompleto == Completa(Refs \ Emendas)
<1> DEFINE Falha == {r \in Refs \ Emendas : ~ Linha[r] \subseteq Refs \ Emendas}
<1>1. Falha = {}
  <2> SUFFICES ASSUME Falha # {} PROVE FALSE
    OBVIOUS
  <2>0. Falha \in SUBSET Refs
    OBVIOUS
  <2>1. PICK r \in Falha : r \in DOMAIN Pai => Pai[r] \notin Falha
    BY <2>0, Arvore
  <2>2. r \in DOMAIN Pai => Pai[r] \in Refs \ Emendas
    BY EmendasPenduradas, RefsValidas
  <2>3. Linha[r] \subseteq Refs \ Emendas
    BY <2>1, <2>2, LinhaSobe
  <2> QED BY <2>1, <2>3
<1> QED BY <1>1 DEF Completa

-----------------------------------------------------------------------------
(* What the topics ask for.                                                *)

\* The pieces LerTema leaves out, which name the law and cite nothing, add nothing.
LEMMA AssuntosBastam ==
    ASSUME NEW t, NEW ds
    PROVE  LerTema(t, ds) = RaizesNaOrdem(ds, refsDoTema(t, ds))
<1>1. UNION {RefsDoPedaco(p, ds) : p \in Assuntos(t, ds)} = refsDoTema(t, ds)
  <2>1. \A p \in t : p \in Assuntos(t, ds) \/ RefsDoPedaco(p, ds) = {}
    BY DEF Assuntos
  <2>2. Assuntos(t, ds) \subseteq t
    BY DEF Assuntos
  <2> QED BY <2>1, <2>2 DEF refsDoTema
<1> QED BY <1>1 DEF LerTema

\* What the topic cites in a part of the law is what it cites in all of it that is there.
LEMMA CitadosNaParte ==
    ASSUME NEW t, NEW ds \in SUBSET Refs
    PROVE  refsDoTema(t, ds) = refsDoTema(t, Refs) \cap ds
<1>1. \A p \in t : RefsDoPedaco(p, ds) = RefsDoPedaco(p, Refs) \cap ds
  BY DEF RefsDoPedaco
<1> QED BY <1>1 DEF refsDoTema

\* In a complete list, a provision is in the recorte when a root of it is in its line.
LEMMA NoRecorteNaLinha ==
    ASSUME NEW ds, Completa(ds), NEW x \in ds, NEW recorte
    PROVE  NoRecorte(ds, recorte, x) <=> (recorte = {} \/ Linha[x] \cap recorte # {})
BY DescendeDe DEF NoRecorte

\* What a topic asks of the law, in terms of what it cites.
LEMMA PedeCitados ==
    ASSUME NEW t, NEW x \in Pede(t, Refs), refsDoTema(t, Refs) # {}
    PROVE  x \in Refs /\ Linha[x] \cap refsDoTema(t, Refs) # {}
<1> DEFINE R == refsDoTema(t, Refs)
           L == RaizesNaOrdem(Refs, R)
<1>1. R \subseteq Refs
  BY CitadosNaParte
<1>2. PICK r \in R : r \in Refs
  BY <1>1
<1>3. Linha[r] \cap R # {}
  BY <1>2, LinhaSobe
<1>4. L # {} /\ L \subseteq R
  BY <1>2, <1>3, RefsCompleta, RaizesBastam DEF RaizesNaOrdem
<1>5. x \in Refs /\ Linha[x] \cap L # {}
  BY <1>4, AssuntosBastam DEF Pede
<1> QED BY <1>4, <1>5

\* A link that has what the topic asks for shows it: of the recortes the
\* disciplines ask of the law, the sum has what each of them has.
LEMMA CobreMostra ==
    ASSUME NEW ds, Completa(ds), NEW t, CitadaEm(t),
           NEW vinculo, cobre(ds, vinculo, RecorteDoEdital({t}, ds)),
           NEW pedidos, vinculo \in pedidos, NEW x \in Pede(t, Refs), x \in ds
    PROVE  NoRecorte(ds, IF {} \in pedidos THEN {} ELSE RaizesNaOrdem(ds, UNION pedidos), x)
<1>1. CASE {} \in pedidos
  BY <1>1 DEF NoRecorte
<1>2. CASE {} \notin pedidos
  <2> DEFINE E == refsDoTema(t, ds)
             P == RecorteDoEdital({t}, ds)
  <2>1. vinculo # {} /\ P # {} /\ \A r \in P : NoRecorte(ds, vinculo, r)
    BY <1>2 DEF cobre
  <2>2. E # {} /\ P = RaizesNaOrdem(ds, E)
    <3>1. {z \in {t} : CitadaEm(z)} = {t}
      OBVIOUS
    <3>2. UNION {refsDoTema(z, ds) : z \in {t}} = E
      OBVIOUS
    <3>3. P = IF \E z \in {t} : refsDoTema(z, ds) = {} THEN {} ELSE RaizesNaOrdem(ds, E)
      BY <3>1, <3>2 DEF RecorteDoEdital
    <3> QED BY <2>1, <3>3
  <2>3. ds \in SUBSET Refs
    BY DEF Completa
  <2>4. E = refsDoTema(t, Refs) \cap ds
    BY <2>3, CitadosNaParte
  <2>5. PICK y \in Linha[x] : y \in refsDoTema(t, Refs)
    BY <2>2, <2>4, PedeCitados
  <2>6. y \in ds /\ y \in E /\ Linha[y] \subseteq Linha[x] /\ Linha[y] \cap E # {}
    BY <2>3, <2>4, <2>5, LinhaTransitiva, LinhaSobe DEF Completa
  <2>7. PICK z \in P : z \in Linha[y] /\ z \in ds
    <3>1. Linha[y] \cap RaizesNaOrdem(ds, E) # {}
      BY <2>6, RaizesBastam
    <3>2. RaizesNaOrdem(ds, E) \subseteq ds
      BY DEF RaizesNaOrdem
    <3> QED BY <2>2, <3>1, <3>2
  <2>8. PICK w \in Linha[z] : w \in vinculo
    BY <2>1, <2>7, NoRecorteNaLinha
  <2>9. Linha[x] \cap UNION pedidos # {}
    BY <2>3, <2>6, <2>7, <2>8, LinhaTransitiva
  <2>10. Linha[x] \cap RaizesNaOrdem(ds, UNION pedidos) # {}
    BY <2>9, RaizesBastam
  <2> QED BY <1>2, <2>10, NoRecorteNaLinha
<1> QED BY <1>1, <1>2

\* A version of a recorte that has the roots the topic has today has all below
\* them that were there when it was taken.
LEMMA GuardaOQueSePede ==
    ASSUME NEW recorte, NEW t, NEW ds, Completa(ds), NEW antes, Completa(antes),
           LerTema(t, ds) # {}, \A r \in LerTema(t, ds) : NoRecorte(ds, recorte, r)
    PROVE  Pede(t, ds) \cap antes \subseteq Guardar(recorte, antes)
<1> SUFFICES ASSUME NEW x \in Pede(t, ds), x \in antes PROVE x \in Guardar(recorte, antes)
  OBVIOUS
<1>1. PICK r \in Linha[x] : x \in ds /\ r \in LerTema(t, ds)
  BY DEF Pede
<1>2. x \in Refs /\ r \in ds /\ Linha[r] \subseteq Linha[x] /\ NoRecorte(ds, recorte, r)
  BY <1>1, LinhaTransitiva DEF Completa
<1>3. NoRecorte(antes, recorte, x)
  BY <1>1, <1>2, NoRecorteNaLinha
<1> QED BY <1>3 DEF Guardar

-----------------------------------------------------------------------------
(* The invariant.                                                          *)

\* A text is what Guardar makes of a recorte over a page that hangs together.
Inteiro(texto, de) == Completa(de.pagina) /\ DOMAIN texto = Guardar(de.recorte, de.pagina)

\* So is every version kept, the active one among them, a capture, and the
\* request that publishes one.
VersoesInteiras ==
    /\ DOMAIN leis = Slugs
    /\ \A s \in Slugs : Existe(s) =>
          /\ DOMAIN leis[s] = {"id", "ativa", "versoes"}
          /\ leis[s].ativa \in DOMAIN leis[s].versoes
          /\ \A t \in DOMAIN leis[s].versoes :
                /\ {"recorte", "pagina"} \subseteq DOMAIN leis[s].versoes[t]
                /\ Inteiro(t, leis[s].versoes[t])
    /\ captura.estado = "pronta" => Inteiro(captura.texto, captura)

Publica(a) == aba[a].passo = "publicar" => Inteiro(aba[a].texto, aba[a])

IInvTexto == DOMAIN aba = Abas /\ VersoesInteiras /\ \A a \in Abas : Publica(a)

\* Ids are given once, and answers hang on questions there are.
Identidades ==
    /\ proximo \in Nat \ {0}
    /\ \A s \in Slugs : Existe(s) => leis[s].id \in 1 .. proximo - 1
    /\ \A s, z \in Slugs : Existe(s) /\ Existe(z) /\ leis[s].id = leis[z].id => s = z
    /\ DOMAIN questoes \subseteq 1 .. proximo - 1
    /\ \A q \in DOMAIN questoes : DOMAIN questoes[q] = {"lei", "chave", "unidade", "ativa"}
    /\ respostas \subseteq DOMAIN questoes

\* What an import planned to change were questions of its law; those still there are.
Planejado(a) ==
    LET p == aba[a] IN
    p.passo = "importar" =>
        /\ p.slug \in Slugs /\ IsFiniteSet(p.plano.novas)
        /\ p.plano.atualizadas \cup p.plano.desativar \subseteq 1 .. proximo - 1
        /\ \A q \in p.plano.atualizadas \cap DOMAIN questoes : questoes[q].lei = p.lei

\* The page of today hangs together.
PaginaCompleta == Completa(pagina)

IInv == IInvTexto /\ Identidades /\ \A a \in Abas : Planejado(a)

\* No law, no question, no request: the invariant holds at the start.
LEMMA IInvNoInicio == Init => IInv
<1> SUFFICES ASSUME Init PROVE IInv
  OBVIOUS
<1>1. \A a \in Abas : aba[a].passo = "livre"
  BY DEF Init, Livre
<1>2. \A s \in Slugs : ~ Existe(s)
  BY DEF Init, Existe
<1>3. DOMAIN questoes = {}
  BY DEF Init
<1>4. captura.estado = "nenhuma" /\ DOMAIN leis = Slugs /\ DOMAIN aba = Abas
  BY DEF Init
<1>5. Identidades
  BY <1>2, <1>3 DEF Init, Identidades
<1>6. IInvTexto
  BY <1>1, <1>2, <1>4 DEF IInvTexto, VersoesInteiras, Publica
<1> QED BY <1>1, <1>5, <1>6 DEF IInv, Planejado

-----------------------------------------------------------------------------
(* The steps.                                                              *)

\* What HistoriaFica says of a step.
HistoriaDoPasso ==
    \A q \in respostas :
        \/ q \in respostas' /\ q \in DOMAIN questoes'
           /\ questoes'[q].chave = questoes[q].chave /\ questoes'[q].lei = questoes[q].lei
        \/ \A s \in Slugs : leis'[s] = Nenhuma \/ leis'[s].id # questoes[q].lei

\* A tab that goes on with novo, the others where they are.
LEMMA SoUmaAba ==
    ASSUME NEW a \in Abas, DOMAIN aba = Abas, NEW novo, aba' = [aba EXCEPT ![a] = novo]
    PROVE  DOMAIN aba' = Abas /\ aba'[a] = novo /\ \A b \in Abas : b # a => aba'[b] = aba[b]
OBVIOUS

\* A tab with no request is in no step that writes.
LEMMA LivreNaoGuarda == Livre.passo = "livre"
BY DEF Livre

\* A request that only reads: what it takes along is what it read.
LEMMA SoLe ==
    ASSUME IInv, NEW a \in Abas, NEW novo, aba' = [aba EXCEPT ![a] = novo], UNCHANGED <<banco, captura>>,
           novo.passo = "publicar" => Inteiro(novo.texto, novo),
           novo.passo = "importar" =>
               /\ novo.slug \in Slugs /\ IsFiniteSet(novo.plano.novas)
               /\ novo.plano.atualizadas \cup novo.plano.desativar \subseteq DOMAIN questoes
               /\ \A q \in novo.plano.atualizadas : questoes[q].lei = novo.lei
    PROVE  IInv' /\ HistoriaDoPasso
<1>1. DOMAIN aba' = Abas /\ aba'[a] = novo /\ \A b \in Abas : b # a => aba'[b] = aba[b]
  BY SoUmaAba DEF IInv, IInvTexto
<1>2. /\ leis' = leis /\ questoes' = questoes /\ respostas' = respostas /\ captura' = captura
      /\ proximo' = proximo
  BY DEF banco
<1>3. VersoesInteiras' /\ Identidades'
  <2>1. VersoesInteiras'
    BY <1>2 DEF IInv, IInvTexto, VersoesInteiras, Existe
  <2>2. Identidades'
    BY <1>2 DEF IInv, Identidades, Existe
  <2> QED BY <2>1, <2>2
<1>4. \A b \in Abas : Publica(b)'
  <2> TAKE b \in Abas
  <2>1. CASE b = a
    BY <1>1, <2>1 DEF Publica
  <2>2. CASE b # a
    BY <1>1, <2>2 DEF IInv, IInvTexto, Publica
  <2> QED BY <2>1, <2>2
<1>5. \A b \in Abas : Planejado(b)'
  <2> TAKE b \in Abas
  <2>1. CASE b = a
    BY <1>1, <1>2, <2>1 DEF IInv, Identidades, Planejado
  <2>2. CASE b # a
    BY <1>1, <1>2, <2>2 DEF IInv, Planejado
  <2> QED BY <2>1, <2>2
<1>6. HistoriaDoPasso
  BY <1>2 DEF IInv, Identidades, HistoriaDoPasso
<1> QED BY <1>1, <1>3, <1>4, <1>5, <1>6 DEF IInv, IInvTexto

\* Reading for a publication or an import keeps the invariant and every answer.
LEMMA LeiturasFicam ==
    ASSUME IInv, NEW a \in Abas,
           \/ \E s \in Slugs, nova \in BOOLEAN : PublicarLer(a, s, nova)
           \/ \E s \in Slugs, reusa \in BOOLEAN, ks \in SUBSET Chaves : \E pacote \in [ks -> Unidades] :
                 ImportarLer(a, s, reusa, pacote)
           \/ \E q \in DOMAIN questoes : ResponderLer(a, q)
           \/ \E d \in Disciplinas, s \in Slugs, r \in Pedidos \cup {Nenhuma}, m \in BOOLEAN :
                 VincularLer(a, d, s, r, m)
    PROVE  IInv' /\ HistoriaDoPasso
<1>1. ASSUME NEW s \in Slugs, NEW nova \in BOOLEAN, PublicarLer(a, s, nova)
      PROVE  IInv' /\ HistoriaDoPasso
  <2> DEFINE novo == [passo |-> "publicar", slug |-> s, nova |-> nova, texto |-> captura.texto,
                      recorte |-> captura.recorte, pagina |-> captura.pagina,
                      unidades |-> IF nova THEN <<>> ELSE UnidadesDe(s)]
  <2>1. aba' = [aba EXCEPT ![a] = novo] /\ captura.estado = "pronta" /\ UNCHANGED <<banco, captura>>
    BY <1>1 DEF PublicarLer, ConferirPublicacao
  <2>2. novo.passo = "publicar" /\ Inteiro(novo.texto, novo)
    BY <2>1 DEF IInv, IInvTexto, VersoesInteiras, Inteiro
  <2> HIDE DEF novo
  <2> QED BY <2>1, <2>2, SoLe
<1>2. ASSUME NEW s \in Slugs, NEW reusa \in BOOLEAN, NEW ks \in SUBSET Chaves,
             NEW pacote \in [ks -> Unidades], ImportarLer(a, s, reusa, pacote)
      PROVE  IInv' /\ HistoriaDoPasso
  <2> DEFINE texto == TextoAtivo(s)
             unidades == ComHash(texto, {pacote[k] : k \in DOMAIN pacote},
                                 IF reusa THEN UnidadesDe(s) ELSE <<>>)
             plano == PlanejarImportacao(leis[s].id, pacote)
             novo == [passo |-> "importar", lei |-> leis[s].id, slug |-> s, versao |-> texto,
                      unidades |-> unidades, pacote |-> pacote, plano |-> plano]
  <2>1. aba' = [aba EXCEPT ![a] = novo] /\ UNCHANGED <<banco, captura>>
    BY <1>2 DEF ImportarLer
  <2>2. /\ plano.novas \subseteq Chaves
        /\ plano.atualizadas \cup plano.desativar \subseteq DOMAIN questoes
        /\ \A q \in plano.atualizadas : questoes[q].lei = leis[s].id
    BY DEF PlanejarImportacao, QuestoesDe
  <2>3. IsFiniteSet(plano.novas)
    BY <2>2, ChavesFinitas, FS_Subset
  <2> HIDE DEF plano, unidades, texto
  <2>4. novo.passo = "importar" /\ novo.plano = plano /\ novo.lei = leis[s].id /\ novo.slug = s
    OBVIOUS
  <2> HIDE DEF novo
  <2> QED BY <2>1, <2>2, <2>3, <2>4, SoLe
<1>3. ASSUME NEW q \in DOMAIN questoes, ResponderLer(a, q) PROVE IInv' /\ HistoriaDoPasso
  BY <1>3, SoLe DEF ResponderLer
<1>4. ASSUME NEW d \in Disciplinas, NEW s \in Slugs, NEW r \in Pedidos \cup {Nenhuma}, NEW m \in BOOLEAN,
             VincularLer(a, d, s, r, m)
      PROVE  IInv' /\ HistoriaDoPasso
  <2> DEFINE novo == [passo |-> "vincular", disciplina |-> d, slug |-> s, lei |-> leis[s].id,
                      refs |-> RefsDoVinculo(d, s, r, m)]
  <2>1. aba' = [aba EXCEPT ![a] = novo] /\ novo.passo = "vincular" /\ UNCHANGED <<banco, captura>>
    BY <1>4 DEF VincularLer
  <2> HIDE DEF novo
  <2> QED BY <2>1, SoLe
<1> QED BY <1>1, <1>2, <1>3, <1>4

\* A step that leaves the tabs other than a where they were, and a with nothing at hand.
LEMMA AbaLarga ==
    ASSUME IInv, NEW a \in Abas, aba' = [aba EXCEPT ![a] = Livre], VersoesInteiras', Identidades',
           proximo =< proximo',
           \A q \in DOMAIN questoes' : q \in DOMAIN questoes => questoes'[q].lei = questoes[q].lei,
           \A q \in DOMAIN questoes' : q \in DOMAIN questoes \/ proximo =< q
    PROVE  IInv'
<1>1. DOMAIN aba' = Abas /\ aba'[a] = Livre /\ \A b \in Abas : b # a => aba'[b] = aba[b]
  BY SoUmaAba DEF IInv, IInvTexto
<1>2. \A b \in Abas : Publica(b)' /\ Planejado(b)'
  <2> TAKE b \in Abas
  <2>1. CASE b = a
    BY <1>1, <2>1, LivreNaoGuarda DEF Publica, Planejado
  <2>2. CASE b # a
    <3>1. Publica(b)'
      BY <1>1, <2>2 DEF IInv, IInvTexto, Publica
    <3>2. Planejado(b)'
      <4> DEFINE p == aba[b]
      <4>0. aba'[b] = p
        BY <1>1, <2>2
      <4> SUFFICES ASSUME p.passo = "importar"
                   PROVE  /\ p.slug \in Slugs /\ IsFiniteSet(p.plano.novas)
                          /\ p.plano.atualizadas \cup p.plano.desativar \subseteq 1 .. proximo' - 1
                          /\ \A q \in p.plano.atualizadas \cap DOMAIN questoes' : questoes'[q].lei = p.lei
        BY <4>0 DEF Planejado
      <4>1. /\ p.slug \in Slugs /\ IsFiniteSet(p.plano.novas)
            /\ p.plano.atualizadas \cup p.plano.desativar \subseteq 1 .. proximo - 1
            /\ \A q \in p.plano.atualizadas \cap DOMAIN questoes : questoes[q].lei = p.lei
        BY DEF IInv, Planejado
      <4> HIDE DEF p
      <4>2. proximo \in Nat /\ proximo' \in Nat
        BY DEF IInv, Identidades
      <4>3. \A q \in p.plano.atualizadas \cap DOMAIN questoes' : q \in DOMAIN questoes
        BY <4>1, <4>2
      <4> QED BY <4>1, <4>2, <4>3
    <3> QED BY <3>1, <3>2
  <2> QED BY <2>1, <2>2
<1> QED BY <1>1, <1>2 DEF IInv, IInvTexto

\* A text published is kept as it came; when it was there already, with its
\* recorte, which kept the same provisions.
LEMMA GravarTextoFica ==
    ASSUME IInv, NEW a \in Abas, GravarTexto(a)
    PROVE  IInv' /\ HistoriaDoPasso
<1> DEFINE p == aba[a]
           antes == IF Existe(p.slug) THEN leis[p.slug] ELSE [id |-> proximo, versoes |-> <<>>]
           versoes == ComVersao(antes.versoes, p)
           nova == [id |-> antes.id, ativa |-> p.texto, versoes |-> versoes]
<1>1. /\ p.passo = "publicar"
      /\ leis' = [leis EXCEPT ![p.slug] = nova]
      /\ proximo' = IF Existe(p.slug) THEN proximo ELSE proximo + 1
      /\ aba' = [aba EXCEPT ![a] = Livre]
      /\ questoes' = questoes /\ respostas' = respostas /\ captura' = captura
  BY DEF GravarTexto
<1>2. Inteiro(p.texto, p)
  BY <1>1 DEF IInv, IInvTexto, Publica
<1>3. proximo \in Nat /\ proximo' \in Nat /\ proximo =< proximo'
  BY <1>1 DEF IInv, Identidades
<1>4. p.slug \in Slugs =>
         \A t \in DOMAIN antes.versoes : /\ {"recorte", "pagina"} \subseteq DOMAIN antes.versoes[t]
                                         /\ Inteiro(t, antes.versoes[t])
  <2>1. CASE Existe(p.slug)
    BY <2>1 DEF IInv, IInvTexto, VersoesInteiras
  <2>2. CASE ~ Existe(p.slug)
    <3>1. DOMAIN antes.versoes = {}
      BY <2>2
    <3> QED BY <3>1
  <2> QED BY <2>1, <2>2
<1>5. p.slug \in Slugs =>
         /\ p.texto \in DOMAIN versoes
         /\ \A t \in DOMAIN versoes : /\ {"recorte", "pagina"} \subseteq DOMAIN versoes[t]
                                      /\ Inteiro(t, versoes[t])
  <2> DEFINE de(t) == IF t \in DOMAIN antes.versoes THEN antes.versoes[t] ELSE p
             guardada == [recorte |-> de(p.texto).recorte, pagina |-> de(p.texto).pagina,
                          unidades |-> p.unidades]
  <2>1. /\ DOMAIN versoes = DOMAIN antes.versoes \cup {p.texto}
        /\ \A t \in DOMAIN versoes : versoes[t] = IF t # p.texto THEN antes.versoes[t] ELSE guardada
    BY DEF ComVersao
  <2>2. /\ {"recorte", "pagina"} \subseteq DOMAIN guardada
        /\ guardada.recorte = de(p.texto).recorte /\ guardada.pagina = de(p.texto).pagina
    OBVIOUS
  <2>3. p.slug \in Slugs => Inteiro(p.texto, de(p.texto))
    BY <1>2, <1>4
  <2> HIDE DEF p, antes, versoes, de, guardada
  <2> QED BY <1>4, <2>1, <2>2, <2>3 DEF Inteiro
<1>6. p.slug \in Slugs => /\ antes.id \in 1 .. proximo' - 1
                          /\ \A s \in Slugs \ {p.slug} : Existe(s) => leis[s].id # antes.id
  <2>1. CASE Existe(p.slug)
    <3>1. antes.id = leis[p.slug].id /\ proximo' = proximo
      BY <1>1, <2>1
    <3> QED BY <2>1, <3>1 DEF IInv, Identidades
  <2>2. CASE ~ Existe(p.slug)
    <3>1. antes.id = proximo /\ proximo' = proximo + 1
      BY <1>1, <2>2
    <3>2. proximo \in Nat \ {0} /\ \A s \in Slugs : Existe(s) => leis[s].id \in 1 .. proximo - 1
      BY DEF IInv, Identidades
    <3> QED BY <3>1, <3>2
  <2> QED BY <2>1, <2>2
<1>7. /\ nova.id = antes.id /\ nova.ativa = p.texto /\ nova.versoes = versoes
      /\ DOMAIN nova = {"id", "ativa", "versoes"}
  OBVIOUS
<1> HIDE DEF p, antes, versoes, nova
<1>8. /\ DOMAIN leis' = Slugs /\ DOMAIN leis = Slugs
      /\ \A s \in Slugs : leis'[s] = IF s = p.slug THEN nova ELSE leis[s]
  BY <1>1 DEF IInv, IInvTexto, VersoesInteiras
<1>9. VersoesInteiras'
  BY <1>1, <1>5, <1>7, <1>8 DEF IInv, IInvTexto, VersoesInteiras, Existe
<1>10. Identidades'
  BY <1>1, <1>3, <1>6, <1>7, <1>8 DEF IInv, Identidades, Existe
<1>11. HistoriaDoPasso
  BY <1>1 DEF HistoriaDoPasso, IInv, Identidades
<1>12. \A q \in DOMAIN questoes' : q \in DOMAIN questoes /\ questoes'[q].lei = questoes[q].lei
  BY <1>1
<1> QED BY <1>1, <1>3, <1>9, <1>10, <1>11, <1>12, AbaLarga

\* The questions after a package: those there were with their key and their law,
\* and the new one, if there is one, with the next id.
LEMMA PlanoAplicado ==
    ASSUME IInv, NEW a \in Abas, aba[a].passo = "importar",
           CabeNoLimite(aba[a]), aplicarQuestoes(aba[a])
    PROVE  /\ proximo' \in Nat \ {0} /\ proximo =< proximo'
           /\ DOMAIN questoes' \subseteq 1 .. proximo' - 1
           /\ DOMAIN questoes \subseteq DOMAIN questoes'
           /\ \A q \in DOMAIN questoes' : /\ DOMAIN questoes'[q] = {"lei", "chave", "unidade", "ativa"}
                                          /\ q \in DOMAIN questoes \/ proximo =< q
           /\ \A q \in DOMAIN questoes : /\ questoes'[q].lei = questoes[q].lei
                                         /\ questoes'[q].chave = questoes[q].chave
<1> DEFINE p == aba[a]
           n == Cardinality(p.plano.novas)
           nova == NovaQuestao(p, CHOOSE k \in p.plano.novas : TRUE)
           depois(q) == IF q \in p.plano.atualizadas THEN NovaQuestao(p, questoes[q].chave)
                        ELSE IF q \in p.plano.desativar THEN [questoes[q] EXCEPT !.ativa = FALSE]
                        ELSE questoes[q]
<1>1. n \in Nat /\ n =< 1 /\ (n = 0 <=> p.plano.novas = {})
  <2>1. IsFiniteSet(p.plano.novas) /\ n =< 1
    BY DEF IInv, Planejado, CabeNoLimite
  <2> QED BY <2>1, FS_CardinalityType, FS_EmptySet
<1>2. proximo \in Nat \ {0} /\ DOMAIN questoes \subseteq 1 .. proximo - 1 /\ proximo' = proximo + n
  BY DEF IInv, Identidades, aplicarQuestoes
<1>3. proximo \notin DOMAIN questoes
  BY <1>2
<1>4. questoes' = [q \in DOMAIN questoes \cup (IF p.plano.novas = {} THEN {} ELSE {proximo}) |->
                      IF q = proximo THEN nova ELSE depois(q)]
  BY DEF aplicarQuestoes, ComPlano
<1>5. DOMAIN nova = {"lei", "chave", "unidade", "ativa"}
  BY DEF NovaQuestao
<1>6. ASSUME NEW q \in DOMAIN questoes
      PROVE  /\ DOMAIN depois(q) = {"lei", "chave", "unidade", "ativa"}
             /\ depois(q).lei = questoes[q].lei /\ depois(q).chave = questoes[q].chave
  <2>1. DOMAIN questoes[q] = {"lei", "chave", "unidade", "ativa"}
    BY DEF IInv, Identidades
  <2>2. q \in p.plano.atualizadas => questoes[q].lei = p.lei
    BY DEF IInv, Planejado
  <2>3. CASE q \in p.plano.atualizadas
    BY <2>2, <2>3 DEF NovaQuestao
  <2>4. CASE q \notin p.plano.atualizadas
    BY <2>1, <2>4
  <2> QED BY <2>3, <2>4
<1> HIDE DEF p, n, nova, depois
<1>7. DOMAIN questoes' = DOMAIN questoes \cup (IF p.plano.novas = {} THEN {} ELSE {proximo})
  BY <1>4
<1>8. \A q \in DOMAIN questoes : questoes'[q] = depois(q)
  BY <1>3, <1>4
<1>9. \A q \in DOMAIN questoes' : q \notin DOMAIN questoes => q = proximo /\ n = 1 /\ questoes'[q] = nova
  BY <1>1, <1>4, <1>7
<1> QED BY <1>1, <1>2, <1>5, <1>6, <1>7, <1>8, <1>9

\* The units of a version change, and nothing else of it or of the law.
LEMMA UnidadesTrocadas ==
    ASSUME IInv, NEW slug \in Slugs, Existe(slug), NEW versao, NEW unidades,
           leis' = [leis EXCEPT ![slug].versoes[versao].unidades = unidades]
    PROVE  /\ DOMAIN leis' = Slugs
           /\ \A s \in Slugs \ {slug} : leis'[s] = leis[s]
           /\ DOMAIN leis'[slug] = {"id", "ativa", "versoes"}
           /\ leis'[slug].id = leis[slug].id
           /\ leis'[slug].ativa \in DOMAIN leis'[slug].versoes
           /\ \A t \in DOMAIN leis'[slug].versoes :
                 /\ {"recorte", "pagina"} \subseteq DOMAIN leis'[slug].versoes[t]
                 /\ Inteiro(t, leis'[slug].versoes[t])
<1>1. /\ DOMAIN leis = Slugs /\ DOMAIN leis[slug] = {"id", "ativa", "versoes"}
      /\ leis[slug].ativa \in DOMAIN leis[slug].versoes
      /\ \A t \in DOMAIN leis[slug].versoes :
            /\ {"recorte", "pagina"} \subseteq DOMAIN leis[slug].versoes[t]
            /\ Inteiro(t, leis[slug].versoes[t])
  BY DEF IInv, IInvTexto, VersoesInteiras
<1> DEFINE V == leis[slug].versoes
           W == [V EXCEPT ![versao].unidades = unidades]
<1>2. /\ DOMAIN W = DOMAIN V
      /\ \A t \in DOMAIN V : /\ {"recorte", "pagina"} \subseteq DOMAIN V[t] => {"recorte", "pagina"} \subseteq DOMAIN W[t]
                             /\ {"recorte", "pagina"} \subseteq DOMAIN V[t] =>
                                   W[t].recorte = V[t].recorte /\ W[t].pagina = V[t].pagina
  OBVIOUS
<1>3. leis' = [leis EXCEPT ![slug] = [leis[slug] EXCEPT !.versoes = W]]
  OBVIOUS
<1> HIDE DEF W
<1>4. /\ DOMAIN leis' = Slugs /\ \A s \in Slugs \ {slug} : leis'[s] = leis[s]
      /\ leis'[slug] = [leis[slug] EXCEPT !.versoes = W]
  BY <1>1, <1>3
<1>5. /\ DOMAIN leis'[slug] = {"id", "ativa", "versoes"} /\ leis'[slug].id = leis[slug].id
      /\ leis'[slug].ativa = leis[slug].ativa /\ leis'[slug].versoes = W
  BY <1>1, <1>4
<1>6. \A t \in DOMAIN V : {"recorte", "pagina"} \subseteq DOMAIN W[t] /\ Inteiro(t, W[t])
  BY <1>1, <1>2 DEF Inteiro
<1> QED BY <1>1, <1>2, <1>4, <1>5, <1>6

\* Writing an import keeps the answers: what it takes out of use stays in the table.
LEMMA GravarQuestoesFica ==
    ASSUME IInv, NEW a \in Abas, GravarQuestoes(a)
    PROVE  IInv' /\ HistoriaDoPasso
<1> DEFINE p == aba[a]
           cabe == /\ Existe(p.slug) /\ leis[p.slug].id = p.lei
                   /\ \A q \in QuestoesDe(p.lei) : questoes[q].chave \notin p.plano.novas
<1>0. p.slug \in Slugs
  BY DEF GravarQuestoes, IInv, Planejado
<1>1. p.passo = "importar" /\ aba' = [aba EXCEPT ![a] = Livre] /\ captura' = captura
  BY DEF GravarQuestoes
<1>2. CASE cabe
  <2>1. /\ CabeNoLimite(p) /\ aplicarQuestoes(p)
        /\ leis' = [leis EXCEPT ![p.slug].versoes[p.versao].unidades = p.unidades]
    BY <1>2 DEF GravarQuestoes
  <2>2. /\ proximo' \in Nat \ {0} /\ proximo =< proximo'
        /\ DOMAIN questoes' \subseteq 1 .. proximo' - 1
        /\ DOMAIN questoes \subseteq DOMAIN questoes'
        /\ \A q \in DOMAIN questoes' : /\ DOMAIN questoes'[q] = {"lei", "chave", "unidade", "ativa"}
                                       /\ q \in DOMAIN questoes \/ proximo =< q
        /\ \A q \in DOMAIN questoes : /\ questoes'[q].lei = questoes[q].lei
                                      /\ questoes'[q].chave = questoes[q].chave
    BY <1>1, <2>1, PlanoAplicado
  <2>3. respostas' = respostas
    BY <2>1 DEF aplicarQuestoes
  <2> HIDE DEF p
  <2>4. /\ DOMAIN leis' = Slugs
        /\ \A s \in Slugs \ {p.slug} : leis'[s] = leis[s]
        /\ DOMAIN leis'[p.slug] = {"id", "ativa", "versoes"}
        /\ leis'[p.slug].id = leis[p.slug].id
        /\ leis'[p.slug].ativa \in DOMAIN leis'[p.slug].versoes
        /\ \A t \in DOMAIN leis'[p.slug].versoes :
              /\ {"recorte", "pagina"} \subseteq DOMAIN leis'[p.slug].versoes[t]
              /\ Inteiro(t, leis'[p.slug].versoes[t])
    BY <1>0, <1>2, <2>1, UnidadesTrocadas
  <2>5. VersoesInteiras'
    BY <1>1, <1>2, <2>4 DEF IInv, IInvTexto, VersoesInteiras, Existe
  <2>6. \A s \in Slugs : Existe(s)' => Existe(s) /\ leis'[s].id = leis[s].id
    BY <1>2, <2>4 DEF Existe
  <2>7. Identidades'
    BY <2>2, <2>3, <2>6 DEF IInv, Identidades
  <2>8. HistoriaDoPasso
    BY <2>2, <2>3 DEF IInv, Identidades, HistoriaDoPasso
  <2> QED BY <1>1, <2>2, <2>5, <2>7, <2>8, AbaLarga
<1>3. CASE ~ cabe
  <2>1. leis' = leis /\ questoes' = questoes /\ respostas' = respostas /\ proximo' = proximo
    BY <1>3 DEF GravarQuestoes
  <2>2. VersoesInteiras'
    BY <1>1, <2>1 DEF IInv, IInvTexto, VersoesInteiras, Existe
  <2>3. Identidades'
    BY <2>1 DEF IInv, Identidades, Existe
  <2>4. proximo =< proximo'
    BY <2>1 DEF IInv, Identidades
  <2>5. HistoriaDoPasso
    BY <2>1 DEF IInv, Identidades, HistoriaDoPasso
  <2> QED BY <1>1, <2>1, <2>2, <2>3, <2>4, <2>5, AbaLarga
<1> QED BY <1>2, <1>3

\* Answering adds one answer and takes none.
LEMMA RespostaFica ==
    ASSUME IInv, NEW a \in Abas, Responder(a)
    PROVE  IInv' /\ HistoriaDoPasso
<1>1. /\ aba' = [aba EXCEPT ![a] = Livre] /\ captura' = captura /\ proximo' = proximo
      /\ leis' = leis /\ questoes' = questoes
      /\ respostas \subseteq respostas' /\ respostas' \subseteq respostas \cup DOMAIN questoes
  BY DEF Responder
<1>2. VersoesInteiras'
  BY <1>1 DEF IInv, IInvTexto, VersoesInteiras, Existe
<1>3. Identidades'
  BY <1>1 DEF IInv, Identidades, Existe
<1>4. proximo =< proximo'
  BY <1>1 DEF IInv, Identidades
<1>5. HistoriaDoPasso
  BY <1>1 DEF IInv, Identidades, HistoriaDoPasso
<1> QED BY <1>1, <1>2, <1>3, <1>4, <1>5, AbaLarga

\* A link touches neither laws nor answers.
LEMMA VincularFica ==
    ASSUME IInv, NEW a \in Abas, Vincular(a)
    PROVE  IInv' /\ HistoriaDoPasso
<1>1. /\ aba' = [aba EXCEPT ![a] = Livre] /\ captura' = captura /\ proximo' = proximo
      /\ leis' = leis /\ questoes' = questoes /\ respostas' = respostas
  BY DEF Vincular
<1>2. VersoesInteiras'
  BY <1>1 DEF IInv, IInvTexto, VersoesInteiras, Existe
<1>3. Identidades'
  BY <1>1 DEF IInv, Identidades, Existe
<1>4. proximo =< proximo'
  BY <1>1 DEF IInv, Identidades
<1>5. HistoriaDoPasso
  BY <1>1 DEF IInv, Identidades, HistoriaDoPasso
<1> QED BY <1>1, <1>2, <1>3, <1>4, <1>5, AbaLarga

\* Steps that touch neither the laws nor the questions, and leave the tabs
\* where they are.
LEMMA SoCaptura ==
    ASSUME IInv, UNCHANGED <<leis, questoes, respostas, aba, proximo>>,
           captura'.estado = "pronta" => Inteiro(captura'.texto, captura')
    PROVE  IInv' /\ HistoriaDoPasso
<1>1. VersoesInteiras'
  BY DEF IInv, IInvTexto, VersoesInteiras, Existe
<1>2. Identidades'
  BY DEF IInv, Identidades, Existe
<1>3. \A b \in Abas : Publica(b)' /\ Planejado(b)'
  BY DEF IInv, IInvTexto, Publica, Planejado
<1>4. HistoriaDoPasso
  BY DEF IInv, Identidades, HistoriaDoPasso
<1> QED BY <1>1, <1>2, <1>3, <1>4 DEF IInv, IInvTexto

\* A capture starts with nothing to publish, and ends with what Guardar says.
LEMMA CapturaFica ==
    ASSUME IInv, PaginaCompleta,
           \/ CapturaTermina
           \/ \E a \in Abas, s \in Slugs \cup {Nenhuma}, r \in Pedidos, i \in BOOLEAN : Capturar(a, s, r, i)
           \/ \E a \in Abas, d \in Disciplinas, s \in Slugs : Desvincular(a, d, s)
    PROVE  IInv' /\ HistoriaDoPasso
<1>1. ASSUME CapturaTermina PROVE IInv' /\ HistoriaDoPasso
  <2> DEFINE r == captura.recorte
             pronta(x) == [estado |-> "pronta", recorte |-> r, pagina |-> pagina,
                           texto |-> [y \in Guardar(r, pagina) |-> x]]
  <2>1. UNCHANGED <<leis, questoes, respostas, aba, proximo>>
    BY <1>1 DEF CapturaTermina, banco
  <2>2. captura' = [estado |-> "nenhuma"] \/ \E x \in Redacoes : captura' = pronta(x)
    BY <1>1 DEF CapturaTermina
  <2>3. captura'.estado = "pronta" => Inteiro(captura'.texto, captura')
    <3>1. \A x : Inteiro(pronta(x).texto, pronta(x))
      BY DEF Inteiro, PaginaCompleta
    <3> HIDE DEF pronta, r
    <3> QED BY <2>2, <3>1
  <2> QED BY <2>1, <2>3, SoCaptura
<1>2. ASSUME NEW a \in Abas, NEW s, NEW r, NEW i, Capturar(a, s, r, i) PROVE IInv' /\ HistoriaDoPasso
  <2>1. UNCHANGED <<leis, questoes, respostas, aba, proximo>> /\ captura'.estado = "rodando"
    BY <1>2 DEF Capturar, banco
  <2> QED BY <2>1, SoCaptura
<1>3. ASSUME NEW a \in Abas, NEW d, NEW s, Desvincular(a, d, s) PROVE IInv' /\ HistoriaDoPasso
  <2>1. UNCHANGED <<leis, questoes, respostas, aba, proximo>> /\ captura' = captura
    BY <1>3 DEF Desvincular
  <2> QED BY <2>1, SoCaptura DEF IInv, IInvTexto, VersoesInteiras
<1> QED BY <1>1, <1>2, <1>3

\* Only the deletion of a law takes answers, and only its own.
LEMMA ExcluirFica ==
    ASSUME IInv, NEW a \in Abas, NEW s \in Slugs, Excluir(a, s)
    PROVE  IInv' /\ HistoriaDoPasso
<1>1. /\ Existe(s) /\ aba' = aba /\ captura' = captura /\ proximo' = proximo
      /\ leis' = [leis EXCEPT ![s] = Nenhuma]
      /\ respostas' = respostas \ QuestoesDe(leis[s].id)
      /\ questoes' = [q \in DOMAIN questoes \ QuestoesDe(leis[s].id) |-> questoes[q]]
  BY DEF Excluir, Sem
<1>2. /\ DOMAIN leis' = Slugs /\ \A z \in Slugs : leis'[z] = IF z = s THEN Nenhuma ELSE leis[z]
  BY <1>1 DEF IInv, IInvTexto, VersoesInteiras
<1>3. /\ DOMAIN questoes' = DOMAIN questoes \ QuestoesDe(leis[s].id)
      /\ \A q \in DOMAIN questoes' : questoes'[q] = questoes[q]
  BY <1>1
<1>4. \A z \in Slugs : Existe(z)' => Existe(z) /\ leis'[z] = leis[z]
  BY <1>2 DEF Existe
<1>5. VersoesInteiras'
  <2>1. \A z \in Slugs : Existe(z) =>
          /\ DOMAIN leis[z] = {"id", "ativa", "versoes"}
          /\ leis[z].ativa \in DOMAIN leis[z].versoes
          /\ \A t \in DOMAIN leis[z].versoes :
                /\ {"recorte", "pagina"} \subseteq DOMAIN leis[z].versoes[t]
                /\ Inteiro(t, leis[z].versoes[t])
    BY DEF IInv, IInvTexto, VersoesInteiras
  <2>2. captura.estado = "pronta" => Inteiro(captura.texto, captura)
    BY DEF IInv, IInvTexto, VersoesInteiras
  <2> QED BY <1>1, <1>2, <1>4, <2>1, <2>2 DEF VersoesInteiras
<1>6. Identidades'
  BY <1>1, <1>3, <1>4 DEF IInv, Identidades
<1>7. \A b \in Abas : Publica(b)' /\ Planejado(b)'
  BY <1>1, <1>3 DEF IInv, IInvTexto, Publica, Planejado
<1>8. HistoriaDoPasso
  <2> SUFFICES ASSUME NEW q \in respostas, q \in QuestoesDe(leis[s].id), NEW z \in Slugs
               PROVE  leis'[z] = Nenhuma \/ leis'[z].id # questoes[q].lei
    BY <1>1, <1>3 DEF IInv, Identidades, HistoriaDoPasso
  <2>1. questoes[q].lei = leis[s].id
    BY DEF QuestoesDe
  <2>2. z # s /\ Existe(z) => leis[z].id # leis[s].id
    BY <1>1 DEF IInv, Identidades
  <2> QED BY <1>2, <2>1, <2>2 DEF Existe
<1>9. DOMAIN aba' = Abas
  BY <1>1 DEF IInv, IInvTexto
<1> QED BY <1>5, <1>6, <1>7, <1>8, <1>9 DEF IInv, IInvTexto

\* Every step keeps the invariant and the history.
LEMMA PassoFica == ASSUME IInv, PaginaCompleta, [Next]_vars PROVE IInv' /\ HistoriaDoPasso
<1>1. CASE UNCHANGED vars
  BY <1>1, SoCaptura DEF vars, IInv, IInvTexto, VersoesInteiras
<1>2. ASSUME NEW a \in Abas, RotasDoTexto(a) PROVE IInv' /\ HistoriaDoPasso
  BY <1>2, CapturaFica, LeiturasFicam, GravarTextoFica, ExcluirFica DEF RotasDoTexto
<1>3. ASSUME NEW a \in Abas, RotasDasQuestoes(a) PROVE IInv' /\ HistoriaDoPasso
  BY <1>3, LeiturasFicam, GravarQuestoesFica, RespostaFica DEF RotasDasQuestoes
<1>4. ASSUME NEW a \in Abas, RotasDoConcurso(a) PROVE IInv' /\ HistoriaDoPasso
  BY <1>4, LeiturasFicam, VincularFica, CapturaFica DEF RotasDoConcurso
<1>5. ASSUME NEW x, Emendar(x) PROVE IInv' /\ HistoriaDoPasso
  BY <1>5, SoCaptura DEF Emendar, banco, IInv, IInvTexto, VersoesInteiras
<1> QED BY <1>1, <1>2, <1>3, <1>4, <1>5, CapturaFica DEF Next

\* Only an amendment changes the page, and it comes under a provision on it.
LEMMA PaginaFica == ASSUME PaginaCompleta, [Next]_vars PROVE PaginaCompleta'
<1>1. pagina' = pagina \/ \E x \in Emendas : Emendar(x)
  <2>1. CASE UNCHANGED vars
    BY <2>1 DEF vars
  <2>2. CASE CapturaTermina
    BY <2>2 DEF CapturaTermina
  <2>3. ASSUME NEW a \in Abas, RotasDoTexto(a) PROVE pagina' = pagina
    BY <2>3 DEF RotasDoTexto, Capturar, PublicarLer, GravarTexto, Excluir
  <2>4. ASSUME NEW a \in Abas, RotasDasQuestoes(a) PROVE pagina' = pagina
    BY <2>4 DEF RotasDasQuestoes, ImportarLer, GravarQuestoes, ResponderLer, Responder
  <2>5. ASSUME NEW a \in Abas, RotasDoConcurso(a) PROVE pagina' = pagina
    BY <2>5 DEF RotasDoConcurso, VincularLer, Vincular, Desvincular
  <2> QED BY <2>1, <2>2, <2>3, <2>4, <2>5 DEF Next
<1>2. ASSUME NEW x \in Emendas, Emendar(x) PROVE PaginaCompleta'
  <2>1. x \in Refs /\ pagina' = pagina \cup {x} /\ (x \in DOMAIN Pai => Pai[x] \in pagina)
    BY <1>2, EmendasPenduradas DEF Emendar
  <2>2. Linha[x] \subseteq pagina'
    BY <2>1, LinhaSobe DEF PaginaCompleta, Completa
  <2> QED BY <2>1, <2>2 DEF PaginaCompleta, Completa
<1> QED BY <1>1, <1>2 DEF PaginaCompleta

\* The invariant holds in every state.
LEMMA IInvSempre == Spec => [](IInv /\ PaginaCompleta)
<1>1. Init => IInv /\ PaginaCompleta
  BY IInvNoInicio, InicioCompleto DEF Init, PaginaCompleta
<1>2. IInv /\ PaginaCompleta /\ [Next]_vars => IInv' /\ PaginaCompleta'
  BY PassoFica, PaginaFica
<1> QED BY <1>1, <1>2, PTL DEF Spec

-----------------------------------------------------------------------------
(* The properties.                                                         *)

\* When the search says that linking is enough, the version kept lacks nothing of
\* what the topic asks for but what the law gained since, for any law, topics,
\* captures and amendments.
THEOREM VincularSempreBasta == Spec => []VincularBasta
<1>1. ASSUME IInv, PaginaCompleta PROVE VincularBasta
  <2> SUFFICES ASSUME NEW s \in Slugs, NEW d \in Disciplinas, NEW t \in Temas[d], Acao(s, t) = "vincular"
               PROVE  Pede(t, pagina) \cap Pagina(s) \subseteq Estrutura(s)
    BY DEF VincularBasta
  <2>1. Existe(s) /\ \/ Guardado(s) = {}
                     \/ /\ LerTema(t, pagina) # {}
                        /\ \A r \in LerTema(t, pagina) : NoRecorte(pagina, Guardado(s), r)
    BY DEF Acao
  <2>2. Completa(Pagina(s)) /\ Estrutura(s) = Guardar(Guardado(s), Pagina(s))
    BY <1>1, <2>1 DEF IInv, IInvTexto, VersoesInteiras, Inteiro, Estrutura, TextoAtivo, Guardado, Pagina
  <2>3. CASE Guardado(s) = {}
    BY <2>2, <2>3 DEF Guardar
  <2>4. CASE Guardado(s) # {}
    BY <1>1, <2>1, <2>2, <2>4, GuardaOQueSePede DEF PaginaCompleta
  <2> QED BY <2>3, <2>4
<1> QED BY <1>1, IInvSempre, PTL

\* A topic shown as covered is covered for who reads the law from the contest,
\* for any law, topics and links.
THEOREM CobreSempreDeVerdade == Spec => []CobreDeVerdade
<1>1. ASSUME IInv PROVE CobreDeVerdade
  <2> SUFFICES ASSUME NEW s \in Slugs, NEW d \in Disciplinas, NEW t \in Cobertos(d, s),
                      NEW x \in Pede(t, Refs), x \in Estrutura(s)
               PROVE  x \in Ler(s)
    BY DEF CobreDeVerdade
  <2> DEFINE E == Estrutura(s)
             pedidos == {VinculoDe(z, s) : z \in {y \in Disciplinas : Vinculada(y, s)}}
  <2>1. /\ Vinculada(d, s) /\ CitadaEm(t)
        /\ cobre(E, VinculoDe(d, s), RecorteDoEdital({t}, E))
    BY DEF Cobertos
  <2>2. VinculoDe(d, s) \in pedidos
    BY <2>1
  <2>3. Completa(E)
    BY <1>1, <2>1, GuardarCompleta DEF IInv, IInvTexto, VersoesInteiras, Inteiro, Estrutura, TextoAtivo, Vinculada
  <2>4. RecorteNoConcurso(s) = IF {} \in pedidos THEN {} ELSE RaizesNaOrdem(E, UNION pedidos)
    BY DEF RecorteNoConcurso
  <2> HIDE DEF E, pedidos
  <2>5. NoRecorte(E, IF {} \in pedidos THEN {} ELSE RaizesNaOrdem(E, UNION pedidos), x)
    BY <2>1, <2>2, <2>3, CobreMostra DEF E
  <2> QED BY <2>4, <2>5 DEF Ler, E
<1> QED BY <1>1, IInvSempre, PTL

\* Importing and publishing again never take an answer away nor leave it
\* without its question; only the deletion of its law does.
THEOREM HistoriaSempreFica == Spec => HistoriaFica
<1>1. IInv /\ PaginaCompleta /\ [Next]_vars => [HistoriaDoPasso]_vars
  BY PassoFica
<1> QED BY <1>1, IInvSempre, PTL DEF Spec, HistoriaFica, HistoriaDoPasso
=============================================================================
