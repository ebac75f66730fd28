------------------------------ MODULE Recortes ------------------------------
(***************************************************************************)
(* The part of a law a discipline asks for (domain/lei/recorte.go): a set  *)
(* of roots of its tree of provisions, all of it when empty.  A topic of   *)
(* the edital is a set of pieces: does the piece name the law, which       *)
(* articles does it cite, which words does it say.                         *)
(***************************************************************************)
EXTENDS FiniteSets, Naturals

CONSTANTS
    Refs,           \* the provisions of the law
    Pai,            \* their parents; a root has none
    Titulo,         \* the words of the title of each; none for an article
    Genericas       \* the words every law has in its titles

ASSUME RefsValidas == DOMAIN Pai \subseteq Refs /\ \A r \in DOMAIN Pai : Pai[r] \in Refs

\* A provision comes after its parent (Estrutura.Validar), so no chain of parents goes round.
ASSUME Arvore == \A S \in SUBSET Refs : S # {} => \E r \in S : r \in DOMAIN Pai => Pai[r] \notin S

\* A provision and all those above it.
Linha[r \in Refs] == {r} \cup (IF r \in DOMAIN Pai THEN Linha[Pai[r]] ELSE {})

descende(ds, r, raizes) == (IF r \in ds THEN Linha[r] ELSE {r}) \cap raizes # {}

\* Slip: looks at the provision and not at what it descends from.
NoRecorte_SoARaiz(ds, recorte, r) == recorte = {} \/ \E x \in recorte : descende(ds, x, {r})

NoRecorte(ds, recorte, r) == recorte = {} \/ descende(ds, r, recorte)

\* Without those inside another of them.
RaizesNaOrdem(ds, refs) ==
    {r \in ds \cap refs : ~ (r \in DOMAIN Pai /\ descende(ds, Pai[r], refs))}

\* The title says a subject, and all of its words are in the piece.
tituloContido(r, p) == Titulo[r] \subseteq p.palavras /\ ~ Titulo[r] \subseteq Genericas

CitadaEm(t) == \E p \in t : p.cita

RefsDoPedaco(p, ds) ==
    (p.artigos \cap ds) \cup (IF p.cita THEN {} ELSE {r \in ds : tituloContido(r, p)})

refsDoTema(t, ds) == UNION {RefsDoPedaco(p, ds) : p \in t}

\* What the topics ask of the law; {} when none names it, or one names it and
\* delimits nothing.
RecorteDoEdital(temas, ds) ==
    LET citados == {t \in temas : CitadaEm(t)} IN
    IF \E t \in citados : refsDoTema(t, ds) = {} THEN {}
    ELSE RaizesNaOrdem(ds, UNION {refsDoTema(t, ds) : t \in citados})

\* The same of one topic, over the structure the search read: the pieces that
\* name the law and cite no article say nothing.
Assuntos(t, ds) == {p \in t : ~ p.cita \/ RefsDoPedaco(p, ds) # {}}

LerTema(t, ds) == RaizesNaOrdem(ds, UNION {RefsDoPedaco(p, ds) : p \in Assuntos(t, ds)})

\* Slip: nothing asked for is covered by anything.
cobre_Vazio(ds, vinculo, pedido) == \A r \in pedido : NoRecorte(ds, vinculo, r)

\* Does a link have what a topic asks for?  All of the law only by all of it.
cobre(ds, vinculo, pedido) ==
    vinculo = {} \/ (pedido # {} /\ \A r \in pedido : NoRecorte(ds, vinculo, r))
=============================================================================
