SPECIFICATION Spec
CONSTANTS
    cap = cap
    art1 = art1
    art2 = art2
    d1 = d1
    Nenhuma = Nenhuma
    Refs = {cap, art1, art2}
    Pai <- MCPai
    Titulo <- MCTitulo
    Genericas = {"disposicoes", "gerais"}
    Abas = {a1, a2}
    Slugs = {s1}
    Disciplinas = {d1}
    Chaves = {k1}
    Temas <- MCTemas
    Pedidos <- MCPedidos
    Redacoes = {0}
    Emendas = {art1}
    Unidades = {cap}
    MaxIds = 3
    MaxVersoes = 2
SYMMETRY Simetria
INVARIANTS
    VincularBasta
    CobreDeVerdade
PROPERTIES
    HistoriaFica
\* Ids run out in the end.
CHECK_DEADLOCK FALSE
