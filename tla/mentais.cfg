SPECIFICATION Spec
CONSTANTS
    s1 = s1
    d1 = d1
    r1 = r1
    i1 = i1
    t1 = t1
    t2 = t2
    k1 = k1
    k2 = k2
    Nenhum = Nenhum
    Abas = {a1, a2}
    Slugs = {s1}
    Horas = {1}
    Itens = {r1, i1}
    Pai <- MCPai
    Outlines <- MCOutlines
    Arquivos <- MCArquivos
    Pacotes <- MCPacotes
    Ementas <- MCEmentas
    Contido <- MCContido
    MaxMapas = 2
    MaxQuestoes = 2
SYMMETRY Simetria
PROPERTIES
    EscolhaFica
    RespostaFica
\* Ids run out in the end.
CHECK_DEADLOCK FALSE
