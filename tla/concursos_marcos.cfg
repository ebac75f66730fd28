SPECIFICATION Spec
CONSTANTS
    portugues = portugues
    Nenhum = Nenhum
    Nova = Nova
    SemTag = SemTag
    Abas = {a1, a2}
    Tags = {1}
    Nomes = {portugues}
    SiglaDe <- MCSiglaDe
    Links = {l1}
    Titulos = {m1, m2}
    MaxMaterias = 1
    MaxMarcos = 2
    MaxIds = 1
    MaxConcursos = 1

PROPERTIES
    CumpridoDoMesmoMarco
\* Ids run out in the end.
CHECK_DEADLOCK FALSE
