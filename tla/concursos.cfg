SPECIFICATION Spec
CONSTANTS
    portugues = portugues
    Nenhum = Nenhum
    Nova = Nova
    SemTag = SemTag
    Abas = {a1, a2}
    Tags = {1, 2}
    Nomes = {portugues}
    SiglaDe <- MCSiglaDe
    Links = {l1, l2}
    Titulos = {m1}
    MaxMaterias = 2
    MaxMarcos = 1
    MaxIds = 3
    MaxConcursos = 1
SYMMETRY Simetria
INVARIANTS
    AgendadoFica
PROPERTIES
    EstudoFica
\* Ids run out in the end.
CHECK_DEADLOCK FALSE
