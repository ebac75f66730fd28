SPECIFICATION FairSpec
CONSTANTS
    aula = aula
    t1 = t1
    t2 = t2
    h1 = h1
    s1 = s1
    Nenhum = Nenhum
    Pedidos = {aula}
    Aulas = {aula}
    Slugs = {s1}
    Tarefas = {t1, t2}
    Atendentes = {h1}
    MaxVezes = 2
    MaxRede = 1
    MaxCliques = 1
    MaxTelas = 1
    MaxMortes = 1
INVARIANTS
    ProcessandoTemOQueEntregar
    ProntoTemMapa
    SemTrabalhoDobrado
PROPERTIES
    DesfechoEhDefinitivo
    TodoTrabalhoTermina
CHECK_DEADLOCK FALSE
