SPECIFICATION Spec
CONSTANTS
    Configs    <- ComecaDepois
    Gerar      <- MCGerar
    Topico     <- MCTopico
    Caderno    <- MCCaderno
    Prova      = 7
    UltimoDia  = 4
    Datas      = {1, 3}
    Posicoes   = {0}
    Operacoes  = {"registrar", "falha", "estudar", "estudar_falha", "salvar", "restaurar", "reorganizar", "absorver", "limpar"}
    MaxPedidos = 3
INVARIANTS
    TypeOK
    NuncaRecusado
    EstudadoNaoVolta
    ConcluidaEmDia
PROPERTIES
    PassadoNaoMuda
    AtrasoVoltaAAgenda
\* The exam ends the plan: the clock and the requests are bounded.
CHECK_DEADLOCK FALSE
