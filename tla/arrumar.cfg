SPECIFICATION Spec
CONSTANTS
    Configs    <- UmaConfig
    Gerar      <- MCGerar
    Topico     <- MCTopico
    Caderno    <- MCCaderno
    Prova      = 7
    UltimoDia  = 3
    Datas      = {1, 3}
    Posicoes   = {0, 1}
    Operacoes  = {"registrar", "mover", "trocar", "adiar", "antecipar", "estudar", "compactar"}
    MaxPedidos = 3
INVARIANTS
    TopicoNaoSome
    SoTrocarRecusado
    AntecipadaConcluida
PROPERTIES
    CompactarSemVao
    CompactarMantemAOrdem
\* The exam ends the plan: the clock and the requests are bounded.
CHECK_DEADLOCK FALSE
