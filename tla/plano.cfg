SPECIFICATION Spec
CONSTANTS
    Concurso <- MCConcurso
    Catalogo <- MCCatalogo
    Inicial <- MCInicial
    Hoje <- MCHoje
    Comandos <- MCComandos
    Faltas <- MCFaltas
    MaxPedidos = 3
INVARIANTS
    TopicoEntra
    AdiadaUmaVez
    VoltaSemPular
PROPERTY
    OutrosAjustesFicam
CHECK_DEADLOCK FALSE
