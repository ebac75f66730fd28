SPECIFICATION Spec
CONSTANTS
    MaxAgora  = 6
    Clientes  = {c1, c2, c3}
    PorMinuto <- PorMinutoDoEdital
    Rajada    <- RajadaDoEdital
    MaxBaldes = 1
    Limite    = 3
    Espera    = 2
    Tamanhos  = {0, 20971520, 20971521, 22020096, 26214400}
    Textos    = {0, 4096, 26214400}
SYMMETRY Simetria
INVARIANTS
    AbreSoPorIndisponibilidade
    NadaTruncado
    SondaTemChamada
\* The clock is bounded, so nobody calls for ever.
CHECK_DEADLOCK FALSE
