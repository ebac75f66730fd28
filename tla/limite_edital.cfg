SPECIFICATION SpecLimites
CONSTANTS
    MaxAgora  = 2
    Clientes  = {c1, c2}
    PorMinuto <- PorMinutoDoEdital
    Rajada    <- RajadaDoEdital
    MaxBaldes = 1
INVARIANTS
    TetoPorCliente
