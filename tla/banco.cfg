SPECIFICATION FairSpec
CONSTANTS
    p1 = p1
    p2 = p2
    a1 = a1
    a2 = a2
    a3 = a3
    a4 = a4
    l1 = l1
    l2 = l2
    l3 = l3
    Pedidos = {p1, p2}
    Ids = {a1, a2}
    Lugares = {l1, l2}
    Iniciais <- AindaVazio
INVARIANTS
    ReferenciaIntegra
    RemovidasSemRegistro
PROPERTIES
    TodoPedidoTermina
    CumpreHistoria
