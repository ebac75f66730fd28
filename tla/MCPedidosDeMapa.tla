--------------------------- MODULE MCPedidosDeMapa --------------------------
(* One request from a lesson, with two tasks that may hand it over.         *)
EXTENDS PedidosDeMapa

CONSTANTS aula, t1, t2, h1, s1
=============================================================================
