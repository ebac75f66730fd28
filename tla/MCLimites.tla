----------------------------- MODULE MCLimites ------------------------------
(* Two clients, of whose buckets the table has room for one, under the     *)
(* limit of the editais.                                                   *)
EXTENDS Limites

PorMinutoDoEdital == LimitesPadrao.edital.porMinuto
RajadaDoEdital == LimitesPadrao.edital.rajada
=============================================================================
