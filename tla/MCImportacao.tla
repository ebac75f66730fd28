---------------------------- MODULE MCImportacao ----------------------------
(* Three students, of whose buckets the table has room for one, under the  *)
(* limit of the routes of the editais.                                     *)
EXTENDS Importacao, TLC

PorMinutoDoEdital == 12 * 60
RajadaDoEdital == 4
Simetria == Permutations(Clientes)
=============================================================================
