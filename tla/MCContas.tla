------------------------------ MODULE MCContas ------------------------------
(* One browser with two tabs; the accounts, tabs and tokens are interchangeable. *)
EXTENDS Contas, TLC

Simetria == Permutations(Emails) \cup Permutations(Abas) \cup Permutations(Tokens)
=============================================================================
