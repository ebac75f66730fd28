SPECIFICATION FairSpec
CONSTANTS
    Emails = {e1, e2}
    Tokens = {t1, t2}
    Abas   = {a1, a2}
    Nenhum = Nenhum
INVARIANTS
    TokenGastoNaoRenova
    LinhaTemConta
PROPERTIES
    MortoSaiDaTabela
    TokenMortoNaoVoltaSempre
\* Every token drawn and the student away: the system may stop.
CHECK_DEADLOCK FALSE
