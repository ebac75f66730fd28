------------------------------ MODULE Historia ------------------------------
(***************************************************************************)
(* What the database promises about a plan, whatever the services do       *)
(* (docs/como-funciona.md, third rule: what was studied is never erased).  *)
(* Activities come and go as the schedule is rewritten; one that carries a *)
(* record of study stays until the student erases the whole history.       *)
(***************************************************************************)
CONSTANT Ids

VARIABLES
    atividades,  \* ids of the activities on the schedule
    estudadas    \* ids of the activities with a record

Init == atividades \in SUBSET Ids /\ estudadas = {}

Reescrever ==
    \E novas \in SUBSET Ids :
        /\ estudadas \subseteq novas
        /\ atividades' = novas
        /\ UNCHANGED estudadas

Lancar ==
    \E id \in atividades :
        /\ estudadas' = estudadas \cup {id}
        /\ UNCHANGED atividades

Esquecer == estudadas' = {} /\ UNCHANGED atividades

Next == Reescrever \/ Lancar \/ Esquecer

Spec == Init /\ [][Next]_<<atividades, estudadas>>
=============================================================================
