------------------------------ MODULE SlikQueue ------------------------------
(***************************************************************************)
(* What the SLIK generator promises to the user who submits a workbook,    *)
(* without instances, locks, files or retries: an accepted job is pending, *)
(* its checkpoints only grow, and it ends once, completed only when every  *)
(* account has its checkpoint.                                             *)
(***************************************************************************)
CONSTANTS Jobs, Accounts

VARIABLES state, saved

vars == <<state, saved>>

Init ==
    /\ state = [j \in Jobs |-> "none"]
    /\ saved = [j \in Jobs |-> {}]

Accept(j) ==
    /\ state[j] = "none"
    /\ state' = [state EXCEPT ![j] = "pending"]
    /\ UNCHANGED saved

Progress(j, a) ==
    /\ state[j] = "pending" /\ a \notin saved[j]
    /\ saved' = [saved EXCEPT ![j] = @ \cup {a}]
    /\ UNCHANGED state

End(j, s) ==
    /\ state[j] = "pending"
    /\ s = "COMPLETED" => saved[j] = Accounts
    /\ state' = [state EXCEPT ![j] = s]
    /\ UNCHANGED saved

Ends(j) == \E s \in {"COMPLETED", "FAILED", "CANCELED"} : End(j, s)

Next == \E j \in Jobs : Accept(j) \/ (\E a \in Accounts : Progress(j, a)) \/ Ends(j)

Spec == Init /\ [][Next]_vars
=============================================================================
