------------------------------ MODULE Delivery ------------------------------
(***************************************************************************)
(* What the outbox promises, without dispatchers, claims, timers or        *)
(* channels: a lead owes one message to each of its destinations from the  *)
(* moment it exists, and each debt is settled once, on its own.            *)
(***************************************************************************)
CONSTANTS Leads, Rows     \* Rows: pairs of a lead and a destination

VARIABLE debt             \* debt[r]

Debts == {"none", "owed", "delivered", "abandoned", "withdrawn"}

Init == debt = [r \in Rows |-> "none"]

\* The lead commits and owes all its messages at once.
Owe(l) ==
    /\ \A r \in Rows : r[1] = l => debt[r] = "none"
    /\ debt' = [r \in Rows |-> IF r[1] = l THEN "owed" ELSE debt[r]]

Settle(r) ==
    /\ debt[r] = "owed"
    /\ \E d \in {"delivered", "abandoned"} : debt' = [debt EXCEPT ![r] = d]

\* The lead is deleted with everything it owes or has settled.
Withdraw(l) ==
    /\ \A r \in Rows : r[1] = l => debt[r] # "none"
    /\ debt' = [r \in Rows |-> IF r[1] = l THEN "withdrawn" ELSE debt[r]]

Next == \/ \E l \in Leads : Owe(l) \/ Withdraw(l)
        \/ \E r \in Rows : Settle(r)

Spec == Init /\ [][Next]_debt /\ \A r \in Rows : WF_debt(Settle(r))
=============================================================================
