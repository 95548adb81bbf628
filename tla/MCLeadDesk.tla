----------------------------- MODULE MCLeadDesk -----------------------------
(***************************************************************************)
(* The leads for TLC: the workflow that moves one, the budget and the      *)
(* rates it is priced with, and the marking of duplicates.  These share no *)
(* state: a behaviour picks one part and moves only that.                  *)
(***************************************************************************)
EXTENDS LeadWorkflow, Budget, Duplicates, TLC

CONSTANTS monday, w1, w2, a1, a2, uah, eur, x, l1, l2, l3, d1

OneDate == {monday}
AllKinds == {"showroom", "measurement", "office_work"}
Symmetric == Permutations({w1, w2}) \cup Permutations({a1, a2})

VARIABLE part

\* Bounds: of the three ranges of two amounts, the two that begin with the smaller; a lead
\* is created with one of these, or with an amount, and in the currency of the office.
FewTexts ==
    /\ budget'.text # <<2, 2>>
    /\ budget'.version = 1 => budget'.text # <<1, 1>> /\ budget'.currency = OfficeCurrency

\* Another part moves while the leads of the duplicates are as one of their starts.
RunInit ==
    /\ part \in {"workflow", "budget", "duplicates"}
    /\ Init /\ BudgetInit /\ DuplicateInit
    /\ part # "duplicates" => stage = [l \in Leads |-> "open"]

RunNext ==
    /\ part' = part
    /\ \/ part = "workflow" /\ Next /\ UNCHANGED <<budgetVars, duplicateVars>>
       \/ part = "budget" /\ BudgetNext /\ FewTexts /\ UNCHANGED <<vars, duplicateVars>>
       \/ part = "duplicates" /\ DuplicateNext /\ UNCHANGED <<vars, budgetVars>>

RunSpec == RunInit /\ [][RunNext]_<<part, vars, budgetVars, duplicateVars>>
=============================================================================
