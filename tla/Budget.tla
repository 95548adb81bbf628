------------------------------- MODULE Budget -------------------------------
(***************************************************************************)
(* The budget of one lead and the currency rates it is priced with         *)
(* (internal/crmapi/settings.go, currency_rates.go, leads.go,              *)
(* lead_info.go, v2_status.go).                                            *)
(*                                                                         *)
(* Rate sets are only ever inserted, and a budget names the set it was     *)
(* entered under.  Four handlers write a lead's budget: the v1 edit, which *)
(* reads it outside its transaction and trusts the version of If-Match to  *)
(* have named what it read; the lead info of the lead and of its project;  *)
(* and a successful call.  Version 0 is a lead that is not created yet.    *)
(***************************************************************************)
EXTENDS Naturals, Sequences

CONSTANTS
    Writers,          \* one-shot requests that write the budget
    Accountants,      \* one-shot requests that change the rates
    Amounts,          \* numbers a budget text may name
    Currencies,
    OfficeCurrency,
    Other,            \* the rest of the lead info, as one value of these
    MaxRates,         \* bound: rate sets
    MaxBegins,        \* bound: transactions that change the rates
    MaxMoves,         \* bound: the version up to which the lead is archived
    Nothing,          \* no text, no amount
    Unsent            \* a field a request leaves out

BudgetText == {range \in Amounts \X Amounts : range[1] <= range[2]}

ASSUME BudgetAssumption ==
    /\ Amounts \subseteq Nat /\ OfficeCurrency \in Currencies /\ Other # {}
    /\ MaxRates \in Nat \ {0} /\ MaxBegins \in Nat /\ MaxMoves \in Nat
    /\ Nothing \notin Nat /\ Nothing \notin BudgetText /\ Unsent \notin Currencies

VARIABLES
    rates,       \* currency_rate_sets by version; replaced is a history field
    budget,      \* the lead's budget columns, its info and its version
    lost,        \* leads.archived_at is set
    sawLead,     \* sawLead[w]: the lead as the user of w last saw it
    preRead,     \* preRead[w]: the lead as handleUpdateLead read it before begin
    sets,        \* sets[w]: what the request of w sets
    phase,       \* phase[w]
    sawRates,    \* sawRates[a]: the version the accountant saw
    begun,       \* begun[a]: now() of the transaction, 0 before it
    begins,      \* the clock: transactions begun
    asOf,        \* history: asOf[w], the set in force when w was read or arrived
    enteredAt    \* history: that of the request which last changed the budget

rateVars == <<rates, sawRates, begun, begins>>
writerVars == <<sawLead, preRead, sets, phase, asOf>>
budgetVars == <<rateVars, budget, lost, writerVars, enteredAt>>

Lead == [version : Nat, text : BudgetText \cup {Nothing}, amount : Amounts \cup {Nothing},
         currency : Currencies, pricedBy : 0..MaxRates, info : Other]

\* loadCurrencyRateSetAt: order by effective_from desc limit 1
InForce == CHOOSE i \in DOMAIN rates : \A j \in DOMAIN rates : rates[j].from <= rates[i].from

BudgetTypeOK ==
    /\ rates \in Seq([replaced : 0..MaxRates, from : 0..MaxBegins])
    /\ Len(rates) \in 1..MaxRates
    /\ budget \in Lead /\ lost \in BOOLEAN
    /\ sawLead \in [Writers -> Lead] /\ preRead \in [Writers -> Lead]
    /\ phase \in [Writers -> {"new", "seen", "edit", "read", "priced", "done"}]
    /\ sawRates \in [Accountants -> 0..MaxRates]
    /\ begun \in [Accountants -> 0..MaxBegins] /\ begins \in 0..MaxBegins
    /\ asOf \in [Writers -> 0..MaxRates] /\ enteredAt \in 0..MaxRates

NoLead == [version |-> 0, text |-> Nothing, amount |-> Nothing,
           currency |-> OfficeCurrency, pricedBy |-> 0, info |-> CHOOSE o \in Other : TRUE]
Unset == [amount |-> Nothing, currency |-> OfficeCurrency]

BudgetInit ==
    /\ rates = <<[replaced |-> 0, from |-> 0]>>
    /\ budget = NoLead /\ lost = FALSE
    /\ sawLead = [w \in Writers |-> NoLead] /\ preRead = [w \in Writers |-> NoLead]
    /\ sets = [w \in Writers |-> Unset] /\ phase = [w \in Writers |-> "new"]
    /\ sawRates = [a \in Accountants |-> 0] /\ begun = [a \in Accountants |-> 0]
    /\ begins = 0
    /\ asOf = [w \in Writers |-> 0] /\ enteredAt = 1

----------------------------------------------------------------------------
(* Currency rates *)

\* handleGetCurrencyRates: a super admin sees the set in force.
GetRates(a) ==
    /\ sawRates[a] = 0
    /\ sawRates' = [sawRates EXCEPT ![a] = InForce]
    /\ UNCHANGED <<rates, begun, begins, budget, lost, writerVars, enteredAt>>

\* The transaction begins, and with it now(), before it waits for the advisory lock.
BeginRates(a) ==
    /\ sawRates[a] # 0 /\ begun[a] = 0 /\ begins < MaxBegins
    /\ begins' = begins + 1
    /\ begun' = [begun EXCEPT ![a] = begins + 1]
    /\ UNCHANGED <<rates, sawRates, budget, lost, writerVars, enteredAt>>

\* handleUpdateCurrencyRates under the advisory lock: the latest set must be the
\* one of If-Match.
\* Mutated forms (Bad...): plausible bugs for the mutation runs.
Enter(a) == rates' = Append(rates, [replaced |-> sawRates[a], from |-> begun[a]])
BadUpdateRates(a) ==
    /\ begun[a] # 0 /\ Len(rates) < MaxRates
    /\ Enter(a)
    /\ UNCHANGED begins
    /\ begun' = [begun EXCEPT ![a] = 0] /\ sawRates' = [sawRates EXCEPT ![a] = 0]
    /\ UNCHANGED <<budget, lost, writerVars, enteredAt>>
UpdateRates(a) ==
    /\ begun[a] # 0 /\ Len(rates) < MaxRates
    /\ IF sawRates[a] = InForce
       THEN Enter(a)
       ELSE UNCHANGED rates
    /\ UNCHANGED begins
    /\ begun' = [begun EXCEPT ![a] = 0] /\ sawRates' = [sawRates EXCEPT ![a] = 0]
    /\ UNCHANGED <<budget, lost, writerVars, enteredAt>>

----------------------------------------------------------------------------
(* The lead's budget *)

\* loadCurrencyRateSetAt, for an amount
Priced(amount) == IF amount = Nothing THEN 0 ELSE InForce
Lower(text) == IF text = Nothing THEN Nothing ELSE text[1]

\* The lead is written.  When the amount or the currency changes, the history
\* keeps the rates that were in force when the request came.
WriteLead(lead, since) ==
    /\ budget' = lead
    /\ enteredAt' = IF lead.amount # budget.amount \/ lead.currency # budget.currency
                    THEN since ELSE enteredAt
Ends(w) ==
    /\ phase' = [phase EXCEPT ![w] = "done"]
    /\ preRead' = [preRead EXCEPT ![w] = NoLead]
    /\ sets' = [sets EXCEPT ![w] = Unset]
    /\ asOf' = [asOf EXCEPT ![w] = 0]
    /\ sawLead' = [sawLead EXCEPT ![w] = NoLead]

\* handleCreateLead, with a text or with the v1 amount, in the office's currency or
\* another
CreateLead ==
    /\ budget.version = 0
    /\ \E text \in BudgetText \cup {Nothing}, number \in Amounts \cup {Nothing},
          c \in Currencies, o \in Other :
        LET amount == IF text = Nothing THEN number ELSE Lower(text)
        IN WriteLead([version |-> 1, text |-> text, amount |-> amount, currency |-> c,
                  pricedBy |-> Priced(amount), info |-> o], InForce)
    /\ UNCHANGED <<rateVars, lost, writerVars>>

\* A user opens the lead.
SeeLead(w) ==
    /\ phase[w] = "new" /\ budget.version # 0
    /\ sawLead' = [sawLead EXCEPT ![w] = budget]
    /\ phase' = [phase EXCEPT ![w] = "seen"]
    /\ UNCHANGED <<rateVars, budget, lost, preRead, sets, asOf, enteredAt>>

(* handleUpdateLead: an amount or none, and a currency or the present one *)
PreRead(w) ==
    /\ phase[w] = "seen"
    /\ IF lost
       THEN Ends(w)
       ELSE /\ \E amount \in Amounts \cup {Nothing}, c \in Currencies \cup {budget.currency} :
                 sets' = [sets EXCEPT ![w] = [amount |-> amount, currency |-> c]]
            /\ preRead' = [preRead EXCEPT ![w] = budget]
            /\ asOf' = [asOf EXCEPT ![w] = InForce]
            /\ phase' = [phase EXCEPT ![w] = "read"]
            /\ UNCHANGED sawLead
    /\ UNCHANGED <<rateVars, budget, lost, enteredAt>>

\* An amount that does not change keeps its rates, as they were read.
Reprices(w) == \/ sets[w].amount # preRead[w].amount
               \/ sets[w].currency # preRead[w].currency
PriceEdit(w) ==
    /\ phase[w] = "read"
    /\ preRead' = [preRead EXCEPT ![w].pricedBy =
                      IF Reprices(w) THEN Priced(sets[w].amount) ELSE @]
    /\ phase' = [phase EXCEPT ![w] = "priced"]
    /\ UNCHANGED <<rateVars, budget, lost, sawLead, sets, asOf, enteredAt>>

\* update ... where version = If-Match
BadEditLead(w) ==
    /\ phase[w] = "priced"
    /\ IF ~lost
       THEN WriteLead([budget EXCEPT !.version = @ + 1, !.amount = sets[w].amount,
                                 !.currency = sets[w].currency,
                                 !.pricedBy = preRead[w].pricedBy], asOf[w])
       ELSE UNCHANGED <<budget, enteredAt>>
    /\ Ends(w)
    /\ UNCHANGED <<rateVars, lost>>
EditLead(w) ==
    /\ phase[w] = "priced"
    /\ IF budget.version = sawLead[w].version /\ ~lost
       THEN WriteLead([budget EXCEPT !.version = @ + 1, !.amount = sets[w].amount,
                                 !.currency = sets[w].currency,
                                 !.pricedBy = preRead[w].pricedBy], asOf[w])
       ELSE UNCHANGED <<budget, enteredAt>>
    /\ Ends(w)
    /\ UNCHANGED <<rateVars, lost>>

(* applyLeadInfo: what a patch makes of the lead.  A first amount without a currency
   takes the office's; a budget that changes is priced anew. *)
Info(text, currency, o) ==
    LET amount == IF text = Unsent THEN budget.amount ELSE Lower(text)
        words == IF text = Unsent THEN budget.text ELSE text
        unit == CASE currency # Unsent -> currency
                  [] currency = Unsent /\ budget.amount = Nothing /\ amount # Nothing ->
                       OfficeCurrency
                  [] OTHER -> budget.currency
        changed == \/ words # budget.text \/ amount # budget.amount
                   \/ unit # budget.currency
    IN [budget EXCEPT !.text = words, !.amount = amount, !.currency = unit,
                      !.pricedBy = IF changed THEN Priced(amount) ELSE @, !.info = o]

\* applyLeadInfoPatch with the lead locked: for the lead, with the version of
\* If-Match, or through its project, where the version is optional.  A patch that
\* changes nothing leaves the version alone.
PatchInfo(w) ==
    /\ phase[w] = "seen"
    /\ \E text \in BudgetText \cup {Nothing, Unsent}, c \in Currencies \cup {Unsent},
          o \in Other, checked \in BOOLEAN :
        LET next == Info(text, c, o)
        IN IF ~lost /\ (checked => budget.version = sawLead[w].version) /\ next # budget
           THEN WriteLead([next EXCEPT !.version = @ + 1], InForce)
           ELSE UNCHANGED <<budget, enteredAt>>
    /\ Ends(w)
    /\ UNCHANGED <<rateVars, lost>>

(* applySuccessfulCallInfo, with the lead locked, whatever its version: a budget, if
   there is one, is priced anew, and the activity bumps the version *)
Called(text, c, o) ==
    IF text = Unsent
    THEN [budget EXCEPT !.info = o]
    ELSE [budget EXCEPT !.text = text, !.amount = Lower(text), !.currency = c,
                        !.pricedBy = InForce, !.info = o]
CallInfo(w) ==
    /\ phase[w] = "seen" /\ ~lost
    /\ \E text \in BudgetText \cup {Unsent}, c \in Currencies, o \in Other :
        WriteLead([Called(text, c, o) EXCEPT !.version = @ + 1], InForce)
    /\ Ends(w)
    /\ UNCHANGED <<rateVars, lost>>

\* The lead is archived and restored.
LoseOrRestore ==
    /\ budget.version \in 1..(MaxMoves - 1)
    /\ lost' = ~lost /\ budget' = [budget EXCEPT !.version = @ + 1]
    /\ UNCHANGED <<rateVars, writerVars, enteredAt>>

----------------------------------------------------------------------------
BudgetNext ==
    \/ \E a \in Accountants : GetRates(a) \/ BeginRates(a) \/ UpdateRates(a)
    \/ CreateLead \/ LoseOrRestore
    \/ \E w \in Writers : SeeLead(w) \/ PreRead(w) \/ PriceEdit(w) \/ EditLead(w)
                          \/ PatchInfo(w) \/ CallInfo(w)

BudgetSpec == BudgetInit /\ [][BudgetNext]_budgetVars

----------------------------------------------------------------------------
(* Properties *)

\* Every set of rates was entered by someone who saw the one it replaced, and is in
\* force from then on: the order by time, which readers use, is that of the versions
\* (settings.go:64, currency_rates.go:53).
RatesReplaceWhatWasSeen ==
    \A i \in 2..Len(rates) : rates[i].replaced = i - 1 /\ rates[i].from > rates[i - 1].from

\* A budget always names the rates it is priced with, and they are not older than the
\* request that last changed the amount or the currency, whichever of the handlers
\* wrote in between and whatever they kept.
PricedWhenEntered ==
    /\ budget.pricedBy = 0 <=> budget.amount = Nothing
    /\ budget.amount # Nothing => budget.pricedBy >= enteredAt

\* A version names what the user saw: while the lead has the version of If-Match it
\* holds what that user was shown, so that no edit undoes an answer nobody has read.
VersionNamesLead ==
    \A w \in Writers : sawLead[w].version = budget.version => sawLead[w] = budget

=============================================================================
