------------------------------ MODULE Projects ------------------------------
(***************************************************************************)
(* One project of a won lead: its stage, intro and main contract,          *)
(* payments, estimate and files (internal/crmapi/projects_mutations.go,    *)
(* projects_pipeline.go, projects_logic.go).                               *)
(*                                                                         *)
(* Every handler locks the project row first and commits at its end, so    *)
(* each is one action.  The upload of a file is a second, direct call of   *)
(* the client to the object store and interleaves with all of them.        *)
(***************************************************************************)
EXTENDS Naturals, Functions, FiniteSetsExt

CONSTANTS
    Stages,         \* stages of the pipeline picked by hand, with their position
    ContractStage,  \* position of the stage a contract of a kind moves to
    Keys,           \* Idempotency-Keys of payments: a payment is named after its key
    Files,          \* uploads
    Totals,         \* contract totals, in cents
    Amounts,        \* payment amounts, in cents
    Currencies,
    Estimates,      \* values of the estimate lines, as a whole
    NoFile

Kinds == {"intro", "main"}

ASSUME PipelineAssumption ==
    /\ Stages \subseteq Nat /\ 0 \in Stages
    /\ ContractStage \in [Kinds -> Nat \ Stages]
    /\ ContractStage["intro"] < ContractStage["main"]
ASSUME AmountsAssumption == Totals \subseteq Nat \ {0} /\ Amounts \subseteq Nat \ {0}
ASSUME NoFileAssumption == NoFile \notin Files

VARIABLES
    status,     \* projects.status, as its position in the pipeline
    cancelled,  \* projects.status = 'cancelled'; status is then status_before_cancel
    contracts,  \* project_contracts, by kind
    payments,   \* project_payments, by the key they were recorded with
    keys,       \* payment keys in api_idempotency_keys
    estimate,   \* project_estimate_lines
    files,      \* project_files and the stored object of each
    visits,     \* whether the lead has scheduled visits
    timeline    \* what project_events tells: the kinds of contract ever added, and the
                \* estimate when the last main contract was

vars == <<status, cancelled, contracts, payments, keys, estimate, files, visits, timeline>>
books == <<contracts, payments, keys, estimate>>
stage == <<status, cancelled, visits>>

AllStages == Stages \cup {ContractStage[k] : k \in Kinds}
FileOrNone == Files \cup {NoFile}
Contract == [total : Totals, currency : Currencies, file : FileOrNone]
\* recordedIn: the currency of the amount's last project_events row.
Payment == [kind : Kinds, amount : Amounts, recordedIn : Currencies, file : FileOrNone]
NoRow == [kind |-> "none", state |-> "none"]
\* "stored": awaiting_upload, and the object is in the bucket.
FileKinds == {"contract", "receipt"}
FileRow == [kind : FileKinds, state : {"awaiting", "stored", "ready"}]
HasContract(k) == k \in DOMAIN contracts
HasMain == HasContract("main")

\* What lockEditableProject asks of the locked row.
Editable == ~cancelled

Init ==
    /\ status = 0 /\ cancelled = FALSE
    /\ contracts = <<>> /\ payments = <<>> /\ keys = {}
    /\ estimate \in Estimates
    /\ files = [f \in Files |-> NoRow]
    /\ visits \in BOOLEAN
    /\ timeline = [added |-> {}, signed |-> estimate]

-----------------------------------------------------------------------------
\* Money (projectMoney): a kind's own payments, those of P left out of account,
\* and the paid intro amount credited to a main contract of the same currency.

Paid(ps, k, P) ==
    MapThenSumSet(LAMBDA p : ps[p].amount, {p \in DOMAIN ps \ P : ps[p].kind = k})

SameCurrency(cs) ==
    DOMAIN cs = Kinds /\ cs["intro"].currency = cs["main"].currency

Less(a, b) == IF a > b THEN a - b ELSE 0
AtMost(a, b) == IF a < b THEN a ELSE b

Credited(cs, ps, P) ==
    IF SameCurrency(cs) THEN AtMost(Paid(ps, "intro", P), cs["main"].total) ELSE 0

Remaining(cs, ps, k, P) ==
    Less(cs[k].total,
         Paid(ps, k, P) + (IF k = "main" THEN Credited(cs, ps, P) ELSE 0))

\* The same limit when only the intro contract's own total counts.
BadMaxPayment(cs, ps, k, P) == Remaining(cs, ps, k, P)

\* An intro payment may not push the main contract past its total either.
MaxPayment(cs, ps, k, P) ==
    IF k = "intro" /\ SameCurrency(cs)
    THEN AtMost(Remaining(cs, ps, "intro", P),
                Less(cs["main"].total, Paid(ps, "main", P) + Paid(ps, "intro", P)))
    ELSE Remaining(cs, ps, k, P)

Overpaid(cs, ps) ==
    \/ "intro" \in DOMAIN cs /\ Paid(ps, "intro", {}) > cs["intro"].total
    \/ /\ "main" \in DOMAIN cs
       /\ Paid(ps, "main", {}) + (IF SameCurrency(cs) THEN Paid(ps, "intro", {}) ELSE 0)
          > cs["main"].total

-----------------------------------------------------------------------------
\* Files: a row and a signed URL, the client's upload, and the confirmation by
\* the contract or payment that takes the file (confirmProjectFile).

Held == {contracts[k].file : k \in DOMAIN contracts}
        \cup {payments[p].file : p \in DOMAIN payments}

CreateFileUpload(f, kind) ==
    /\ Editable /\ files[f] = NoRow
    /\ files' = [files EXCEPT ![f] = [kind |-> kind, state |-> "awaiting"]]
    /\ UNCHANGED <<stage, books, timeline>>

\* The presigned PUT, by the client.
Upload(f) ==
    /\ files[f].state = "awaiting"
    /\ files' = [files EXCEPT ![f].state = "stored"]
    /\ UNCHANGED <<stage, books, timeline>>

Confirm(f, kind) ==
    IF f = NoFile THEN UNCHANGED files
    ELSE /\ files[f].kind = kind /\ f \notin Held
         /\ files[f].state \in {"stored", "ready"}
         /\ files' = [files EXCEPT ![f].state = "ready"]

-----------------------------------------------------------------------------
\* Stage

ChangeStatus(s) ==
    /\ Editable
    /\ status' = s
    /\ UNCHANGED <<cancelled, visits, books, files, timeline>>

Cancel(withVisits) ==
    /\ ~cancelled
    /\ cancelled' = TRUE
    /\ visits' = (visits /\ ~withVisits)
    /\ UNCHANGED <<status, books, files, timeline>>

Restore ==
    /\ cancelled
    /\ cancelled' = FALSE
    /\ UNCHANGED <<status, visits, books, files, timeline>>

\* The lead gets visits and loses them behind the project's back (see Calendar).
VisitsMove ==
    /\ visits' = ~visits
    /\ UNCHANGED <<status, cancelled, books, files, timeline>>

\* The stage follows the contract backwards too, and for either kind.
BadStatusAfterContract(k) == ContractStage["main"]

StatusAfterContract(k) ==
    IF status < ContractStage[k] THEN ContractStage[k] ELSE status

-----------------------------------------------------------------------------
\* Estimate and contracts

UpdateEstimate(e) ==
    /\ Editable /\ ~HasMain
    /\ estimate' = e
    /\ UNCHANGED <<stage, contracts, payments, keys, files, timeline>>

AddContract(k, total, currency, f) ==
    LET c == [total |-> total, currency |-> currency, file |-> f]
        next == [x \in DOMAIN contracts \cup {k} |-> IF x = k THEN c ELSE contracts[x]]
    IN  /\ Editable /\ ~HasContract(k)
        /\ ~Overpaid(next, payments)
        /\ Confirm(f, "contract")
        /\ contracts' = next
        /\ status' = StatusAfterContract(k)
        /\ timeline' = [added |-> timeline.added \cup {k},
                        signed |-> IF k = "main" THEN estimate ELSE timeline.signed]
        /\ UNCHANGED <<cancelled, visits, payments, keys, estimate>>

\* The currency is not frozen by payments.
BadEditContract(k, total, currency, f) ==
    LET c == [total |-> total, currency |-> currency,
              file |-> IF f = NoFile THEN contracts[k].file ELSE f]
        next == [contracts EXCEPT ![k] = c]
    IN  /\ Editable /\ HasContract(k)
        /\ ~Overpaid(next, payments)
        /\ Confirm(f, "contract")
        /\ contracts' = next
        /\ UNCHANGED <<stage, payments, keys, estimate, timeline>>

EditContract(k, total, currency, f) ==
    LET c == [total |-> total, currency |-> currency,
              file |-> IF f = NoFile THEN contracts[k].file ELSE f]
        next == [contracts EXCEPT ![k] = c]
    IN  /\ Editable /\ HasContract(k)
        /\ currency = contracts[k].currency \/ Paid(payments, k, {}) = 0
        /\ ~Overpaid(next, payments)
        /\ Confirm(f, "contract")
        /\ contracts' = next
        /\ UNCHANGED <<stage, payments, keys, estimate, timeline>>

\* "Delete the payments of this contract first."  The stage is left as it is.
DeleteContract(k) ==
    /\ Editable /\ HasContract(k)
    /\ \A p \in DOMAIN payments : payments[p].kind # k
    /\ contracts' = Restrict(contracts, DOMAIN contracts \ {k})
    /\ UNCHANGED <<stage, payments, keys, estimate, files, timeline>>

-----------------------------------------------------------------------------
\* Payments

\* A payment that names no contract goes to main, or else to intro: k is one of
\* the caller's choices.  A retry finds its key and replays the answer: nothing changes.
AddPayment(p, k, amount, f) ==
    /\ Editable /\ p \notin keys /\ HasContract(k)
    /\ amount <= MaxPayment(contracts, payments, k, {})
    /\ Confirm(f, "receipt")
    /\ keys' = keys \cup {p}
    /\ payments' = [x \in DOMAIN payments \cup {p} |->
                      IF x # p THEN payments[x]
                      ELSE [kind |-> k, amount |-> amount, file |-> f,
                            recordedIn |-> contracts[k].currency]]
    /\ UNCHANGED <<stage, contracts, estimate, timeline>>

\* The balance is not checked again.
BadEditPayment(p, amount, f) ==
    /\ Editable /\ p \in DOMAIN payments
    /\ Confirm(f, "receipt")
    /\ payments' = [payments EXCEPT ![p] =
         [kind |-> @.kind, amount |-> amount, recordedIn |-> contracts[@.kind].currency,
          file |-> IF f = NoFile THEN @.file ELSE f]]
    /\ UNCHANGED <<stage, contracts, keys, estimate, timeline>>

EditPayment(p, amount, f) ==
    LET old == payments[p]
    IN  /\ Editable /\ p \in DOMAIN payments
        /\ \/ amount = old.amount
           \/ amount <= MaxPayment(contracts, payments, old.kind, {p})
        /\ Confirm(f, "receipt")
        /\ payments' = [payments EXCEPT ![p] =
             [kind |-> old.kind, amount |-> amount,
              recordedIn |-> contracts[old.kind].currency,
              file |-> IF f = NoFile THEN old.file ELSE f]]
        /\ UNCHANGED <<stage, contracts, keys, estimate, timeline>>

DeletePayment(p) ==
    /\ Editable /\ p \in DOMAIN payments
    /\ payments' = Restrict(payments, DOMAIN payments \ {p})
    /\ UNCHANGED <<stage, contracts, keys, estimate, files, timeline>>

-----------------------------------------------------------------------------
ContractStep ==
    \E k \in Kinds :
        \/ DeleteContract(k)
        \/ \E total \in Totals, currency \in Currencies, f \in FileOrNone :
             AddContract(k, total, currency, f) \/ EditContract(k, total, currency, f)

PaymentStep ==
    \E p \in Keys :
        \/ DeletePayment(p)
        \/ \E amount \in Amounts, f \in FileOrNone :
             \/ EditPayment(p, amount, f)
             \/ \E k \in Kinds : AddPayment(p, k, amount, f)

FileStep ==
    \E f \in Files : Upload(f) \/ \E kind \in FileKinds : CreateFileUpload(f, kind)

Next ==
    \/ \E s \in Stages : ChangeStatus(s)
    \/ \E withVisits \in BOOLEAN : Cancel(withVisits)
    \/ Restore \/ VisitsMove
    \/ \E e \in Estimates : UpdateEstimate(e)
    \/ ContractStep \/ PaymentStep \/ FileStep

Spec == Init /\ [][Next]_vars

-----------------------------------------------------------------------------
\* Shapes; a payment has its contract (no foreign key left dangling), a file is
\* held only once it is confirmed as a file of that kind.
TypeOK ==
    /\ status \in AllStages
    /\ cancelled \in BOOLEAN /\ visits \in BOOLEAN
    /\ DOMAIN contracts \subseteq Kinds
    /\ \A k \in DOMAIN contracts : contracts[k] \in Contract
    /\ DOMAIN payments \subseteq keys /\ keys \subseteq Keys
    /\ \A p \in DOMAIN payments :
         payments[p] \in Payment /\ payments[p].kind \in DOMAIN contracts
    /\ estimate \in Estimates
    /\ files \in [Files -> FileRow \cup {NoRow}]
    /\ \A f \in Held \ {NoFile} : files[f].state = "ready"
    /\ timeline \in [added : SUBSET Kinds, signed : Estimates]

\* "A payment never exceeds the remaining amount" whatever is edited or deleted
\* afterwards: no contract has more paid and credited than its total
\* (maxPayment, overpaid, and the payment left out when it is edited).
NeverOverpaid ==
    \A k \in DOMAIN contracts :
       Paid(payments, k, {}) + (IF k = "main" THEN Credited(contracts, payments, {}) ELSE 0)
       <= contracts[k].total

\* In one currency the whole paid intro amount is credited to the main contract:
\* the cap of credited() never cuts money the client paid, in whatever order
\* contracts and payments were entered, edited and deleted.
CreditIsWhole ==
    SameCurrency(contracts) =>
       Credited(contracts, payments, {}) = Paid(payments, "intro", {})

\* "The currency is the contract's": the amounts of the timeline and of the card
\* agree, no edit turns money recorded in one currency into another.
MoneyKeepsItsCurrency ==
    \A p \in DOMAIN payments :
       payments[p].recordedIn = contracts[payments[p].kind].currency

\* While the main contract stands, the estimate is the one it was signed on.
SignedEstimateStays == HasMain => estimate = timeline.signed

\* A contract stage, also one that a restore brings back, was set by adding a
\* contract of that kind.
StageWasEarned == \A k \in Kinds : status = ContractStage[k] => k \in timeline.added

Holders(f) == {<<"contract", k>> : k \in {k \in DOMAIN contracts : contracts[k].file = f}}
              \cup {<<"receipt", p>> : p \in {p \in DOMAIN payments : payments[p].file = f}}

\* A file belongs to one contract or payment: what replaces or deletes a record
\* frees its file for another, never shares it (confirmProjectFile).
FileUsedOnce ==
    \A f \in Files : \A a, b \in Holders(f) : a = b

\* A retried POST does not bring back a payment that was deleted meanwhile.
DeletedPaymentStays ==
    [][\A p \in keys : p \notin DOMAIN payments => p \notin DOMAIN payments']_vars

=============================================================================
