--------------------------- MODULE ProjectsProofs ---------------------------
(***************************************************************************)
(* Proofs about Projects, for every pipeline, every set of payments,       *)
(* files, totals and currencies.  The money is sums over the payments: a   *)
(* sum is a recursive function, and that it exists, is a natural number    *)
(* and does not depend on the order of its terms is proved first, with     *)
(* least sets and least numbers in the place of induction.                 *)
(***************************************************************************)
EXTENDS Projects, FiniteSetTheorems, WellFoundedInduction, TLAPS

IInv == TypeOK /\ StageWasEarned /\ SignedEstimateStays /\ FileUsedOnce

LEMMA InitIInv == Init => IInv
<1> SUFFICES ASSUME Init PROVE IInv OBVIOUS
<1>1. DOMAIN contracts = {} /\ DOMAIN payments = {} BY DEF Init
<1>2. TypeOK
  BY <1>1, PipelineAssumption DEF Init, TypeOK, AllStages, Held
<1>3. StageWasEarned
  BY PipelineAssumption DEF Init, StageWasEarned, Kinds
<1>4. SignedEstimateStays /\ FileUsedOnce
  BY <1>1 DEF SignedEstimateStays, HasMain, HasContract, FileUsedOnce, Holders
<1> QED BY <1>2, <1>3, <1>4 DEF IInv

----------------------------------------------------------------------------
\* A confirmed file is ready, and was nobody's; every other row stays.
LEMMA Confirmed ==
    ASSUME TypeOK, NEW f \in FileOrNone, NEW kind \in FileKinds, Confirm(f, kind)
    PROVE  /\ files' \in [Files -> FileRow \cup {NoRow}]
           /\ \A g \in Files : files[g].state = "ready" => files'[g].state = "ready"
           /\ f # NoFile => f \in Files /\ f \notin Held /\ files'[f].state = "ready"
<1>1. CASE f = NoFile
  BY <1>1 DEF Confirm, TypeOK
<1>2. CASE f # NoFile
  <2>1. f \in Files /\ files[f] \in FileRow \cup {NoRow} BY <1>2 DEF FileOrNone, TypeOK
  <2>2. /\ f \notin Held /\ files[f].kind = kind
        /\ files' = [files EXCEPT ![f].state = "ready"]
    BY <1>2 DEF Confirm
  <2>3. files[f] \in FileRow BY <2>1, <2>2 DEF NoRow, FileKinds
  <2>4. files'[f] \in FileRow /\ files'[f].state = "ready"
    BY <2>1, <2>2, <2>3 DEF FileRow, TypeOK
  <2>5. files' \in [Files -> FileRow \cup {NoRow}]
    BY <2>1, <2>2, <2>4 DEF TypeOK
  <2>6. \A g \in Files : g # f => files'[g] = files[g] BY <2>1, <2>2 DEF TypeOK
  <2> QED BY <2>1, <2>2, <2>4, <2>5, <2>6
<1> QED BY <1>1, <1>2

\* Who holds a file after record r was written with file f, or kept its own.
LEMMA HeldAfter ==
    ASSUME TypeOK, FileUsedOnce, NEW f \in FileOrNone, NEW r,
           f # NoFile => f \notin Held,
           \A g \in Files : Holders(g)' \subseteq
             Holders(g) \cup (IF g = f THEN {r} ELSE {})
    PROVE  FileUsedOnce'
<1> SUFFICES ASSUME NEW g \in Files, NEW a \in Holders(g)', NEW b \in Holders(g)'
             PROVE  a = b
  BY DEF FileUsedOnce
<1>1. CASE g = f
  <2>1. g \notin Held BY <1>1, NoFileAssumption
  <2>2. Holders(g) = {} BY <2>1 DEF Holders, Held
  <2> QED BY <1>1, <2>2
<1>2. CASE g # f
  BY <1>2 DEF FileUsedOnce
<1> QED BY <1>1, <1>2

----------------------------------------------------------------------------
\* Steps that leave the contracts and payments alone.
LEMMA StageSteps ==
    ASSUME IInv,
           \/ \E s \in Stages : ChangeStatus(s)
           \/ \E withVisits \in BOOLEAN : Cancel(withVisits)
           \/ Restore \/ VisitsMove
           \/ \E e \in Estimates : UpdateEstimate(e)
           \/ FileStep
    PROVE  IInv'
<1> USE DEF IInv
<1>1. UNCHANGED <<contracts, payments, keys, timeline>>
  BY DEF ChangeStatus, Cancel, Restore, VisitsMove, UpdateEstimate, FileStep, Upload,
         CreateFileUpload, books, stage
<1>2. Held' = Held /\ HasMain' = HasMain /\ \A f \in Files : Holders(f)' = Holders(f)
  BY <1>1 DEF Held, HasMain, HasContract, Holders
<1>3. FileUsedOnce' BY <1>2 DEF FileUsedOnce
<1>4. /\ files' \in [Files -> FileRow \cup {NoRow}]
      /\ \A g \in Files : files[g].state = "ready" => files'[g].state = "ready"
  <2>1. CASE FileStep
    <3> PICK f \in Files : Upload(f) \/ \E kind \in FileKinds : CreateFileUpload(f, kind)
      BY <2>1 DEF FileStep
    <3>1. CASE Upload(f)
      <4>1. files[f] \in FileRow BY <3>1 DEF Upload, TypeOK, NoRow
      <4> QED BY <3>1, <4>1 DEF Upload, TypeOK, FileRow
    <3>2. CASE \E kind \in FileKinds : CreateFileUpload(f, kind)
      BY <3>2 DEF CreateFileUpload, TypeOK, FileRow, NoRow
    <3> QED BY <3>1, <3>2
  <2>2. CASE UNCHANGED files BY <2>2 DEF TypeOK
  <2> QED
    BY <2>1, <2>2 DEF ChangeStatus, Cancel, Restore, VisitsMove, UpdateEstimate
<1>5. /\ status' \in AllStages /\ cancelled' \in BOOLEAN /\ visits' \in BOOLEAN
      /\ estimate' \in Estimates
  BY DEF ChangeStatus, Cancel, Restore, VisitsMove, UpdateEstimate, FileStep, Upload,
         CreateFileUpload, books, stage, TypeOK, AllStages
<1>6. \A f \in Held \ {NoFile} : f \in Files
  BY DEF Held, TypeOK, Contract, Payment, FileOrNone
<1>7. TypeOK' BY <1>1, <1>2, <1>4, <1>5, <1>6 DEF TypeOK
<1>8. StageWasEarned'
  <2>1. status' = status \/ status' \in Stages
    BY DEF ChangeStatus, Cancel, Restore, VisitsMove, UpdateEstimate, FileStep, Upload,
           CreateFileUpload, stage
  <2> QED BY <1>1, <2>1, PipelineAssumption DEF StageWasEarned
<1>9. SignedEstimateStays'
  <2>1. estimate' = estimate \/ ~HasMain
    BY DEF ChangeStatus, Cancel, Restore, VisitsMove, UpdateEstimate, FileStep, Upload,
           CreateFileUpload, books
  <2> QED BY <1>1, <1>2, <2>1 DEF SignedEstimateStays
<1> QED BY <1>3, <1>7, <1>8, <1>9

----------------------------------------------------------------------------
LEMMA AddContractStep ==
    ASSUME IInv, NEW k \in Kinds, NEW total \in Totals, NEW currency \in Currencies,
           NEW f \in FileOrNone, AddContract(k, total, currency, f)
    PROVE  IInv'
<1> USE DEF IInv
<1> DEFINE c == [total |-> total, currency |-> currency, file |-> f]
           next == [x \in DOMAIN contracts \cup {k} |-> IF x = k THEN c ELSE contracts[x]]
<1>1. /\ Confirm(f, "contract") /\ contracts' = next /\ k \notin DOMAIN contracts
      /\ status' = StatusAfterContract(k)
      /\ timeline' = [added |-> timeline.added \cup {k},
                      signed |-> IF k = "main" THEN estimate ELSE timeline.signed]
      /\ UNCHANGED <<cancelled, visits, payments, keys, estimate>>
  BY DEF AddContract, HasContract
<1>2. /\ files' \in [Files -> FileRow \cup {NoRow}]
      /\ \A g \in Files : files[g].state = "ready" => files'[g].state = "ready"
      /\ f # NoFile => f \in Files /\ f \notin Held /\ files'[f].state = "ready"
  BY <1>1, Confirmed DEF FileKinds
<1>3. c \in Contract BY DEF Contract
<1>4. \A x \in DOMAIN contracts' : contracts'[x] = IF x = k THEN c ELSE contracts[x]
  BY <1>1
<1>5. DOMAIN contracts' = DOMAIN contracts \cup {k} BY <1>1
<1>6. Held' \subseteq Held \cup {f}
  BY <1>1, <1>4, <1>5 DEF Held
<1>7. \A h \in Held \ {NoFile} : h \in Files
  BY DEF Held, TypeOK, Contract, Payment, FileOrNone
<1>8. \A h \in Held' \ {NoFile} : files'[h].state = "ready"
  BY <1>2, <1>6, <1>7 DEF TypeOK
<1>9. status' \in AllStages
  BY <1>1 DEF StatusAfterContract, AllStages, TypeOK
<1>10. timeline' \in [added : SUBSET Kinds, signed : Estimates]
  BY <1>1 DEF TypeOK
<1>11. TypeOK'
  BY <1>1, <1>2, <1>3, <1>4, <1>5, <1>8, <1>9, <1>10 DEF TypeOK
<1>12. StageWasEarned'
  <2>1. timeline'.added = timeline.added \cup {k} BY <1>1
  <2>2. status' = status \/ status' = ContractStage[k] BY <1>1 DEF StatusAfterContract
  <2>3. \A x \in Kinds : ContractStage[x] = ContractStage[k] => x = k
    BY PipelineAssumption DEF Kinds
  <2> QED BY <2>1, <2>2, <2>3 DEF StageWasEarned
<1>13. SignedEstimateStays'
  BY <1>1, <1>5 DEF SignedEstimateStays, HasMain, HasContract
<1>14. FileUsedOnce'
  <2>1. \A g \in Files : Holders(g)' \subseteq
          Holders(g) \cup (IF g = f THEN {<<"contract", k>>} ELSE {})
    BY <1>1, <1>4, <1>5 DEF Holders
  <2> QED BY <1>2, <2>1, HeldAfter
<1> QED BY <1>11, <1>12, <1>13, <1>14

LEMMA EditContractStep ==
    ASSUME IInv, NEW k \in Kinds, NEW total \in Totals, NEW currency \in Currencies,
           NEW f \in FileOrNone, EditContract(k, total, currency, f)
    PROVE  IInv'
<1> USE DEF IInv
<1> DEFINE c == [total |-> total, currency |-> currency,
                 file |-> IF f = NoFile THEN contracts[k].file ELSE f]
<1>1. /\ Confirm(f, "contract") /\ contracts' = [contracts EXCEPT ![k] = c]
      /\ k \in DOMAIN contracts /\ UNCHANGED <<stage, payments, keys, estimate, timeline>>
  BY DEF EditContract, HasContract
<1>2. /\ files' \in [Files -> FileRow \cup {NoRow}]
      /\ \A g \in Files : files[g].state = "ready" => files'[g].state = "ready"
      /\ f # NoFile => f \in Files /\ f \notin Held /\ files'[f].state = "ready"
  BY <1>1, Confirmed DEF FileKinds
<1>3. c \in Contract BY <1>1 DEF Contract, TypeOK
<1>4. /\ DOMAIN contracts' = DOMAIN contracts
      /\ \A x \in DOMAIN contracts : contracts'[x] = IF x = k THEN c ELSE contracts[x]
  BY <1>1
<1>5. Held' \subseteq Held \cup {f}
  BY <1>1, <1>4 DEF Held
<1>6. \A h \in Held \ {NoFile} : h \in Files
  BY DEF Held, TypeOK, Contract, Payment, FileOrNone
<1>7. \A h \in Held' \ {NoFile} : files'[h].state = "ready"
  BY <1>2, <1>5, <1>6 DEF TypeOK
<1>8. TypeOK'
  BY <1>1, <1>2, <1>3, <1>4, <1>7 DEF TypeOK, stage
<1>9. StageWasEarned' /\ SignedEstimateStays'
  BY <1>1, <1>4 DEF StageWasEarned, SignedEstimateStays, HasMain, HasContract, stage
<1>10. FileUsedOnce'
  <2>1. \A g \in Files : Holders(g)' \subseteq
          Holders(g) \cup (IF g = f THEN {<<"contract", k>>} ELSE {})
    BY <1>1, <1>4, NoFileAssumption DEF Holders
  <2> QED BY <1>2, <2>1, HeldAfter
<1> QED BY <1>8, <1>9, <1>10

LEMMA DeleteContractStep ==
    ASSUME IInv, NEW k \in Kinds, DeleteContract(k)
    PROVE  IInv'
<1> USE DEF IInv
<1>1. /\ DOMAIN contracts' = DOMAIN contracts \ {k}
      /\ \A x \in DOMAIN contracts' : contracts'[x] = contracts[x]
      /\ \A p \in DOMAIN payments : payments[p].kind # k
      /\ UNCHANGED <<stage, payments, keys, estimate, files, timeline>>
  BY DEF DeleteContract, Restrict
<1>2. Held' \subseteq Held BY <1>1 DEF Held
<1>3. TypeOK' BY <1>1, <1>2 DEF TypeOK, stage
<1>4. StageWasEarned' /\ SignedEstimateStays'
  BY <1>1 DEF StageWasEarned, SignedEstimateStays, HasMain, HasContract, stage
<1>5. \A g \in Files : Holders(g)' \subseteq Holders(g) BY <1>1 DEF Holders
<1>6. FileUsedOnce' BY <1>5 DEF FileUsedOnce
<1> QED BY <1>3, <1>4, <1>6

----------------------------------------------------------------------------
LEMMA AddPaymentStep ==
    ASSUME IInv, NEW p \in Keys, NEW k \in Kinds, NEW amount \in Amounts,
           NEW f \in FileOrNone, AddPayment(p, k, amount, f)
    PROVE  IInv'
<1> USE DEF IInv
<1> DEFINE r == [kind |-> k, amount |-> amount, file |-> f,
                 recordedIn |-> contracts[k].currency]
<1>1. /\ Confirm(f, "receipt") /\ p \notin keys /\ k \in DOMAIN contracts
      /\ keys' = keys \cup {p}
      /\ payments' = [x \in DOMAIN payments \cup {p} |-> IF x # p THEN payments[x] ELSE r]
      /\ UNCHANGED <<stage, contracts, estimate, timeline>>
  BY DEF AddPayment, HasContract
<1>2. /\ files' \in [Files -> FileRow \cup {NoRow}]
      /\ \A g \in Files : files[g].state = "ready" => files'[g].state = "ready"
      /\ f # NoFile => f \in Files /\ f \notin Held /\ files'[f].state = "ready"
  BY <1>1, Confirmed DEF FileKinds
<1>3. r \in Payment BY <1>1 DEF Payment, Contract, TypeOK
<1>4. /\ DOMAIN payments' = DOMAIN payments \cup {p}
      /\ \A x \in DOMAIN payments' : payments'[x] = IF x # p THEN payments[x] ELSE r
  BY <1>1
<1>5. Held' \subseteq Held \cup {f}
  BY <1>1, <1>4 DEF Held
<1>6. \A h \in Held \ {NoFile} : h \in Files
  BY DEF Held, TypeOK, Contract, Payment, FileOrNone
<1>7. \A h \in Held' \ {NoFile} : files'[h].state = "ready"
  BY <1>2, <1>5, <1>6 DEF TypeOK
<1>8. TypeOK'
  BY <1>1, <1>2, <1>3, <1>4, <1>7 DEF TypeOK, stage
<1>9. StageWasEarned' /\ SignedEstimateStays'
  BY <1>1 DEF StageWasEarned, SignedEstimateStays, HasMain, HasContract, stage
<1>10. FileUsedOnce'
  <2>1. \A g \in Files : Holders(g)' \subseteq
          Holders(g) \cup (IF g = f THEN {<<"receipt", p>>} ELSE {})
    BY <1>1, <1>4 DEF Holders
  <2> QED BY <1>2, <2>1, HeldAfter
<1> QED BY <1>8, <1>9, <1>10

LEMMA EditPaymentStep ==
    ASSUME IInv, NEW p \in Keys, NEW amount \in Amounts, NEW f \in FileOrNone,
           EditPayment(p, amount, f)
    PROVE  IInv'
<1> USE DEF IInv
<1> DEFINE r == [kind |-> payments[p].kind, amount |-> amount,
                 recordedIn |-> contracts[payments[p].kind].currency,
                 file |-> IF f = NoFile THEN payments[p].file ELSE f]
<1>1. /\ Confirm(f, "receipt") /\ p \in DOMAIN payments
      /\ payments' = [payments EXCEPT ![p] = r]
      /\ UNCHANGED <<stage, contracts, keys, estimate, timeline>>
  BY DEF EditPayment
<1>2. /\ files' \in [Files -> FileRow \cup {NoRow}]
      /\ \A g \in Files : files[g].state = "ready" => files'[g].state = "ready"
      /\ f # NoFile => f \in Files /\ f \notin Held /\ files'[f].state = "ready"
  BY <1>1, Confirmed DEF FileKinds
<1>3. r \in Payment /\ r.kind \in DOMAIN contracts
  BY <1>1 DEF Payment, Contract, TypeOK
<1>4. /\ DOMAIN payments' = DOMAIN payments
      /\ \A x \in DOMAIN payments : payments'[x] = IF x = p THEN r ELSE payments[x]
  BY <1>1
<1>5. Held' \subseteq Held \cup {f}
  BY <1>1, <1>4 DEF Held
<1>6. \A h \in Held \ {NoFile} : h \in Files
  BY DEF Held, TypeOK, Contract, Payment, FileOrNone
<1>7. \A h \in Held' \ {NoFile} : files'[h].state = "ready"
  BY <1>2, <1>5, <1>6 DEF TypeOK
<1>8. TypeOK'
  BY <1>1, <1>2, <1>3, <1>4, <1>7 DEF TypeOK, stage
<1>9. StageWasEarned' /\ SignedEstimateStays'
  BY <1>1 DEF StageWasEarned, SignedEstimateStays, HasMain, HasContract, stage
<1>10. FileUsedOnce'
  <2>1. \A g \in Files : Holders(g)' \subseteq
          Holders(g) \cup (IF g = f THEN {<<"receipt", p>>} ELSE {})
    BY <1>1, <1>4, NoFileAssumption DEF Holders
  <2> QED BY <1>2, <2>1, HeldAfter
<1> QED BY <1>8, <1>9, <1>10

LEMMA DeletePaymentStep ==
    ASSUME IInv, NEW p \in Keys, DeletePayment(p)
    PROVE  IInv'
<1> USE DEF IInv
<1>1. /\ DOMAIN payments' = DOMAIN payments \ {p}
      /\ \A x \in DOMAIN payments' : payments'[x] = payments[x]
      /\ UNCHANGED <<stage, contracts, keys, estimate, files, timeline>>
  BY DEF DeletePayment, Restrict
<1>2. Held' \subseteq Held BY <1>1 DEF Held
<1>3. TypeOK' BY <1>1, <1>2 DEF TypeOK, stage
<1>4. StageWasEarned' /\ SignedEstimateStays'
  BY <1>1 DEF StageWasEarned, SignedEstimateStays, HasMain, HasContract, stage
<1>5. \A g \in Files : Holders(g)' \subseteq Holders(g) BY <1>1 DEF Holders
<1>6. FileUsedOnce' BY <1>5 DEF FileUsedOnce
<1> QED BY <1>3, <1>4, <1>6

----------------------------------------------------------------------------
LEMMA NextIInv == IInv /\ [Next]_vars => IInv'
<1> SUFFICES ASSUME IInv, [Next]_vars PROVE IInv' OBVIOUS
<1>1. CASE UNCHANGED vars
  BY <1>1 DEF IInv, vars, TypeOK, StageWasEarned, SignedEstimateStays, FileUsedOnce,
              Holders, Held, HasMain, HasContract
<1>2. CASE ContractStep
  BY <1>2, AddContractStep, EditContractStep, DeleteContractStep DEF ContractStep
<1>3. CASE PaymentStep
  BY <1>3, AddPaymentStep, EditPaymentStep, DeletePaymentStep DEF PaymentStep
<1> QED BY <1>1, <1>2, <1>3, StageSteps DEF Next

THEOREM Invariance == Spec => []IInv
BY InitIInv, NextIInv, PTL DEF Spec

\* Types, and: no payment is left without its contract, no file is held before it
\* was confirmed.
THEOREM TypeCorrect == Spec => []TypeOK
<1>1. IInv => TypeOK BY DEF IInv
<1> QED BY <1>1, Invariance, PTL

\* A project stands at a contract stage, cancelled or restored, only if a contract
\* of that kind was once added.
THEOREM ContractStagesAreEarned == Spec => []StageWasEarned
<1>1. IInv => StageWasEarned BY DEF IInv
<1> QED BY <1>1, Invariance, PTL

\* The estimate stays what it was when the standing main contract was added.
THEOREM EstimateIsLocked == Spec => []SignedEstimateStays
<1>1. IInv => SignedEstimateStays BY DEF IInv
<1> QED BY <1>1, Invariance, PTL

\* No two contracts and payments share a file.
THEOREM FilesAreNotShared == Spec => []FileUsedOnce
<1>1. IInv => FileUsedOnce BY DEF IInv
<1> QED BY <1>1, Invariance, PTL

\* A retry never brings a deleted payment back.
THEOREM RetriesAreReplayed == Spec => DeletedPaymentStays
<1> DEFINE Gone == \A p \in keys : p \notin DOMAIN payments => p \notin DOMAIN payments'
<1>1. ASSUME NEW p \in keys, p \notin DOMAIN payments, Next
      PROVE  p \notin DOMAIN payments'
  <2>1. CASE PaymentStep
    BY <1>1, <2>1 DEF PaymentStep, AddPayment, EditPayment, DeletePayment, Restrict
  <2>2. PaymentStep \/ UNCHANGED payments
    <3>1. ASSUME NEW k \in Kinds, NEW total, NEW currency, NEW f,
                 \/ DeleteContract(k) \/ AddContract(k, total, currency, f)
                 \/ EditContract(k, total, currency, f)
          PROVE  UNCHANGED payments
      BY <3>1, Zenon DEF AddContract, EditContract, DeleteContract
    <3>2. FileStep => UNCHANGED payments
      BY DEF FileStep, Upload, CreateFileUpload, books
    <3>3. ASSUME NEW e \in Estimates, UpdateEstimate(e) PROVE UNCHANGED payments
      BY <3>3 DEF UpdateEstimate
    <3>4. ASSUME NEW s \in Stages, ChangeStatus(s) PROVE UNCHANGED payments
      BY <3>4 DEF ChangeStatus, books
    <3>5. ASSUME NEW v \in BOOLEAN, Cancel(v) PROVE UNCHANGED payments
      BY <3>5 DEF Cancel, books
    <3>6. Restore \/ VisitsMove => UNCHANGED payments
      BY DEF Restore, VisitsMove, books
    <3> QED BY <1>1, <3>1, <3>2, <3>3, <3>4, <3>5, <3>6 DEF Next, ContractStep
  <2>3. CASE UNCHANGED payments BY <1>1, <2>3
  <2> QED BY <2>1, <2>2, <2>3
<1>2. Next => Gone BY <1>1
<1> HIDE DEF Gone
<1>3. [Next]_vars => [Gone]_vars BY <1>2
<1>4. [][Next]_vars => [][Gone]_vars BY <1>3, PTL
<1> QED BY <1>4 DEF Spec, DeletedPaymentStays, Gone

----------------------------------------------------------------------------
(* Sums over finite sets.  MapThenSumSet is a recursive function; that there is *)
(* one, and what it returns, follows from well-foundedness alone.               *)

Chosen(s) == CHOOSE x \in s : TRUE

\* f sums the amounts of ps over every set of D, in the order MapThenSumSet takes.
IsSum(f, ps, D) ==
    f = [s \in D |-> IF s = {} THEN 0 ELSE ps[Chosen(s)].amount + f[s \ {Chosen(s)}]]

Small(S, n) == {s \in SUBSET S : Cardinality(s) <= n}

\* There is a sum over the sets of n elements, for every n: from one over the sets
\* of n - 1 elements the next is built, and a least n without one leaves no room.
LEMMA SumsExist ==
    ASSUME NEW ps, NEW S, IsFiniteSet(S)
    PROVE  \A n \in Nat : \E f : IsSum(f, ps, Small(S, n))
<1> DEFINE Without == {n \in Nat : ~\E f : IsSum(f, ps, Small(S, n))}
<1> SUFFICES ASSUME Without # {} PROVE FALSE OBVIOUS
<1>1. PICK n \in Without : \A m \in Without : ~(<<m, n>> \in OpToRel(<, Nat))
  BY NatLessThanWellFounded, WFMin
<1>2. n \in Nat /\ \A m \in Nat : m < n => \E f : IsSum(f, ps, Small(S, m))
  BY <1>1 DEF OpToRel
<1>3. \A s \in SUBSET S : IsFiniteSet(s) /\ Cardinality(s) \in Nat
  BY FS_Subset, FS_CardinalityType
<1>4. CASE n = 0
  <2> DEFINE f == [s \in Small(S, n) |-> 0]
  <2>1. \A s \in Small(S, n) : s = {} BY <1>3, <1>4, FS_EmptySet DEF Small
  <2>2. IsSum(f, ps, Small(S, n)) BY <2>1 DEF IsSum
  <2> QED BY <1>1, <2>2
<1>5. CASE n # 0
  <2>1. n - 1 \in Nat /\ n - 1 < n BY <1>2, <1>5
  <2>2. PICK f : IsSum(f, ps, Small(S, n - 1)) BY <1>2, <2>1
  <2> DEFINE g == [s \in Small(S, n) |->
                     IF s = {} THEN 0 ELSE ps[Chosen(s)].amount + f[s \ {Chosen(s)}]]
  <2>3. ASSUME NEW s \in Small(S, n), s # {}
        PROVE  g[s \ {Chosen(s)}] = f[s \ {Chosen(s)}]
    <3> DEFINE t == s \ {Chosen(s)}
    <3>1. Chosen(s) \in s BY <2>3 DEF Chosen
    <3>2. Cardinality(t) = Cardinality(s) - 1 BY <1>3, <3>1, FS_RemoveElement DEF Small
    <3>3. t \in SUBSET S /\ Cardinality(t) \in Nat /\ Cardinality(s) \in Nat
      BY <1>3 DEF Small
    <3>4. Cardinality(s) <= n BY DEF Small
    <3>5. t \in Small(S, n - 1) /\ t \in Small(S, n)
      BY <1>2, <3>2, <3>3, <3>4 DEF Small
    <3>6. f[t] = IF t = {} THEN 0 ELSE ps[Chosen(t)].amount + f[t \ {Chosen(t)}]
      BY <2>2, <3>5 DEF IsSum
    <3>7. g[t] = IF t = {} THEN 0 ELSE ps[Chosen(t)].amount + f[t \ {Chosen(t)}]
      BY <3>5
    <3> QED BY <3>6, <3>7
  <2>4. IsSum(g, ps, Small(S, n)) BY <2>3 DEF IsSum
  <2> HIDE DEF g
  <2> QED BY <1>1, <2>4
<1> QED BY <1>4, <1>5

Sums(ps, S) == CHOOSE f : IsSum(f, ps, SUBSET S)
Total(ps, S) == Sums(ps, S)[S]

LEMMA SumsAreSums ==
    ASSUME NEW ps, NEW S, IsFiniteSet(S)
    PROVE  IsSum(Sums(ps, S), ps, SUBSET S)
<1>1. Cardinality(S) \in Nat BY FS_CardinalityType
<1>2. \A s \in SUBSET S : Cardinality(s) <= Cardinality(S) BY FS_Subset
<1>3. Small(S, Cardinality(S)) = SUBSET S BY <1>2 DEF Small
<1>4. \E f : IsSum(f, ps, Small(S, Cardinality(S))) BY <1>1, SumsExist
<1> QED BY <1>3, <1>4 DEF Sums

\* What a sum over all subsets comes to, one element at a time.
Unfolds(f, ps, S) ==
    /\ f[{}] = 0
    /\ \A s \in SUBSET S : s # {} =>
         /\ Chosen(s) \in s /\ Chosen(s) \in S
         /\ f[s] = ps[Chosen(s)].amount + f[s \ {Chosen(s)}]

LEMMA SumUnfolds ==
    ASSUME NEW f, NEW ps, NEW S, IsSum(f, ps, SUBSET S)
    PROVE  Unfolds(f, ps, S)
<1>1. ASSUME NEW s \in SUBSET S
      PROVE  f[s] = IF s = {} THEN 0 ELSE ps[Chosen(s)].amount + f[s \ {Chosen(s)}]
  BY DEF IsSum
<1>2. f[{}] = 0 BY <1>1
<1>3. ASSUME NEW s \in SUBSET S, s # {} PROVE Chosen(s) \in s BY <1>3 DEF Chosen
<1>4. ASSUME NEW s \in SUBSET S, s # {}
      PROVE  /\ Chosen(s) \in s /\ Chosen(s) \in S
             /\ f[s] = ps[Chosen(s)].amount + f[s \ {Chosen(s)}]
  BY <1>1, <1>3, <1>4
<1> QED BY <1>2, <1>4 DEF Unfolds

\* Induction over the subsets of a finite set: a family of them has a least one.
LEMMA LeastSet ==
    ASSUME NEW S, IsFiniteSet(S), NEW F \in SUBSET SUBSET S, F # {}
    PROVE  \E s \in F : \A t \in F : ~(t \subseteq s /\ t # s)
<1>1. IsWellFoundedOn(StrictSubsetOrdering(S), SUBSET S)
  BY FS_StrictSubsetOrderingWellFounded, FS_FiniteSubsetsOfFinite
<1>2. PICK s \in F : \A t \in F : ~(<<t, s>> \in StrictSubsetOrdering(S))
  BY <1>1, WFMin
<1>3. ASSUME NEW t \in F, t \subseteq s, t # s PROVE FALSE
  BY <1>2, <1>3 DEF StrictSubsetOrdering
<1> QED BY <1>3

Whole(ps, S) == \A x \in S : ps[x].amount \in Nat
Natural(f, S) == \A s \in SUBSET S : f[s] \in Nat

LEMMA SumsAreNatural ==
    ASSUME NEW f, NEW ps, NEW S, IsFiniteSet(S), IsSum(f, ps, SUBSET S), Whole(ps, S)
    PROVE  Natural(f, S)
<1> DEFINE F == {s \in SUBSET S : f[s] \notin Nat}
<1> SUFFICES ASSUME F # {} PROVE FALSE BY DEF Natural
<1>0. F \in SUBSET SUBSET S /\ \A s \in SUBSET S : s \in F <=> f[s] \notin Nat OBVIOUS
<1> HIDE DEF F
<1>1. PICK s \in F : \A t \in F : ~(t \subseteq s /\ t # s) BY <1>0, LeastSet
<1>2. s \in SUBSET S /\ f[s] \notin Nat BY <1>0
<1>3. Unfolds(f, ps, S) BY SumUnfolds
<1>4. CASE s = {} BY <1>2, <1>3, <1>4 DEF Unfolds
<1>5. CASE s # {}
  <2>1. /\ Chosen(s) \in s /\ Chosen(s) \in S
        /\ f[s] = ps[Chosen(s)].amount + f[s \ {Chosen(s)}]
    BY <1>2, <1>3, <1>5 DEF Unfolds
  <2>2. f[s \ {Chosen(s)}] \in Nat BY <1>0, <1>1, <1>2, <2>1
  <2>3. ps[Chosen(s)].amount \in Nat BY <2>1 DEF Whole
  <2>4. f[s] \in Nat BY <2>1, <2>2, <2>3
  <2> QED BY <1>2, <2>4
<1> QED BY <1>4, <1>5

\* The order does not matter: any element can be the one taken first.
AnyFirst(f, ps, S) == \A s \in SUBSET S : \A x \in s : f[s] = ps[x].amount + f[s \ {x}]

LEMMA SumsAdd ==
    ASSUME NEW f, NEW ps, NEW S, IsFiniteSet(S), IsSum(f, ps, SUBSET S), Whole(ps, S)
    PROVE  AnyFirst(f, ps, S)
<1> DEFINE F == {s \in SUBSET S : ~\A x \in s : f[s] = ps[x].amount + f[s \ {x}]}
<1> SUFFICES ASSUME F # {} PROVE FALSE BY DEF AnyFirst
<1>0. /\ F \in SUBSET SUBSET S
      /\ \A s \in SUBSET S : s \in F <=> ~\A x \in s : f[s] = ps[x].amount + f[s \ {x}]
  OBVIOUS
<1> HIDE DEF F
<1>1. PICK s \in F : \A t \in F : ~(t \subseteq s /\ t # s) BY <1>0, LeastSet
<1>2. PICK x \in s : f[s] # ps[x].amount + f[s \ {x}] BY <1>0, <1>1
<1> DEFINE y == Chosen(s)
<1>3. y \in s /\ y \in S /\ x \in S /\ f[s] = ps[y].amount + f[s \ {y}]
  <2>1. s \in SUBSET S /\ s # {} /\ x \in S BY <1>0, <1>2
  <2>2. Unfolds(f, ps, S) BY SumUnfolds
  <2> QED BY <2>1, <2>2 DEF Unfolds
<1> HIDE DEF y
<1>4. x # y BY <1>2, <1>3
<1>5. f[s \ {y}] = ps[x].amount + f[(s \ {y}) \ {x}]
  <2>1. s \ {y} \notin F /\ s \ {y} \in SUBSET S BY <1>0, <1>1, <1>3
  <2> QED BY <1>0, <1>2, <1>4, <2>1
<1>6. f[s \ {x}] = ps[y].amount + f[(s \ {x}) \ {y}]
  <2>1. s \ {x} \notin F /\ s \ {x} \in SUBSET S BY <1>0, <1>1, <1>2
  <2> QED BY <1>0, <1>3, <1>4, <2>1
<1>7. (s \ {x}) \ {y} = (s \ {y}) \ {x} /\ (s \ {x}) \ {y} \in SUBSET S BY <1>0
<1>8. f[(s \ {x}) \ {y}] \in Nat BY <1>7, SumsAreNatural DEF Natural
<1>9. ps[x].amount \in Nat /\ ps[y].amount \in Nat BY <1>3 DEF Whole
<1>10. /\ f[s] = ps[y].amount + (ps[x].amount + f[(s \ {x}) \ {y}])
       /\ f[s \ {x}] = ps[y].amount + f[(s \ {x}) \ {y}]
  BY <1>3, <1>5, <1>6, <1>7
<1>11. ASSUME NEW a \in Nat, NEW b \in Nat, NEW c \in Nat
       PROVE  a + (b + c) = b + (a + c)
  OBVIOUS
<1>12. f[s] = ps[x].amount + f[s \ {x}] BY <1>8, <1>9, <1>10, <1>11
<1> QED BY <1>2, <1>12

\* Two sums over sets that have the same amounts are equal.
Alike(ps, qs, S) == \A x \in S : ps[x].amount = qs[x].amount
EqualAt(f, g, S) == f[S] = g[S]

LEMMA SumsAgree ==
    ASSUME NEW f, NEW ps, NEW S, IsFiniteSet(S), IsSum(f, ps, SUBSET S),
           NEW g, NEW qs, NEW T, IsSum(g, qs, SUBSET T), T \subseteq S, Alike(ps, qs, T)
    PROVE  EqualAt(f, g, T)
<1> DEFINE F == {s \in SUBSET T : f[s] # g[s]}
<1> SUFFICES ASSUME F # {} PROVE FALSE
  <2>1. T \in SUBSET T OBVIOUS
  <2> QED BY <2>1 DEF EqualAt
<1>0. /\ IsFiniteSet(T) /\ F \in SUBSET SUBSET T
      /\ \A s \in SUBSET T : s \in F <=> f[s] # g[s]
  BY FS_Subset
<1> HIDE DEF F
<1>1. PICK s \in F : \A t \in F : ~(t \subseteq s /\ t # s) BY <1>0, LeastSet
<1>2. s \in SUBSET S /\ s \in SUBSET T /\ f[s] # g[s] BY <1>0
<1>3. Unfolds(f, ps, S) /\ Unfolds(g, qs, T) BY SumUnfolds
<1>4. s # {} BY <1>2, <1>3 DEF Unfolds
<1>5. /\ Chosen(s) \in s /\ Chosen(s) \in T
      /\ f[s] = ps[Chosen(s)].amount + f[s \ {Chosen(s)}]
      /\ g[s] = qs[Chosen(s)].amount + g[s \ {Chosen(s)}]
  BY <1>2, <1>3, <1>4 DEF Unfolds
<1>6. ps[Chosen(s)].amount = qs[Chosen(s)].amount BY <1>5 DEF Alike
<1>7. f[s \ {Chosen(s)}] = g[s \ {Chosen(s)}]
  <2> DEFINE t == s \ {Chosen(s)}
  <2>1. t \notin F /\ t \in SUBSET T BY <1>1, <1>2, <1>5
  <2> QED BY <1>0, <2>1
<1> QED BY <1>2, <1>5, <1>6, <1>7

LEMMA TotalOfNone == ASSUME NEW ps PROVE Total(ps, {}) = 0
<1>1. Unfolds(Sums(ps, {}), ps, {}) BY FS_EmptySet, SumsAreSums, SumUnfolds
<1> QED BY <1>1 DEF Total, Unfolds

LEMMA TotalIsNatural ==
    ASSUME NEW ps, NEW S, IsFiniteSet(S), Whole(ps, S)
    PROVE  Total(ps, S) \in Nat
<1>1. Natural(Sums(ps, S), S) BY SumsAreSums, SumsAreNatural
<1>2. S \in SUBSET S OBVIOUS
<1> QED BY <1>1, <1>2 DEF Total, Natural

LEMMA SameTotal ==
    ASSUME NEW ps, NEW qs, NEW S, IsFiniteSet(S), Alike(ps, qs, S)
    PROVE  Total(ps, S) = Total(qs, S)
<1>1. /\ IsSum(Sums(ps, S), ps, SUBSET S) /\ IsSum(Sums(qs, S), qs, SUBSET S)
      /\ S \subseteq S
  BY SumsAreSums
<1>2. EqualAt(Sums(ps, S), Sums(qs, S), S) BY <1>1, SumsAgree
<1> QED BY <1>2 DEF Total, EqualAt

LEMMA TotalSplits ==
    ASSUME NEW ps, NEW S, IsFiniteSet(S), Whole(ps, S), NEW x \in S
    PROVE  /\ Total(ps, S) = ps[x].amount + Total(ps, S \ {x})
           /\ Total(ps, S \ {x}) \in Nat
<1> DEFINE T == S \ {x}
<1>1. T \subseteq S /\ IsFiniteSet(T) /\ Whole(ps, T) /\ Alike(ps, ps, T)
  BY FS_RemoveElement DEF Whole, Alike
<1> HIDE DEF T
<1>2. IsSum(Sums(ps, S), ps, SUBSET S) /\ IsSum(Sums(ps, T), ps, SUBSET T)
  BY <1>1, SumsAreSums
<1>3. EqualAt(Sums(ps, S), Sums(ps, T), T) BY <1>1, <1>2, SumsAgree
<1>4. AnyFirst(Sums(ps, S), ps, S) BY <1>2, SumsAdd
<1>5. S \in SUBSET S OBVIOUS
<1>6. Sums(ps, S)[S] = ps[x].amount + Sums(ps, S)[T] BY <1>4, <1>5 DEF AnyFirst, T
<1>7. Total(ps, T) \in Nat BY <1>1, TotalIsNatural
<1> QED BY <1>3, <1>6, <1>7 DEF Total, EqualAt, T

\* Paid is the total of the payments it counts.
Counted(ps, k, P) == {p \in DOMAIN ps \ P : ps[p].kind = k}

LEMMA PaidIsTotal ==
    ASSUME NEW ps, NEW k, NEW P
    PROVE  Paid(ps, k, P) = Total(ps, Counted(ps, k, P))
BY DEF Paid, MapThenSumSet, MapThenFoldSet, Sums, Total, Counted, IsSum, Chosen

----------------------------------------------------------------------------
(* Sums of payments before and after a step *)

\* Payments that can be summed.
Summable(ps) == IsFiniteSet(DOMAIN ps) /\ Whole(ps, DOMAIN ps)

LEMMA CountedIsSummable ==
    ASSUME NEW ps, Summable(ps), NEW k, NEW P
    PROVE  /\ IsFiniteSet(Counted(ps, k, P)) /\ Whole(ps, Counted(ps, k, P))
           /\ Paid(ps, k, P) \in Nat
<1>1. Counted(ps, k, P) \subseteq DOMAIN ps BY DEF Counted
<1>2. IsFiniteSet(Counted(ps, k, P)) BY <1>1, FS_Subset DEF Summable
<1>3. Whole(ps, Counted(ps, k, P)) BY <1>1 DEF Summable, Whole
<1>4. Total(ps, Counted(ps, k, P)) \in Nat BY <1>2, <1>3, TotalIsNatural
<1> QED BY <1>2, <1>3, <1>4, PaidIsTotal

\* What one payment adds.
LEMMA PaidWithout ==
    ASSUME NEW ps, Summable(ps), NEW k, NEW p \in DOMAIN ps
    PROVE  Paid(ps, k, {}) = Paid(ps, k, {p}) + (IF ps[p].kind = k THEN ps[p].amount ELSE 0)
<1> DEFINE C == Counted(ps, k, {})
<1>1. IsFiniteSet(C) /\ Whole(ps, C) /\ Paid(ps, k, {}) = Total(ps, C)
  BY CountedIsSummable, PaidIsTotal
<1>2. Paid(ps, k, {p}) = Total(ps, Counted(ps, k, {p})) /\ Paid(ps, k, {p}) \in Nat
  BY CountedIsSummable, PaidIsTotal
<1>3. CASE ps[p].kind = k
  <2>1. p \in C /\ C \ {p} = Counted(ps, k, {p}) BY <1>3 DEF Counted
  <2>2. ps[p].amount \in Nat BY DEF Summable, Whole
  <2> HIDE DEF C
  <2>3. Total(ps, C) = ps[p].amount + Total(ps, C \ {p}) BY <1>1, <2>1, TotalSplits
  <2>4. Paid(ps, k, {}) = ps[p].amount + Paid(ps, k, {p}) BY <1>1, <1>2, <2>1, <2>3
  <2>5. ps[p].amount + Paid(ps, k, {p}) = Paid(ps, k, {p}) + ps[p].amount BY <1>2, <2>2
  <2> QED BY <1>3, <2>4, <2>5
<1>4. CASE ps[p].kind # k
  <2>1. C = Counted(ps, k, {p}) BY <1>4 DEF Counted
  <2> QED BY <1>1, <1>2, <1>4, <2>1
<1> QED BY <1>3, <1>4

\* Only amounts and kinds of what is counted matter.
LEMMA PaidTheSame ==
    ASSUME NEW ps, Summable(ps), NEW qs, NEW k, NEW P, NEW Q,
           DOMAIN ps \ P = DOMAIN qs \ Q,
           \A x \in DOMAIN ps \ P : qs[x] = ps[x]
    PROVE  Paid(qs, k, Q) = Paid(ps, k, P)
<1>1. Counted(qs, k, Q) = Counted(ps, k, P) BY DEF Counted
<1>2. Alike(ps, qs, Counted(ps, k, P)) BY DEF Alike, Counted
<1>3. Total(ps, Counted(ps, k, P)) = Total(qs, Counted(ps, k, P))
  BY <1>2, CountedIsSummable, SameTotal
<1> QED BY <1>1, <1>3, PaidIsTotal

----------------------------------------------------------------------------
(* No contract is overpaid, and the currency stays *)

\* ~Overpaid for intro payments of a and main payments of b.
Within(cs, a, b) ==
    /\ "intro" \in DOMAIN cs => a <= cs["intro"].total
    /\ "main" \in DOMAIN cs => b + (IF SameCurrency(cs) THEN a ELSE 0) <= cs["main"].total
Intro(ps) == Paid(ps, "intro", {})
Main(ps) == Paid(ps, "main", {})

\* The totals of contracts, whatever else they say.
Priced(cs) == DOMAIN cs \subseteq Kinds /\ \A k \in DOMAIN cs : cs[k].total \in Nat

LEMMA WithinIsNotOverpaid ==
    ASSUME NEW cs, Priced(cs), NEW ps, Summable(ps)
    PROVE  ~Overpaid(cs, ps) <=> Within(cs, Intro(ps), Main(ps))
<1>1. Intro(ps) \in Nat /\ Main(ps) \in Nat BY CountedIsSummable DEF Intro, Main
<1>2. "intro" \in DOMAIN cs => cs["intro"].total \in Nat BY DEF Priced
<1>3. "main" \in DOMAIN cs => cs["main"].total \in Nat BY DEF Priced
<1> QED BY <1>1, <1>2, <1>3 DEF Overpaid, Within, Intro, Main

\* A payment up to the maximum keeps every contract within its total.
LEMMA MaximumFits ==
    ASSUME NEW cs, Priced(cs), NEW ps, NEW P, NEW k \in DOMAIN cs,
           NEW a \in Nat, a = Paid(ps, "intro", P), NEW b \in Nat, b = Paid(ps, "main", P),
           Within(cs, a, b), NEW amount \in Nat \ {0}, amount <= MaxPayment(cs, ps, k, P)
    PROVE  /\ k = "intro" => Within(cs, a + amount, b)
           /\ k = "main" => Within(cs, a, b + amount)
<1>1. "intro" \in DOMAIN cs => cs["intro"].total \in Nat BY DEF Priced
<1>2. "main" \in DOMAIN cs => cs["main"].total \in Nat BY DEF Priced
<1>3. SameCurrency(cs) => "intro" \in DOMAIN cs /\ "main" \in DOMAIN cs
  BY DEF SameCurrency, Kinds
<1>4. CASE k = "intro"
  <2>1. amount <= Less(cs["intro"].total, a + 0)
    <3>1. Remaining(cs, ps, "intro", P) = Less(cs["intro"].total, a + 0)
      BY DEF Remaining
    <3>2. CASE SameCurrency(cs)
      <4>1. amount <= AtMost(Remaining(cs, ps, "intro", P),
                             Less(cs["main"].total, b + a))
        BY <1>4, <3>2 DEF MaxPayment
      <4>2. Less(cs["main"].total, b + a) \in Nat /\ Less(cs["intro"].total, a + 0) \in Nat
        BY <1>1, <1>2, <1>3, <3>2 DEF Less
      <4> QED BY <3>1, <4>1, <4>2 DEF AtMost
    <3>3. CASE ~SameCurrency(cs) BY <1>4, <3>1, <3>3 DEF MaxPayment
    <3> QED BY <3>2, <3>3
  <2>2. SameCurrency(cs) => amount <= Less(cs["main"].total, b + a)
    <3> SUFFICES ASSUME SameCurrency(cs) PROVE amount <= Less(cs["main"].total, b + a)
      OBVIOUS
    <3>1. amount <= AtMost(Remaining(cs, ps, "intro", P), Less(cs["main"].total, b + a))
      BY <1>4 DEF MaxPayment
    <3>2. Less(cs["main"].total, b + a) \in Nat BY <1>2, <1>3 DEF Less
    <3>3. Remaining(cs, ps, "intro", P) \in Nat BY <1>1, <1>3 DEF Remaining, Less
    <3> QED BY <3>1, <3>2, <3>3 DEF AtMost
  <2>3. a + amount <= cs["intro"].total BY <1>1, <1>4, <2>1 DEF Less
  <2>4. SameCurrency(cs) => b + (a + amount) <= cs["main"].total
    BY <1>2, <1>3, <2>2 DEF Less
  <2> QED BY <1>2, <1>4, <2>3, <2>4 DEF Within
<1>5. CASE k = "main"
  <2> DEFINE credit == Credited(cs, ps, P)
  <2>1. amount <= Less(cs["main"].total, b + credit)
    BY <1>5 DEF MaxPayment, Remaining
  <2>2. credit = IF SameCurrency(cs) THEN AtMost(a, cs["main"].total) ELSE 0
    BY DEF Credited
  <2>3. credit \in Nat BY <1>2, <1>5, <2>2 DEF AtMost
  <2> HIDE DEF credit
  <2>4. b + credit + amount <= cs["main"].total BY <1>2, <1>5, <2>1, <2>3 DEF Less
  <2>5. SameCurrency(cs) => credit = a
    BY <1>2, <1>5, <2>2, <2>3, <2>4 DEF AtMost
  <2>6. SameCurrency(cs) => b + amount + a <= cs["main"].total
    BY <1>2, <1>5, <2>3, <2>4, <2>5
  <2>7. b + amount <= cs["main"].total BY <1>2, <1>5, <2>3, <2>4
  <2> QED BY <1>1, <1>5, <2>6, <2>7 DEF Within
<1> QED BY <1>4, <1>5

\* Less paid is within what more paid was within.
LEMMA LessIsWithin ==
    ASSUME NEW cs, Priced(cs), NEW a \in Nat, NEW b \in Nat, Within(cs, a, b),
           NEW a2 \in Nat, NEW b2 \in Nat, a2 <= a, b2 <= b
    PROVE  Within(cs, a2, b2)
<1>1. "intro" \in DOMAIN cs => cs["intro"].total \in Nat BY DEF Priced
<1>2. "main" \in DOMAIN cs => cs["main"].total \in Nat BY DEF Priced
<1> QED BY <1>1, <1>2 DEF Within

----------------------------------------------------------------------------
BooksInv ==
    /\ IsFiniteSet(DOMAIN payments)
    /\ Within(contracts, Intro(payments), Main(payments))
    /\ MoneyKeepsItsCurrency

LEMMA TypesForSums ==
    ASSUME TypeOK, IsFiniteSet(DOMAIN payments)
    PROVE  /\ Summable(payments) /\ Priced(contracts)
           /\ \A p \in DOMAIN payments :
                payments[p].amount \in Nat \ {0} /\ payments[p].kind \in Kinds
           /\ Intro(payments) \in Nat /\ Main(payments) \in Nat
<1>1. \A p \in DOMAIN payments :
        payments[p].amount \in Nat \ {0} /\ payments[p].kind \in Kinds
  BY AmountsAssumption DEF TypeOK, Payment
<1>2. Summable(payments) BY <1>1 DEF Summable, Whole
<1>3. Priced(contracts) BY AmountsAssumption DEF TypeOK, Contract, Priced
<1> QED BY <1>1, <1>2, <1>3, CountedIsSummable DEF Intro, Main

LEMMA ContractBooks ==
    ASSUME IInv, BooksInv, ContractStep
    PROVE  BooksInv'
<1>0. /\ Summable(payments) /\ Priced(contracts)
      /\ \A p \in DOMAIN payments :
           payments[p].amount \in Nat \ {0} /\ payments[p].kind \in Kinds
      /\ Intro(payments) \in Nat /\ Main(payments) \in Nat
  BY TypesForSums DEF IInv, BooksInv
<1>1. Priced(contracts')
  <2>1. TypeOK' BY AddContractStep, EditContractStep, DeleteContractStep DEF ContractStep, IInv
  <2> QED BY <2>1, AmountsAssumption DEF TypeOK, Contract, Priced
<1>2. ASSUME NEW k \in Kinds, NEW total \in Totals, NEW currency \in Currencies,
             NEW f \in FileOrNone, AddContract(k, total, currency, f)
      PROVE  BooksInv'
  <2>1. /\ ~Overpaid(contracts', payments) /\ payments' = payments /\ k \notin DOMAIN contracts
        /\ \A x \in DOMAIN contracts : contracts'[x] = contracts[x]
    BY <1>2 DEF AddContract, HasContract
  <2>2. Within(contracts', Intro(payments), Main(payments))
    BY <1>0, <1>1, <2>1, WithinIsNotOverpaid
  <2>3. \A p \in DOMAIN payments : payments[p].kind \in DOMAIN contracts
    BY DEF IInv, TypeOK
  <2>4. MoneyKeepsItsCurrency' BY <2>1, <2>3 DEF BooksInv, MoneyKeepsItsCurrency
  <2> QED BY <2>1, <2>2, <2>4 DEF BooksInv
<1>3. ASSUME NEW k \in Kinds, NEW total \in Totals, NEW currency \in Currencies,
             NEW f \in FileOrNone, EditContract(k, total, currency, f)
      PROVE  BooksInv'
  <2>1. /\ ~Overpaid(contracts', payments) /\ payments' = payments /\ k \in DOMAIN contracts
        /\ \A x \in DOMAIN contracts : x # k => contracts'[x] = contracts[x]
        /\ contracts'[k].currency = currency
        /\ currency = contracts[k].currency \/ Paid(payments, k, {}) = 0
    BY <1>3 DEF EditContract, HasContract
  <2>2. Within(contracts', Intro(payments), Main(payments))
    BY <1>0, <1>1, <2>1, WithinIsNotOverpaid
  <2>3. ASSUME NEW p \in DOMAIN payments
        PROVE  payments[p].recordedIn = contracts'[payments[p].kind].currency
    <3>1. /\ payments[p].kind \in DOMAIN contracts
          /\ payments[p].recordedIn = contracts[payments[p].kind].currency
      BY DEF IInv, TypeOK, BooksInv, MoneyKeepsItsCurrency
    <3>2. CASE payments[p].kind = k /\ Paid(payments, k, {}) = 0
      <4>1. Paid(payments, k, {}) = Paid(payments, k, {p}) + payments[p].amount
        BY <1>0, <3>2, PaidWithout
      <4>2. Paid(payments, k, {p}) \in Nat BY <1>0, CountedIsSummable
      <4>3. payments[p].amount \in Nat \ {0} BY <1>0
      <4> QED BY <3>2, <4>1, <4>2, <4>3
    <3> QED BY <2>1, <3>1, <3>2
  <2>4. MoneyKeepsItsCurrency' BY <2>1, <2>3 DEF MoneyKeepsItsCurrency
  <2> QED BY <2>1, <2>2, <2>4 DEF BooksInv
<1>4. ASSUME NEW k \in Kinds, DeleteContract(k) PROVE BooksInv'
  <2>1. /\ DOMAIN contracts' = DOMAIN contracts \ {k}
        /\ \A x \in DOMAIN contracts' : contracts'[x] = contracts[x]
        /\ \A p \in DOMAIN payments : payments[p].kind # k
        /\ payments' = payments
    BY <1>4 DEF DeleteContract, Restrict
  <2>2. ~SameCurrency(contracts') BY <2>1 DEF SameCurrency
  <2>3. /\ "intro" \in DOMAIN contracts => contracts["intro"].total \in Nat
        /\ "main" \in DOMAIN contracts => contracts["main"].total \in Nat
    BY <1>0 DEF Priced
  <2>4. Within(contracts', Intro(payments), Main(payments))
    BY <1>0, <2>1, <2>2, <2>3 DEF BooksInv, Within
  <2>5. \A p \in DOMAIN payments : payments[p].kind \in DOMAIN contracts'
    BY <2>1 DEF IInv, TypeOK
  <2>6. MoneyKeepsItsCurrency' BY <2>1, <2>5 DEF BooksInv, MoneyKeepsItsCurrency
  <2> QED BY <2>1, <2>4, <2>6 DEF BooksInv
<1> QED BY <1>2, <1>3, <1>4 DEF ContractStep

\* Payment p is recorded or changed to amount, up to the maximum without it, and
\* the others stay.
LEMMA PaymentFits ==
    ASSUME IInv, BooksInv, NEW p, NEW k \in DOMAIN contracts, NEW amount \in Nat \ {0},
           UNCHANGED contracts, NEW P, DOMAIN payments \ P = DOMAIN payments' \ {p},
           \A x \in DOMAIN payments \ P : payments'[x] = payments[x],
           \A x \in Kinds : Paid(payments, x, P) <= Paid(payments, x, {}),
           p \in DOMAIN payments', payments'[p].kind = k, payments'[p].amount = amount,
           IsFiniteSet(DOMAIN payments'),
           amount <= MaxPayment(contracts, payments, k, P)
    PROVE  Within(contracts', Intro(payments'), Main(payments'))
<1> DEFINE a == Paid(payments, "intro", P) b == Paid(payments, "main", P)
<1>1. /\ Summable(payments) /\ Priced(contracts) /\ Intro(payments) \in Nat
      /\ Main(payments) \in Nat
      /\ \A q \in DOMAIN payments : payments[q].amount \in Nat \ {0}
  BY TypesForSums DEF IInv, BooksInv
<1>2. a \in Nat /\ b \in Nat BY <1>1, CountedIsSummable
<1>3. a <= Intro(payments) /\ b <= Main(payments) BY DEF Intro, Main, Kinds
<1>4. Within(contracts, a, b)
  <2> HIDE DEF a, b
  <2> QED BY <1>1, <1>2, <1>3, LessIsWithin DEF BooksInv
<1>5. Summable(payments')
  <2>1. \A q \in DOMAIN payments' : q = p \/ q \in DOMAIN payments \ P OBVIOUS
  <2>2. \A q \in DOMAIN payments' : payments'[q].amount \in Nat BY <1>1, <2>1
  <2> QED BY <2>2 DEF Summable, Whole
<1>6. /\ Paid(payments', "intro", {p}) = a /\ Paid(payments', "main", {p}) = b
  BY <1>1, PaidTheSame
<1>7. /\ Intro(payments') = a + (IF k = "intro" THEN amount ELSE 0)
      /\ Main(payments') = b + (IF k = "main" THEN amount ELSE 0)
  BY <1>5, <1>6, PaidWithout DEF Intro, Main
<1>8. k = "intro" \/ k = "main" BY <1>1 DEF Priced, Kinds
<1>9. /\ k = "intro" => Within(contracts, a + amount, b)
      /\ k = "main" => Within(contracts, a, b + amount)
  BY <1>1, <1>2, <1>4, MaximumFits
<1>10. contracts' = contracts OBVIOUS
<1> HIDE DEF a, b
<1> QED BY <1>2, <1>7, <1>8, <1>9, <1>10

LEMMA PaymentBooks ==
    ASSUME IInv, BooksInv, PaymentStep
    PROVE  BooksInv'
<1>0. /\ Summable(payments) /\ Priced(contracts) /\ IsFiniteSet(DOMAIN payments)
      /\ \A p \in DOMAIN payments :
           payments[p].amount \in Nat \ {0} /\ payments[p].kind \in Kinds
      /\ Intro(payments) \in Nat /\ Main(payments) \in Nat
  BY TypesForSums DEF IInv, BooksInv
<1>1. ASSUME NEW p \in Keys, NEW k \in Kinds, NEW amount \in Amounts, NEW f \in FileOrNone,
             AddPayment(p, k, amount, f)
      PROVE  BooksInv'
  <2>1. /\ p \notin DOMAIN payments /\ k \in DOMAIN contracts /\ contracts' = contracts
        /\ amount <= MaxPayment(contracts, payments, k, {})
        /\ DOMAIN payments' = DOMAIN payments \cup {p}
        /\ \A x \in DOMAIN payments : payments'[x] = payments[x]
        /\ payments'[p].kind = k /\ payments'[p].amount = amount
        /\ payments'[p].recordedIn = contracts[k].currency
    BY <1>1 DEF AddPayment, HasContract, IInv, TypeOK
  <2>2. IsFiniteSet(DOMAIN payments') BY <1>0, <2>1, FS_AddElement
  <2>3. amount \in Nat \ {0} BY AmountsAssumption
  <2>4. \A x \in Kinds : Paid(payments, x, {}) \in Nat BY <1>0, CountedIsSummable
  <2>5. \A x \in Kinds : Paid(payments, x, {}) <= Paid(payments, x, {}) BY <2>4
  <2>6. DOMAIN payments \ {} = DOMAIN payments' \ {p} BY <2>1
  <2>7. \A x \in DOMAIN payments \ {} : payments'[x] = payments[x] BY <2>1
  <2>8. Within(contracts', Intro(payments'), Main(payments'))
    BY <2>1, <2>2, <2>3, <2>5, <2>6, <2>7, PaymentFits
  <2>9. MoneyKeepsItsCurrency' BY <2>1 DEF BooksInv, MoneyKeepsItsCurrency
  <2> QED BY <2>2, <2>8, <2>9 DEF BooksInv
<1>2. ASSUME NEW p \in Keys, NEW amount \in Amounts, NEW f \in FileOrNone,
             EditPayment(p, amount, f)
      PROVE  BooksInv'
  <2> DEFINE k == payments[p].kind
  <2>1. /\ p \in DOMAIN payments /\ contracts' = contracts
        /\ \/ amount = payments[p].amount
           \/ amount <= MaxPayment(contracts, payments, k, {p})
        /\ DOMAIN payments' = DOMAIN payments
        /\ \A x \in DOMAIN payments : x # p => payments'[x] = payments[x]
        /\ payments'[p].kind = k /\ payments'[p].amount = amount
        /\ payments'[p].recordedIn = contracts[k].currency
    BY <1>2 DEF EditPayment
  <2>2. k \in DOMAIN contracts BY <2>1 DEF IInv, TypeOK
  <2>3. amount \in Nat \ {0} BY AmountsAssumption
  <2>4. \A x \in Kinds : Paid(payments, x, {p}) \in Nat /\ Paid(payments, x, {}) \in Nat
    BY <1>0, CountedIsSummable
  <2>5. \A x \in Kinds : Paid(payments, x, {p}) <= Paid(payments, x, {})
    <3>1. ASSUME NEW x \in Kinds PROVE Paid(payments, x, {p}) <= Paid(payments, x, {})
      <4>1. Paid(payments, x, {}) = Paid(payments, x, {p})
              + (IF payments[p].kind = x THEN payments[p].amount ELSE 0)
        BY <1>0, <2>1, PaidWithout
      <4> QED BY <1>0, <2>1, <2>4, <4>1
    <3> QED BY <3>1
  <2>6. /\ DOMAIN payments \ {p} = DOMAIN payments' \ {p}
        /\ \A x \in DOMAIN payments \ {p} : payments'[x] = payments[x]
    BY <2>1
  <2> HIDE DEF k
  <2>7. ASSUME amount <= MaxPayment(contracts, payments, k, {p})
        PROVE  Within(contracts', Intro(payments'), Main(payments'))
    <3>1. p \in DOMAIN payments' /\ IsFiniteSet(DOMAIN payments') BY <1>0, <2>1
    <3> QED BY <2>1, <2>2, <2>3, <2>5, <2>6, <2>7, <3>1, PaymentFits
  <2>8. ASSUME amount = payments[p].amount
        PROVE  Within(contracts', Intro(payments'), Main(payments'))
    <3>1. Summable(payments')
      <4>1. \A x \in DOMAIN payments' : payments'[x].amount \in Nat BY <1>0, <2>1, <2>3
      <4> QED BY <1>0, <2>1, <4>1 DEF Summable, Whole
    <3>2. ASSUME NEW x \in Kinds PROVE Paid(payments', x, {}) = Paid(payments, x, {})
      <4>1. Paid(payments', x, {p}) = Paid(payments, x, {p})
        BY <1>0, <2>6, PaidTheSame
      <4>2. Paid(payments, x, {}) = Paid(payments, x, {p})
              + (IF payments[p].kind = x THEN payments[p].amount ELSE 0)
        BY <1>0, <2>1, PaidWithout
      <4>3. Paid(payments', x, {}) = Paid(payments', x, {p})
              + (IF payments'[p].kind = x THEN payments'[p].amount ELSE 0)
        BY <2>1, <3>1, PaidWithout
      <4> QED BY <2>1, <2>8, <4>1, <4>2, <4>3 DEF k
    <3>3. Intro(payments') = Intro(payments) /\ Main(payments') = Main(payments)
      BY <3>2 DEF Intro, Main, Kinds
    <3>4. Within(contracts, Intro(payments), Main(payments)) BY DEF BooksInv
    <3> QED BY <2>1, <3>3, <3>4
  <2>9. Within(contracts', Intro(payments'), Main(payments'))
    <3>1. amount = payments[p].amount \/ amount <= MaxPayment(contracts, payments, k, {p})
      BY <2>1
    <3> QED BY <2>7, <2>8, <3>1
  <2>10. MoneyKeepsItsCurrency' BY <2>1 DEF BooksInv, MoneyKeepsItsCurrency
  <2> QED BY <1>0, <2>1, <2>9, <2>10 DEF BooksInv
<1>3. ASSUME NEW p \in Keys, DeletePayment(p) PROVE BooksInv'
  <2>1. /\ p \in DOMAIN payments /\ contracts' = contracts
        /\ DOMAIN payments' = DOMAIN payments \ {p}
        /\ \A x \in DOMAIN payments' : payments'[x] = payments[x]
    BY <1>3 DEF DeletePayment, Restrict
  <2>2. IsFiniteSet(DOMAIN payments') BY <1>0, <2>1, FS_RemoveElement
  <2>3. ASSUME NEW x \in Kinds
        PROVE  Paid(payments', x, {}) \in Nat /\ Paid(payments', x, {}) <= Paid(payments, x, {})
    <3>1. Paid(payments, x, {}) = Paid(payments, x, {p})
            + (IF payments[p].kind = x THEN payments[p].amount ELSE 0)
      BY <1>0, <2>1, PaidWithout
    <3>2. /\ DOMAIN payments \ {p} = DOMAIN payments' \ {}
          /\ \A y \in DOMAIN payments \ {p} : payments'[y] = payments[y]
      BY <2>1
    <3>3. Paid(payments', x, {}) = Paid(payments, x, {p}) BY <1>0, <3>2, PaidTheSame
    <3>4. Paid(payments, x, {p}) \in Nat BY <1>0, CountedIsSummable
    <3> QED BY <1>0, <2>1, <3>1, <3>3, <3>4
  <2>4. /\ Intro(payments') \in Nat /\ Intro(payments') <= Intro(payments)
        /\ Main(payments') \in Nat /\ Main(payments') <= Main(payments)
    BY <2>3 DEF Intro, Main, Kinds
  <2>5. Within(contracts, Intro(payments'), Main(payments'))
    BY <1>0, <2>4, LessIsWithin DEF BooksInv
  <2>6. MoneyKeepsItsCurrency' BY <2>1 DEF BooksInv, MoneyKeepsItsCurrency
  <2> QED BY <2>1, <2>2, <2>5, <2>6 DEF BooksInv
<1> QED BY <1>1, <1>2, <1>3 DEF PaymentStep

LEMMA InitBooks == Init => BooksInv
<1> SUFFICES ASSUME Init PROVE BooksInv OBVIOUS
<1>1. DOMAIN contracts = {} /\ DOMAIN payments = {} BY DEF Init
<1> QED BY <1>1, FS_EmptySet DEF BooksInv, Within, MoneyKeepsItsCurrency

LEMMA NextBooks == IInv /\ BooksInv /\ [Next]_vars => BooksInv'
<1> SUFFICES ASSUME IInv, BooksInv, [Next]_vars PROVE BooksInv' OBVIOUS
<1>1. CASE UNCHANGED <<contracts, payments>>
  BY <1>1 DEF BooksInv, MoneyKeepsItsCurrency
<1>2. CASE ContractStep BY <1>2, ContractBooks
<1>3. CASE PaymentStep BY <1>3, PaymentBooks
<1>4. ContractStep \/ PaymentStep \/ UNCHANGED <<contracts, payments>>
  <2>1. FileStep => UNCHANGED <<contracts, payments>>
    BY DEF FileStep, Upload, CreateFileUpload, books
  <2>2. ASSUME NEW e \in Estimates, UpdateEstimate(e) PROVE UNCHANGED <<contracts, payments>>
    BY <2>2 DEF UpdateEstimate
  <2>3. ASSUME NEW s \in Stages, ChangeStatus(s) PROVE UNCHANGED <<contracts, payments>>
    BY <2>3 DEF ChangeStatus, books
  <2>4. ASSUME NEW v \in BOOLEAN, Cancel(v) PROVE UNCHANGED <<contracts, payments>>
    BY <2>4 DEF Cancel, books
  <2>5. Restore \/ VisitsMove => UNCHANGED <<contracts, payments>>
    BY DEF Restore, VisitsMove, books
  <2>6. UNCHANGED vars => UNCHANGED <<contracts, payments>> BY DEF vars
  <2> QED BY <2>1, <2>2, <2>3, <2>4, <2>5, <2>6 DEF Next
<1> QED BY <1>1, <1>2, <1>3, <1>4

\* The books in a form that every step keeps.
THEOREM BooksAreRight == Spec => [](IInv /\ BooksInv)
<1>1. Init => IInv /\ BooksInv BY InitIInv, InitBooks
<1>2. IInv /\ BooksInv /\ [Next]_vars => (IInv /\ BooksInv)' BY NextIInv, NextBooks
<1> QED BY <1>1, <1>2, PTL DEF Spec

LEMMA BooksAreWhole ==
    ASSUME IInv, BooksInv
    PROVE  NeverOverpaid /\ CreditIsWhole /\ MoneyKeepsItsCurrency
<1> DEFINE a == Intro(payments) b == Main(payments)
<1>1. Priced(contracts) /\ a \in Nat /\ b \in Nat
  BY TypesForSums DEF IInv, BooksInv
<1>2. a = Paid(payments, "intro", {}) /\ b = Paid(payments, "main", {})
  BY DEF Intro, Main
<1>3. Within(contracts, a, b) BY DEF BooksInv
<1> HIDE DEF a, b
<1>4. /\ "intro" \in DOMAIN contracts => contracts["intro"].total \in Nat
      /\ "main" \in DOMAIN contracts => contracts["main"].total \in Nat
  BY <1>1 DEF Priced
<1>5. SameCurrency(contracts) => "main" \in DOMAIN contracts BY DEF SameCurrency, Kinds
<1>6. SameCurrency(contracts) => a <= contracts["main"].total
  BY <1>1, <1>3, <1>4, <1>5 DEF Within
<1>7. Credited(contracts, payments, {}) = IF SameCurrency(contracts) THEN a ELSE 0
  BY <1>1, <1>2, <1>4, <1>5, <1>6 DEF Credited, AtMost
<1>8. CreditIsWhole BY <1>2, <1>7 DEF CreditIsWhole
<1>9. ASSUME NEW k \in DOMAIN contracts
      PROVE  Paid(payments, k, {})
               + (IF k = "main" THEN Credited(contracts, payments, {}) ELSE 0)
             <= contracts[k].total
  <2>1. k = "intro" \/ k = "main" BY <1>1 DEF Priced, Kinds
  <2>2. CASE k = "intro" BY <1>1, <1>2, <1>3, <1>4, <2>2 DEF Within
  <2>3. CASE k = "main" BY <1>1, <1>2, <1>3, <1>4, <1>7, <2>3 DEF Within
  <2> QED BY <2>1, <2>2, <2>3
<1>10. NeverOverpaid BY <1>9 DEF NeverOverpaid
<1> QED BY <1>8, <1>10 DEF BooksInv

\* No contract has more paid and credited than its total, whatever is added, edited
\* and deleted.
THEOREM ContractsAreNotOverpaid == Spec => []NeverOverpaid
<1>1. IInv /\ BooksInv => NeverOverpaid BY BooksAreWhole
<1> QED BY <1>1, BooksAreRight, PTL

\* All of the paid intro amount is credited to a main contract of its currency.
THEOREM IntroIsCredited == Spec => []CreditIsWhole
<1>1. IInv /\ BooksInv => CreditIsWhole BY BooksAreWhole
<1> QED BY <1>1, BooksAreRight, PTL

\* A contract keeps its currency while a payment is recorded in it.
THEOREM CurrencyStays == Spec => []MoneyKeepsItsCurrency
<1>1. IInv /\ BooksInv => MoneyKeepsItsCurrency BY BooksAreWhole
<1> QED BY <1>1, BooksAreRight, PTL
=============================================================================
