SPECIFICATION Spec
CONSTANTS
    Stages <- MCStages
    ContractStage <- MCContractStage
    Keys = {p1, p2, p3}
    Files = {f1}
    Totals = {2, 3, 4}
    Amounts = {1, 2}
    Currencies = {PLN, EUR}
    Estimates = {e1, e2}
    NoFile = NoFile
SYMMETRY Symmetry
INVARIANTS
    NeverOverpaid
    CreditIsWhole
    MoneyKeepsItsCurrency
    StageWasEarned
