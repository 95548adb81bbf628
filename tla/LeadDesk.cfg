SPECIFICATION RunSpec
CONSTANTS
    \* LeadWorkflow
    monday = monday
    None = None
    Dates <- OneDate
    VisitKinds <- AllKinds
    MaxFixes = 2
    MaxEntries = 2
    \* Budget
    w1 = w1
    w2 = w2
    a1 = a1
    a2 = a2
    uah = uah
    eur = eur
    x = x
    Writers = {w1, w2}
    Accountants = {a1, a2}
    Amounts = {1, 2}
    Currencies = {uah, eur}
    OfficeCurrency = uah
    Other = {x}
    MaxRates = 3
    MaxBegins = 2
    MaxMoves = 2
    Nothing = Nothing
    Unsent = Unsent
    \* Duplicates
    l1 = l1
    l2 = l2
    l3 = l3
    d1 = d1
    Leads = {l1, l2, l3}
    Marks = {w1, w2}
    Removals = {d1}
    NoOriginal = NoOriginal
    Nobody = Nobody
SYMMETRY Symmetric
INVARIANTS
    TerminalClean
    LostInStep
    TimelineExplainsLead
    RatesReplaceWhatWasSeen
    PricedWhenEntered
    DuplicatesLeadToAnOriginal
CHECK_DEADLOCK FALSE
