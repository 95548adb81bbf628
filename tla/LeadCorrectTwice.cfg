SPECIFICATION Spec
CONSTANTS
    monday = monday
    None = None
    Dates <- OneDate
    VisitKinds <- AllKinds
    MaxFixes = 2
    MaxEntries = 2
INVARIANTS
    CorrectionsExplainLead
