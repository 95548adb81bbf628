SPECIFICATION Spec
CONSTANTS
    r1 = r1
    r2 = r2
    r3 = r3
    r4 = r4
    lead1 = lead1
    lead2 = lead2
    anna = anna
    boris = boris
    k1 = k1
    None = None
    Requests = {r1, r2, r3, r4}
    Leads = {lead1, lead2}
    Managers = {anna, boris}
    Keys = {k1}
    Operations <- AllOperations
SYMMETRY Symmetric
INVARIANTS
    CheckedNeverClash
    ClosedHasNoVisits
PROPERTIES
    BookingsAreOnce
    NoBlindEdit
CHECK_DEADLOCK FALSE
