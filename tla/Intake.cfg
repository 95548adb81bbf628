SPECIFICATION RunSpec
CONSTANTS
    s1 = s1
    s2 = s2
    \* SiteForms
    r3 = r3
    r4 = r4
    k1 = k1
    None = None
    Requests = {s1, s2, r3, r4}
    Keys = {k1}
    \* Clients
    n1 = n1
    n2 = n2
    m1 = m1
    e1 = e1
    Inserts = {1, 2, 3}
    Imports = {2}
    Merges = {s1, s2}
    Edits = {e1}
    Phones = {n1, n2}
    Emails = {m1}
    LeadContacts <- FewContacts
    NoContact = NoContact
    NoCard = NoCard
    NoClient = NoClient
    \* BiuroImport
    Runs = {s1, s2}
    SheetKeys = {1, 2}
    Numbers = {n1, n2}
    Days = {1, 2}
    SheetRows <- FewRows
    NoNumber = NoNumber
    NoDay = NoDay
    NoRow = NoRow
    NoLead = NoLead
    NoKey = NoKey
SYMMETRY Symmetric
INVARIANTS
    NoTwins
    ProjectFollowsLead
    NothingLeftBehind
    OneLeadPerCustomer
    JournalIsOfTheCustomer
PROPERTIES
    FormsAreOnce
    MergedForGood
CHECK_DEADLOCK FALSE
