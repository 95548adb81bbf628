SPECIFICATION RunSpec
CONSTANTS
    s1 = s1
    s2 = s2
    \* DailyReport
    kyiv = kyiv
    warsaw = warsaw
    Schedulers = {s1, s2}
    Offices = {kyiv, warsaw}
    OfficeOrder <- KyivThenWarsaw
    Offset <- KyivIsAhead
    HoursPerDay = 3
    DaysPerWeek = 3
    HourLocal = 1
    Horizon = 11
    \* Conversations
    a = a
    b = b
    c3 = c3
    ann = ann
    bob = bob
    Calls = {s1, s2, c3}
    People = {ann, bob}
    SuperAdmins = {bob}
    Texts = {a, b}
    Targets = {"EN", "PL"}
    NoText = NoText
    NoAnswer = NoAnswer
    NoCall = NoCall
    \* Documents
    d3 = d3
    f1 = f1
    Confirmations = {s1, s2, d3}
    Files = {f1}
    ConfirmKeys = {"x", "y"}
    NoFile = NoFile
    NoOne = NoOne
    \* Tasks
    boss = boss
    eve = eve
    TaskIds = {1, 2}
    Lists = {1}
    TaskEdits = {s1, s2}
    Staff = {boss, eve}
    Office = {boss, eve}
    OfficeAdmins = {boss}
    SuperUsers = {boss}
    Curators = {}
    Sections = {"important", "done"}
    NewTasks <- FewNewTasks
    LastDay = 1
    PageSize = 1
    NoTask = NoTask
    NoPerson = NoPerson
    Former = Former
SYMMETRY Symmetric
INVARIANTS
    SentOncePerDate
    TranslationsMatch
    AttachedOnce
    PagesListEverything
PROPERTIES
    NoMorningSkipped
    AnswerIsKept
    RetryIsTold
    NoLostTaskUpdate
CHECK_DEADLOCK FALSE
