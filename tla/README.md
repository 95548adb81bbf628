# KOLSS CRM platform API: TLA+ models, checks and proofs

The repository is one Go process (`cmd/api`) over one Postgres database: public
lead forms of the sites, Meta Lead Ads, the CRM of the sales offices (leads, clients,
the shared calendar, projects, tasks, documents, users), the notifications of new leads and a daily
report. Handlers run concurrently, two processes overlap during a deployment, and
Telegram, Slack, the Meta Graph API and Supabase Auth fail on their own. This
directory holds TLA+ models of the parts whose correctness depends on the order in
which those things happen, the TLC runs that check them and TLAPS proofs of what
matters most. `PROJECT.json` lists components, runs, mutants, hazards, theorems and,
definition by definition, the source lines each one stands for.

    tlc -workers 2 -config Calendar.cfg MCCalendar     one run
    tlapm NotificationsProofs.tla                      the proofs of one module

## 1. Inventory

| Part | State | Operations | What is hard, what must hold | Modules |
|---|---|---|---|---|
| Notification outbox and dispatcher (`internal/notifications`) | `lead_notifications`: status, attempts, next attempt, claim; channels and timers of a goroutine | enqueue with the lead, wake, claim, send, record, retry, hourly tick | overlapping dispatchers, rows skipped while a claim is open, leases, lost answers, coalesced wakes, rate limits. Nothing sent twice without cause, nothing forgotten | `Notifications`, `Delivery`, `NotificationsProofs` |
| Meta Lead Ads (`internal/metaleads`) | `meta_lead_events`: status, payload, attempts, claim | webhook, reconciliation, claim, fetch, CRM transaction, retry, dead letter | late, repeated and missing webhooks, leases, a commit whose answer is lost. One lead and one notification per submission | `MetaInbox`, `MetaInboxProofs` |
| Lead workflow (`crmapi/leads, activities, v2_status, event_correction, duplicates, projects`) | `leads`: call, client and v2 status, reminder, duplicate, project, archive; timeline | about twenty handlers, correction and deletion of timeline entries | long mixed sequences; two generations of statuses kept in step; a timeline whose order is not that of the commits; archiving in two steps | `LeadWorkflow`, `LeadDeskProofs` |
| Calendar (`crmapi/appointments, workflow`) | `lead_showroom_visits`, versions, idempotency keys, row and advisory locks | book, invite, edit, close, archive, erase | read-committed interleavings, retries, lock waits. No double booking through the check, one visit of a kind per lead | `Calendar`, `Once`, `CalendarProofs` |
| Public forms (`internal/submissions`) | `leads`, `lead_submissions` | POST with an idempotency key, deletion of a lead | racing retries, lost answers. One answer per form | `SiteForms`, `Once`, `IntakeProofs` |
| Daily report (`internal/dailyreport`) | `daily_report_runs`, a timer per process | plan, fire, claim, send | overlapping processes, stalls, time zones, Sundays. Once per office and day, none skipped | `DailyReport`, `BackOfficeProofs` |
| Projects (`crmapi/projects*`) | project, contracts, payments, estimate, files | the handlers of one project, direct uploads | long sequences of edits of interdependent amounts; retries; restore | `Projects`, `ProjectsProofs` |
| Users (`crmapi/users`) | profile in Postgres, account in Supabase Auth, assignees | create, (de)activate, delete; assignments | two stores without a common transaction, compensation, check-then-write | `UserAccounts`, `UserAccountsProofs` |
| Clients (`crmapi/clients*`, triggers of `20261023120000_clients.sql`) | `clients`, links of leads and projects | attach a new lead or project, edit, merge | inserts and merges at once, an import that looks in an old snapshot, a check on another connection. One live client per phone and email, a project with its lead, no lead left behind | `Clients`, `IntakeProofs` |
| Budgets, lead information, currency rates (`crmapi/lead_info, settings, currency_rates`) | budget columns of a lead, `currency_rate_sets` | edit, lead information, successful call, new rates | reads before the transaction, `now()` before a lock. A budget priced with the rates of its time | `Budget`, `LeadDeskProofs` |
| Questions, comments, translations (`crmapi/questions, translations`) | timeline entries with text and JSON | ask, answer, edit, translate | read, call DeepL, write; a JSON value rewritten whole. Translations of the text beside them, no lost answer | `Conversations`, `BackOfficeProofs` |
| Lead documents and object storage (`crmapi/lead_documents, files`, `internal/storage`) | attachments and objects | presign, upload, confirm, delete, delete the entry | steps outside the database, retries. Listed means checked, never two entries | `Documents`, `Once`, `BackOfficeProofs`; files of projects in `Projects` |
| Tasks, task lists, dashboard (`crmapi/task*`, `dashboard_tasks`) | tasks with versions, lists | create, edit, complete, reopen, give a list away, deactivate and delete users, page | stale versions, pages while rows move. No lost update, no task missed | `Tasks`, `BackOfficeProofs` |
| Graph of duplicates (`crmapi/duplicates`) | `leads.duplicate_of_lead_id` | mark, reopen, delete | two rows locked in any order, chains. No circle that every report skips | `Duplicates`, `LeadDeskProofs`; one lead in `LeadWorkflow` |
| Facets, markers, reactions, other settings | dictionaries and flags | single-statement edits | none that a model reaches | not modelled |
| Reports, cohorts (`crmapi/reports`, `internal/leadcohorts`) | none | read-only SQL | none that a model reaches | not modelled |
| Biuro import (`internal/biuroimport`) | leads of the sheet by external id, their journal under ids made from the rows | a run of the command over an export, in one transaction | the sheet changes between runs, a run applies again what is there, runs overlap. One lead per customer, its journal its own | `BiuroImport`, `IntakeProofs` |
| Authentication, configuration, pool, HTTP (`internal/auth, config, postgres, httpapi`) | none | stateless checks | pool of ten connections (not modelled) | only start, stop and crash |

How they interact: a form or a Meta submission inserts a lead and, in the same
transaction, its outbox rows; after the commit the handler wakes the dispatcher of its
own process. Activities, the calendar, projects and users all write `leads` under the
row lock of the lead, except where the models show otherwise (archiving cancels visits
first; checks of an assignee lock nothing). A won lead becomes a project and is then
read-only. Cancelling a project cancels the visits of its lead. The insert of a lead,
whoever makes it, attaches it to a client by trigger; deleting a lead deletes its
documents and entries by cascade.

## 2. Modules

Each component has a module with its state, one action per handler, statement or
goroutine step, and its properties. `MC` modules give TLC its values and `Proofs`
modules hold the theorems. Three of each stand for a desk of several components:
`LeadDesk` (`LeadWorkflow`, `Budget`, `Duplicates`), `Intake` (`SiteForms`, `Clients`, `BiuroImport`) and
`BackOffice` (`DailyReport`, `Conversations`, `Documents`, `Tasks`). Operators named `Bad...` (or `Hasty...`) are plausible bugs of the
definition after them; no specification uses them, and with one of them in place of
the original the property named in `PROJECT.json` fails.

**Notifications** (`outbox.go`, `dispatcher.go`). A row is a lead and a destination. An
instance is a process with its dispatcher goroutine: `idle`, `sweep`, `claiming`,
`sending`, `answered`, `counting`. The claim is a transaction of its own: `Select` takes the
oldest claimable row that nobody has locked, `Claim` writes the token and commits, and
`ClaimFails` rolls back, or commits with its answer lost. While a claim is open its row is
`Locked`: another dispatcher skips it (`skipped` is history: what the sweep that just ended
found locked), marks of it and the deletion of its lead wait. `Send` is the HTTP call with
all its outcomes (accepted, refused, rate-limited, unknown to the caller), `Record...` are
the marks guarded by the claim token, `OnWake`, `OnRetry` and `OnTick` the three arms of the
`select`. A token is the name of the instance; time is the two events `BecomeDue` and
`LeaseExpires`. `disturbed` is a history variable: rows whose outcome may have been lost. **Delivery** is what the outbox promises: every committed row is a debt that is
settled once. The refinement mapping (`KeepsPromise`) reads the debt off the row.

**MetaInbox** (`integration.go`, `processor.go`, `sync.go`, `worker.go`). A submission is
written by the webhook or by the reconciliation, claimed by an event loop, fetched and
upserted in the CRM together with the mark. Submissions older than the cutoff, on a
page that is configured later, Graph outages and permanent refusals are the cases of
the code. `stalled` names submissions whose worker outlived its lease.

**LeadWorkflow**. One lead. Handlers lock the lead row first and are therefore one
action each; archiving cancels visits before it takes that lock and is two. The
timeline keeps the entries later handlers read, with the `old_value` a correction uses. It
stands in the order of `created_at`, which is when the transaction of an activity began,
before it claimed its key and waited for the lead. Entries are therefore committed in another
order than they are read in: `Write` puts an entry in any free place, also before entries
that are there already, and `overtaken` remembers that the latter were of its side of the
lead (a call result before a call result, a client status before a client status).

**Duplicates** (`duplicates.go`). Several leads and their links. A marking locks and checks
the duplicate, locks and checks the original, then writes; in a cycle of locks a request
aborts. Deleting a lead clears the links to it, under the locks of their rows. What else
happens to a lead is one step each: sold or lost, reopened, archived, restored.

**Calendar**. Requests are read-committed transactions taken apart at every lock:
idempotency key, lead row, visit rows, the advisory lock of a manager. What a
transaction wrote appears at its commit; an abort (error, lock timeout, lost
connection) is possible at each step, also after the commit for the answer alone.
Several row locks of one statement are granted together. Reopening a lead stays with
`LeadWorkflow`.

**SiteForms**. A request is: look-up, insert of the lead, select of the lead that was in
the way, insert of the submission, commit. The two `on conflict do nothing` inserts wait
for an uncommitted row of the same key.

**Once** is what an idempotency key promises, without transactions, locks or tables: the
work of a key is done by one request, once and for good (`Work`), and whoever is told of it
is told of that (`Replay`). `SiteForms`, `Calendar` and `Documents` implement it. What is
done for a key is read off the data: the submission with the lead it inserted, the visit a
booking inserted, the document a key made ready (`FormsStored`, `VisitsMade`,
`DocumentsConfirmed`); nothing takes it back, although leads, visits and documents are
deleted later.

**DailyReport**. Ticks of an hour; offices differ by an offset; a process plans its fires
for all offices, then works through the round. For each office it reads the clock
(`ReadDate`) and then inserts the run of that date (`Claim`); hours may pass between the two,
and the run claimed is that of the date read. `excused` names processes that cannot be
held to a morning: just started, stalled, or their insert failed. Daylight saving is left
out.

**Projects**. One project; each handler locks its row and is one action; the upload goes
past the API and is an action of its own. Amounts are small numbers, the pipeline keeps
the two contract stages and one stage between and after them.

**UserAccounts**. The saga of a super admin's request step by step over the profile and
the account, with failures, lost answers, failed compensation and a crash between all
of them; a lead dialog (read, check of the assignee, write guarded by the version) and
an activity (check, write) that assign leads at the same time.

**Budget**. The sets of rates are inserted only, under If-Match and an advisory lock,
and a budget names the set it is priced with. The v1 edit reads the lead before its
transaction, decides from that read and writes if the version is the one of If-Match;
the lead information of a lead, that of a project and a successful call write it in one
step under the row lock. `asOf` and `enteredAt` are history: which set was in force when
the request arrived.

**Clients**. A trigger takes an advisory lock on the phone, looks, then on the email,
looks, then inserts a client or takes the one it found; a project takes the client its
lead has. A merge locks both clients, moves leads and projects, passes contacts on and
leaves a tombstone; an edit checks for the tombstone before it locks. Inserts are
numbered by age. Some of them are imports: one transaction at REPEATABLE READ, whose
`Snapshot` is taken before the trigger waits for its locks and is what the trigger then looks
in (`Seen`). An import here brings one new lead; that the database may refuse the reference
to a client changed since the snapshot is its abort. `unsure` and `late` are the exceptions
the properties name: clients edited by hand or committed behind the snapshot of an import
with the same contact, and leads that had chosen their client, or whose import had begun,
when it was merged away.

**BiuroImport** (`model.go`, `importer.go`). A run is `Analyze`, its snapshot with an export
of the sheet as it is by then, and `CommitImport`, all of `applyLead` for every customer:
the transaction is repeatable read, so nothing it reads changes, and `Serializable` says
when a row written since makes it fail. `Group`, `Heads` and `FirstTalk` are the rows of
a customer, the row its lead is named after and the row of its first conversation. The
CRM calls, deletes and adds leads at any time. `homes`, `strayed` and `raced` are history:
where and with which phone a row was first applied, which leads got a row with another
home, which were created by a run that something overlapped.

**Conversations**. One question with its answer and one commented entry. A call is taken
apart where the code is: claim of the key, lock, write, and for a translation load, the
call of DeepL and save; `seen` is what it holds while others write. A translation is
the text it is of.

**Documents**. Sign, upload past the API at any time while the URL lives, confirm (claim
of the key, row lock, look at the object, block or attach), archive or delete the lead in
its two steps. The author of an entry or a super admin may delete it from the timeline while
its document stays: the handler checks (`AllowErase`), then deletes whatever is there
(`EraseEntry`). A claim that fails in the database is answered as a key used for something
else (`unclaimed`); any other failure tells nothing. `looked` names files put again after the
look, `erased` those whose entry was deleted by hand.

**Tasks**. Rows with version and time of the last write. An edit is a dialog that takes the
row from wherever it is shown, the feed, `GET /tasks/{id}` or the dashboard, where canceled
tasks are too (`LoadTask`), then the write guarded by the version; a list is opened and given
to another owner the same way. Users are deactivated, reactivated and deleted: their tasks
move to "unassigned" on the dashboard, where those of super admins always are (`Manager`), and
the deletion sets every reference to null. That null is `Former` here, so that the properties
can tell a closed task whose closer was deleted from one that never had any; no action tells
the two apart. A reader follows the cursors of a section of the dashboard while tasks, users
and the day change; it calls a task steady as long as nothing moved it. Roles and offices of
users do not change.

## 3. Runs

| Run | Instance | Shows |
|---|---|---|
| `outbox_overlap` | 2 processes, 1 lead, 2 Telegram chats, 2 attempts, 1 fault, claims that skip each other's rows | no duplicate without cause |
| `outbox_live` | 1 process, a Slack and a Telegram row, 2 attempts, 1 fault, fairness | no lost wake; every row settles; the healthy channel is served; refines `Delivery` |
| `meta_inbox` | 2 event loops, an old and a late-configured submission, 1 outage, 1 fault, fairness | one notification per lead; inbox and CRM agree; deleted leads stay deleted; everything new enough settles |
| `lead_desk` | workflow: 1 lead, 1 date, visits of all kinds, 2 timeline entries in either order of commit, up to 2 corrections each. Budget: 2 requests of every kind, 2 changes of rates, 3 sets, 2 currencies, 2 amounts in two ranges. Duplicates: 3 leads, 2 markings, 1 deletion | closed leads carry nothing; both generations agree on "lost"; the timeline explains the lead; rates replace what was seen; budgets are priced with rates of their time; duplicates lead to an original |
| `calendar` | 4 requests, 2 leads, 2 managers, 1 key, ten kinds of request | checked visits never clash; closed leads have none; bookings keep the promise of their key (refines `Once`); no blind edit |
| `intake` | forms: 4 requests of one key, deletion. Clients: 3 inserts, the second an import, over 2 phones and 1 email, 2 merges; 2 inserts, 2 merges, 1 edit. Import: 2 runs, sheets of 2 rows, 2 phones or none, 2 dates, deletions, calls and leads from elsewhere | forms keep the promise of their key (refines `Once`); no twins; projects with their leads; nothing left behind; merged for good; one lead per customer; its journal is its own |
| `back_office` | report: 2 processes, 2 offices, days of three hours, a week of three days. Questions: 3 calls, 2 people, 2 texts, 2 languages. Documents: 3 confirmations of a file, 2 keys, its entry deleted. Tasks: 2 edits, 1 list, 2 sections, pages of one; 2 tasks of one manager over a midnight, or 1 task while users leave | once per date; no morning skipped; translations match; answers kept; one entry per document; retries are told; no lost update; pages list everything |
| `projects` | 3 payments, 2 currencies, totals 2-4, amounts 1-2, 1 file, 2 estimates | never overpaid; intro credit whole; currency kept; contract stages earned |
| `user_accounts` | 1 super admin at a time, 2 users, 1 dialog, 1 activity, 1 lead, 3 versions | profile and account agree; saves replace the assignee they showed |
| `lead_correct_twice`, `calendar_double_booking`, `user_orphan_lead` | | expected violations, see 6 |

Parts of one desk share no state, so their product says nothing the parts do not. The
three desk runs are therefore sums: a variable `part`, chosen at the start, says which
part moves, and the others stand still. Every invariant is evaluated in every part. Clients
and tasks are two parts each, with bounds of their own: clients with an import among the
inserts and nobody who edits, or with edits and no import; two tasks of one manager, the
younger with the smaller id, over a midnight, or one task while users leave. The theorems know no such division.

Why the bounds are enough. Every hazard here is between two actors and one thing they
share: a row and two dispatchers, a key and its retries, a manager's hour and two
bookings (four requests leave room for a third party that closes or archives the lead).
Two attempts distinguish "will be retried" from "was the last". One fault at every
possible place is what the code is written for; the duplicates and lost marks the
proofs speak of are not bounded by it. Two timeline entries give a correction an
entry before it or after it, and two corrections an undoing of the first. Three payments are an intro payment, a main payment
and the one being added or edited; totals exceed, equal and fall short of sums of
amounts. A dialog that saves over an assignment takes three versions; requests about one
user that overlap are an exception of `AccountsAgree`, so the run takes one super admin
at a time and the theorem any number. Three inserts are two that share a phone or an email and one that finds what a merge
left; two merges can chain, and an import as the second has an insert before it and one after. Two rows are a customer's two or two customers', and become the one or the other between two
runs that follow or overlap each other. Three leads make a chain, and two markings at once the
smallest circle. Two edits give an edit a rival, and with pages of one row a page ends between any two rows. A third call
lets an edit come between the read and the write of a translation while an answer is
under way. `MaxFaults`, `MaxOutages`, `MaxEntries`, `MaxFixes`, `MaxVersion`,
`MaxRates`, `MaxBegins`, `MaxMoves`, `LastDay` and `Horizon` are the bounds in guards.
Symmetry is used only in runs without liveness, over values that are interchangeable;
in the desks the same two values serve each part, as requests of its own. Deadlock is
checked, except in the runs of `Calendar`, `LeadDesk`, `Intake` and `BackOffice`: there
each request runs once, so the system stops when all have ended (and a cycle of locks
ends by an abort).

Fairness. Only two specifications state it (`FairSpec`). A goroutine that is not blocked
runs (`WF` of a dispatcher's or event loop's own steps and of its restart by the
supervisor), the hourly and periodic tickers fire, clocks pass a deadline (`BecomeDue`,
`LeaseExpires`), the reconciliation of a page is run by some process, an outage of the
Graph API ends and a page is configured in the end. Nothing is assumed of Telegram or
Slack except, for `HealthyDelivered`, that a destination named healthy accepts;
crashes and faults are bounded, since a process that always crashes settles nothing.

## 4. Proofs

All theorems are about `Spec` for every value of the constants that meets the named
assumptions of the module, so for any number of processes, rows, requests and faults.

- `NotificationsProofs`: `TypeCorrect`, `DuplicateNeedsDisturbance`, `SentMeansAccepted`,
  `OneRecorderPerRow`, `NoWakeIsLost`, `RowsNeverGoBack`, `OutboxImplementsDelivery`. The
  properties about holders are not inductive: the invariant adds that a dispatcher that
  may still record on a row knows its attempt counter, that the token names the only
  such dispatcher, that an acceptance not yet recorded belongs to the holder or makes
  the row disturbed, and that the row of an open claim is still as it was selected, which the
  row lock is for. `NoWakeIsLost` holds for any number of processes with two exceptions that
  it names: a sweep that a database error cut, and rows that it skipped because the open claim of
  another process had them locked. The refinement is proved for the safety part of `Delivery`.
- `MetaInboxProofs`: `TypeCorrect`, `OneNotificationPerLead`, `InboxTellsTheTruth`,
  `SettledStaysSettled`, `DeletionsStick`. The step to find was what a worker with an
  event in hand knows of the row when its token no longer matches.
- `LeadDeskProofs`, the workflow: `TypeCorrect`, `ClosedLeadsAreClean`, `BothCallItLost`,
  `DuplicatesStayClosed`, `OnlyReopeningOpens`. The four statuses strengthen each other:
  an archiving holds the visits it saw, a duplicate is closed, a lost v2 status means a
  closed lead, and what a correction would write depends on that. `TimelineIsFollowed`: the
  latest entry of a kind explains the lead, and, what makes it inductive, the `old_value`
  of an entry not corrected yet is explained by the entries before it (`TimelineInv`); a
  second correction of one entry, which the property excludes, is where that breaks. The
  order meant is that of `created_at`, and overlapping results of one side, of which the
  lead keeps the one committed last, are excluded by name (`overtaken`).
  The budget: `RatesAreReplacedInOrder`, `PricesAreOfTheirTime`, `VersionsNameTheLead`.
  Dates of sets never decrease along their versions, so the set in force is the last of
  its date; a version names the budget that was seen with it, so an edit that passes
  If-Match decided from the budget it replaces.
  Duplicates: `DuplicatesHaveAnOriginal`. What a marking has read is true when it writes
  (`ReadLeads`). "No circle" says that every set of leads has one whose link leaves the
  set: a new link from a root to a root keeps that, and clearing links does.
- `CalendarProofs`: `TypeCorrect`, `NoCheckedClash`, `OnePerKind`, `ClosedIsEmpty`,
  `EditsSeeTheirVersion`, `RetryBooksOnce`, `BookingsImplementOnce`. The invariant (`Sound`) says for each request
  what it read so far and under which lock it read it; `Frame` says that a step of
  another request writes only what that one has locked. What was read is thus still true
  at the commit, and the two lemmas `FrameSound` and `FrameInvariants` replace a
  case split over pairs of actions. For the refinement of `Once` one thing is added: what a
  key remembers is a booking with that key, which inserted its visit (`Remembered`). With
  `Sound` this makes the visits of a key a function of the stored responses
  (`MadeIsRemembered`), so only a step that stores one does the work of its key.
- `IntakeProofs`, the forms: `TypeCorrect`, `OneAnswerPerForm`, `OneNotificationPerForm`,
  `DeletionsStick`, `FormsImplementOnce`. The invariant follows the two uncommitted inserts
  and the request that holds them. For the refinement of `Once` the request that stored a
  form is at its end and keeps the lead it inserted, whatever becomes of the row.
  The clients: `ProjectsFollowTheirLeads`, `MergesLeaveNothingBehind`, `MergesAreForGood`,
  `ClientsAreNotTwins`. `ClientInv` says which rows a merge has locked and what it may
  rely on until it commits: its pair is live, its leads are moved, nobody else holds one
  of the two. `TwinInv` says of an insert between its look and its commit that the
  contact it looked for is still nobody's, or the one's it chose; that rests on the
  advisory lock and on merges passing contacts only between their pair. For an import it
  says so only of what its snapshot shows; what committed behind that is `unsure` or makes
  the lead `late`. That the trigger
  takes the oldest client is well-foundedness of `<` on the numbers of the inserts.
  The import: `CustomersAreImportedOnce`, `JournalsAreOfTheirCustomers`. `ImportInv` says
  that the snapshot of a run nothing overlapped has every lead there is, with its phone;
  `HomeInv` traces each entry to the home of its row and each lead to its own row, and
  that homes stay (`CommitEntries`: each row of an applied customer has one taker).
- `BackOfficeProofs`, the report: `SchedulersAreTyped`, `OneReportPerDate` (a process about
  to send is the only one that claimed its date, and has not sent), `MorningsAreClaimed`,
  `RunsAreAtTheirHour` (nothing is claimed for a Sunday or a day to come, and outside the
  local hour of the date that was read only by an excused process). A process waits for no
  time behind a working morning to come, and the morning of this hour is waited for, still
  to do in its round, being claimed, claimed or excused (`ClockInv`); the rest is arithmetic
  of dates and hours, for any offsets.
  Questions: `TranslationsAreOfTheText`,
  `QuestionsAreAnsweredOnce`, `AnswersAreKept` (what a call has read under the lock is
  what is there, and a call that asks DeepL compares the text again before it writes).
  Documents: `DocumentTypes`, `OneEntryPerDocument`, `ListedDocumentsFit`, `RetriesAreTold`,
  `ConfirmationsImplementOnce` (a row that awaits its upload has no entry and none was
  deleted, the holder of a
  row knows its object, a key without a response belongs to a blocked file, and whoever
  claims a key finds it without a row when it writes). Tasks: `TasksStayConsistent`,
  `TaskUpdatesAreSeen` (while a task or list has the version a dialog saw, nobody wrote it),
  `DashboardListsEverything`. A page is the rows behind the cursor with the first ranks in
  the order of their keys. That the ranks are all the numbers up to the size of the page
  (`RanksAreAll`) is by cardinalities of sets of rows; `WalkInv` says that a steady task
  was read exactly if its key is not behind the cursor, so nothing a write or the end of a
  day moves comes between.
- `ProjectsProofs`: `TypeCorrect`, `ContractStagesAreEarned`, `EstimateIsLocked`,
  `FilesAreNotShared`, `RetriesAreReplayed`. A file in use is confirmed for the one record
  that holds it; a stage to be restored obeys what the present stage does.
  The money: `ContractsAreNotOverpaid`, `IntroIsCredited`, `CurrencyStays`. `BooksInv`
  says that the payments are finitely many, that what a contract has received fits its
  total in the form of the guard, and that money
  keeps the currency recorded for it. A sum of payments is a recursive function; that it
  exists, is a natural number and does not depend on the order of its terms is proved
  from least sets and least numbers, since the library's induction is out of reach.
- `UserAccountsProofs`: `TypeCorrect`, `StoresAgree`, `SavesTakeWhatTheySaw`. An
  undisturbed user has at most one running request, and the point that request has
  reached says how profile and account differ; a dialog whose version is current showed
  the present assignee, or one cleared since.

Type invariants that are proved are not checked by a run once more. So it is with other
proved facts that no run lists (`SentWasAccepted`, `TokenGuardsCounter`, `RowsOnlyAdvance`,
`SettlesOnce`, `SettledIsFinal`, `DuplicateIsClosed`, `SignedEstimateStays`, `ClosedUntilReopened`, `OneVisitPerKind`, `DeletedStaysDeleted` of the forms,
`DeletedPaymentStays`, `VersionNamesLead`, `TaskIsConsistent`, `AnsweredOnce`,
`ListedWasChecked`, `FileUsedOnce`, `NotifiedOnce` of the forms, `RunsAreMornings`,
`ConfirmationsAreOnce`, and `SameAnswer` and `OncePerKey`, in whose place the runs check
the refinements of `Once`).

Only model-checked: liveness (`EveryRowSettles`, `HealthyDelivered`,
`EverySubmissionSettles` and the fair half of `KeepsPromise`), since the prover has no
fairness and no `ENABLED`. Every invariant and every action property that a passing run
checks is a theorem. The assumptions are those of the modules that declare the constants:
names that stand for nothing are not among the values, sets of tasks and lists are finite,
offsets, hours and limits are natural numbers.

## 5. Hazards

`PROJECT.json` lists at their lines what in this code is hard to test, with the property
that would catch it or the reason why none does. The exceptions built into the
properties are part of the result: `disturbed` and `stalled` say exactly which failures
may duplicate a message, revive a deleted lead or leave two stores apart; `overtaken`, `unsure`,
`late`, `erased` and `skipped` name the orders of events after which the code does not keep
what one would expect, each with its entry in section 6.

## 6. Where the code and its words differ

Three runs are expected to be violated and show how:

- `lead_correct_twice`: an entry's `old_value` holds one status; correcting an entry from
  a call result to "thinking" and back forgets the other one (`event_correction.go:279`).
- `calendar_double_booking`: the activities that invite a client schedule a visit
  without the availability check (`appointments.go:1075`), against
  `appointments_test.go:353`.
- `user_orphan_lead`: a manager's reassignment checks that the new manager is active
  (`leads.go:1063`) without locking the profile; the new manager is deactivated, which clears
  the leads that are the new manager's by then (`users.go:482`) and leaves this one and its
  version alone; the reassignment commits. `docs/CRM-V2-WORKFLOW-CONTRACT.md:260` says of this
  request that the new assignee must be active, and the migration `20260714120000` calls what
  remains orphan assignments. The skipped check of a super admin (`leads.go:1050`) is as
  documented and not what the run shows.

Met while modelling, followed by the models as the code has them, without a run of
their own:

- An event whose retries run out in a long Graph outage is a dead letter for ever, since
  the reconciliation inserts nothing over it (`sync.go:260`); `README.md:11` speaks of
  preventing lost leads.
- Archiving cancels visits before it locks the lead, so a concurrent booking leaves a
  visit on an archived lead (`leads.go:1319`).
- Entries of the timeline are dated by the beginning of their transaction and the lead holds
  what was committed last. Two activities of one kind that overlap can leave a lead whose
  call result or status is not that of the latest entry (`activities.go:245`, `:268`,
  `20260526120000_init.sql:133`): the exception `overtaken`.
- Booking does not ask whether the lead became a project and leaves the v2 status
  behind (`appointments.go:525`, `:606`); a correction may replace the v2 status
  "project" (`event_correction.go:273`).
- New leads have no v2 status until their first activity
  (`20260924140000_lead_v2_status.sql:5`).
- Any error while a key is claimed is answered as a key of another request
  (`appointments.go:345`).
- A refused deactivation of an inactive user makes the profile active: the compensation
  writes the opposite of what was asked, not what was there (`users.go:505`). The model
  counts such a user as disturbed.
- A document that is too large is blocked and the key committed without a response, so a
  retry of the confirmation is a conflict for ever (`lead_documents.go:302`). A document
  can be confirmed while its lead is archived. A confirmation locks the row and then
  the lead, deleting a lead takes them the other way round; the database ends it. The entry of
  a document can be deleted from the timeline while the document stays listed
  (`leads.go:1231`). Any database error while the key is claimed is told as a key used for
  another request (`lead_documents.go:253`), also to the retry of a confirmation that
  succeeded: the exception in `RetryIsTold`.
- With several processes a dispatcher skips a row that another's claim has locked
  (`dispatcher.go:206`). If that claim rolls back, nobody wakes the first, and the row waits for
  the hourly tick.
- The report reads the clock before it claims the date (`report.go:160`, `:251`). A process
  held up in between sends the report of that date in a later hour, or the next day.
- A lead cannot be marked as the duplicate of a duplicate (`duplicates.go:105`), but a lead
  that has duplicates can be marked, which leaves the same chain. A duplicate whose
  original is deleted stays lost for that reason with no link, so reports count it again.
- The v1 edit of a budget leaves `estimated_budget_text` as it was, against
  `docs/CRM-V2-WORKFLOW-CONTRACT.md:452`.
- Each insert looks for a client before it knows whether its external id is taken, so two
  inserts of one submission without phone and email leave a client without a lead. A merge
  keeps two phones and one email and drops the rest (`clients_logic.go:256`), where
  `docs/CRM-V2-WORKFLOW-CONTRACT.md:652` says that nothing is lost silently. An edit
  without If-Match can write a client merged away meanwhile (`clients.go:562`), and an
  insert that chose its client before a merge committed stays with the tombstone.
- The triggers of the import look for a client in the snapshot of its transaction
  (`importer.go:109`), however long they waited for the advisory lock. A lead with the same
  phone or email committed meanwhile is not seen, and a second live client is made; a client
  merged away meanwhile is chosen, and the lead is left with the tombstone. These are the
  other halves of the exceptions `unsure` and `late`.
- A run of the import over an unchanged sheet writes each lead's call status and last
  comment again (`importer.go:444`, `:481`): what managers entered since is gone from the
  lead (not from its timeline), against `20260619140000_lead_last_comment.sql:1`. It sets the
  call status without the v2 status, which `activities.go:907` keeps in step, and brings
  back leads that were deleted in the CRM. Rows that share an LP without sharing a phone
  become one lead (`model.go:450`). A second conversation of a customer, entered with an
  earlier date, is on record as an attempt of its own.
- A canceled task is in no view of the feed, but on the dashboard, and can be reopened from
  there (`dashboard_tasks.go:194`). Deleting a user takes the names from tasks and lists
  without a new version, so that a closed task no longer says who closed it.
- At midnight between two pages of the dashboard a row that becomes overdue moves before
  the cursor and is on no page (`dashboard_tasks.go:184`). An undated task is "important"
  on that dashboard and "upcoming" in the feed. Two lists created at once can take one
  colour.

## 7. Not modelled

Contents (texts, prices, names, addresses), validation that rejects a request before it
touches state, authorisation by role and office beyond what `Tasks` and `Conversations`
need, list and report queries, alerts of the Meta integration, the connection pool and
HTTP shutdown, daylight saving, `PATCH` of a user (so roles, offices and memberships stay
while tasks are edited), imports of several new leads against the other inserts, the sources of the dashboard other than
manual tasks, links among documents, contacts and notes of a lead; of the import the parsing of
the file, rows without an LP (known by their number, so a row inserted above renames them) or sharing
one, and what the CRM does to a lead's phone or to single comments between runs. The table in section 1 lists the parts without a module and why.

## 8. Plan

Done, in this order: outbox with its abstract specification; Meta inbox; lead workflow;
calendar; forms; daily report; projects; users; clients; budgets and rates; questions and
translations; documents; tasks; the import of the sheet;
duplicates; the promise of the key; proofs of every safety property that a run checks. Next:

1. A composition of `LeadWorkflow` and `Calendar` in which the visits of the one are the
   rows of the other, and an abstract lead that both implement; `Projects`' cancellation
   against a concurrent booking.
2. `PATCH` of a user: a third saga over profile and account.
3. Proofs: an abstract project whose payments `Projects` implements; the payments' and
   questions' keys as instances of `Once`.
4. Alerts of `MetaInbox`; the other sources of the dashboard in `Tasks`.
