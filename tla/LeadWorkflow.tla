---------------------------- MODULE LeadWorkflow ----------------------------
(***************************************************************************)
(* One lead of the CRM: its v1 call and client status, the v2 status that  *)
(* mirrors them, its reminder, its scheduled visits and its timeline       *)
(* (internal/crmapi, public.leads, lead_showroom_visits, lead_events).     *)
(*                                                                         *)
(* Handlers take the lead row for update first, so each is one action; the *)
(* one that does not, archiving, is two.  Of the timeline only the entries *)
(* that later handlers read are kept: comments and call or client statuses.*)
(* Ratings, questions, assignees and the no-answer counter are left out.   *)
(*                                                                         *)
(* created_at of an entry is when its transaction began, before it waited  *)
(* for the lead: entries are committed in another order than they stand in *)
(* the timeline.  An entry may therefore take any free place of the log.   *)
(***************************************************************************)
EXTENDS Naturals, FiniteSets

CONSTANTS
    Dates,         \* instants a reminder may be due at
    VisitKinds,    \* the kinds of visit that are booked
    MaxEntries,    \* bound: places for entries in the timeline
    MaxFixes,      \* bound: corrections of one entry
    None           \* a date, a status or an old value that is null

ASSUME NoneAssumption == None \notin Dates
ASSUME KindsAssumption == VisitKinds \subseteq {"showroom", "measurement", "office_work"}
ASSUME BoundsAssumption == MaxEntries \in Nat /\ MaxFixes \in Nat

Ids == 1..MaxEntries

CallStatuses == {"reached", "callback_requested", "no_answer"}
ClientStatuses == {"new_lead", "showroom_invited", "measurement_scheduled",
                   "calculation_in_progress", "thinking", "postponed",
                   "closed_lost", "contract_signed"}
Terminal == {"closed_lost", "contract_signed"}
V2Statuses == {"none", "new", "later", "noanswer", "success",
               "thinking", "invited", "lost", "project"}

\* How an entry is stored: a call result, "thinking" and "comment" can be
\* corrected; "status" is any other client status, "cleared" the comment-category
\* entry that clears a reminder.  A place without an entry is "unwritten", or "gone" once
\* its entry was deleted.
Correctable == CallStatuses \cup {"thinking", "comment"}
StatusKinds == CallStatuses \cup {"thinking", "status"}
NoEntry == {"unwritten", "gone"}
EntryKinds == Correctable \cup {"status", "cleared"} \cup NoEntry

\* oldCall, oldClient: the entry's old_value, Absent where it has no such key.
Absent == "absent"
Entry == [kind : EntryKinds,
          due : Dates \cup {None},
          oldCall : CallStatuses \cup {"none", Absent},
          oldClient : ClientStatuses \cup {Absent},
          fixes : 0..MaxFixes]
NewEntry(kind, d, oldCall, oldClient) ==
    [kind |-> kind, due |-> d, oldCall |-> oldCall, oldClient |-> oldClient, fixes |-> 0]
Unwritten == NewEntry("unwritten", None, Absent, Absent)
Gone == NewEntry("gone", None, Absent, Absent)

VARIABLES
    call,        \* leads.call_status, "none" when null
    client,      \* leads.client_status
    due,         \* leads.callback_due_at
    v2,          \* leads.v2_status, "none" when null
    project,     \* leads.converted_project_id is set
    dup,         \* leads.duplicate_of_lead_id is set
    archived,    \* leads.archived_at is set
    visits,      \* kinds of which a visit is scheduled; at most one of a kind
    archiving,   \* an archiving transaction is open
    seen,        \* the visits it canceled, their rows locked until it ends
    log,         \* log[i]: the i-th timeline entry in the order of created_at
    overtaken,   \* history: an entry was committed before one of its side of the lead
                 \*   that an activity which had begun earlier wrote
    diverged     \* history: the timeline changed and the lead, by design, did not,
                 \*   or the lead was reopened, which leaves its timeline alone

leadVars == <<call, client, due, v2, project, dup, archived>>
archiveVars == <<archiving, seen>>
logVars == <<log, overtaken, diverged>>
vars == <<leadVars, visits, archiveVars, logVars>>

TypeOK ==
    /\ call \in CallStatuses \cup {"none"}
    /\ client \in ClientStatuses
    /\ due \in Dates \cup {None}
    /\ v2 \in V2Statuses
    /\ project \in BOOLEAN /\ dup \in BOOLEAN /\ archived \in BOOLEAN
    /\ archiving \in BOOLEAN /\ overtaken \in BOOLEAN /\ diverged \in BOOLEAN
    /\ visits \subseteq VisitKinds
    /\ seen \subseteq VisitKinds
    /\ log \in [Ids -> Entry]

\* A lead is inserted without a v2 status: the column has no default.
Init ==
    /\ call = "none" /\ client = "new_lead" /\ due = None /\ v2 = "none"
    /\ project = FALSE /\ dup = FALSE /\ archived = FALSE
    /\ visits = {}
    /\ archiving = FALSE /\ seen = {}
    /\ log = [i \in Ids |-> Unwritten]
    /\ overtaken = FALSE /\ diverged = FALSE

----------------------------------------------------------------------------
(* Helpers *)

ClientToV2 == [showroom_invited |-> "invited", thinking |-> "thinking",
               closed_lost |-> "lost"]
CallToV2 == [none |-> "new", callback_requested |-> "later",
             no_answer |-> "noanswer", reached |-> "success"]

\* deriveV2LeadStatus: a client status beyond new_lead wins, legacy ones have none.
Derive(c, k) ==
    IF c = "new_lead" THEN CallToV2[k]
    ELSE IF c \in DOMAIN ClientToV2 THEN ClientToV2[c] ELSE "none"

IsTerminal(c) == c \in Terminal

\* nextClientStatusCallbackDue
NextDue(s, d) ==
    IF IsTerminal(s) THEN None
    ELSE IF s \in {"thinking", "postponed"} THEN d
    ELSE IF call = "callback_requested" THEN due ELSE None

\* The latest entry of some kinds, 0 when there is none.
Latest(kinds) ==
    LET of == {i \in Ids : log[i].kind \in kinds}
    IN IF of = {} THEN 0 ELSE CHOOSE i \in of : \A j \in of : j <= i

\* The two sides of the lead that entries move.
Sides == {CallStatuses, {"thinking", "status"}}

\* The entry takes a place that no entry had: that of the beginning of its activity.
Write(entry) ==
    \E i \in Ids :
        /\ log[i] = Unwritten
        /\ log' = [log EXCEPT ![i] = entry]
        /\ overtaken' = (overtaken \/ \E j \in Ids, side \in Sides :
                                         j > i /\ {entry.kind, log[j].kind} \subseteq side)
        /\ UNCHANGED diverged

CallEntry(k) == NewEntry(k, None, call, Absent)
ClientEntry(s) ==
    NewEntry(IF s = "thinking" THEN s ELSE "status", None, Absent, client)
OtherEntry(kind, d) == NewEntry(kind, d, Absent, Absent)

\* A row the archiving transaction has updated: a writer waits for its end.
Unlocked(kinds) == archiving => kinds \cap seen = {}

\* cancelScheduledAppointmentsForLead
Cancel(kinds) ==
    /\ Unlocked(kinds \cap visits)
    /\ visits' = visits \ kinds

\* scheduleLegacyAppointment: move the scheduled showroom visit or insert one.
ScheduleShowroom ==
    /\ "showroom" \in VisitKinds
    /\ Unlocked({"showroom"} \cap visits)
    /\ visits' = visits \cup {"showroom"}

\* The guards of handleLeadActivity for everything but comments and questions.
BadActive == ~archived /\ v2 # "project"
Active == ~archived /\ v2 # "project" /\ ~IsTerminal(client)

----------------------------------------------------------------------------
(* Activities: POST /v1/leads/{leadId}/activities *)

\* call_status
CallStatus(k, d) ==
    /\ Active
    /\ d = None <=> k # "callback_requested"
    /\ call' = k
    /\ due' = IF k = "callback_requested" THEN d
              ELSE IF client \in {"thinking", "postponed"} THEN due ELSE None
    /\ v2' = Derive(client, k)
    /\ Write(CallEntry(k))
    /\ UNCHANGED <<client, project, dup, archived, visits, archiveVars>>

\* comment: on a project too
Comment(d) ==
    /\ ~archived /\ ~IsTerminal(client)
    /\ due' = IF d = None THEN due ELSE d
    /\ Write(OtherEntry("comment", d))
    /\ UNCHANGED <<call, client, v2, project, dup, archived, visits, archiveVars>>

\* clear_reminder callback, thinking
ClearCallback ==
    /\ Active
    /\ due' = None
    /\ UNCHANGED <<call, client, v2, project, dup, archived, visits, archiveVars, logVars>>

\* clear_reminder comment: the lead's date goes if it is the latest comment's
ClearComment ==
    LET latest == Latest({"comment", "cleared"})
    IN /\ Active
       /\ due' = IF latest # 0 /\ due = log[latest].due THEN None ELSE due
       /\ Write(OtherEntry("cleared", None))
       /\ UNCHANGED <<call, client, v2, project, dup, archived, visits, archiveVars>>

\* clear_reminder showroom, measurement
ClearVisit(kind) ==
    /\ Active
    /\ Cancel({kind})
    /\ UNCHANGED <<leadVars, archiveVars, logVars>>

\* client_status: what applyLeadActivity does to the lead, its visits and its log
ApplyClientStatus(s, d) ==
    /\ client' = s
    /\ v2' = Derive(s, call)
    /\ due' = NextDue(s, d)
    /\ Write(ClientEntry(s))
    /\ CASE IsTerminal(s) -> Cancel(VisitKinds)
         [] s = "showroom_invited" -> ScheduleShowroom
         [] OTHER -> UNCHANGED visits

ClientStatus(s, d) ==
    /\ Active
    /\ s # client \/ s = "showroom_invited"
    /\ d # None => s \in {"thinking", "postponed"}
    /\ ApplyClientStatus(s, d)
    /\ UNCHANGED <<call, project, dup, archived, archiveVars>>

\* reopen: a closed lead starts over and is no duplicate any more
Reopen ==
    /\ ~archived /\ v2 # "project" /\ IsTerminal(client)
    /\ call' = "none" /\ client' = "new_lead" /\ due' = None /\ v2' = "new"
    /\ dup' = FALSE /\ diverged' = TRUE
    /\ UNCHANGED <<project, archived, visits, archiveVars, log, overtaken>>

\* v2_status success, later, noanswer
V2CallResults == [success |-> "reached", later |-> "callback_requested",
                  noanswer |-> "no_answer"]
V2Call(s, d) ==
    /\ Active
    /\ d = None => s = "success"
    /\ call' = V2CallResults[s] /\ due' = d /\ v2' = s
    /\ Write(CallEntry(V2CallResults[s]))
    /\ UNCHANGED <<client, project, dup, archived, visits, archiveVars>>

\* v2_status thinking
V2Thinking(d) ==
    /\ Active
    /\ client' = "thinking" /\ due' = d /\ v2' = "thinking"
    /\ Write(ClientEntry("thinking"))
    /\ UNCHANGED <<call, project, dup, archived, visits, archiveVars>>

\* v2_status invited
V2Invited ==
    /\ Active
    /\ client' = "showroom_invited" /\ v2' = "invited"
    /\ due' = NextDue("showroom_invited", None)
    /\ ScheduleShowroom
    /\ Write(ClientEntry("showroom_invited"))
    /\ UNCHANGED <<call, project, dup, archived, archiveVars>>

\* v2_status lost
BadV2Lost ==
    /\ Active
    /\ client' = "closed_lost" /\ v2' = "lost" /\ due' = None
    /\ Write(ClientEntry("closed_lost"))
    /\ UNCHANGED <<call, project, dup, archived, visits, archiveVars>>
V2Lost ==
    /\ Active
    /\ client' = "closed_lost" /\ v2' = "lost" /\ due' = None
    /\ Cancel(VisitKinds)
    /\ Write(ClientEntry("closed_lost"))
    /\ UNCHANGED <<call, project, dup, archived, archiveVars>>

----------------------------------------------------------------------------
(* Calendar: POST and PATCH /v1/appointments *)

\* Office work blocks the calendar and leaves the lead alone.  The code allows
\* several blocks; here the guard keeps one of each kind.
BookOfficeWork ==
    /\ ~archived /\ ~IsTerminal(client)
    /\ "office_work" \in VisitKinds \ visits
    /\ visits' = visits \cup {"office_work"}
    /\ UNCHANGED <<leadVars, archiveVars, logVars>>

\* createAppointment: the client status moves, v2_status does not; nobody asks
\* whether the lead became a project.
BookVisit(kind) ==
    /\ ~archived /\ ~IsTerminal(client)
    /\ kind \notin visits
    /\ visits' = visits \cup {kind}
    /\ client' = IF kind = "measurement" THEN "measurement_scheduled" ELSE "showroom_invited"
    /\ due' = IF call = "callback_requested" THEN due ELSE None
    /\ Write(OtherEntry("status", None))
    /\ UNCHANGED <<call, v2, project, dup, archived, archiveVars>>

\* updateAppointment with an outcome: visited, no_show or canceled.  Office work
\* has no manual outcome, but deleting its timeline entry deletes it.
EndVisit(kind) ==
    /\ kind \in visits
    /\ kind = "office_work" => ~archived
    /\ Unlocked({kind})
    /\ visits' = visits \ {kind}
    /\ UNCHANGED <<leadVars, archiveVars, logVars>>

----------------------------------------------------------------------------
(* Timeline: PATCH .../events/{eventId}/correction and DELETE .../events/{eventId} *)

\* The entry is the latest status entry, or a comment that becomes it.
MovesLead(i, kind) ==
    LET latest == Latest(StatusKinds)
    IN /\ kind # log[i].kind
       /\ ~IsTerminal(client)
       /\ IF log[i].kind = "comment" THEN latest < i ELSE latest = i

\* The lead's statuses without the entry: undone from its old_value, which holds
\* one of the two keys unless the entry was a comment once.
BadUndone(i) == [call |-> call, client |-> client]
Undone(i) ==
    [call |-> IF log[i].kind \notin CallStatuses THEN call
              ELSE IF log[i].oldCall = Absent THEN "none" ELSE log[i].oldCall,
     client |-> IF log[i].kind # "thinking" THEN client
                ELSE IF log[i].oldClient = Absent THEN "new_lead" ELSE log[i].oldClient]

\* The statuses after an entry of some kind is applied to them.
Redone(base, kind) ==
    [call |-> IF kind \in CallStatuses THEN kind ELSE base.call,
     client |-> IF kind = "thinking" THEN "thinking" ELSE base.client]

Rewritten(i, kind, effective) ==
    LET was == log[i]
        fromComment == effective /\ was.kind = "comment"
    IN [kind |-> kind,
        due |-> IF kind = was.kind THEN was.due ELSE None,
        oldCall |-> IF fromComment THEN call ELSE was.oldCall,
        oldClient |-> IF fromComment THEN client ELSE was.oldClient,
        fixes |-> was.fixes + 1]

\* handleCorrectEvent, whether the lead became a project or not.  Only three
\* kinds take a date, and they need one when the kind changes.
Correct(i, kind, d) ==
    LET dated == kind \in {"callback_requested", "no_answer", "thinking"}
        after == Redone(Undone(i), kind)
        sameDate == kind = log[i].kind /\ d # None /\ Latest(StatusKinds) = i
    IN /\ ~archived
       /\ log[i].kind \in Correctable /\ log[i].fixes < MaxFixes
       /\ IF dated THEN d # None \/ kind = log[i].kind ELSE d = None
       /\ IF MovesLead(i, kind)
          THEN /\ call' = after.call /\ client' = after.client /\ due' = d
               /\ v2' = Derive(after.client, after.call)
          ELSE /\ due' = IF sameDate /\ ~IsTerminal(client) THEN d ELSE due
               /\ UNCHANGED <<call, client, v2>>
       /\ log' = [log EXCEPT ![i] = Rewritten(i, kind, MovesLead(i, kind))]
       /\ diverged' = (diverged \/ (kind # log[i].kind /\ ~MovesLead(i, kind)))
       /\ UNCHANGED <<overtaken, project, dup, archived, visits, archiveVars>>

\* handleDeleteEvent: the lead keeps what the entry did to it.
DeleteEntry(i) ==
    /\ ~archived
    /\ log[i].kind \notin NoEntry
    /\ log' = [log EXCEPT ![i] = Gone]
    /\ diverged' = TRUE
    /\ UNCHANGED <<leadVars, visits, archiveVars, overtaken>>

----------------------------------------------------------------------------
(* Projects, duplicates, archive *)

\* handleCreateProject: reminders and visits stay.
CreateProject ==
    /\ ~archived /\ ~project
    /\ client # "closed_lost"
    /\ project' = TRUE /\ v2' = "project"
    /\ UNCHANGED <<call, client, due, dup, archived, visits, archiveVars, logVars>>

\* handleMarkLeadDuplicate: closes an open lead, keeps a lost one as it is.
MarkDuplicate ==
    /\ ~archived /\ ~dup
    /\ client # "contract_signed" /\ v2 # "project"
    /\ dup' = TRUE
    /\ IF client = "closed_lost"
       THEN UNCHANGED <<client, due, v2, visits, logVars>>
       ELSE ApplyClientStatus("closed_lost", None)
    /\ UNCHANGED <<call, project, archived, archiveVars>>

\* handleArchiveLead cancels the scheduled visits it sees before it touches the
\* lead row, so a handler that holds the row may still commit in between.
BeginArchive ==
    /\ ~archiving
    /\ archiving' = TRUE /\ seen' = visits
    /\ UNCHANGED <<leadVars, visits, logVars>>

Archive ==
    /\ archiving
    /\ archived' = TRUE /\ visits' = visits \ seen
    /\ archiving' = FALSE /\ seen' = {}
    /\ UNCHANGED <<call, client, due, v2, project, dup, logVars>>

\* A database error, or a deadlock with a handler that waits for a visit.
AbandonArchive ==
    /\ archiving
    /\ archiving' = FALSE /\ seen' = {}
    /\ UNCHANGED <<leadVars, visits, logVars>>

\* handleRestoreLead
Restore ==
    /\ archived
    /\ archived' = FALSE
    /\ UNCHANGED <<call, client, due, v2, project, dup, visits, archiveVars, logVars>>

----------------------------------------------------------------------------
Next ==
    \/ \E d \in Dates \cup {None} :
        \/ \E k \in CallStatuses : CallStatus(k, d)
        \/ Comment(d)
        \/ \E s \in ClientStatuses \ {"new_lead", "measurement_scheduled"} : ClientStatus(s, d)
        \/ \E s \in DOMAIN V2CallResults : V2Call(s, d)
        \/ \E i \in Ids, kind \in Correctable : Correct(i, kind, d)
    \/ ClearCallback \/ ClearComment \/ Reopen \/ V2Invited \/ V2Lost
    \/ \E d \in Dates : V2Thinking(d)
    \/ \E kind \in VisitKinds \ {"office_work"} : ClearVisit(kind) \/ BookVisit(kind)
    \/ BookOfficeWork
    \/ \E kind \in VisitKinds : EndVisit(kind)
    \/ \E i \in Ids : DeleteEntry(i)
    \/ CreateProject \/ MarkDuplicate
    \/ BeginArchive \/ Archive \/ AbandonArchive \/ Restore

Spec == Init /\ [][Next]_vars

----------------------------------------------------------------------------
(* Properties *)

\* "Closed leads must not carry reminders" (20260814120000_close_lead): whichever
\* handler closed the lead, and whatever corrections, comments, bookings or an
\* archiving that was under way do, no date and no scheduled visit is left.
TerminalClean == IsTerminal(client) => due = None /\ visits = {}

\* Both generations of the CRM agree on which leads are lost: v1 closes them,
\* v2 loses them, corrections, projects and appointments never split the two.
LostInStep == client = "closed_lost" <=> v2 = "lost"

\* A lead marked as a duplicate stays closed until it is reopened, which makes it
\* a lead of its own again (duplicates.go, activities.go:946).
DuplicateIsClosed == dup => client = "closed_lost"

\* A closed lead only comes back by reopening, which starts it over; correcting
\* or deleting the entries of its history never brings it back.
ClosedUntilReopened ==
    [][IsTerminal(client) =>
        \/ client' = client
        \/ client' = "new_lead" /\ call' = "none" /\ due' = None /\ v2' = "new"]_vars

\* What the timeline says of the lead: its latest call result, and whether its
\* latest client status is "thinking".
Explained ==
    LET lastCall == Latest(CallStatuses)
        lastClient == Latest({"thinking", "status"})
    IN /\ call = IF lastCall = 0 THEN "none" ELSE log[lastCall].kind
       /\ client = "thinking" <=> lastClient # 0 /\ log[lastClient].kind = "thinking"

\* The lead follows its timeline through every mix of activities, bookings and
\* corrections of its latest entry, as long as no entry is corrected twice and no
\* call result overtakes a call result, no client status a client status: of two
\* that overlap the lead keeps the one committed last, and the timeline ends with
\* the one begun last (activities.go:245, 268, 939).
TimelineExplainsLead ==
    ~diverged /\ ~overtaken /\ (\A i \in Ids : log[i].fixes < 2) => Explained

\* "When the corrected entry is the lead's latest status entry, the lead's status
\* follows the correction" (event_correction.go:17), the second time as well.
CorrectionsExplainLead == ~diverged /\ ~overtaken => Explained

=============================================================================
