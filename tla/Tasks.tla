------------------------------- MODULE Tasks --------------------------------
(***************************************************************************)
(* Manual tasks and task lists (internal/crmapi/tasks.go, task_lists.go),  *)
(* and the two ways they are read: the feed (task_feed.go), from which a   *)
(* person takes the version to edit, and the dashboard, which pages with a *)
(* cursor while tasks change and days end (dashboard_tasks.go).            *)
(*                                                                         *)
(* One office.  Ids are numbers, for the order by id; dates are            *)
(* office-local days; updated_at is the number of writes so far.           *)
(***************************************************************************)
EXTENDS Integers, FiniteSets

CONSTANTS
    TaskIds, Lists,
    TaskEdits,     \* one-shot PATCH requests
    Staff,         \* active users of any office
    Office,        \* those who reach the office of the tasks
    OfficeAdmins,  \* its office admins, and super admins
    SuperUsers,    \* the super admins, who reach every office and never leave
    Curators,
    Sections,      \* of the dashboard: important, future, done, canceled
    NewTasks,      \* list, date and time of the tasks people create
    LastDay,       \* bound of the calendar
    PageSize,      \* dashboardTasksPageSize, 50 in the code
    NoTask, NoPerson,
    Former         \* the null that the deletion of a user leaves: set apart from NoPerson
                   \* for the properties, and never told from it by an action

NoDay == LastDay + 1
SameDay == LastDay + 2
DueDates == 0..NoDay                 \* NoDay: no due date
NoList == 0
Closed == {"done", "canceled"}
Status == {"open"} \cup Closed
Named == Staff \cup {Former}
Row == [status : Status, inProgress : BOOLEAN, due : DueDates,
        timed : BOOLEAN, list : Lists \cup {NoList}, by : Named, assignee : Named,
        completedBy : Named \cup {NoPerson}, canceledBy : Named \cup {NoPerson},
        version : Nat, updated : Nat]

ASSUME TaskAssumption ==
    /\ TaskIds \subseteq Nat /\ IsFiniteSet(TaskIds)
    /\ LastDay \in Nat /\ PageSize \in Nat \ {0}
    /\ SuperUsers \subseteq OfficeAdmins /\ OfficeAdmins \subseteq Office
    /\ Office \subseteq Staff
    /\ NoPerson \notin Named /\ Former \notin Staff
    /\ NewTasks \subseteq [list : Lists \cup {NoList}, due : DueDates, timed : BOOLEAN]
    /\ NoTask \notin Row

VARIABLES
    task,          \* task[t]: the row
    person,        \* person[p]: "active", "inactive" or "deleted"
    listOwner,     \* listOwner[l]: its owner_id, NoPerson before it is created
    listVersion,
    today,         \* office-local date
    writes,        \* tasks written so far: the clock of updated_at
    patching,      \* patching[e]: who edits which version of which task ("loaded") or
                   \* list ("opened"); fresh is history: nobody wrote it since
    walk           \* a reader who follows the dashboard's cursors

lists == <<listOwner, listVersion>>
taskVars == <<task, person, lists, today, writes, patching, walk>>

NoPatch == [step |-> "new", who |-> NoPerson, id |-> 0, version |-> 0, fresh |-> FALSE]

NoWalk == [section |-> "none", manager |-> NoPerson, cursor |-> <<>>, open |-> FALSE,
           times |-> [t \in TaskIds |-> 0], steady |-> {}]

TaskTypeOK ==
    /\ task \in [TaskIds -> Row \cup {NoTask}]
    /\ person \in [Staff -> {"active", "inactive", "deleted"}]
    /\ listOwner \in [Lists -> Named \cup {NoPerson}]
    /\ listVersion \in [Lists -> Nat]
    /\ today \in 0..LastDay /\ writes \in Nat
    /\ \A e \in TaskEdits :
        /\ patching[e].step \in {"new", "loaded", "opened", "done"}
        /\ patching[e].version \in Nat /\ patching[e].fresh \in BOOLEAN
    /\ walk.section \in Sections \cup {"none"}
    /\ walk.manager \in Staff \cup {NoPerson} /\ walk.open \in BOOLEAN
    /\ walk.times \in [TaskIds -> Nat] /\ walk.steady \subseteq TaskIds

TaskInit ==
    /\ task = [t \in TaskIds |-> NoTask]
    /\ person = [p \in Staff |-> "active"]
    /\ listOwner = [l \in Lists |-> NoPerson]
    /\ listVersion = [l \in Lists |-> 0]
    /\ today = 0 /\ writes = 0
    /\ patching = [e \in TaskEdits |-> NoPatch]
    /\ walk = NoWalk

----------------------------------------------------------------------------
(* Who may do what *)

OwnsListOf(p, t) == task[t].list # NoList /\ listOwner[task[t].list] = p
canManageTask(p, t) == p \in Office \/ OwnsListOf(p, t)
canEditTaskContent(p, t) ==
    p \in OfficeAdmins \cup {task[t].by, task[t].assignee} \/ OwnsListOf(p, t)

(* The sections and the order of the dashboard *)

\* Who a task is listed under: nobody ("unassigned") if its assignee is a super admin,
\* is inactive or was deleted.
Manager(t) ==
    LET assignee == task[t].assignee
    IN IF assignee \in Office \ SuperUsers /\ person[assignee] = "active" THEN assignee
                                                                       ELSE NoPerson
InSection(t, s, manager, day) ==
    /\ task[t] # NoTask /\ Manager(t) = manager
    /\ CASE s = "important" -> task[t].status = "open" /\ (task[t].due = NoDay
                                                            \/ task[t].due <= day)
         [] s = "future" -> task[t].status = "open" /\ task[t].due \in day + 1..LastDay
         [] OTHER -> task[t].status = s

\* What the rows are ordered by, ascending: no date comes after today and before;
\* closed ones by updated_at and id, descending.
SortKey(t, s, day) ==
    LET due == task[t].due
        bucket == IF due = NoDay THEN 2 ELSE IF due < day THEN 0 ELSE 1
    IN IF s \in Closed THEN <<-task[t].updated, -t>>
                       ELSE <<bucket, due, t>>
Before(j, k) ==
    \E n \in DOMAIN j : j[n] < k[n] /\ \A m \in 1..n - 1 : j[m] = k[m]

----------------------------------------------------------------------------
(* handleCreateTask: with its idempotency key the request creates one task, and *)
(* replays its response later.                                                  *)

\* Whoever reads pages sees a row as steady until it, or the day it is sorted by,
\* changes.
Written(t) ==
    /\ writes' = writes + 1
    /\ walk' = [walk EXCEPT !.steady = @ \ {t}]

CreateTask(p, t, assignee, new) ==
    /\ task[t] = NoTask /\ p \in Office /\ person[p] = "active"
    /\ assignee \in Office /\ person[assignee] = "active"       \* taskAssigneeAllowed
    /\ new.timed => new.due # NoDay
    /\ new.list # NoList => listOwner[new.list] # NoPerson
    /\ task' = [task EXCEPT ![t] =
            [status |-> "open", inProgress |-> FALSE, due |-> new.due,
             timed |-> new.timed, list |-> new.list, by |-> p, assignee |-> assignee,
             completedBy |-> NoPerson, canceledBy |-> NoPerson,
             version |-> 1, updated |-> writes + 1]]
    /\ Written(t)
    /\ UNCHANGED <<person, lists, today, patching>>

----------------------------------------------------------------------------
(* The feed *)

\* taskFeedViewPredicate, and whose tasks each view is about.
InView(p, view, t) ==
    LET row == task[t] mine == row.assignee = p /\ p \in Office
    IN /\ row # NoTask /\ row.status # "canceled"
       /\ CASE view = "my_day" -> mine /\ IF row.status = "open" THEN row.due <= today
                                                                ELSE row.due = today
            [] view = "upcoming" -> mine /\ row.status = "open" /\ row.due > today
            [] view = "done" -> mine /\ row.status = "done"
            [] view = "all" -> /\ p \in OfficeAdmins \cup Curators /\ p \in Office
                               /\ row.status = "open" \/ row.due = today
            [] view = "list" -> row.list # NoList
Views == {"my_day", "upcoming", "done", "all", "list"}

\* GET /tasks/{id}: whoever may manage it, and everybody if it is of a list.
GetsTask(p, t) ==
    /\ task[t] # NoTask /\ task[t].status # "canceled"
    /\ canManageTask(p, t) \/ task[t].list # NoList \/ task[t].assignee = p

\* The dashboard's sections hold every task of the office, the canceled ones too.
OnDashboard(p, t) == task[t] # NoTask /\ p \in Office

LoadTask(e, p, t) ==
    /\ patching[e].step = "new" /\ person[p] = "active"
    /\ \/ \E view \in Views : InView(p, view, t)
       \/ GetsTask(p, t)
       \/ OnDashboard(p, t)
    /\ patching' = [patching EXCEPT ![e] = [step |-> "loaded", who |-> p, id |-> t,
                                            version |-> task[t].version,
                                            fresh |-> TRUE]]
    /\ UNCHANGED <<task, person, lists, today, writes, walk>>

----------------------------------------------------------------------------
(* handleUpdateTask *)

\* A partial update.  "", "keep", SameDay and NoPerson are fields that the request
\* does not have; those of the three groups do not meet in the code.  content says
\* that the title or the note changes, which themselves are left out.
NoChange == [status |-> "", inProgress |-> "keep", content |-> FALSE, due |-> SameDay,
             timed |-> "keep", assignee |-> NoPerson]
Patches ==
    {patch \in [status : Status \cup {""}, inProgress : {"keep", "yes", "no"},
                content : BOOLEAN, due : DueDates \cup {SameDay},
                timed : {"keep", "yes", "no"}, assignee : Office \cup {NoPerson}] :
        \/ [patch EXCEPT !.status = "", !.inProgress = "keep", !.content = FALSE] = NoChange
        \/ [patch EXCEPT !.due = SameDay, !.timed = "keep"] = NoChange
        \/ [patch EXCEPT !.assignee = NoPerson] = NoChange}

\* applyTaskPatch
Patched(row, patch) ==
    LET status == IF patch.status = "" THEN row.status ELSE patch.status
        kept == row.inProgress /\ (patch.status = "" \/ {status, row.status} = {"open"})
        due == IF patch.due = SameDay THEN row.due ELSE patch.due
    IN [row EXCEPT
        !.status = status,
        !.inProgress = IF patch.inProgress = "keep" THEN kept ELSE patch.inProgress = "yes",
        !.due = due,
        !.timed = CASE patch.timed = "keep" -> @ /\ due # NoDay
                    [] OTHER -> patch.timed = "yes",
        !.assignee = IF patch.assignee = NoPerson THEN @ ELSE patch.assignee]
Accepted(row, next, patch) ==
    /\ patch.inProgress = "yes" => next.status = "open"
    /\ next.timed => next.due # NoDay
    /\ next.assignee # row.assignee => person[next.assignee] = "active"

\* Who closed it: kept while it stays closed that way.
ClosedBy(row, next, p, how, who) ==
    IF next.status # how THEN NoPerson ELSE IF row.status = how THEN who ELSE p

PatchDone(e, written) ==
    patching' = [f \in TaskEdits |->
        IF f = e THEN [NoPatch EXCEPT !.step = "done"]
        ELSE [patching[f] EXCEPT !.fresh = @ /\ ~(/\ written
                                                   /\ patching[f].step = patching[e].step
                                                   /\ patching[f].id = patching[e].id)]]

\* A mutated form (Bad..., Hasty...): a plausible bug for the mutation runs.
HastyUpdateTask(e) ==
    LET t == patching[e].id p == patching[e].who row == task[t]
    IN /\ patching[e].step = "loaded" /\ person[p] # "deleted"
       /\ canManageTask(p, t)
       /\ \E patch \in Patches \ {NoChange} :
            LET next == Patched(row, patch)
            IN /\ Accepted(row, next, patch)
               /\ patch.content => canEditTaskContent(p, t)
               /\ task' = [task EXCEPT ![t] = [next EXCEPT
                    !.completedBy = ClosedBy(row, next, p, "done", row.completedBy),
                    !.canceledBy = ClosedBy(row, next, p, "canceled", row.canceledBy),
                    !.version = @ + 1, !.updated = writes + 1]]
       /\ Written(t) /\ PatchDone(e, TRUE)
       /\ UNCHANGED <<person, lists, today>>
\* A sender who became inactive may have been let in before; the name of a deleted one
\* cannot be stored.
UpdateTask(e) ==
    LET t == patching[e].id p == patching[e].who row == task[t]
    IN /\ patching[e].step = "loaded" /\ person[p] # "deleted"
       /\ canManageTask(p, t) /\ patching[e].version = row.version   \* If-Match
       /\ \E patch \in Patches \ {NoChange} :
            LET next == Patched(row, patch)
            IN /\ Accepted(row, next, patch)
               /\ patch.content => canEditTaskContent(p, t)
               /\ task' = [task EXCEPT ![t] = [next EXCEPT
                    !.completedBy = ClosedBy(row, next, p, "done", row.completedBy),
                    !.canceledBy = ClosedBy(row, next, p, "canceled", row.canceledBy),
                    !.version = @ + 1, !.updated = writes + 1]]
       /\ Written(t) /\ PatchDone(e, TRUE)
       /\ UNCHANGED <<person, lists, today>>

\* Denied, a version conflict, an invalid patch.
RefuseEdit(e) ==
    /\ patching[e].step \in {"loaded", "opened"}
    /\ PatchDone(e, FALSE)
    /\ UNCHANGED <<task, person, lists, today, writes, walk>>

----------------------------------------------------------------------------
(* handleCreateTaskList, handleUpdateTaskList (of which the owner matters here). *)

CreateList(l, owner) ==
    /\ listOwner[l] = NoPerson /\ person[owner] = "active"    \* requireTaskListOwner
    /\ listOwner' = [listOwner EXCEPT ![l] = owner]
    /\ listVersion' = [listVersion EXCEPT ![l] = 1]
    /\ UNCHANGED <<task, person, today, writes, patching, walk>>

OpenList(e, p, l) ==
    /\ patching[e].step = "new" /\ person[p] = "active" /\ listOwner[l] # NoPerson
    /\ patching' = [patching EXCEPT ![e] = [step |-> "opened", who |-> p, id |-> l,
                                            version |-> listVersion[l], fresh |-> TRUE]]
    /\ UNCHANGED <<task, person, lists, today, writes, walk>>

GiveList(e, owner) ==
    LET l == patching[e].id p == patching[e].who
    IN /\ patching[e].step = "opened" /\ person[p] # "deleted"
       /\ p = listOwner[l] \/ p \in SuperUsers                  \* canEditTaskList
       /\ patching[e].version = listVersion[l]                  \* If-Match
       /\ person[owner] = "active"
       /\ listOwner' = [listOwner EXCEPT ![l] = owner]
       /\ listVersion' = [listVersion EXCEPT ![l] = @ + 1]
       /\ PatchDone(e, TRUE)
       /\ UNCHANGED <<task, person, today, writes, walk>>

----------------------------------------------------------------------------
(* handleSetUserActive and handleDeleteUser, as tasks see them, and the day that ends *)

\* The tasks of p move to "unassigned", or back.
SetUserActive(p, active) ==
    /\ p \notin SuperUsers
    /\ person[p] = IF active THEN "inactive" ELSE "active"
    /\ person' = [person EXCEPT ![p] = IF active THEN "active" ELSE "inactive"]
    /\ walk' = [walk EXCEPT !.steady = {t \in @ : task[t].assignee # p}]
    /\ UNCHANGED <<task, lists, today, writes, patching>>

\* The profile goes, and every reference to it is set to null, with no new version.
Without(p, x) == IF x = p THEN Former ELSE x
DeleteUser(p) ==
    /\ p \notin SuperUsers /\ person[p] = "inactive"
    /\ person' = [person EXCEPT ![p] = "deleted"]
    /\ task' = [t \in TaskIds |-> IF task[t] = NoTask THEN NoTask ELSE
            [task[t] EXCEPT !.by = Without(p, @), !.assignee = Without(p, @),
                            !.completedBy = Without(p, @), !.canceledBy = Without(p, @)]]
    /\ listOwner' = [l \in Lists |-> Without(p, listOwner[l])]
    /\ UNCHANGED <<listVersion, today, writes, patching, walk>>

\* A new day moves rows between buckets and sections under an open walk.
Midnight ==
    LET s == walk.section
        Same(t) == /\ InSection(t, s, walk.manager, today + 1)
                   /\ SortKey(t, s, today) = SortKey(t, s, today + 1)
    IN /\ today < LastDay
       /\ today' = today + 1
       /\ walk' = [walk EXCEPT !.steady = {t \in @ : Same(t)}]
       /\ UNCHANGED <<task, person, lists, writes, patching>>

----------------------------------------------------------------------------
(* handleDashboardManagerTasks *)

StartWalk(s, manager) ==
    /\ walk.section = "none"
    /\ walk' = [NoWalk EXCEPT !.section = s, !.manager = manager, !.open = TRUE,
                    !.steady = {t \in TaskIds : InSection(t, s, manager, today)}]
    /\ UNCHANGED <<task, person, lists, today, writes, patching>>

\* The rows after the cursor, in order: a page, and one more to know there is more.
Remaining == {t \in TaskIds :
    /\ InSection(t, walk.section, walk.manager, today)
    /\ walk.cursor = <<>> \/ Before(walk.cursor, SortKey(t, walk.section, today))}
Rank(t) == Cardinality({u \in Remaining : Before(SortKey(u, walk.section, today),
                                                 SortKey(t, walk.section, today))})
BadNextPage ==
    LET page == {t \in Remaining : Rank(t) < PageSize}
        more == Remaining # page
        last == CHOOSE t \in Remaining : Rank(t) = PageSize
    IN /\ walk.open
       /\ walk' = [walk EXCEPT
            !.times = [t \in TaskIds |-> IF t \in page THEN @[t] + 1 ELSE @[t]],
            !.open = more,
            !.cursor = IF more THEN SortKey(last, walk.section, today) ELSE <<>>]
       /\ UNCHANGED <<task, person, lists, today, writes, patching>>
NextPage ==
    LET page == {t \in Remaining : Rank(t) < PageSize}
        more == Remaining # page
        last == CHOOSE t \in page : Rank(t) = PageSize - 1
    IN /\ walk.open
       /\ walk' = [walk EXCEPT
            !.times = [t \in TaskIds |-> IF t \in page THEN @[t] + 1 ELSE @[t]],
            !.open = more,
            !.cursor = IF more THEN SortKey(last, walk.section, today) ELSE <<>>]
       /\ UNCHANGED <<task, person, lists, today, writes, patching>>

----------------------------------------------------------------------------
TaskNext ==
    \/ \E p \in Staff, t \in TaskIds :
        \/ \E assignee \in Office, new \in NewTasks : CreateTask(p, t, assignee, new)
        \/ \E e \in TaskEdits : LoadTask(e, p, t)
    \/ \E e \in TaskEdits :
        \/ UpdateTask(e) \/ RefuseEdit(e)
        \/ \E p \in Staff, l \in Lists : OpenList(e, p, l)
        \/ \E owner \in Staff : GiveList(e, owner)
    \/ \E l \in Lists, owner \in Staff : CreateList(l, owner)
    \/ \E p \in Staff : DeleteUser(p) \/ \E active \in BOOLEAN : SetUserActive(p, active)
    \/ Midnight
    \/ \E s \in Sections, manager \in Office \cup {NoPerson} : StartWalk(s, manager)
    \/ NextPage

TaskSpec == TaskInit /\ [][TaskNext]_taskVars

----------------------------------------------------------------------------
(* Properties *)

\* Whoever follows the dashboard's cursors to the end has read every task once that
\* stayed where it was, whatever happened to the others between two pages: users leave,
\* tasks are written, days end.  Rows whose bucket a day's end changes, and those of a
\* user who becomes active or inactive, are not covered (dashboard_tasks.go:185).
PagesListEverything ==
    walk.section # "none" /\ ~walk.open => \A t \in walk.steady : walk.times[t] = 1

\* After any sequence of partial updates, reopened and cancelled tasks among them: a task
\* in progress is open, one with a time has a date, and who closed it is stored exactly
\* while it is closed that way.  Who was deleted since is stored as null in the code,
\* Former here: a closed task without a name is one whose closer was deleted.
TaskIsConsistent ==
    \A t \in TaskIds : task[t] # NoTask =>
        /\ task[t].inProgress => task[t].status = "open"
        /\ task[t].timed => task[t].due # NoDay
        /\ (task[t].completedBy # NoPerson) = (task[t].status = "done")
        /\ (task[t].canceledBy # NoPerson) = (task[t].status = "canceled")

\* An update replaces the row that its sender saw, or none: nobody's change of a task, or
\* of a list's owner, is overwritten by a person who did not know of it.  The deletion
\* of a user takes the user's name from the rows behind every version.
NoLostTaskUpdate ==
    [][/\ \A t \in TaskIds : task[t] # NoTask /\ task'[t] # task[t] =>
            \/ \E e \in TaskEdits : patching[e].step = "loaded" /\ patching'[e].step = "done"
                                      /\ patching[e].id = t /\ patching[e].fresh
            \/ \E p \in Staff : person[p] = "inactive" /\ person'[p] = "deleted"
       /\ \A l \in Lists : listOwner[l] # NoPerson /\ listOwner'[l] # listOwner[l] =>
            \/ \E e \in TaskEdits : patching[e].step = "opened" /\ patching'[e].step = "done"
                                      /\ patching[e].id = l /\ patching[e].fresh
            \/ \E p \in Staff : person[p] = "inactive" /\ person'[p] = "deleted"]_taskVars

=============================================================================
