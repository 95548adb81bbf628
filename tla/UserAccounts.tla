---------------------------- MODULE UserAccounts ----------------------------
(***************************************************************************)
(* Super admins create, deactivate, reactivate and delete users            *)
(* (internal/crmapi/users.go).  A user lives in two stores: the profile in *)
(* Postgres and the account of the Supabase Auth service, which only the   *)
(* Auth admin API changes.  Each request does one after the other and      *)
(* compensates when the second one fails; meanwhile managers take leads.   *)
(*                                                                         *)
(* auth.users lives in the same database: a trigger inserts the profile    *)
(* with the account and the foreign key removes it, so one variable says   *)
(* whether both exist.  Super admins (never deactivated nor deleted) and   *)
(* archived leads are left out, and so is PATCH /v1/users/{userId}: names, *)
(* roles, offices and e-mail.                                              *)
(***************************************************************************)
EXTENDS Naturals

CONSTANTS
    Admins,        \* concurrent requests of super admins
    Editors,       \* concurrent PATCH /v1/leads/{leadId}, one lead dialog each
    Workers,       \* concurrent activities and bookings
    People,        \* users.id; an id is never used again
    Leads,
    Nobody,        \* no assignee
    MaxVersion     \* bound of leads.version

ASSUME NobodyAssumption == Nobody \notin People
ASSUME VersionAssumption == MaxVersion \in Nat \ {0}

VARIABLES
    account,       \* account[u]: auth.users and its profile
    active,        \* profiles.is_active
    banned,        \* the account's ban in the Auth service
    placed,        \* u has a row in user_office_memberships
    assigned,      \* leads.assigned_to
    version,       \* leads.version
    request,       \* request[a]: what an admin's request does, and where it is
    edit,          \* edit[e]: a lead dialog and the request that saves it
    work,          \* work[w]: the manager w was authenticated or checked as
    disturbed      \* history: users of overlapping, lost or cut off requests

people == <<account, active, banned, placed>>
leads == <<assigned, version>>
vars == <<people, leads, request, edit, work, disturbed>>

Assignees == People \cup {Nobody}
Steps == {"idle", "set", "set auth", "undo", "new", "discard", "delete"}

Request == [pc : Steps, user : Assignees, want : BOOLEAN, was : BOOLEAN]
Edit == [pc : {"idle", "open", "read", "ready"}, lead : Leads, base : 1..MaxVersion,
         seen : Assignees, next : Assignees, check : BOOLEAN]

Idle == [pc |-> "idle", user |-> Nobody, want |-> FALSE, was |-> FALSE]

TypeOK ==
    /\ account \in [People -> {"unknown", "open", "gone"}]
    /\ active \in [People -> BOOLEAN]
    /\ banned \in [People -> BOOLEAN]
    /\ placed \in [People -> BOOLEAN]
    /\ assigned \in [Leads -> Assignees]
    /\ version \in [Leads -> 1..MaxVersion]
    /\ request \in [Admins -> Request]
    /\ edit \in [Editors -> Edit]
    /\ work \in [Workers -> Assignees]
    /\ disturbed \subseteq People
    /\ \A a \in Admins : request[a].pc # "idle" => request[a].user \in People
    /\ \A l \in Leads : assigned[l] # Nobody => account[assigned[l]] = "open"

\* The dialog d is closed.
Closed(d) == [d EXCEPT !.pc = "idle", !.base = 1, !.seen = Nobody, !.next = Nobody,
                       !.check = FALSE]

\* The assignee a handler accepts (the offices are one).
Eligible(u) == account[u] = "open" /\ active[u] /\ placed[u]

Init ==
    /\ account \in [People -> {"unknown", "open"}]
    /\ active \in {f \in [People -> BOOLEAN] :
                     \A u \in People : f[u] => account[u] = "open"}
    /\ banned = [u \in People |-> account[u] = "open" /\ ~active[u]]
    /\ placed = [u \in People |-> account[u] = "open"]
    /\ assigned \in {f \in [Leads -> Assignees] :
                       \A l \in Leads : f[l] # Nobody => Eligible(f[l])}
    /\ version = [l \in Leads |-> 1]
    /\ request = [a \in Admins |-> Idle]
    /\ edit \in {f \in [Editors -> Edit] : \A e \in Editors :
                   f[e] = Closed(f[e])}
    /\ work = [w \in Workers |-> Nobody]
    /\ disturbed = {}

Busy(u) == \E a \in Admins : request[a].pc # "idle" /\ request[a].user = u

Begin(a, u, pc, want) ==
    /\ request[a].pc = "idle"
    /\ request' = [request EXCEPT ![a] = [pc |-> pc, user |-> u, want |-> want,
                                          was |-> want]]
    /\ disturbed' = IF Busy(u) THEN disturbed \cup {u} ELSE disturbed

At(a, pc) == request[a].pc = pc
Goto(a, pc) == request' = [request EXCEPT ![a].pc = pc]
Answer(a) == request' = [request EXCEPT ![a] = Idle]
Disturb(a) == disturbed' = disturbed \cup {request[a].user}
Quietly == UNCHANGED disturbed

-----------------------------------------------------------------------------
(* POST /v1/users/{userId}/deactivate and /reactivate.                     *)

\* The checks read outside the transaction; that the user already has the wanted
\* status is no reason to stop.
SetActive(a, u, want) ==
    /\ account[u] = "open"
    /\ Begin(a, u, "set", want)
    /\ UNCHANGED <<people, leads, edit, work>>

\* The clearing of the leads does not count up their version.
SetProfile(a) ==
    LET u == request[a].user
    IN  /\ account[u] = "open"
        /\ active' = [active EXCEPT ![u] = request[a].want]
        /\ assigned' = [l \in Leads |-> IF ~request[a].want /\ assigned[l] = u
                                        THEN Nobody ELSE assigned[l]]
        /\ UNCHANGED <<account, banned, placed, version, edit, work>>

SetCommit(a) ==
    /\ At(a, "set")
    /\ SetProfile(a)
    /\ request' = [request EXCEPT ![a].pc = "set auth",
                                  ![a].was = active[request[a].user]]
    /\ Quietly

\* The transaction fails, or finds no row: in the latter case the Auth service is
\* asked all the same, knows nobody, and the undoing changes no row either.
SetFails(a) ==
    /\ At(a, "set")
    /\ Answer(a)
    /\ Quietly
    /\ UNCHANGED <<people, leads, edit, work>>

\* It commits but the answer is lost: the Auth service is never asked.
SetCommitLost(a) ==
    /\ At(a, "set")
    /\ SetProfile(a)
    /\ Answer(a)
    /\ Disturb(a)

\* The Auth service bans or lifts the ban; a lost answer is taken for a failure.
SetBan(a) ==
    LET u == request[a].user
    IN  /\ At(a, "set auth")
        /\ account[u] = "open"
        /\ banned' = [banned EXCEPT ![u] = ~request[a].want]
        /\ \/ Answer(a) /\ Quietly
           \/ Goto(a, "undo") /\ Disturb(a)
        /\ UNCHANGED <<account, active, placed, leads, edit, work>>

SetBanRefused(a) ==
    /\ At(a, "set auth")
    /\ Goto(a, "undo")
    /\ Quietly
    /\ UNCHANGED <<people, leads, edit, work>>

\* Without the negation of the wanted status.
BadUndo(a) ==
    /\ At(a, "undo")
    /\ active' = [active EXCEPT ![request[a].user] = request[a].want]
    /\ Answer(a)
    /\ IF request[a].was = request[a].want THEN Disturb(a) ELSE Quietly
    /\ UNCHANGED <<account, banned, placed, leads, edit, work>>

\* The compensation writes the opposite of what was asked, whatever was there
\* before, and gives no lead back.
Undo(a) ==
    LET u == request[a].user
    IN  /\ At(a, "undo")
        /\ active' = IF account[u] = "open"
                     THEN [active EXCEPT ![u] = ~request[a].want] ELSE active
        /\ Answer(a)
        /\ IF request[a].was = request[a].want THEN Disturb(a) ELSE Quietly
        /\ UNCHANGED <<account, banned, placed, leads, edit, work>>

\* It is only logged when it fails, as it does once the client is gone: it runs
\* under the context of the request.
UndoFails(a) ==
    /\ At(a, "undo")
    /\ Answer(a)
    /\ Disturb(a)
    /\ UNCHANGED <<people, leads, edit, work>>

-----------------------------------------------------------------------------
(* POST /v1/users and POST /v1/users/{userId}/delete.                      *)

\* The trigger on auth.users inserts an active profile without an office.
CreateAccount(a, u) ==
    /\ account[u] = "unknown"
    /\ request[a].pc = "idle"
    /\ account' = [account EXCEPT ![u] = "open"]
    /\ active' = [active EXCEPT ![u] = TRUE]
    /\ \/ Begin(a, u, "new", TRUE)
       \/ /\ UNCHANGED request              \* the answer is lost
          /\ disturbed' = disturbed \cup {u}
    /\ UNCHANGED <<banned, placed, leads, edit, work>>

CreateProfile(a) ==
    LET u == request[a].user
    IN  /\ At(a, "new")
        /\ account[u] = "open"
        /\ active' = [active EXCEPT ![u] = TRUE]
        /\ placed' = [placed EXCEPT ![u] = TRUE]
        /\ Answer(a) \/ Goto(a, "discard")  \* discarded when the answer is lost
        /\ Quietly
        /\ UNCHANGED <<account, banned, leads, edit, work>>

CreateFails(a) ==
    /\ At(a, "new")
    /\ Goto(a, "discard")
    /\ Quietly
    /\ UNCHANGED <<people, leads, edit, work>>

\* The foreign keys remove the profile, its offices and its leads' assignee.
Remove(u) ==
    /\ account' = [account EXCEPT ![u] = "gone"]
    /\ active' = [active EXCEPT ![u] = FALSE]
    /\ placed' = [placed EXCEPT ![u] = FALSE]
    /\ banned' = [banned EXCEPT ![u] = FALSE]
    /\ assigned' = [l \in Leads |-> IF assigned[l] = u THEN Nobody ELSE assigned[l]]
    /\ UNCHANGED version

\* The error of the clean-up is not looked at.
Discard(a) ==
    /\ At(a, "discard")
    /\ \/ Remove(request[a].user) /\ Quietly
       \/ UNCHANGED <<people, leads>> /\ Disturb(a)
    /\ Answer(a)
    /\ UNCHANGED <<edit, work>>

\* Only an inactive user is deleted, as of this read.
DeleteUser(a, u) ==
    /\ account[u] = "open"
    /\ ~active[u]
    /\ Begin(a, u, "delete", FALSE)
    /\ UNCHANGED <<people, leads, edit, work>>

DeleteAccount(a) ==
    /\ At(a, "delete")
    /\ \/ Remove(request[a].user)
       \/ UNCHANGED <<people, leads>>       \* refused
    /\ Answer(a)
    /\ Quietly
    /\ UNCHANGED <<edit, work>>

-----------------------------------------------------------------------------
(* Managers give and take leads.                                           *)

OpenLead(e, l) ==
    /\ edit[e].pc = "idle"
    /\ edit' = [edit EXCEPT ![e] = [pc |-> "open", lead |-> l, base |-> version[l],
                                    seen |-> assigned[l], next |-> assigned[l],
                                    check |-> TRUE]]
    /\ UNCHANGED <<people, leads, request, work, disturbed>>

\* The current assignee is read before the transaction begins; only a new one is
\* checked, and none that a super admin (admin) names.
SaveLead(e, next, admin) ==
    LET cur == assigned[edit[e].lead]
    IN  /\ edit[e].pc = "open"
        /\ edit' = [edit EXCEPT ![e].pc = "read", ![e].next = next,
                                ![e].check = ~admin /\ next \notin {cur, Nobody}]
        /\ UNCHANGED <<people, leads, request, work, disturbed>>

CheckAssignee(e) ==
    /\ edit[e].pc = "read"
    /\ edit' = [edit EXCEPT ![e] = IF @.check => Eligible(@.next)
                                   THEN [@ EXCEPT !.pc = "ready"] ELSE Closed(@)]
    /\ UNCHANGED <<people, leads, request, work, disturbed>>

\* Without the version in the where clause.
BadWritten(e) == edit[e].next # Nobody => account[edit[e].next] = "open"

\* The version decides; a user who is gone fails the foreign key.
Written(e) ==
    /\ version[edit[e].lead] = edit[e].base
    /\ edit[e].next # Nobody => account[edit[e].next] = "open"

WriteLead(e) ==
    /\ edit[e].pc = "ready"
    /\ edit' = [edit EXCEPT ![e] = Closed(@)]
    /\ IF Written(e)
       THEN /\ version[edit[e].lead] < MaxVersion
            /\ assigned' = [assigned EXCEPT ![edit[e].lead] = edit[e].next]
            /\ version' = [version EXCEPT ![edit[e].lead] = @ + 1]
       ELSE UNCHANGED leads
    /\ UNCHANGED <<people, request, work, disturbed>>

\* A manager starts an activity, or a booking's responsible manager is checked.
StartWork(w, u) ==
    /\ work[w] = Nobody
    /\ Eligible(u)
    /\ work' = [work EXCEPT ![w] = u]
    /\ UNCHANGED <<people, leads, request, edit, disturbed>>

\* The lead row is locked; the manager gets it when nobody has it (the activities
\* that leave the assignee alone are not interesting here).
DoWork(w, l) ==
    LET u == work[w]
    IN  /\ u # Nobody
        /\ work' = [work EXCEPT ![w] = Nobody]
        /\ IF account[u] = "open"
           THEN /\ version[l] < MaxVersion
                /\ assigned' = [assigned EXCEPT ![l] = IF @ = Nobody THEN u ELSE @]
                /\ version' = [version EXCEPT ![l] = @ + 1]
           ELSE UNCHANGED leads
        /\ UNCHANGED <<people, request, edit, disturbed>>

\* The process stops: whatever an admin's request was to do next is not done.
Crash ==
    /\ disturbed' = disturbed \cup {u \in People : Busy(u)}
    /\ request' = [a \in Admins |-> Idle]
    /\ edit' = [e \in Editors |-> Closed(edit[e])]
    /\ work' = [w \in Workers |-> Nobody]
    /\ UNCHANGED <<people, leads>>

Admin(a) ==
    \/ \E u \in People : \/ \E want \in BOOLEAN : SetActive(a, u, want)
                         \/ CreateAccount(a, u)
                         \/ DeleteUser(a, u)
    \/ SetCommit(a) \/ SetFails(a) \/ SetCommitLost(a)
    \/ SetBan(a) \/ SetBanRefused(a) \/ Undo(a) \/ UndoFails(a)
    \/ CreateProfile(a) \/ CreateFails(a) \/ Discard(a) \/ DeleteAccount(a)

Editor(e) ==
    \/ \E l \in Leads : OpenLead(e, l)
    \/ \E next \in Assignees, admin \in BOOLEAN : SaveLead(e, next, admin)
    \/ CheckAssignee(e) \/ WriteLead(e)

Worker(w) == (\E u \in People : StartWork(w, u)) \/ (\E l \in Leads : DoWork(w, l))

Next ==
    \/ \E a \in Admins : Admin(a)
    \/ \E e \in Editors : Editor(e)
    \/ \E w \in Workers : Worker(w)
    \/ Crash

Spec == Init /\ [][Next]_vars

-----------------------------------------------------------------------------
(* What the handlers promise.                                              *)

\* Once no request about a user is running, the profile is active exactly when the
\* Auth service lets the user in, and the user has an office: a failure between the
\* two stores was compensated.  The exceptions are named: requests about the same
\* user overlapped, an answer was lost, the compensation failed, the process
\* stopped, or the failed request asked for the status the user already had.
AccountsAgree ==
    \A u \in People : account[u] = "open" /\ ~Busy(u) /\ u \notin disturbed =>
        active[u] = ~banned[u] /\ placed[u]

\* Saving a lead dialog takes the lead from the assignee the dialog showed, or from
\* nobody: a deactivation and a deletion in between clear the assignee without
\* counting up the version, everything else makes the dialog stale.
ReassignmentsAreSeen ==
    [][\A e \in Editors : edit[e].pc = "ready" /\ edit'[e].pc = "idle"
                           /\ version' # version =>
           assigned[edit[e].lead] \in {edit[e].seen, Nobody}]_vars

\* Violated: whom a checked reassignment makes the lead's manager is an active user when
\* the lead is written.  The check does not lock the profile, so the user can be
\* deactivated after it; the clearing of the user's leads comes before the write, finds
\* nothing to clear in this lead, and nothing clears it later.  Saves of super admins and
\* of an unchanged assignee, which are not checked on purpose, are not meant, and no
\* fault is needed.
CheckedAssigneeIsActive ==
    [][\A e \in Editors : /\ edit[e].pc = "ready" /\ edit[e].check
                           /\ edit'[e].pc = "idle" /\ version' # version
                           /\ edit[e].next \notin disturbed
           => active[edit[e].next]]_vars

=============================================================================
