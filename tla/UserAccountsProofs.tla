------------------------- MODULE UserAccountsProofs -------------------------
(***************************************************************************)
(* The profile and the Auth account of a user agree unless a named         *)
(* disturbance met the requests about that user.  The invariant says what  *)
(* the only running request about an undisturbed user has done so far.     *)
(***************************************************************************)
EXTENDS UserAccounts, TLAPS

On(a, u) == request[a].pc # "idle" /\ request[a].user = u

\* What request a has done to its user u in the two stores.
Midway(a, u) ==
    /\ request[a].pc \in {"set", "delete"} => active[u] = ~banned[u] /\ placed[u]
    /\ request[a].pc \in {"set auth", "undo"} =>
           active[u] = request[a].want /\ banned[u] = ~request[a].was /\ placed[u]
    /\ request[a].pc = "new" => active[u] /\ ~banned[u]

\* An undisturbed user has at most one request running, which got as far as Midway
\* says; without one the two stores agree.
Explained(u) ==
    /\ \A a, b \in Admins : On(a, u) /\ On(b, u) => a = b
    /\ account[u] = "open" => \A a \in Admins : On(a, u) => Midway(a, u)
    /\ account[u] = "open" /\ ~Busy(u) => active[u] = ~banned[u] /\ placed[u]

Unbanned == \A u \in People : account[u] # "open" => ~banned[u]

IInv == TypeOK /\ Unbanned /\ \A u \in People \ disturbed : Explained(u)
-----------------------------------------------------------------------------
LEMMA InitIInv == Init => IInv
<1> SUFFICES ASSUME Init PROVE IInv
    OBVIOUS
<1> USE NobodyAssumption, VersionAssumption
<1>1. TypeOK
    <2>1. request \in [Admins -> Request]
        BY DEF Init, Idle, Request, Steps, Assignees
    <2>2. edit \in [Editors -> Edit] /\ work \in [Workers -> Assignees]
        BY DEF Init, Assignees
    <2>3. account \in [People -> {"unknown", "open", "gone"}] /\ active \in [People -> BOOLEAN]
          /\ banned \in [People -> BOOLEAN] /\ placed \in [People -> BOOLEAN]
          /\ disturbed \subseteq People
        BY DEF Init
    <2>4. assigned \in [Leads -> Assignees] /\ version \in [Leads -> 1..MaxVersion]
        BY DEF Init
    <2>5. \A a \in Admins : request[a].pc # "idle" => request[a].user \in People
        BY DEF Init, Idle
    <2>6. \A l \in Leads : assigned[l] # Nobody => account[assigned[l]] = "open"
        BY DEF Init, Eligible
    <2> QED
        BY <2>1, <2>2, <2>3, <2>4, <2>5, <2>6 DEF TypeOK
<1>2. Unbanned
    BY DEF Init, Unbanned
<1>3. ASSUME NEW u \in People
      PROVE  Explained(u)
    <2>1. ~Busy(u) /\ \A a \in Admins : ~On(a, u)
        BY DEF Init, Idle, On, Busy
    <2>2. account[u] = "open" => active[u] = ~banned[u] /\ placed[u]
        BY DEF Init
    <2> QED
        BY <2>1, <2>2 DEF Explained
<1> QED
    BY <1>1, <1>2, <1>3 DEF IInv

-----------------------------------------------------------------------------
(* Type correctness, one group of variables at a time.                     *)

TypeRequest ==
    /\ request \in [Admins -> Request]
    /\ \A a \in Admins : request[a].pc # "idle" => request[a].user \in People
    /\ disturbed \subseteq People

TypePeople ==
    /\ account \in [People -> {"unknown", "open", "gone"}]
    /\ active \in [People -> BOOLEAN]
    /\ banned \in [People -> BOOLEAN]
    /\ placed \in [People -> BOOLEAN]

TypeLeads ==
    /\ assigned \in [Leads -> Assignees]
    /\ version \in [Leads -> 1..MaxVersion]
    /\ \A l \in Leads : assigned[l] # Nobody => account[assigned[l]] = "open"

TypeDialogs == edit \in [Editors -> Edit] /\ work \in [Workers -> Assignees]

\* Closing a dialog leaves a dialog.
LEMMA ClosedIsEdit == \A d \in Edit : Closed(d) \in Edit
<1> SUFFICES ASSUME NEW d \in Edit PROVE Closed(d) \in Edit
    OBVIOUS
<1>1. 1 \in 1..MaxVersion
    BY VersionAssumption
<1>2. Nobody \in Assignees
    BY DEF Assignees
<1> QED
    BY <1>1, <1>2 DEF Closed, Edit

\* An admin's step starts, moves or ends one request.
LEMMA AdminTypes ==
    ASSUME TypeOK, NEW a \in Admins, Admin(a)
    PROVE  TypeRequest'
<1> USE NobodyAssumption
<1> USE DEF TypeOK, TypeRequest
<1>1. ASSUME NEW u \in People, NEW pc \in Steps, NEW want \in BOOLEAN, Begin(a, u, pc, want)
      PROVE  TypeRequest'
    <2>1. [pc |-> pc, user |-> u, want |-> want, was |-> want] \in Request
        BY DEF Request, Assignees
    <2> QED
        BY <1>1, <2>1 DEF Begin
<1>2. ASSUME NEW pc \in Steps, Goto(a, pc), request[a].pc # "idle",
             Quietly \/ Disturb(a)
      PROVE  TypeRequest'
    <2>1. request' \in [Admins -> Request]
        BY <1>2 DEF Goto, Request
    <2>2. \A b \in Admins : request'[b].pc # "idle" => request'[b].user \in People
        BY <1>2 DEF Goto, Request
    <2> QED
        BY <1>2, <2>1, <2>2 DEF Quietly, Disturb
<1>3. ASSUME Answer(a), request[a].pc # "idle", Quietly \/ Disturb(a)
      PROVE  TypeRequest'
    <2>1. Idle \in Request
        BY DEF Idle, Request, Steps, Assignees
    <2>2. Idle.pc = "idle"
        BY DEF Idle
    <2> QED
        BY <1>3, <2>1, <2>2 DEF Answer, Quietly, Disturb
<1>4. ASSUME SetCommit(a)
      PROVE  TypeRequest'
    <2>1. request[a].user \in People /\ active[request[a].user] \in BOOLEAN
        BY <1>4 DEF SetCommit, At
    <2>2. request' \in [Admins -> Request]
        BY <1>4, <2>1 DEF SetCommit, Request, Steps
    <2>3. \A b \in Admins : request'[b].pc # "idle" => request'[b].user \in People
        <3>1. request'[a].user = request[a].user
            <4> DEFINE was == active[request[a].user]
            <4>1. request' = [request EXCEPT ![a] = [request[a] EXCEPT
                                  !.pc = "set auth", !.was = was]]
                BY <1>4 DEF SetCommit
            <4> HIDE DEF was
            <4> QED
                BY <4>1 DEF Request
        <3>2. \A b \in Admins : b # a => request'[b] = request[b]
            BY <1>4 DEF SetCommit
        <3> QED
            BY <2>1, <3>1, <3>2
    <2> QED
        BY <1>4, <2>2, <2>3 DEF SetCommit, Quietly
<1>5. {"set", "new", "delete", "undo", "discard"} \subseteq Steps
    BY DEF Steps
<1>6. ASSUME NEW u \in People, CreateAccount(a, u)
      PROVE  TypeRequest'
    BY <1>1, <1>5, <1>6 DEF CreateAccount
<1>7. ASSUME NEW u \in People, NEW want \in BOOLEAN, SetActive(a, u, want) \/ DeleteUser(a, u)
      PROVE  TypeRequest'
    BY <1>1, <1>5, <1>7 DEF SetActive, DeleteUser
<1>8. CASE SetFails(a) \/ SetCommitLost(a) \/ Undo(a) \/ UndoFails(a) \/ Discard(a)
           \/ DeleteAccount(a)
    BY <1>3, <1>8 DEF SetFails, SetCommitLost, Undo, UndoFails, Discard, DeleteAccount, At
<1>9. CASE SetBan(a) \/ SetBanRefused(a) \/ CreateProfile(a) \/ CreateFails(a)
    BY <1>2, <1>3, <1>5, <1>9 DEF SetBan, SetBanRefused, CreateProfile, CreateFails, At
<1> QED
    BY <1>4, <1>6, <1>7, <1>8, <1>9 DEF Admin

\* An admin's step keeps the foreign keys.
LEMMA AdminStores ==
    ASSUME TypeOK, NEW a \in Admins, Admin(a)
    PROVE  TypePeople' /\ TypeLeads' /\ TypeDialogs'
<1> USE NobodyAssumption
<1> USE DEF TypeOK, TypePeople, TypeLeads, TypeDialogs
<1>1. TypeDialogs'
    BY DEF Admin, SetActive, DeleteUser, CreateAccount, SetCommit, SetCommitLost, SetProfile,
           SetFails, SetBan, SetBanRefused, Undo, UndoFails, CreateProfile, CreateFails,
           Discard, DeleteAccount
<1>2. CASE UNCHANGED <<people, leads>>
    BY <1>1, <1>2 DEF people, leads
<1>3. request[a].pc # "idle" => request[a].user \in People /\ request[a].want \in BOOLEAN
    BY DEF Request
<1>4. ASSUME SetProfile(a), request[a].pc # "idle"
      PROVE  TypePeople' /\ TypeLeads'
    <2>1. TypePeople'
        BY <1>3, <1>4 DEF SetProfile
    <2>2. TypeLeads'
        BY <1>3, <1>4 DEF SetProfile, Assignees
    <2> QED
        BY <2>1, <2>2
<1>5. ASSUME Remove(request[a].user), request[a].pc # "idle"
      PROVE  TypePeople' /\ TypeLeads'
    <2>1. TypePeople'
        BY <1>3, <1>5 DEF Remove
    <2>2. TypeLeads'
        BY <1>3, <1>5 DEF Remove, Assignees
    <2> QED
        BY <2>1, <2>2
<1>6. ASSUME NEW u \in People, CreateAccount(a, u)
      PROVE  TypePeople' /\ TypeLeads'
    <2>1. TypePeople'
        BY <1>6 DEF CreateAccount
    <2>2. TypeLeads'
        BY <1>6 DEF CreateAccount, leads, Assignees
    <2> QED
        BY <2>1, <2>2
<1>7. CASE SetBan(a) \/ Undo(a) \/ CreateProfile(a)
    <2>1. TypePeople' /\ account' = account
        BY <1>3, <1>7 DEF SetBan, Undo, CreateProfile, At
    <2>2. UNCHANGED leads
        BY <1>7 DEF SetBan, Undo, CreateProfile
    <2> QED
        BY <1>1, <2>1, <2>2 DEF leads
<1>8. CASE SetCommit(a) \/ SetCommitLost(a)
    BY <1>1, <1>4, <1>8 DEF SetCommit, SetCommitLost, At
<1>9. CASE Discard(a) \/ DeleteAccount(a)
    BY <1>1, <1>2, <1>5, <1>9 DEF Discard, DeleteAccount, At, people, leads
<1>10. ASSUME NEW u \in People, NEW want \in BOOLEAN,
              SetActive(a, u, want) \/ DeleteUser(a, u)
       PROVE  UNCHANGED <<people, leads>>
    BY <1>10 DEF SetActive, DeleteUser
<1>11. CASE SetFails(a) \/ SetBanRefused(a) \/ UndoFails(a) \/ CreateFails(a)
    BY <1>2, <1>11 DEF SetFails, SetBanRefused, UndoFails, CreateFails
<1> QED
    BY <1>1, <1>2, <1>6, <1>7, <1>8, <1>9, <1>10, <1>11 DEF Admin

\* Dialogs and activities write only the leads.
LEMMA LeadTypes ==
    ASSUME TypeOK, NEW e \in Editors, Editor(e)
    PROVE  TypeLeads' /\ TypeDialogs' /\ UNCHANGED <<people, request, disturbed>>
<1> USE NobodyAssumption, VersionAssumption
<1> USE DEF TypeOK, TypeLeads, TypeDialogs
<1>1. Closed(edit[e]) \in Edit
    BY ClosedIsEdit
<1>2. ASSUME NEW l \in Leads, OpenLead(e, l)
      PROVE  TypeDialogs' /\ UNCHANGED <<people, leads, request, disturbed>>
    BY <1>2 DEF OpenLead, Edit
<1>3. ASSUME NEW next \in Assignees, NEW admin \in BOOLEAN, SaveLead(e, next, admin)
      PROVE  TypeDialogs' /\ UNCHANGED <<people, leads, request, disturbed>>
    <2> DEFINE check == ~admin /\ next \notin {assigned[edit[e].lead], Nobody}
    <2>1. [edit[e] EXCEPT !.pc = "read", !.next = next, !.check = check] \in Edit
        <3>1. check \in BOOLEAN
            OBVIOUS
        <3> HIDE DEF check
        <3> QED
            BY <3>1, edit[e] \in Edit DEF Edit
    <2>2. edit' = [edit EXCEPT ![e] = [edit[e] EXCEPT !.pc = "read", !.next = next,
                                                      !.check = check]]
        BY <1>3 DEF SaveLead, Edit
    <2> QED
        BY <1>3, <2>1, <2>2 DEF SaveLead
<1>4. ASSUME CheckAssignee(e)
      PROVE  TypeDialogs' /\ UNCHANGED <<people, leads, request, disturbed>>
    <2>1. [edit[e] EXCEPT !.pc = "ready"] \in Edit
        BY DEF Edit
    <2> QED
        BY <1>1, <1>4, <2>1 DEF CheckAssignee
<1>5. CASE WriteLead(e)
    <2>1. edit[e].lead \in Leads /\ edit[e].next \in Assignees
        BY DEF Edit
    <2>2. TypeDialogs' /\ UNCHANGED <<people, request, disturbed>>
        BY <1>1, <1>5 DEF WriteLead
    <2>3. TypeLeads'
        BY <1>5, <2>1 DEF WriteLead, Written, Assignees, people, leads
    <2> QED
        BY <2>2, <2>3
<1> QED
    BY <1>2, <1>3, <1>4, <1>5 DEF Editor, people, leads

LEMMA WorkTypes ==
    ASSUME TypeOK, NEW w \in Workers, Worker(w)
    PROVE  TypeLeads' /\ TypeDialogs' /\ UNCHANGED <<people, request, disturbed>>
<1> USE NobodyAssumption, VersionAssumption
<1> USE DEF TypeOK, TypeLeads, TypeDialogs
<1>1. ASSUME NEW u \in People, StartWork(w, u)
      PROVE  TypeDialogs' /\ UNCHANGED <<people, leads, request, disturbed>>
    BY <1>1 DEF StartWork, Assignees
<1>2. ASSUME NEW l \in Leads, DoWork(w, l)
      PROVE  TypeLeads' /\ TypeDialogs' /\ UNCHANGED <<people, request, disturbed>>
    <2>1. TypeDialogs' /\ UNCHANGED <<people, request, disturbed>>
        BY <1>2 DEF DoWork, Assignees
    <2>2. TypeLeads'
        BY <1>2 DEF DoWork, Assignees, people, leads
    <2> QED
        BY <2>1, <2>2
<1> QED
    BY <1>1, <1>2 DEF Worker, people, leads

LEMMA CrashTypes ==
    ASSUME TypeOK, Crash
    PROVE  TypeOK'
<1>1. \A e \in Editors : Closed(edit[e]) \in Edit
    BY ClosedIsEdit DEF TypeOK
<1>2. TypeDialogs'
    BY <1>1 DEF Crash, TypeDialogs, Assignees
<1>3. TypeRequest'
    BY DEF TypeOK, Crash, TypeRequest, Idle, Request, Steps, Assignees
<1> QED
    BY <1>2, <1>3 DEF TypeOK, Crash, TypeDialogs, TypeRequest, people, leads

LEMMA TypeStep == TypeOK /\ [Next]_vars => TypeOK'
<1> SUFFICES ASSUME TypeOK, [Next]_vars PROVE TypeOK'
    OBVIOUS
<1>0. CASE UNCHANGED vars
    BY <1>0 DEF vars, people, leads, TypeOK
<1>1. ASSUME NEW a \in Admins, Admin(a)
      PROVE  TypeOK'
    BY <1>1, AdminTypes, AdminStores DEF TypeOK, TypeRequest, TypePeople, TypeLeads,
       TypeDialogs
<1>2. ASSUME NEW e \in Editors, Editor(e)
      PROVE  TypeOK'
    BY <1>2, LeadTypes DEF TypeOK, TypeLeads, TypeDialogs, people
<1>3. ASSUME NEW w \in Workers, Worker(w)
      PROVE  TypeOK'
    BY <1>3, WorkTypes DEF TypeOK, TypeLeads, TypeDialogs, people
<1> QED
    BY <1>0, <1>1, <1>2, <1>3, CrashTypes DEF Next
-----------------------------------------------------------------------------
(* The agreement of the two stores.                                      *)

\* Request a acts on user v and leaves the other users and requests alone.
Acts(a, v) ==
    /\ \A u \in People \ {v} : /\ account'[u] = account[u] /\ active'[u] = active[u]
                               /\ banned'[u] = banned[u] /\ placed'[u] = placed[u]
    /\ \A b \in Admins \ {a} : request'[b] = request[b]
    /\ On(a, v) \/ request[a].pc = "idle"
    /\ On(a, v)' \/ request'[a].pc = "idle"
    /\ disturbed \subseteq disturbed'

LEMMA OthersStayExplained ==
    ASSUME IInv, NEW a \in Admins, NEW v \in People, Acts(a, v),
           NEW u \in People \ disturbed', u # v
    PROVE  Explained(u)'
<1>1. Explained(u)
    BY DEF IInv, Acts
<1>2. UNCHANGED <<account[u], active[u], banned[u], placed[u]>>
    BY DEF Acts
<1>3. ~On(a, u) /\ ~On(a, u)'
    BY DEF Acts, On
<1>4. \A b \in Admins : On(b, u)' = On(b, u) /\ (On(b, u) => request'[b] = request[b])
    BY <1>3 DEF Acts, On
<1>5. \A b \in Admins : On(b, u) => Midway(b, u)' = Midway(b, u)
    BY <1>2, <1>4 DEF Midway
<1>6. Busy(u)' = Busy(u)
    BY <1>4 DEF Busy, On
<1> QED
    BY <1>1, <1>2, <1>4, <1>5, <1>6 DEF Explained

\* The user of the request that moved: it was the only one, and so it stays.
LEMMA MoverStaysExplained ==
    ASSUME IInv, NEW a \in Admins, NEW v \in People, Acts(a, v),
           v \notin disturbed, On(a, v),
           account'[v] = "open" /\ On(a, v)' => Midway(a, v)',
           account'[v] = "open" /\ request'[a].pc = "idle" =>
               active'[v] = ~banned'[v] /\ placed'[v]
    PROVE  Explained(v)'
<1>1. \A b \in Admins : On(b, v)' => b = a
    BY DEF IInv, Explained, Acts, On
<1>2. ~Busy(v)' => request'[a].pc = "idle"
    BY DEF Busy, Acts, On
<1> QED
    BY <1>1, <1>2 DEF Explained

\* So does the user of a request that begins, when no other one runs.
LEMMA BeginnerIsExplained ==
    ASSUME IInv, NEW a \in Admins, NEW v \in People, Acts(a, v),
           ~Busy(v), On(a, v)', account'[v] = "open" => Midway(a, v)'
    PROVE  Explained(v)'
<1>1. \A b \in Admins : On(b, v)' => b = a
    BY DEF Busy, Acts, On
<1>2. Busy(v)'
    BY DEF Busy, On
<1> QED
    BY <1>1, <1>2 DEF Explained

LEMMA BeginActs ==
    ASSUME TypeOK, NEW a \in Admins, NEW v \in People, NEW pc \in Steps \ {"idle"},
           NEW want \in BOOLEAN, Begin(a, v, pc, want)
    PROVE  /\ \A b \in Admins \ {a} : request'[b] = request[b]
           /\ request[a].pc = "idle" /\ On(a, v)'
           /\ request'[a] = [pc |-> pc, user |-> v, want |-> want, was |-> want]
           /\ disturbed \subseteq disturbed'
           /\ v \notin disturbed' => ~Busy(v)
BY DEF TypeOK, Begin, On

\* An answer ends only its own request.
LEMMA AnswerMoves ==
    ASSUME TypeOK, NEW a \in Admins, Answer(a)
    PROVE  request'[a].pc = "idle" /\ \A b \in Admins \ {a} : request'[b] = request[b]
BY DEF TypeOK, Answer, Idle

LEMMA GotoMoves ==
    ASSUME TypeOK, NEW a \in Admins, NEW pc \in Steps, Goto(a, pc)
    PROVE  /\ request'[a].pc = pc /\ request'[a].user = request[a].user
           /\ request'[a].want = request[a].want /\ request'[a].was = request[a].was
           /\ \A b \in Admins \ {a} : request'[b] = request[b]
BY DEF TypeOK, Goto, Request

LEMMA RemoveMoves ==
    ASSUME TypeOK, NEW v \in Assignees, Remove(v)
    PROVE  \A u \in People \ {v} :
               /\ account'[u] = account[u] /\ active'[u] = active[u]
               /\ banned'[u] = banned[u] /\ placed'[u] = placed[u]
BY DEF TypeOK, Remove

\* The steps of a request that is under way.
Move(a) ==
    \/ SetCommit(a) \/ SetFails(a) \/ SetCommitLost(a)
    \/ SetBan(a) \/ SetBanRefused(a) \/ Undo(a) \/ UndoFails(a)
    \/ CreateProfile(a) \/ CreateFails(a) \/ Discard(a) \/ DeleteAccount(a)

LEMMA MoveKeepsExplained ==
    ASSUME IInv, TypeOK', NEW a \in Admins, NEW v \in People,
           request[a].user = v, request[a].pc # "idle", Move(a)
    PROVE  Acts(a, v) /\ Unbanned' /\ (v \notin disturbed' => Explained(v)')
<1>0. TypeOK /\ Unbanned /\ \A u \in People \ disturbed : Explained(u)
    BY DEF IInv
<1> USE <1>0
<1>3. On(a, v)
    BY DEF On
<1>4. ASSUME Acts(a, v), Unbanned',
             v \notin disturbed' =>
                 /\ account'[v] = "open" /\ On(a, v)' => Midway(a, v)'
                 /\ account'[v] = "open" /\ request'[a].pc = "idle" =>
                        active'[v] = ~banned'[v] /\ placed'[v]
      PROVE  Acts(a, v) /\ Unbanned' /\ (v \notin disturbed' => Explained(v)')
    <2>1. v \notin disturbed' => v \notin disturbed
        BY <1>4 DEF Acts
    <2> QED
        BY <1>3, <1>4, <2>1, MoverStaysExplained
\* What is known of a request that moves about an undisturbed user.
<1>5. ASSUME v \notin disturbed, account[v] = "open"
      PROVE  Midway(a, v)
    BY <1>3, <1>5 DEF Explained
<1>6. ASSUME SetProfile(a)
      PROVE  /\ account' = account /\ account[v] = "open"
             /\ active' = [active EXCEPT ![v] = request[a].want]
             /\ banned' = banned /\ placed' = placed /\ Unbanned'
    BY <1>6 DEF SetProfile, Unbanned
<1>7. CASE SetCommit(a)
    <2>1. request[a].pc = "set" /\ SetProfile(a) /\ disturbed' = disturbed
        BY <1>7 DEF SetCommit, At, Quietly
    <2>2. /\ request'[a].pc = "set auth" /\ request'[a].user = v
          /\ request'[a].want = request[a].want /\ request'[a].was = active[v]
          /\ \A b \in Admins \ {a} : request'[b] = request[b]
        BY <1>7 DEF SetCommit, TypeOK, Request
    <2>3. Acts(a, v)
        <3>1. \A u \in People \ {v} : active'[u] = active[u]
            BY <1>6, <2>1 DEF TypeOK
        <3>2. On(a, v)' /\ On(a, v)
            BY <1>3, <2>1, <2>2 DEF On
        <3> QED
            BY <1>6, <2>1, <2>2, <3>1, <3>2 DEF Acts
    <2>4. v \notin disturbed => Midway(a, v)'
        <3>1. v \notin disturbed => Midway(a, v)
            BY <1>5, <1>6, <2>1
        <3>2. active'[v] = request[a].want /\ banned'[v] = banned[v] /\ placed'[v] = placed[v]
            BY <1>6, <2>1 DEF TypeOK
        <3>3. active[v] \in BOOLEAN /\ banned[v] \in BOOLEAN
            BY <1>6, <2>1 DEF TypeOK
        <3> QED
            BY <2>1, <2>2, <3>1, <3>2, <3>3 DEF Midway
    <2> QED
        BY <1>4, <1>6, <2>1, <2>2, <2>3, <2>4
<1>8. CASE SetCommitLost(a)
    <2>1. request[a].pc = "set" /\ SetProfile(a) /\ disturbed' = disturbed \cup {v}
        BY <1>8 DEF SetCommitLost, At, Disturb
    <2>2. Acts(a, v)
        BY <1>3, <1>6, <1>8, <2>1, AnswerMoves DEF Acts, TypeOK, SetCommitLost
    <2> QED
        BY <1>4, <1>6, <2>1, <2>2
<1>9. CASE SetFails(a)
    <2>1. /\ request[a].pc = "set" /\ Answer(a) /\ disturbed' = disturbed
          /\ UNCHANGED <<account, active, banned, placed>>
        BY <1>9 DEF SetFails, At, Quietly, people
    <2>2. Acts(a, v) /\ Unbanned'
        BY <1>3, <2>1, AnswerMoves DEF Acts, Unbanned
    <2>3. v \notin disturbed /\ account[v] = "open" => active[v] = ~banned[v] /\ placed[v]
        BY <1>5, <2>1 DEF Midway
    <2> QED
        BY <1>4, <2>1, <2>2, <2>3, AnswerMoves DEF On
<1>10. CASE SetBan(a)
    <2>1. /\ request[a].pc = "set auth" /\ account' = account /\ account[v] = "open"
          /\ banned' = [banned EXCEPT ![v] = ~request[a].want]
          /\ active' = active /\ placed' = placed
        BY <1>10 DEF SetBan, At
    <2>2. Unbanned' /\ v \in People
        BY <1>3, <2>1 DEF Unbanned, TypeOK
    <2>3. CASE Goto(a, "undo") /\ Disturb(a)
        <3>1. "undo" \in Steps
            BY DEF Steps
        <3>2. Acts(a, v)
            BY <1>3, <2>1, <2>3, <3>1, GotoMoves DEF Acts, On, Disturb, TypeOK
        <3> QED
            BY <1>4, <2>1, <2>2, <2>3, <3>2 DEF Disturb
    <2>4. CASE Answer(a) /\ Quietly
        <3>1. Acts(a, v)
            BY <1>3, <2>1, <2>4, AnswerMoves DEF Acts, Quietly, TypeOK
        <3>2. v \notin disturbed => Midway(a, v)
            BY <1>5, <2>1, <2>4 DEF Quietly
        <3>3. v \notin disturbed => active'[v] = ~banned'[v] /\ placed'[v]
            BY <2>1, <2>2, <3>2 DEF Midway, TypeOK
        <3> QED
            BY <1>4, <2>1, <2>2, <2>4, <3>1, <3>3, AnswerMoves DEF Quietly, On
    <2> QED
        BY <1>10, <2>3, <2>4 DEF SetBan
<1>11. CASE SetBanRefused(a) \/ CreateFails(a)
    <2>1. PICK pc \in {"undo", "discard"} :
              Goto(a, pc) /\ request[a].pc = IF pc = "undo" THEN "set auth" ELSE "new"
        BY <1>11 DEF SetBanRefused, CreateFails, At
    <2>2. pc \in Steps
        BY DEF Steps
    <2>3. disturbed' = disturbed /\ UNCHANGED <<account, active, banned, placed>>
        BY <1>11 DEF SetBanRefused, CreateFails, Quietly, people
    <2>4. Acts(a, v) /\ Unbanned'
        BY <1>3, <2>1, <2>2, <2>3, GotoMoves DEF Acts, On, Unbanned
    <2>5. v \notin disturbed /\ account[v] = "open" => Midway(a, v)'
        BY <1>5, <2>1, <2>2, <2>3, GotoMoves DEF Midway
    <2> QED
        BY <1>4, <2>1, <2>2, <2>3, <2>4, <2>5, GotoMoves
<1>12. CASE Undo(a)
    <2>1. /\ request[a].pc = "undo" /\ account' = account /\ Answer(a)
          /\ active' = IF account[v] = "open"
                       THEN [active EXCEPT ![v] = ~request[a].want] ELSE active
          /\ banned' = banned /\ placed' = placed
        BY <1>12 DEF Undo, At
    <2>2. IF request[a].was = request[a].want THEN Disturb(a) ELSE Quietly
        BY <1>12 DEF Undo
    <2>3. Acts(a, v) /\ Unbanned'
        BY <1>3, <2>1, <2>2, AnswerMoves DEF Acts, Unbanned, Disturb, Quietly, TypeOK
    <2>4. ASSUME v \notin disturbed', account[v] = "open"
          PROVE  active'[v] = ~banned'[v] /\ placed'[v]
        <3>1. Midway(a, v) /\ request[a].was # request[a].want
            BY <1>5, <2>1, <2>2, <2>3, <2>4 DEF Acts, Disturb
        <3>2. request[a].was \in BOOLEAN /\ request[a].want \in BOOLEAN
            BY DEF TypeOK, Request
        <3>3. active'[v] = ~request[a].want
            BY <1>3, <2>1, <2>4 DEF TypeOK
        <3> QED
            BY <2>1, <3>1, <3>2, <3>3 DEF Midway
    <2> QED
        BY <1>4, <2>1, <2>3, <2>4, AnswerMoves DEF On
<1>13. CASE UndoFails(a)
    <2>1. /\ request[a].pc = "undo" /\ Answer(a) /\ disturbed' = disturbed \cup {v}
          /\ UNCHANGED <<account, active, banned, placed>>
        BY <1>13 DEF UndoFails, At, Disturb, people
    <2>2. Acts(a, v) /\ Unbanned'
        BY <1>3, <2>1, AnswerMoves DEF Acts, Unbanned
    <2> QED
        BY <1>4, <2>1, <2>2
<1>14. CASE CreateProfile(a)
    <2>1. /\ request[a].pc = "new" /\ account' = account /\ account[v] = "open"
          /\ active' = [active EXCEPT ![v] = TRUE] /\ placed' = [placed EXCEPT ![v] = TRUE]
          /\ banned' = banned /\ disturbed' = disturbed
        BY <1>14 DEF CreateProfile, At, Quietly
    <2>2. v \in People /\ Unbanned'
        BY <1>3, <2>1 DEF Unbanned
    <2>3. CASE Answer(a)
        <3>1. Acts(a, v)
            BY <1>3, <2>1, <2>3, AnswerMoves DEF Acts, TypeOK
        <3>2. v \notin disturbed => active'[v] = ~banned'[v] /\ placed'[v]
            BY <1>5, <2>1, <2>2 DEF Midway, TypeOK
        <3> QED
            BY <1>4, <2>1, <2>2, <2>3, <3>1, <3>2, AnswerMoves DEF On
    <2>4. CASE Goto(a, "discard")
        <3>1. "discard" \in Steps
            BY DEF Steps
        <3>2. Acts(a, v)
            BY <1>3, <2>1, <2>4, <3>1, GotoMoves DEF Acts, On, TypeOK
        <3>3. Midway(a, v)'
            BY <2>4, <3>1, GotoMoves DEF Midway
        <3> QED
            BY <1>4, <2>1, <2>2, <2>4, <3>1, <3>2, <3>3, GotoMoves
    <2> QED
        BY <1>14, <2>3, <2>4 DEF CreateProfile
<1>15. CASE Discard(a) \/ DeleteAccount(a)
    <2>1. request[a].pc \in {"discard", "delete"} /\ Answer(a) /\ v \in People
        BY <1>3, <1>15 DEF Discard, DeleteAccount, At
    <2>2. CASE Remove(v) /\ Quietly
        <3>1. account'[v] = "gone" /\ Unbanned'
            BY <2>1, <2>2 DEF Remove, Unbanned, TypeOK
        <3>2. \A u \in People \ {v} :
                  /\ account'[u] = account[u] /\ active'[u] = active[u]
                  /\ banned'[u] = banned[u] /\ placed'[u] = placed[u]
            BY <2>1, <2>2, RemoveMoves DEF Assignees
        <3>3. request'[a].pc = "idle" /\ \A b \in Admins \ {a} : request'[b] = request[b]
            BY <2>1, AnswerMoves
        <3>4. Acts(a, v)
            BY <1>3, <2>1, <2>2, <3>2, <3>3 DEF Acts, Quietly
        <3> QED
            BY <1>4, <2>1, <3>1, <3>4
    <2>3. CASE UNCHANGED <<account, active, banned, placed>> /\ Disturb(a)
        <3>1. Acts(a, v) /\ Unbanned'
            BY <1>3, <2>1, <2>3, AnswerMoves DEF Acts, Unbanned, Disturb
        <3> QED
            BY <1>4, <2>1, <2>3, <3>1 DEF Disturb
    <2>4. CASE UNCHANGED <<account, active, banned, placed>> /\ Quietly
               /\ request[a].pc = "delete"
        <3>1. Acts(a, v) /\ Unbanned'
            BY <1>3, <2>1, <2>4, AnswerMoves DEF Acts, Unbanned, Quietly
        <3>2. v \notin disturbed /\ account[v] = "open" => active[v] = ~banned[v] /\ placed[v]
            BY <1>5, <2>4 DEF Midway, Quietly
        <3> QED
            BY <1>4, <2>1, <2>4, <3>1, <3>2, AnswerMoves DEF On, Quietly
    <2> QED
        BY <1>15, <2>2, <2>3, <2>4 DEF Discard, DeleteAccount, At, people
<1> QED
    BY <1>7, <1>8, <1>9, <1>10, <1>11, <1>12, <1>13, <1>14, <1>15 DEF Move

\* Every step of an admin's request keeps the explanation.
LEMMA AdminKeepsExplained ==
    ASSUME IInv, TypeOK', NEW a \in Admins, Admin(a)
    PROVE  Unbanned' /\ \A u \in People \ disturbed' : Explained(u)'
<1> DEFINE Kept(v) == Acts(a, v) /\ Unbanned' /\ (v \notin disturbed' => Explained(v)')
<1> SUFFICES \E v \in People : Kept(v)
    BY OthersStayExplained
<1>0. TypeOK /\ Unbanned /\ \A u \in People \ disturbed : Explained(u)
    BY DEF IInv
<1> USE <1>0
<1>1. ASSUME NEW u \in People, NEW want \in BOOLEAN,
             SetActive(a, u, want) \/ DeleteUser(a, u)
      PROVE  Kept(u)
    <2>1. UNCHANGED <<account, active, banned, placed>>
        BY <1>1 DEF SetActive, DeleteUser, people
    <2>2. PICK pc \in {"set", "delete"}, w \in BOOLEAN : Begin(a, u, pc, w)
        BY <1>1 DEF SetActive, DeleteUser
    <2>3. pc \in Steps \ {"idle"}
        BY DEF Steps
    <2>a. /\ \A b \in Admins \ {a} : request'[b] = request[b]
          /\ request[a].pc = "idle" /\ On(a, u)'
          /\ request'[a] = [pc |-> pc, user |-> u, want |-> w, was |-> w]
          /\ disturbed \subseteq disturbed'
          /\ u \notin disturbed' => ~Busy(u)
        BY <2>2, <2>3, BeginActs
    <2>4. Acts(a, u) /\ Unbanned'
        BY <2>1, <2>a DEF Acts, Unbanned
    <2>5. ASSUME u \notin disturbed'
          PROVE  Explained(u)'
        <3>1. ~Busy(u) /\ u \notin disturbed
            BY <2>5, <2>a
        <3>2. account'[u] = "open" => Midway(a, u)'
            <4>1. account[u] = "open" => active[u] = ~banned[u] /\ placed[u]
                BY <3>1 DEF Explained
            <4>2. request'[a].pc = pc
                BY <2>a
            <4> QED
                BY <2>1, <4>1, <4>2 DEF Midway
        <3> QED
            BY <2>4, <2>a, <3>1, <3>2, BeginnerIsExplained
    <2> QED
        BY <2>4, <2>5
<1>2. ASSUME NEW u \in People, CreateAccount(a, u)
      PROVE  Kept(u)
    <2>1. /\ account' = [account EXCEPT ![u] = "open"] /\ account[u] = "unknown"
          /\ active' = [active EXCEPT ![u] = TRUE] /\ banned' = banned /\ placed' = placed
        BY <1>2 DEF CreateAccount
    <2>2. Unbanned'
        BY <2>1 DEF Unbanned, TypeOK
    <2>3. CASE Begin(a, u, "new", TRUE)
        <3>1. "new" \in Steps \ {"idle"} /\ TRUE \in BOOLEAN
            BY DEF Steps
        <3>a. /\ \A b \in Admins \ {a} : request'[b] = request[b]
              /\ request[a].pc = "idle" /\ On(a, u)'
              /\ request'[a] = [pc |-> "new", user |-> u, want |-> TRUE, was |-> TRUE]
              /\ disturbed \subseteq disturbed'
              /\ u \notin disturbed' => ~Busy(u)
            BY <2>3, <3>1, BeginActs
        <3>2. Acts(a, u)
            BY <2>1, <3>a DEF Acts, TypeOK
        <3>3. Midway(a, u)'
            BY <2>1, <3>a DEF Midway, Unbanned, TypeOK
        <3> QED
            BY <2>2, <3>2, <3>3, <3>a, BeginnerIsExplained
    <2>4. CASE request' = request /\ disturbed' = disturbed \cup {u}
        BY <1>2, <2>1, <2>2, <2>4 DEF Acts, TypeOK, CreateAccount
    <2> QED
        BY <1>2, <2>3, <2>4 DEF CreateAccount
<1>3. CASE Move(a)
    <2>1. request[a].pc # "idle"
        BY <1>3 DEF Move, SetCommit, SetFails, SetCommitLost, SetBan, SetBanRefused, Undo,
                    UndoFails, CreateProfile, CreateFails, Discard, DeleteAccount, At
    <2>2. PICK v \in People : v = request[a].user
        BY <2>1 DEF TypeOK
    <2> QED
        BY <1>3, <2>1, <2>2, MoveKeepsExplained
<1> QED
    BY <1>1, <1>2, <1>3 DEF Admin, Move
-----------------------------------------------------------------------------
LEMMA NextIInv == IInv /\ [Next]_vars => IInv'
<1> SUFFICES ASSUME IInv, [Next]_vars PROVE IInv'
    OBVIOUS
<1>1. TypeOK'
    BY TypeStep DEF IInv
<1>2. ASSUME NEW a \in Admins, Admin(a)
      PROVE  IInv'
    BY <1>1, <1>2, AdminKeepsExplained DEF IInv
<1>3. ASSUME UNCHANGED <<people, request, disturbed>>
      PROVE  IInv'
    <2>1. \A u \in People : Explained(u)' = Explained(u)
        BY <1>3 DEF Explained, Midway, On, Busy, people
    <2>2. Unbanned' = Unbanned
        BY <1>3 DEF Unbanned, people
    <2> QED
        BY <1>1, <1>3, <2>1, <2>2 DEF IInv
<1>4. CASE UNCHANGED vars
    BY <1>3, <1>4 DEF vars
<1>5. ASSUME NEW e \in Editors, Editor(e)
      PROVE  IInv'
    BY <1>3, <1>5, LeadTypes DEF IInv
<1>6. ASSUME NEW w \in Workers, Worker(w)
      PROVE  IInv'
    BY <1>3, <1>6, WorkTypes DEF IInv
<1>7. CASE Crash
    <2>1. UNCHANGED people /\ \A a \in Admins : request'[a].pc = "idle"
        BY <1>7 DEF Crash, Idle
    <2>2. Unbanned'
        BY <2>1 DEF IInv, Unbanned, people
    <2>3. ASSUME NEW u \in People \ disturbed'
          PROVE  Explained(u)'
        <3>1. ~Busy(u) /\ Explained(u)
            BY <1>7, <2>3 DEF Crash, IInv
        <3>2. \A a \in Admins : ~On(a, u)'
            BY <2>1 DEF On
        <3> QED
            BY <2>1, <3>1, <3>2 DEF Explained, people
    <2> QED
        BY <1>1, <2>2, <2>3 DEF IInv
<1> QED
    BY <1>2, <1>4, <1>5, <1>6, <1>7 DEF Next

\* The invariant holds throughout.
THEOREM Invariance == Spec => []IInv
<1>1. Init => IInv
    BY InitIInv
<1>2. IInv /\ [Next]_vars => IInv'
    BY NextIInv
<1> QED
    BY <1>1, <1>2, PTL DEF Spec

\* Every record keeps its shape, and no lead belongs to a user who does not exist.
THEOREM TypeCorrect == Spec => []TypeOK
<1>1. IInv => TypeOK
    BY DEF IInv
<1> QED
    BY <1>1, Invariance, PTL

\* For any number of admins, users and leads: a user whom no disturbance met and no
\* request is about has a profile and an Auth account that agree.
THEOREM StoresAgree == Spec => []AccountsAgree
<1>1. IInv => AccountsAgree
    BY DEF IInv, Explained, AccountsAgree
<1> QED
    BY <1>1, Invariance, PTL
-----------------------------------------------------------------------------
(* Lead dialogs.                                                           *)

\* A dialog never runs ahead of its lead, and while the version is the one it was
\* opened with, the assignee is the one it showed, or nobody.
DialogIsCurrent ==
    \A e \in Editors : edit[e].pc # "idle" =>
        /\ edit[e].base <= version[edit[e].lead]
        /\ version[edit[e].lead] = edit[e].base =>
               assigned[edit[e].lead] \in {edit[e].seen, Nobody}

\* An admin's request takes leads away without counting up their version.
LEMMA AdminClears ==
    ASSUME TypeOK, NEW a \in Admins, Admin(a)
    PROVE  /\ version' = version /\ edit' = edit
           /\ \A l \in Leads : assigned'[l] \in {assigned[l], Nobody}
<1> USE DEF leads, TypeOK
<1>1. CASE UNCHANGED <<leads, edit>>
    BY <1>1
<1>2. ASSUME \/ SetProfile(a)
             \/ Remove(request[a].user) /\ UNCHANGED edit
      PROVE  /\ version' = version /\ edit' = edit
             /\ \A l \in Leads : assigned'[l] \in {assigned[l], Nobody}
    <2>1. CASE SetProfile(a)
        BY <2>1 DEF SetProfile
    <2>2. CASE Remove(request[a].user) /\ UNCHANGED edit
        BY <2>2 DEF Remove
    <2> QED
        BY <1>2, <2>1, <2>2
<1>3. CASE SetCommit(a) \/ SetCommitLost(a)
    BY <1>2, <1>3 DEF SetCommit, SetCommitLost
<1>4. CASE Discard(a) \/ DeleteAccount(a)
    BY <1>1, <1>2, <1>4 DEF Discard, DeleteAccount
<1> QED
    BY <1>1, <1>3, <1>4 DEF Admin, SetActive, DeleteUser, CreateAccount, SetFails, SetBan,
       SetBanRefused, Undo, UndoFails, CreateProfile, CreateFails

LEMMA DialogStep == TypeOK /\ DialogIsCurrent /\ [Next]_vars => DialogIsCurrent'
<1> SUFFICES ASSUME TypeOK, DialogIsCurrent, [Next]_vars PROVE DialogIsCurrent'
    OBVIOUS
<1>0. \A e \in Editors : /\ edit[e] \in Edit /\ edit[e].lead \in Leads
                         /\ edit[e].base \in Nat /\ Closed(edit[e]).pc = "idle"
    BY VersionAssumption DEF TypeOK, Edit, Closed
<1>1. \A l \in Leads : version[l] \in Nat
    BY VersionAssumption DEF TypeOK
<1> USE <1>0, <1>1
<1>2. ASSUME version' = version, edit' = edit,
             \A l \in Leads : assigned'[l] \in {assigned[l], Nobody}
      PROVE  DialogIsCurrent'
    BY <1>2 DEF DialogIsCurrent
<1>3. ASSUME NEW l \in Leads, version' = [version EXCEPT ![l] = @ + 1],
             \A k \in Leads \ {l} : assigned'[k] = assigned[k],
             \A e \in Editors : edit'[e] = edit[e] \/ edit'[e].pc = "idle"
      PROVE  DialogIsCurrent'
    <2>1. version'[l] = version[l] + 1 /\ \A k \in Leads \ {l} : version'[k] = version[k]
        BY <1>3 DEF TypeOK
    <2> SUFFICES ASSUME NEW e \in Editors, edit'[e].pc # "idle"
                 PROVE  /\ edit'[e].base <= version'[edit'[e].lead]
                        /\ version'[edit'[e].lead] = edit'[e].base =>
                               assigned'[edit'[e].lead] \in {edit'[e].seen, Nobody}
        BY DEF DialogIsCurrent
    <2>2. edit'[e] = edit[e]
        BY <1>3
    <2>3. CASE edit[e].lead = l
        BY <2>1, <2>2, <2>3 DEF DialogIsCurrent
    <2>4. CASE edit[e].lead # l
        BY <1>3, <2>1, <2>2, <2>4 DEF DialogIsCurrent
    <2> QED
        BY <2>3, <2>4
\* A dialog that is not saved yet keeps what it showed.
<1>4. ASSUME UNCHANGED leads,
             \A e \in Editors : \/ edit'[e].pc = "idle"
                                \/ /\ edit'[e].lead = edit[e].lead
                                   /\ edit'[e].base = edit[e].base
                                   /\ edit'[e].seen = edit[e].seen
                                   /\ edit[e].pc # "idle"
                                \/ edit'[e] = edit[e]
                                \/ /\ edit'[e].lead \in Leads
                                   /\ edit'[e].base = version[edit'[e].lead]
                                   /\ edit'[e].seen = assigned[edit'[e].lead]
      PROVE  DialogIsCurrent'
    BY <1>4 DEF DialogIsCurrent, leads
<1>5. ASSUME NEW a \in Admins, Admin(a)
      PROVE  DialogIsCurrent'
    BY <1>2, <1>5, AdminClears
<1>6. ASSUME NEW e \in Editors, Editor(e)
      PROVE  DialogIsCurrent'
    <2>1. ASSUME NEW l \in Leads, OpenLead(e, l)
          PROVE  DialogIsCurrent'
        BY <1>4, <2>1 DEF OpenLead, TypeOK
    <2>2. ASSUME NEW next \in Assignees, NEW admin \in BOOLEAN, SaveLead(e, next, admin)
          PROVE  DialogIsCurrent'
        <3>1. \A f \in Editors : edit'[f].lead = edit[f].lead /\ edit'[f].base = edit[f].base
                                 /\ edit'[f].seen = edit[f].seen
            BY <2>2 DEF SaveLead, TypeOK, Edit
        <3>2. \A f \in Editors : edit[f].pc # "idle" \/ edit'[f] = edit[f]
            BY <2>2 DEF SaveLead, TypeOK
        <3> QED
            BY <1>4, <2>2, <3>1, <3>2 DEF SaveLead
    <2>3. CASE CheckAssignee(e)
        <3>1. \A f \in Editors \ {e} : edit'[f] = edit[f]
            BY <2>3 DEF CheckAssignee, TypeOK
        <3>2. edit'[e] = [edit[e] EXCEPT !.pc = "ready"] \/ edit'[e] = Closed(edit[e])
            BY <2>3 DEF CheckAssignee, TypeOK
        <3>3. edit[e].pc = "read"
            BY <2>3 DEF CheckAssignee
        <3>4. \/ edit'[e].pc = "idle"
              \/ edit'[e].lead = edit[e].lead /\ edit'[e].base = edit[e].base
                 /\ edit'[e].seen = edit[e].seen
            BY <3>2 DEF Edit
        <3> QED
            BY <1>4, <2>3, <3>1, <3>3, <3>4 DEF CheckAssignee
    <2>4. CASE WriteLead(e)
        <3>1. edit'[e].pc = "idle" /\ \A f \in Editors \ {e} : edit'[f] = edit[f]
            BY <2>4 DEF WriteLead, TypeOK
        <3>2. CASE UNCHANGED leads
            BY <1>4, <3>1, <3>2
        <3>3. CASE /\ version' = [version EXCEPT ![edit[e].lead] = @ + 1]
                   /\ assigned' = [assigned EXCEPT ![edit[e].lead] = edit[e].next]
            <4>1. \A k \in Leads \ {edit[e].lead} : assigned'[k] = assigned[k]
                BY <3>3 DEF TypeOK
            <4> QED
                BY <1>3, <3>1, <3>3, <4>1
        <3> QED
            BY <2>4, <3>2, <3>3 DEF WriteLead
    <2> QED
        BY <1>6, <2>1, <2>2, <2>3, <2>4 DEF Editor
<1>7. ASSUME NEW w \in Workers, Worker(w)
      PROVE  DialogIsCurrent'
    <2>1. ASSUME NEW u \in People, StartWork(w, u)
          PROVE  DialogIsCurrent'
        BY <1>4, <2>1 DEF StartWork
    <2>2. ASSUME NEW l \in Leads, DoWork(w, l)
          PROVE  DialogIsCurrent'
        BY <1>3, <1>4, <2>2 DEF DoWork, TypeOK
    <2> QED
        BY <1>7, <2>1, <2>2 DEF Worker
<1>8. CASE UNCHANGED vars
    BY <1>4, <1>8 DEF vars
<1>9. CASE Crash
    BY <1>4, <1>9 DEF Crash
<1> QED
    BY <1>5, <1>6, <1>7, <1>8, <1>9 DEF Next

\* The save that ends a ready dialog and moves a version is the dialog's own.
LEMMA SavesAreSeen ==
    ASSUME TypeOK, DialogIsCurrent, [Next]_vars, NEW e \in Editors,
           edit[e].pc = "ready", edit'[e].pc = "idle", version' # version
    PROVE  assigned[edit[e].lead] \in {edit[e].seen, Nobody}
<1>1. \A a \in Admins : ~Admin(a)
    BY AdminClears
<1>2. ~(UNCHANGED vars) /\ ~Crash
    BY DEF vars, leads, Crash
<1>3. \A w \in Workers : ~Worker(w)
    BY DEF Worker, StartWork, DoWork
<1>4. ASSUME NEW f \in Editors, Editor(f)
      PROVE  f = e /\ WriteLead(e) /\ Written(e)
    <2>1. WriteLead(f) /\ Written(f)
        BY <1>4 DEF Editor, OpenLead, SaveLead, CheckAssignee, WriteLead, leads
    <2>2. f = e
        BY <2>1 DEF WriteLead, TypeOK
    <2> QED
        BY <2>1, <2>2
<1> QED
    BY <1>1, <1>2, <1>3, <1>4 DEF Next, Written, DialogIsCurrent

\* For any number of dialogs and leads: saving a dialog takes the lead from the
\* assignee it showed, or from nobody.
THEOREM SavesTakeWhatTheySaw == Spec => ReassignmentsAreSeen
<1>1. Init => DialogIsCurrent
    <2> SUFFICES ASSUME Init, NEW e \in Editors PROVE edit[e].pc = "idle"
        BY DEF DialogIsCurrent
    <2>1. edit[e] = Closed(edit[e]) /\ edit[e] \in Edit
        BY DEF Init
    <2> QED
        BY <2>1 DEF Closed, Edit
<1>2. TypeOK /\ DialogIsCurrent /\ [Next]_vars => DialogIsCurrent'
    BY DialogStep
<1>3. TypeOK /\ DialogIsCurrent /\ [Next]_vars =>
          [\A e \in Editors : edit[e].pc = "ready" /\ edit'[e].pc = "idle"
                              /\ version' # version =>
               assigned[edit[e].lead] \in {edit[e].seen, Nobody}]_vars
    BY SavesAreSeen
<1> QED
    BY <1>1, <1>2, <1>3, TypeCorrect, PTL DEF Spec, ReassignmentsAreSeen
=============================================================================
