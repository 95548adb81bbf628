---------------------------- MODULE IntakeProofs ----------------------------
(***************************************************************************)
(* Proofs about SiteForms, for any number of requests and keys, about      *)
(* Clients, for any number of inserts, merges and edits, and about         *)
(* BiuroImport, for any number of rows, runs and deletions.                *)
(*                                                                         *)
(* SiteForms: the stored submission decides everything.  While a key has   *)
(* none, it has no lead and no notification, only one request can be about *)
(* to commit, and that request carries a lead of its own; once it is       *)
(* stored its id never changes, every accepted answer names it, and a      *)
(* lead, if there is one, is its lead.  That this is an instance of Once   *)
(* rests on it: a row and an answer name the request that was about to     *)
(* commit alone, and found[t] keeps the lead it inserted when the row's    *)
(* reference to it is cleared.                                             *)
(*                                                                         *)
(* Clients: the row locks decide what a merge finds.  A merge under way    *)
(* joins two clients that are there, which no other merge, edit or foreign *)
(* key has; it has moved all the leads of the newer or none; and a lead    *)
(* that becomes a project is moved by nobody.  That nobody has a twin      *)
(* rests on the advisory locks: what an insert found nobody with, nobody   *)
(* but an unsure client has before it commits.  A snapshot sees as much as *)
(* the rows do, but for clients that committed behind it, which are unsure *)
(* if they share a contact with its import.                                *)
(*                                                                         *)
(* BiuroImport: the snapshot decides who is imported.  A run that nothing  *)
(* overlapped has all the leads in its snapshot.  An entry of a journal    *)
(* and a lead itself are traced to the home of their rows, the lead and    *)
(* the phone they were first applied with, which no later run changes.     *)
(***************************************************************************)
EXTENDS SiteForms, Clients, BiuroImport, WellFoundedInduction, TLAPS

\* The submission of a key names the lead its request inserted, or none any more.
RowIsOwn ==
    \A k \in Keys : Stored(k) =>
        submission[k].id \in Requests /\ submission[k].lead \in {None, submission[k].id}

\* The lead of a key is the one its submission names.
LeadIsStored ==
    \A k \in Keys : lead[k] # None => Stored(k) /\ submission[k].lead = lead[k]

\* Notified exactly when stored; deleted only when stored.
NotifiedWhenStored ==
    \A k \in Keys : /\ enqueued[k] = IF Stored(k) THEN 1 ELSE 0
                    /\ k \in deleted => Stored(k) /\ lead[k] = None

\* A request inside the handler has a key, and behind InsertLead a lead.
HasLead ==
    \A t \in Requests : /\ pc[t] # "new" => key[t] \in Keys
                        /\ pc[t] \in {"submit", "commit"} => found[t] # None

\* A request about to commit holds the key, with a lead of its own and none stored.
AboutToCommit ==
    \A t \in Requests : pc[t] = "commit" =>
        submitting[key[t]] = t /\ found[t] = t /\ ~Stored(key[t])

\* An accepted answer names the stored submission and the lead it was stored with.
AnswerIsStored ==
    \A t \in Requests : answer[t] = "accepted" =>
        /\ pc[t] = "done" /\ Stored(key[t])
        /\ reply[t] = [id |-> submission[key[t]].id, lead |-> submission[key[t]].id]

IInv ==
    /\ TypeOK /\ RowIsOwn /\ LeadIsStored /\ NotifiedWhenStored
    /\ HasLead /\ AboutToCommit /\ AnswerIsStored

LEMMA InitIInv == Init => IInv
BY NoneAssumption
DEF Init, IInv, TypeOK, RowIsOwn, LeadIsStored, NotifiedWhenStored, HasLead,
    AboutToCommit, AnswerIsStored, Stored, NoSubmission, Submission

----------------------------------------------------------------------------
\* Finish ends only its own request and frees only its own keys.
LEMMA FinishTypes ==
    ASSUME TypeOK, NEW t \in Requests, NEW how \in {"accepted", "conflict", "error"},
           NEW with \in [id : Requests, lead : Requests] \cup {NoSubmission},
           Finish(t, how, with)
    PROVE  /\ pc' = [pc EXCEPT ![t] = "done"] /\ key' = key
           /\ answer' = [answer EXCEPT ![t] = how] /\ reply' = [reply EXCEPT ![t] = with]
           /\ inserting' \in [Keys -> Requests \cup {None}]
           /\ submitting' \in [Keys -> Requests \cup {None}]
           /\ \A k \in Keys : submitting[k] # t => submitting'[k] = submitting[k]
BY DEF Finish, Goto, Release, TypeOK

\* A request that finishes without changing the rows.
LEMMA Finished ==
    ASSUME IInv, NEW t \in Requests, NEW how \in {"accepted", "conflict", "error"},
           NEW with \in [id : Requests, lead : Requests] \cup {NoSubmission},
           Finish(t, how, with), pc[t] # "new", UNCHANGED <<rows, found, history>>,
           how = "accepted" => Stored(key[t]) /\
               with = [id |-> submission[key[t]].id, lead |-> submission[key[t]].id]
    PROVE  IInv'
<1>0. UNCHANGED <<lead, submission, found, enqueued, deleted>> BY DEF rows, history
<1>1. /\ pc' = [pc EXCEPT ![t] = "done"] /\ key' = key
      /\ answer' = [answer EXCEPT ![t] = how] /\ reply' = [reply EXCEPT ![t] = with]
      /\ inserting' \in [Keys -> Requests \cup {None}]
      /\ submitting' \in [Keys -> Requests \cup {None}]
      /\ \A k \in Keys : submitting[k] # t => submitting'[k] = submitting[k]
  BY FinishTypes DEF IInv
<1>2. TypeOK' BY <1>0, <1>1 DEF IInv, TypeOK
<1>3. RowIsOwn' /\ LeadIsStored' /\ NotifiedWhenStored'
  BY <1>0 DEF IInv, RowIsOwn, LeadIsStored, NotifiedWhenStored, Stored
<1>4. HasLead' BY <1>0, <1>1 DEF IInv, HasLead, TypeOK
<1>5. AboutToCommit'
  BY <1>0, <1>1 DEF IInv, AboutToCommit, HasLead, TypeOK, Stored
<1>6. AnswerIsStored' BY <1>0, <1>1 DEF IInv, AnswerIsStored, TypeOK, Stored
<1> QED BY <1>2, <1>3, <1>4, <1>5, <1>6 DEF IInv

LEMMA Replayed ==
    ASSUME IInv, NEW t \in Requests, Replay(t), Stored(key[t]), pc[t] # "new",
           UNCHANGED <<rows, found, history>>
    PROVE  IInv'
<1> DEFINE existing == submission[key[t]]
<1>1. key[t] \in Keys BY DEF IInv, HasLead
<1>2. CASE existing.lead = None
  BY <1>2, Finished DEF Replay
<1>3. CASE existing.lead # None
  <2>1. /\ existing \in [id : Requests, lead : Requests]
        /\ existing = [id |-> existing.id, lead |-> existing.id]
    BY <1>1, <1>3 DEF IInv, RowIsOwn, TypeOK, Submission, NoSubmission, Stored
  <2> QED BY <1>3, <2>1, Finished DEF Replay
<1> QED BY <1>2, <1>3

\* A request that takes a step but neither finishes nor changes the rows.
LEMMA Onward ==
    ASSUME IInv, NEW t \in Requests, UNCHANGED <<rows, answer, reply, history>>, TypeOK',
           pc[t] # "done",
           \A u \in Requests \ {t} : pc'[u] = pc[u] /\ key'[u] = key[u]
                                     /\ found'[u] = found[u],
           \A k \in Keys : submitting'[k] # submitting[k] => submitting[k] = None,
           pc'[t] # "new" => key'[t] \in Keys,
           pc'[t] \in {"submit", "commit"} => found'[t] # None,
           pc'[t] = "commit" => submitting'[key'[t]] = t /\ found'[t] = t
                                /\ ~Stored(key'[t])
    PROVE  IInv'
<1>0. UNCHANGED <<lead, submission, enqueued, deleted>> BY DEF rows, history
<1>1. RowIsOwn' /\ LeadIsStored' /\ NotifiedWhenStored'
  BY <1>0 DEF IInv, RowIsOwn, LeadIsStored, NotifiedWhenStored, Stored
<1>2. HasLead' BY DEF IInv, HasLead
<1>3. AboutToCommit'
  <2>1. ASSUME NEW u \in Requests \ {t}, pc'[u] = "commit"
        PROVE  submitting'[key'[u]] = u /\ found'[u] = u /\ (~Stored(key[u]))'
    <3>1. submitting[key[u]] = u /\ key[u] \in Keys /\ ~Stored(key[u]) /\ found[u] = u
      BY <2>1 DEF IInv, AboutToCommit, HasLead
    <3> QED BY <1>0, <2>1, <3>1, NoneAssumption DEF Stored
  <2> QED BY <1>0, <2>1 DEF AboutToCommit, Stored
<1>4. AnswerIsStored'
  BY <1>0 DEF IInv, AnswerIsStored, Stored
<1> QED BY <1>1, <1>2, <1>3, <1>4 DEF IInv

----------------------------------------------------------------------------
LEMMA ArriveIInv == ASSUME IInv, NEW t \in Requests, NEW k \in Keys, Arrive(t, k) PROVE IInv'
<1>1. TypeOK' BY DEF Arrive, Goto, IInv, TypeOK, rows, locks, history
<1>2. /\ pc[t] # "done" /\ pc'[t] = "lookup" /\ key'[t] = k
      /\ \A u \in Requests \ {t} : pc'[u] = pc[u] /\ key'[u] = key[u]
      /\ UNCHANGED <<rows, answer, reply, history, submitting, found>>
  BY DEF Arrive, Goto, IInv, TypeOK, rows, locks, history
<1> QED BY <1>1, <1>2, Onward DEF rows, history

LEMMA LookupIInv == ASSUME IInv, NEW t \in Requests, Lookup(t) PROVE IInv'
<1>1. CASE Stored(key[t])
  BY <1>1, Replayed DEF Lookup
<1>2. CASE ~Stored(key[t])
  <2>1. TypeOK' BY <1>2 DEF Lookup, Goto, IInv, TypeOK, rows, locks, history
  <2>2. /\ pc[t] # "done" /\ pc'[t] = "insert" /\ key' = key /\ key[t] \in Keys
        /\ \A u \in Requests \ {t} : pc'[u] = pc[u]
        /\ UNCHANGED <<rows, answer, reply, history, submitting, found>>
    BY <1>2 DEF Lookup, Goto, IInv, TypeOK, HasLead, rows, locks, history
  <2> QED BY <2>1, <2>2, Onward DEF rows, history
<1> QED BY <1>1, <1>2

LEMMA InsertLeadIInv == ASSUME IInv, NEW t \in Requests, InsertLead(t) PROVE IInv'
<1>1. TypeOK' BY DEF InsertLead, Goto, IInv, TypeOK, HasLead, rows, history
<1>2. /\ pc[t] # "done" /\ key' = key /\ key[t] \in Keys
      /\ pc'[t] = "select" \/ (pc'[t] = "submit" /\ found'[t] = t)
      /\ \A u \in Requests \ {t} : pc'[u] = pc[u] /\ found'[u] = found[u]
      /\ UNCHANGED <<rows, answer, reply, history, submitting>>
  BY DEF InsertLead, Goto, IInv, TypeOK, HasLead, rows, history
<1> QED BY <1>1, <1>2, Onward, NoneAssumption DEF rows, history

LEMMA SelectLeadIInv == ASSUME IInv, NEW t \in Requests, SelectLead(t) PROVE IInv'
<1>1. CASE lead[key[t]] = None
  BY <1>1, Finished DEF SelectLead
<1>2. CASE lead[key[t]] # None
  <2>1. key[t] \in Keys BY DEF SelectLead, IInv, HasLead
  <2>2. TypeOK' BY <1>2, <2>1 DEF SelectLead, Goto, IInv, TypeOK, rows, locks, history
  <2>3. /\ pc[t] # "done" /\ key' = key /\ pc'[t] = "submit" /\ found'[t] # None
        /\ \A u \in Requests \ {t} : pc'[u] = pc[u] /\ found'[u] = found[u]
        /\ UNCHANGED <<rows, answer, reply, history, submitting>>
    BY <1>2 DEF SelectLead, Goto, IInv, TypeOK, rows, locks, history
  <2> QED BY <2>1, <2>2, <2>3, Onward DEF rows, history
<1> QED BY <1>1, <1>2

LEMMA InsertSubmissionIInv ==
    ASSUME IInv, NEW t \in Requests, InsertSubmission(t) PROVE IInv'
<1>0. key[t] \in Keys /\ found[t] # None /\ pc[t] = "submit" /\ submitting[key[t]] = None
  BY DEF InsertSubmission, IInv, HasLead
<1>1. CASE Stored(key[t])
  BY <1>0, <1>1, Replayed DEF InsertSubmission
<1>2. CASE ~Stored(key[t]) /\ found[t] \in {t, lead[key[t]]}
  <2>1. found[t] = t BY <1>0, <1>2 DEF IInv, LeadIsStored
  <2>2. /\ submitting' = [submitting EXCEPT ![key[t]] = t] /\ Goto(t, "commit")
        /\ UNCHANGED <<inserting, key, answer, reply, rows, found, history>>
    BY <1>2 DEF InsertSubmission
  <2>3. TypeOK' BY <1>0, <2>2 DEF Goto, IInv, TypeOK, rows, history
  <2>4. /\ pc'[t] = "commit" /\ submitting'[key[t]] = t
        /\ \A k \in Keys \ {key[t]} : submitting'[k] = submitting[k]
        /\ \A u \in Requests \ {t} : pc'[u] = pc[u]
    BY <1>0, <2>2 DEF Goto, IInv, TypeOK
  <2> QED BY <1>0, <1>2, <2>1, <2>2, <2>3, <2>4, Onward DEF rows, history
<1>3. CASE ~Stored(key[t]) /\ found[t] \notin {t, lead[key[t]]}
  <2>1. Finish(t, "error", NoSubmission) /\ UNCHANGED <<rows, found, history>>
    BY <1>3 DEF InsertSubmission
  <2> QED BY <1>0, <2>1, Finished
<1> QED BY <1>1, <1>2, <1>3

LEMMA CommitIInv == ASSUME IInv, NEW t \in Requests, Commit(t) PROVE IInv'
<1>k. PICK k \in Keys : k = key[t] BY DEF Commit, IInv, HasLead
<1> DEFINE mine == [id |-> t, lead |-> t]
<1> HIDE DEF mine
<1>0. /\ k = key[t] /\ found[t] = t /\ ~Stored(k) /\ submitting[k] = t
      /\ lead[k] = None /\ enqueued[k] = 0 /\ pc[t] = "commit"
  BY <1>k DEF Commit, IInv, AboutToCommit, LeadIsStored, NotifiedWhenStored
<1>1. /\ submission' = [submission EXCEPT ![k] = mine]
      /\ lead' = [lead EXCEPT ![k] = t]
      /\ enqueued' = [enqueued EXCEPT ![k] = 1]
      /\ UNCHANGED <<found, deleted>>
  BY <1>0 DEF Commit, mine, IInv, TypeOK
<1>2. \E how \in {"accepted", "error"}, with \in {mine, NoSubmission} :
         Finish(t, how, with) /\ (how = "accepted" => with = mine)
  BY <1>0 DEF Commit, mine
<1>3. PICK how \in {"accepted", "error"}, with \in {mine, NoSubmission} :
         Finish(t, how, with) /\ (how = "accepted" => with = mine)
  BY <1>2
<1>4. /\ pc' = [pc EXCEPT ![t] = "done"] /\ key' = key
      /\ answer' = [answer EXCEPT ![t] = how] /\ reply' = [reply EXCEPT ![t] = with]
      /\ inserting' \in [Keys -> Requests \cup {None}]
      /\ submitting' \in [Keys -> Requests \cup {None}]
      /\ \A q \in Keys : submitting[q] # t => submitting'[q] = submitting[q]
  BY <1>3, FinishTypes DEF IInv, mine
<1>5. TypeOK'
  <2>1. mine \in [id : Requests, lead : Requests] /\ mine \in Submission
    BY DEF mine, Submission
  <2>2. /\ with \in [id : Requests, lead : Requests] \cup {NoSubmission}
        /\ how \in {"none", "accepted", "conflict", "error"}
    BY <2>1
  <2>3. pc' \in [Requests -> {"new", "lookup", "insert", "select", "submit", "commit",
                            "done"}]
    BY <1>4 DEF IInv, TypeOK
  <2>4. UNCHANGED <<found, key, deleted>> BY <1>1, <1>4
  <2>5. /\ lead' \in [Keys -> Requests \cup {None}]
        /\ submission' \in [Keys -> Submission \cup {NoSubmission}]
        /\ enqueued' \in [Keys -> 0..2]
    BY <1>1, <2>1 DEF IInv, TypeOK
  <2>6. /\ answer' \in [Requests -> {"none", "accepted", "conflict", "error"}]
        /\ reply' \in [Requests -> [id : Requests, lead : Requests] \cup {NoSubmission}]
    BY <1>4, <2>2 DEF IInv, TypeOK
  <2> QED BY <1>4, <2>3, <2>4, <2>5, <2>6 DEF IInv, TypeOK
<1>6. /\ Stored(k)' /\ submission'[k] = mine /\ lead'[k] = t
      /\ \A q \in Keys \ {k} :
            /\ submission'[q] = submission[q] /\ lead'[q] = lead[q]
            /\ enqueued'[q] = enqueued[q]
      /\ enqueued'[k] = 1
  BY <1>0, <1>1, NoneAssumption DEF IInv, TypeOK, Stored, NoSubmission, mine
<1>7. RowIsOwn' /\ LeadIsStored'
  BY <1>6 DEF IInv, RowIsOwn, LeadIsStored, Stored, mine
<1>8. NotifiedWhenStored'
  BY <1>0, <1>1, <1>6 DEF IInv, NotifiedWhenStored, Stored
<1>9. HasLead' BY <1>0, <1>1, <1>4 DEF IInv, HasLead, TypeOK
<1>10. AboutToCommit'
  <2>1. ASSUME NEW u \in Requests, pc'[u] = "commit"
        PROVE  submitting'[key'[u]] = u /\ found'[u] = u /\ (~Stored(key[u]))'
    <3>1. /\ u # t /\ pc[u] = "commit" /\ key[u] \in Keys /\ submitting[key[u]] = u
          /\ found[u] = u /\ ~Stored(key[u])
      BY <2>1, <1>4 DEF IInv, AboutToCommit, HasLead, TypeOK
    <3>2. key[u] # k BY <1>0, <3>1
    <3> QED BY <1>1, <1>4, <1>6, <3>1, <3>2 DEF Stored
  <2> QED BY <2>1, <1>4 DEF AboutToCommit, Stored
<1>11. AnswerIsStored'
  <2>1. ASSUME NEW u \in Requests, answer'[u] = "accepted", u # t
        PROVE  key[u] # k /\ key[u] \in Keys /\ answer[u] = "accepted"
    BY <1>0, <1>4, <2>1 DEF IInv, AnswerIsStored, HasLead, TypeOK
  <2> QED BY <1>0, <1>3, <1>4, <1>6, <2>1 DEF IInv, AnswerIsStored, TypeOK, Stored, mine
<1> QED BY <1>5, <1>7, <1>8, <1>9, <1>10, <1>11 DEF IInv

LEMMA AbortIInv == ASSUME IInv, NEW t \in Requests, Abort(t) PROVE IInv'
BY Finished DEF Abort

LEMMA DeleteLeadIInv == ASSUME IInv, NEW k \in Keys, DeleteLead(k) PROVE IInv'
<1>0. Stored(k) /\ submission[k].id \in Requests
  BY DEF DeleteLead, IInv, LeadIsStored, RowIsOwn
<1>1. /\ lead' = [lead EXCEPT ![k] = None]
      /\ submission' = [submission EXCEPT ![k].lead = None]
      /\ deleted' = deleted \cup {k}
      /\ UNCHANGED <<inserting, submitting, pc, key, found, answer, reply, enqueued>>
  BY DEF DeleteLead, locks
<1>2. /\ submission'[k] = [id |-> submission[k].id, lead |-> None]
      /\ \A q \in Keys \ {k} : submission'[q] = submission[q] /\ lead'[q] = lead[q]
      /\ lead'[k] = None
  BY <1>0, <1>1 DEF IInv, TypeOK, Submission, NoSubmission, Stored
<1>3. submission' \in [Keys -> Submission \cup {NoSubmission}]
  BY <1>0, <1>1, <1>2 DEF IInv, TypeOK, Submission
<1>4. TypeOK' BY <1>1, <1>3 DEF IInv, TypeOK
<1>5. \A q \in Keys : Stored(q)' = Stored(q) /\ submission'[q].id = submission[q].id
  BY <1>0, <1>2, NoneAssumption DEF Stored, NoSubmission
<1>6. RowIsOwn' BY <1>2, <1>5 DEF IInv, RowIsOwn
<1>7. LeadIsStored' BY <1>2, <1>5 DEF IInv, LeadIsStored
<1>8. NotifiedWhenStored' BY <1>0, <1>1, <1>2, <1>5 DEF IInv, NotifiedWhenStored
<1>9. HasLead' /\ AboutToCommit'
  BY <1>1, <1>5 DEF IInv, HasLead, AboutToCommit
<1>10. AnswerIsStored'
  BY <1>1, <1>5 DEF IInv, AnswerIsStored, HasLead
<1> QED BY <1>4, <1>6, <1>7, <1>8, <1>9, <1>10 DEF IInv

LEMMA NextIInv == IInv /\ [Next]_vars => IInv'
<1> SUFFICES ASSUME IInv, [Next]_vars PROVE IInv' OBVIOUS
<1>1. CASE UNCHANGED vars
  BY <1>1 DEF vars, rows, locks, history, IInv, TypeOK, RowIsOwn, LeadIsStored,
              NotifiedWhenStored, HasLead, AboutToCommit, AnswerIsStored, Stored
<1> QED BY <1>1, ArriveIInv, LookupIInv, InsertLeadIInv, SelectLeadIInv,
           InsertSubmissionIInv, CommitIInv, AbortIInv, DeleteLeadIInv DEF Next

THEOREM Invariance == Spec => []IInv
BY InitIInv, NextIInv, PTL DEF Spec

----------------------------------------------------------------------------
\* Every variable of the form handler keeps its type; in particular an accepted answer
\* always names a submission and a lead.
THEOREM TypeCorrect == Spec => []TypeOK
<1>1. IInv => TypeOK BY DEF IInv
<1> QED BY <1>1, Invariance, PTL

\* Retries of a form, racing or not, are all answered with one submission and one lead.
THEOREM OneAnswerPerForm == Spec => []SameAnswer
<1>1. IInv => SameAnswer BY DEF IInv, AnswerIsStored, SameAnswer
<1> QED BY <1>1, Invariance, PTL

\* One notification commits with each form's lead and with its submission.
THEOREM OneNotificationPerForm == Spec => []NotifiedOnce
<1>1. IInv => NotifiedOnce
  BY DEF IInv, NotifiedWhenStored, LeadIsStored, NotifiedOnce
<1> QED BY <1>1, Invariance, PTL

\* A deleted lead is not brought back by any request, however late.
THEOREM DeletionsStick == Spec => DeletedStaysDeleted
<1> DEFINE Stays == \A k \in Keys : k \in deleted => lead'[k] = None
<1>1. IInv /\ [Next]_vars => [Stays]_vars
  <2> SUFFICES ASSUME IInv, Next PROVE Stays OBVIOUS
  <2>1. \A k \in Keys : k \in deleted => Stored(k) /\ lead[k] = None
    BY DEF IInv, NotifiedWhenStored
  <2>2. ASSUME NEW t \in Requests, Commit(t) PROVE Stays
    <3>1. lead' = [lead EXCEPT ![key[t]] = found[t]] /\ ~Stored(key[t])
      BY <2>2 DEF Commit, IInv, AboutToCommit
    <3> QED BY <2>1, <3>1 DEF IInv, TypeOK
  <2>3. ASSUME NEW q \in Keys, DeleteLead(q) PROVE Stays
    BY <2>1, <2>3 DEF DeleteLead, IInv, TypeOK
  <2>4. ASSUME lead' = lead PROVE Stays BY <2>1, <2>4
  <2>5. ASSUME NEW t \in Requests,
               \/ \E k \in Keys : Arrive(t, k)
               \/ Lookup(t) \/ InsertLead(t) \/ SelectLead(t) \/ InsertSubmission(t)
               \/ Abort(t)
        PROVE  lead' = lead
    BY <2>5 DEF Arrive, Lookup, InsertLead, SelectLead, InsertSubmission, Abort, rows
  <2> QED BY <2>2, <2>3, <2>4, <2>5 DEF Next
<1> QED BY <1>1, Invariance, PTL DEF Spec, DeletedStaysDeleted

----------------------------------------------------------------------------
(* The promise of the key (Once) *)

\* A request has its key from its arrival and its answer at its end; the request that
\* stored a form is at its end, with the lead it inserted.
OnceInv ==
    /\ \A t \in Requests : /\ pc[t] = "new" => key[t] = None
                           /\ pc[t] # "done" => answer[t] = "none"
    /\ \A k \in Keys : Stored(k) => /\ pc[submission[k].id] = "done"
                                    /\ found[submission[k].id] = submission[k].id

LEMMA InitOnce == Init => OnceInv /\ Form!Init
<1> SUFFICES ASSUME Init PROVE OnceInv /\ Form!Init OBVIOUS
<1>1. \A k \in Keys : ~Stored(k) BY DEF Init, Stored
<1>2. OnceInv BY <1>1 DEF Init, OnceInv
<1>3. FormsStored = [k \in Keys |-> {}] BY <1>1 DEF FormsStored
<1>4. FormsTold = [t \in Requests |-> {}] BY DEF Init, FormsTold
<1> QED BY <1>2, <1>3, <1>4 DEF Init, Form!Init

\* A request that neither ends nor writes its key.
LEMMA UnheardStep ==
    ASSUME IInv, OnceInv, NEW t \in Requests, pc[t] # "done", pc'[t] # "new",
           UNCHANGED <<submission, answer, reply>>,
           \A u \in Requests \ {t} : /\ pc'[u] = pc[u] /\ key'[u] = key[u]
                                     /\ found'[u] = found[u]
    PROVE  OnceInv' /\ UNCHANGED <<FormsStored, FormsTold>>
<1>1. \A k \in Keys : Stored(k)' = Stored(k) BY DEF Stored
<1>2. \A k \in Keys : Stored(k) => submission[k].id \in Requests \ {t}
  BY DEF IInv, RowIsOwn, OnceInv
<1>3. OnceInv' BY <1>1, <1>2 DEF OnceInv
<1>4. FormsStored' = FormsStored BY <1>1, <1>2 DEF FormsStored
<1>5. FormsTold' = FormsTold BY DEF FormsTold
<1> QED BY <1>3, <1>4, <1>5

\* A request that ends and stores nothing.
LEMMA AnsweredStep ==
    ASSUME IInv, OnceInv, NEW t \in Requests, NEW how \in {"accepted", "conflict", "error"},
           NEW with, Finish(t, how, with), pc[t] \notin {"new", "done"},
           UNCHANGED <<submission, found>>
    PROVE  /\ OnceInv' /\ UNCHANGED <<key, FormsStored>>
           /\ FormsTold' = IF how = "accepted" THEN [FormsTold EXCEPT ![t] = {with}]
                                               ELSE FormsTold
           /\ FormsTold[t] = {}
<1>1. /\ pc' = [pc EXCEPT ![t] = "done"] /\ answer' = [answer EXCEPT ![t] = how]
      /\ reply' = [reply EXCEPT ![t] = with] /\ key' = key
  BY DEF Finish, Goto
<1>2. \A k \in Keys : Stored(k)' = Stored(k) BY DEF Stored
<1>3. /\ pc \in [Requests -> {"new", "lookup", "insert", "select", "submit", "commit",
                              "done"}]
      /\ answer \in [Requests -> {"none", "accepted", "conflict", "error"}]
      /\ DOMAIN reply = Requests
  BY DEF IInv, TypeOK
<1>4. OnceInv' BY <1>1, <1>2, <1>3 DEF OnceInv, IInv, RowIsOwn
<1>5. FormsStored' = FormsStored BY <1>2 DEF FormsStored
<1>6. answer[t] = "none" BY DEF OnceInv
<1>7. FormsTold' = IF how = "accepted" THEN [FormsTold EXCEPT ![t] = {with}]
                                       ELSE FormsTold
  BY <1>1, <1>3, <1>6 DEF FormsTold
<1> QED BY <1>1, <1>4, <1>5, <1>6, <1>7 DEF FormsTold

LEMMA RefusedStep ==
    ASSUME IInv, OnceInv, NEW t \in Requests, NEW how \in {"conflict", "error"},
           Finish(t, how, NoSubmission), pc[t] \notin {"new", "done"},
           UNCHANGED <<submission, found>>
    PROVE  OnceInv' /\ UNCHANGED <<key, FormsStored, FormsTold>>
BY AnsweredStep

LEMMA ReplayedStep ==
    ASSUME IInv, OnceInv, NEW t \in Requests, Replay(t), Stored(key[t]),
           pc[t] \notin {"new", "done"}, UNCHANGED <<submission, found>>
    PROVE  OnceInv' /\ (Form!Replay(t) \/ UNCHANGED <<key, FormsStored, FormsTold>>)
<1> DEFINE existing == submission[key[t]]
<1>1. key[t] \in Keys /\ key[t] # None BY NoneAssumption DEF IInv, HasLead
<1>2. CASE existing.lead = None BY <1>2, RefusedStep DEF Replay
<1>3. CASE existing.lead # None
  <2>1. existing = [id |-> existing.id, lead |-> existing.id]
    BY <1>1, <1>3 DEF IInv, RowIsOwn, TypeOK, Submission, NoSubmission, Stored
  <2>2. found[existing.id] = existing.id BY <1>1 DEF OnceInv
  <2>3. FormsStored[key[t]] = {[id |-> existing.id, lead |-> found[existing.id]]}
    BY <1>1 DEF FormsStored
  <2>4. FormsStored[key[t]] = {existing} BY <2>1, <2>2, <2>3
  <2>5. Finish(t, "accepted", existing) BY <1>3 DEF Replay
  <2> HIDE DEF existing
  <2>6. /\ OnceInv' /\ UNCHANGED <<key, FormsStored>> /\ FormsTold[t] = {}
        /\ FormsTold' = [FormsTold EXCEPT ![t] = {existing}]
    BY <2>5, AnsweredStep
  <2> QED BY <1>1, <2>4, <2>6 DEF Form!Replay
<1> QED BY <1>2, <1>3

LEMMA CommitStep ==
    ASSUME IInv, OnceInv, NEW t \in Requests, Commit(t)
    PROVE  OnceInv' /\ Form!Work(t)
<1> DEFINE k == key[t] mine == [id |-> t, lead |-> t]
<1>1. /\ k \in Keys /\ found[t] = t /\ ~Stored(k) /\ pc[t] = "commit" /\ k # None
  BY NoneAssumption DEF IInv, AboutToCommit, HasLead, Commit
<1>2. /\ submission' = [submission EXCEPT ![k] = mine] /\ found' = found
  BY <1>1 DEF Commit
<1>3. PICK how \in {"accepted", "error"} :
        Finish(t, how, IF how = "accepted" THEN mine ELSE NoSubmission)
  BY <1>1 DEF Commit
<1>4. /\ pc' = [pc EXCEPT ![t] = "done"] /\ answer' = [answer EXCEPT ![t] = how]
      /\ reply' = [reply EXCEPT ![t] = IF how = "accepted" THEN mine ELSE NoSubmission]
      /\ key' = key
  BY <1>3 DEF Finish, Goto
<1>5. /\ DOMAIN submission = Keys /\ DOMAIN reply = Requests
      /\ answer \in [Requests -> {"none", "accepted", "conflict", "error"}]
      /\ pc \in [Requests -> {"new", "lookup", "insert", "select", "submit", "commit",
                              "done"}]
  BY DEF IInv, TypeOK
<1>6. t # None BY NoneAssumption
<1>7. submission'[k] = mine /\ Stored(k)' BY <1>1, <1>2, <1>4, <1>5, <1>6 DEF Stored, NoSubmission
<1>8. \A q \in Keys \ {k} : submission'[q] = submission[q] /\ Stored(q)' = Stored(q)
  BY <1>2, <1>5 DEF Stored
<1>9. OnceInv'
  <2>1. \A u \in Requests : /\ (pc[u] = "new" => key[u] = None)'
                            /\ (pc[u] # "done" => answer[u] = "none")'
    BY <1>4, <1>5 DEF OnceInv
  <2>2. ASSUME NEW q \in Keys, Stored(q)'
        PROVE  /\ pc'[submission'[q].id] = "done"
               /\ found'[submission'[q].id] = submission'[q].id
    <3>1. CASE q = k BY <1>1, <1>2, <1>4, <1>5, <1>7, <3>1
    <3>2. CASE q # k
      <4>1. /\ pc[submission[q].id] = "done" /\ submission[q].id \in Requests
            /\ found[submission[q].id] = submission[q].id
        BY <1>8, <2>2, <3>2 DEF OnceInv, IInv, RowIsOwn
      <4> QED BY <1>2, <1>4, <1>5, <1>8, <3>2, <4>1
    <3> QED BY <3>1, <3>2
  <2> QED BY <2>1, <2>2 DEF OnceInv
<1>10. FormsStored' = [FormsStored EXCEPT ![k] = {mine}]
  <2>1. FormsStored'[k] = {mine} BY <1>1, <1>2, <1>4, <1>7 DEF FormsStored
  <2>2. \A q \in Keys \ {k} : FormsStored'[q] = FormsStored[q]
    BY <1>2, <1>8 DEF FormsStored
  <2>3. /\ FormsStored = [q \in Keys |-> FormsStored[q]]
        /\ FormsStored' = [q \in Keys |-> FormsStored'[q]]
    BY DEF FormsStored
  <2> HIDE DEF k, mine
  <2> QED BY <2>1, <2>2, <2>3
<1>11. FormsStored[k] = {} BY <1>1 DEF FormsStored
<1>12. FormsTold' \in {FormsTold, [FormsTold EXCEPT ![t] = {mine}]}
  <2>1. answer[t] = "none" BY <1>1 DEF OnceInv
  <2> HIDE DEF mine, k
  <2>2. CASE how = "accepted" BY <1>4, <1>5, <2>1, <2>2 DEF FormsTold
  <2>3. CASE how = "error" BY <1>4, <1>5, <2>1, <2>3 DEF FormsTold
  <2> QED BY <2>2, <2>3
<1>13. mine \in {[id |-> u, lead |-> u] : u \in Requests} OBVIOUS
<1> HIDE DEF mine
<1> QED BY <1>1, <1>4, <1>9, <1>10, <1>11, <1>12, <1>13 DEF Form!Work

LEMMA ArriveStep ==
    ASSUME IInv, OnceInv, NEW t \in Requests, NEW k \in Keys, Arrive(t, k)
    PROVE  OnceInv' /\ Form!Ask(t, k)
<1>1. /\ pc[t] = "new" /\ key[t] = None /\ key' = [key EXCEPT ![t] = k]
      /\ pc' = [pc EXCEPT ![t] = "lookup"]
      /\ UNCHANGED <<submission, found, answer, reply>>
  BY DEF Arrive, Goto, rows, OnceInv
<1>2. /\ pc \in [Requests -> {"new", "lookup", "insert", "select", "submit", "commit",
                              "done"}]
      /\ DOMAIN key = Requests
  BY DEF IInv, TypeOK
<1>3. \A q \in Keys : Stored(q)' = Stored(q) BY <1>1 DEF Stored
<1>4. \A q \in Keys : Stored(q) => submission[q].id \in Requests \ {t}
  BY <1>1 DEF IInv, RowIsOwn, OnceInv
<1>5. OnceInv' BY <1>1, <1>2, <1>3, <1>4 DEF OnceInv
<1>6. UNCHANGED <<FormsStored, FormsTold>> BY <1>1, <1>3 DEF FormsStored, FormsTold
<1> QED BY <1>1, <1>5, <1>6 DEF Form!Ask

LEMMA DeleteStep ==
    ASSUME IInv, OnceInv, NEW k \in Keys, DeleteLead(k)
    PROVE  OnceInv' /\ UNCHANGED Form!onceVars
<1>1. /\ submission' = [submission EXCEPT ![k].lead = None]
      /\ UNCHANGED <<pc, key, found, answer, reply>>
  BY DEF DeleteLead
<1>2. /\ submission \in [Keys -> Submission \cup {NoSubmission}]
      /\ lead[k] # None /\ Stored(k) /\ submission[k].id \in Requests
  BY DEF IInv, TypeOK, DeleteLead, LeadIsStored, RowIsOwn
<1>3. \A q \in Keys : submission'[q].id = submission[q].id
  BY <1>1, <1>2 DEF Submission, NoSubmission
<1>4. submission'[k].id # None BY <1>2, <1>3, NoneAssumption
<1>5. \A q \in Keys : Stored(q)' = Stored(q)
  BY <1>1, <1>2, <1>4 DEF Stored, NoSubmission
<1>6. OnceInv' BY <1>1, <1>3, <1>5 DEF OnceInv
<1>7. FormsStored' = FormsStored BY <1>1, <1>3, <1>5 DEF FormsStored
<1>8. FormsTold' = FormsTold BY <1>1 DEF FormsTold
<1> QED BY <1>1, <1>6, <1>7, <1>8 DEF Form!onceVars

LEMMA NextOnce ==
    ASSUME IInv, OnceInv, [Next]_vars
    PROVE  OnceInv' /\ [Form!Next]_(Form!onceVars)
<1> USE DEF Form!Next, Form!onceVars
<1>1. ASSUME NEW t \in Requests, NEW k \in Keys, Arrive(t, k)
      PROVE  OnceInv' /\ [Form!Next]_(Form!onceVars)
  BY <1>1, ArriveStep
<1>2. ASSUME NEW t \in Requests, Lookup(t)
      PROVE  OnceInv' /\ [Form!Next]_(Form!onceVars)
  <2>1. pc[t] = "lookup" /\ UNCHANGED <<submission, found>> BY <1>2 DEF Lookup, rows
  <2>2. CASE Stored(key[t]) BY <1>2, <2>1, <2>2, ReplayedStep DEF Lookup
  <2>3. CASE ~Stored(key[t])
    BY <1>2, <2>1, <2>3, UnheardStep DEF Lookup, Goto, IInv, TypeOK
  <2> QED BY <2>2, <2>3
<1>3. ASSUME NEW t \in Requests, InsertLead(t)
      PROVE  OnceInv' /\ [Form!Next]_(Form!onceVars)
  <2>1. /\ pc[t] = "insert" /\ UNCHANGED <<submission, key, answer, reply>>
        /\ pc' \in {[pc EXCEPT ![t] = "submit"], [pc EXCEPT ![t] = "select"]}
        /\ found' \in {found, [found EXCEPT ![t] = t]}
    BY <1>3 DEF InsertLead, rows, Goto
  <2> QED BY <2>1, UnheardStep DEF IInv, TypeOK
<1>4. ASSUME NEW t \in Requests, SelectLead(t)
      PROVE  OnceInv' /\ [Form!Next]_(Form!onceVars)
  <2>1. pc[t] = "select" /\ UNCHANGED submission BY <1>4 DEF SelectLead, rows
  <2>2. CASE lead[key[t]] = None
    BY <1>4, <2>1, <2>2, RefusedStep DEF SelectLead
  <2>3. CASE lead[key[t]] # None
    <3>1. /\ UNCHANGED <<key, answer, reply>> /\ pc' = [pc EXCEPT ![t] = "submit"]
          /\ found' = [found EXCEPT ![t] = lead[key[t]]]
      BY <1>4, <2>3 DEF SelectLead, Goto
    <3> QED BY <2>1, <3>1, UnheardStep DEF IInv, TypeOK
  <2> QED BY <2>2, <2>3
<1>5. ASSUME NEW t \in Requests, InsertSubmission(t)
      PROVE  OnceInv' /\ [Form!Next]_(Form!onceVars)
  <2>1. pc[t] = "submit" /\ UNCHANGED <<submission, found>>
    BY <1>5 DEF InsertSubmission, rows
  <2>2. CASE Stored(key[t]) BY <1>5, <2>1, <2>2, ReplayedStep DEF InsertSubmission
  <2>3. CASE ~Stored(key[t]) /\ found[t] \in {t, lead[key[t]]}
    BY <1>5, <2>1, <2>3, UnheardStep DEF InsertSubmission, Goto, IInv, TypeOK
  <2>4. CASE ~Stored(key[t]) /\ found[t] \notin {t, lead[key[t]]}
    BY <1>5, <2>1, <2>4, RefusedStep DEF InsertSubmission
  <2> QED BY <2>2, <2>3, <2>4
<1>6. ASSUME NEW t \in Requests, Commit(t)
      PROVE  OnceInv' /\ [Form!Next]_(Form!onceVars)
  BY <1>6, CommitStep
<1>7. ASSUME NEW t \in Requests, Abort(t)
      PROVE  OnceInv' /\ [Form!Next]_(Form!onceVars)
  BY <1>7, RefusedStep DEF Abort, rows
<1>8. ASSUME NEW k \in Keys, DeleteLead(k)
      PROVE  OnceInv' /\ [Form!Next]_(Form!onceVars)
  BY <1>8, DeleteStep
<1>9. ASSUME UNCHANGED vars PROVE OnceInv' /\ [Form!Next]_(Form!onceVars)
  BY <1>9 DEF vars, rows, OnceInv, Stored, FormsStored, FormsTold
<1> QED BY <1>1, <1>2, <1>3, <1>4, <1>5, <1>6, <1>7, <1>8, <1>9 DEF Next

\* The public form keeps the promise of its idempotency key: the transaction that
\* commits a submission does the work of its key, which nothing undoes or does again,
\* and replay answers with that work and no other (service.go:64).
THEOREM FormsImplementOnce == Spec => FormsAreOnce
<1>1. Init => OnceInv BY InitOnce
<1>2. Init => Form!Init BY InitOnce
<1>3. IInv /\ OnceInv /\ [Next]_vars => OnceInv' BY NextOnce
<1>4. IInv /\ OnceInv /\ [Next]_vars => [Form!Next]_(Form!onceVars) BY NextOnce
<1> QED BY <1>1, <1>2, <1>3, <1>4, Invariance, PTL DEF Spec, FormsAreOnce, Form!Spec
----------------------------------------------------------------------------
(* Clients *)

\* The oldest of the clients found is one of them.
LEMMA OldestIsFound ==
    ASSUME NEW matches \in SUBSET Inserts
    PROVE  matches # {} => Oldest(matches) \in matches
<1> DEFINE Less == {pair \in Nat \X Nat : pair[1] < pair[2]}
<1>1. IsWellFoundedOn(Less, Nat) BY NatLessThanWellFounded DEF OpToRel
<1>2. matches \subseteq Nat BY ClientAssumption
<1>3. \A a, b \in Nat : <<a, b>> \in Less <=> a < b OBVIOUS
<1> HIDE DEF Less
<1> SUFFICES ASSUME matches # {} PROVE Oldest(matches) \in matches OBVIOUS
<1>4. PICK c \in matches : \A d \in matches : ~(<<d, c>> \in Less) BY <1>1, <1>2, WFMin
<1>5. \A d \in matches : ~(d < c) BY <1>2, <1>3, <1>4
<1>6. \A d \in matches : c <= d BY <1>2, <1>5
<1> QED BY <1>6 DEF Oldest, Min

Holding(m) == merging[m].step \in {"leads", "commit"}
Pair(m) == {merging[m].older, merging[m].newer}

OpeningRow == [step : {"none", "insert", "commit"}, client : MaybeClient]
MergeRow == [step : {"new", "leads", "commit", "done"}, older : MaybeClient,
             newer : MaybeClient, moved : SUBSET Inserts]
EditRow == [step : {"new", "lock", "write", "done"}, client : MaybeClient,
            strict : BOOLEAN, version : Nat]

RowTypes ==
    /\ leadClient \in [Inserts -> MaybeClient]
    /\ projectClient \in [Inserts -> MaybeClient]
    /\ card = [c \in Inserts |-> card[c]]
    /\ mergedInto \in [Inserts -> MaybeClient]
    /\ cardVersion \in [Inserts -> Nat]
RequestTypes ==
    /\ arrival \in [Inserts -> {"snapshot", "phone", "email", "insert", "commit", "done"}]
    /\ view = [i \in Inserts |-> view[i]]
    /\ choice \in [Inserts -> MaybeClient]
    /\ opening \in [Inserts -> OpeningRow]
    /\ merging \in [Merges -> MergeRow]
    /\ editing \in [Edits -> EditRow]

\* Nothing is known of a lead, and no client bears its number, before it commits.
CommittedFirst ==
    \A i \in Inserts : card[i] # NoCard \/ mergedInto[i] # NoClient \/ leadClient[i] # NoClient
                          => arrival[i] = "done"

\* An insert that goes on with a client merged away chose it before.
ChosenBefore ==
    \A i \in Inserts :
        /\ arrival[i] \in {"insert", "commit"} => choice[i] # NoClient
        /\ /\ arrival[i] \in {"email", "insert", "commit"}
           /\ choice[i] # NoClient /\ mergedInto[choice[i]] # NoClient
           => i \in late

\* What an import sees had committed, and a merge that it does not know marks it.
ViewsAreOld ==
    \A i \in Imports, c \in Inserts :
        arrival[i] \in {"phone", "email"} /\ view[i][c] # NoCard =>
            arrival[c] = "done" /\ (mergedInto[c] # NoClient => i \in late)

\* A lead that becomes a project has no project yet, and no merge moves it: the client
\* that was read is still its own.
OpeningHasLead ==
    \A i \in Inserts :
        /\ opening[i].step = "none" => opening[i] = NoOpening
        /\ opening[i].step # "none" =>
              /\ opening[i].client = leadClient[i] /\ leadClient[i] # NoClient
              /\ projectClient[i] = NoClient
              /\ \A m \in Merges : i \notin merging[m].moved

\* A merge under way joins two clients that are there; it has moved all or nothing.
MergesTheLiving ==
    \A m \in Merges :
        /\ Holding(m) => Pair(m) \subseteq Live /\ merging[m].older < merging[m].newer
        /\ merging[m].moved = IF merging[m].step = "commit"
                              THEN {i \in Inserts : leadClient[i] = merging[m].newer}
                              ELSE {}

\* It alone has them for update, and no foreign key shares them.
HeldAlone ==
    \A m \in Merges : Holding(m) =>
        /\ \A n \in Merges : Holding(n) /\ n # m => Pair(m) \cap Pair(n) = {}
        /\ \A e \in Edits : editing[e].step = "write" => editing[e].client \notin Pair(m)
        /\ \A i \in Inserts :
              /\ arrival[i] = "commit" => choice[i] \notin Pair(m)
              /\ opening[i].step = "commit" => opening[i].client \notin Pair(m)

\* The version of If-Match is older than the merge of the client.
EditsKnowTheMerge ==
    \A e \in Edits :
        /\ editing[e].step \in {"lock", "write"} =>
              editing[e].client \in Inserts /\ arrival[editing[e].client] = "done"
        /\ editing[e].step = "lock" =>
              /\ editing[e].version <= cardVersion[editing[e].client]
              /\ mergedInto[editing[e].client] # NoClient =>
                    editing[e].version < cardVersion[editing[e].client]
        /\ editing[e].step = "write" /\ editing[e].strict =>
              mergedInto[editing[e].client] = NoClient

ClientInv ==
    /\ RowTypes /\ RequestTypes /\ CommittedFirst /\ ChosenBefore /\ OpeningHasLead
    /\ MergesTheLiving /\ HeldAlone /\ EditsKnowTheMerge /\ ViewsAreOld
    /\ ProjectFollowsLead /\ NothingLeftBehind

LEMMA NoRows == /\ NoOpening \in OpeningRow /\ NoMerge \in MergeRow /\ NoEdit \in EditRow
                /\ [NoMerge EXCEPT !.step = "done"] \in MergeRow
                /\ [NoEdit EXCEPT !.step = "done"] \in EditRow
                /\ NoOpening.step = "none"
                /\ NoMerge.step = "new" /\ NoMerge.moved = {}
                /\ [NoMerge EXCEPT !.step = "done"].step = "done"
                /\ [NoMerge EXCEPT !.step = "done"].moved = {}
                /\ NoEdit.step = "new" /\ [NoEdit EXCEPT !.step = "done"].step = "done"
BY DEF NoOpening, NoMerge, NoEdit, OpeningRow, MergeRow, EditRow, MaybeClient

LEMMA InitClientInv == ClientInit => ClientInv
<1> SUFFICES ASSUME ClientInit PROVE ClientInv OBVIOUS
<1>1. RowTypes BY DEF ClientInit, RowTypes, MaybeClient
<1>2. RequestTypes BY NoRows DEF ClientInit, RequestTypes, MaybeClient
<1>3. CommittedFirst /\ ChosenBefore BY DEF ClientInit, CommittedFirst, ChosenBefore
<1>4. OpeningHasLead BY NoRows DEF ClientInit, OpeningHasLead
<1>5. MergesTheLiving /\ HeldAlone
  BY NoRows DEF ClientInit, MergesTheLiving, HeldAlone, Holding
<1>6. EditsKnowTheMerge BY NoRows DEF ClientInit, EditsKnowTheMerge
<1>7. ProjectFollowsLead /\ NothingLeftBehind
  BY DEF ClientInit, ProjectFollowsLead, NothingLeftBehind
<1>8. ViewsAreOld BY ClientAssumption DEF ClientInit, ViewsAreOld, NoView
<1> QED BY <1>1, <1>2, <1>3, <1>4, <1>5, <1>6, <1>7, <1>8 DEF ClientInv

----------------------------------------------------------------------------
\* A request that inserts a lead moves on, with a client that is not held, not merged
\* away, or chosen before it was.
LEMMA AdvanceKeeps ==
    ASSUME ClientInv, NEW i \in Inserts, arrival[i] # "done",
           NEW at \in {"email", "insert", "commit", "done"}, NEW client \in MaybeClient,
           Advance(i, at, client), at = "email" => arrival[i] = "phone",
           at \in {"insert", "commit"} => client # NoClient,
           at # "done" /\ client # NoClient /\ mergedInto[client] # NoClient => i \in late,
           at = "commit" => \A m \in Merges : Holding(m) => client \notin Pair(m)
    PROVE  ClientInv'
<1>0. /\ at # "done" => view' = view
      /\ view' = view \/ view' = [view EXCEPT ![i] = NoView]
  BY DEF Advance, EndView
<1>1. /\ arrival' = [arrival EXCEPT ![i] = at] /\ choice' = [choice EXCEPT ![i] = client]
      /\ UNCHANGED <<leadClient, projectClient, card, mergedInto, cardVersion, opening,
                     merging, editing, late>>
  BY DEF Advance, clientRows
<1>2. RowTypes' BY <1>1 DEF ClientInv, RowTypes
<1>3. RequestTypes' BY <1>0, <1>1 DEF ClientInv, RequestTypes
<1>4. CommittedFirst' BY <1>1 DEF ClientInv, RequestTypes, CommittedFirst
<1>5. ChosenBefore' BY <1>1 DEF ClientInv, RequestTypes, ChosenBefore
<1>6. OpeningHasLead' /\ ProjectFollowsLead' /\ NothingLeftBehind'
  BY <1>1 DEF ClientInv, OpeningHasLead, ProjectFollowsLead, NothingLeftBehind
<1>7. MergesTheLiving' BY <1>1 DEF ClientInv, MergesTheLiving, Holding, Pair, Live
<1>8. HeldAlone' BY <1>1 DEF ClientInv, RequestTypes, HeldAlone, Holding, Pair
<1>9. EditsKnowTheMerge' BY <1>1 DEF ClientInv, RequestTypes, EditsKnowTheMerge
<1>10. ViewsAreOld'
  BY <1>0, <1>1, ClientAssumption DEF ClientInv, RequestTypes, ViewsAreOld
<1> QED BY <1>2, <1>3, <1>4, <1>5, <1>6, <1>7, <1>8, <1>9, <1>10 DEF ClientInv

\* An import begins: what it sees is there, and is not merged away.
LEMMA SnapshotKeeps ==
    ASSUME ClientInv, NEW i \in Inserts, Snapshot(i)
    PROVE  ClientInv'
<1>1. /\ arrival[i] = "snapshot" /\ arrival' = [arrival EXCEPT ![i] = "phone"]
      /\ view' = [view EXCEPT ![i] = LiveCards]
      /\ UNCHANGED <<leadClient, projectClient, card, mergedInto, cardVersion, choice,
                     opening, merging, editing, late>>
  BY DEF Snapshot, clientRows
<1>2. RowTypes' BY <1>1 DEF ClientInv, RowTypes
<1>3. RequestTypes' BY <1>1 DEF ClientInv, RequestTypes
<1>4. CommittedFirst' BY <1>1 DEF ClientInv, RequestTypes, CommittedFirst
<1>5. ChosenBefore' BY <1>1 DEF ClientInv, RequestTypes, ChosenBefore
<1>6. OpeningHasLead' /\ ProjectFollowsLead' /\ NothingLeftBehind'
  BY <1>1 DEF ClientInv, OpeningHasLead, ProjectFollowsLead, NothingLeftBehind
<1>7. MergesTheLiving' BY <1>1 DEF ClientInv, MergesTheLiving, Holding, Pair, Live
<1>8. HeldAlone' BY <1>1 DEF ClientInv, RequestTypes, HeldAlone, Holding, Pair
<1>9. EditsKnowTheMerge' BY <1>1 DEF ClientInv, RequestTypes, EditsKnowTheMerge
<1>10. ViewsAreOld'
  <2>1. \A c \in Inserts : LiveCards[c] # NoCard =>
           mergedInto[c] = NoClient /\ arrival[c] = "done" /\ c # i
    BY <1>1 DEF LiveCards, Live, ClientInv, CommittedFirst
  <2>2. \A j \in Inserts \ {i} : arrival'[j] = arrival[j] /\ view'[j] = view[j]
    BY <1>1 DEF ClientInv, RequestTypes
  <2>3. view'[i] = LiveCards BY <1>1 DEF ClientInv, RequestTypes
  <2> SUFFICES ASSUME NEW j \in Imports, NEW c \in Inserts,
                      arrival'[j] \in {"phone", "email"}, view'[j][c] # NoCard
               PROVE  arrival'[c] = "done" /\ (mergedInto[c] # NoClient => j \in late)
    BY <1>1 DEF ViewsAreOld
  <2>4. CASE j = i BY <2>1, <2>2, <2>3, <2>4
  <2>5. CASE j # i
    <3>1. arrival[c] = "done" /\ (mergedInto[c] # NoClient => j \in late)
      BY <2>2, <2>5, ClientAssumption DEF ClientInv, ViewsAreOld
    <3> QED BY <1>1, <2>2, <3>1
  <2> QED BY <2>4, <2>5
<1> QED BY <1>2, <1>3, <1>4, <1>5, <1>6, <1>7, <1>8, <1>9, <1>10 DEF ClientInv

\* The trigger finds clients that committed before; one that was merged away since is
\* found by an import only.
LEMMA FoundCommitted ==
    ASSUME ClientInv, NEW i \in Inserts, arrival[i] \in {"phone", "email"},
           NEW matches \in SUBSET {c \in Inserts : Seen(i)[c] # NoCard}, matches # {}
    PROVE  /\ Oldest(matches) \in matches /\ Oldest(matches) # NoClient /\ Oldest(matches) # i
           /\ mergedInto[Oldest(matches)] # NoClient => i \in late
<1>1. matches \in SUBSET Inserts /\ NoClient \notin Inserts BY ClientAssumption
<1>2. Oldest(matches) \in matches BY <1>1, OldestIsFound
<1>3. ASSUME NEW c \in Inserts, Seen(i)[c] # NoCard
      PROVE  c # i /\ (mergedInto[c] # NoClient => i \in late)
  <2>1. CASE i \in Imports
    BY <1>3, <2>1 DEF Seen, ClientInv, ViewsAreOld
  <2>2. CASE i \notin Imports
    BY <1>3, <2>2 DEF Seen, LiveCards, Live, ClientInv, CommittedFirst
  <2> QED BY <2>1, <2>2
<1> QED BY <1>1, <1>2, <1>3

LEMMA InsertsKeep ==
    ASSUME ClientInv, NEW i \in Inserts,
           ByPhone(i) \/ ByEmail(i) \/ InsertAttached(i) \/ AbortAttached(i)
    PROVE  ClientInv'
<1>1. choice[i] \in MaybeClient /\ NoClient \notin Inserts
  BY ClientAssumption DEF ClientInv, RequestTypes
<1>2. ASSUME arrival[i] \in {"phone", "email"}, NEW client,
             \/ client = NoClient \/ client = MatchPhone(i) \/ client = MatchEmail(i)
      PROVE  /\ client \in MaybeClient
             /\ client # NoClient /\ mergedInto[client] # NoClient => i \in late
  <2> DEFINE phoned == {c \in Inserts : /\ Seen(i)[c] # NoCard
                                        /\ contact[i].phone \in {Seen(i)[c].phone,
                                                                Seen(i)[c].second}}
             mailed == {c \in Inserts : /\ Seen(i)[c] # NoCard
                                        /\ contact[i].email = Seen(i)[c].email}
  <2>1. MatchPhone(i) = Oldest(phoned) /\ MatchEmail(i) = Oldest(mailed)
    BY DEF MatchPhone, MatchEmail
  <2>2. /\ phoned \in SUBSET {c \in Inserts : Seen(i)[c] # NoCard}
        /\ mailed \in SUBSET {c \in Inserts : Seen(i)[c] # NoCard}
    OBVIOUS
  <2> HIDE DEF phoned, mailed
  <2>3. ASSUME NEW matches \in SUBSET {c \in Inserts : Seen(i)[c] # NoCard}
        PROVE  \/ Oldest(matches) = NoClient
               \/ /\ Oldest(matches) \in Inserts
                  /\ mergedInto[Oldest(matches)] # NoClient => i \in late
    <3>1. CASE matches = {} BY <3>1 DEF Oldest
    <3>2. CASE matches # {} BY <1>2, <3>2, FoundCommitted
    <3> QED BY <3>1, <3>2
  <2>4. Oldest(phoned) = NoClient \/ (Oldest(phoned) \in Inserts
           /\ (mergedInto[Oldest(phoned)] # NoClient => i \in late))
    BY <2>2, <2>3
  <2>5. Oldest(mailed) = NoClient \/ (Oldest(mailed) \in Inserts
           /\ (mergedInto[Oldest(mailed)] # NoClient => i \in late))
    BY <2>2, <2>3
  <2> QED BY <1>2, <2>1, <2>4, <2>5 DEF MaybeClient
<1>3. CASE ByPhone(i)
  <2>1. PICK client : /\ client = NoClient \/ client = MatchPhone(i)
                      /\ arrival[i] = "phone" /\ Advance(i, "email", client)
    BY <1>3 DEF ByPhone
  <2>2. /\ client \in MaybeClient
        /\ client # NoClient /\ mergedInto[client] # NoClient => i \in late
    BY <1>2, <2>1
  <2> QED BY <2>1, <2>2, AdvanceKeeps
<1>4. CASE ByEmail(i)
  <2>1. PICK client : /\ client = choice[i] \/ client = i \/ client = MatchEmail(i)
                      /\ client # NoClient
                      /\ arrival[i] = "email" /\ Advance(i, "insert", client)
    BY <1>1, <1>4 DEF ByEmail
  <2>2. CASE client = choice[i]
    <3>1. mergedInto[client] # NoClient => i \in late
      BY <2>1, <2>2 DEF ClientInv, ChosenBefore
    <3> QED BY <1>1, <2>1, <2>2, <3>1, AdvanceKeeps
  <2>3. CASE client = i
    <3>1. mergedInto[i] = NoClient BY <2>1 DEF ClientInv, CommittedFirst
    <3>2. i \in MaybeClient BY DEF MaybeClient
    <3> QED BY <2>1, <2>3, <3>1, <3>2, AdvanceKeeps
  <2>4. CASE client = MatchEmail(i)
    <3>1. /\ client \in MaybeClient
          /\ client # NoClient /\ mergedInto[client] # NoClient => i \in late
      BY <1>2, <2>1, <2>4
    <3> QED BY <2>1, <3>1, AdvanceKeeps
  <2> QED BY <2>1, <2>2, <2>3, <2>4
<1>5. CASE InsertAttached(i)
  <2>1. arrival[i] = "insert" /\ ~ClientHeld(choice[i]) /\ Advance(i, "commit", choice[i])
    BY <1>5 DEF InsertAttached
  <2>2. choice[i] # NoClient /\ (mergedInto[choice[i]] # NoClient => i \in late)
    BY <2>1 DEF ClientInv, ChosenBefore
  <2>3. \A m \in Merges : Holding(m) => choice[i] \notin Pair(m)
    BY <2>1 DEF ClientHeld, Holding, Pair
  <2> QED BY <1>1, <2>1, <2>2, <2>3, AdvanceKeeps
<1>6. CASE AbortAttached(i)
  <2>1. arrival[i] # "done" /\ Advance(i, "done", NoClient) BY <1>6 DEF AbortAttached
  <2>2. NoClient \in MaybeClient BY DEF MaybeClient
  <2> QED BY <2>1, <2>2, AdvanceKeeps
<1> QED BY <1>3, <1>4, <1>5, <1>6

\* The lead commits, with a client nobody holds and maybe with a client of its own.
LEMMA CommitAttachedKeeps ==
    ASSUME ClientInv, NEW i \in Inserts, CommitAttached(i)
    PROVE  ClientInv'
<1>0. view' = [view EXCEPT ![i] = NoView] BY DEF CommitAttached, EndView
<1>1. /\ arrival[i] = "commit" /\ arrival' = [arrival EXCEPT ![i] = "done"]
      /\ leadClient' = [leadClient EXCEPT ![i] = choice[i]]
      /\ UNCHANGED <<projectClient, mergedInto, cardVersion, choice, opening, merging,
                     editing, late>>
  BY DEF CommitAttached
<1>2. card' = [c \in Inserts |-> card'[c]] /\ \A c \in Inserts \ {i} : card'[c] = card[c]
  <2>1. CASE choice[i] # i BY <2>1 DEF CommitAttached, ClientInv, RowTypes
  <2>2. CASE choice[i] = i BY <2>2 DEF CommitAttached, ClientInv, RowTypes
  <2> QED BY <2>1, <2>2
<1>3. /\ choice[i] \in Inserts /\ leadClient[i] = NoClient /\ card[i] = NoCard
      /\ projectClient[i] = NoClient /\ opening[i].step = "none"
  BY <1>1 DEF ClientInv, ChosenBefore, RequestTypes, MaybeClient, CommittedFirst,
              ProjectFollowsLead, OpeningHasLead, OpeningRow
<1>4. RowTypes' BY <1>1, <1>2, <1>3 DEF ClientInv, RowTypes, MaybeClient
<1>5. RequestTypes' BY <1>0, <1>1 DEF ClientInv, RequestTypes
<1>6. CommittedFirst' BY <1>1, <1>2 DEF ClientInv, RequestTypes, RowTypes, CommittedFirst
<1>7. ChosenBefore' BY <1>1 DEF ClientInv, RequestTypes, ChosenBefore
<1>8. OpeningHasLead' /\ ProjectFollowsLead'
  BY <1>1, <1>3 DEF ClientInv, RowTypes, OpeningHasLead, ProjectFollowsLead
<1>9. NothingLeftBehind'
  BY <1>1 DEF ClientInv, RowTypes, ChosenBefore, NothingLeftBehind
<1>10. MergesTheLiving'
  <2> SUFFICES ASSUME NEW m \in Merges
               PROVE  /\ Holding(m)' => /\ Pair(m)' \subseteq Live'
                                        /\ (merging[m].older < merging[m].newer)'
                      /\ (merging[m].moved)' = IF (merging[m].step)' = "commit"
                              THEN {j \in Inserts : leadClient'[j] = merging'[m].newer} ELSE {}
    BY DEF MergesTheLiving
  <2>1. Live \subseteq Live' BY <1>1, <1>2, <1>3 DEF Live
  <2>2. Holding(m) => merging[m].newer # choice[i]
    BY <1>1 DEF ClientInv, HeldAlone, Pair
  <2>3. merging[m].step = "commit" => merging[m].newer \in Inserts
    BY DEF ClientInv, MergesTheLiving, Holding, Pair, Live
  <2>4. merging[m].step = "commit" =>
          {j \in Inserts : leadClient'[j] = merging[m].newer}
             = {j \in Inserts : leadClient[j] = merging[m].newer}
    BY <1>1, <1>3, <2>2, <2>3, ClientAssumption DEF ClientInv, RowTypes, Holding
  <2> QED BY <1>1, <2>1, <2>4 DEF ClientInv, MergesTheLiving, Holding, Pair
<1>11. HeldAlone' BY <1>1 DEF ClientInv, RequestTypes, HeldAlone, Holding, Pair
<1>12. EditsKnowTheMerge' BY <1>1 DEF ClientInv, RequestTypes, EditsKnowTheMerge
<1>13. ViewsAreOld'
  BY <1>0, <1>1, ClientAssumption DEF ClientInv, RequestTypes, ViewsAreOld
<1> QED BY <1>4, <1>5, <1>6, <1>7, <1>8, <1>9, <1>10, <1>11, <1>12, <1>13 DEF ClientInv

----------------------------------------------------------------------------
\* A lead that becomes a project moves on.
LEMMA OpeningKeeps ==
    ASSUME ClientInv, NEW i \in Inserts, NEW at \in {"none", "insert", "commit"},
           NEW client \in MaybeClient, SetOpening(i, at, client),
           at = "none" => client = NoClient,
           at # "none" => /\ client = leadClient[i] /\ leadClient[i] # NoClient
                          /\ projectClient'[i] = NoClient
                          /\ \A m \in Merges : i \notin merging[m].moved,
           at = "commit" => \A m \in Merges : Holding(m) => client \notin Pair(m),
           \/ projectClient' = projectClient
           \/ /\ projectClient' = [projectClient EXCEPT ![i] = leadClient[i]]
              /\ at = "none"
    PROVE  ClientInv'
<1>1. /\ opening' = [opening EXCEPT ![i] = [step |-> at, client |-> client]]
      /\ UNCHANGED <<leadClient, card, mergedInto, cardVersion, arrival, view, choice,
                     merging, editing, late>>
  BY DEF SetOpening
<1>2. [step |-> at, client |-> client] \in OpeningRow BY DEF OpeningRow
<1>3. RowTypes' BY <1>1 DEF ClientInv, RowTypes
<1>4. RequestTypes' BY <1>1, <1>2 DEF ClientInv, RequestTypes
<1>5. \A j \in Inserts \ {i} : opening'[j] = opening[j] /\ projectClient'[j] = projectClient[j]
  BY <1>1 DEF ClientInv, RowTypes, RequestTypes
<1>6. opening'[i].step = at /\ opening'[i].client = client
      /\ opening'[i] = [step |-> at, client |-> client]
  BY <1>1 DEF ClientInv, RequestTypes
<1>7. /\ CommittedFirst' /\ ChosenBefore' /\ NothingLeftBehind' /\ EditsKnowTheMerge'
      /\ ViewsAreOld'
  BY <1>1 DEF ClientInv, CommittedFirst, ChosenBefore, NothingLeftBehind, EditsKnowTheMerge,
              ViewsAreOld
<1>8. OpeningHasLead' BY <1>1, <1>5, <1>6 DEF ClientInv, OpeningHasLead, NoOpening
<1>9. ProjectFollowsLead' BY <1>1, <1>5 DEF ClientInv, RowTypes, ProjectFollowsLead
<1>10. MergesTheLiving' BY <1>1 DEF ClientInv, MergesTheLiving, Holding, Pair, Live
<1>11. HeldAlone' BY <1>1, <1>5, <1>6 DEF ClientInv, HeldAlone, Holding, Pair
<1> QED BY <1>3, <1>4, <1>7, <1>8, <1>9, <1>10, <1>11 DEF ClientInv

LEMMA ProjectsKeep ==
    ASSUME ClientInv, NEW i \in Inserts,
           LockLeadOfClient(i) \/ InsertProject(i) \/ CommitProject(i) \/ AbortProject(i)
    PROVE  ClientInv'
<1>1. leadClient[i] \in MaybeClient /\ NoClient \in MaybeClient
  BY DEF ClientInv, RowTypes, MaybeClient
<1>2. opening[i].step # "none" =>
        /\ opening[i].client = leadClient[i] /\ leadClient[i] # NoClient
        /\ projectClient[i] = NoClient /\ \A m \in Merges : i \notin merging[m].moved
  BY DEF ClientInv, OpeningHasLead
<1>3. CASE LockLeadOfClient(i)
  <2>1. /\ leadClient[i] # NoClient /\ projectClient[i] = NoClient
        /\ \A m \in Merges : i \notin merging[m].moved
        /\ SetOpening(i, "insert", leadClient[i]) /\ projectClient' = projectClient
    BY <1>3 DEF LockLeadOfClient, LeadMoved
  <2> QED BY <1>1, <2>1, OpeningKeeps
<1>4. CASE InsertProject(i)
  <2>1. /\ opening[i].step = "insert" /\ SetOpening(i, "commit", opening[i].client)
        /\ projectClient' = projectClient
        /\ \A m \in Merges : Holding(m) => opening[i].client \notin Pair(m)
    BY <1>4 DEF InsertProject, ClientHeld, Holding, Pair
  <2>2. SetOpening(i, "commit", leadClient[i]) BY <1>2, <2>1
  <2> QED BY <1>1, <1>2, <2>1, <2>2, OpeningKeeps
<1>5. CASE CommitProject(i)
  <2>1. /\ opening[i].step = "commit" /\ SetOpening(i, "none", NoClient)
        /\ projectClient' = [projectClient EXCEPT ![i] = opening[i].client]
    BY <1>5 DEF CommitProject
  <2> QED BY <1>1, <1>2, <2>1, OpeningKeeps
<1>6. CASE AbortProject(i)
  <2>1. SetOpening(i, "none", NoClient) /\ projectClient' = projectClient
    BY <1>6 DEF AbortProject
  <2> QED BY <1>1, <2>1, OpeningKeeps
<1> QED BY <1>3, <1>4, <1>5, <1>6

----------------------------------------------------------------------------
\* A merge moves on and the rows stay.
LEMMA MergeKeeps ==
    ASSUME ClientInv, NEW m \in Merges, NEW with \in MergeRow, SetMerge(m, with),
           UNCHANGED <<clientRows, late>>,
           with.step \in {"leads", "commit"} =>
             /\ {with.older, with.newer} \subseteq Live /\ with.older < with.newer
             /\ \A c \in {with.older, with.newer} :
                  /\ \A n \in Merges \ {m} : Holding(n) => c \notin Pair(n)
                  /\ \A e \in Edits : editing[e].step = "write" => editing[e].client # c
                  /\ \A i \in Inserts :
                        /\ arrival[i] = "commit" => choice[i] # c
                        /\ opening[i].step = "commit" => opening[i].client # c,
           with.moved = IF with.step = "commit"
                        THEN {i \in Inserts : leadClient[i] = with.newer} ELSE {},
           \A i \in with.moved : opening[i].step = "none"
    PROVE  ClientInv'
<1>1. /\ merging' = [merging EXCEPT ![m] = with]
      /\ UNCHANGED <<leadClient, projectClient, card, mergedInto, cardVersion, arrival, view,
                     choice, opening, editing, late>>
  BY DEF SetMerge, clientRows
<1>2. merging'[m] = with /\ \A n \in Merges \ {m} : merging'[n] = merging[n]
  BY <1>1 DEF ClientInv, RequestTypes
<1>3. RowTypes' BY <1>1 DEF ClientInv, RowTypes
<1>4. RequestTypes' BY <1>1 DEF ClientInv, RequestTypes
<1>5. /\ CommittedFirst' /\ ChosenBefore' /\ ProjectFollowsLead' /\ NothingLeftBehind'
      /\ EditsKnowTheMerge' /\ ViewsAreOld'
  BY <1>1 DEF ClientInv, CommittedFirst, ChosenBefore, ProjectFollowsLead,
              NothingLeftBehind, EditsKnowTheMerge, ViewsAreOld
<1>6. OpeningHasLead'
  <2> SUFFICES ASSUME NEW i \in Inserts, opening[i].step # "none", NEW n \in Merges
               PROVE  i \notin merging'[n].moved
    BY <1>1 DEF ClientInv, OpeningHasLead
  <2> QED BY <1>2 DEF ClientInv, OpeningHasLead
<1>7. Live' = Live BY <1>1 DEF Live
<1>8. MergesTheLiving'
  <2> SUFFICES ASSUME NEW n \in Merges
               PROVE  /\ Holding(n)' => /\ Pair(n)' \subseteq Live
                                        /\ merging'[n].older < merging'[n].newer
                      /\ merging'[n].moved =
                            IF merging'[n].step = "commit"
                            THEN {i \in Inserts : leadClient[i] = merging'[n].newer} ELSE {}
    BY <1>1, <1>7 DEF MergesTheLiving
  <2>1. CASE n = m BY <1>2, <2>1 DEF Holding, Pair
  <2>2. CASE n # m
    <3>1. merging'[n] = merging[n] /\ Holding(n)' = Holding(n) /\ Pair(n)' = Pair(n)
      BY <1>2, <2>2 DEF Holding, Pair
    <3> QED BY <3>1 DEF ClientInv, MergesTheLiving
  <2> QED BY <2>1, <2>2
<1>9. HeldAlone'
  <2> SUFFICES ASSUME NEW n \in Merges, Holding(n)'
               PROVE  /\ \A k \in Merges : Holding(k)' /\ k # n => (Pair(n) \cap Pair(k) = {})'
                      /\ \A e \in Edits : editing[e].step = "write"
                                             => editing[e].client \notin Pair(n)'
                      /\ \A i \in Inserts :
                           /\ arrival[i] = "commit" => choice[i] \notin Pair(n)'
                           /\ opening[i].step = "commit" => opening[i].client \notin Pair(n)'
    BY <1>1 DEF HeldAlone
  <2>1. CASE n = m
    BY <1>1, <1>2, <2>1 DEF Holding, Pair
  <2>2. CASE n # m
    BY <1>1, <1>2, <2>2 DEF ClientInv, HeldAlone, Holding, Pair
  <2> QED BY <2>1, <2>2
<1> QED BY <1>3, <1>4, <1>5, <1>6, <1>8, <1>9 DEF ClientInv

LEMMA MergesKeep ==
    ASSUME ClientInv, NEW m \in Merges, LockClients(m) \/ MoveLeads(m) \/ AbortMerge(m)
    PROVE  ClientInv'
<1>1. CASE MergeDone(m) /\ UNCHANGED <<clientRows, late>>
  <2> DEFINE with == [NoMerge EXCEPT !.step = "done"]
  <2>1. with \in MergeRow /\ with.step = "done" /\ with.moved = {} BY NoRows
  <2>2. SetMerge(m, with) BY <1>1 DEF MergeDone
  <2> HIDE DEF with
  <2> QED BY <1>1, <2>1, <2>2, MergeKeeps
<1>2. CASE LockClients(m)
  <2>1. PICK pair \in {p \in Inserts \X Inserts : p[1] < p[2]} :
        /\ \A c \in {pair[1], pair[2]} :
                card[c] # NoCard /\ ~ClientHeld(c) /\ ~ClientShared(c)
        /\ IF {pair[1], pair[2]} \subseteq Live
           THEN SetMerge(m, [step |-> "leads", older |-> pair[1], newer |-> pair[2],
                             moved |-> {}])
           ELSE MergeDone(m)
    BY <1>2 DEF LockClients
  <2>2. UNCHANGED <<clientRows, late>> BY <1>2 DEF LockClients
  <2>3. CASE {pair[1], pair[2]} \subseteq Live
    <3> DEFINE with == [step |-> "leads", older |-> pair[1], newer |-> pair[2], moved |-> {}]
    <3>1. SetMerge(m, with) BY <2>1, <2>3
    <3>2. /\ with \in MergeRow /\ with.step = "leads" /\ with.moved = {}
          /\ with.older = pair[1] /\ with.newer = pair[2] /\ with.older < with.newer
      BY DEF MergeRow, MaybeClient
    <3> HIDE DEF with
    <3>3. \A c \in {with.older, with.newer} :
            /\ \A n \in Merges \ {m} : Holding(n) => c \notin Pair(n)
            /\ \A e \in Edits : editing[e].step = "write" => editing[e].client # c
            /\ \A i \in Inserts :
                  /\ arrival[i] = "commit" => choice[i] # c
                  /\ opening[i].step = "commit" => opening[i].client # c
      <4> SUFFICES ASSUME NEW c \in {pair[1], pair[2]}
                   PROVE  /\ \A n \in Merges \ {m} : Holding(n) => c \notin Pair(n)
                          /\ \A e \in Edits : editing[e].step = "write" => editing[e].client # c
                          /\ \A i \in Inserts :
                                /\ arrival[i] = "commit" => choice[i] # c
                                /\ opening[i].step = "commit" => opening[i].client # c
        BY <3>2
      <4>1. ~ClientHeld(c) /\ ~ClientShared(c) BY <2>1
      <4>2. \A i \in Inserts : opening[i].step = "commit" /\ opening[i].client = c
                                 => opening[i] = [step |-> "commit", client |-> c]
        BY DEF ClientInv, RequestTypes, OpeningRow
      <4> QED BY <4>1, <4>2 DEF ClientHeld, ClientShared, Holding, Pair
    <3> QED BY <2>2, <2>3, <3>1, <3>2, <3>3, MergeKeeps
  <2> QED BY <1>1, <2>1, <2>2, <2>3
<1>3. CASE MoveLeads(m)
  <2> DEFINE leads == {i \in Inserts : leadClient[i] = merging[m].newer}
             with == [merging[m] EXCEPT !.step = "commit", !.moved = leads]
  <2>1. /\ merging[m].step = "leads" /\ SetMerge(m, with) /\ UNCHANGED <<clientRows, late>>
        /\ \A i \in leads : opening[i] = NoOpening
    BY <1>3 DEF MoveLeads
  <2>2. merging[m] \in MergeRow BY DEF ClientInv, RequestTypes
  <2>3. with \in MergeRow BY <2>2, Zenon DEF MergeRow
  <2>4. /\ with.step = "commit" /\ with.older = merging[m].older
        /\ with.newer = merging[m].newer /\ with.moved = leads
    BY <2>2 DEF MergeRow
  <2>5. Holding(m) /\ \A i \in leads : opening[i].step = "none" BY <2>1, NoRows DEF Holding
  <2>6. with.moved = {i \in Inserts : leadClient[i] = with.newer} BY <2>4
  <2>7. \A i \in with.moved : opening[i].step = "none" BY <2>4, <2>5
  <2> HIDE DEF with, leads
  <2>8. /\ {with.older, with.newer} = Pair(m) /\ Pair(m) \subseteq Live
        /\ with.older < with.newer
    BY <2>4, <2>5 DEF ClientInv, MergesTheLiving, Pair
  <2>9. \A c \in Pair(m) :
          /\ \A n \in Merges \ {m} : Holding(n) => c \notin Pair(n)
          /\ \A e \in Edits : editing[e].step = "write" => editing[e].client # c
          /\ \A i \in Inserts :
                /\ arrival[i] = "commit" => choice[i] # c
                /\ opening[i].step = "commit" => opening[i].client # c
    BY <2>5 DEF ClientInv, HeldAlone
  <2> QED BY <2>1, <2>3, <2>4, <2>6, <2>7, <2>8, <2>9, MergeKeeps
<1>4. CASE AbortMerge(m) BY <1>1, <1>4 DEF AbortMerge
<1> QED BY <1>2, <1>3, <1>4

\* The merge commits: what it moved and the projects go to the older client, and the
\* newer becomes a tombstone under another version.
LEMMA CommitMergeKeeps ==
    ASSUME ClientInv, NEW m \in Merges, CommitMerge(m)
    PROVE  ClientInv'
<1> DEFINE old == merging[m].older
           new == merging[m].newer
           over == [NoMerge EXCEPT !.step = "done"]
<1>1. /\ merging[m].step = "commit" /\ Holding(m)
      /\ leadClient' = [i \in Inserts |-> IF i \in merging[m].moved THEN old
                                                                    ELSE leadClient[i]]
      /\ projectClient' = [i \in Inserts |-> IF projectClient[i] = new THEN old
                                                                  ELSE projectClient[i]]
      /\ mergedInto' = [mergedInto EXCEPT ![new] = old]
      /\ cardVersion' = [cardVersion EXCEPT ![old] = @ + 1, ![new] = @ + 1]
      /\ late' = late \cup {i \in Inserts :
                    \/ arrival[i] \in {"email", "insert"} /\ choice[i] = new
                    \/ arrival[i] \in {"phone", "email"} /\ view[i][new] # NoCard}
      /\ merging' = [merging EXCEPT ![m] = over]
      /\ UNCHANGED <<arrival, view, choice, opening, editing>>
  BY DEF CommitMerge, MergeDone, SetMerge, Holding, MergedTooSoon
<1>2. PICK row : card' = [card EXCEPT ![old] = row] BY DEF CommitMerge
<1>3. over \in MergeRow /\ over.step = "done" /\ over.moved = {} BY NoRows
<1> HIDE DEF over
<1>4. /\ old \in Live /\ new \in Live /\ old < new
      /\ merging[m].moved = {i \in Inserts : leadClient[i] = new}
  BY <1>1 DEF ClientInv, MergesTheLiving, Pair
<1>5. /\ old \in Inserts /\ new \in Inserts /\ old # new
      /\ old # NoClient /\ new # NoClient
      /\ mergedInto[old] = NoClient /\ mergedInto[new] = NoClient
      /\ arrival[old] = "done" /\ arrival[new] = "done"
  <2>1. old \in Inserts /\ new \in Inserts BY <1>4 DEF Live
  <2>2. old \in Nat /\ new \in Nat /\ old # NoClient /\ new # NoClient
    BY <2>1, ClientAssumption
  <2>3. old # new
    <3> HIDE DEF old, new
    <3> QED BY <1>4, <2>2
  <2>4. \A c \in Live : mergedInto[c] = NoClient /\ arrival[c] = "done"
    BY DEF Live, ClientInv, CommittedFirst
  <2> HIDE DEF old, new
  <2> QED BY <1>4, <2>1, <2>2, <2>3, <2>4
<1>6. /\ \A n \in Merges : Holding(n) /\ n # m => old \notin Pair(n) /\ new \notin Pair(n)
      /\ \A e \in Edits : editing[e].step = "write" => editing[e].client # new
      /\ \A i \in Inserts : /\ arrival[i] = "commit" => choice[i] # new
                            /\ opening[i].step = "commit" => opening[i].client # new
  BY <1>1 DEF ClientInv, HeldAlone, Pair
<1>7. /\ \A i \in Inserts : leadClient'[i] = IF leadClient[i] = new THEN old ELSE leadClient[i]
      /\ \A i \in Inserts : projectClient'[i] = IF projectClient[i] = new THEN old
                                                                     ELSE projectClient[i]
  BY <1>1, <1>4
<1>8. /\ mergedInto'[new] = old
      /\ \A c \in Inserts \ {new} : mergedInto'[c] = mergedInto[c]
  BY <1>1, <1>5 DEF ClientInv, RowTypes
<1>9. \A c \in Inserts \ {old} : card'[c] = card[c] BY <1>2 DEF ClientInv, RowTypes
<1>10. /\ merging'[m] = over /\ ~Holding(m)'
       /\ \A n \in Merges \ {m} : merging'[n] = merging[n]
  BY <1>1, <1>3 DEF ClientInv, RequestTypes, Holding
<1>11. RowTypes'
  <2>1. leadClient' \in [Inserts -> MaybeClient] /\ projectClient' \in [Inserts -> MaybeClient]
    BY <1>1, <1>5 DEF ClientInv, RowTypes, MaybeClient
  <2>2. mergedInto' \in [Inserts -> MaybeClient]
    BY <1>1, <1>5 DEF ClientInv, RowTypes, MaybeClient
  <2>3. card' = [c \in Inserts |-> card'[c]] BY <1>2 DEF ClientInv, RowTypes
  <2>4. cardVersion' \in [Inserts -> Nat] BY <1>1, <1>5 DEF ClientInv, RowTypes
  <2> QED BY <2>1, <2>2, <2>3, <2>4 DEF RowTypes
<1>12. RequestTypes' BY <1>1, <1>3 DEF ClientInv, RequestTypes
<1> HIDE DEF old, new
<1>13. CommittedFirst' BY <1>1, <1>5, <1>7, <1>8, <1>9 DEF ClientInv, CommittedFirst
<1>14. ChosenBefore'
  <2> SUFFICES ASSUME NEW i \in Inserts, arrival[i] \in {"email", "insert", "commit"},
                      choice[i] # NoClient, mergedInto'[choice[i]] # NoClient
               PROVE  i \in late'
    BY <1>1 DEF ClientInv, ChosenBefore
  <2>1. choice[i] \in Inserts BY DEF ClientInv, RequestTypes, MaybeClient
  <2>2. CASE choice[i] = new BY <1>1, <1>6, <2>2 DEF new
  <2>3. CASE choice[i] # new BY <1>1, <1>8, <2>1, <2>3 DEF ClientInv, ChosenBefore
  <2> QED BY <2>2, <2>3
<1>15. OpeningHasLead'
  <2> SUFFICES ASSUME NEW i \in Inserts, opening[i].step # "none"
               PROVE  /\ opening[i].client = leadClient'[i] /\ leadClient'[i] # NoClient
                      /\ projectClient'[i] = NoClient
                      /\ \A n \in Merges : i \notin merging'[n].moved
    BY <1>1 DEF ClientInv, OpeningHasLead
  <2>1. /\ opening[i].client = leadClient[i] /\ leadClient[i] # NoClient
        /\ projectClient[i] = NoClient /\ \A n \in Merges : i \notin merging[n].moved
    BY DEF ClientInv, OpeningHasLead
  <2>2. leadClient[i] # new BY <1>4, <2>1
  <2>3. \A n \in Merges : i \notin merging'[n].moved BY <1>3, <1>10, <2>1
  <2> QED BY <1>5, <1>7, <2>1, <2>2, <2>3
<1>16. ProjectFollowsLead'
  BY <1>5, <1>7 DEF ClientInv, ProjectFollowsLead
<1>17. NothingLeftBehind'
  <2> SUFFICES ASSUME NEW i \in Inserts, leadClient'[i] # NoClient,
                      mergedInto'[leadClient'[i]] # NoClient
               PROVE  i \in late'
    BY DEF NothingLeftBehind
  <2>1. leadClient[i] \in MaybeClient BY DEF ClientInv, RowTypes
  <2>2. leadClient[i] # new BY <1>5, <1>7, <1>8
  <2> QED BY <1>1, <1>7, <1>8, <2>1, <2>2 DEF ClientInv, NothingLeftBehind, MaybeClient
<1>18. MergesTheLiving'
  <2> SUFFICES ASSUME NEW n \in Merges
               PROVE  /\ Holding(n)' => /\ Pair(n)' \subseteq Live'
                                        /\ merging'[n].older < merging'[n].newer
                      /\ merging'[n].moved =
                            IF merging'[n].step = "commit"
                            THEN {i \in Inserts : leadClient'[i] = merging'[n].newer} ELSE {}
    BY DEF MergesTheLiving
  <2>1. CASE n = m BY <1>3, <1>10, <2>1
  <2>2. CASE n # m
    <3>1. merging'[n] = merging[n] /\ Holding(n)' = Holding(n) /\ Pair(n)' = Pair(n)
      BY <1>10, <2>2 DEF Holding, Pair
    <3>2. Holding(n) => Pair(n) \subseteq Live'
      BY <1>6, <1>8, <1>9, <2>2 DEF ClientInv, MergesTheLiving, Live
    <3>3. merging[n].step = "commit" => Holding(n) /\ merging[n].newer # new
                                        /\ merging[n].newer # old
      BY <1>6, <2>2 DEF Holding, Pair
    <3>4. merging[n].step = "commit" =>
            {i \in Inserts : leadClient'[i] = merging[n].newer}
              = {i \in Inserts : leadClient[i] = merging[n].newer}
      BY <1>7, <3>3
    <3> QED BY <3>1, <3>2, <3>4 DEF ClientInv, MergesTheLiving
  <2> QED BY <2>1, <2>2
<1>19. HeldAlone'
  <2> SUFFICES ASSUME NEW n \in Merges, Holding(n)'
               PROVE  /\ \A k \in Merges : Holding(k)' /\ k # n => (Pair(n) \cap Pair(k) = {})'
                      /\ \A e \in Edits : editing[e].step = "write"
                                             => editing[e].client \notin Pair(n)'
                      /\ \A i \in Inserts :
                           /\ arrival[i] = "commit" => choice[i] \notin Pair(n)'
                           /\ opening[i].step = "commit" => opening[i].client \notin Pair(n)'
    BY <1>1 DEF HeldAlone
  <2>1. n # m BY <1>10
  <2> QED BY <1>10, <2>1 DEF ClientInv, HeldAlone, Holding, Pair
<1>20. EditsKnowTheMerge'
  <2> SUFFICES ASSUME NEW e \in Edits
               PROVE  /\ editing[e].step \in {"lock", "write"} =>
                            editing[e].client \in Inserts /\ arrival[editing[e].client] = "done"
                      /\ editing[e].step = "lock" =>
                            /\ editing[e].version <= cardVersion'[editing[e].client]
                            /\ mergedInto'[editing[e].client] # NoClient =>
                                  editing[e].version < cardVersion'[editing[e].client]
                      /\ editing[e].step = "write" /\ editing[e].strict =>
                            mergedInto'[editing[e].client] = NoClient
    BY <1>1 DEF EditsKnowTheMerge
  <2>1. editing[e].version \in Nat BY DEF ClientInv, RequestTypes, EditRow
  <2>2. \A c \in Inserts : /\ cardVersion[c] \in Nat
                           /\ cardVersion'[c] = IF c \in {old, new} THEN cardVersion[c] + 1
                                                                    ELSE cardVersion[c]
    BY <1>1, <1>5 DEF ClientInv, RowTypes, old, new
  <2>3. CASE editing[e].client = new
    BY <1>6, <2>1, <2>2, <2>3 DEF ClientInv, EditsKnowTheMerge
  <2>4. CASE editing[e].client # new
    BY <1>8, <2>1, <2>2, <2>4 DEF ClientInv, EditsKnowTheMerge
  <2> QED BY <2>3, <2>4
<1>21. ViewsAreOld'
  <2> SUFFICES ASSUME NEW i \in Imports, NEW c \in Inserts,
                      arrival[i] \in {"phone", "email"}, view[i][c] # NoCard
               PROVE  arrival[c] = "done" /\ (mergedInto'[c] # NoClient => i \in late')
    BY <1>1 DEF ViewsAreOld
  <2>1. i \in Inserts BY ClientAssumption
  <2>2. arrival[c] = "done" /\ (mergedInto[c] # NoClient => i \in late)
    BY DEF ClientInv, ViewsAreOld
  <2>3. CASE c = new BY <1>1, <2>1, <2>2, <2>3
  <2>4. CASE c # new BY <1>1, <1>8, <2>2, <2>4
  <2> QED BY <2>3, <2>4
<1> QED BY <1>11, <1>12, <1>13, <1>14, <1>15, <1>16, <1>17, <1>18, <1>19, <1>20, <1>21
    DEF ClientInv

----------------------------------------------------------------------------
\* An edit moves on; the client it writes may get a version and other contacts.
LEMMA EditKeeps ==
    ASSUME ClientInv, NEW e \in Edits, NEW with \in EditRow, SetEdit(e, with),
           \/ UNCHANGED <<card, cardVersion>>
           \/ /\ editing[e].step = "write" /\ card' = [c \in Inserts |-> card'[c]]
              /\ \A c \in Inserts \ {editing[e].client} : card'[c] = card[c]
              /\ cardVersion' \in [Inserts -> Nat]
              /\ \A c \in Inserts : cardVersion'[c] >= cardVersion[c],
           with.step \in {"lock", "write"} =>
              with.client \in Inserts /\ arrival[with.client] = "done",
           with.step = "lock" =>
              /\ cardVersion' = cardVersion /\ mergedInto[with.client] = NoClient
              /\ with.version <= cardVersion[with.client],
           with.step = "write" =>
              /\ \A m \in Merges : Holding(m) => with.client \notin Pair(m)
              /\ with.strict => mergedInto[with.client] = NoClient
    PROVE  ClientInv'
<1>1. /\ editing' = [editing EXCEPT ![e] = with]
      /\ UNCHANGED <<leadClient, projectClient, mergedInto, arrival, view, choice, opening,
                     merging, late>>
  BY DEF SetEdit
<1>2. editing'[e] = with /\ \A d \in Edits \ {e} : editing'[d] = editing[d]
  BY <1>1 DEF ClientInv, RequestTypes
<1>3. RowTypes' BY <1>1 DEF ClientInv, RowTypes
<1>4. RequestTypes' BY <1>1 DEF ClientInv, RequestTypes
<1>5. \A c \in Inserts : /\ cardVersion'[c] >= cardVersion[c] /\ cardVersion[c] \in Nat
                         /\ cardVersion'[c] \in Nat
                         /\ card'[c] # NoCard => arrival[c] = "done"
  <2>1. CASE UNCHANGED <<card, cardVersion>>
    BY <2>1 DEF ClientInv, RowTypes, CommittedFirst
  <2>2. CASE editing[e].step = "write"
    BY <2>2 DEF ClientInv, RowTypes, CommittedFirst, EditsKnowTheMerge
  <2> QED BY <2>1, <2>2
<1>6. CommittedFirst' BY <1>1, <1>5 DEF ClientInv, CommittedFirst
<1>7. /\ ChosenBefore' /\ OpeningHasLead' /\ ProjectFollowsLead' /\ NothingLeftBehind'
      /\ ViewsAreOld'
  BY <1>1 DEF ClientInv, ChosenBefore, OpeningHasLead, ProjectFollowsLead, NothingLeftBehind,
              ViewsAreOld
<1>8. MergesTheLiving'
  <2>1. \A m \in Merges : Holding(m) => \A c \in Pair(m) : c \in Inserts /\ card'[c] = card[c]
    BY DEF ClientInv, HeldAlone, MergesTheLiving, Live
  <2>2. \A m \in Merges : Holding(m) => Pair(m) \subseteq Live'
    BY <1>1, <2>1 DEF ClientInv, MergesTheLiving, Live
  <2>3. \A m \in Merges : Holding(m)' = Holding(m) /\ Pair(m)' = Pair(m)
    BY <1>1 DEF Holding, Pair
  <2> QED BY <1>1, <2>2, <2>3 DEF ClientInv, MergesTheLiving
<1>9. HeldAlone' BY <1>1, <1>2 DEF ClientInv, HeldAlone, Holding, Pair
<1>10. EditsKnowTheMerge'
  <2> SUFFICES ASSUME NEW d \in Edits
               PROVE  /\ editing'[d].step \in {"lock", "write"} =>
                            editing'[d].client \in Inserts /\ arrival[editing'[d].client] = "done"
                      /\ editing'[d].step = "lock" =>
                            /\ editing'[d].version <= cardVersion'[editing'[d].client]
                            /\ mergedInto[editing'[d].client] # NoClient =>
                                  editing'[d].version < cardVersion'[editing'[d].client]
                      /\ editing'[d].step = "write" /\ editing'[d].strict =>
                            mergedInto[editing'[d].client] = NoClient
    BY <1>1 DEF EditsKnowTheMerge
  <2>1. CASE d = e BY <1>2, <2>1
  <2>2. CASE d # e
    <3>1. editing[d].version \in Nat BY DEF ClientInv, RequestTypes, EditRow
    <3> QED BY <1>2, <1>5, <2>2, <3>1 DEF ClientInv, EditsKnowTheMerge
  <2> QED BY <2>1, <2>2
<1> QED BY <1>3, <1>4, <1>6, <1>7, <1>8, <1>9, <1>10 DEF ClientInv

LEMMA EditsKeep ==
    ASSUME ClientInv, NEW e \in Edits,
           LoadClient(e) \/ LockClient(e) \/ WriteClient(e) \/ AbortEdit(e)
    PROVE  ClientInv'
<1>0. editing[e] \in EditRow BY DEF ClientInv, RequestTypes
<1>1. CASE EditDone(e) /\ UNCHANGED <<card, cardVersion>>
  <2> DEFINE with == [NoEdit EXCEPT !.step = "done"]
  <2>1. with \in EditRow /\ with.step = "done" BY NoRows
  <2>2. SetEdit(e, with) BY <1>1 DEF EditDone
  <2> HIDE DEF with
  <2> QED BY <1>1, <2>1, <2>2, EditKeeps
<1>2. CASE LoadClient(e)
  <2>1. PICK c \in Live, strict \in BOOLEAN :
            SetEdit(e, [step |-> "lock", client |-> c, strict |-> strict,
                        version |-> cardVersion[c]])
    BY <1>2 DEF LoadClient
  <2> DEFINE with == [step |-> "lock", client |-> c, strict |-> strict,
                      version |-> cardVersion[c]]
  <2>2. /\ c \in Inserts /\ mergedInto[c] = NoClient /\ arrival[c] = "done"
        /\ cardVersion[c] \in Nat
    BY DEF Live, ClientInv, CommittedFirst, RowTypes
  <2>3. with \in EditRow BY <2>2 DEF EditRow, MaybeClient
  <2>4. /\ with.step = "lock" /\ with.client = c /\ with.version = cardVersion[c]
        /\ SetEdit(e, with)
    BY <2>1
  <2> HIDE DEF with
  <2>5. UNCHANGED <<card, cardVersion>> BY <1>2 DEF LoadClient
  <2>6. with.version <= cardVersion[with.client] BY <2>2, <2>4
  <2> QED BY <2>2, <2>3, <2>4, <2>5, <2>6, EditKeeps
<1>3. CASE LockClient(e)
  <2>1. /\ editing[e].step = "lock" /\ ~ClientHeld(editing[e].client)
        /\ UNCHANGED <<card, cardVersion>>
    BY <1>3 DEF LockClient
  <2>2. CASE editing[e].strict /\ editing[e].version # cardVersion[editing[e].client]
    BY <1>1, <1>3, <2>1, <2>2 DEF LockClient
  <2>3. CASE ~(editing[e].strict /\ editing[e].version # cardVersion[editing[e].client])
    <3> DEFINE with == [editing[e] EXCEPT !.step = "write"]
    <3>1. SetEdit(e, with) BY <1>3, <2>3 DEF LockClient
    <3>2. with \in EditRow BY <1>0, Zenon DEF EditRow
    <3>3. /\ with.step = "write" /\ with.client = editing[e].client
          /\ with.strict = editing[e].strict
      BY <1>0 DEF EditRow
    <3> HIDE DEF with
    <3>4. with.client \in Inserts /\ arrival[with.client] = "done"
      BY <2>1, <3>3 DEF ClientInv, EditsKnowTheMerge
    <3>5. \A m \in Merges : Holding(m) => with.client \notin Pair(m)
      BY <2>1, <3>3 DEF ClientHeld, Holding, Pair
    <3>6. with.strict => mergedInto[with.client] = NoClient
      <4>1. editing[e].version \in Nat BY <1>0 DEF EditRow
      <4>2. with.strict => editing[e].version = cardVersion[with.client] BY <2>3, <3>3
      <4>3. mergedInto[with.client] # NoClient => editing[e].version < cardVersion[with.client]
        BY <2>1, <3>3 DEF ClientInv, EditsKnowTheMerge
      <4> QED BY <4>1, <4>2, <4>3
    <3> QED BY <2>1, <3>1, <3>2, <3>3, <3>4, <3>5, <3>6, EditKeeps
  <2> QED BY <2>2, <2>3
<1>4. CASE WriteClient(e)
  <2> DEFINE c == editing[e].client
             with == [NoEdit EXCEPT !.step = "done"]
  <2>1. with \in EditRow /\ with.step = "done" BY NoRows
  <2>2. /\ editing[e].step = "write" /\ SetEdit(e, with)
        /\ UNCHANGED cardVersion \/ cardVersion' = [cardVersion EXCEPT ![c] = @ + 1]
    BY <1>4 DEF WriteClient, EditDone
  <2> HIDE DEF with
  <2>3. c \in Inserts BY <2>2 DEF ClientInv, EditsKnowTheMerge
  <2>4. PICK row : card' = [card EXCEPT ![c] = row] BY <1>4 DEF WriteClient
  <2>5. /\ card' = [d \in Inserts |-> card'[d]] /\ \A d \in Inserts \ {c} : card'[d] = card[d]
    BY <2>3, <2>4 DEF ClientInv, RowTypes
  <2>6. /\ cardVersion' \in [Inserts -> Nat]
        /\ \A d \in Inserts : cardVersion'[d] >= cardVersion[d]
    BY <2>2, <2>3 DEF ClientInv, RowTypes
  <2> QED BY <2>1, <2>2, <2>5, <2>6, EditKeeps
<1>5. CASE AbortEdit(e) BY <1>1, <1>5 DEF AbortEdit
<1> QED BY <1>2, <1>3, <1>4, <1>5

----------------------------------------------------------------------------
LEMMA NextClientInv == ClientInv /\ [ClientNext]_clientVars => ClientInv'
<1> SUFFICES ASSUME ClientInv, [ClientNext]_clientVars PROVE ClientInv' OBVIOUS
<1>1. ASSUME NEW i \in Inserts,
             \/ Snapshot(i) \/ ByPhone(i) \/ ByEmail(i) \/ InsertAttached(i)
             \/ AbortAttached(i) \/ CommitAttached(i)
             \/ LockLeadOfClient(i) \/ InsertProject(i) \/ CommitProject(i) \/ AbortProject(i)
      PROVE  ClientInv'
  BY <1>1, SnapshotKeeps, InsertsKeep, CommitAttachedKeeps, ProjectsKeep
<1>2. ASSUME NEW m \in Merges,
             LockClients(m) \/ MoveLeads(m) \/ CommitMerge(m) \/ AbortMerge(m)
      PROVE  ClientInv'
  BY <1>2, MergesKeep, CommitMergeKeeps
<1>3. ASSUME NEW e \in Edits,
             LoadClient(e) \/ LockClient(e) \/ WriteClient(e) \/ AbortEdit(e)
      PROVE  ClientInv'
  BY <1>3, EditsKeep
<1>4. CASE UNCHANGED clientVars
  <2>1. UNCHANGED <<leadClient, projectClient, card, mergedInto, cardVersion, arrival, view,
                    choice, opening, merging, editing, late>>
    BY <1>4 DEF clientVars, clientRows, clientRequests
  <2>2. RowTypes' /\ RequestTypes' BY <2>1 DEF ClientInv, RowTypes, RequestTypes
  <2>3. /\ CommittedFirst' /\ ChosenBefore' /\ OpeningHasLead' /\ EditsKnowTheMerge'
        /\ ProjectFollowsLead' /\ NothingLeftBehind' /\ ViewsAreOld'
    BY <2>1 DEF ClientInv, CommittedFirst, ChosenBefore, OpeningHasLead, EditsKnowTheMerge,
                ProjectFollowsLead, NothingLeftBehind, ViewsAreOld
  <2>4. MergesTheLiving' BY <2>1 DEF ClientInv, MergesTheLiving, Holding, Pair, Live
  <2>5. HeldAlone' BY <2>1 DEF ClientInv, HeldAlone, Holding, Pair
  <2> QED BY <2>2, <2>3, <2>4, <2>5 DEF ClientInv
<1> QED BY <1>1, <1>2, <1>3, <1>4 DEF ClientNext

\* A project belongs to the client of its lead, whatever merge moves the lead while it
\* becomes a project (clients.go:709).
THEOREM ProjectsFollowTheirLeads == ClientSpec => []ProjectFollowsLead
<1>1. ClientInv => ProjectFollowsLead BY DEF ClientInv
<1> QED BY InitClientInv, NextClientInv, <1>1, PTL DEF ClientSpec

\* A merge leaves no lead with the client it merges away, but for one that was inserted
\* only after, by a request that had chosen that client or by an import that had begun
\* (clients.go:698, importer.go:109).
THEOREM MergesLeaveNothingBehind == ClientSpec => []NothingLeftBehind
<1>1. ClientInv => NothingLeftBehind BY DEF ClientInv
<1> QED BY InitClientInv, NextClientInv, <1>1, PTL DEF ClientSpec

MergedStep ==
    \A c \in Inserts :
        /\ mergedInto[c] # NoClient => mergedInto'[c] = mergedInto[c]
        /\ mergedInto'[c] # mergedInto[c] => mergedInto'[c] \in {d \in Live : d < c}
        /\ mergedInto[c] # NoClient /\ card'[c] # card[c] =>
              \E e \in Edits : /\ editing[e].step = "write" /\ editing'[e].step = "done"
                               /\ editing[e].client = c /\ ~editing[e].strict

\* A merge is for good and goes to an older client that is still there; later only an
\* edit without If-Match reaches the client merged away (clients.go:617).
THEOREM MergesAreForGood == ClientSpec => MergedForGood
<1>1. ASSUME ClientInv, [ClientNext]_clientVars PROVE [MergedStep]_clientVars
  <2>1. ASSUME UNCHANGED <<card, mergedInto>> PROVE MergedStep
    BY <2>1 DEF MergedStep
  <2>2. ASSUME NEW i \in Inserts, CommitAttached(i) PROVE MergedStep
    <3>1. arrival[i] = "commit" /\ mergedInto' = mergedInto BY <2>2 DEF CommitAttached
    <3>2. mergedInto[i] = NoClient BY <1>1, <3>1 DEF ClientInv, CommittedFirst
    <3>3. \A c \in Inserts \ {i} : card'[c] = card[c]
      <4>1. CASE choice[i] # i BY <2>2, <4>1 DEF CommitAttached
      <4>2. CASE choice[i] = i BY <1>1, <2>2, <4>2 DEF CommitAttached, ClientInv, RowTypes
      <4> QED BY <4>1, <4>2
    <3> QED BY <3>1, <3>2, <3>3 DEF MergedStep
  <2>3. ASSUME NEW m \in Merges, CommitMerge(m) PROVE MergedStep
    <3> DEFINE old == merging[m].older
               new == merging[m].newer
    <3>1. merging[m].step = "commit" /\ mergedInto' = [mergedInto EXCEPT ![new] = old]
      BY <2>3 DEF CommitMerge
    <3>2. PICK row : card' = [card EXCEPT ![old] = row] BY <2>3 DEF CommitMerge
    <3>3. old \in Live /\ new \in Live /\ old < new
      BY <1>1, <3>1 DEF ClientInv, MergesTheLiving, Holding, Pair
    <3> HIDE DEF old, new
    <3>4. mergedInto[old] = NoClient /\ mergedInto[new] = NoClient BY <3>3 DEF Live
    <3>5. \A c \in Inserts : /\ mergedInto'[c] = IF c = new THEN old ELSE mergedInto[c]
                             /\ c # old => card'[c] = card[c]
      BY <1>1, <3>1, <3>2 DEF ClientInv, RowTypes
    <3> QED BY <3>3, <3>4, <3>5 DEF MergedStep
  <2>4. ASSUME NEW e \in Edits, WriteClient(e) PROVE MergedStep
    <3> DEFINE c == editing[e].client
    <3>1. /\ editing[e].step = "write" /\ mergedInto' = mergedInto
          /\ editing' = [editing EXCEPT ![e] = [NoEdit EXCEPT !.step = "done"]]
      BY <2>4 DEF WriteClient, EditDone, SetEdit
    <3>2. PICK row : card' = [card EXCEPT ![c] = row] BY <2>4 DEF WriteClient
    <3>3. editing'[e].step = "done"
      BY <1>1, <3>1, NoRows DEF ClientInv, RequestTypes
    <3>4. editing[e].strict => mergedInto[c] = NoClient
      BY <1>1, <3>1 DEF ClientInv, EditsKnowTheMerge
    <3>5. \A d \in Inserts \ {c} : card'[d] = card[d] BY <1>1, <3>2 DEF ClientInv, RowTypes
    <3> HIDE DEF c
    <3>6. \A d \in Inserts : mergedInto[d] # NoClient /\ card'[d] # card[d]
                               => d = editing[e].client /\ ~editing[e].strict
      BY <3>4, <3>5 DEF c
    <3> QED BY <3>1, <3>3, <3>6 DEF MergedStep
  <2>5. CASE \E i \in Inserts :
               \/ Snapshot(i) \/ ByPhone(i) \/ ByEmail(i) \/ InsertAttached(i)
               \/ AbortAttached(i) \/ LockLeadOfClient(i) \/ InsertProject(i)
               \/ CommitProject(i) \/ AbortProject(i)
    BY <2>1, <2>5 DEF Snapshot, ByPhone, ByEmail, InsertAttached, AbortAttached, Advance,
                      clientRows, LockLeadOfClient, InsertProject, CommitProject, AbortProject,
                      SetOpening
  <2>6. CASE \/ \E m \in Merges : LockClients(m) \/ MoveLeads(m) \/ AbortMerge(m)
             \/ \E e \in Edits : LoadClient(e) \/ LockClient(e) \/ AbortEdit(e)
    BY <2>1, <2>6 DEF LockClients, MoveLeads, AbortMerge, clientRows,
                      LoadClient, LockClient, AbortEdit, SetEdit, EditDone
  <2> QED BY <1>1, <2>2, <2>3, <2>4, <2>5, <2>6 DEF ClientNext
<1>2. ClientInv /\ [ClientNext]_clientVars => [MergedStep]_clientVars BY <1>1
<1>3. MergedForGood <=> [][MergedStep]_clientVars BY PTL DEF MergedForGood, MergedStep
<1> QED BY InitClientInv, NextClientInv, <1>2, <1>3, PTL DEF ClientSpec

----------------------------------------------------------------------------
(* No twins *)

Phoned(i) == arrival[i] \in {"email", "insert", "commit"}
Mailed(i) == arrival[i] \in {"insert", "commit"}
New(i) == choice[i] \in {NoClient, i}
Sure == Live \ unsure
PhonesOf(c) == {card[c].phone, card[c].second}

\* The advisory locks: no two inserts go on with one phone, or with one email.
OneAtATime ==
    \A i, j \in Inserts : i # j =>
        /\ Phoned(i) /\ Phoned(j) /\ contact[i].phone = contact[j].phone
              => contact[i].phone = NoContact
        /\ Mailed(i) /\ Mailed(j) /\ contact[i].email = contact[j].email
              => contact[i].email = NoContact

\* What an insert found nobody with, nobody has before it commits.
StillUnknown ==
    \A i \in Inserts, c \in Sure : New(i) =>
        /\ Phoned(i) /\ contact[i].phone # NoContact => contact[i].phone \notin PhonesOf(c)
        /\ Mailed(i) /\ contact[i].email # NoContact => contact[i].email # card[c].email

\* A client that the phone leads to is not the insert's own.
FoundByPhone == \A i \in Inserts : arrival[i] = "email" => choice[i] # i

PhoneInView(i) == \E d \in Inserts : /\ view[i][d] # NoCard
                                     /\ contact[i].phone \in {view[i][d].phone,
                                                             view[i][d].second}
EmailInView(i) == \E d \in Inserts : view[i][d] # NoCard /\ contact[i].email = view[i][d].email

\* An import sees a client with its phone or its email, if there is a sure one.
InTheSnapshot ==
    \A i \in Imports, c \in Sure : arrival[i] \in {"phone", "email"} =>
        /\ contact[i].phone # NoContact /\ contact[i].phone \in PhonesOf(c) => PhoneInView(i)
        /\ contact[i].email # NoContact /\ contact[i].email = card[c].email => EmailInView(i)

Distinct(c, d) ==
    /\ PhonesOf(c) \cap PhonesOf(d) \subseteq {NoContact}
    /\ card[c].email = card[d].email => card[c].email = NoContact

TwinInv ==
    ClientInv /\ OneAtATime /\ StillUnknown /\ FoundByPhone /\ InTheSnapshot /\ NoTwins

LEMMA NoTwinsMeans == NoTwins <=> \A c, d \in Sure : c # d => Distinct(c, d)
BY DEF NoTwins, Distinct, Sure, PhonesOf

LEMMA InitTwinInv == ClientInit => TwinInv
<1> SUFFICES ASSUME ClientInit PROVE TwinInv OBVIOUS
<1>1. ClientInv BY InitClientInv
<1>2. OneAtATime BY DEF ClientInit, OneAtATime, Phoned, Mailed
<1>3. Sure = {} BY DEF ClientInit, Sure, Live
<1>4. FoundByPhone BY DEF ClientInit, FoundByPhone
<1> QED BY <1>1, <1>2, <1>3, <1>4, NoTwinsMeans DEF TwinInv, StillUnknown, InTheSnapshot

\* An insert moves on behind its locks.
LEMMA AdvanceKeepsTwins ==
    ASSUME TwinInv, NEW i \in Inserts, NEW at \in {"email", "insert", "commit", "done"},
           NEW client, Advance(i, at, client),
           at = "email" => client # i /\ arrival[i] = "phone",
           at # "done" /\ ~Phoned(i) =>
               contact[i].phone = NoContact \/ ~PhoneLocked(contact[i].phone),
           at \in {"insert", "commit"} /\ ~Mailed(i) =>
               contact[i].email = NoContact \/ ~EmailLocked(contact[i].email),
           at # "done" /\ client \in {NoClient, i} => \A c \in Sure :
              /\ contact[i].phone # NoContact => contact[i].phone \notin PhonesOf(c)
              /\ at \in {"insert", "commit"} /\ contact[i].email # NoContact
                    => contact[i].email # card[c].email
    PROVE  OneAtATime' /\ StillUnknown' /\ FoundByPhone' /\ InTheSnapshot' /\ NoTwins'
<1>1. /\ arrival' = [arrival EXCEPT ![i] = at] /\ choice' = [choice EXCEPT ![i] = client]
      /\ UNCHANGED <<contact, card, mergedInto, unsure>>
      /\ at = "email" => view' = view
      /\ view' = view \/ view' = [view EXCEPT ![i] = NoView]
  BY DEF Advance, EndView, clientRows
<1>2. /\ arrival'[i] = at /\ choice'[i] = client
      /\ \A j \in Inserts \ {i} : arrival'[j] = arrival[j] /\ choice'[j] = choice[j]
  BY <1>1 DEF TwinInv, ClientInv, RequestTypes
<1>3. Sure' = Sure /\ \A c \in Inserts : PhonesOf(c)' = PhonesOf(c)
  BY <1>1 DEF Sure, Live, PhonesOf
<1>4. NoTwins' BY <1>1 DEF TwinInv, NoTwins, Live
<1>5. OneAtATime'
  BY <1>1, <1>2 DEF TwinInv, OneAtATime, Phoned, Mailed, PhoneLocked, EmailLocked
<1>6. StillUnknown'
  <2> SUFFICES ASSUME NEW j \in Inserts, NEW c \in Sure, New(j)'
               PROVE  /\ Phoned(j)' /\ contact[j].phone # NoContact
                            => contact[j].phone \notin PhonesOf(c)
                      /\ Mailed(j)' /\ contact[j].email # NoContact
                            => contact[j].email # card[c].email
    BY <1>1, <1>3 DEF StillUnknown, PhonesOf
  <2>1. CASE j = i BY <1>2, <2>1 DEF New, Phoned, Mailed
  <2>2. CASE j # i BY <1>2, <2>2 DEF TwinInv, StillUnknown, New, Phoned, Mailed
  <2> QED BY <2>1, <2>2
<1>7. FoundByPhone' BY <1>2 DEF TwinInv, FoundByPhone
<1>8. InTheSnapshot'
  <2> SUFFICES ASSUME NEW j \in Imports, NEW c \in Sure, arrival'[j] \in {"phone", "email"}
               PROVE  /\ contact[j].phone # NoContact /\ contact[j].phone \in PhonesOf(c)
                            => PhoneInView(j)'
                      /\ contact[j].email # NoContact /\ contact[j].email = card[c].email
                            => EmailInView(j)'
    BY <1>1, <1>3 DEF InTheSnapshot, PhonesOf
  <2>1. j \in Inserts BY ClientAssumption
  <2>2. arrival[j] \in {"phone", "email"} /\ view'[j] = view[j]
    BY <1>1, <1>2, <2>1 DEF TwinInv, ClientInv, RequestTypes
  <2>3. PhoneInView(j)' = PhoneInView(j) /\ EmailInView(j)' = EmailInView(j)
    BY <1>1, <2>2 DEF PhoneInView, EmailInView
  <2> QED BY <2>2, <2>3 DEF TwinInv, InTheSnapshot
<1> QED BY <1>4, <1>5, <1>6, <1>7, <1>8

\* An import begins, and sees whoever is there.
LEMMA SnapshotKeepsTwins ==
    ASSUME TwinInv, NEW i \in Inserts, Snapshot(i)
    PROVE  OneAtATime' /\ StillUnknown' /\ FoundByPhone' /\ InTheSnapshot' /\ NoTwins'
<1>1. /\ arrival[i] = "snapshot" /\ arrival' = [arrival EXCEPT ![i] = "phone"]
      /\ view' = [view EXCEPT ![i] = LiveCards]
      /\ UNCHANGED <<contact, card, mergedInto, choice, unsure>>
  BY DEF Snapshot, clientRows
<1>2. /\ arrival'[i] = "phone" /\ view'[i] = LiveCards
      /\ \A j \in Inserts \ {i} : arrival'[j] = arrival[j] /\ view'[j] = view[j]
  BY <1>1 DEF TwinInv, ClientInv, RequestTypes
<1>3. Sure' = Sure /\ \A c \in Inserts : PhonesOf(c)' = PhonesOf(c)
  BY <1>1 DEF Sure, Live, PhonesOf
<1>4. OneAtATime' BY <1>1, <1>2 DEF TwinInv, OneAtATime, Phoned, Mailed
<1>5. StillUnknown'
  BY <1>1, <1>2, <1>3 DEF TwinInv, StillUnknown, New, Phoned, Mailed, PhonesOf
<1>6. FoundByPhone' BY <1>1, <1>2 DEF TwinInv, FoundByPhone
<1>7. InTheSnapshot'
  <2> SUFFICES ASSUME NEW j \in Imports, NEW c \in Sure, arrival'[j] \in {"phone", "email"}
               PROVE  /\ contact[j].phone # NoContact /\ contact[j].phone \in PhonesOf(c)
                            => PhoneInView(j)'
                      /\ contact[j].email # NoContact /\ contact[j].email = card[c].email
                            => EmailInView(j)'
    BY <1>1, <1>3 DEF InTheSnapshot, PhonesOf
  <2>1. j \in Inserts BY ClientAssumption
  <2>2. CASE j = i
    <3>1. c \in Inserts /\ LiveCards[c] = card[c] /\ card[c] # NoCard
      BY DEF Sure, Live, LiveCards
    <3> QED BY <1>1, <1>2, <2>2, <3>1 DEF PhoneInView, EmailInView, PhonesOf
  <2>3. CASE j # i
    <3>1. PhoneInView(j)' = PhoneInView(j) /\ EmailInView(j)' = EmailInView(j)
      BY <1>1, <1>2, <2>1, <2>3 DEF PhoneInView, EmailInView
    <3> QED BY <1>2, <2>1, <2>3, <3>1 DEF TwinInv, InTheSnapshot
  <2> QED BY <2>2, <2>3
<1>8. NoTwins' BY <1>1 DEF TwinInv, NoTwins, Live
<1> QED BY <1>4, <1>5, <1>6, <1>7, <1>8

\* What the trigger does not find, no sure client has.
LEMMA NotFound ==
    ASSUME TwinInv, NEW i \in Inserts, arrival[i] \in {"phone", "email"}
    PROVE  /\ MatchPhone(i) # i /\ MatchEmail(i) # i
           /\ MatchPhone(i) = NoClient /\ contact[i].phone # NoContact =>
                  \A c \in Sure : contact[i].phone \notin PhonesOf(c)
           /\ MatchEmail(i) = NoClient /\ contact[i].email # NoContact =>
                  \A c \in Sure : contact[i].email # card[c].email
<1> DEFINE phoned == {c \in Inserts : /\ Seen(i)[c] # NoCard
                                      /\ contact[i].phone \in {Seen(i)[c].phone,
                                                              Seen(i)[c].second}}
           mailed == {c \in Inserts : /\ Seen(i)[c] # NoCard
                                      /\ contact[i].email = Seen(i)[c].email}
<1>1. MatchPhone(i) = Oldest(phoned) /\ MatchEmail(i) = Oldest(mailed)
  BY DEF MatchPhone, MatchEmail
<1>2. /\ phoned \in SUBSET {c \in Inserts : Seen(i)[c] # NoCard}
      /\ mailed \in SUBSET {c \in Inserts : Seen(i)[c] # NoCard}
  OBVIOUS
<1>3. ASSUME NEW matches \in SUBSET {c \in Inserts : Seen(i)[c] # NoCard}
      PROVE  Oldest(matches) # i /\ (Oldest(matches) = NoClient => matches = {})
  <2>1. CASE matches = {} BY <2>1, ClientAssumption DEF Oldest
  <2>2. CASE matches # {} BY <1>3, <2>2, FoundCommitted DEF TwinInv
  <2> QED BY <2>1, <2>2
<1>4. ASSUME NEW c \in Sure
      PROVE  /\ contact[i].phone # NoContact /\ contact[i].phone \in PhonesOf(c) => phoned # {}
             /\ contact[i].email # NoContact /\ contact[i].email = card[c].email => mailed # {}
  <2>1. CASE i \in Imports
    BY <1>4, <2>1 DEF TwinInv, InTheSnapshot, PhoneInView, EmailInView, Seen
  <2>2. CASE i \notin Imports
    <3>1. c \in Inserts /\ Seen(i)[c] = card[c] /\ card[c] # NoCard
      BY <2>2 DEF Sure, Live, LiveCards, Seen
    <3> QED BY <3>1 DEF PhonesOf
  <2> QED BY <2>1, <2>2
<1> HIDE DEF phoned, mailed
<1>5. /\ Oldest(phoned) # i /\ (Oldest(phoned) = NoClient => phoned = {})
      /\ Oldest(mailed) # i /\ (Oldest(mailed) = NoClient => mailed = {})
  BY <1>2, <1>3
<1> QED BY <1>1, <1>4, <1>5

LEMMA InsertsKeepTwins ==
    ASSUME TwinInv, NEW i \in Inserts,
           ByPhone(i) \/ ByEmail(i) \/ InsertAttached(i) \/ AbortAttached(i)
    PROVE  OneAtATime' /\ StillUnknown' /\ FoundByPhone' /\ InTheSnapshot' /\ NoTwins'
<1>1. NoClient \notin Inserts BY ClientAssumption
<1>3. CASE ByPhone(i)
  <2> DEFINE p == contact[i].phone
  <2>1. /\ arrival[i] = "phone"
        /\ IF p = NoContact
           THEN Advance(i, "email", NoClient)
           ELSE ~PhoneLocked(p) /\ Advance(i, "email", MatchPhone(i))
    BY <1>3 DEF ByPhone
  <2>2. CASE p = NoContact BY <1>1, <2>1, <2>2, AdvanceKeepsTwins
  <2>3. CASE p # NoContact BY <2>1, <2>3, NotFound, AdvanceKeepsTwins
  <2> QED BY <2>2, <2>3
<1>4. CASE ByEmail(i)
  <2> DEFINE e == contact[i].email
  <2>0. arrival[i] = "email" /\ Phoned(i) /\ ~Mailed(i) BY <1>4 DEF ByEmail, Phoned, Mailed
  <2>1. choice[i] \in {NoClient, i} => \A c \in Sure :
           contact[i].phone # NoContact => contact[i].phone \notin PhonesOf(c)
    BY <2>0 DEF TwinInv, StillUnknown, New
  <2>2. CASE e = NoContact
    <3>1. PICK client : /\ Advance(i, "insert", client)
                        /\ client \in {NoClient, i} => choice[i] \in {NoClient, i}
      BY <1>4, <2>2 DEF ByEmail
    <3> QED BY <2>0, <2>1, <2>2, <3>1, AdvanceKeepsTwins
  <2>3. CASE e # NoContact /\ choice[i] # NoClient
    <3>1. ~EmailLocked(e) /\ Advance(i, "insert", choice[i]) BY <1>4, <2>3 DEF ByEmail
    <3>2. choice[i] # i BY <2>0 DEF TwinInv, FoundByPhone
    <3> QED BY <2>0, <2>1, <2>3, <3>1, <3>2, AdvanceKeepsTwins
  <2>4. CASE e # NoContact /\ choice[i] = NoClient
    <3>1. PICK client : /\ ~EmailLocked(e) /\ Advance(i, "insert", client)
                        /\ client \in {NoClient, i} => MatchEmail(i) \in {NoClient, i}
      BY <1>4, <2>4 DEF ByEmail
    <3>2. client \in {NoClient, i} => \A c \in Sure : e # card[c].email
      BY <2>0, <2>4, <3>1, NotFound
    <3> QED BY <2>0, <2>1, <2>4, <3>1, <3>2, AdvanceKeepsTwins
  <2> QED BY <2>2, <2>3, <2>4
<1>5. CASE InsertAttached(i)
  <2>1. arrival[i] = "insert" /\ Advance(i, "commit", choice[i]) BY <1>5 DEF InsertAttached
  <2>2. Phoned(i) /\ Mailed(i) BY <2>1 DEF Phoned, Mailed
  <2>3. choice[i] \in {NoClient, i} => \A c \in Sure :
           /\ contact[i].phone # NoContact => contact[i].phone \notin PhonesOf(c)
           /\ contact[i].email # NoContact => contact[i].email # card[c].email
    BY <2>2 DEF TwinInv, StillUnknown, New
  <2> QED BY <2>1, <2>2, <2>3, AdvanceKeepsTwins
<1>6. CASE AbortAttached(i)
  <2>1. Advance(i, "done", NoClient) BY <1>6 DEF AbortAttached
  <2> QED BY <2>1, AdvanceKeepsTwins
<1> QED BY <1>3, <1>4, <1>5, <1>6

\* No request of an insert moves, and who is left was there: what its phones and emails
\* are, they were its own or those of a client that is there no more.
LEMMA RowsKeepTwins ==
    ASSUME TwinInv, UNCHANGED <<contact, arrival, view, choice>>,
           \A c \in Sure' : c \in Sure,
           \A c \in Sure' :
             \/ PhonesOf(c)' = PhonesOf(c) /\ card'[c].email = card[c].email
             \/ \E d \in Sure \ Sure' :
                  /\ PhonesOf(c)' \subseteq PhonesOf(c) \cup PhonesOf(d)
                  /\ card'[c].email \in {card[c].email, card[d].email}
                  /\ \A b \in Sure' \ {c} :
                        PhonesOf(b)' = PhonesOf(b) /\ card'[b].email = card[b].email
    PROVE  OneAtATime' /\ StillUnknown' /\ FoundByPhone' /\ InTheSnapshot' /\ NoTwins'
<1>1. OneAtATime' /\ FoundByPhone'
  BY DEF TwinInv, OneAtATime, FoundByPhone, Phoned, Mailed
<1>2. StillUnknown'
  <2> SUFFICES ASSUME NEW i \in Inserts, NEW c \in Sure', New(i)
               PROVE  /\ Phoned(i) /\ contact[i].phone # NoContact
                            => contact[i].phone \notin PhonesOf(c)'
                      /\ Mailed(i) /\ contact[i].email # NoContact
                            => contact[i].email # card'[c].email
    BY DEF StillUnknown, New, Phoned, Mailed
  <2>1. \A d \in Sure :
           /\ Phoned(i) /\ contact[i].phone # NoContact => contact[i].phone \notin PhonesOf(d)
           /\ Mailed(i) /\ contact[i].email # NoContact => contact[i].email # card[d].email
    BY DEF TwinInv, StillUnknown
  <2> QED BY <2>1
<1>3. \A c, d \in Sure : c # d => Distinct(c, d) BY NoTwinsMeans DEF TwinInv
<1>4. ASSUME NEW c \in Sure', NEW d \in Sure', c # d PROVE Distinct(c, d)'
  <2>1. CASE /\ PhonesOf(c)' = PhonesOf(c) /\ card'[c].email = card[c].email
             /\ PhonesOf(d)' = PhonesOf(d) /\ card'[d].email = card[d].email
    BY <1>3, <1>4, <2>1 DEF Distinct
  <2>2. ASSUME NEW x \in Sure', NEW y \in Sure', x # y, NEW z \in Sure \ Sure',
               PhonesOf(x)' \subseteq PhonesOf(x) \cup PhonesOf(z),
               card'[x].email \in {card[x].email, card[z].email},
               PhonesOf(y)' = PhonesOf(y), card'[y].email = card[y].email
        PROVE  Distinct(x, y)' /\ Distinct(y, x)'
    <3>1. Distinct(x, y) /\ Distinct(z, y) /\ Distinct(y, x) /\ Distinct(y, z)
      BY <1>3, <2>2
    <3> QED BY <2>2, <3>1 DEF Distinct
  <2> QED BY <1>4, <2>1, <2>2
<1>5. NoTwins'
  <2>1. NoTwins' <=> \A c, d \in Sure' : c # d => Distinct(c, d)'
    BY DEF NoTwins, Distinct, Sure, PhonesOf
  <2> QED BY <1>4, <2>1
<1>6. InTheSnapshot'
  <2> SUFFICES ASSUME NEW i \in Imports, NEW c \in Sure', arrival[i] \in {"phone", "email"}
               PROVE  /\ contact[i].phone # NoContact /\ contact[i].phone \in PhonesOf(c)'
                            => PhoneInView(i)
                      /\ contact[i].email # NoContact /\ contact[i].email = card'[c].email
                            => EmailInView(i)
    BY DEF InTheSnapshot, PhoneInView, EmailInView
  <2>1. \A d \in Sure :
           /\ contact[i].phone # NoContact /\ contact[i].phone \in PhonesOf(d) => PhoneInView(i)
           /\ contact[i].email # NoContact /\ contact[i].email = card[d].email => EmailInView(i)
    BY DEF TwinInv, InTheSnapshot
  <2> QED BY <2>1
<1> QED BY <1>1, <1>2, <1>5, <1>6

LEMMA CommitAttachedKeepsTwins ==
    ASSUME TwinInv, NEW i \in Inserts, CommitAttached(i)
    PROVE  OneAtATime' /\ StillUnknown' /\ FoundByPhone' /\ InTheSnapshot' /\ NoTwins'
<1>1. /\ arrival[i] = "commit" /\ arrival' = [arrival EXCEPT ![i] = "done"]
      /\ view' = [view EXCEPT ![i] = NoView]
      /\ unsure' = IF choice[i] = i /\ Overlooked(i) THEN unsure \cup {i} ELSE unsure
      /\ UNCHANGED <<contact, choice, mergedInto>>
  BY DEF CommitAttached, EndView
<1>2. /\ arrival'[i] = "done"
      /\ \A j \in Inserts \ {i} : arrival'[j] = arrival[j] /\ view'[j] = view[j]
      /\ Phoned(i) /\ Mailed(i)
  BY <1>1 DEF TwinInv, ClientInv, RequestTypes, Phoned, Mailed
<1>3. OneAtATime' /\ FoundByPhone'
  BY <1>1, <1>2 DEF TwinInv, OneAtATime, FoundByPhone, Phoned, Mailed
<1>6. \A j \in Imports : arrival'[j] \in {"phone", "email"} =>
        /\ j \in Inserts /\ j # i /\ arrival[j] \in {"phone", "email"}
        /\ PhoneInView(j)' = PhoneInView(j) /\ EmailInView(j)' = EmailInView(j)
  BY <1>1, <1>2, ClientAssumption DEF PhoneInView, EmailInView
<1>4. CASE choice[i] # i
  <2>1. card' = card /\ unsure' = unsure BY <1>1, <1>4 DEF CommitAttached
  <2>2. StillUnknown'
    BY <1>1, <1>2, <2>1
    DEF TwinInv, StillUnknown, Sure, Live, PhonesOf, New, Phoned, Mailed
  <2>3. NoTwins' BY <1>1, <2>1 DEF TwinInv, NoTwins, Live
  <2>4. InTheSnapshot'
    <3>1. Sure' = Sure /\ \A c \in Inserts : PhonesOf(c)' = PhonesOf(c)
      BY <1>1, <2>1 DEF Sure, Live, PhonesOf
    <3> QED BY <1>1, <1>6, <2>1, <3>1 DEF TwinInv, InTheSnapshot, PhonesOf
  <2> QED BY <1>3, <2>2, <2>3, <2>4
<1>5. CASE choice[i] = i
  <2>1. card' = [card EXCEPT ![i] = [phone |-> contact[i].phone, second |-> NoContact,
                                     email |-> contact[i].email]]
    BY <1>5 DEF CommitAttached
  <2>2. /\ PhonesOf(i)' = {contact[i].phone, NoContact} /\ card'[i].email = contact[i].email
        /\ \A c \in Inserts \ {i} :
              card'[c] = card[c] /\ PhonesOf(c)' = PhonesOf(c)
    BY <2>1 DEF TwinInv, ClientInv, RowTypes, PhonesOf
  <2>3. \A c \in Sure' : c = i \/ (c \in Sure /\ c # i /\ c \in Inserts)
    BY <1>1, <2>2 DEF Sure, Live
  <2>4. \A c \in Sure :
           /\ contact[i].phone # NoContact => contact[i].phone \notin PhonesOf(c)
           /\ contact[i].email # NoContact => contact[i].email # card[c].email
    BY <1>2, <1>5 DEF TwinInv, StillUnknown, New
  <2>5. StillUnknown'
    <3> SUFFICES ASSUME NEW j \in Inserts, NEW c \in Sure', New(j)', j # i
                 PROVE  /\ Phoned(j) /\ contact[j].phone # NoContact
                              => contact[j].phone \notin PhonesOf(c)'
                        /\ Mailed(j) /\ contact[j].email # NoContact
                              => contact[j].email # card'[c].email
      BY <1>1, <1>2 DEF StillUnknown, Phoned, Mailed
    <3>1. CASE c = i
      BY <1>2, <2>2, <3>1 DEF TwinInv, OneAtATime
    <3>2. CASE c # i
      BY <1>1, <2>2, <2>3, <3>2 DEF TwinInv, StillUnknown, New
    <3> QED BY <3>1, <3>2
  <2>6. ASSUME NEW c \in Sure', NEW d \in Sure', c # d PROVE Distinct(c, d)'
    <3>1. CASE c = i BY <2>2, <2>3, <2>4, <2>6, <3>1 DEF Distinct
    <3>2. CASE d = i BY <2>2, <2>3, <2>4, <2>6, <3>2 DEF Distinct
    <3>3. CASE c # i /\ d # i
      <4>1. Distinct(c, d) BY <2>3, <2>6, <3>3, NoTwinsMeans DEF TwinInv
      <4> QED BY <2>2, <2>3, <3>3, <4>1 DEF Distinct
    <3> QED BY <3>1, <3>2, <3>3
  <2>7. NoTwins' <=> \A c, d \in Sure' : c # d => Distinct(c, d)'
    BY DEF NoTwins, Distinct, Sure, PhonesOf
  <2>8. InTheSnapshot'
    <3> SUFFICES ASSUME NEW j \in Imports, NEW c \in Sure', arrival'[j] \in {"phone", "email"}
                 PROVE  /\ contact[j].phone # NoContact /\ contact[j].phone \in PhonesOf(c)'
                              => PhoneInView(j)
                        /\ contact[j].email # NoContact /\ contact[j].email = card'[c].email
                              => EmailInView(j)
      BY <1>1, <1>6 DEF InTheSnapshot
    <3>1. CASE c = i
      <4>1. ~Overlooked(i) BY <1>1, <1>5, <3>1 DEF Sure
      <4> QED BY <1>6, <2>2, <3>1, <4>1 DEF Overlooked
    <3>2. CASE c # i BY <1>6, <2>2, <2>3, <3>2 DEF TwinInv, InTheSnapshot
    <3> QED BY <3>1, <3>2
  <2> QED BY <1>3, <2>5, <2>6, <2>7, <2>8
<1> QED BY <1>4, <1>5

\* The survivor takes contacts of its own and of the other, which is a twin of nobody.
LEMMA CommitMergeKeepsTwins ==
    ASSUME TwinInv, NEW m \in Merges, CommitMerge(m)
    PROVE  OneAtATime' /\ StillUnknown' /\ FoundByPhone' /\ InTheSnapshot' /\ NoTwins'
<1> DEFINE old == merging[m].older
           new == merging[m].newer
<1>1. /\ merging[m].step = "commit" /\ mergedInto' = [mergedInto EXCEPT ![new] = old]
      /\ unsure' = IF new \in unsure THEN unsure \cup {old} ELSE unsure
      /\ UNCHANGED <<contact, arrival, view, choice>>
  BY DEF CommitMerge, MergeDone, SetMerge
<1>2. PICK keepNewer \in BOOLEAN :
        card' = [card EXCEPT ![old] = Contacts(card[old], card[new], keepNewer)]
  BY DEF CommitMerge
<1>3. old \in Live /\ new \in Live /\ old < new
  BY <1>1 DEF TwinInv, ClientInv, MergesTheLiving, Holding, Pair
<1> HIDE DEF old, new
<1>4. old \in Inserts /\ new \in Inserts /\ old # new /\ old # NoClient
  <2>1. old \in Inserts /\ new \in Inserts BY <1>3 DEF Live
  <2>2. old \in Nat /\ new \in Nat BY <2>1, ClientAssumption
  <2> QED BY <1>3, <2>1, <2>2, ClientAssumption
<1>5. /\ mergedInto'[new] = old /\ \A c \in Inserts \ {new} : mergedInto'[c] = mergedInto[c]
      /\ card'[old] = Contacts(card[old], card[new], keepNewer)
      /\ \A c \in Inserts \ {old} : card'[c] = card[c]
  BY <1>1, <1>2, <1>4 DEF TwinInv, ClientInv, RowTypes
<1>6. /\ {card'[old].phone, card'[old].second} \subseteq PhonesOf(old) \cup PhonesOf(new)
      /\ card'[old].email \in {card[old].email, card[new].email}
  <2>1. card'[old].second \in {card[old].second, card[new].phone, card[new].second}
    BY <1>5 DEF Contacts
  <2>2. card'[old].phone = card[old].phone BY <1>5 DEF Contacts
  <2>3. card'[old].email \in {card[old].email, card[new].email} BY <1>5 DEF Contacts
  <2> QED BY <2>1, <2>2, <2>3 DEF PhonesOf
<1>7. \A c \in Inserts \ {old} : PhonesOf(c)' = PhonesOf(c) /\ card'[c].email = card[c].email
  BY <1>5 DEF PhonesOf
<1>8. \A c \in Sure' : c \in Sure /\ c # new /\ c \in Inserts
                           /\ (c = old => new \in Sure)
  BY <1>1, <1>3, <1>4, <1>5 DEF Sure, Live
<1>9. \A c \in Sure' :
        \/ PhonesOf(c)' = PhonesOf(c) /\ card'[c].email = card[c].email
        \/ \E d \in Sure \ Sure' :
             /\ PhonesOf(c)' \subseteq PhonesOf(c) \cup PhonesOf(d)
             /\ card'[c].email \in {card[c].email, card[d].email}
             /\ \A b \in Sure' \ {c} :
                   PhonesOf(b)' = PhonesOf(b) /\ card'[b].email = card[b].email
  <2> SUFFICES ASSUME NEW c \in Sure', c = old
               PROVE  \E d \in Sure \ Sure' :
                        /\ PhonesOf(c)' \subseteq PhonesOf(c) \cup PhonesOf(d)
                        /\ card'[c].email \in {card[c].email, card[d].email}
                        /\ \A b \in Sure' \ {c} :
                              PhonesOf(b)' = PhonesOf(b) /\ card'[b].email = card[b].email
    BY <1>7, <1>8
  <2>1. new \in Sure \ Sure' BY <1>8
  <2>3. PhonesOf(c)' \subseteq PhonesOf(c) \cup PhonesOf(new) BY <1>6 DEF PhonesOf
  <2>2. \A b \in Sure' \ {c} : PhonesOf(b)' = PhonesOf(b) /\ card'[b].email = card[b].email
    BY <1>7, <1>8
  <2> QED BY <1>6, <2>1, <2>2, <2>3
<1> QED BY <1>1, <1>8, <1>9, RowsKeepTwins

LEMMA NextTwinInv == TwinInv /\ [ClientNext]_clientVars => TwinInv'
<1> SUFFICES ASSUME TwinInv, [ClientNext]_clientVars PROVE TwinInv' OBVIOUS
<1>1. ClientInv' BY NextClientInv DEF TwinInv
<1>2. ASSUME UNCHANGED <<contact, arrival, view, choice, card, mergedInto, unsure>>
      PROVE  OneAtATime' /\ StillUnknown' /\ FoundByPhone' /\ InTheSnapshot' /\ NoTwins'
  <2>1. Sure' = Sure /\ \A c \in Sure' : PhonesOf(c)' = PhonesOf(c)
    BY <1>2 DEF Sure, Live, PhonesOf
  <2> QED BY <1>2, <2>1, RowsKeepTwins
<1>3. ASSUME NEW i \in Inserts,
             ByPhone(i) \/ ByEmail(i) \/ InsertAttached(i) \/ AbortAttached(i)
      PROVE  OneAtATime' /\ StillUnknown' /\ FoundByPhone' /\ InTheSnapshot' /\ NoTwins'
  BY <1>3, InsertsKeepTwins
<1>10. ASSUME NEW i \in Inserts, Snapshot(i)
      PROVE  OneAtATime' /\ StillUnknown' /\ FoundByPhone' /\ InTheSnapshot' /\ NoTwins'
  BY <1>10, SnapshotKeepsTwins
<1>4. ASSUME NEW i \in Inserts, CommitAttached(i)
      PROVE  OneAtATime' /\ StillUnknown' /\ FoundByPhone' /\ InTheSnapshot' /\ NoTwins'
  BY <1>4, CommitAttachedKeepsTwins
<1>5. CASE \/ \E i \in Inserts : \/ LockLeadOfClient(i) \/ InsertProject(i)
                                 \/ CommitProject(i) \/ AbortProject(i)
           \/ \E m \in Merges : LockClients(m) \/ MoveLeads(m) \/ AbortMerge(m)
  <2>1. UNCHANGED <<contact, arrival, view, choice, card, mergedInto, unsure>>
    BY <1>5 DEF LockLeadOfClient, InsertProject, CommitProject, AbortProject, SetOpening,
                LockClients, MoveLeads, AbortMerge, MergeDone, SetMerge, clientRows
  <2> QED BY <1>1, <1>2, <2>1 DEF TwinInv
<1>6. ASSUME NEW m \in Merges, CommitMerge(m)
      PROVE  OneAtATime' /\ StillUnknown' /\ FoundByPhone' /\ InTheSnapshot' /\ NoTwins'
  BY <1>6, CommitMergeKeepsTwins
<1>7. CASE \E e \in Edits : LoadClient(e) \/ LockClient(e) \/ AbortEdit(e)
  <2>1. UNCHANGED <<contact, arrival, view, choice, card, mergedInto, unsure>>
    BY <1>7 DEF LoadClient, LockClient, AbortEdit, EditDone, SetEdit
  <2> QED BY <1>1, <1>2, <2>1 DEF TwinInv
<1>8. ASSUME NEW e \in Edits, WriteClient(e)
      PROVE  OneAtATime' /\ StillUnknown' /\ FoundByPhone' /\ InTheSnapshot' /\ NoTwins'
  <2> DEFINE c == editing[e].client
  <2>1. UNCHANGED <<contact, arrival, view, choice, mergedInto>>
    BY <1>8 DEF WriteClient, EditDone, SetEdit
  <2>2. CASE card' = card
    <3>1. unsure' = unsure BY <1>8, <2>2 DEF WriteClient
    <3> QED BY <1>2, <2>1, <2>2, <3>1
  <2>3. CASE card' # card
    <3>1. unsure' = unsure \cup {c} BY <1>8, <2>3 DEF WriteClient
    <3>2. PICK row : card' = [card EXCEPT ![c] = row] BY <1>8 DEF WriteClient
    <3>3. \A d \in Inserts \ {c} : card'[d] = card[d]
      BY <3>2 DEF TwinInv, ClientInv, RowTypes
    <3>4. \A d \in Sure' : /\ d \in Sure /\ PhonesOf(d)' = PhonesOf(d)
                               /\ card'[d].email = card[d].email
      BY <2>1, <3>1, <3>3 DEF Sure, Live, PhonesOf
    <3> QED BY <2>1, <3>4, RowsKeepTwins
  <2> QED BY <2>2, <2>3
<1>9. CASE UNCHANGED clientVars
  <2>1. UNCHANGED <<contact, arrival, view, choice, card, mergedInto, unsure>>
    BY <1>9 DEF clientVars, clientRows, clientRequests
  <2> QED BY <1>1, <1>2, <2>1 DEF TwinInv
<1> QED BY <1>1, <1>3, <1>4, <1>5, <1>6, <1>7, <1>8, <1>9, <1>10 DEF ClientNext, TwinInv

\* However inserts and merges interleave, two clients that are not merged away and that
\* nobody edited share no phone and no email, unless one committed behind the snapshot of
\* an import that came with it too (20261023120000_clients.sql:132, importer.go:109).
THEOREM ClientsAreNotTwins == ClientSpec => []NoTwins
<1>1. TwinInv => NoTwins BY DEF TwinInv
<1> QED BY InitTwinInv, NextTwinInv, <1>1, PTL DEF ClientSpec

----------------------------------------------------------------------------
(* BiuroImport: types *)

RunRow == [pc : {"new", "apply", "done"}, sheet : Sheet, seen : Office, overlapped : BOOLEAN]
HomeRow == [lead : SheetKeys \cup {NoKey}, phone : Phone, astray : BOOLEAN]

LEMMA InitImportTypes == ImportInit => ImportTypeOK
<1> SUFFICES ASSUME ImportInit PROVE ImportTypeOK OBVIOUS
<1>1. EmptyOffice \in Office BY DEF EmptyOffice, Office
<1>2. EmptySheet \in Sheet BY DEF EmptySheet, Sheet
<1>3. Waiting("new") \in RunRow BY <1>1, <1>2 DEF Waiting, RunRow
<1>4. NoHome \in HomeRow BY DEF NoHome, HomeRow, Phone
<1> QED BY <1>1, <1>3, <1>4 DEF ImportInit, ImportTypeOK, RunRow, HomeRow

LEMMA WaitingTypes == \A next \in {"new", "done"} : Waiting(next) \in RunRow
<1>1. EmptyOffice \in Office BY DEF EmptyOffice, Office
<1>2. EmptySheet \in Sheet BY DEF EmptySheet, Sheet
<1> QED BY <1>1, <1>2 DEF Waiting, RunRow

\* The leads, attempts and comments after a step that names its leads and entries.
LEMMA OfficeAfter ==
    ASSUME office \in Office, NEW L, NEW A, NEW N,
           L \in [SheetKeys -> ImportedLead \cup {NoLead}],
           A \in [SheetKeys -> SheetKeys \cup {NoKey}],
           N \in [SheetKeys -> SheetKeys \cup {NoKey}],
           office' = [office EXCEPT !.leads = L, !.attempts = A, !.notes = N]
    PROVE  office' \in Office /\ office'.leads = L
BY DEF Office

\* The lead x that a run has stored.
LEMMA StoredIsLead ==
    ASSUME ImportTypeOK, NEW r \in Runs, NEW seen, NEW s \in Sheet, NEW x \in Rows(s)
    PROVE  /\ StoredLead(r, seen, s, x) \in ImportedLead \cup {NoLead}
           /\ office.leads[x] = NoLead => StoredLead(r, seen, s, x).phone = s[x].phone
           /\ office.leads[x] # NoLead =>
                 StoredLead(r, seen, s, x).phone = office.leads[x].phone
<1>1. x \in SheetKeys /\ s[x] \in SheetRows BY DEF Rows, Sheet
<1>2. s[x].phone \in Phone BY <1>1, SheetRowsAssumption DEF SheetRow
<1>3. office.leads[x] \in ImportedLead \cup {NoLead} BY <1>1 DEF ImportTypeOK, Office
<1>4. CASE office.leads[x] = NoLead
  <2> DEFINE called == IF Reached(s, x) THEN "sheet" ELSE "none"
  <2>1. called \in {"none", "sheet", "crm"} OBVIOUS
  <2> HIDE DEF called
  <2>2. StoredLead(r, seen, s, x) = [phone |-> s[x].phone, call |-> called, by |-> r]
    BY <1>4 DEF StoredLead, called
  <2> QED BY <1>2, <1>4, <2>1, <2>2 DEF ImportedLead
<1>5. CASE office.leads[x] # NoLead
  <2>1. office.leads[x] \in ImportedLead BY <1>3, <1>5
  <2>2. StoredLead(r, seen, s, x) \in
           {office.leads[x], [office.leads[x] EXCEPT !.call = "sheet"]}
    BY <1>5 DEF StoredLead
  <2> QED BY <1>5, <2>1, <2>2 DEF ImportedLead
<1> QED BY <1>4, <1>5

\* What a commit does to the leads, and whom it tells.
LEMMA CommitLeads ==
    ASSUME ImportTypeOK, NEW r \in Runs, CommitImport(r)
    PROVE  /\ ImportTypeOK'
           /\ \A x \in SheetKeys :
                office'.leads[x] =
                  IF x \in Applied(run[r].seen, run[r].sheet)
                  THEN StoredLead(r, run[r].seen, run[r].sheet, x) ELSE office.leads[x]
           /\ raced' = raced \cup
                {x \in Applied(run[r].seen, run[r].sheet) :
                   /\ office.leads[x] = NoLead
                   /\ run[r].overlapped \/ run[r].seen.leads[x] # NoLead}
           /\ run'[r].pc = "done"
           /\ \A q \in Runs \ {r} : /\ run'[q].pc = run[q].pc /\ run'[q].seen = run[q].seen
                                    /\ run[q].pc = "apply" => run'[q].overlapped
<1> DEFINE s == run[r].sheet
           seen == run[r].seen
           applied == Applied(seen, s)
           touched == UNION {Group(s, x) : x \in applied}
           head == [k \in touched |-> CHOOSE x \in applied : k \in Group(s, x)]
           astray == {k \in touched : /\ homes[k] # NoHome
                                      /\ \/ homes[k].astray
                                         \/ homes[k].lead # head[k]
                                         \/ homes[k].phone # s[k].phone}
           L == [x \in SheetKeys |-> IF x \in applied THEN StoredLead(r, seen, s, x)
                                                      ELSE office.leads[x]]
           A == [k \in SheetKeys |-> IF k \notin touched THEN office.attempts[k]
                    ELSE Owner(office.attempts[k], head[k], k \in FirstTalk(s, head[k]))]
           N == [k \in SheetKeys |-> IF k \notin touched THEN office.notes[k]
                    ELSE Owner(office.notes[k], head[k], s[k].note)]
<1>1. run[r] \in RunRow /\ office \in Office BY DEF ImportTypeOK, RunRow
<1>2. s \in Sheet /\ seen \in Office BY <1>1 DEF RunRow
<1>3. applied \subseteq Rows(s) /\ Rows(s) \subseteq SheetKeys
  BY DEF Applied, Heads, Rows
<1>4. touched \subseteq Rows(s)
  BY <1>3 DEF Group, Rows
<1>5. \A k \in touched : head[k] \in applied /\ k \in Group(s, head[k])
  OBVIOUS
<1>6. office' = [office EXCEPT !.leads = L, !.attempts = A, !.notes = N]
  BY DEF CommitImport
<1>7. L \in [SheetKeys -> ImportedLead \cup {NoLead}]
  BY <1>1, <1>2, <1>3, StoredIsLead DEF Office
<1>8. A \in [SheetKeys -> SheetKeys \cup {NoKey}]
  BY <1>1, <1>3, <1>5 DEF Office, Owner
<1>9. N \in [SheetKeys -> SheetKeys \cup {NoKey}]
  BY <1>1, <1>3, <1>5 DEF Office, Owner
<1>10. office' \in Office /\ office'.leads = L
  BY <1>1, <1>6, <1>7, <1>8, <1>9, OfficeAfter
<1>11. run' = [q \in Runs |-> IF q = r THEN Waiting("done")
                  ELSE [run[q] EXCEPT !.overlapped = @ \/ run[q].pc = "apply"]]
  BY DEF CommitImport
<1>12. /\ run' \in [Runs -> RunRow]
       /\ run'[r].pc = "done"
       /\ \A q \in Runs \ {r} : /\ run'[q].pc = run[q].pc /\ run'[q].seen = run[q].seen
                                /\ run[q].pc = "apply" => run'[q].overlapped
  <2>1. Waiting("done") \in RunRow /\ Waiting("done").pc = "done"
    BY WaitingTypes DEF Waiting
  <2>2. ASSUME NEW q \in Runs
        PROVE  LET n == [run[q] EXCEPT !.overlapped = @ \/ run[q].pc = "apply"]
               IN /\ n \in RunRow /\ n.pc = run[q].pc /\ n.seen = run[q].seen
                  /\ run[q].pc = "apply" => n.overlapped
    <3>1. run[q] \in RunRow BY DEF ImportTypeOK, RunRow
    <3>2. (run[q].overlapped \/ run[q].pc = "apply") \in BOOLEAN OBVIOUS
    <3> QED BY <3>1, <3>2 DEF RunRow
  <2> QED BY <1>11, <2>1, <2>2
<1>13. homes' \in [SheetKeys -> HomeRow]
  <2>1. homes' = [k \in SheetKeys |->
            IF k \notin touched THEN homes[k]
            ELSE IF homes[k] = NoHome
                 THEN [lead |-> head[k], phone |-> s[k].phone, astray |-> FALSE]
                 ELSE [homes[k] EXCEPT !.astray = k \in astray]]
    BY DEF CommitImport
  <2>2. ASSUME NEW k \in SheetKeys
        PROVE  /\ homes[k] \in HomeRow
               /\ [homes[k] EXCEPT !.astray = k \in astray] \in HomeRow
    <3>1. homes[k] \in HomeRow BY DEF ImportTypeOK, HomeRow
    <3>2. (k \in astray) \in BOOLEAN OBVIOUS
    <3> HIDE DEF astray
    <3> QED BY <3>1, <3>2 DEF HomeRow
  <2>3. ASSUME NEW k \in touched
        PROVE  [lead |-> head[k], phone |-> s[k].phone, astray |-> FALSE] \in HomeRow
    <3>1. s[k] \in SheetRows BY <1>2, <1>4 DEF Sheet, Rows
    <3>2. s[k].phone \in Phone BY <3>1, SheetRowsAssumption DEF SheetRow
    <3>3. head[k] \in SheetKeys BY <1>3, <1>5
    <3> HIDE DEF head
    <3> QED BY <3>2, <3>3 DEF HomeRow
  <2> HIDE DEF astray, touched, head
  <2> QED BY <2>1, <2>2, <2>3
<1>14. raced' = raced \cup {x \in applied : office.leads[x] = NoLead /\
                              (run[r].overlapped \/ seen.leads[x] # NoLead)}
  BY DEF CommitImport
<1>15. strayed' \subseteq SheetKeys /\ raced' \subseteq SheetKeys
  <2>1. strayed' = strayed \cup {head[k] : k \in astray} BY DEF CommitImport
  <2>2. \A k \in astray : head[k] \in SheetKeys BY <1>3, <1>5
  <2>3. strayed \subseteq SheetKeys /\ raced \subseteq SheetKeys BY DEF ImportTypeOK
  <2>4. applied \subseteq SheetKeys BY <1>3
  <2> HIDE DEF astray, head, applied
  <2>5. raced' \subseteq SheetKeys BY <1>14, <2>3, <2>4
  <2>6. strayed' \subseteq SheetKeys BY <2>1, <2>2, <2>3
  <2> QED BY <2>5, <2>6
<1> QED BY <1>10, <1>12, <1>13, <1>14, <1>15 DEF ImportTypeOK, RunRow, HomeRow

\* The other steps: types, no new lead, no new phone, and no new race.
LEMMA ElseLeads ==
    ASSUME ImportTypeOK, [ImportNext]_importVars, \A r \in Runs : ~CommitImport(r)
    PROVE  /\ ImportTypeOK'
           /\ \A x \in SheetKeys : office'.leads[x] # NoLead =>
                 /\ office.leads[x] # NoLead
                 /\ office'.leads[x].phone = office.leads[x].phone
                 /\ x \in raced => x \in raced'
           /\ \A q \in Runs : run'[q].pc = "apply" =>
                 run'[q] = run[q] \/ (run'[q].seen = office /\ office' = office)
<1>1. CASE UNCHANGED importVars
  BY <1>1 DEF importVars, ImportTypeOK
<1>2. ASSUME NEW r \in Runs, Analyze(r)
      PROVE  /\ ImportTypeOK' /\ office' = office /\ raced' = raced
             /\ \A q \in Runs : run'[q] = run[q] \/ run'[q].seen = office
  <2>1. PICK s \in Sheet : run' = [run EXCEPT ![r] =
            [pc |-> "apply", sheet |-> s, seen |-> office, overlapped |-> FALSE]]
    BY <1>2 DEF Analyze
  <2>2. [pc |-> "apply", sheet |-> s, seen |-> office, overlapped |-> FALSE] \in RunRow
    BY DEF RunRow, ImportTypeOK
  <2> QED BY <1>2, <2>1, <2>2 DEF Analyze, ImportTypeOK, RunRow
<1>3. ASSUME NEW r \in Runs, FailImport(r)
      PROVE  /\ ImportTypeOK' /\ office' = office /\ raced' = raced
             /\ \A q \in Runs : run'[q] = run[q] \/ run'[q].pc = "done"
  <2>1. Waiting("done") \in RunRow /\ Waiting("done").pc = "done"
    BY WaitingTypes DEF Waiting
  <2> QED BY <1>3, <2>1 DEF FailImport, ImportTypeOK, RunRow
<1>4. ASSUME NEW n \in Numbers, LeadElsewhere(n)
      PROVE  ImportTypeOK' /\ office'.leads = office.leads /\ raced' = raced /\ run' = run
  BY <1>4 DEF LeadElsewhere, ImportTypeOK, Office
<1>5. ASSUME NEW x \in SheetKeys, CallImported(x)
      PROVE  /\ ImportTypeOK' /\ raced' = raced /\ run' = run
             /\ \A y \in SheetKeys : office'.leads[y] # NoLead =>
                   office.leads[y] # NoLead /\ office'.leads[y].phone = office.leads[y].phone
  <2>1. office.leads[x] \in ImportedLead BY <1>5 DEF CallImported, ImportTypeOK, Office
  <2> DEFINE l == [office.leads[x] EXCEPT !.call = "crm"]
  <2>2. l \in ImportedLead /\ l.phone = office.leads[x].phone BY <2>1 DEF ImportedLead
  <2>3. office' = [office EXCEPT !.leads = [office.leads EXCEPT ![x] = l]]
    BY <1>5 DEF CallImported, ImportTypeOK, Office
  <2> HIDE DEF l
  <2>4. office \in Office /\ UNCHANGED <<run, homes, strayed, raced>>
    BY <1>5 DEF CallImported, ImportTypeOK
  <2> DEFINE L == [office.leads EXCEPT ![x] = l]
  <2>5. L \in [SheetKeys -> ImportedLead \cup {NoLead}] BY <2>2, <2>4 DEF Office
  <2>6. L[x] = l /\ \A y \in SheetKeys \ {x} : L[y] = office.leads[y] BY <2>4 DEF Office
  <2>7. office' = [office EXCEPT !.leads = L] BY <2>3
  <2> HIDE DEF L
  <2>8. office' \in Office /\ office'.leads = L BY <2>4, <2>5, <2>7 DEF Office
  <2>9. ImportTypeOK' BY <2>4, <2>8 DEF ImportTypeOK
  <2> QED BY <1>5, <2>2, <2>4, <2>6, <2>8, <2>9 DEF CallImported
<1>6. ASSUME NEW x \in SheetKeys, DeleteImported(x)
      PROVE  /\ ImportTypeOK' /\ raced' = raced \ {x} /\ run' = run
             /\ office'.leads[x] = NoLead
             /\ \A y \in SheetKeys \ {x} : office'.leads[y] = office.leads[y]
  <2> DEFINE Left(k) == IF k = x THEN NoKey ELSE k
             L == [office.leads EXCEPT ![x] = NoLead]
             A == [k \in SheetKeys |-> Left(office.attempts[k])]
             N == [k \in SheetKeys |-> Left(office.notes[k])]
  <2>1. office \in Office BY DEF ImportTypeOK
  <2>2. office' = [office EXCEPT !.leads = L, !.attempts = A, !.notes = N]
    BY <1>6, <2>1 DEF DeleteImported, Office
  <2>3. L \in [SheetKeys -> ImportedLead \cup {NoLead}] BY <2>1 DEF Office
  <2>4. A \in [SheetKeys -> SheetKeys \cup {NoKey}] BY <2>1 DEF Office
  <2>5. N \in [SheetKeys -> SheetKeys \cup {NoKey}] BY <2>1 DEF Office
  <2>6. office' \in Office /\ office'.leads = L
    BY <2>1, <2>2, <2>3, <2>4, <2>5, OfficeAfter
  <2>7. NoHome \in HomeRow BY DEF NoHome, HomeRow, Phone
  <2>8. homes' \in [SheetKeys -> HomeRow]
    BY <1>6, <2>7 DEF DeleteImported, ImportTypeOK, HomeRow
  <2>9. raced' = raced \ {x} /\ strayed' = strayed \ {x} /\ run' = run
    BY <1>6 DEF DeleteImported
  <2>10. L[x] = NoLead /\ \A y \in SheetKeys \ {x} : L[y] = office.leads[y]
    BY <2>1 DEF Office
  <2> QED BY <2>6, <2>8, <2>9, <2>10 DEF ImportTypeOK, HomeRow
<1>7. CASE \E r \in Runs : Analyze(r) BY <1>2, <1>7
<1>8. CASE \E r \in Runs : FailImport(r) BY <1>3, <1>8
<1>9. CASE \E n \in Numbers : LeadElsewhere(n) BY <1>4, <1>9
<1>10. CASE \E x \in SheetKeys : CallImported(x) BY <1>5, <1>10
<1>11. CASE \E x \in SheetKeys : DeleteImported(x) BY <1>6, <1>11
<1> QED BY <1>1, <1>7, <1>8, <1>9, <1>10, <1>11 DEF ImportNext

----------------------------------------------------------------------------
(* BiuroImport: no customer twice *)

\* While nobody else has committed, every lead that is there is in the snapshot.
SnapshotHasTheLeads ==
    \A r \in Runs : run[r].pc = "apply" /\ ~run[r].overlapped =>
        \A x \in SheetKeys : office.leads[x] # NoLead =>
            /\ run[r].seen.leads[x] # NoLead
            /\ run[r].seen.leads[x].phone = office.leads[x].phone

ImportInv == ImportTypeOK /\ SnapshotHasTheLeads /\ OneLeadPerCustomer

LEMMA InitImportInv == ImportInit => ImportInv
<1> SUFFICES ASSUME ImportInit PROVE ImportInv OBVIOUS
<1>1. \A x \in SheetKeys : office.leads[x] = NoLead BY DEF ImportInit, EmptyOffice
<1> QED BY <1>1, InitImportTypes DEF ImportInv, SnapshotHasTheLeads, OneLeadPerCustomer

\* Two heads are two customers.
LEMMA HeadsDiffer ==
    ASSUME NEW s \in Sheet, NEW x \in Heads(s), NEW y \in Heads(s), x # y,
           s[x].phone = s[y].phone
    PROVE  s[x].phone = NoNumber
<1> SUFFICES ASSUME s[x].phone # NoNumber PROVE FALSE OBVIOUS
<1>1. x \in Group(s, y) /\ y \in Group(s, x) BY DEF Group, Heads
<1>2. Earlier(s, x, y) /\ Earlier(s, y, x) BY <1>1 DEF Heads
<1>3. x \in Nat /\ y \in Nat BY SheetAssumption DEF Heads, Rows
<1>4. s[x] \in SheetRow /\ s[y] \in SheetRow
  BY SheetRowsAssumption DEF Sheet, Heads, Rows
<1>5. s[x].day \in Nat /\ s[y].day \in Nat BY <1>4, SheetAssumption DEF SheetRow
<1> QED BY <1>2, <1>3, <1>5 DEF Earlier

LEMMA CommitKeepsCustomers ==
    ASSUME ImportInv, NEW r \in Runs, CommitImport(r)
    PROVE  ImportInv'
<1> DEFINE s == run[r].sheet
           seen == run[r].seen
           applied == Applied(seen, s)
           new == {x \in applied : office.leads[x] = NoLead}
<1>1. ImportTypeOK /\ ImportTypeOK' BY CommitLeads DEF ImportInv
<1>2. s \in Sheet BY <1>1 DEF ImportTypeOK
<1>3. applied \subseteq Heads(s) /\ Heads(s) \subseteq Rows(s) /\ Rows(s) \subseteq SheetKeys
  BY DEF Applied, Heads, Rows
<1>4. raced' = raced \cup {x \in new : run[r].overlapped \/ seen.leads[x] # NoLead}
  BY <1>1, CommitLeads
\* What is new has the phone of the sheet, what was there keeps its own.
<1>5. ASSUME NEW x \in SheetKeys, office'.leads[x] # NoLead
      PROVE  \/ x \in new /\ office'.leads[x].phone = s[x].phone
             \/ /\ x \notin new /\ office.leads[x] # NoLead
                /\ office'.leads[x].phone = office.leads[x].phone
  <2>1. CASE x \notin applied BY <1>1, <1>5, <2>1, CommitLeads
  <2>2. CASE x \in applied
    <3>1. office'.leads[x] = StoredLead(r, seen, s, x) BY <1>1, <2>2, CommitLeads
    <3>2. x \in Rows(s) BY <1>3, <2>2
    <3> QED BY <1>1, <1>2, <2>2, <3>1, <3>2, StoredIsLead
  <2> QED BY <2>1, <2>2
\* A new lead that met nobody has a phone nobody has.
<1>6. ASSUME NEW x \in new, x \notin raced', NEW y \in SheetKeys, y # x,
             office.leads[y] # NoLead, office.leads[y].phone = s[x].phone
      PROVE  s[x].phone = NoNumber
  <2>1. ~run[r].overlapped /\ seen.leads[x] = NoLead BY <1>4, <1>6
  <2>2. ~Taken(seen, s, x) BY <1>6, <2>1 DEF Applied
  <2>3. run[r].pc = "apply" BY DEF CommitImport
  <2>4. seen.leads[y] # NoLead /\ seen.leads[y].phone = office.leads[y].phone
    BY <1>6, <2>1, <2>3 DEF ImportInv, SnapshotHasTheLeads
  <2> QED BY <1>6, <2>2, <2>4 DEF Taken
<1>7. OneLeadPerCustomer'
  <2> SUFFICES ASSUME NEW x \in SheetKeys, NEW y \in SheetKeys, x # y,
                      office'.leads[x] # NoLead, office'.leads[y] # NoLead,
                      office'.leads[x].phone = office'.leads[y].phone,
                      {x, y} \cap raced' = {}
               PROVE  office'.leads[x].phone = NoNumber
    BY DEF OneLeadPerCustomer
  <2>1. x \notin raced' /\ y \notin raced' /\ x \notin raced /\ y \notin raced
    BY <1>4
  <2>2. CASE x \in new /\ y \in new
    <3>1. x \in Heads(s) /\ y \in Heads(s) BY <1>3, <2>2
    <3>2. s[x].phone = s[y].phone /\ office'.leads[x].phone = s[x].phone BY <1>5, <2>2
    <3> HIDE DEF s
    <3> QED BY <1>2, <3>1, <3>2, HeadsDiffer
  <2>3. CASE x \in new /\ y \notin new
    BY <1>5, <1>6, <2>1, <2>3
  <2>4. CASE x \notin new /\ y \in new
    BY <1>5, <1>6, <2>1, <2>4
  <2>5. CASE x \notin new /\ y \notin new
    BY <1>5, <2>1, <2>5 DEF ImportInv, OneLeadPerCustomer
  <2> QED BY <2>2, <2>3, <2>4, <2>5
<1>8. SnapshotHasTheLeads'
  BY <1>1, CommitLeads DEF SnapshotHasTheLeads
<1> QED BY <1>1, <1>7, <1>8 DEF ImportInv

LEMMA NextImportInv == ImportInv /\ [ImportNext]_importVars => ImportInv'
<1> SUFFICES ASSUME ImportInv, [ImportNext]_importVars PROVE ImportInv' OBVIOUS
<1>1. CASE \E r \in Runs : CommitImport(r) BY <1>1, CommitKeepsCustomers
<1>2. CASE \A r \in Runs : ~CommitImport(r)
  <2>1. ImportTypeOK BY DEF ImportInv
  <2>2. ImportTypeOK' BY <1>2, <2>1, ElseLeads
  <2>3. \A x \in SheetKeys : office'.leads[x] # NoLead =>
           /\ office.leads[x] # NoLead /\ office'.leads[x].phone = office.leads[x].phone
           /\ x \in raced => x \in raced'
    BY <1>2, <2>1, ElseLeads
  <2>4. \A q \in Runs : run'[q].pc = "apply" =>
           run'[q] = run[q] \/ (run'[q].seen = office /\ office' = office)
    BY <1>2, <2>1, ElseLeads
  <2>5. OneLeadPerCustomer' BY <2>3 DEF ImportInv, OneLeadPerCustomer
  <2>6. SnapshotHasTheLeads' BY <2>3, <2>4 DEF ImportInv, SnapshotHasTheLeads
  <2> QED BY <2>2, <2>5, <2>6 DEF ImportInv
<1> QED BY <1>1, <1>2

\* However the sheet changes between any number of runs, no customer is imported twice,
\* except by a run that another run or the deletion of its lead overlapped
\* (importer.go:229, 333).
THEOREM CustomersAreImportedOnce == ImportSpec => []OneLeadPerCustomer
<1>1. ImportInv => OneLeadPerCustomer BY DEF ImportInv
<1> QED BY InitImportInv, NextImportInv, <1>1, PTL DEF ImportSpec

----------------------------------------------------------------------------
(* BiuroImport: the journal of a lead is its customer's *)

\* What a lead has in its journal came from rows whose home it is, as long as it has
\* not been applied a row with another home; and a lead is the home of its own row.
EntriesAreHome ==
    \A k, x \in SheetKeys : x \in {office.attempts[k], office.notes[k]} =>
        /\ office.leads[x] # NoLead
        /\ homes[k].lead = x \/ homes[k].astray
        /\ x \notin strayed =>
              homes[k].lead = x /\ homes[k].phone = office.leads[x].phone
LeadsAreHome ==
    \A x \in SheetKeys : office.leads[x] # NoLead /\ x \notin strayed =>
        /\ homes[x].lead = x /\ homes[x].phone = office.leads[x].phone
        /\ office.leads[x].call = "sheet" => \E k \in SheetKeys : office.attempts[k] = x

HomeInv == ImportTypeOK /\ EntriesAreHome /\ LeadsAreHome

LEMMA InitHomeInv == ImportInit => HomeInv
<1> SUFFICES ASSUME ImportInit PROVE HomeInv OBVIOUS
<1>1. \A x \in SheetKeys : /\ office.leads[x] = NoLead
                           /\ office.attempts[x] = NoKey /\ office.notes[x] = NoKey
  BY DEF ImportInit, EmptyOffice
<1> QED BY <1>1, InitImportTypes, SheetAssumption DEF HomeInv, EntriesAreHome, LeadsAreHome

\* A row belongs to one head.
LEMMA OneHead ==
    ASSUME NEW s \in Sheet, NEW x \in Heads(s), NEW y \in Heads(s),
           NEW k \in Group(s, x) \cap Group(s, y)
    PROVE  x = y
<1>1. s[k].phone = s[x].phone /\ s[k].phone = s[y].phone BY DEF Group
<1>2. CASE s[k].phone = NoNumber BY <1>1, <1>2 DEF Group
<1>3. CASE s[k].phone # NoNumber BY <1>1, <1>3, HeadsDiffer
<1> QED BY <1>2, <1>3

\* What a commit does to the entries and the home of row k, which h takes.
Taking(s, k, h) ==
    /\ office'.attempts[k] = Owner(office.attempts[k], h, k \in FirstTalk(s, h))
    /\ office'.notes[k] = Owner(office.notes[k], h, s[k].note)
    /\ homes[k] = NoHome =>
          homes'[k] = [lead |-> h, phone |-> s[k].phone, astray |-> FALSE]
    /\ homes[k] # NoHome =>
          /\ homes'[k].lead = homes[k].lead /\ homes'[k].phone = homes[k].phone
          /\ homes[k].astray \/ homes[k].lead # h \/ homes[k].phone # s[k].phone =>
                homes'[k].astray /\ h \in strayed'

LEMMA CommitEntries ==
    ASSUME ImportTypeOK, NEW r \in Runs, CommitImport(r)
    PROVE  /\ strayed \subseteq strayed'
           /\ \A k \in SheetKeys :
                \/ /\ office'.attempts[k] = office.attempts[k]
                   /\ office'.notes[k] = office.notes[k] /\ homes'[k] = homes[k]
                   /\ \A x \in Applied(run[r].seen, run[r].sheet) :
                         k \notin Group(run[r].sheet, x)
                \/ \E h \in Applied(run[r].seen, run[r].sheet) :
                      k \in Group(run[r].sheet, h) /\ Taking(run[r].sheet, k, h)
<1> DEFINE s == run[r].sheet
           seen == run[r].seen
           applied == Applied(seen, s)
           touched == UNION {Group(s, x) : x \in applied}
           head == [k \in touched |-> CHOOSE x \in applied : k \in Group(s, x)]
           astray == {k \in touched : /\ homes[k] # NoHome
                                      /\ \/ homes[k].astray
                                         \/ homes[k].lead # head[k]
                                         \/ homes[k].phone # s[k].phone}
<1>1. strayed' = strayed \cup {head[k] : k \in astray} BY DEF CommitImport
<1>2. ASSUME NEW k \in SheetKeys
      PROVE  /\ office'.attempts[k] =
                  IF k \notin touched THEN office.attempts[k]
                  ELSE Owner(office.attempts[k], head[k], k \in FirstTalk(s, head[k]))
             /\ office'.notes[k] = IF k \notin touched THEN office.notes[k]
                                   ELSE Owner(office.notes[k], head[k], s[k].note)
             /\ homes'[k] =
                  IF k \notin touched THEN homes[k]
                  ELSE IF homes[k] = NoHome
                       THEN [lead |-> head[k], phone |-> s[k].phone, astray |-> FALSE]
                       ELSE [homes[k] EXCEPT !.astray = k \in astray]
  <2>1. office \in Office BY DEF ImportTypeOK
  <2> QED BY <2>1 DEF CommitImport, Office
<1>3. ASSUME NEW k \in SheetKeys, k \in touched
      PROVE  \E h \in applied : k \in Group(s, h) /\ Taking(s, k, h)
  <2>1. head[k] \in applied /\ k \in Group(s, head[k]) BY <1>3
  <2>2. homes[k] \in HomeRow BY DEF ImportTypeOK, HomeRow
  <2>3. ASSUME homes[k] # NoHome
        PROVE  /\ homes'[k].lead = homes[k].lead /\ homes'[k].phone = homes[k].phone
               /\ homes'[k].astray = (k \in astray)
    <3>1. homes'[k] = [homes[k] EXCEPT !.astray = k \in astray] BY <1>2, <1>3, <2>3
    <3> HIDE DEF astray
    <3> QED BY <2>2, <3>1 DEF HomeRow
  <2>4. ASSUME homes[k] # NoHome,
               homes[k].astray \/ homes[k].lead # head[k] \/ homes[k].phone # s[k].phone
        PROVE  homes'[k].astray /\ head[k] \in strayed'
    <3>1. k \in astray BY <1>3, <2>4
    <3> HIDE DEF astray, head
    <3>2. homes'[k].astray BY <2>3, <2>4, <3>1
    <3>3. head[k] \in strayed' BY <1>1, <3>1
    <3> QED BY <3>2, <3>3
  <2>5. Taking(s, k, head[k])
    <3> HIDE DEF astray, head
    <3> QED BY <1>2, <1>3, <2>3, <2>4 DEF Taking
  <2> QED BY <2>1, <2>5
<1>4. ASSUME NEW k \in SheetKeys, k \notin touched
      PROVE  /\ office'.attempts[k] = office.attempts[k]
             /\ office'.notes[k] = office.notes[k] /\ homes'[k] = homes[k]
             /\ \A x \in applied : k \notin Group(s, x)
  BY <1>2, <1>4
<1> QED BY <1>1, <1>3, <1>4

LEMMA CommitKeepsHomes ==
    ASSUME HomeInv, NEW r \in Runs, CommitImport(r)
    PROVE  HomeInv'
<1> DEFINE s == run[r].sheet
           seen == run[r].seen
           applied == Applied(seen, s)
<1>1. ImportTypeOK /\ ImportTypeOK' BY CommitLeads DEF HomeInv
<1>2. s \in Sheet BY <1>1 DEF ImportTypeOK
<1>3. applied \subseteq Heads(s) /\ Heads(s) \subseteq Rows(s) /\ Rows(s) \subseteq SheetKeys
  BY DEF Applied, Heads, Rows
<1>4. strayed \subseteq strayed' BY <1>1, CommitEntries
<1>5. \A k \in SheetKeys :
         \/ /\ office'.attempts[k] = office.attempts[k]
            /\ office'.notes[k] = office.notes[k] /\ homes'[k] = homes[k]
            /\ \A x \in applied : k \notin Group(s, x)
         \/ \E h \in applied : k \in Group(s, h) /\ Taking(s, k, h)
  BY <1>1, CommitEntries
<1>6. \A x \in applied : x \in Group(s, x)
  BY <1>3 DEF Group, Rows
<1>7. \A x \in applied : \A k \in Group(s, x) : k \in SheetKeys /\ Taking(s, k, x)
  <2> SUFFICES ASSUME NEW x \in applied, NEW k \in Group(s, x)
               PROVE  k \in SheetKeys /\ Taking(s, k, x)
    OBVIOUS
  <2>1. k \in SheetKeys BY <1>3 DEF Group, Rows
  <2>2. PICK h \in applied : k \in Group(s, h) /\ Taking(s, k, h) BY <1>5, <2>1
  <2>3. h = x
    <3> HIDE DEF s, applied
    <3> QED BY <1>2, <1>3, <2>2, OneHead
  <2> QED BY <2>1, <2>2, <2>3
\* Leads only come, and keep their phones.
<1>8. \A x \in SheetKeys :
         office'.leads[x] = IF x \in applied THEN StoredLead(r, seen, s, x) ELSE office.leads[x]
  BY <1>1, CommitLeads
<1>9. ASSUME NEW x \in SheetKeys, office.leads[x] # NoLead
      PROVE  office'.leads[x] # NoLead /\ office'.leads[x].phone = office.leads[x].phone
  <2>1. CASE x \notin applied BY <1>8, <1>9, <2>1
  <2>2. CASE x \in applied
    <3>1. office.leads[x] \in ImportedLead BY <1>1, <1>9 DEF ImportTypeOK, Office
    <3>2. StoredLead(r, seen, s, x) \in
             {office.leads[x], [office.leads[x] EXCEPT !.call = "sheet"]}
      BY <1>9 DEF StoredLead
    <3>3. StoredLead(r, seen, s, x) \in ImportedLead BY <3>1, <3>2 DEF ImportedLead
    <3>4. StoredLead(r, seen, s, x).phone = office.leads[x].phone
      BY <3>1, <3>2 DEF ImportedLead
    <3> QED BY <1>8, <2>2, <3>3, <3>4, NoLeadAssumption
  <2> QED BY <2>1, <2>2
<1>10. ASSUME NEW x \in applied
       PROVE  /\ office'.leads[x] # NoLead
              /\ office.leads[x] = NoLead => office'.leads[x].phone = s[x].phone
  <2>1. x \in SheetKeys /\ x \in Rows(s) BY <1>3
  <2>2. CASE office.leads[x] # NoLead BY <1>9, <2>1, <2>2
  <2>3. CASE office.leads[x] = NoLead
    <3> DEFINE called == IF Reached(s, x) THEN "sheet" ELSE "none"
    <3>1. called \in {"none", "sheet", "crm"} OBVIOUS
    <3>2. StoredLead(r, seen, s, x) = [phone |-> s[x].phone, call |-> called, by |-> r]
      BY <2>3 DEF StoredLead
    <3>3. s[x].phone \in Phone
      BY <1>2, <2>1, SheetRowsAssumption DEF Sheet, Rows, SheetRow
    <3> HIDE DEF called, s, seen
    <3>4. StoredLead(r, seen, s, x) \in ImportedLead BY <3>1, <3>2, <3>3 DEF ImportedLead
    <3> QED BY <1>8, <2>1, <3>2, <3>4, NoLeadAssumption
  <2> QED BY <2>2, <2>3
\* A lead with a home of its own has the phone of its customer.
<1>11. ASSUME NEW x \in applied, x \notin strayed'
       PROVE  /\ office'.leads[x].phone = s[x].phone
              /\ \A k \in Group(s, x) : homes'[k].lead = x /\ homes'[k].phone = s[x].phone
  <2>1. \A k \in Group(s, x) : homes'[k].lead = x /\ homes'[k].phone = s[k].phone
    <3> SUFFICES ASSUME NEW k \in Group(s, x)
                 PROVE  homes'[k].lead = x /\ homes'[k].phone = s[k].phone
      OBVIOUS
    <3>1. Taking(s, k, x) BY <1>7
    <3> QED BY <1>11, <3>1 DEF Taking
  <2>2. \A k \in Group(s, x) : s[k].phone = s[x].phone BY DEF Group
  <2>3. CASE office.leads[x] = NoLead BY <1>10, <2>1, <2>2, <2>3
  <2>4. CASE office.leads[x] # NoLead
    <3>1. x \in SheetKeys /\ x \notin strayed BY <1>3, <1>4, <1>11
    <3>2. homes[x].lead = x /\ homes[x].phone = office.leads[x].phone
      BY <2>4, <3>1 DEF HomeInv, LeadsAreHome
    <3>3. homes[x] # NoHome BY <3>1, <3>2, SheetAssumption DEF NoHome
    <3>4. Taking(s, x, x) BY <1>6, <1>7
    <3>5. homes'[x].phone = homes[x].phone BY <3>3, <3>4 DEF Taking
    <3>6. homes'[x].phone = s[x].phone BY <1>6, <2>1
    <3> QED BY <1>9, <2>1, <2>2, <2>4, <3>1, <3>2, <3>5, <3>6
  <2> QED BY <2>3, <2>4
\* An entry stays where it is, and a row keeps its home.
<1>12. ASSUME NEW k \in SheetKeys
       PROVE  /\ office.attempts[k] # NoKey => office'.attempts[k] = office.attempts[k]
              /\ office.notes[k] # NoKey => office'.notes[k] = office.notes[k]
              /\ homes[k] # NoHome => homes'[k].lead = homes[k].lead
                                      /\ homes'[k].phone = homes[k].phone
              /\ homes[k].astray => homes'[k].astray
  <2>1. CASE homes'[k] = homes[k] /\ office'.attempts[k] = office.attempts[k]
             /\ office'.notes[k] = office.notes[k]
    BY <2>1
  <2>2. ASSUME NEW h \in applied, Taking(s, k, h)
        PROVE  /\ office.attempts[k] # NoKey => office'.attempts[k] = office.attempts[k]
               /\ office.notes[k] # NoKey => office'.notes[k] = office.notes[k]
               /\ homes[k] # NoHome => homes'[k].lead = homes[k].lead
                                       /\ homes'[k].phone = homes[k].phone
               /\ homes[k].astray => homes'[k].astray
    BY <2>2 DEF Taking, Owner, NoHome
  <2> QED BY <1>5, <2>1, <2>2
<1>13. EntriesAreHome'
  <2> SUFFICES ASSUME NEW k \in SheetKeys, NEW x \in SheetKeys,
                      x \in {office'.attempts[k], office'.notes[k]}
               PROVE  /\ office'.leads[x] # NoLead
                      /\ homes'[k].lead = x \/ homes'[k].astray
                      /\ x \notin strayed' =>
                            homes'[k].lead = x /\ homes'[k].phone = office'.leads[x].phone
    BY DEF EntriesAreHome
  <2>1. CASE x \in {office.attempts[k], office.notes[k]}
    <3>1. /\ office.leads[x] # NoLead
          /\ homes[k].lead = x \/ homes[k].astray
          /\ x \notin strayed =>
                homes[k].lead = x /\ homes[k].phone = office.leads[x].phone
      BY <2>1 DEF HomeInv, EntriesAreHome
    <3>2. homes[k] # NoHome BY <3>1, SheetAssumption DEF NoHome
    <3> QED BY <1>4, <1>9, <1>12, <3>1, <3>2
  <2>2. CASE x \notin {office.attempts[k], office.notes[k]}
    <3>1. PICK h \in applied : k \in Group(s, h) /\ Taking(s, k, h) BY <1>5, <2>2
    <3>2. h = x BY <2>2, <3>1 DEF Taking, Owner
    <3>3. s[k].phone = s[x].phone BY <3>1, <3>2 DEF Group
    <3>4. homes'[k].lead = x \/ homes'[k].astray BY <3>1, <3>2 DEF Taking
    <3> QED BY <1>10, <1>11, <3>1, <3>2, <3>4
  <2> QED BY <2>1, <2>2
<1>14. LeadsAreHome'
  <2> SUFFICES ASSUME NEW x \in SheetKeys, office'.leads[x] # NoLead, x \notin strayed'
               PROVE  /\ homes'[x].lead = x /\ homes'[x].phone = office'.leads[x].phone
                      /\ office'.leads[x].call = "sheet" =>
                            \E k \in SheetKeys : office'.attempts[k] = x
    BY DEF LeadsAreHome
  <2>1. ASSUME office.leads[x] # NoLead
        PROVE  /\ homes'[x].lead = x /\ homes'[x].phone = office'.leads[x].phone
               /\ office.leads[x].call = "sheet" =>
                     \E k \in SheetKeys : office'.attempts[k] = x
    <3>1. /\ homes[x].lead = x /\ homes[x].phone = office.leads[x].phone
          /\ office.leads[x].call = "sheet" => \E k \in SheetKeys : office.attempts[k] = x
      BY <1>4, <2>1 DEF HomeInv, LeadsAreHome
    <3>2. homes[x] # NoHome BY <3>1, SheetAssumption DEF NoHome
    <3>3. \A k \in SheetKeys : office.attempts[k] = x => office'.attempts[k] = x
      BY <1>12, SheetAssumption
    <3> QED BY <1>9, <1>12, <2>1, <3>1, <3>2, <3>3
  <2>2. CASE x \notin applied BY <1>8, <2>1, <2>2
  <2>3. CASE x \in applied
    <3>1. homes'[x].lead = x /\ homes'[x].phone = office'.leads[x].phone
      BY <1>6, <1>11, <2>3
    <3>2. ASSUME Reached(s, x)
          PROVE  \E k \in SheetKeys : office'.attempts[k] = x
      <4>1. PICK k : k \in FirstTalk(s, x) BY <3>2 DEF Reached
      <4>2. k \in Group(s, x) BY <4>1 DEF FirstTalk, Talkers
      <4>3. k \in SheetKeys /\ Taking(s, k, x) BY <1>7, <2>3, <4>2
      <4>4. CASE office.attempts[k] = NoKey
        BY <4>1, <4>3, <4>4 DEF Taking, Owner
      <4>5. CASE office.attempts[k] # NoKey
        <5> DEFINE z == office.attempts[k]
        <5>1. z \in SheetKeys /\ office'.attempts[k] = z
          BY <1>1, <1>12, <4>3, <4>5 DEF ImportTypeOK, Office
        <5>2. homes[k].lead = z \/ homes[k].astray
          BY <4>3, <5>1 DEF HomeInv, EntriesAreHome
        <5>3. homes[k] # NoHome BY <5>1, <5>2, SheetAssumption DEF NoHome
        <5>4. ~homes[k].astray /\ homes[k].lead = x BY <4>3, <5>3 DEF Taking
        <5> QED BY <4>3, <5>1, <5>2, <5>4
      <4> QED BY <4>4, <4>5
    <3>3. CASE Reached(s, x) BY <3>1, <3>2, <3>3
    <3>4. CASE ~Reached(s, x)
      <4>1. CASE office.leads[x] = NoLead
        <5>1. StoredLead(r, seen, s, x) = [phone |-> s[x].phone, call |-> "none", by |-> r]
          BY <3>4, <4>1 DEF StoredLead
        <5> HIDE DEF s, seen, applied
        <5>2. office'.leads[x].call = "none" BY <1>8, <2>3, <5>1
        <5> QED BY <3>1, <5>2
      <4>2. CASE office.leads[x] # NoLead
        <5>1. office'.leads[x] = office.leads[x] BY <1>8, <2>3, <3>4, <4>2 DEF StoredLead
        <5> QED BY <2>1, <3>1, <4>2, <5>1
      <4> QED BY <4>1, <4>2
    <3> QED BY <3>3, <3>4
  <2> QED BY <2>2, <2>3
<1> QED BY <1>1, <1>13, <1>14 DEF HomeInv

LEMMA NextHomeInv == HomeInv /\ [ImportNext]_importVars => HomeInv'
<1> SUFFICES ASSUME HomeInv, [ImportNext]_importVars PROVE HomeInv' OBVIOUS
<1>1. CASE \E r \in Runs : CommitImport(r) BY <1>1, CommitKeepsHomes
<1>2. CASE \A r \in Runs : ~CommitImport(r)
  <2>1. ImportTypeOK' /\ ImportTypeOK BY <1>2, ElseLeads DEF HomeInv
  <2>2. ASSUME office'.leads = office.leads, office'.attempts = office.attempts,
               office'.notes = office.notes, UNCHANGED <<homes, strayed>>
        PROVE  HomeInv'
    BY <2>1, <2>2 DEF HomeInv, EntriesAreHome, LeadsAreHome
  <2>3. CASE UNCHANGED importVars BY <2>2, <2>3 DEF importVars
  <2>4. CASE \E r \in Runs : Analyze(r) \/ FailImport(r)
    BY <2>2, <2>4 DEF Analyze, FailImport
  <2>5. CASE \E n \in Numbers : LeadElsewhere(n)
    BY <2>1, <2>2, <2>5 DEF LeadElsewhere, ImportTypeOK, Office
  <2>6. ASSUME NEW x \in SheetKeys, CallImported(x)
        PROVE  HomeInv'
    <3>1. office.leads[x] \in ImportedLead /\ office \in Office
      BY <2>1, <2>6 DEF CallImported, ImportTypeOK, Office
    <3> DEFINE l == [office.leads[x] EXCEPT !.call = "crm"]
    <3>2. l \in ImportedLead /\ l.phone = office.leads[x].phone /\ l.call = "crm"
      BY <3>1 DEF ImportedLead
    <3>3. /\ office'.leads = [office.leads EXCEPT ![x] = l]
          /\ office'.attempts = office.attempts /\ office'.notes = office.notes
      BY <2>6, <3>1 DEF CallImported, Office
    <3> HIDE DEF l
    <3>4. office'.leads[x] = l /\ \A y \in SheetKeys \ {x} : office'.leads[y] = office.leads[y]
      BY <3>1, <3>3 DEF Office
    <3>5. office.leads[x] # NoLead /\ UNCHANGED <<homes, strayed>> BY <2>6 DEF CallImported
    <3>6. l # NoLead BY <3>2, NoLeadAssumption
    <3>7. EntriesAreHome' BY <3>2, <3>3, <3>4, <3>5, <3>6 DEF HomeInv, EntriesAreHome
    <3>8. LeadsAreHome' BY <3>2, <3>3, <3>4, <3>5, <3>6 DEF HomeInv, LeadsAreHome
    <3> QED BY <2>1, <3>7, <3>8 DEF HomeInv
  <2>7. ASSUME NEW x \in SheetKeys, DeleteImported(x)
        PROVE  HomeInv'
    <3>1. office \in Office BY <2>1 DEF ImportTypeOK
    <3>2. /\ office'.leads[x] = NoLead
          /\ \A y \in SheetKeys \ {x} : office'.leads[y] = office.leads[y]
          /\ \A k \in SheetKeys :
                /\ office'.attempts[k] =
                      IF office.attempts[k] = x THEN NoKey ELSE office.attempts[k]
                /\ office'.notes[k] = IF office.notes[k] = x THEN NoKey ELSE office.notes[k]
      BY <2>7, <3>1 DEF DeleteImported, Office
    <3>3. /\ strayed' = strayed \ {x}
          /\ \A k \in SheetKeys : homes'[k] = IF homes[k].lead = x /\ ~homes[k].astray
                                              THEN NoHome ELSE homes[k]
      BY <2>7 DEF DeleteImported
    <3>4. x # NoKey BY SheetAssumption
    <3>5. EntriesAreHome'
      <4> SUFFICES ASSUME NEW k \in SheetKeys, NEW y \in SheetKeys,
                          y \in {office'.attempts[k], office'.notes[k]}
                   PROVE  /\ office'.leads[y] # NoLead
                          /\ homes'[k].lead = y \/ homes'[k].astray
                          /\ y \notin strayed' => /\ homes'[k].lead = y
                                                  /\ homes'[k].phone = office'.leads[y].phone
        BY DEF EntriesAreHome
      <4>1. y # x /\ y \in {office.attempts[k], office.notes[k]}
        BY <3>2, <3>4, SheetAssumption
      <4>2. /\ office.leads[y] # NoLead
            /\ homes[k].lead = y \/ homes[k].astray
            /\ y \notin strayed =>
                  homes[k].lead = y /\ homes[k].phone = office.leads[y].phone
        BY <4>1 DEF HomeInv, EntriesAreHome
      <4>3. homes'[k] = homes[k] BY <3>3, <4>1, <4>2
      <4> QED BY <3>2, <3>3, <4>1, <4>2, <4>3
    <3>6. LeadsAreHome'
      <4> SUFFICES ASSUME NEW y \in SheetKeys, office'.leads[y] # NoLead, y \notin strayed'
                   PROVE  /\ homes'[y].lead = y /\ homes'[y].phone = office'.leads[y].phone
                          /\ office'.leads[y].call = "sheet" =>
                                \E k \in SheetKeys : office'.attempts[k] = y
        BY DEF LeadsAreHome
      <4>1. y # x /\ office'.leads[y] = office.leads[y] /\ y \notin strayed
        BY <3>2, <3>3
      <4>2. /\ homes[y].lead = y /\ homes[y].phone = office.leads[y].phone
            /\ office.leads[y].call = "sheet" => \E k \in SheetKeys : office.attempts[k] = y
        BY <4>1 DEF HomeInv, LeadsAreHome
      <4>3. homes'[y] = homes[y] BY <3>3, <4>1, <4>2
      <4>4. \A k \in SheetKeys : office.attempts[k] = y => office'.attempts[k] = y
        BY <3>2, <4>1
      <4> QED BY <4>1, <4>2, <4>3, <4>4
    <3> QED BY <2>1, <3>5, <3>6 DEF HomeInv
  <2>8. CASE \E x \in SheetKeys : CallImported(x) BY <2>6, <2>8
  <2>9. CASE \E x \in SheetKeys : DeleteImported(x) BY <2>7, <2>9
  <2> QED BY <1>2, <2>3, <2>4, <2>5, <2>8, <2>9 DEF ImportNext
<1> QED BY <1>1, <1>2

\* For any number of rows, runs and deletions: a lead has the comments and calls of its
\* own customer, and is marked as reached only with the call that says so, unless it was
\* applied a row that had another home (importer.go:420, 448).
THEOREM JournalsAreOfTheirCustomers == ImportSpec => []JournalIsOfTheCustomer
<1>1. HomeInv => JournalIsOfTheCustomer
  BY DEF HomeInv, EntriesAreHome, LeadsAreHome, JournalIsOfTheCustomer
<1> QED BY InitHomeInv, NextHomeInv, <1>1, PTL DEF ImportSpec

=============================================================================
