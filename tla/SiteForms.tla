----------------------------- MODULE SiteForms ------------------------------
(***************************************************************************)
(* Lead forms of the public sites: POST /v1/sites/{site}/leads stores the  *)
(* lead, the submission that remembers its idempotency key, and the        *)
(* notifications, in one read committed transaction                        *)
(* (internal/submissions/service.go).                                      *)
(*                                                                         *)
(* A browser retries a form with its key, so requests with one key race    *)
(* each other and a super admin who deletes the lead.  Rows are named      *)
(* after the request that inserted them.  The two inserts are on conflict  *)
(* do nothing: they wait for a transaction that is inserting the same key. *)
(***************************************************************************)
EXTENDS Naturals

CONSTANTS
    Requests,      \* one-shot HTTP requests
    Keys,          \* idempotency keys of one site
    None

ASSUME NoneAssumption == None \notin Requests \cup Keys

VARIABLES
    lead,          \* lead[k]: the row of public.leads with the external id of k
    submission,    \* submission[k]: the row of public.lead_submissions
    inserting,     \* inserting[k]: who holds an uncommitted lead of k
    submitting,    \* submitting[k]: who holds an uncommitted submission of k
    pc,            \* pc[t]: the next statement of t
    key,           \* key[t]: its idempotency key
    found,         \* found[t]: the lead it inserted or found
    answer,        \* answer[t]
    reply,         \* reply[t]: the submission and the lead in its response
    enqueued,      \* history: times Enqueue committed for k (capped at 2)
    deleted        \* history: keys whose lead was deleted

rows == <<lead, submission>>
locks == <<inserting, submitting>>
history == <<enqueued, deleted>>
vars == <<rows, locks, pc, key, found, answer, reply, history>>

Submission == [id : Requests, lead : Requests \cup {None}]
NoSubmission == [id |-> None, lead |-> None]

TypeOK ==
    /\ lead \in [Keys -> Requests \cup {None}]
    /\ submission \in [Keys -> Submission \cup {NoSubmission}]
    /\ inserting \in [Keys -> Requests \cup {None}]
    /\ submitting \in [Keys -> Requests \cup {None}]
    /\ pc \in [Requests -> {"new", "lookup", "insert", "select", "submit", "commit",
                            "done"}]
    /\ key \in [Requests -> Keys \cup {None}]
    /\ found \in [Requests -> Requests \cup {None}]
    /\ answer \in [Requests -> {"none", "accepted", "conflict", "error"}]
    /\ reply \in [Requests -> [id : Requests, lead : Requests] \cup {NoSubmission}]
    /\ enqueued \in [Keys -> 0..2]
    /\ deleted \in SUBSET Keys

Init ==
    /\ lead = [k \in Keys |-> None]
    /\ submission = [k \in Keys |-> NoSubmission]
    /\ inserting = [k \in Keys |-> None] /\ submitting = [k \in Keys |-> None]
    /\ pc = [t \in Requests |-> "new"]
    /\ key = [t \in Requests |-> None]
    /\ found = [t \in Requests |-> None]
    /\ answer = [t \in Requests |-> "none"]
    /\ reply = [t \in Requests |-> NoSubmission]
    /\ enqueued = [k \in Keys |-> 0] /\ deleted = {}

----------------------------------------------------------------------------
Goto(t, step) == pc' = [pc EXCEPT ![t] = step]
Release(t) ==
    /\ inserting' = [k \in Keys |-> IF inserting[k] = t THEN None ELSE inserting[k]]
    /\ submitting' = [k \in Keys |-> IF submitting[k] = t THEN None ELSE submitting[k]]

\* The transaction, if any, ends and the handler answers.
Finish(t, how, with) ==
    /\ Goto(t, "done")
    /\ Release(t)
    /\ answer' = [answer EXCEPT ![t] = how]
    /\ reply' = [reply EXCEPT ![t] = with]
    /\ UNCHANGED key

\* replay: the submission of this key, unless its lead is gone
Replay(t) ==
    LET existing == submission[key[t]]
    IN IF existing.lead = None
       THEN Finish(t, "conflict", NoSubmission)
       ELSE Finish(t, "accepted", existing)

Stored(k) == submission[k] # NoSubmission

Arrive(t, k) ==
    /\ pc[t] = "new"
    /\ key' = [key EXCEPT ![t] = k]
    /\ Goto(t, "lookup")
    /\ UNCHANGED <<rows, locks, found, answer, reply, history>>

\* findByIdempotency, before the transaction
Lookup(t) ==
    /\ pc[t] = "lookup"
    /\ IF Stored(key[t])
       THEN Replay(t)
       ELSE Goto(t, "insert") /\ UNCHANGED <<locks, key, answer, reply>>
    /\ UNCHANGED <<rows, found, history>>

\* insert into leads on conflict do nothing returning id
InsertLead(t) ==
    /\ pc[t] = "insert" /\ inserting[key[t]] = None
    /\ IF lead[key[t]] = None
       THEN /\ inserting' = [inserting EXCEPT ![key[t]] = t]
            /\ found' = [found EXCEPT ![t] = t]
            /\ Goto(t, "submit")
       ELSE /\ Goto(t, "select")
            /\ UNCHANGED <<inserting, found>>
    /\ UNCHANGED <<rows, submitting, key, answer, reply, history>>

\* The lead that was in the way: it may be deleted by now.
SelectLead(t) ==
    /\ pc[t] = "select"
    /\ IF lead[key[t]] = None
       THEN Finish(t, "error", NoSubmission) /\ UNCHANGED found
       ELSE /\ found' = [found EXCEPT ![t] = lead[key[t]]]
            /\ Goto(t, "submit")
            /\ UNCHANGED <<locks, key, answer, reply>>
    /\ UNCHANGED <<rows, history>>

\* insert into lead_submissions on conflict do nothing; in a conflict everything
\* is rolled back and the submission that was there is replayed.
\* Mutated forms (Bad..., Hasty...): plausible bugs for the mutation runs.
BadInsertSubmission(t) ==
    /\ pc[t] = "submit" /\ submitting[key[t]] = None
    /\ submitting' = [submitting EXCEPT ![key[t]] = t]
    /\ Goto(t, "commit")
    /\ UNCHANGED <<rows, inserting, key, found, answer, reply, history>>
HastyInsertSubmission(t) ==
    /\ pc[t] = "submit" /\ submitting[key[t]] = None
    /\ IF Stored(key[t])
       THEN Finish(t, "accepted", [id |-> t, lead |-> found[t]])
       ELSE /\ submitting' = [submitting EXCEPT ![key[t]] = t]
            /\ Goto(t, "commit")
            /\ UNCHANGED <<inserting, key, answer, reply>>
    /\ UNCHANGED <<rows, found, history>>
InsertSubmission(t) ==
    /\ pc[t] = "submit" /\ submitting[key[t]] = None
    /\ CASE Stored(key[t]) -> Replay(t)
         [] ~Stored(key[t]) /\ found[t] \in {t, lead[key[t]]} ->
              /\ submitting' = [submitting EXCEPT ![key[t]] = t]
              /\ Goto(t, "commit")
              /\ UNCHANGED <<inserting, key, answer, reply>>
         [] OTHER -> Finish(t, "error", NoSubmission)   \* the foreign key
    /\ UNCHANGED <<rows, found, history>>

\* Enqueue for a lead that was inserted, then the commit, whose answer may be lost.
Commit(t) ==
    LET k == key[t] mine == [id |-> t, lead |-> found[t]]
    IN /\ pc[t] = "commit"
       /\ submission' = [submission EXCEPT ![k] = mine]
       /\ lead' = [lead EXCEPT ![k] = found[t]]
       /\ enqueued' = [enqueued EXCEPT ![k] = IF found[t] = t /\ @ < 2 THEN @ + 1 ELSE @]
       /\ \/ Finish(t, "accepted", mine)
          \/ Finish(t, "error", NoSubmission)
       /\ UNCHANGED <<found, deleted>>

\* A database error, a lock timeout, a browser or a process that goes away.
Abort(t) ==
    /\ pc[t] \notin {"new", "done"}
    /\ Finish(t, "error", NoSubmission)
    /\ UNCHANGED <<rows, found, history>>

\* handleDeleteLead; the submission stays, on delete set null.  A submission that
\* is being inserted for the lead keeps it locked.
DeleteLead(k) ==
    /\ lead[k] # None
    /\ submitting[k] # None => found[submitting[k]] # lead[k]
    /\ lead' = [lead EXCEPT ![k] = None]
    /\ submission' = [submission EXCEPT ![k].lead = None]
    /\ deleted' = deleted \cup {k}
    /\ UNCHANGED <<locks, pc, key, found, answer, reply, enqueued>>

----------------------------------------------------------------------------
Next ==
    \/ \E t \in Requests :
        \/ \E k \in Keys : Arrive(t, k)
        \/ Lookup(t) \/ InsertLead(t) \/ SelectLead(t) \/ InsertSubmission(t)
        \/ Commit(t) \/ Abort(t)
    \/ \E k \in Keys : DeleteLead(k)

Spec == Init /\ [][Next]_vars

----------------------------------------------------------------------------
(* Properties *)

\* However often a form is retried, and whether its retries race or follow each
\* other, every accepted answer names the same submission and the same lead.
SameAnswer ==
    \A t, u \in Requests :
        answer[t] = "accepted" /\ answer[u] = "accepted" /\ key[t] = key[u]
            => reply[t] = reply[u]

\* The office is notified once per form, and only of a lead it can open: the
\* notification commits with the lead (service.go:137).
NotifiedOnce ==
    \A k \in Keys : /\ enqueued[k] <= 1
                    /\ lead[k] # None => enqueued[k] = 1 /\ submission[k].lead = lead[k]

\* A retry that started before a super admin deleted the lead does not bring it
\* back, although the lead's own unique key is free again.
DeletedStaysDeleted == [][\A k \in Keys : k \in deleted => lead'[k] = None]_vars

----------------------------------------------------------------------------
(* Refinement of Once *)

\* The work of a key is a submission and the lead that the same request inserted,
\* which may be deleted since.
FormsStored ==
    [k \in Keys |-> IF Stored(k)
                    THEN {[id |-> submission[k].id, lead |-> found[submission[k].id]]}
                    ELSE {}]
FormsTold == [t \in Requests |-> IF answer[t] = "accepted" THEN {reply[t]} ELSE {}]

Form == INSTANCE Once WITH Results <- {[id |-> t, lead |-> t] : t \in Requests},
                           NoKey <- None, done <- FormsStored, told <- FormsTold

\* A form is stored once however its retries race, no answer of an earlier try is
\* contradicted by a later one, and nothing that was stored is stored again, whatever
\* is deleted or breaks off (service.go:64).
FormsAreOnce == Form!Spec

=============================================================================
