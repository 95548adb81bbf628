----------------------------- MODULE MetaInbox -----------------------------
(***************************************************************************)
(* The Meta Lead Ads inbox: rows of public.meta_lead_events, written by    *)
(* the webhook and by the reconciliation of Graph API forms, and the event *)
(* loop that claims an event, fetches the lead and upserts it in the CRM   *)
(* (internal/metaleads).                                                   *)
(*                                                                         *)
(* A leadgen is one form submission on Meta.  A Worker is the event loop   *)
(* of one API process; two of them run during a deployment.  Meta delivers *)
(* a webhook late, several times, or never.  As in Notifications a claim   *)
(* token is the name of the worker that wrote it and time is "due" and     *)
(* "expired".                                                              *)
(***************************************************************************)
EXTENDS Naturals, FiniteSets

CONSTANTS
    Workers,       \* event loops, one per API process
    Leadgens,      \* submissions; the order they are claimed in is left open
    Old,           \* submissions older than META_INGEST_AFTER
    Foreign,       \* submissions on a page the first deployment does not know
    BatchSize,     \* events processed by one processAvailable
    MaxAttempts,   \* maxAttempts
    MaxFaults,     \* bound: crashes, stalls, database and permanent Graph errors
    MaxOutages,    \* bound: outages of the Graph API
    Nobody         \* a claim_token that is null, a worker without an event

ASSUME LeadgensAssumption == /\ Old \subseteq Leadgens
                             /\ Foreign \subseteq Leadgens
ASSUME LimitsAssumption == /\ BatchSize \in Nat \ {0}
                           /\ MaxAttempts \in Nat \ {0}
                           /\ MaxFaults \in Nat
                           /\ MaxOutages \in Nat
ASSUME NobodyAssumption == Nobody \notin Workers \cup Leadgens

VARIABLES
    submitted,    \* the submissions that exist on Meta
    known,        \* the page of the Foreign submissions is configured
    graph,        \* the Graph API answers and the page token is valid
    outages,      \* outages so far, at most MaxOutages
    status,       \* status[e]: "none" before the insert
    complete,     \* events whose payload carries the lead (reconciliation)
    attempts,     \* attempts[e]
    due,          \* due[e]: next_attempt_at <= now()
    claim,        \* claim[e]: claim_token
    expired,      \* events claimed more than five minutes ago
    lead,         \* lead[e]: the row of public.leads for this submission
    pc,           \* pc[w]: where the event loop of w is
    retries,      \* retries[w]: this batch takes events in status retry too
    count,        \* count[w]: events processed by this batch
    job,          \* job[w]: the claimed event
    seen,         \* seen[w]: event.Attempts, read by the claim
    wake,         \* wake[w]: the wake channel holds its token
    faults,       \* faults spent, at most MaxFaults
    notified,     \* history: times Enqueue ran for the submission (capped at 2)
    deleted,      \* history: submissions whose lead was deleted once
    stalled       \* history: events whose claim expired under a live holder

metaVars == <<submitted, known, graph, outages>>
inboxVars == <<status, complete, attempts, due, claim, expired>>
crmVars == <<lead, notified, deleted>>
loopVars == <<pc, retries, count, job, seen>>
vars == <<metaVars, inboxVars, crmVars, loopVars, wake, faults, stalled>>

Statuses == {"none", "pending", "processing", "retry",
             "processed", "ignored", "dead_letter"}
Settled == {"processed", "ignored", "dead_letter"}
Phases == {"down", "idle", "batch", "claimed", "fetched", "failing", "dying"}

TypeOK ==
    /\ submitted \in SUBSET Leadgens
    /\ known \in BOOLEAN
    /\ graph \in BOOLEAN
    /\ outages \in 0..MaxOutages
    /\ status \in [Leadgens -> Statuses]
    /\ complete \in SUBSET Leadgens
    /\ attempts \in [Leadgens -> 0..MaxAttempts]
    /\ due \in [Leadgens -> BOOLEAN]
    /\ claim \in [Leadgens -> Workers \cup {Nobody}]
    /\ expired \in SUBSET Leadgens
    /\ lead \in [Leadgens -> {"none", "present", "deleted"}]
    /\ pc \in [Workers -> Phases]
    /\ retries \in [Workers -> BOOLEAN]
    /\ count \in [Workers -> 0..BatchSize]
    /\ job \in [Workers -> Leadgens \cup {Nobody}]
    /\ seen \in [Workers -> 0..(MaxAttempts - 1)]
    /\ wake \in [Workers -> BOOLEAN]
    /\ faults \in 0..MaxFaults
    /\ notified \in [Leadgens -> 0..2]
    /\ deleted \in SUBSET Leadgens
    /\ stalled \in SUBSET Leadgens

Init ==
    /\ submitted = {} /\ known = FALSE /\ graph = TRUE /\ outages = 0
    /\ status = [e \in Leadgens |-> "none"]
    /\ complete = {}
    /\ attempts = [e \in Leadgens |-> 0]
    /\ due = [e \in Leadgens |-> TRUE]
    /\ claim = [e \in Leadgens |-> Nobody]
    /\ expired = {}
    /\ lead = [e \in Leadgens |-> "none"]
    /\ pc = [w \in Workers |-> "down"]
    /\ retries = [w \in Workers |-> FALSE]
    /\ count = [w \in Workers |-> 0]
    /\ job = [w \in Workers |-> Nobody]
    /\ seen = [w \in Workers |-> 0]
    /\ wake = [w \in Workers |-> FALSE]
    /\ faults = 0
    /\ notified = [e \in Leadgens |-> 0]
    /\ deleted = {} /\ stalled = {}

InFlight(w) == pc[w] \in {"claimed", "fetched", "failing", "dying"}
Holds(w, e) == InFlight(w) /\ job[w] = e /\ claim[e] = w
Fault == faults < MaxFaults /\ faults' = faults + 1
Configured(e) == e \notin Foreign \/ known

----------------------------------------------------------------------------
(* Meta and the operators *)

Submit(e) ==
    /\ e \notin submitted
    /\ submitted' = submitted \cup {e}
    /\ UNCHANGED <<known, graph, outages, inboxVars, crmVars, loopVars, wake,
                   faults, stalled>>

\* The page token expires, or Meta is down, for as long as it takes.
GraphFails ==
    /\ graph /\ outages < MaxOutages
    /\ graph' = FALSE /\ outages' = outages + 1
    /\ UNCHANGED <<submitted, known, inboxVars, crmVars, loopVars, wake, faults,
                   stalled>>

GraphRecovers ==
    /\ ~graph
    /\ graph' = TRUE
    /\ UNCHANGED <<submitted, known, outages, inboxVars, crmVars, loopVars, wake,
                   faults, stalled>>

\* A deployment configures the missing page.
ConfigurePage ==
    /\ ~known
    /\ known' = TRUE
    /\ UNCHANGED <<submitted, graph, outages, inboxVars, crmVars, loopVars, wake,
                   faults, stalled>>

\* A super admin deletes the lead; lead_id of the event becomes null.
DeleteLead(e) ==
    /\ lead[e] = "present"
    /\ lead' = [lead EXCEPT ![e] = "deleted"]
    /\ deleted' = deleted \cup {e}
    /\ UNCHANGED <<metaVars, inboxVars, notified, loopVars, wake, faults, stalled>>

----------------------------------------------------------------------------
(* The two writers of the inbox *)

\* Mutated forms (Bad...): plausible bugs for the mutation runs.
BadNewEvent(e, s) ==
    /\ status[e] \in {"none"} \cup Settled
    /\ status' = [status EXCEPT ![e] = s]
\* on conflict (leadgen_id) do nothing: only a leadgen without a row is stored.
NewEvent(e, s) == status[e] = "none" /\ status' = [status EXCEPT ![e] = s]

\* A webhook reaches worker w: stored, or ignored when the page is unknown.  A
\* repeated delivery finds its row and changes nothing.
Webhook(w, e) ==
    /\ pc[w] # "down"
    /\ e \in submitted
    /\ NewEvent(e, IF Configured(e) THEN "pending" ELSE "ignored")
    /\ wake' = [wake EXCEPT ![w] = wake[w] \/ Configured(e)]
    /\ UNCHANGED <<metaVars, complete, attempts, due, claim, expired, crmVars,
                   loopVars, faults, stalled>>

\* reconcileForm lists the form and stores the leads it does not know.
Reconcile(w, e) ==
    /\ pc[w] # "down" /\ graph
    /\ e \in submitted \ Old /\ Configured(e)
    /\ NewEvent(e, "pending")
    /\ complete' = complete \cup {e}
    /\ wake' = [wake EXCEPT ![w] = TRUE]
    /\ UNCHANGED <<metaVars, attempts, due, claim, expired, crmVars, loopVars,
                   faults, stalled>>

----------------------------------------------------------------------------
(* The passage of time *)

BecomeDue(e) ==
    /\ ~due[e]
    /\ due' = [due EXCEPT ![e] = TRUE]
    /\ UNCHANGED <<metaVars, status, complete, attempts, claim, expired, crmVars,
                   loopVars, wake, faults, stalled>>

LeaseExpires(e) ==
    /\ claim[e] # Nobody /\ e \notin expired
    /\ expired' = expired \cup {e}
    /\ IF Holds(claim[e], e)
       THEN Fault /\ stalled' = stalled \cup {e}
       ELSE UNCHANGED <<faults, stalled>>
    /\ UNCHANGED <<metaVars, status, complete, attempts, due, claim, crmVars,
                   loopVars, wake>>

----------------------------------------------------------------------------
(* The event loop *)

StartBatch(w, includeRetries) ==
    /\ pc' = [pc EXCEPT ![w] = "batch"]
    /\ retries' = [retries EXCEPT ![w] = includeRetries]
    /\ count' = [count EXCEPT ![w] = 0]

\* runEventLoop starts with a batch that includes retries.
Start(w) ==
    /\ pc[w] = "down"
    /\ StartBatch(w, TRUE)
    /\ UNCHANGED <<metaVars, inboxVars, crmVars, job, seen, wake, faults, stalled>>

Crash(w) ==
    /\ pc[w] # "down"
    /\ Fault
    /\ pc' = [pc EXCEPT ![w] = "down"]
    /\ job' = [job EXCEPT ![w] = Nobody]
    /\ seen' = [seen EXCEPT ![w] = 0]
    /\ wake' = [wake EXCEPT ![w] = FALSE]
    /\ UNCHANGED <<metaVars, inboxVars, crmVars, retries, count, stalled>>

OnWake(w) ==
    /\ pc[w] = "idle" /\ wake[w]
    /\ wake' = [wake EXCEPT ![w] = FALSE]
    /\ StartBatch(w, FALSE)
    /\ UNCHANGED <<metaVars, inboxVars, crmVars, job, seen, faults, stalled>>

OnTick(w) ==
    /\ pc[w] = "idle"
    /\ StartBatch(w, TRUE)
    /\ UNCHANGED <<metaVars, inboxVars, crmVars, job, seen, wake, faults, stalled>>

Ready(e, includeRetries) ==
    /\ attempts[e] < MaxAttempts
    /\ due[e]
    /\ \/ status[e] = "pending"
       \/ includeRetries /\ status[e] = "retry"

BadClaimable(e, includeRetries) == Ready(e, includeRetries)

\* The where clause of claimEvent.
Claimable(e, includeRetries) ==
    \/ Ready(e, includeRetries)
    \/ status[e] = "processing" /\ e \in expired /\ attempts[e] < MaxAttempts /\ due[e]

Room(w) == count[w] < BatchSize

Claim(w, e) ==
    /\ pc[w] = "batch" /\ Room(w)
    /\ Claimable(e, retries[w])
    /\ status' = [status EXCEPT ![e] = "processing"]
    /\ claim' = [claim EXCEPT ![e] = w]
    /\ expired' = expired \ {e}
    /\ job' = [job EXCEPT ![w] = e]
    /\ seen' = [seen EXCEPT ![w] = attempts[e]]
    /\ pc' = [pc EXCEPT ![w] = "claimed"]
    /\ UNCHANGED <<metaVars, complete, attempts, due, crmVars, retries, count, wake,
                   faults, stalled>>

EndBatch(w) ==
    /\ pc[w] = "batch"
    /\ ~Room(w) \/ \A e \in Leadgens : ~Claimable(e, retries[w])
    /\ pc' = [pc EXCEPT ![w] = "idle"]
    /\ UNCHANGED <<metaVars, inboxVars, crmVars, retries, count, job, seen, wake,
                   faults, stalled>>

\* A database error in the claim ends the batch.
ClaimFails(w) ==
    /\ pc[w] = "batch"
    /\ Fault
    /\ pc' = [pc EXCEPT ![w] = "idle"]
    /\ UNCHANGED <<metaVars, inboxVars, crmVars, retries, count, job, seen, wake, stalled>>

Moves(w, phase) ==
    /\ pc' = [pc EXCEPT ![w] = phase]
    /\ UNCHANGED <<metaVars, inboxVars, crmVars, retries, count, job, seen, wake, stalled>>

\* A payload of the reconciliation carries the lead; a webhook's has its id only.
Fetch(w) ==
    /\ pc[w] = "claimed"
    /\ job[w] \in complete \/ graph
    /\ Moves(w, "fetched")
    /\ UNCHANGED faults

\* An outage, an expired token, a rate limit: a retryable error.
FetchUnavailable(w) ==
    /\ pc[w] = "claimed"
    /\ job[w] \notin complete /\ ~graph
    /\ Moves(w, "failing")
    /\ UNCHANGED faults

\* Any other Graph error is permanent: retryableError is false.
FetchRejected(w) ==
    /\ pc[w] = "claimed"
    /\ job[w] \notin complete
    /\ Fault
    /\ Moves(w, "dying")

\* A database error before the commit rolls everything back.
DatabaseFails(w) ==
    /\ pc[w] \in {"claimed", "fetched"}
    /\ Fault
    /\ Moves(w, "failing")

\* where id=$1 and claim_token=$2
BadTokenMatches(w) == TRUE
TokenMatches(w) == claim[job[w]] = w

Mark(w, s) ==
    IF TokenMatches(w)
    THEN /\ status' = [status EXCEPT ![job[w]] = s]
         /\ claim' = [claim EXCEPT ![job[w]] = Nobody]
         /\ expired' = expired \ {job[w]}
    ELSE UNCHANGED <<status, claim, expired>>

NextEvent(w) ==
    /\ pc' = [pc EXCEPT ![w] = "batch"]
    /\ count' = [count EXCEPT ![w] = @ + 1]
    /\ job' = [job EXCEPT ![w] = Nobody]
    /\ seen' = [seen EXCEPT ![w] = 0]
    /\ UNCHANGED retries

\* The lead predates META_INGEST_AFTER.
Ignore(w) ==
    /\ pc[w] = "fetched"
    /\ job[w] \in Old
    /\ Mark(w, "ignored")
    /\ NextEvent(w)
    /\ UNCHANGED <<metaVars, complete, attempts, due, crmVars, wake, faults, stalled>>

\* insert into leads on conflict do update; xmax=0 tells an insert.
BadInserts(e) == TRUE
Inserts(e) == lead[e] # "present"

\* One transaction: upsert the lead, enqueue its notifications if it was
\* inserted, mark the event.  The mark finds no row after a lost claim, which is
\* no error, and the lead commits all the same.
Commit(w) ==
    /\ pc[w] = "fetched"
    /\ job[w] \notin Old
    /\ lead' = [lead EXCEPT ![job[w]] = "present"]
    /\ notified' = [notified EXCEPT ![job[w]] =
                        IF Inserts(job[w]) /\ @ < 2 THEN @ + 1 ELSE @]
    /\ Mark(w, "processed")
    /\ attempts' = IF TokenMatches(w)
                   THEN [attempts EXCEPT ![job[w]] = seen[w] + 1] ELSE attempts
    /\ UNCHANGED <<metaVars, complete, due, deleted, retries, wake, stalled>>

\* The commit is acknowledged, or it takes effect and the answer is lost: then
\* processEvent reports an error and failEvent runs.
Process(w) ==
    /\ Commit(w)
    /\ \/ NextEvent(w) /\ UNCHANGED faults
       \/ /\ Fault
          /\ pc' = [pc EXCEPT ![w] = "failing"]
          /\ UNCHANGED <<count, job, seen>>

\* failEvent: retry, or dead_letter after the last attempt or a permanent error.
Verdict(w) ==
    IF seen[w] + 1 >= MaxAttempts \/ pc[w] = "dying" THEN "dead_letter" ELSE "retry"

Fail(w) ==
    /\ pc[w] \in {"failing", "dying"}
    /\ Mark(w, Verdict(w))
    /\ IF TokenMatches(w)
       THEN /\ attempts' = [attempts EXCEPT ![job[w]] = seen[w] + 1]
            /\ due' = [due EXCEPT ![job[w]] = FALSE]
       ELSE UNCHANGED <<attempts, due>>
    /\ NextEvent(w)
    /\ UNCHANGED <<metaVars, complete, crmVars, wake, faults, stalled>>

\* The update of failEvent fails: the event stays claimed until its lease ends.
FailFails(w) ==
    /\ pc[w] \in {"failing", "dying"}
    /\ Fault
    /\ NextEvent(w)
    /\ UNCHANGED <<metaVars, inboxVars, crmVars, wake, stalled>>

----------------------------------------------------------------------------
Work(w) == \/ \E e \in Leadgens : Claim(w, e)
           \/ EndBatch(w) \/ Fetch(w) \/ FetchUnavailable(w)
           \/ Ignore(w) \/ Process(w) \/ Fail(w)

Next ==
    \/ \E e \in Leadgens : Submit(e) \/ DeleteLead(e) \/ BecomeDue(e) \/ LeaseExpires(e)
    \/ GraphFails \/ GraphRecovers \/ ConfigurePage
    \/ \E w \in Workers :
        \/ Start(w) \/ Crash(w) \/ OnWake(w) \/ OnTick(w)
        \/ \E e \in Leadgens : Webhook(w, e) \/ Reconcile(w, e) \/ Claim(w, e)
        \/ EndBatch(w) \/ ClaimFails(w)
        \/ Fetch(w) \/ FetchUnavailable(w) \/ FetchRejected(w) \/ DatabaseFails(w)
        \/ Ignore(w) \/ Process(w) \/ Fail(w) \/ FailFails(w)

Spec == Init /\ [][Next]_vars

\* Processes restart, the event loop and its 15 second ticker keep running, time
\* passes, outages end, a missing page is configured in the end, and the
\* reconciliation runs again and again, early enough for its lookback.
Fairness ==
    /\ \A w \in Workers : WF_vars(Start(w)) /\ WF_vars(Work(w)) /\ WF_vars(OnTick(w))
    /\ \A e \in Leadgens : /\ WF_vars(BecomeDue(e)) /\ WF_vars(LeaseExpires(e))
                           /\ WF_vars(\E w \in Workers : Reconcile(w, e))
    /\ WF_vars(GraphRecovers) /\ WF_vars(ConfigurePage)

FairSpec == Spec /\ Fairness

----------------------------------------------------------------------------
(* Properties *)

\* "no duplicate CRM lead or notification" (META-LEAD-ADS-SETUP): however often a
\* submission is delivered, reconciled, retried or processed by two workers, its
\* offices hear of it once, and once more only if its lead was deleted between.
NotifiedOnce ==
    \A e \in Leadgens :
        /\ notified[e] > 1 => e \in deleted
        /\ lead[e] = "none" <=> notified[e] = 0

\* A lead an administrator deleted comes back only through a worker that stalled
\* past its lease; webhooks, reconciliations, retries and lost commit answers
\* never re-import it.
DeletedStaysDeleted ==
    [][\A e \in Leadgens :
        lead[e] = "deleted" /\ lead'[e] = "present" => e \in stalled]_vars

\* The inbox tells the truth about the CRM: a processed event has had its lead,
\* and an event nobody will process again (ignored, dead letter) or that waits
\* for a retry has none, unless a stalled worker committed behind its back.
InboxAgreesWithCrm ==
    \A e \in Leadgens :
        /\ status[e] = "processed" => lead[e] # "none"
        /\ status[e] \in {"none", "pending", "retry", "ignored", "dead_letter"}
            => lead[e] = "none" \/ e \in stalled

\* A settled event is never taken up again, by any worker or writer.
SettledIsFinal ==
    [][\A e \in Leadgens : status[e] \in Settled => status'[e] = status[e]]_vars

\* Every submission new enough ends up in the inbox and is settled, even if its
\* webhook never comes, its page is configured late and workers crash.
EverySubmissionSettles ==
    \A e \in Leadgens \ Old : e \in submitted ~> status[e] \in Settled

=============================================================================
