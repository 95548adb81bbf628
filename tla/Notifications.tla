--------------------------- MODULE Notifications ---------------------------
(***************************************************************************)
(* The notification outbox: rows of public.lead_notifications, written in  *)
(* the transaction that inserts a lead (internal/notifications/outbox.go), *)
(* and the dispatcher goroutine that claims a row, calls Telegram or Slack *)
(* and records the result (internal/notifications/dispatcher.go).          *)
(*                                                                         *)
(* One Instance is one API process with its dispatcher.  Two of them run   *)
(* at once while a deployment replaces the old process.                    *)
(*                                                                         *)
(* Abstractions.  A claim token is the name of the instance that wrote it: *)
(* an instance compares only the token of its latest claim, so a fresh     *)
(* uuid and the name tell the same rows apart.  Time is left out: "due"    *)
(* says next_attempt_at has passed, "expired" that a claim is older than   *)
(* five minutes.  Leads are numbered by the start time of the transaction  *)
(* that inserts them, which is created_at of their rows.                   *)
(***************************************************************************)
EXTENDS Naturals, FiniteSets

CONSTANTS
    Instances,       \* API processes, each with one dispatcher
    Leads,           \* leads, numbered in the order their transactions start
    Destinations,    \* Telegram chats and Slack channels
    Routes,          \* Routes[l]: destinations configured for the office of l
    Slack,           \* the destinations that are Slack channels
    Healthy,         \* the destinations that always accept and always answer
    BatchSize,       \* deliveries attempted by one runOnce
    MaxAttempts,     \* maxDeliveryAttempts
    MaxFaults,       \* bound: crashes, database errors and stalls in a behaviour
    Nobody           \* a claim_token that is null, a job that is absent

ASSUME LeadsAssumption == Leads \subseteq Nat
ASSUME RoutesAssumption == Routes \in [Leads -> SUBSET Destinations]
ASSUME LimitsAssumption == /\ BatchSize \in Nat \ {0}
                           /\ MaxAttempts \in Nat \ {0}
                           /\ MaxFaults \in Nat
ASSUME NobodyAssumption == /\ Nobody \notin Instances
                           /\ Nobody \notin Leads \X Destinations

\* The rows that can exist: unique (lead_id, channel, destination).
Rows == {r \in Leads \X Destinations : r[2] \in Routes[r[1]]}
RowsOf(l) == {r \in Rows : r[1] = l}

VARIABLES
    status,      \* status[r]: "none" before the insert, "deleted" with the lead
    attempts,    \* attempts[r]
    due,         \* due[r]: next_attempt_at <= now()
    claim,       \* claim[r]: claim_token
    expired,     \* rows whose claimed_at is older than the lease
    home,        \* home[l]: the instance that committed lead l
    unwoken,     \* leads committed by a request that has not called Wake yet
    pc,          \* pc[i]: where the dispatcher goroutine of i is
    recover,     \* recover[i]: this sweep takes failed rows too
    done,        \* done[i]: deliveries counted by the current runOnce
    job,         \* job[i]: the row the dispatcher has claimed
    tries,       \* tries[i]: row.Attempts+1, computed from the claimed row
    answer,      \* answer[i]: what the HTTP call returned
    wake,        \* wake[i]: the wake channel holds its one token
    retry,       \* retry[i]: the retry channel holds its one token
    timers,      \* timers[i]: scheduleRetry goroutines asleep
    faults,      \* faults spent, at most MaxFaults
    accepted,    \* history: times the destination took the message (capped at 2)
    disturbed,   \* history: deliveries whose outcome was not recorded in time
    cut,         \* history: the last sweep of i ended on a database error
    skipped      \* history: rows the last claim statement of i found locked

rowVars == <<status, attempts, due, claim, expired>>
commitVars == <<home, unwoken>>
jobVars == <<job, tries, answer>>
sweepVars == <<pc, recover, done, cut, skipped>>
signalVars == <<wake, retry, timers>>
outsideVars == <<accepted, disturbed>>
vars == <<rowVars, commitVars, jobVars, sweepVars, signalVars, outsideVars,
          faults>>

Statuses == {"none", "pending", "failed", "sent", "deleted"}
Phases == {"down", "idle", "sweep", "claiming", "sending", "answered", "counting"}
AnswerKinds == {"accepted", "refused", "limited", "lost"}

TypeOK ==
    /\ status \in [Rows -> Statuses]
    /\ attempts \in [Rows -> 0..MaxAttempts]
    /\ due \in [Rows -> BOOLEAN]
    /\ claim \in [Rows -> Instances \cup {Nobody}]
    /\ expired \in SUBSET Rows
    /\ home \in [Leads -> Instances \cup {Nobody}]
    /\ unwoken \in SUBSET Leads
    /\ pc \in [Instances -> Phases]
    /\ recover \in [Instances -> BOOLEAN]
    /\ done \in [Instances -> 0..(BatchSize - 1)]
    /\ job \in [Instances -> Rows \cup {Nobody}]
    /\ tries \in [Instances -> 0..MaxAttempts]
    /\ answer \in [Instances -> AnswerKinds]
    /\ wake \in [Instances -> BOOLEAN]
    /\ retry \in [Instances -> BOOLEAN]
    /\ timers \in [Instances -> Nat]
    /\ faults \in 0..MaxFaults
    /\ accepted \in [Rows -> 0..2]
    /\ disturbed \in SUBSET Rows
    /\ cut \in [Instances -> BOOLEAN]
    /\ skipped \in [Instances -> SUBSET Rows]

Init ==
    /\ status = [r \in Rows |-> "none"]
    /\ attempts = [r \in Rows |-> 0]
    /\ due = [r \in Rows |-> TRUE]
    /\ claim = [r \in Rows |-> Nobody]
    /\ expired = {}
    /\ home = [l \in Leads |-> Nobody]
    /\ unwoken = {}
    /\ pc = [i \in Instances |-> "down"]
    /\ recover = [i \in Instances |-> FALSE]
    /\ done = [i \in Instances |-> 0]
    /\ job = [i \in Instances |-> Nobody]
    /\ tries = [i \in Instances |-> 0]
    /\ answer = [i \in Instances |-> "accepted"]
    /\ wake = [i \in Instances |-> FALSE]
    /\ retry = [i \in Instances |-> FALSE]
    /\ timers = [i \in Instances |-> 0]
    /\ faults = 0
    /\ accepted = [r \in Rows |-> 0]
    /\ disturbed = {}
    /\ cut = [i \in Instances |-> FALSE]
    /\ skipped = [i \in Instances |-> {}]

InFlight(i) == pc[i] \in {"sending", "answered"}
\* Row locks: the claim transaction of a dispatcher that has selected r is open.
Locked(r) == \E k \in Instances : pc[k] = "claiming" /\ job[k] = r
Fault == faults < MaxFaults /\ faults' = faults + 1

----------------------------------------------------------------------------
(* The process *)

StartSweep(i, includeFailed) ==
    /\ pc' = [pc EXCEPT ![i] = "sweep"]
    /\ recover' = [recover EXCEPT ![i] = includeFailed]
    /\ done' = [done EXCEPT ![i] = 0]
    /\ cut' = [cut EXCEPT ![i] = FALSE]
    /\ skipped' = [skipped EXCEPT ![i] = {}]

\* Run begins with a recovery sweep.
Start(i) ==
    /\ pc[i] = "down"
    /\ StartSweep(i, TRUE)
    /\ UNCHANGED <<rowVars, commitVars, jobVars, signalVars, outsideVars, faults>>

\* The process dies, or is told to stop: a cancelled context makes the call and
\* the update that records it fail.  What was in memory is gone, rows stay, and a claim
\* transaction rolls back.
Crash(i) ==
    /\ pc[i] # "down"
    /\ Fault
    /\ pc' = [pc EXCEPT ![i] = "down"]
    /\ job' = [job EXCEPT ![i] = Nobody]
    /\ tries' = [tries EXCEPT ![i] = 0]
    /\ answer' = [answer EXCEPT ![i] = "accepted"]
    /\ recover' = [recover EXCEPT ![i] = FALSE]
    /\ done' = [done EXCEPT ![i] = 0]
    /\ cut' = [cut EXCEPT ![i] = FALSE]
    /\ skipped' = [skipped EXCEPT ![i] = {}]
    /\ wake' = [wake EXCEPT ![i] = FALSE]
    /\ retry' = [retry EXCEPT ![i] = FALSE]
    /\ timers' = [timers EXCEPT ![i] = 0]
    /\ unwoken' = {l \in unwoken : home[l] # i}
    /\ disturbed' = IF InFlight(i) THEN disturbed \cup {job[i]} ELSE disturbed
    /\ UNCHANGED <<rowVars, home, accepted>>

----------------------------------------------------------------------------
(* Requests: the form, webhook or CRM handler that inserts the lead *)

\* Enqueue writes one pending row per destination and the transaction commits.
Enqueue(i, l) ==
    /\ pc[i] # "down"
    /\ home[l] = Nobody
    /\ status' = [r \in Rows |-> IF r[1] = l THEN "pending" ELSE status[r]]
    /\ home' = [home EXCEPT ![l] = i]
    /\ unwoken' = unwoken \cup {l}
    /\ UNCHANGED <<attempts, due, claim, expired, jobVars, sweepVars,
                   signalVars, outsideVars, faults>>

\* A non-blocking send on a channel of one: a full channel drops the token.
\* Mutated forms (here and below, Bad...): plausible bugs for the mutation runs;
\* this one is the send on an unbuffered channel.
BadPushed(channel, i) == [channel EXCEPT ![i] = pc[i] = "idle"]
Pushed(channel, i) == [channel EXCEPT ![i] = TRUE]

\* After the commit the request calls Wake.
Wake(l) ==
    /\ l \in unwoken
    /\ unwoken' = unwoken \ {l}
    /\ wake' = Pushed(wake, home[l])
    /\ UNCHANGED <<rowVars, home, jobVars, sweepVars, retry, timers,
                   outsideVars, faults>>

\* Deleting the lead cascades to its rows, whatever the dispatcher is doing, once no
\* claim transaction holds one of them.
DeleteLead(l) ==
    /\ home[l] # Nobody
    /\ \E r \in RowsOf(l) : status[r] # "deleted"
    /\ \A r \in RowsOf(l) : ~Locked(r)
    /\ status' = [r \in Rows |-> IF r[1] = l THEN "deleted" ELSE status[r]]
    /\ claim' = [r \in Rows |-> IF r[1] = l THEN Nobody ELSE claim[r]]
    /\ expired' = expired \ RowsOf(l)
    /\ UNCHANGED <<attempts, due, commitVars, jobVars, sweepVars, signalVars,
                   outsideVars, faults>>

----------------------------------------------------------------------------
(* The passage of time *)

\* next_attempt_at passes.
BecomeDue(r) ==
    /\ ~due[r]
    /\ due' = [due EXCEPT ![r] = TRUE]
    /\ UNCHANGED <<status, attempts, claim, expired, commitVars, jobVars,
                   sweepVars, signalVars, outsideVars, faults>>

Holds(i, r) == InFlight(i) /\ job[i] = r /\ claim[r] = i

\* Five minutes pass since the claim.  A call takes at most 15 seconds, so a
\* claim outlives its delivery only when its holder stalls: a fault.
LeaseExpires(r) ==
    /\ claim[r] # Nobody
    /\ r \notin expired
    /\ expired' = expired \cup {r}
    /\ IF Holds(claim[r], r)
       THEN Fault /\ disturbed' = disturbed \cup {r}
       ELSE UNCHANGED <<faults, disturbed>>
    /\ UNCHANGED <<status, attempts, due, claim, commitVars, jobVars,
                   sweepVars, signalVars, accepted>>

\* A scheduleRetry goroutine wakes up.
RetryTimer(i) ==
    /\ timers[i] > 0
    /\ timers' = [timers EXCEPT ![i] = @ - 1]
    /\ retry' = Pushed(retry, i)
    /\ UNCHANGED <<rowVars, commitVars, jobVars, sweepVars, wake, outsideVars,
                   faults>>

----------------------------------------------------------------------------
(* The dispatcher goroutine *)

\* Run selects among the wake channel, the retry channel and the ticker.
OnWake(i) ==
    /\ pc[i] = "idle"
    /\ wake[i]
    /\ wake' = [wake EXCEPT ![i] = FALSE]
    /\ StartSweep(i, FALSE)
    /\ UNCHANGED <<rowVars, commitVars, jobVars, retry, timers, outsideVars, faults>>

OnRetry(i) ==
    /\ pc[i] = "idle"
    /\ retry[i]
    /\ retry' = [retry EXCEPT ![i] = FALSE]
    /\ StartSweep(i, TRUE)
    /\ UNCHANGED <<rowVars, commitVars, jobVars, wake, timers, outsideVars, faults>>

OnTick(i) ==
    /\ pc[i] = "idle"
    /\ StartSweep(i, TRUE)
    /\ UNCHANGED <<rowVars, commitVars, jobVars, signalVars, outsideVars, faults>>

Unsent(r, includeFailed) ==
    status[r] = "pending" \/ (includeFailed /\ status[r] = "failed")

BadClaimableDuringLease(r, includeFailed) ==
    /\ Unsent(r, includeFailed)
    /\ attempts[r] < MaxAttempts
    /\ due[r]
BadClaimableForever(r, includeFailed) ==
    /\ Unsent(r, includeFailed)
    /\ due[r]
    /\ claim[r] = Nobody \/ r \in expired
BadClaimableOnce(r, includeFailed) ==
    BadClaimableDuringLease(r, includeFailed) /\ claim[r] = Nobody

\* The where clause of the claim.
Claimable(r, includeFailed) ==
    /\ Unsent(r, includeFailed)
    /\ attempts[r] < MaxAttempts
    /\ due[r]
    /\ claim[r] = Nobody \/ r \in expired

BadOldest(r, includeFailed) ==
    \A s \in Rows : status[s] \in {"pending", "failed"} => r[1] <= s[1]

\* order by created_at limit 1, without the rows that are locked
Oldest(r, includeFailed) ==
    \A s \in Rows : Claimable(s, includeFailed) /\ ~Locked(s) => r[1] <= s[1]

\* claimAndSendOne begins its transaction and selects the oldest claimable row that
\* nobody has locked (for update skip locked); the row is locked until it ends.
Select(i, r) ==
    /\ pc[i] = "sweep"
    /\ Claimable(r, recover[i]) /\ ~Locked(r)
    /\ Oldest(r, recover[i])
    /\ job' = [job EXCEPT ![i] = r]
    /\ tries' = [tries EXCEPT ![i] = attempts[r] + 1]
    /\ pc' = [pc EXCEPT ![i] = "claiming"]
    /\ UNCHANGED <<rowVars, commitVars, answer, recover, done, cut, skipped,
                   signalVars, outsideVars, faults>>

WriteToken(i) ==
    /\ claim' = [claim EXCEPT ![job[i]] = i]
    /\ expired' = expired \ {job[i]}
    /\ UNCHANGED <<status, attempts, due>>

\* The token is written and the claim committed.
Claim(i) ==
    /\ pc[i] = "claiming"
    /\ WriteToken(i)
    /\ pc' = [pc EXCEPT ![i] = "sending"]
    /\ UNCHANGED <<commitVars, jobVars, recover, done, cut, skipped, signalVars,
                   outsideVars, faults>>

\* deliveryIdle ends the loop of sweep: fewer than BatchSize were counted.
NothingToClaim(i) ==
    /\ pc[i] = "sweep"
    /\ \A r \in Rows : Claimable(r, recover[i]) => Locked(r)
    /\ skipped' = [skipped EXCEPT ![i] = {r \in Rows : Claimable(r, recover[i])}]
    /\ pc' = [pc EXCEPT ![i] = "counting"]
    /\ UNCHANGED <<rowVars, commitVars, jobVars, recover, done, cut, signalVars,
                   outsideVars, faults>>

\* sweep counts what is pending, for its log, and Run selects again.
BackToSelect(i) ==
    /\ pc[i] = "counting"
    /\ pc' = [pc EXCEPT ![i] = "idle"]
    /\ UNCHANGED <<rowVars, commitVars, jobVars, recover, done, cut, skipped, signalVars,
                   outsideVars, faults>>

EndJob(i) ==
    /\ job' = [job EXCEPT ![i] = Nobody]
    /\ tries' = [tries EXCEPT ![i] = 0]
    /\ answer' = [answer EXCEPT ![i] = "accepted"]

\* A database error in the claim ends the sweep.  The transaction rolls back, and others
\* may have skipped its row meanwhile; or it had committed, and the claim stays behind.
ClaimFails(i) ==
    /\ pc[i] \in {"sweep", "claiming"}
    /\ Fault
    /\ \/ UNCHANGED rowVars
       \/ pc[i] = "claiming" /\ WriteToken(i)
    /\ EndJob(i)
    /\ pc' = [pc EXCEPT ![i] = "idle"]
    /\ cut' = [cut EXCEPT ![i] = TRUE]
    /\ UNCHANGED <<commitVars, recover, done, skipped, signalVars, outsideVars>>

\* The answers a destination can give.  "lost": it took the message and the
\* call timed out; Telegram's 429 is an ordinary refusal.
Answers(d) ==
    IF d \in Healthy THEN {"accepted"}
    ELSE {"accepted", "refused", "lost"} \cup (IF d \in Slack THEN {"limited"} ELSE {})

Send(i) ==
    /\ pc[i] = "sending"
    /\ \E a \in Answers(job[i][2]) :
        /\ answer' = [answer EXCEPT ![i] = a]
        /\ accepted' = IF a \in {"accepted", "lost"} /\ accepted[job[i]] < 2
                       THEN [accepted EXCEPT ![job[i]] = @ + 1]
                       ELSE accepted
        /\ disturbed' = IF a = "lost" THEN disturbed \cup {job[i]} ELSE disturbed
    /\ pc' = [pc EXCEPT ![i] = "answered"]
    /\ UNCHANGED <<rowVars, commitVars, job, tries, recover, done, cut, skipped,
                   signalVars, faults>>

\* The row a mark statement changes: where id=$1 and claim_token=$n.
TokenMatches(i) == claim[job[i]] = i

\* It waits while another's claim transaction has the row locked.
Mark(i, outcome) ==
    ~Locked(job[i]) /\
    IF TokenMatches(i)
    THEN /\ status' = [status EXCEPT ![job[i]] = outcome]
         /\ attempts' = [attempts EXCEPT ![job[i]] = tries[i]]
         /\ due' = [due EXCEPT ![job[i]] = outcome = "sent"]
         /\ claim' = [claim EXCEPT ![job[i]] = Nobody]
         /\ expired' = expired \ {job[i]}
    ELSE UNCHANGED rowVars

\* runOnce counts the delivery; after BatchSize of them sweep calls it again.
Counted(i) == done' = [done EXCEPT ![i] = (@ + 1) % BatchSize]

Outcome(i) == IF answer[i] = "accepted" THEN "sent" ELSE "failed"

\* Accepted: markSent.  Refused, or no answer: markFailed with the default delay.
Record(i) ==
    /\ pc[i] = "answered"
    /\ answer[i] # "limited"
    /\ Mark(i, Outcome(i))
    /\ EndJob(i)
    /\ Counted(i)
    /\ pc' = [pc EXCEPT ![i] = "sweep"]
    /\ UNCHANGED <<commitVars, recover, cut, skipped, signalVars, outsideVars, faults>>

\* Slack's 429: markFailed, a retry timer, and runOnce returns.  The sweep ends
\* too, unless this was the last delivery of a full batch.
RecordLimited(i) ==
    /\ pc[i] = "answered"
    /\ answer[i] = "limited"
    /\ Mark(i, "failed")
    /\ EndJob(i)
    /\ Counted(i)
    /\ timers' = [timers EXCEPT ![i] = @ + 1]
    /\ pc' = [pc EXCEPT ![i] = IF done[i] + 1 < BatchSize THEN "counting" ELSE "sweep"]
    /\ UNCHANGED <<commitVars, recover, cut, skipped, wake, retry, outsideVars, faults>>

\* A database error in the mark ends the sweep; the claim stays on the row.
RecordFails(i) ==
    /\ pc[i] = "answered"
    /\ Fault
    /\ EndJob(i)
    /\ pc' = [pc EXCEPT ![i] = "idle"]
    /\ cut' = [cut EXCEPT ![i] = TRUE]
    /\ disturbed' = disturbed \cup {job[i]}
    /\ UNCHANGED <<rowVars, commitVars, recover, done, skipped, signalVars, accepted>>

----------------------------------------------------------------------------
Deliver(i) == Send(i) \/ Record(i) \/ RecordLimited(i)
Work(i) ==
    \/ \E r \in Rows : Select(i, r)
    \/ Claim(i) \/ NothingToClaim(i) \/ BackToSelect(i) \/ Deliver(i)

Next ==
    \/ \E i \in Instances :
        \/ Start(i) \/ Crash(i)
        \/ OnWake(i) \/ OnRetry(i) \/ OnTick(i)
        \/ \E r \in Rows : Select(i, r)
        \/ Claim(i) \/ NothingToClaim(i) \/ BackToSelect(i) \/ ClaimFails(i)
        \/ Send(i)
        \/ Record(i) \/ RecordLimited(i) \/ RecordFails(i)
        \/ RetryTimer(i)
        \/ \E l \in Leads : Enqueue(i, l)
    \/ \E l \in Leads : Wake(l) \/ DeleteLead(l)
    \/ \E r \in Rows : BecomeDue(r) \/ LeaseExpires(r)

Spec == Init /\ [][Next]_vars

\* A process that stopped is started again, its goroutine keeps running, the
\* hourly ticker keeps firing, and time passes.  Nothing forces a fault, a new
\* lead or a deletion.
Fairness ==
    /\ \A i \in Instances : WF_vars(Start(i)) /\ WF_vars(Work(i)) /\ WF_vars(OnTick(i))
    /\ \A r \in Rows : WF_vars(BecomeDue(r)) /\ WF_vars(LeaseExpires(r))

FairSpec == Spec /\ Fairness

----------------------------------------------------------------------------
(* Properties *)

\* A destination is sent a message twice only if the outcome of an earlier call
\* was not recorded: the process died, the answer or the update was lost, or the
\* holder outlived its lease.  Retries, wakes, sweeps and a second dispatcher
\* alone never duplicate a notification.
NoUnexplainedDuplicate == \A r \in Rows : accepted[r] > 1 => r \in disturbed

\* A row says sent only when its destination took the message: no answer of
\* another row, another attempt or another instance marks it.
SentWasAccepted == \A r \in Rows : status[r] = "sent" => accepted[r] > 0

\* At most one dispatcher may still record a result on a row, and that one read
\* the attempt counter the row still has: the counter it writes back is fresh.
TokenGuardsCounter ==
    \A i \in Instances, r \in Rows :
        Holds(i, r) => /\ status[r] \in {"pending", "failed"}
                       /\ tries[i] = attempts[r] + 1
                       /\ \A k \in Instances \ {i} : ~Holds(k, r)

\* The one-token channels lose no commit: while its own dispatcher idles, a row
\* nobody has claimed yet has a request about to call Wake, a token, or a retry
\* timer.  Excepted, and left to the hourly tick, are the rows of a sweep that a database
\* error cut, and those that the sweep skipped because the claim of another process,
\* which has not committed, had locked them (dispatcher.go:206).
NoLostWake ==
    \A i \in Instances, r \in Rows :
        (pc[i] = "idle" /\ status[r] = "pending" /\ claim[r] = Nobody
            /\ home[r[1]] = i)
        => \/ r[1] \in unwoken
           \/ wake[i] \/ retry[i] \/ timers[i] > 0
           \/ cut[i] \/ r \in skipped[i]

\* What a destination took and the database recorded is final, the attempt
\* counter never goes back, and only a claim made by this step or an earlier one
\* lets a row change: no step may undo a delivery of another.
RowsOnlyAdvance ==
    [][\A r \in Rows :
        /\ status[r] = "sent" => status'[r] \in {"sent", "deleted"}
        /\ attempts'[r] \in {attempts[r], attempts[r] + 1}
        /\ attempts'[r] # attempts[r] => claim[r] # Nobody /\ claim'[r] = Nobody]_vars

\* Every committed row is eventually sent, given up after MaxAttempts tries, or
\* deleted with its lead, whatever crashes and errors (finitely many) happen.
EveryRowSettles ==
    \A r \in Rows :
        status[r] = "pending" ~>
            \/ status[r] \in {"sent", "deleted"}
            \/ status[r] = "failed" /\ attempts[r] = MaxAttempts

\* "Each destination has independent outbox retry state" (README): a destination
\* that refuses or limits every message never starves one that accepts.
HealthyDelivered ==
    \A r \in Rows :
        (r[2] \in Healthy /\ status[r] = "pending") ~> status[r] \in {"sent", "deleted"}

----------------------------------------------------------------------------
(* Refinement of Delivery *)

\* The outbox as the abstract specification sees it.
Debt ==
    [r \in Rows |->
        CASE status[r] = "none" -> "none"
          [] status[r] = "sent" -> "delivered"
          [] status[r] = "deleted" -> "withdrawn"
          [] status[r] = "failed" /\ attempts[r] = MaxAttempts -> "abandoned"
          [] OTHER -> "owed"]

Promise == INSTANCE Delivery WITH debt <- Debt

\* Whatever the dispatchers, crashes and retries do, each debt is settled as
\* Delivery says: once and independently of the others ...
SettlesOnce == Promise!Init /\ [][Promise!Next]_Debt

\* ... and in the end.
KeepsPromise == Promise!Spec

=============================================================================
