------------------------ MODULE NotificationsProofs ------------------------
(***************************************************************************)
(* Proofs about Notifications for every set of instances, leads, routes,   *)
(* batch size, attempt limit and number of faults.                         *)
(***************************************************************************)
EXTENDS Notifications, TLAPS

-----------------------------------------------------------------------------
(* The inductive invariant *)

\* A dispatcher has a job exactly while it claims it, calls out or records the answer.
JobMatchesPhase ==
    \A i \in Instances : InFlight(i) \/ pc[i] = "claiming" <=> job[i] # Nobody

\* A row whose claim is open is still as it was selected, and no other claim has it.
Selected ==
    \A i \in Instances : pc[i] = "claiming" =>
        /\ Claimable(job[i], recover[i]) /\ tries[i] = attempts[job[i]] + 1
        /\ \A k \in Instances : pc[k] = "claiming" /\ job[k] = job[i] => k = i

\* A row nobody has recorded anything on is as Enqueue wrote it.
PendingIsFresh ==
    \A r \in Rows : status[r] \in {"none", "pending"} => attempts[r] = 0 /\ due[r]

\* The rows of a lead exist from the commit of the lead on.
NotYetEnqueued ==
    \A r \in Rows : home[r[1]] = Nobody <=> status[r] = "none"

\* A delivery nothing disturbed still has its claim, within the lease, and is
\* the only one of its row.
UndisturbedFlight ==
    \A i \in Instances :
        (InFlight(i) /\ job[i] \notin disturbed)
        => /\ \/ status[job[i]] = "deleted"
              \/ claim[job[i]] = i /\ job[i] \notin expired
           /\ \A k \in Instances : InFlight(k) /\ job[k] = job[i] => k = i

\* A message taken but not yet recorded is in the hands of the dispatcher that
\* got the answer, unless something disturbed it.
AcceptedAccounted ==
    /\ \A i \in Instances :
        pc[i] = "sending" /\ job[i] \notin disturbed => accepted[job[i]] = 0
    /\ \A r \in Rows \ disturbed :
        status[r] \in {"none", "pending", "failed"} /\ accepted[r] > 0
        => \E i \in Instances :
              pc[i] = "answered" /\ job[i] = r /\ answer[i] = "accepted"
    /\ \A i \in Instances :
        pc[i] = "answered" /\ answer[i] = "accepted" => accepted[job[i]] > 0

\* The signal part of NoLostWake, from the moment the dispatcher found nothing
\* left to claim.
Signalled ==
    \A i \in Instances, r \in Rows :
        (pc[i] \in {"idle", "counting"} /\ status[r] = "pending"
            /\ claim[r] = Nobody /\ home[r[1]] = i)
        => \/ r[1] \in unwoken
           \/ wake[i] \/ retry[i] \/ timers[i] > 0
           \/ cut[i] \/ r \in skipped[i]

TypeInv == TypeOK /\ JobMatchesPhase

IInv ==
    /\ TypeInv
    /\ Selected
    /\ PendingIsFresh
    /\ NotYetEnqueued
    /\ TokenGuardsCounter
    /\ UndisturbedFlight
    /\ AcceptedAccounted
    /\ NoUnexplainedDuplicate
    /\ SentWasAccepted

-----------------------------------------------------------------------------
(* Type correctness *)

LEMMA RowsType == Rows \subseteq Leads \X Destinations
BY DEF Rows

\* The types hold in every reachable state.
LEMMA TypeInit == Init => TypeInv
<1> SUFFICES ASSUME Init PROVE TypeInv
    OBVIOUS
<1>1. TypeOK
    BY LimitsAssumption, NobodyAssumption
    DEF Init, TypeOK, Statuses, Phases, AnswerKinds
<1>2. JobMatchesPhase
    BY DEF Init, JobMatchesPhase, InFlight
<1> QED BY <1>1, <1>2 DEF TypeInv

\* The batch counter stays below the batch size.
LEMMA CountedType ==
    ASSUME NEW n \in 0..(BatchSize - 1)
    PROVE  (n + 1) % BatchSize \in 0..(BatchSize - 1)
BY LimitsAssumption

\* A mark keeps the rows well formed, and so does the end of the job.
LEMMA MarkType ==
    ASSUME TypeInv, NEW i \in Instances, pc[i] = "answered",
           NEW outcome \in {"sent", "failed"},
           Mark(i, outcome), EndJob(i), Counted(i)
    PROVE  /\ status' \in [Rows -> Statuses]
           /\ attempts' \in [Rows -> 0..MaxAttempts]
           /\ due' \in [Rows -> BOOLEAN]
           /\ claim' \in [Rows -> Instances \cup {Nobody}]
           /\ expired' \in SUBSET Rows
           /\ job' \in [Instances -> Rows \cup {Nobody}]
           /\ tries' \in [Instances -> 0..MaxAttempts]
           /\ answer' \in [Instances -> AnswerKinds]
           /\ done' \in [Instances -> 0..(BatchSize - 1)]
<1> USE DEF TypeInv, TypeOK, Mark
<1>1. due' \in [Rows -> BOOLEAN]
    BY DEF rowVars
<1>2. done' \in [Instances -> 0..(BatchSize - 1)]
    <2>1. done[i] \in 0..(BatchSize - 1)
        OBVIOUS
    <2>2. (done[i] + 1) % BatchSize \in 0..(BatchSize - 1)
        BY <2>1, CountedType
    <2> QED BY <2>2 DEF Counted
<1>3. status' \in [Rows -> Statuses] /\ attempts' \in [Rows -> 0..MaxAttempts]
    BY DEF rowVars, Statuses
<1>4. claim' \in [Rows -> Instances \cup {Nobody}] /\ expired' \in SUBSET Rows
    BY DEF rowVars
<1>5. job' \in [Instances -> Rows \cup {Nobody}]
    BY DEF EndJob
<1>6. tries' \in [Instances -> 0..MaxAttempts] /\ answer' \in [Instances -> AnswerKinds]
    BY LimitsAssumption DEF EndJob, AnswerKinds
<1> QED
    BY <1>1, <1>2, <1>3, <1>4, <1>5, <1>6

LEMMA TypeStep == TypeInv /\ [Next]_vars => TypeInv'
<1> SUFFICES ASSUME TypeInv, [Next]_vars PROVE TypeInv'
    OBVIOUS
<1> USE LimitsAssumption, NobodyAssumption, RowsType
    DEF TypeInv, TypeOK, JobMatchesPhase, Statuses, Phases, AnswerKinds, InFlight,
        rowVars, commitVars, jobVars, sweepVars, signalVars, outsideVars
<1>1. ASSUME NEW i \in Instances, Start(i) PROVE TypeInv'
    BY <1>1 DEF Start, StartSweep
<1>2. ASSUME NEW i \in Instances, OnWake(i) PROVE TypeInv'
    BY <1>2 DEF OnWake, StartSweep
<1>3. ASSUME NEW i \in Instances, OnRetry(i) PROVE TypeInv'
    BY <1>3 DEF OnRetry, StartSweep
<1>4. ASSUME NEW i \in Instances, OnTick(i) PROVE TypeInv'
    BY <1>4 DEF OnTick, StartSweep
<1>5. ASSUME NEW i \in Instances, Crash(i) PROVE TypeInv'
    BY <1>5 DEF Crash, Fault
<1>6. ASSUME NEW i \in Instances, NEW l \in Leads, Enqueue(i, l) PROVE TypeInv'
    BY <1>6 DEF Enqueue
<1>7. ASSUME NEW l \in Leads, Wake(l) PROVE TypeInv'
    BY <1>7 DEF Wake, Pushed
<1>8. ASSUME NEW l \in Leads, DeleteLead(l) PROVE TypeInv'
    BY <1>8 DEF DeleteLead, RowsOf
<1>9. ASSUME NEW r \in Rows, BecomeDue(r) PROVE TypeInv'
    BY <1>9 DEF BecomeDue
<1>10. ASSUME NEW r \in Rows, LeaseExpires(r) PROVE TypeInv'
    BY <1>10 DEF LeaseExpires, Fault, Holds
<1>11. ASSUME NEW i \in Instances, RetryTimer(i) PROVE TypeInv'
    BY <1>11 DEF RetryTimer, Pushed
<1>12. ASSUME NEW i \in Instances, NEW r \in Rows, Select(i, r) PROVE TypeInv'
    BY <1>12 DEF Select, Claimable
<1>21. ASSUME NEW i \in Instances, Claim(i) PROVE TypeInv'
    BY <1>21 DEF Claim, WriteToken
<1>13. ASSUME NEW i \in Instances, NothingToClaim(i) PROVE TypeInv'
    BY <1>13 DEF NothingToClaim
<1>14. ASSUME NEW i \in Instances, BackToSelect(i) PROVE TypeInv'
    BY <1>14 DEF BackToSelect
<1>15. ASSUME NEW i \in Instances, ClaimFails(i) PROVE TypeInv'
    BY <1>15 DEF ClaimFails, Fault, EndJob, WriteToken
<1>16. ASSUME NEW i \in Instances, Send(i) PROVE TypeInv'
    <2>1. /\ pc[i] = "sending" /\ pc' = [pc EXCEPT ![i] = "answered"] /\ job[i] \in Rows
          /\ UNCHANGED <<rowVars, commitVars, job, tries, recover, done, cut, skipped,
                         signalVars, faults>>
        BY <1>16 DEF Send
    <2>2. \E a \in AnswerKinds : answer' = [answer EXCEPT ![i] = a]
        BY <1>16 DEF Send, Answers
    <2>3. disturbed' \in SUBSET Rows
        BY <1>16, <2>1 DEF Send
    <2>4. accepted' \in [Rows -> 0..2]
        <3>1. \/ accepted' = accepted
              \/ accepted[job[i]] < 2 /\ accepted' = [accepted EXCEPT ![job[i]] = @ + 1]
            BY <1>16 DEF Send
        <3>2. accepted \in [Rows -> 0..2]
            OBVIOUS
        <3>3. accepted[job[i]] \in 0..2
            BY <2>1, <3>2
        <3>4. accepted[job[i]] < 2 => accepted[job[i]] + 1 \in 0..2
            BY <3>3
        <3> QED BY <2>1, <3>1, <3>2, <3>4
    <2> QED BY <2>1, <2>2, <2>3, <2>4
<1>17. ASSUME NEW i \in Instances, Record(i) PROVE TypeInv'
    <2>1. Outcome(i) \in {"sent", "failed"} /\ pc[i] = "answered"
        BY <1>17 DEF Record, Outcome
    <2>2. Mark(i, Outcome(i)) /\ EndJob(i) /\ Counted(i)
        BY <1>17 DEF Record
    <2> HIDE DEF TypeInv
    <2>3. TypeOK'
        BY <1>17, <2>1, <2>2, MarkType DEF Record, TypeInv
    <2>4. JobMatchesPhase'
        BY <1>17 DEF Record, EndJob, TypeInv
    <2> QED BY <2>3, <2>4 DEF TypeInv
<1>18. ASSUME NEW i \in Instances, RecordLimited(i) PROVE TypeInv'
    <2>1. Mark(i, "failed") /\ EndJob(i) /\ Counted(i) /\ pc[i] = "answered"
        BY <1>18 DEF RecordLimited
    <2> HIDE DEF TypeInv
    <2>2. TypeOK'
        BY <1>18, <2>1, MarkType DEF RecordLimited, TypeInv
    <2>3. JobMatchesPhase'
        BY <1>18 DEF RecordLimited, EndJob, TypeInv
    <2> QED BY <2>2, <2>3 DEF TypeInv
<1>19. ASSUME NEW i \in Instances, RecordFails(i) PROVE TypeInv'
    BY <1>19 DEF RecordFails, EndJob, Fault
<1>20. CASE UNCHANGED vars
    BY <1>20 DEF vars
<1> QED
    BY <1>1, <1>2, <1>3, <1>4, <1>5, <1>6, <1>7, <1>8, <1>9, <1>10, <1>11, <1>12,
       <1>13, <1>14, <1>15, <1>16, <1>17, <1>18, <1>19, <1>20, <1>21 DEF Next

\* A selected row stays as it is until its claim ends: whoever would change it waits.
LEMMA SelectedStep == TypeInv /\ Selected /\ [Next]_vars => Selected'
<1> SUFFICES ASSUME TypeInv, Selected, [Next]_vars PROVE Selected'
    OBVIOUS
<1> USE NobodyAssumption, RowsType
    DEF TypeInv, TypeOK, JobMatchesPhase, InFlight, Selected, Claimable, Unsent,
        rowVars, commitVars, jobVars, sweepVars, signalVars, outsideVars
<1>1. ASSUME NEW i \in Instances, Start(i) \/ OnWake(i) \/ OnRetry(i) \/ OnTick(i)
      PROVE  Selected'
    <2>1. /\ pc[i] # "claiming" /\ pc' = [pc EXCEPT ![i] = "sweep"]
          /\ \A k \in Instances \ {i} : recover'[k] = recover[k]
          /\ UNCHANGED <<rowVars, jobVars>>
        BY <1>1 DEF Start, OnWake, OnRetry, OnTick, StartSweep
    <2> QED BY <2>1
<1>2. ASSUME NEW i \in Instances, Crash(i) PROVE Selected'
    BY <1>2 DEF Crash
<1>3. ASSUME NEW i \in Instances, NEW l \in Leads, Enqueue(i, l) PROVE Selected'
    BY <1>3 DEF Enqueue
<1>4. ASSUME NEW l \in Leads, DeleteLead(l) PROVE Selected'
    BY <1>4 DEF DeleteLead, RowsOf, Locked
<1>5. ASSUME NEW r \in Rows, BecomeDue(r) \/ LeaseExpires(r) PROVE Selected'
    BY <1>5 DEF BecomeDue, LeaseExpires
<1>6. ASSUME NEW i \in Instances, NEW r \in Rows, Select(i, r) PROVE Selected'
    BY <1>6 DEF Select, Locked
<1>7. ASSUME NEW i \in Instances, Claim(i) \/ ClaimFails(i) PROVE Selected'
    <2>1. /\ \A k \in Instances \ {i} : /\ pc'[k] = pc[k] /\ job'[k] = job[k]
                                          /\ tries'[k] = tries[k]
          /\ pc'[i] # "claiming" /\ recover' = recover
          /\ UNCHANGED <<status, attempts, due>>
        BY <1>7 DEF Claim, ClaimFails, WriteToken, EndJob
    <2>2. \/ UNCHANGED <<claim, expired>>
          \/ /\ pc[i] = "claiming" /\ claim' = [claim EXCEPT ![job[i]] = i]
             /\ expired' = expired \ {job[i]}
        BY <1>7 DEF Claim, ClaimFails, WriteToken
    <2>3. ASSUME NEW k \in Instances \ {i}, pc[k] = "claiming"
          PROVE  claim'[job[k]] = Nobody \/ job[k] \in expired'
        <3>1. claim[job[k]] = Nobody \/ job[k] \in expired
            BY <2>3
        <3>2. pc[i] = "claiming" => job[k] # job[i]
            BY <2>3
        <3>3. job[k] \in Rows
            BY <2>3
        <3> QED BY <2>2, <3>1, <3>2, <3>3
    <2> SUFFICES ASSUME NEW k \in Instances, pc'[k] = "claiming"
        PROVE  /\ Claimable(job[k], recover[k])' /\ tries'[k] = attempts'[job'[k]] + 1
               /\ \A j \in Instances : pc'[j] = "claiming" /\ job'[j] = job'[k] => j = k
        OBVIOUS
    <2>4. /\ k # i /\ pc[k] = "claiming" /\ job'[k] = job[k] /\ tries'[k] = tries[k]
          /\ recover'[k] = recover[k]
        BY <2>1
    <2>5. Claimable(job[k], recover[k])'
        BY <2>1, <2>3, <2>4
    <2>6. \A j \in Instances : pc'[j] = "claiming" /\ job'[j] = job'[k] => j = k
        BY <2>1, <2>4
    <2> QED BY <2>1, <2>4, <2>5, <2>6
<1>8. ASSUME NEW i \in Instances, Record(i) \/ RecordLimited(i) PROVE Selected'
    <2>1. /\ \A k \in Instances \ {i} : /\ pc'[k] = pc[k] /\ job'[k] = job[k]
                                          /\ tries'[k] = tries[k]
          /\ pc'[i] # "claiming" /\ recover' = recover
          /\ job[i] \in Rows /\ \A k \in Instances : pc[k] = "claiming" => job[k] # job[i]
        BY <1>8 DEF Record, RecordLimited, EndJob, Mark, Locked
    <2>2. ASSUME NEW r \in Rows, r # job[i]
          PROVE  /\ status'[r] = status[r] /\ attempts'[r] = attempts[r] /\ due'[r] = due[r]
                 /\ claim'[r] = claim[r] /\ (r \in expired <=> r \in expired')
        BY <1>8, <2>2 DEF Record, RecordLimited, Mark
    <2> SUFFICES ASSUME NEW k \in Instances, pc'[k] = "claiming"
        PROVE  /\ Claimable(job[k], recover[k])' /\ tries'[k] = attempts'[job'[k]] + 1
               /\ \A j \in Instances : pc'[j] = "claiming" /\ job'[j] = job'[k] => j = k
        OBVIOUS
    <2>4. /\ k # i /\ pc[k] = "claiming" /\ job'[k] = job[k] /\ tries'[k] = tries[k]
          /\ recover'[k] = recover[k] /\ job[k] \in Rows /\ job[k] # job[i]
        BY <2>1
    <2>5. Claimable(job[k], recover[k])' /\ attempts'[job[k]] = attempts[job[k]]
        BY <2>2, <2>4
    <2>6. \A j \in Instances : pc'[j] = "claiming" /\ job'[j] = job'[k] => j = k
        BY <2>1, <2>4
    <2> QED BY <2>4, <2>5, <2>6
<1>9. ASSUME NEW i \in Instances,
             \/ NothingToClaim(i) \/ BackToSelect(i) \/ Send(i) \/ RecordFails(i)
             \/ RetryTimer(i)
      PROVE  Selected'
    BY <1>9 DEF NothingToClaim, BackToSelect, Send, RecordFails, RetryTimer, EndJob
<1>10. CASE (\E l \in Leads : Wake(l)) \/ UNCHANGED vars
    BY <1>10 DEF Wake, vars
<1> QED
    BY <1>1, <1>2, <1>3, <1>4, <1>5, <1>6, <1>7, <1>8, <1>9, <1>10 DEF Next

THEOREM TypeCorrect == Spec => []TypeOK
<1>1. TypeInv => TypeOK
    BY DEF TypeInv
<1> QED BY <1>1, TypeInit, TypeStep, PTL DEF Spec
-----------------------------------------------------------------------------
(* Safety *)

LEMMA SafeInit == Init => IInv
<1> SUFFICES ASSUME Init PROVE IInv
    OBVIOUS
<1>1. TypeInv
    BY TypeInit
<1> QED
    BY <1>1, NobodyAssumption, RowsType
    DEF IInv, Init, Selected, PendingIsFresh, NotYetEnqueued, TokenGuardsCounter, Holds, InFlight,
        UndisturbedFlight, AcceptedAccounted, NoUnexplainedDuplicate, SentWasAccepted

LEMMA SafeStep == IInv /\ [Next]_vars => IInv'
<1> SUFFICES ASSUME IInv, [Next]_vars PROVE IInv'
    OBVIOUS
<1>0. TypeInv' /\ Selected'
    BY TypeStep, SelectedStep DEF IInv
<1> USE <1>0, NobodyAssumption, LimitsAssumption, RowsType
    DEF IInv, TypeInv, TypeOK, JobMatchesPhase, PendingIsFresh, NotYetEnqueued,
        TokenGuardsCounter, Holds, InFlight, UndisturbedFlight, AcceptedAccounted,
        NoUnexplainedDuplicate, SentWasAccepted,
        rowVars, commitVars, jobVars, sweepVars, signalVars, outsideVars
<1>1. ASSUME NEW i \in Instances, Start(i) PROVE IInv'
    BY <1>1 DEF Start, StartSweep
<1>2. ASSUME NEW i \in Instances, OnWake(i) PROVE IInv'
    BY <1>2 DEF OnWake, StartSweep
<1>3. ASSUME NEW i \in Instances, OnRetry(i) PROVE IInv'
    BY <1>3 DEF OnRetry, StartSweep
<1>4. ASSUME NEW i \in Instances, OnTick(i) PROVE IInv'
    BY <1>4 DEF OnTick, StartSweep
<1>5. ASSUME NEW i \in Instances, Crash(i) PROVE IInv'
    BY <1>5 DEF Crash, Fault
<1>6. ASSUME NEW i \in Instances, NEW l \in Leads, Enqueue(i, l) PROVE IInv'
    <2>1. PendingIsFresh'
        BY <1>6 DEF Enqueue
    <2>2. NotYetEnqueued'
        BY <1>6 DEF Enqueue
    <2>3. TokenGuardsCounter'
        BY <1>6 DEF Enqueue
    <2>4. UndisturbedFlight'
        BY <1>6 DEF Enqueue
    <2>5. AcceptedAccounted'
        BY <1>6 DEF Enqueue
    <2>6. NoUnexplainedDuplicate'
        BY <1>6 DEF Enqueue
    <2>7. SentWasAccepted'
        BY <1>6 DEF Enqueue
    <2> QED BY <2>1, <2>2, <2>3, <2>4, <2>5, <2>6, <2>7
<1>7. ASSUME NEW l \in Leads, Wake(l) PROVE IInv'
    BY <1>7 DEF Wake, Pushed
<1>8. ASSUME NEW l \in Leads, DeleteLead(l) PROVE IInv'
    BY <1>8 DEF DeleteLead, RowsOf
<1>9. ASSUME NEW r \in Rows, BecomeDue(r) PROVE IInv'
    BY <1>9 DEF BecomeDue
<1>10. ASSUME NEW r \in Rows, LeaseExpires(r) PROVE IInv'
    BY <1>10 DEF LeaseExpires, Fault
<1>11. ASSUME NEW i \in Instances, RetryTimer(i) PROVE IInv'
    BY <1>11 DEF RetryTimer, Pushed
<1>12. ASSUME NEW i \in Instances, NEW r \in Rows, Select(i, r) PROVE IInv'
    BY <1>12 DEF Select
<1>22. ASSUME NEW i \in Instances, pc[i] = "claiming"
       PROVE  /\ job[i] \in Rows /\ Claimable(job[i], recover[i])
              /\ tries[i] = attempts[job[i]] + 1
    BY <1>22 DEF Selected
<1>21. ASSUME NEW i \in Instances, Claim(i) PROVE IInv'
    <2> DEFINE r == job[i]
    <2>0. /\ pc[i] = "claiming" /\ r \in Rows /\ Claimable(r, recover[i])
          /\ tries[i] = attempts[r] + 1
        BY <1>21, <1>22 DEF Claim, WriteToken, r
    <2> HIDE DEF r
    <2>1. PendingIsFresh'
        BY <1>21, <2>0 DEF Claim, WriteToken, r, Claimable, Unsent
    <2>2. NotYetEnqueued'
        BY <1>21, <2>0 DEF Claim, WriteToken, r, Claimable, Unsent
    <2>3. TokenGuardsCounter'
        BY <1>21, <2>0 DEF Claim, WriteToken, r, Claimable, Unsent
    <2>4. UndisturbedFlight'
        BY <1>21, <2>0 DEF Claim, WriteToken, r, Claimable, Unsent
    <2>5. AcceptedAccounted'
        <3>1. r \notin disturbed => accepted[r] = 0
            <4>0. accepted[r] \in 0..2
                BY <2>0
            <4>1. SUFFICES ASSUME r \notin disturbed, accepted[r] > 0 PROVE FALSE
                BY <4>0
            <4>2. PICK k \in Instances : pc[k] = "answered" /\ job[k] = r
                BY <1>21, <2>0, <4>1 DEF Claim, WriteToken, r, Claimable, Unsent
            <4>3. claim[r] = k /\ r \notin expired
                BY <1>21, <2>0, <4>1, <4>2 DEF Claim, WriteToken, r, Claimable, Unsent
            <4> QED BY <1>21, <2>0, <4>3 DEF Claim, WriteToken, r, Claimable
        <3>2. ASSUME NEW k \in Instances, pc'[k] = "sending", job'[k] \notin disturbed'
              PROVE  accepted'[job'[k]] = 0
            BY <1>21, <2>0, <3>1, <3>2 DEF Claim, WriteToken, r
        <3>3. ASSUME NEW s \in Rows \ disturbed',
                     status'[s] \in {"none", "pending", "failed"}, accepted'[s] > 0
              PROVE  \E k \in Instances :
                        pc'[k] = "answered" /\ job'[k] = s /\ answer'[k] = "accepted"
            <4>1. PICK k \in Instances :
                        pc[k] = "answered" /\ job[k] = s /\ answer[k] = "accepted"
                BY <1>21, <2>0, <3>3 DEF Claim, WriteToken, r
            <4> QED BY <1>21, <2>0, <4>1 DEF Claim, WriteToken, r
        <3>4. ASSUME NEW k \in Instances, pc'[k] = "answered", answer'[k] = "accepted"
              PROVE  accepted'[job'[k]] > 0
            BY <1>21, <2>0, <3>4 DEF Claim, WriteToken, r
        <3> QED BY <3>2, <3>3, <3>4 DEF AcceptedAccounted
    <2>6. NoUnexplainedDuplicate'
        BY <1>21, <2>0 DEF Claim, WriteToken, r, Claimable, Unsent
    <2>7. SentWasAccepted'
        BY <1>21, <2>0 DEF Claim, WriteToken, r, Claimable, Unsent
    <2> QED BY <2>1, <2>2, <2>3, <2>4, <2>5, <2>6, <2>7
<1>13. ASSUME NEW i \in Instances, NothingToClaim(i) PROVE IInv'
    BY <1>13 DEF NothingToClaim
<1>14. ASSUME NEW i \in Instances, BackToSelect(i) PROVE IInv'
    BY <1>14 DEF BackToSelect
<1>15. ASSUME NEW i \in Instances, ClaimFails(i) PROVE IInv'
    BY <1>15, <1>22 DEF ClaimFails, WriteToken, EndJob, Fault, Claimable
<1>16. ASSUME NEW i \in Instances, Send(i) PROVE IInv'
    <2>1. PendingIsFresh'
        BY <1>16 DEF Send, Answers
    <2>2. NotYetEnqueued'
        BY <1>16 DEF Send, Answers
    <2>3. TokenGuardsCounter'
        BY <1>16 DEF Send, Answers
    <2>4. UndisturbedFlight'
        BY <1>16 DEF Send, Answers
    <2>5. AcceptedAccounted'
        <3>1. PICK a \in Answers(job[i][2]) :
                /\ answer' = [answer EXCEPT ![i] = a]
                /\ accepted' = IF a \in {"accepted", "lost"} /\ accepted[job[i]] < 2
                               THEN [accepted EXCEPT ![job[i]] = @ + 1]
                               ELSE accepted
                /\ disturbed' = IF a = "lost" THEN disturbed \cup {job[i]} ELSE disturbed
            BY <1>16 DEF Send
        <3>2. /\ pc[i] = "sending" /\ job[i] \in Rows
              /\ pc' = [pc EXCEPT ![i] = "answered"] /\ job' = job /\ status' = status
            BY <1>16 DEF Send
        <3>3. ASSUME NEW k \in Instances, pc'[k] = "sending", job'[k] \notin disturbed'
              PROVE  accepted'[job'[k]] = 0
            <4>1. k # i /\ pc[k] = "sending" /\ job[k] \notin disturbed
                BY <3>1, <3>2, <3>3
            <4>2. job[k] # job[i]
                BY <3>2, <4>1
            <4> QED BY <3>1, <3>2, <4>1, <4>2
        <3>4. ASSUME NEW s \in Rows \ disturbed',
                     status'[s] \in {"none", "pending", "failed"}, accepted'[s] > 0
              PROVE  \E k \in Instances :
                        pc'[k] = "answered" /\ job'[k] = s /\ answer'[k] = "accepted"
            <4>1. s \notin disturbed
                BY <3>1, <3>4
            <4>2. CASE s = job[i]
                <5>1. accepted[s] = 0
                    BY <3>2, <4>1, <4>2
                <5>2. a = "accepted"
                    BY <3>1, <3>2, <3>4, <4>2, <5>1
                <5> QED BY <3>1, <3>2, <4>2, <5>2
            <4>3. CASE s # job[i]
                <5>1. accepted[s] > 0
                    BY <3>1, <3>2, <3>4, <4>3
                <5>2. PICK k \in Instances :
                        pc[k] = "answered" /\ job[k] = s /\ answer[k] = "accepted"
                    BY <3>2, <3>4, <4>1, <5>1
                <5> QED BY <3>1, <3>2, <5>2
            <4> QED BY <4>2, <4>3
        <3>5. ASSUME NEW k \in Instances, pc'[k] = "answered", answer'[k] = "accepted"
              PROVE  accepted'[job'[k]] > 0
            <4>1. CASE k = i
                <5>1. accepted[job[i]] \in 0..2
                    BY <3>2
                <5>2. a = "accepted"
                    BY <3>1, <3>5, <4>1
                <5>3. CASE accepted[job[i]] < 2
                    BY <3>1, <3>2, <4>1, <5>1, <5>2, <5>3
                <5>4. CASE accepted[job[i]] = 2
                    BY <3>1, <3>2, <4>1, <5>2, <5>4
                <5> QED BY <5>1, <5>3, <5>4
            <4>2. CASE k # i
                <5>1. job'[k] = job[k] /\ job[k] \in Rows /\ accepted[job[k]] > 0
                    BY <3>1, <3>2, <3>5, <4>2
                <5>2. accepted[job[k]] \in 0..2 /\ accepted[job[i]] \in 0..2
                    BY <3>2, <5>1
                <5>3. CASE accepted' = accepted
                    BY <5>1, <5>3
                <5>4. CASE accepted' = [accepted EXCEPT ![job[i]] = @ + 1]
                    BY <3>2, <5>1, <5>2, <5>4
                <5> QED BY <3>1, <5>3, <5>4
            <4> QED BY <4>1, <4>2
        <3> QED BY <3>3, <3>4, <3>5 DEF AcceptedAccounted
    <2>6. NoUnexplainedDuplicate'
        BY <1>16 DEF Send, Answers
    <2>7. SentWasAccepted'
        BY <1>16 DEF Send, Answers
    <2> QED BY <2>1, <2>2, <2>3, <2>4, <2>5, <2>6, <2>7
<1>17. ASSUME NEW i \in Instances, Record(i) PROVE IInv'
    <2>1. PendingIsFresh'
        BY <1>17 DEF Record, Mark, TokenMatches, Outcome, EndJob
    <2>2. NotYetEnqueued'
        BY <1>17 DEF Record, Mark, TokenMatches, Outcome, EndJob
    <2>3. TokenGuardsCounter'
        <3>1. /\ job[i] \in Rows /\ \A k \in Instances \ {i} :
                    pc'[k] = pc[k] /\ job'[k] = job[k] /\ tries'[k] = tries[k]
              /\ pc'[i] \notin {"sending", "answered"}
            BY <1>17 DEF Record, EndJob
        <3>2. ASSUME NEW r \in Rows, r # job[i] \/ ~TokenMatches(i)
              PROVE  /\ status'[r] = status[r] /\ attempts'[r] = attempts[r]
                     /\ claim'[r] = claim[r]
            BY <1>17, <3>1, <3>2 DEF Record, Mark
        <3>3. TokenMatches(i) => claim'[job[i]] = Nobody
            BY <1>17, <3>1 DEF Record, Mark
        <3> SUFFICES ASSUME NEW k \in Instances, NEW r \in Rows, Holds(k, r)'
            PROVE  /\ status'[r] \in {"pending", "failed"} /\ tries'[k] = attempts'[r] + 1
                   /\ \A j \in Instances \ {k} : ~Holds(j, r)'
            OBVIOUS
        <3>4. k # i /\ (r # job[i] \/ ~TokenMatches(i))
            BY <3>1, <3>3
        <3>5. Holds(k, r) /\ \A j \in Instances : Holds(j, r)' => Holds(j, r)
            BY <3>1, <3>2, <3>4
        <3> QED BY <3>1, <3>2, <3>4, <3>5
    <2>4. UndisturbedFlight'
        BY <1>17 DEF Record, Mark, TokenMatches, Outcome, EndJob
    <2>5. AcceptedAccounted'
        BY <1>17 DEF Record, Mark, TokenMatches, Outcome, EndJob
    <2>6. NoUnexplainedDuplicate'
        BY <1>17 DEF Record, Mark, TokenMatches, Outcome, EndJob
    <2>7. SentWasAccepted'
        BY <1>17 DEF Record, Mark, TokenMatches, Outcome, EndJob
    <2> QED BY <2>1, <2>2, <2>3, <2>4, <2>5, <2>6, <2>7
<1>18. ASSUME NEW i \in Instances, RecordLimited(i) PROVE IInv'
    <2>1. PendingIsFresh'
        BY <1>18 DEF RecordLimited, Mark, TokenMatches, EndJob
    <2>2. NotYetEnqueued'
        BY <1>18 DEF RecordLimited, Mark, TokenMatches, EndJob
    <2>3. TokenGuardsCounter'
        <3>1. /\ job[i] \in Rows /\ \A k \in Instances \ {i} :
                    pc'[k] = pc[k] /\ job'[k] = job[k] /\ tries'[k] = tries[k]
              /\ pc'[i] \notin {"sending", "answered"}
            BY <1>18 DEF RecordLimited, EndJob
        <3>2. ASSUME NEW r \in Rows, r # job[i] \/ ~TokenMatches(i)
              PROVE  /\ status'[r] = status[r] /\ attempts'[r] = attempts[r]
                     /\ claim'[r] = claim[r]
            BY <1>18, <3>1, <3>2 DEF RecordLimited, Mark
        <3>3. TokenMatches(i) => claim'[job[i]] = Nobody
            BY <1>18, <3>1 DEF RecordLimited, Mark
        <3> SUFFICES ASSUME NEW k \in Instances, NEW r \in Rows, Holds(k, r)'
            PROVE  /\ status'[r] \in {"pending", "failed"} /\ tries'[k] = attempts'[r] + 1
                   /\ \A j \in Instances \ {k} : ~Holds(j, r)'
            OBVIOUS
        <3>4. k # i /\ (r # job[i] \/ ~TokenMatches(i))
            BY <3>1, <3>3
        <3>5. Holds(k, r) /\ \A j \in Instances : Holds(j, r)' => Holds(j, r)
            BY <3>1, <3>2, <3>4
        <3> QED BY <3>1, <3>2, <3>4, <3>5
    <2>4. UndisturbedFlight'
        BY <1>18 DEF RecordLimited, Mark, TokenMatches, EndJob
    <2>5. AcceptedAccounted'
        BY <1>18 DEF RecordLimited, Mark, TokenMatches, EndJob
    <2>6. NoUnexplainedDuplicate'
        BY <1>18 DEF RecordLimited, Mark, TokenMatches, EndJob
    <2>7. SentWasAccepted'
        BY <1>18 DEF RecordLimited, Mark, TokenMatches, EndJob
    <2> QED BY <2>1, <2>2, <2>3, <2>4, <2>5, <2>6, <2>7
<1>19. ASSUME NEW i \in Instances, RecordFails(i) PROVE IInv'
    BY <1>19 DEF RecordFails, EndJob, Fault
<1>20. CASE UNCHANGED vars
    BY <1>20 DEF vars
<1> QED
    BY <1>1, <1>2, <1>3, <1>4, <1>5, <1>6, <1>7, <1>8, <1>9, <1>10, <1>11, <1>12,
       <1>13, <1>14, <1>15, <1>16, <1>17, <1>18, <1>19, <1>20, <1>21 DEF Next

LEMMA Safe == Spec => []IInv
BY SafeInit, SafeStep, PTL DEF Spec

\* A notification is repeated only after a disturbance: however many dispatchers
\* overlap, retries and sweeps alone never send one twice.
THEOREM DuplicateNeedsDisturbance == Spec => []NoUnexplainedDuplicate
<1>1. IInv => NoUnexplainedDuplicate
    BY DEF IInv
<1> QED BY <1>1, Safe, PTL

\* No row is marked sent before its destination took the message.
THEOREM SentMeansAccepted == Spec => []SentWasAccepted
<1>1. IInv => SentWasAccepted
    BY DEF IInv
<1> QED BY <1>1, Safe, PTL

\* At most one dispatcher may record a result on a row, from a fresh counter.
THEOREM OneRecorderPerRow == Spec => []TokenGuardsCounter
<1>1. IInv => TokenGuardsCounter
    BY DEF IInv
<1> QED BY <1>1, Safe, PTL

-----------------------------------------------------------------------------
(* Wakes *)

LEMMA SignalInit == Init => Signalled
BY DEF Init, Signalled

LEMMA SignalStep == IInv /\ Signalled /\ [Next]_vars => Signalled'
<1> SUFFICES ASSUME IInv, Signalled, [Next]_vars PROVE Signalled'
    OBVIOUS
<1>0. TypeInv'
    BY TypeStep DEF IInv
<1> USE <1>0, NobodyAssumption, LimitsAssumption, RowsType
    DEF IInv, TypeInv, TypeOK, PendingIsFresh, Signalled,
        rowVars, commitVars, jobVars, sweepVars, signalVars, outsideVars
<1>1. ASSUME NEW i \in Instances, Start(i) PROVE Signalled'
    BY <1>1 DEF Start, StartSweep
<1>2. ASSUME NEW i \in Instances, OnWake(i) PROVE Signalled'
    BY <1>2 DEF OnWake, StartSweep
<1>3. ASSUME NEW i \in Instances, OnRetry(i) PROVE Signalled'
    BY <1>3 DEF OnRetry, StartSweep
<1>4. ASSUME NEW i \in Instances, OnTick(i) PROVE Signalled'
    BY <1>4 DEF OnTick, StartSweep
<1>5. ASSUME NEW i \in Instances, Crash(i) PROVE Signalled'
    BY <1>5 DEF Crash, Fault
<1>6. ASSUME NEW i \in Instances, NEW l \in Leads, Enqueue(i, l) PROVE Signalled'
    BY <1>6 DEF Enqueue
<1>7. ASSUME NEW l \in Leads, Wake(l) PROVE Signalled'
    BY <1>7 DEF Wake, Pushed
<1>8. ASSUME NEW l \in Leads, DeleteLead(l) PROVE Signalled'
    BY <1>8 DEF DeleteLead, RowsOf
<1>9. ASSUME NEW r \in Rows, BecomeDue(r) PROVE Signalled'
    BY <1>9 DEF BecomeDue
<1>10. ASSUME NEW r \in Rows, LeaseExpires(r) PROVE Signalled'
    BY <1>10 DEF LeaseExpires, Fault
<1>11. ASSUME NEW i \in Instances, RetryTimer(i) PROVE Signalled'
    BY <1>11 DEF RetryTimer, Pushed
<1>12. ASSUME NEW i \in Instances, NEW r \in Rows, Select(i, r) PROVE Signalled'
    BY <1>12 DEF Select
<1>21. ASSUME NEW i \in Instances, Claim(i) PROVE Signalled'
    BY <1>21 DEF Claim, WriteToken
<1>13. ASSUME NEW i \in Instances, NothingToClaim(i) PROVE Signalled'
    BY <1>13 DEF NothingToClaim, Claimable, Unsent
<1>14. ASSUME NEW i \in Instances, BackToSelect(i) PROVE Signalled'
    BY <1>14 DEF BackToSelect
<1>15. ASSUME NEW i \in Instances, ClaimFails(i) PROVE Signalled'
    BY <1>15 DEF ClaimFails, WriteToken, Fault
<1>16. ASSUME NEW i \in Instances, Send(i) PROVE Signalled'
    BY <1>16 DEF Send, Answers
<1>17. ASSUME NEW i \in Instances, Record(i) PROVE Signalled'
    <2>1. /\ pc[i] = "answered" /\ job[i] \in Rows /\ pc' = [pc EXCEPT ![i] = "sweep"]
          /\ UNCHANGED <<commitVars, cut, skipped, signalVars>>
        BY <1>17 DEF Record, JobMatchesPhase, InFlight
    <2>2. ASSUME NEW r \in Rows, status'[r] = "pending"
          PROVE  status[r] = "pending" /\ claim'[r] = claim[r]
        BY <1>17, <2>1, <2>2 DEF Record, Mark, Outcome
    <2> QED BY <2>1, <2>2
<1>18. ASSUME NEW i \in Instances, RecordLimited(i) PROVE Signalled'
    BY <1>18 DEF RecordLimited, Mark, TokenMatches, EndJob
<1>19. ASSUME NEW i \in Instances, RecordFails(i) PROVE Signalled'
    BY <1>19 DEF RecordFails, EndJob, Fault
<1>20. CASE UNCHANGED vars
    BY <1>20 DEF vars
<1> QED
    BY <1>1, <1>2, <1>3, <1>4, <1>5, <1>6, <1>7, <1>8, <1>9, <1>10, <1>11, <1>12,
       <1>13, <1>14, <1>15, <1>16, <1>17, <1>18, <1>19, <1>20, <1>21 DEF Next

\* No commit is lost between the request and the dispatcher of its process.
THEOREM NoWakeIsLost == Spec => []NoLostWake
<1>1. Signalled => NoLostWake
    BY DEF Signalled, NoLostWake
<1> QED BY <1>1, Safe, SignalInit, SignalStep, PTL DEF Spec

-----------------------------------------------------------------------------
(* Steps *)

LEMMA StepOnlyAdvances ==
    ASSUME IInv, [Next]_vars, NEW s \in Rows
    PROVE  /\ status[s] = "sent" => status'[s] \in {"sent", "deleted"}
           /\ attempts'[s] \in {attempts[s], attempts[s] + 1}
           /\ attempts'[s] # attempts[s] => claim[s] # Nobody /\ claim'[s] = Nobody
<1> DEFINE Goal ==
        /\ status[s] = "sent" => status'[s] \in {"sent", "deleted"}
        /\ attempts'[s] \in {attempts[s], attempts[s] + 1}
        /\ attempts'[s] # attempts[s] => claim[s] # Nobody /\ claim'[s] = Nobody
<1> USE NobodyAssumption, LimitsAssumption, RowsType
    DEF IInv, TypeInv, TypeOK, JobMatchesPhase, NotYetEnqueued, TokenGuardsCounter, Holds,
        InFlight, rowVars, commitVars, jobVars, sweepVars, signalVars, outsideVars
<1>1. ASSUME NEW i \in Instances, Start(i) PROVE Goal
    BY <1>1 DEF Start, StartSweep
<1>2. ASSUME NEW i \in Instances, OnWake(i) PROVE Goal
    BY <1>2 DEF OnWake, StartSweep
<1>3. ASSUME NEW i \in Instances, OnRetry(i) PROVE Goal
    BY <1>3 DEF OnRetry, StartSweep
<1>4. ASSUME NEW i \in Instances, OnTick(i) PROVE Goal
    BY <1>4 DEF OnTick, StartSweep
<1>5. ASSUME NEW i \in Instances, Crash(i) PROVE Goal
    BY <1>5 DEF Crash, Fault
<1>6. ASSUME NEW i \in Instances, NEW l \in Leads, Enqueue(i, l) PROVE Goal
    BY <1>6 DEF Enqueue
<1>7. ASSUME NEW l \in Leads, Wake(l) PROVE Goal
    BY <1>7 DEF Wake, Pushed
<1>8. ASSUME NEW l \in Leads, DeleteLead(l) PROVE Goal
    BY <1>8 DEF DeleteLead, RowsOf
<1>9. ASSUME NEW r \in Rows, BecomeDue(r) PROVE Goal
    BY <1>9 DEF BecomeDue
<1>10. ASSUME NEW r \in Rows, LeaseExpires(r) PROVE Goal
    BY <1>10 DEF LeaseExpires, Fault
<1>11. ASSUME NEW i \in Instances, RetryTimer(i) PROVE Goal
    BY <1>11 DEF RetryTimer, Pushed
<1>12. ASSUME NEW i \in Instances, NEW r \in Rows, Select(i, r) PROVE Goal
    BY <1>12 DEF Select
<1>21. ASSUME NEW i \in Instances, Claim(i) PROVE Goal
    BY <1>21 DEF Claim, WriteToken
<1>13. ASSUME NEW i \in Instances, NothingToClaim(i) PROVE Goal
    BY <1>13 DEF NothingToClaim, Claimable, Unsent
<1>14. ASSUME NEW i \in Instances, BackToSelect(i) PROVE Goal
    BY <1>14 DEF BackToSelect
<1>15. ASSUME NEW i \in Instances, ClaimFails(i) PROVE Goal
    BY <1>15 DEF ClaimFails, WriteToken, Fault
<1>16. ASSUME NEW i \in Instances, Send(i) PROVE Goal
    BY <1>16 DEF Send, Answers
<1>17. ASSUME NEW i \in Instances, Record(i) PROVE Goal
    BY <1>17 DEF Record, Mark, TokenMatches, Outcome, EndJob
<1>18. ASSUME NEW i \in Instances, RecordLimited(i) PROVE Goal
    BY <1>18 DEF RecordLimited, Mark, TokenMatches, EndJob
<1>19. ASSUME NEW i \in Instances, RecordFails(i) PROVE Goal
    BY <1>19 DEF RecordFails, EndJob, Fault
<1>20. CASE UNCHANGED vars
    BY <1>20 DEF vars
<1> QED
    BY <1>1, <1>2, <1>3, <1>4, <1>5, <1>6, <1>7, <1>8, <1>9, <1>10, <1>11, <1>12,
       <1>13, <1>14, <1>15, <1>16, <1>17, <1>18, <1>19, <1>20, <1>21 DEF Next

\* A recorded delivery is final and the attempt counter only counts up, by the
\* dispatcher that held the row.
THEOREM RowsNeverGoBack == Spec => RowsOnlyAdvance
<1>1. IInv /\ [Next]_vars =>
        [\A r \in Rows :
            /\ status[r] = "sent" => status'[r] \in {"sent", "deleted"}
            /\ attempts'[r] \in {attempts[r], attempts[r] + 1}
            /\ attempts'[r] # attempts[r] => claim[r] # Nobody /\ claim'[r] = Nobody]_vars
    BY StepOnlyAdvances
<1> QED BY <1>1, Safe, PTL DEF Spec, RowsOnlyAdvance

-----------------------------------------------------------------------------
(* Refinement of Delivery *)

LEMMA DebtKept == UNCHANGED <<status, attempts>> => UNCHANGED Debt
BY DEF Debt

LEMMA DebtOf ==
    ASSUME NEW r \in Rows
    PROVE  /\ status[r] = "none" => Debt[r] = "none"
           /\ status[r] = "pending" => Debt[r] = "owed"
           /\ status[r] = "sent" => Debt[r] = "delivered"
           /\ status[r] = "deleted" => Debt[r] = "withdrawn"
           /\ status[r] = "failed" /\ attempts[r] = MaxAttempts => Debt[r] = "abandoned"
           /\ status[r] = "failed" /\ attempts[r] # MaxAttempts => Debt[r] = "owed"
BY DEF Debt

LEMMA DebtOfPrime ==
    ASSUME NEW r \in Rows
    PROVE  /\ status'[r] = "none" => Debt'[r] = "none"
           /\ status'[r] = "pending" => Debt'[r] = "owed"
           /\ status'[r] = "sent" => Debt'[r] = "delivered"
           /\ status'[r] = "deleted" => Debt'[r] = "withdrawn"
           /\ status'[r] = "failed" /\ attempts'[r] = MaxAttempts => Debt'[r] = "abandoned"
           /\ status'[r] = "failed" /\ attempts'[r] # MaxAttempts => Debt'[r] = "owed"
BY DEF Debt

LEMMA DebtIsFunction ==
    /\ DOMAIN Debt = Rows /\ Debt = [r \in Rows |-> Debt[r]]
    /\ DOMAIN Debt' = Rows /\ Debt' = [r \in Rows |-> Debt'[r]]
BY DEF Debt

LEMMA PromiseInit == Init => Promise!Init
BY DEF Init, Promise!Init, Debt

\* The mark of one row settles that row's debt or leaves it owed.
LEMMA MarkSettles ==
    ASSUME IInv, NEW i \in Instances, pc[i] = "answered",
           NEW outcome \in {"sent", "failed"}, Mark(i, outcome)
    PROVE  Promise!Next \/ UNCHANGED Debt
<1> USE DEF IInv, TypeInv, TypeOK, JobMatchesPhase, InFlight
<1>1. CASE ~TokenMatches(i)
    BY <1>1, DebtKept DEF Mark, rowVars
<1>2. CASE TokenMatches(i)
    <2>1. job[i] \in Rows
        OBVIOUS
    <2>2. status[job[i]] \in {"pending", "failed"} /\ tries[i] = attempts[job[i]] + 1
        BY <1>2, <2>1 DEF TokenGuardsCounter, Holds, TokenMatches
    <2>3. attempts[job[i]] # MaxAttempts
        BY <2>1, <2>2, LimitsAssumption
    <2>4. Debt[job[i]] = "owed"
        BY <2>1, <2>2, <2>3, DebtOf
    <2>5. ASSUME NEW r \in Rows, r # job[i] PROVE Debt'[r] = Debt[r]
        BY <1>2, <2>5 DEF Mark, Debt
    <2>6. status'[job[i]] = outcome
        BY <1>2, <2>1 DEF Mark
    <2>7. Debt'[job[i]] \in {"owed", "delivered", "abandoned"}
        BY <2>1, <2>6, DebtOfPrime
    <2>8. CASE Debt'[job[i]] = "owed"
        BY <2>4, <2>5, <2>8, DebtIsFunction
    <2>9. CASE Debt'[job[i]] # "owed"
        <3>1. Debt' = [Debt EXCEPT ![job[i]] = Debt'[job[i]]]
            BY <2>1, <2>5, DebtIsFunction
        <3>2. Promise!Settle(job[i])
            BY <2>4, <2>7, <2>9, <3>1 DEF Promise!Settle
        <3> QED BY <2>1, <3>2 DEF Promise!Next
    <2> QED BY <2>8, <2>9
<1> QED BY <1>1, <1>2

LEMMA PromiseStep == IInv /\ [Next]_vars => Promise!Next \/ UNCHANGED Debt
<1> SUFFICES ASSUME IInv, [Next]_vars PROVE Promise!Next \/ UNCHANGED Debt
    OBVIOUS
<1> USE DEF rowVars
<1>1. ASSUME NEW i \in Instances, Start(i) PROVE UNCHANGED Debt
    BY <1>1, DebtKept DEF Start, StartSweep
<1>2. ASSUME NEW i \in Instances, OnWake(i) PROVE UNCHANGED Debt
    BY <1>2, DebtKept DEF OnWake, StartSweep
<1>3. ASSUME NEW i \in Instances, OnRetry(i) PROVE UNCHANGED Debt
    BY <1>3, DebtKept DEF OnRetry, StartSweep
<1>4. ASSUME NEW i \in Instances, OnTick(i) PROVE UNCHANGED Debt
    BY <1>4, DebtKept DEF OnTick, StartSweep
<1>5. ASSUME NEW i \in Instances, Crash(i) PROVE UNCHANGED Debt
    BY <1>5, DebtKept DEF Crash
<1>6. ASSUME NEW l \in Leads, Wake(l) PROVE UNCHANGED Debt
    BY <1>6, DebtKept DEF Wake
<1>7. ASSUME NEW r \in Rows, BecomeDue(r) PROVE UNCHANGED Debt
    BY <1>7, DebtKept DEF BecomeDue
<1>8. ASSUME NEW r \in Rows, LeaseExpires(r) PROVE UNCHANGED Debt
    BY <1>8, DebtKept DEF LeaseExpires
<1>9. ASSUME NEW i \in Instances, RetryTimer(i) PROVE UNCHANGED Debt
    BY <1>9, DebtKept DEF RetryTimer
<1>10. ASSUME NEW i \in Instances, NEW r \in Rows, Select(i, r) PROVE UNCHANGED Debt
    BY <1>10, DebtKept DEF Select
<1>21. ASSUME NEW i \in Instances, Claim(i) PROVE UNCHANGED Debt
    BY <1>21, DebtKept DEF Claim, WriteToken
<1>11. ASSUME NEW i \in Instances, NothingToClaim(i) PROVE UNCHANGED Debt
    BY <1>11, DebtKept DEF NothingToClaim
<1>12. ASSUME NEW i \in Instances, BackToSelect(i) PROVE UNCHANGED Debt
    BY <1>12, DebtKept DEF BackToSelect
<1>13. ASSUME NEW i \in Instances, ClaimFails(i) PROVE UNCHANGED Debt
    BY <1>13, DebtKept DEF ClaimFails, WriteToken
<1>14. ASSUME NEW i \in Instances, Send(i) PROVE UNCHANGED Debt
    BY <1>14, DebtKept DEF Send
<1>15. ASSUME NEW i \in Instances, RecordFails(i) PROVE UNCHANGED Debt
    BY <1>15, DebtKept DEF RecordFails
<1>16. ASSUME NEW i \in Instances, NEW l \in Leads, Enqueue(i, l) PROVE Promise!Next
    <2>1. ASSUME NEW r \in Rows, r[1] = l PROVE Debt[r] = "none" /\ Debt'[r] = "owed"
        <3>1. status[r] = "none" /\ status'[r] = "pending"
            BY <1>16, <2>1 DEF Enqueue, IInv, NotYetEnqueued
        <3> QED BY <3>1, DebtOf, DebtOfPrime
    <2>2. ASSUME NEW r \in Rows, r[1] # l PROVE Debt'[r] = Debt[r]
        BY <1>16, <2>2 DEF Enqueue, Debt
    <2>3. Debt' = [r \in Rows |-> IF r[1] = l THEN "owed" ELSE Debt[r]]
        BY <2>1, <2>2, DebtIsFunction
    <2> QED BY <2>1, <2>3 DEF Promise!Next, Promise!Owe
<1>17. ASSUME NEW l \in Leads, DeleteLead(l) PROVE Promise!Next \/ UNCHANGED Debt
    <2>1. ASSUME NEW r \in Rows, r[1] = l PROVE Debt'[r] = "withdrawn"
        BY <1>17, <2>1, DebtOfPrime DEF DeleteLead
    <2>2. ASSUME NEW r \in Rows, r[1] # l PROVE Debt'[r] = Debt[r]
        BY <1>17, <2>2 DEF DeleteLead, Debt
    <2>3. Debt' = [r \in Rows |-> IF r[1] = l THEN "withdrawn" ELSE Debt[r]]
        BY <2>1, <2>2, DebtIsFunction
    <2>4. ASSUME NEW r \in Rows, r[1] = l PROVE Debt[r] # "none"
        <3>1. status[r] \in Statuses \ {"none"}
            BY <1>17, <2>4 DEF DeleteLead, IInv, TypeInv, TypeOK, NotYetEnqueued
        <3> QED BY <3>1, DebtOf DEF Statuses
    <2> QED BY <2>3, <2>4 DEF Promise!Next, Promise!Withdraw
<1>18. ASSUME NEW i \in Instances, Record(i) PROVE Promise!Next \/ UNCHANGED Debt
    BY <1>18, MarkSettles DEF Record, Outcome
<1>19. ASSUME NEW i \in Instances, RecordLimited(i) PROVE Promise!Next \/ UNCHANGED Debt
    BY <1>19, MarkSettles DEF RecordLimited
<1>20. CASE UNCHANGED vars
    BY <1>20, DebtKept DEF vars
<1> QED
    BY <1>1, <1>2, <1>3, <1>4, <1>5, <1>6, <1>7, <1>8, <1>9, <1>10, <1>11, <1>12,
       <1>13, <1>14, <1>15, <1>16, <1>17, <1>18, <1>19, <1>20, <1>21 DEF Next

\* The outbox implements the safety part of Delivery: every debt is settled at
\* most once, on its own, and never reopened.
THEOREM OutboxImplementsDelivery == Spec => SettlesOnce
<1>1. IInv /\ [Next]_vars => [Promise!Next]_Debt
    BY PromiseStep
<1> QED BY <1>1, Safe, PromiseInit, PTL DEF Spec, SettlesOnce

=============================================================================
