-------------------------- MODULE MetaInboxProofs --------------------------
(***************************************************************************)
(* Proofs about MetaInbox for every set of workers and submissions and all *)
(* limits.                                                                 *)
(***************************************************************************)
EXTENDS MetaInbox, TLAPS

-----------------------------------------------------------------------------
(* The inductive invariant *)

\* A worker has an event exactly while it processes one, and counts it.
JobMatchesPhase ==
    \A w \in Workers : /\ InFlight(w) <=> job[w] # Nobody
                       /\ pc[w] \in {"claimed", "fetched", "failing", "dying"}
                            => count[w] < BatchSize

\* Only a claimed event is in processing.
ClaimedIsProcessing ==
    \A e \in Leadgens : claim[e] # Nobody => status[e] = "processing"

\* A worker that did not stall still has its claim, unless its commit took
\* effect and only the answer was lost.
UnstalledFlight ==
    \A w \in Workers :
        (InFlight(w) /\ job[w] \notin stalled)
        => \/ claim[job[w]] = w /\ job[w] \notin expired
           \/ pc[w] = "failing" /\ status[job[w]] = "processed"

\* Without a stall, a submission with a lead is processed.
LeadIsProcessed ==
    \A e \in Leadgens \ stalled : lead[e] # "none" => status[e] = "processed"

ProcessedHadLead ==
    \A e \in Leadgens : status[e] = "processed" => lead[e] # "none"

DeletionsRecorded ==
    \A e \in Leadgens : lead[e] = "deleted" => e \in deleted

TypeInv == TypeOK /\ JobMatchesPhase

IInv ==
    /\ TypeInv
    /\ ClaimedIsProcessing
    /\ UnstalledFlight
    /\ LeadIsProcessed
    /\ ProcessedHadLead
    /\ DeletionsRecorded
    /\ NotifiedOnce

-----------------------------------------------------------------------------
(* Type correctness *)

LEMMA TypeInit == Init => TypeInv
<1> SUFFICES ASSUME Init PROVE TypeInv
    OBVIOUS
<1>0. known \in BOOLEAN /\ graph \in BOOLEAN
    BY Zenon DEF Init
<1>1. /\ submitted \in SUBSET Leadgens /\ outages \in 0..MaxOutages
      /\ status \in [Leadgens -> Statuses] /\ complete \in SUBSET Leadgens
      /\ attempts \in [Leadgens -> 0..MaxAttempts]
    BY LimitsAssumption DEF Init, Statuses
<1>2. /\ due \in [Leadgens -> BOOLEAN]
      /\ claim \in [Leadgens -> Workers \cup {Nobody}] /\ expired \in SUBSET Leadgens
      /\ lead \in [Leadgens -> {"none", "present", "deleted"}]
      /\ pc \in [Workers -> Phases] /\ retries \in [Workers -> BOOLEAN]
    BY DEF Init, Phases
<1>3. /\ count \in [Workers -> 0..BatchSize] /\ job \in [Workers -> Leadgens \cup {Nobody}]
      /\ seen \in [Workers -> 0..(MaxAttempts - 1)] /\ wake \in [Workers -> BOOLEAN]
      /\ faults \in 0..MaxFaults /\ notified \in [Leadgens -> 0..2]
      /\ deleted \in SUBSET Leadgens /\ stalled \in SUBSET Leadgens
    BY LimitsAssumption DEF Init
<1>4. JobMatchesPhase
    BY DEF Init, JobMatchesPhase, InFlight
<1> QED BY <1>0, <1>1, <1>2, <1>3, <1>4 DEF TypeInv, TypeOK

LEMMA TypeStep == TypeInv /\ [Next]_vars => TypeInv'
<1> SUFFICES ASSUME TypeInv, [Next]_vars PROVE TypeInv'
    OBVIOUS
<1> USE LimitsAssumption, NobodyAssumption, LeadgensAssumption
    DEF TypeInv, TypeOK, JobMatchesPhase, InFlight, Statuses, Phases,
        metaVars, inboxVars, crmVars, loopVars
<1>1. ASSUME NEW e \in Leadgens, Submit(e) PROVE TypeInv'
    BY <1>1 DEF Submit
<1>2. ASSUME NEW e \in Leadgens, DeleteLead(e) PROVE TypeInv'
    BY <1>2 DEF DeleteLead
<1>3. ASSUME NEW e \in Leadgens, BecomeDue(e) PROVE TypeInv'
    BY <1>3 DEF BecomeDue
<1>4. ASSUME NEW e \in Leadgens, LeaseExpires(e) PROVE TypeInv'
    BY <1>4 DEF LeaseExpires, Fault
<1>5. ASSUME GraphFails PROVE TypeInv'
    <2>1. graph' \in BOOLEAN
        BY <1>5, Zenon DEF GraphFails
    <2>2. outages' \in 0..MaxOutages
        BY <1>5 DEF GraphFails
    <2> QED BY <1>5, <2>1, <2>2 DEF GraphFails
<1>6. ASSUME GraphRecovers PROVE TypeInv'
    BY <1>6 DEF GraphRecovers
<1>7. ASSUME ConfigurePage PROVE TypeInv'
    BY <1>7 DEF ConfigurePage
<1>8. ASSUME NEW w \in Workers, Start(w) PROVE TypeInv'
    BY <1>8 DEF Start, StartBatch
<1>9. ASSUME NEW w \in Workers, Crash(w) PROVE TypeInv'
    BY <1>9 DEF Crash, Fault
<1>10. ASSUME NEW w \in Workers, OnWake(w) PROVE TypeInv'
    BY <1>10 DEF OnWake, StartBatch
<1>11. ASSUME NEW w \in Workers, OnTick(w) PROVE TypeInv'
    BY <1>11 DEF OnTick, StartBatch
<1>12. ASSUME NEW w \in Workers, NEW e \in Leadgens, Webhook(w, e) PROVE TypeInv'
    BY <1>12 DEF Webhook, NewEvent
<1>13. ASSUME NEW w \in Workers, NEW e \in Leadgens, Reconcile(w, e) PROVE TypeInv'
    BY <1>13 DEF Reconcile, NewEvent
<1>14. ASSUME NEW w \in Workers, NEW e \in Leadgens, Claim(w, e) PROVE TypeInv'
    BY <1>14 DEF Claim, Claimable, Ready, Room
<1>15. ASSUME NEW w \in Workers, EndBatch(w) PROVE TypeInv'
    BY <1>15 DEF EndBatch
<1>16. ASSUME NEW w \in Workers, ClaimFails(w) PROVE TypeInv'
    BY <1>16 DEF ClaimFails, Fault
<1>17. ASSUME NEW w \in Workers, Fetch(w) PROVE TypeInv'
    BY <1>17 DEF Fetch, Moves
<1>18. ASSUME NEW w \in Workers, FetchUnavailable(w) PROVE TypeInv'
    BY <1>18 DEF FetchUnavailable, Moves
<1>19. ASSUME NEW w \in Workers, FetchRejected(w) PROVE TypeInv'
    BY <1>19 DEF FetchRejected, Moves, Fault
<1>20. ASSUME NEW w \in Workers, DatabaseFails(w) PROVE TypeInv'
    BY <1>20 DEF DatabaseFails, Moves, Fault
<1>21. ASSUME NEW w \in Workers, Ignore(w) PROVE TypeInv'
    BY <1>21 DEF Ignore, Mark, TokenMatches, NextEvent
<1>22. ASSUME NEW w \in Workers, Process(w) PROVE TypeInv'
    BY <1>22 DEF Process, Commit, Mark, TokenMatches, NextEvent, Inserts, Fault
<1>23. ASSUME NEW w \in Workers, Fail(w) PROVE TypeInv'
    <2>1. Verdict(w) \in Statuses
        BY DEF Verdict
    <2>2. status' \in [Leadgens -> Statuses]
        BY <1>23, <2>1 DEF Fail, Mark
    <2>3. seen[w] + 1 \in 0..MaxAttempts
        OBVIOUS
    <2>4. attempts' \in [Leadgens -> 0..MaxAttempts] /\ due' \in [Leadgens -> BOOLEAN]
        <3>1. CASE TokenMatches(w)
            <4>1. attempts' = [attempts EXCEPT ![job[w]] = seen[w] + 1]
                BY <1>23, <3>1 DEF Fail
            <4>2. due' = [due EXCEPT ![job[w]] = FALSE]
                BY <1>23, <3>1 DEF Fail
            <4> QED BY <2>3, <4>1, <4>2
        <3>2. CASE ~TokenMatches(w)
            BY <1>23, <3>2 DEF Fail
        <3> QED BY <3>1, <3>2
    <2>5. claim' \in [Leadgens -> Workers \cup {Nobody}] /\ expired' \in SUBSET Leadgens
        BY <1>23 DEF Fail, Mark
    <2>6. /\ pc' \in [Workers -> Phases] /\ count' \in [Workers -> 0..BatchSize]
          /\ job' \in [Workers -> Leadgens \cup {Nobody}]
          /\ seen' \in [Workers -> 0..(MaxAttempts - 1)]
        BY <1>23 DEF Fail, NextEvent
    <2>7. JobMatchesPhase'
        BY <1>23 DEF Fail, NextEvent
    <2> QED BY <1>23, <2>2, <2>4, <2>5, <2>6, <2>7 DEF Fail, NextEvent
<1>24. ASSUME NEW w \in Workers, FailFails(w) PROVE TypeInv'
    BY <1>24 DEF FailFails, NextEvent, Fault
<1>25. CASE UNCHANGED vars
    BY <1>25 DEF vars
<1> QED
    BY <1>1, <1>2, <1>3, <1>4, <1>5, <1>6, <1>7, <1>8, <1>9, <1>10, <1>11, <1>12,
       <1>13, <1>14, <1>15, <1>16, <1>17, <1>18, <1>19, <1>20, <1>21, <1>22, <1>23, <1>24,
       <1>25 DEF Next

THEOREM TypeCorrect == Spec => []TypeOK
<1>1. TypeInv => TypeOK
    BY DEF TypeInv
<1> QED BY <1>1, TypeInit, TypeStep, PTL DEF Spec

-----------------------------------------------------------------------------
(* Safety *)

LEMMA SafeInit == Init => IInv
<1> SUFFICES ASSUME Init PROVE IInv
    OBVIOUS
<1>1. TypeInv
    BY TypeInit
<1> QED
    BY <1>1, NobodyAssumption
    DEF IInv, Init, ClaimedIsProcessing, UnstalledFlight, InFlight, LeadIsProcessed,
        ProcessedHadLead, DeletionsRecorded, NotifiedOnce

LEMMA SafeStep == IInv /\ [Next]_vars => IInv'
<1> SUFFICES ASSUME IInv, [Next]_vars PROVE IInv'
    OBVIOUS
<1>0. TypeInv'
    BY TypeStep DEF IInv
<1> USE <1>0, LimitsAssumption, NobodyAssumption, LeadgensAssumption
    DEF IInv, TypeInv, TypeOK, JobMatchesPhase, InFlight, Holds, ClaimedIsProcessing,
        UnstalledFlight, LeadIsProcessed, ProcessedHadLead, DeletionsRecorded,
        NotifiedOnce, metaVars, inboxVars, crmVars, loopVars
<1>1. ASSUME NEW e \in Leadgens, Submit(e) PROVE IInv'
    BY <1>1 DEF Submit
<1>2. ASSUME NEW e \in Leadgens, DeleteLead(e) PROVE IInv'
    BY <1>2 DEF DeleteLead
<1>3. ASSUME NEW e \in Leadgens, BecomeDue(e) PROVE IInv'
    BY <1>3 DEF BecomeDue
<1>4. ASSUME NEW e \in Leadgens, LeaseExpires(e) PROVE IInv'
    BY <1>4 DEF LeaseExpires, Fault
<1>5. ASSUME GraphFails PROVE IInv'
    BY <1>5 DEF GraphFails
<1>6. ASSUME GraphRecovers PROVE IInv'
    BY <1>6 DEF GraphRecovers
<1>7. ASSUME ConfigurePage PROVE IInv'
    BY <1>7 DEF ConfigurePage
<1>8. ASSUME NEW w \in Workers, Start(w) PROVE IInv'
    BY <1>8 DEF Start, StartBatch
<1>9. ASSUME NEW w \in Workers, Crash(w) PROVE IInv'
    BY <1>9 DEF Crash, Fault
<1>10. ASSUME NEW w \in Workers, OnWake(w) PROVE IInv'
    BY <1>10 DEF OnWake, StartBatch
<1>11. ASSUME NEW w \in Workers, OnTick(w) PROVE IInv'
    BY <1>11 DEF OnTick, StartBatch
<1>12. ASSUME NEW w \in Workers, NEW e \in Leadgens, Webhook(w, e) PROVE IInv'
    BY <1>12 DEF Webhook, NewEvent
<1>13. ASSUME NEW w \in Workers, NEW e \in Leadgens, Reconcile(w, e) PROVE IInv'
    BY <1>13 DEF Reconcile, NewEvent
<1>14. ASSUME NEW w \in Workers, NEW e \in Leadgens, Claim(w, e) PROVE IInv'
    BY <1>14 DEF Claim, Claimable, Ready, Room
<1>15. ASSUME NEW w \in Workers, EndBatch(w) PROVE IInv'
    BY <1>15 DEF EndBatch
<1>16. ASSUME NEW w \in Workers, ClaimFails(w) PROVE IInv'
    BY <1>16 DEF ClaimFails, Fault
<1>17. ASSUME NEW w \in Workers, Fetch(w) PROVE IInv'
    BY <1>17 DEF Fetch, Moves
<1>18. ASSUME NEW w \in Workers, FetchUnavailable(w) PROVE IInv'
    BY <1>18 DEF FetchUnavailable, Moves
<1>19. ASSUME NEW w \in Workers, FetchRejected(w) PROVE IInv'
    BY <1>19 DEF FetchRejected, Moves, Fault
<1>20. ASSUME NEW w \in Workers, DatabaseFails(w) PROVE IInv'
    BY <1>20 DEF DatabaseFails, Moves, Fault
<1>21. ASSUME NEW w \in Workers, Ignore(w) PROVE IInv'
    BY <1>21 DEF Ignore, Mark, TokenMatches, NextEvent
<1>22. ASSUME NEW w \in Workers, Process(w) PROVE IInv'
    BY <1>22 DEF Process, Commit, Mark, TokenMatches, NextEvent, Inserts, Fault
<1>23. ASSUME NEW w \in Workers, Fail(w) PROVE IInv'
    BY <1>23 DEF Fail, Mark, TokenMatches, NextEvent, Verdict
<1>24. ASSUME NEW w \in Workers, FailFails(w) PROVE IInv'
    BY <1>24 DEF FailFails, NextEvent, Fault
<1>25. CASE UNCHANGED vars
    BY <1>25 DEF vars
<1> QED
    BY <1>1, <1>2, <1>3, <1>4, <1>5, <1>6, <1>7, <1>8, <1>9, <1>10, <1>11, <1>12,
       <1>13, <1>14, <1>15, <1>16, <1>17, <1>18, <1>19, <1>20, <1>21, <1>22, <1>23, <1>24,
       <1>25 DEF Next

LEMMA Safe == Spec => []IInv
BY SafeInit, SafeStep, PTL DEF Spec

\* An office hears of a submission once, or again after its lead was deleted.
THEOREM OneNotificationPerLead == Spec => []NotifiedOnce
<1>1. IInv => NotifiedOnce
    BY DEF IInv
<1> QED BY <1>1, Safe, PTL

\* What the inbox says of an event agrees with the leads of the CRM.
THEOREM InboxTellsTheTruth == Spec => []InboxAgreesWithCrm
<1>1. IInv => InboxAgreesWithCrm
    BY DEF IInv, LeadIsProcessed, ProcessedHadLead, InboxAgreesWithCrm
<1> QED BY <1>1, Safe, PTL

-----------------------------------------------------------------------------
(* Steps *)

LEMMA StepSettled ==
    ASSUME IInv, [Next]_vars, NEW s \in Leadgens, status[s] \in Settled
    PROVE  status'[s] = status[s]
<1> USE LimitsAssumption, NobodyAssumption, LeadgensAssumption
    DEF IInv, TypeInv, TypeOK, JobMatchesPhase, InFlight, ClaimedIsProcessing, Settled,
        metaVars, inboxVars, crmVars, loopVars
<1>1. ASSUME NEW e \in Leadgens, Submit(e) PROVE status'[s] = status[s]
    BY <1>1 DEF Submit
<1>2. ASSUME NEW e \in Leadgens, DeleteLead(e) PROVE status'[s] = status[s]
    BY <1>2 DEF DeleteLead
<1>3. ASSUME NEW e \in Leadgens, BecomeDue(e) PROVE status'[s] = status[s]
    BY <1>3 DEF BecomeDue
<1>4. ASSUME NEW e \in Leadgens, LeaseExpires(e) PROVE status'[s] = status[s]
    BY <1>4 DEF LeaseExpires, Fault
<1>5. ASSUME GraphFails PROVE status'[s] = status[s]
    BY <1>5 DEF GraphFails
<1>6. ASSUME GraphRecovers PROVE status'[s] = status[s]
    BY <1>6 DEF GraphRecovers
<1>7. ASSUME ConfigurePage PROVE status'[s] = status[s]
    BY <1>7 DEF ConfigurePage
<1>8. ASSUME NEW w \in Workers, Start(w) PROVE status'[s] = status[s]
    BY <1>8 DEF Start, StartBatch
<1>9. ASSUME NEW w \in Workers, Crash(w) PROVE status'[s] = status[s]
    BY <1>9 DEF Crash, Fault
<1>10. ASSUME NEW w \in Workers, OnWake(w) PROVE status'[s] = status[s]
    BY <1>10 DEF OnWake, StartBatch
<1>11. ASSUME NEW w \in Workers, OnTick(w) PROVE status'[s] = status[s]
    BY <1>11 DEF OnTick, StartBatch
<1>12. ASSUME NEW w \in Workers, NEW e \in Leadgens, Webhook(w, e) PROVE status'[s] = status[s]
    BY <1>12 DEF Webhook, NewEvent
<1>13. ASSUME NEW w \in Workers, NEW e \in Leadgens, Reconcile(w, e) PROVE status'[s] = status[s]
    BY <1>13 DEF Reconcile, NewEvent
<1>14. ASSUME NEW w \in Workers, NEW e \in Leadgens, Claim(w, e) PROVE status'[s] = status[s]
    BY <1>14 DEF Claim, Claimable, Ready, Room
<1>15. ASSUME NEW w \in Workers, EndBatch(w) PROVE status'[s] = status[s]
    BY <1>15 DEF EndBatch
<1>16. ASSUME NEW w \in Workers, ClaimFails(w) PROVE status'[s] = status[s]
    BY <1>16 DEF ClaimFails, Fault
<1>17. ASSUME NEW w \in Workers, Fetch(w) PROVE status'[s] = status[s]
    BY <1>17 DEF Fetch, Moves
<1>18. ASSUME NEW w \in Workers, FetchUnavailable(w) PROVE status'[s] = status[s]
    BY <1>18 DEF FetchUnavailable, Moves
<1>19. ASSUME NEW w \in Workers, FetchRejected(w) PROVE status'[s] = status[s]
    BY <1>19 DEF FetchRejected, Moves, Fault
<1>20. ASSUME NEW w \in Workers, DatabaseFails(w) PROVE status'[s] = status[s]
    BY <1>20 DEF DatabaseFails, Moves, Fault
<1>21. ASSUME NEW w \in Workers, Ignore(w) PROVE status'[s] = status[s]
    BY <1>21 DEF Ignore, Mark, TokenMatches, NextEvent
<1>22. ASSUME NEW w \in Workers, Process(w) PROVE status'[s] = status[s]
    BY <1>22 DEF Process, Commit, Mark, TokenMatches, NextEvent, Inserts, Fault
<1>23. ASSUME NEW w \in Workers, Fail(w) PROVE status'[s] = status[s]
    BY <1>23 DEF Fail, Mark, TokenMatches, NextEvent, Verdict
<1>24. ASSUME NEW w \in Workers, FailFails(w) PROVE status'[s] = status[s]
    BY <1>24 DEF FailFails, NextEvent, Fault
<1>25. CASE UNCHANGED vars
    BY <1>25 DEF vars
<1> QED
    BY <1>1, <1>2, <1>3, <1>4, <1>5, <1>6, <1>7, <1>8, <1>9, <1>10, <1>11, <1>12,
       <1>13, <1>14, <1>15, <1>16, <1>17, <1>18, <1>19, <1>20, <1>21, <1>22, <1>23, <1>24,
       <1>25 DEF Next

\* A settled event is never taken up again.
THEOREM SettledStaysSettled == Spec => SettledIsFinal
<1>1. IInv /\ [Next]_vars =>
        [\A e \in Leadgens : status[e] \in Settled => status'[e] = status[e]]_vars
    BY StepSettled
<1> QED BY <1>1, Safe, PTL DEF Spec, SettledIsFinal

LEMMA StepKeepsDeleted ==
    ASSUME IInv, [Next]_vars, NEW s \in Leadgens, lead[s] = "deleted",
           lead'[s] = "present"
    PROVE  s \in stalled
<1> USE NobodyAssumption
    DEF IInv, TypeInv, TypeOK, JobMatchesPhase, InFlight, ClaimedIsProcessing,
        UnstalledFlight, LeadIsProcessed, metaVars, inboxVars, crmVars, loopVars
<1>1. ASSUME NEW e \in Leadgens, Submit(e) PROVE s \in stalled
    BY <1>1 DEF Submit
<1>2. ASSUME NEW e \in Leadgens, DeleteLead(e) PROVE s \in stalled
    BY <1>2 DEF DeleteLead
<1>3. ASSUME NEW e \in Leadgens, BecomeDue(e) PROVE s \in stalled
    BY <1>3 DEF BecomeDue
<1>4. ASSUME NEW e \in Leadgens, LeaseExpires(e) PROVE s \in stalled
    BY <1>4 DEF LeaseExpires, Fault
<1>5. ASSUME GraphFails PROVE s \in stalled
    BY <1>5 DEF GraphFails
<1>6. ASSUME GraphRecovers PROVE s \in stalled
    BY <1>6 DEF GraphRecovers
<1>7. ASSUME ConfigurePage PROVE s \in stalled
    BY <1>7 DEF ConfigurePage
<1>8. ASSUME NEW w \in Workers, Start(w) PROVE s \in stalled
    BY <1>8 DEF Start, StartBatch
<1>9. ASSUME NEW w \in Workers, Crash(w) PROVE s \in stalled
    BY <1>9 DEF Crash, Fault
<1>10. ASSUME NEW w \in Workers, OnWake(w) PROVE s \in stalled
    BY <1>10 DEF OnWake, StartBatch
<1>11. ASSUME NEW w \in Workers, OnTick(w) PROVE s \in stalled
    BY <1>11 DEF OnTick, StartBatch
<1>12. ASSUME NEW w \in Workers, NEW e \in Leadgens, Webhook(w, e) PROVE s \in stalled
    BY <1>12 DEF Webhook, NewEvent
<1>13. ASSUME NEW w \in Workers, NEW e \in Leadgens, Reconcile(w, e) PROVE s \in stalled
    BY <1>13 DEF Reconcile, NewEvent
<1>14. ASSUME NEW w \in Workers, NEW e \in Leadgens, Claim(w, e) PROVE s \in stalled
    BY <1>14 DEF Claim, Claimable, Ready, Room
<1>15. ASSUME NEW w \in Workers, EndBatch(w) PROVE s \in stalled
    BY <1>15 DEF EndBatch
<1>16. ASSUME NEW w \in Workers, ClaimFails(w) PROVE s \in stalled
    BY <1>16 DEF ClaimFails, Fault
<1>17. ASSUME NEW w \in Workers, Fetch(w) PROVE s \in stalled
    BY <1>17 DEF Fetch, Moves
<1>18. ASSUME NEW w \in Workers, FetchUnavailable(w) PROVE s \in stalled
    BY <1>18 DEF FetchUnavailable, Moves
<1>19. ASSUME NEW w \in Workers, FetchRejected(w) PROVE s \in stalled
    BY <1>19 DEF FetchRejected, Moves, Fault
<1>20. ASSUME NEW w \in Workers, DatabaseFails(w) PROVE s \in stalled
    BY <1>20 DEF DatabaseFails, Moves, Fault
<1>21. ASSUME NEW w \in Workers, Ignore(w) PROVE s \in stalled
    BY <1>21 DEF Ignore, Mark, TokenMatches, NextEvent
<1>22. ASSUME NEW w \in Workers, Process(w) PROVE s \in stalled
    BY <1>22 DEF Process, Commit, Mark, TokenMatches, NextEvent, Inserts, Fault
<1>23. ASSUME NEW w \in Workers, Fail(w) PROVE s \in stalled
    BY <1>23 DEF Fail, Mark, TokenMatches, NextEvent, Verdict
<1>24. ASSUME NEW w \in Workers, FailFails(w) PROVE s \in stalled
    BY <1>24 DEF FailFails, NextEvent, Fault
<1>25. CASE UNCHANGED vars
    BY <1>25 DEF vars
<1> QED
    BY <1>1, <1>2, <1>3, <1>4, <1>5, <1>6, <1>7, <1>8, <1>9, <1>10, <1>11, <1>12,
       <1>13, <1>14, <1>15, <1>16, <1>17, <1>18, <1>19, <1>20, <1>21, <1>22, <1>23, <1>24,
       <1>25 DEF Next

\* A deleted lead comes back only through a worker that stalled past its lease.
THEOREM DeletionsStick == Spec => DeletedStaysDeleted
<1>1. IInv /\ [Next]_vars =>
        [\A e \in Leadgens :
            lead[e] = "deleted" /\ lead'[e] = "present" => e \in stalled]_vars
    BY StepKeepsDeleted
<1> QED BY <1>1, Safe, PTL DEF Spec, DeletedStaysDeleted

=============================================================================
