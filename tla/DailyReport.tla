----------------------------- MODULE DailyReport ----------------------------
(***************************************************************************)
(* The morning report (internal/dailyreport): a scheduler in every process *)
(* of the API sleeps until the next office's local hour, then claims       *)
(* (office, local date) in daily_report_runs and sends.  Processes overlap *)
(* during a deployment, and the claim is what keeps a report from being    *)
(* sent twice; it is never released, so a claim that is not followed by a  *)
(* delivery is a lost report.                                              *)
(*                                                                         *)
(* Time is a count of ticks, HoursPerDay to a day; an office's local time  *)
(* is ahead of it by Offset.  Daylight saving changes are left out.        *)
(***************************************************************************)
EXTENDS Integers

CONSTANTS
    Schedulers,    \* processes of the API
    Offices,
    OfficeOrder,   \* OfficeOrder[o]: the place of o in scheduledOffices
    Offset,        \* Offset[o]: hours the local time of o is ahead
    HoursPerDay,
    DaysPerWeek,   \* the last day of a week is Sunday
    HourLocal,     \* DAILY_REPORT_HOUR_LOCAL
    Horizon        \* bound: the last tick

ASSUME ClockAssumption ==
    /\ HoursPerDay \in Nat \ {0} /\ DaysPerWeek \in Nat \ {0, 1}
    /\ HourLocal \in 0..(HoursPerDay - 1) /\ Horizon \in Nat
    /\ Offset \in [Offices -> 0..(HoursPerDay - 1)]
ASSUME OrderAssumption ==
    /\ OfficeOrder \in [Offices -> Nat]
    /\ \A o, q \in Offices : OfficeOrder[o] = OfficeOrder[q] => o = q

VARIABLES
    now,
    runs,          \* daily_report_runs: pairs <<office, local date>>
    pc,            \* pc[p]: "down", "waiting", "running", "claiming" or "sending"
    fires,         \* fires[p][o]: the fire times of the current round
    todo,          \* todo[p]: the offices left in the round
    report,        \* report[p]: the run p claims or sends, <<office, local date>>
    sent,          \* history: sent[o][d], reports sent, at most 2 counted
    excused        \* history: processes that started or met a failed claim in this
                   \* hour, or were stalled when it began

vars == <<now, runs, pc, fires, todo, report, sent, excused>>

Times == 0..(Horizon + DaysPerWeek * HoursPerDay)
Dates == 0..(Horizon \div HoursPerDay + 1)

Date(o, t) == (t + Offset[o]) \div HoursPerDay
Hour(o, t) == (t + Offset[o]) % HoursPerDay
Sunday(d) == d % DaysPerWeek = DaysPerWeek - 1
Morning(o, d) == d * HoursPerDay + HourLocal - Offset[o]

NoReport == <<>>

TypeOK ==
    /\ now \in 0..Horizon
    /\ runs \in SUBSET (Offices \X Dates)
    /\ pc \in [Schedulers -> {"down", "waiting", "running", "claiming", "sending"}]
    /\ fires \in [Schedulers -> [Offices -> Times]]
    /\ todo \in [Schedulers -> SUBSET Offices]
    /\ report \in [Schedulers -> (Offices \X Dates) \cup {NoReport}]
    /\ sent \in [Offices -> [Dates -> 0..2]]
    /\ excused \in SUBSET Schedulers
    /\ \A p \in Schedulers : /\ pc[p] \in {"down", "waiting"} => todo[p] = {}
                             /\ pc[p] \notin {"claiming", "sending"} <=> report[p] = NoReport

Init ==
    /\ now = 0
    /\ runs = {}
    /\ pc = [p \in Schedulers |-> "down"]
    /\ fires = [p \in Schedulers |-> [o \in Offices |-> 0]]
    /\ todo = [p \in Schedulers |-> {}]
    /\ report = [p \in Schedulers |-> NoReport]
    /\ sent = [o \in Offices |-> [d \in Dates |-> 0]]
    /\ excused = {}

----------------------------------------------------------------------------
\* nextFireTime: this morning if it is still to come, else tomorrow's; never Sunday's
NextFire(o) ==
    LET today == Date(o, now)
        first == IF Morning(o, today) > now THEN today ELSE today + 1
    IN Morning(o, IF Sunday(first) THEN first + 1 ELSE first)

\* The top of the loop of Run.
Plan(p) ==
    /\ fires' = [fires EXCEPT ![p] = [o \in Offices |-> NextFire(o)]]
    /\ pc' = [pc EXCEPT ![p] = "waiting"]

Start(p) ==
    /\ pc[p] = "down"
    /\ Plan(p)
    /\ excused' = excused \cup {p}
    /\ UNCHANGED <<now, runs, todo, report, sent>>

Due(p) == pc[p] = "waiting" /\ \E o \in Offices : fires[p][o] <= now

\* The timer of the earliest office: every office that is due by now gets its turn.
Fire(p) ==
    /\ Due(p)
    /\ todo' = [todo EXCEPT ![p] = {o \in Offices : fires[p][o] <= now}]
    /\ pc' = [pc EXCEPT ![p] = "running"]
    /\ UNCHANGED <<now, runs, fires, report, sent, excused>>

\* The office p comes to: the first of those left in the order of scheduledOffices.
Turn(p, o) ==
    /\ pc[p] = "running" /\ o \in todo[p]
    /\ \A q \in todo[p] : OfficeOrder[o] <= OfficeOrder[q]

\* runForOffice reads the clock: nothing on Sundays, else the report is today's, also
\* if the claim has to wait.
ReadDate(p, o) ==
    /\ Turn(p, o)
    /\ todo' = [todo EXCEPT ![p] = @ \ {o}]
    /\ \/ Sunday(Date(o, now)) /\ UNCHANGED <<pc, report>>
       \/ /\ ~Sunday(Date(o, now))
          /\ report' = [report EXCEPT ![p] = <<o, Date(o, now)>>]
          /\ pc' = [pc EXCEPT ![p] = "claiming"]
    /\ UNCHANGED <<now, runs, fires, sent, excused>>

\* A turn that ends without a report.
PassOn(p) ==
    /\ pc' = [pc EXCEPT ![p] = "running"]
    /\ report' = [report EXCEPT ![p] = NoReport]

\* claim: the insert, which does nothing when the run is there.
\* Mutated forms (Bad...): plausible bugs for the mutation runs.
BadClaim(p) ==
    /\ pc[p] = "claiming"
    /\ runs' = runs \cup {report[p]}
    /\ pc' = [pc EXCEPT ![p] = "sending"]
    /\ UNCHANGED <<now, fires, todo, report, sent, excused>>
Claim(p) ==
    /\ pc[p] = "claiming"
    /\ \/ report[p] \in runs /\ PassOn(p) /\ UNCHANGED <<runs, excused>>
       \/ /\ report[p] \notin runs
          /\ runs' = runs \cup {report[p]}
          /\ pc' = [pc EXCEPT ![p] = "sending"]
          /\ UNCHANGED <<report, excused>>
       \/ /\ PassOn(p)                          \* the insert fails
          /\ excused' = excused \cup {p}
          /\ UNCHANGED runs
    /\ UNCHANGED <<now, fires, todo, sent>>

\* FetchCounts and the messages; when one fails there is no report that day.
Send(p) ==
    /\ pc[p] = "sending"
    /\ \/ sent' = [sent EXCEPT ![report[p][1]][report[p][2]] = IF @ < 2 THEN @ + 1 ELSE @]
       \/ UNCHANGED sent
    /\ PassOn(p)
    /\ UNCHANGED <<now, runs, fires, todo, excused>>

BadEndRound(p) ==
    /\ pc[p] = "running" /\ todo[p] = {}
    /\ fires' = [fires EXCEPT ![p] = [o \in Offices |-> @[o] + HoursPerDay]]
    /\ pc' = [pc EXCEPT ![p] = "waiting"]
    /\ UNCHANGED <<now, runs, todo, report, sent, excused>>
EndRound(p) ==
    /\ pc[p] = "running" /\ todo[p] = {}
    /\ Plan(p)
    /\ UNCHANGED <<now, runs, todo, report, sent, excused>>

Stop(p) ==
    /\ pc[p] # "down"
    /\ pc' = [pc EXCEPT ![p] = "down"]
    /\ fires' = [fires EXCEPT ![p] = [o \in Offices |-> 0]]
    /\ todo' = [todo EXCEPT ![p] = {}]
    /\ report' = [report EXCEPT ![p] = NoReport]
    /\ excused' = excused \ {p}
    /\ UNCHANGED <<now, runs, sent>>

\* An hour passes.  A process that should have acted in it was stalled: a slow
\* network, a paused machine.
Stalled(p) == Due(p) \/ pc[p] \in {"running", "claiming", "sending"}
Tick ==
    /\ now < Horizon
    /\ now' = now + 1
    /\ excused' = {p \in Schedulers : Stalled(p)}
    /\ UNCHANGED <<runs, pc, fires, todo, report, sent>>

----------------------------------------------------------------------------
Next ==
    \/ \E p \in Schedulers : \/ Start(p) \/ Fire(p) \/ Claim(p) \/ Send(p)
                             \/ EndRound(p) \/ Stop(p)
                             \/ \E o \in Offices : ReadDate(p, o)
    \/ Tick

Spec == Init /\ [][Next]_vars

----------------------------------------------------------------------------
(* Properties *)

\* Two processes of a deployment, even if one is stalled for hours or over midnight,
\* never send an office the report of one local date twice
\* (20260717210000_daily_report_runs.sql:1).
SentOncePerDate == \A o \in Offices, d \in Dates : sent[o][d] <= 1

\* A process that is up when an office's hour begins, and is neither late nor meets a
\* failed insert, sees that morning's report claimed before the hour is over, Monday
\* to Saturday, whatever happened on the days and in the rounds before (report.go:95).
NoMorningSkipped ==
    [][now' # now =>
        \A p \in Schedulers \ (excused \cup excused'), o \in Offices, d \in Dates :
            pc[p] # "down" /\ ~Sunday(d) /\ Morning(o, d) = now
                => <<o, d>> \in runs]_vars

\* A run is never claimed for a Sunday or for a day to come, and outside the local hour
\* of its date only by a process that started or met a failed insert in this hour, or
\* was stalled when it began: due, with the date read, or sending another report
\* (report.go:159-166).
RunsAreMornings ==
    [][\A p \in Schedulers :
        pc[p] = "claiming" /\ pc'[p] = "sending" =>
            LET o == report[p][1]
                d == report[p][2]
            IN /\ ~Sunday(d) /\ d <= Date(o, now)
               /\ p \in excused \/ Morning(o, d) = now]_vars

=============================================================================
