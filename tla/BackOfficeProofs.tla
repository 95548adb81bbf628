-------------------------- MODULE BackOfficeProofs --------------------------
(***************************************************************************)
(* Proofs about DailyReport, Documents, Conversations and Tasks, for any   *)
(* number of processes, requests, files, people and days.                  *)
(*                                                                         *)
(* Each is an argument of its own.  A report: the claim in                 *)
(* daily_report_runs, whatever the clock does; a morning: no fire time is  *)
(* later than the next working morning, by arithmetic of dates, and no     *)
(* claim is missed for want of a firing.  A document, a question, an       *)
(* entry: what a transaction read under the row's lock is still there when *)
(* it writes; so the confirmations of a key are an instance of Once.  A    *)
(* task: the version in its row grows with every write.  A page of the     *)
(* dashboard: its rows are ordered by rank and key, no row that stays      *)
(* where it is overtakes the cursor, and the last row of a full page is    *)
(* the cursor of the next.                                                 *)
(***************************************************************************)
EXTENDS DailyReport, Documents, Conversations, Tasks, FiniteSetTheorems, TLAPS

----------------------------------------------------------------------------
(* Daily report *)

\* The clock: offices count days of HoursPerDay hours, each ahead by its offset.
LEMMA ScaledOrder ==
    ASSUME NEW a \in Int, NEW b \in Int, NEW h \in Nat, a <= b
    PROVE  a * h <= b * h
<1>1. (b - a) * h >= 0
  OBVIOUS
<1>2. b * h = a * h + (b - a) * h
  OBVIOUS
<1>3. a * h \in Int /\ b * h \in Int /\ (b - a) * h \in Int
  OBVIOUS
<1>4. QED BY <1>1, <1>2, <1>3

\* No two days overlap: what lies within day d and within day e is one day.
LEMMA OneDay ==
    ASSUME NEW d \in Int, NEW e \in Int, NEW h \in Nat \ {0}, NEW t \in Int,
           d * h <= t, t < (d + 1) * h, e * h <= t, t < (e + 1) * h
    PROVE  d = e
<1>1. \A a, b \in Int : a * h \in Int
  OBVIOUS
<1>2. ~(d + 1 <= e)
  BY <1>1, ScaledOrder
<1>3. ~(e + 1 <= d)
  BY <1>1, ScaledOrder
<1>4. QED BY <1>2, <1>3

LEMMA DivisionBounds ==
    ASSUME NEW t \in Nat, NEW h \in Nat \ {0}
    PROVE  /\ t \div h \in Nat /\ t % h \in 0..(h - 1)
           /\ t = (t \div h) * h + (t % h)
           /\ (t \div h) * h <= t /\ t < (t \div h + 1) * h
<1>1. t \div h \in Nat /\ t % h \in 0..(h - 1)
  OBVIOUS
<1>2. (t \div h) * h \in Int /\ (t \div h + 1) * h = (t \div h) * h + h
  BY <1>1
<1>3. t % h = t - (t \div h) * h
  OBVIOUS
<1>4. QED BY <1>1, <1>2, <1>3

LEMMA DateIsOfTime ==
    ASSUME NEW o \in Offices, NEW t \in Nat
    PROVE  /\ Date(o, t) \in Nat
           /\ Date(o, t) * HoursPerDay <= t + Offset[o]
           /\ t + Offset[o] < (Date(o, t) + 1) * HoursPerDay
           /\ Hour(o, t) \in Nat /\ t + Offset[o] = Date(o, t) * HoursPerDay + Hour(o, t)
<1>1. t + Offset[o] \in Nat /\ HoursPerDay \in Nat \ {0}
  BY ClockAssumption
<1> DEFINE s == t + Offset[o]
<1> HIDE DEF s
<1>2. /\ s \div HoursPerDay \in Nat /\ s % HoursPerDay \in 0..(HoursPerDay - 1)
      /\ s = (s \div HoursPerDay) * HoursPerDay + (s % HoursPerDay)
      /\ (s \div HoursPerDay) * HoursPerDay <= s
      /\ s < (s \div HoursPerDay + 1) * HoursPerDay
  BY <1>1, DivisionBounds DEF s
<1>3. s % HoursPerDay \in Nat
  BY <1>1, <1>2
<1>4. QED BY <1>2, <1>3, Zenon DEF Date, Hour, s

\* A morning is at the local hour of its date, and mornings follow in order.
LEMMA Mornings ==
    ASSUME NEW o \in Offices, NEW d \in Nat
    PROVE  /\ Morning(o, d) \in Int
           /\ \A t \in Nat : Morning(o, d) = t => Date(o, t) = d /\ Hour(o, t) = HourLocal
           /\ \A e \in Nat : d < e => Morning(o, d) < Morning(o, e)
<1> USE ClockAssumption
<1>1. Offset[o] \in Int /\ d * HoursPerDay \in Int /\ Morning(o, d) \in Int
  BY DEF Morning
<1>2. ASSUME NEW t \in Nat, Morning(o, d) = t PROVE Date(o, t) = d
  <2>1. t + Offset[o] = d * HoursPerDay + HourLocal
    BY <1>1, <1>2 DEF Morning
  <2>2. (d + 1) * HoursPerDay = d * HoursPerDay + HoursPerDay
    OBVIOUS
  <2>3. d * HoursPerDay <= t + Offset[o] /\ t + Offset[o] < (d + 1) * HoursPerDay
    BY <1>1, <2>1, <2>2
  <2>4. Date(o, t) \in Int /\ d \in Int /\ t + Offset[o] \in Int
    BY <1>1, DateIsOfTime
  <2>5. QED BY <2>3, <2>4, DateIsOfTime, OneDay
<1>3. ASSUME NEW t \in Nat, Morning(o, d) = t PROVE Hour(o, t) = HourLocal
  <2>1. t + Offset[o] = d * HoursPerDay + HourLocal
    BY <1>1, <1>3 DEF Morning
  <2>2. t + Offset[o] = d * HoursPerDay + Hour(o, t) /\ Hour(o, t) \in Int
    BY <1>2, <1>3, DateIsOfTime
  <2>3. QED BY <1>1, <2>1, <2>2
<1>4. ASSUME NEW e \in Nat, d < e PROVE Morning(o, d) < Morning(o, e)
  <2>1. (d + 1) * HoursPerDay <= e * HoursPerDay
    BY <1>4, ScaledOrder
  <2>2. (d + 1) * HoursPerDay = d * HoursPerDay + HoursPerDay /\ e * HoursPerDay \in Int
    OBVIOUS
  <2>3. QED BY <1>1, <2>1, <2>2 DEF Morning
<1>5. QED BY <1>1, <1>2, <1>3, <1>4

\* The office's date does not go back.
LEMMA DatesFollow ==
    ASSUME NEW o \in Offices, NEW t \in Nat
    PROVE  Date(o, t) <= Date(o, t + 1)
<1> USE ClockAssumption
<1> DEFINE d == Date(o, t)  e == Date(o, t + 1)
<1>1. /\ d \in Nat /\ e \in Nat /\ d * HoursPerDay <= t + Offset[o]
      /\ t + 1 + Offset[o] < (e + 1) * HoursPerDay
  BY DateIsOfTime
<1> HIDE DEF d, e
<1>2. SUFFICES ASSUME e + 1 <= d PROVE FALSE
  BY <1>1 DEF d, e
<1>3. (e + 1) * HoursPerDay <= d * HoursPerDay
  BY <1>1, <1>2, ScaledOrder
<1>4. (e + 1) * HoursPerDay \in Int /\ d * HoursPerDay \in Int /\ Offset[o] \in Int
  BY <1>1
<1>5. QED BY <1>1, <1>3, <1>4

\* The next fire time is the first working morning after now (report.go:450).
LEMMA NextFireIsNext ==
    ASSUME NEW o \in Offices, now \in 0..Horizon
    PROVE  /\ \E d \in Nat : NextFire(o) = Morning(o, d)
           /\ NextFire(o) \in Times /\ now < NextFire(o)
           /\ \A d \in Nat : ~Sunday(d) /\ now < Morning(o, d) => NextFire(o) <= Morning(o, d)
<1> DEFINE date == Date(o, now)
           first == IF Morning(o, date) > now THEN date ELSE date + 1
           next == IF Sunday(first) THEN first + 1 ELSE first
<1> USE ClockAssumption
<1>1. NextFire(o) = Morning(o, next)
  BY DEF NextFire
<1>2. /\ now \in Nat /\ date \in Nat /\ first \in Nat /\ next \in Nat
      /\ first \in {date, date + 1} /\ next \in {first, first + 1}
      /\ Morning(o, date) > now \/ first = date + 1
      /\ Sunday(first) => next = first + 1
      /\ ~Sunday(first) => next = first
  BY DateIsOfTime
<1>3. /\ date * HoursPerDay <= now + Offset[o]
      /\ now + Offset[o] < (date + 1) * HoursPerDay
  BY <1>2, DateIsOfTime
<1>4. first = date => now < Morning(o, date)
  BY <1>2
<1> HIDE DEF date, first, next
<1>5. \A d \in Nat : Morning(o, d) \in Int
  BY Mornings
<1>6. now < Morning(o, first)
  <2>1. CASE first = date
    BY <1>4, <2>1
  <2>2. CASE first = date + 1
    BY <1>2, <1>3, <1>5, <2>2 DEF Morning
  <2>3. QED BY <1>2, <2>1, <2>2
<1>7. now < Morning(o, next)
  <2>1. CASE next = first
    BY <1>6, <2>1
  <2>2. CASE next = first + 1
    BY <1>2, <1>5, <1>6, <2>2, Mornings
  <2>3. QED BY <1>2, <2>1, <2>2
<1>8. Morning(o, next) <= now + 2 * HoursPerDay
  <2>1. first = date + 1 => Morning(o, date) <= now
    BY <1>2, <1>5 DEF first
  <2>2. /\ (date + 1) * HoursPerDay = date * HoursPerDay + HoursPerDay
        /\ (date + 2) * HoursPerDay = date * HoursPerDay + 2 * HoursPerDay
        /\ date * HoursPerDay \in Int /\ Offset[o] \in Int
    BY <1>2
  <2>3. CASE first = date + 1
    <3>1. next = date + 1 \/ next = date + 2
      BY <1>2, <2>3
    <3>2. Morning(o, next) <= Morning(o, date) + 2 * HoursPerDay
      BY <2>2, <3>1 DEF Morning
    <3>3. QED BY <1>2, <1>5, <2>1, <2>3, <3>2
  <2>4. CASE first = date
    <3>1. next = date \/ next = date + 1
      BY <1>2, <2>4
    <3>2. next * HoursPerDay <= date * HoursPerDay + HoursPerDay
          /\ next * HoursPerDay \in Int
      BY <2>2, <3>1
    <3>3. QED BY <1>2, <1>3, <2>2, <3>2 DEF Morning
  <2>5. QED BY <1>2, <2>3, <2>4
<1>9. ASSUME NEW d \in Nat, ~Sunday(d), now < Morning(o, d)
      PROVE  Morning(o, next) <= Morning(o, d)
  <2>1. date <= d
    <3>1. SUFFICES ASSUME d + 1 <= date PROVE FALSE
      BY <1>2
    <3>2. (d + 1) * HoursPerDay <= date * HoursPerDay
      BY <1>2, <3>1, ScaledOrder
    <3>3. (d + 1) * HoursPerDay = d * HoursPerDay + HoursPerDay /\ d * HoursPerDay \in Int
          /\ date * HoursPerDay \in Int /\ Offset[o] \in Int
      BY <1>2
    <3>4. QED BY <1>2, <1>3, <1>9, <3>2, <3>3 DEF Morning
  <2>2. first <= d
    BY <1>2, <1>9, <2>1 DEF first
  <2>3. next <= d
    BY <1>2, <1>9, <2>2
  <2>4. next = d \/ next < d
    BY <1>2, <2>3
  <2>5. QED BY <1>2, <1>5, <2>4, Mornings
<1>10. 2 * HoursPerDay <= DaysPerWeek * HoursPerDay /\ DaysPerWeek * HoursPerDay \in Int
  <2>1. 2 <= DaysPerWeek
    OBVIOUS
  <2>2. QED BY <2>1, ScaledOrder
<1>11. Morning(o, next) \in Times
  BY <1>2, <1>5, <1>7, <1>8, <1>10 DEF Times
<1>12. QED BY <1>1, <1>2, <1>7, <1>9, <1>11

----------------------------------------------------------------------------
(* The invariant *)

\* A report that was sent was claimed.
SentIsClaimed == \A o \in Offices, d \in Dates : sent[o][d] # 0 => <<o, d>> \in runs

\* A report being sent was claimed, and is being sent for the first time.
FirstTime ==
    \A p \in Schedulers : pc[p] = "sending" =>
        report[p] \in runs /\ sent[report[p][1]][report[p][2]] = 0

\* No two processes send the same report.
OneSender ==
    \A p, q \in Schedulers :
        pc[p] = "sending" /\ pc[q] = "sending" /\ report[p] = report[q] => p = q

\* No working morning that is still to come lies before the time a process waits for,
\* and the one of this hour is waited for, being worked on, claimed or excused.
Settled(p, o, d) == p \in excused \/ <<o, d>> \in runs
InRound(p) == pc[p] \in {"running", "claiming", "sending"}
MorningsCovered ==
    \A p \in Schedulers, o \in Offices, d \in Dates : ~Sunday(d) =>
        /\ pc[p] = "waiting" /\ now <= Morning(o, d) =>
            fires[p][o] <= Morning(o, d) \/ (Morning(o, d) = now /\ Settled(p, o, d))
        /\ InRound(p) /\ Morning(o, d) = now =>
            \/ o \in todo[p] \/ Settled(p, o, d)
            \/ pc[p] = "claiming" /\ report[p] = <<o, d>>

\* Processes wait for mornings, and one that is not late acts in the hour it waited for.
FiresAreMornings ==
    \A p \in Schedulers, o \in Offices : pc[p] # "down" =>
        \E d \in Nat : fires[p][o] = Morning(o, d)
OnTime ==
    \A p \in Schedulers \ excused, o \in Offices :
        /\ pc[p] = "waiting" => now <= fires[p][o]
        /\ InRound(p) /\ o \in todo[p] => fires[p][o] = now

\* The date a process read is that of a working day, not of one to come, and the local
\* hour is the report's unless the process is excused.
ReadInTime(p) == pc[p] = "claiming" =>
    /\ ~Sunday(report[p][2]) /\ report[p][2] <= Date(report[p][1], now)
    /\ p \in excused \/ Morning(report[p][1], report[p][2]) = now
ReadsAreMornings == \A p \in Schedulers : ReadInTime(p)

ClaimsInv == SentOncePerDate /\ SentIsClaimed /\ FirstTime /\ OneSender
ClockInv == MorningsCovered /\ FiresAreMornings /\ OnTime /\ ReadsAreMornings
IInv == TypeOK /\ ClaimsInv /\ ClockInv

LEMMA DatesOfNow == ASSUME TypeOK, NEW o \in Offices PROVE Date(o, now) \in Dates
<1> USE ClockAssumption
<1> DEFINE d == Date(o, now)  last == Horizon \div HoursPerDay
<1>1. /\ now \in Nat /\ now <= Horizon /\ Offset[o] \in Nat /\ Offset[o] < HoursPerDay
      /\ HoursPerDay \in Nat \ {0} /\ Horizon \in Nat
  BY DEF TypeOK
<1>2. /\ d \in Nat /\ d * HoursPerDay <= now + Offset[o]
  BY <1>1, DateIsOfTime
<1>3. last \in Nat /\ Horizon < (last + 1) * HoursPerDay
  BY <1>1, DivisionBounds
<1> HIDE DEF d, last
<1>4. /\ (last + 2) * HoursPerDay = (last + 1) * HoursPerDay + HoursPerDay
      /\ (last + 1) * HoursPerDay \in Int /\ d * HoursPerDay \in Int
  BY <1>1, <1>2, <1>3
<1>5. ~(last + 2 <= d)
  <2>1. SUFFICES ASSUME last + 2 <= d PROVE FALSE
    OBVIOUS
  <2>2. (last + 2) * HoursPerDay <= d * HoursPerDay
    BY <1>1, <1>2, <1>3, <2>1, ScaledOrder
  <2>3. QED BY <1>1, <1>2, <1>3, <1>4, <2>2
<1>6. d \in 0..(last + 1)
  BY <1>2, <1>3, <1>5
<1>7. QED BY <1>6 DEF Dates, d, last

LEMMA InitIInv == Init => IInv
<1> SUFFICES ASSUME Init PROVE IInv
  OBVIOUS
<1> USE ClockAssumption
<1>1. 0 \in Times /\ 0 \in 0..Horizon /\ NoReport \notin Offices \X Dates
  BY DEF Times, NoReport
<1>2. TypeOK
  BY <1>1 DEF Init, TypeOK
<1>3. QED BY <1>2 DEF Init, IInv, ClaimsInv, ClockInv, SentOncePerDate, SentIsClaimed,
        FirstTime, OneSender, MorningsCovered, FiresAreMornings, OnTime, ReadsAreMornings,
        ReadInTime, InRound

\* A process that plans waits for the first working mornings to come.
LEMMA PlanIInv ==
    ASSUME IInv, NEW p \in Schedulers, Start(p) \/ EndRound(p)
    PROVE  IInv'
<1>1. /\ fires' = [fires EXCEPT ![p] = [o \in Offices |-> NextFire(o)]]
      /\ pc' = [pc EXCEPT ![p] = "waiting"] /\ pc[p] \in {"down", "running"}
      /\ UNCHANGED <<now, runs, todo, report, sent>> /\ todo[p] = {}
      /\ excused \subseteq excused' /\ excused' \subseteq Schedulers
      /\ pc[p] = "down" => p \in excused'
  BY DEF Start, EndRound, Plan, IInv, TypeOK
<1>2. \A o \in Offices :
        /\ \E d \in Nat : NextFire(o) = Morning(o, d)
        /\ NextFire(o) \in Times /\ now < NextFire(o)
        /\ \A d \in Nat : ~Sunday(d) /\ now < Morning(o, d) => NextFire(o) <= Morning(o, d)
  BY NextFireIsNext DEF IInv, TypeOK
<1>3. TypeOK'
  BY <1>1, <1>2 DEF IInv, TypeOK
<1>4. ClaimsInv'
  BY <1>1 DEF IInv, TypeOK, ClaimsInv, SentOncePerDate, SentIsClaimed, FirstTime, OneSender
<1>5. MorningsCovered'
  <2> SUFFICES ASSUME NEW q \in Schedulers, NEW o \in Offices, NEW d \in Dates, ~Sunday(d)
      PROVE  /\ pc'[q] = "waiting" /\ now <= Morning(o, d) =>
                 \/ fires'[q][o] <= Morning(o, d)
                 \/ Morning(o, d) = now /\ Settled(q, o, d)'
             /\ InRound(q)' /\ Morning(o, d) = now =>
                 \/ o \in todo[q] \/ Settled(q, o, d)'
                 \/ pc'[q] = "claiming" /\ report[q] = <<o, d>>
    BY <1>1 DEF MorningsCovered
  <2>1. Settled(q, o, d) => Settled(q, o, d)'
    BY <1>1 DEF Settled
  <2>2. CASE q = p
    <3>1. fires'[p][o] = NextFire(o) /\ pc'[p] = "waiting"
      BY <1>1 DEF IInv, TypeOK
    <3>2. d \in Nat /\ Morning(o, d) \in Int /\ now \in Int
      BY Mornings DEF Dates, IInv, TypeOK
    <3>3. Morning(o, d) = now => Settled(p, o, d)'
      BY <1>1 DEF IInv, ClockInv, MorningsCovered, Settled, InRound
    <3>4. QED BY <1>2, <2>2, <3>1, <3>2, <3>3 DEF InRound
  <2>3. CASE q # p
    <3>1. fires'[q] = fires[q] /\ pc'[q] = pc[q]
      BY <1>1, <2>3 DEF IInv, TypeOK
    <3>2. QED BY <2>1, <3>1 DEF IInv, ClockInv, MorningsCovered, InRound
  <2>4. QED BY <2>2, <2>3
<1>6. FiresAreMornings' /\ OnTime'
  <2>1. \A o \in Offices : fires'[p][o] = NextFire(o)
    BY <1>1 DEF IInv, TypeOK
  <2>2. \A q \in Schedulers : q # p => fires'[q] = fires[q] /\ pc'[q] = pc[q]
    BY <1>1 DEF IInv, TypeOK
  <2>3. FiresAreMornings'
    BY <1>1, <1>2, <2>1, <2>2 DEF FiresAreMornings, Morning, IInv, ClockInv
  <2>4. ASSUME NEW q \in Schedulers \ excused', NEW o \in Offices
        PROVE  /\ pc'[q] = "waiting" => now <= fires'[q][o]
               /\ InRound(q)' /\ o \in todo[q] => fires'[q][o] = now
    <3>1. CASE q = p
      <4>1. now < NextFire(o) /\ now \in Int /\ NextFire(o) \in Int
        BY <1>2 DEF IInv, TypeOK, Times
      <4>2. pc'[p] = "waiting"
        BY <1>1 DEF IInv, TypeOK
      <4>3. QED BY <2>1, <3>1, <4>1, <4>2 DEF InRound
    <3>2. CASE q # p
      BY <1>1, <2>2, <2>4, <3>2 DEF IInv, ClockInv, OnTime, InRound
    <3>3. QED BY <3>1, <3>2
  <2>5. QED BY <1>1, <2>3, <2>4 DEF OnTime
<1>7. ReadsAreMornings'
  BY <1>1 DEF IInv, TypeOK, ClockInv, ReadsAreMornings, ReadInTime, Sunday, Date, Morning
<1>8. QED BY <1>3, <1>4, <1>5, <1>6, <1>7 DEF IInv, ClockInv

\* The timer goes off: what is due by now is what is left to do.
LEMMA FireIInv ==
    ASSUME IInv, NEW p \in Schedulers, Fire(p)
    PROVE  IInv'
<1>1. /\ todo' = [todo EXCEPT ![p] = {o \in Offices : fires[p][o] <= now}]
      /\ pc' = [pc EXCEPT ![p] = "running"] /\ pc[p] = "waiting"
      /\ UNCHANGED <<now, runs, fires, report, sent, excused>>
  BY DEF Fire, Due
<1>2. TypeOK'
  BY <1>1 DEF IInv, TypeOK
<1>3. ClaimsInv'
  BY <1>1 DEF IInv, TypeOK, ClaimsInv, SentOncePerDate, SentIsClaimed, FirstTime, OneSender
<1>4. \A q \in Schedulers : q # p => todo'[q] = todo[q] /\ pc'[q] = pc[q]
  BY <1>1 DEF IInv, TypeOK
<1>5. pc'[p] = "running" /\ \A o \in Offices : o \in todo'[p] <=> fires[p][o] <= now
  BY <1>1 DEF IInv, TypeOK
<1>6. /\ now \in Int /\ \A o \in Offices : fires[p][o] \in Int
      /\ \A o \in Offices, d \in Dates : Morning(o, d) \in Int
  BY Mornings DEF Dates, IInv, TypeOK, Times
<1>7. MorningsCovered'
  BY <1>1, <1>4, <1>5, <1>6 DEF IInv, ClockInv, MorningsCovered, Settled, Morning, Sunday,
     InRound
<1>8. FiresAreMornings'
  BY <1>1, <1>4 DEF IInv, ClockInv, FiresAreMornings, Morning
<1>9. OnTime'
  BY <1>1, <1>4, <1>5, <1>6 DEF IInv, ClockInv, OnTime, InRound
<1>10. ReadsAreMornings'
  BY <1>1, <1>4, <1>5 DEF IInv, ClockInv, ReadsAreMornings, ReadInTime, Sunday, Date, Morning
<1>11. QED BY <1>2, <1>3, <1>7, <1>8, <1>9, <1>10 DEF IInv, ClockInv

\* The clock is read: nothing on a Sunday, else a report is about to be claimed.
LEMMA ReadIInv ==
    ASSUME IInv, NEW p \in Schedulers, NEW o \in Offices, ReadDate(p, o)
    PROVE  IInv'
<1> DEFINE local == Date(o, now)
<1>1. /\ pc[p] = "running" /\ o \in todo[p] /\ todo' = [todo EXCEPT ![p] = @ \ {o}]
      /\ UNCHANGED <<now, runs, fires, sent, excused>>
      /\ \/ Sunday(local) /\ UNCHANGED <<pc, report>>
         \/ /\ ~Sunday(local) /\ report' = [report EXCEPT ![p] = <<o, local>>]
            /\ pc' = [pc EXCEPT ![p] = "claiming"]
  BY DEF ReadDate, Turn
<1>2. <<o, local>> \in Offices \X Dates /\ <<o, local>> # NoReport /\ local \in Int
  BY DatesOfNow DEF IInv, NoReport, Dates
<1>3. p \in excused \/ Morning(o, local) = now
  <2>1. SUFFICES ASSUME p \notin excused PROVE Morning(o, local) = now
    OBVIOUS
  <2>2. fires[p][o] = now
    BY <1>1, <2>1 DEF IInv, ClockInv, OnTime, InRound
  <2>3. PICK e \in Nat : fires[p][o] = Morning(o, e)
    BY <1>1 DEF IInv, ClockInv, FiresAreMornings
  <2>4. now \in Nat
    BY DEF IInv, TypeOK
  <2>5. QED BY <2>2, <2>3, <2>4, Mornings
<1>4. \A d \in Dates : Morning(o, d) = now => local = d
  BY Mornings DEF Dates, IInv, TypeOK
<1> HIDE DEF local
<1>5. /\ \A q \in Schedulers : q # p =>
            todo'[q] = todo[q] /\ pc'[q] = pc[q] /\ report'[q] = report[q]
      /\ todo'[p] = todo[p] \ {o}
      /\ \/ Sunday(local) /\ pc'[p] = "running"
         \/ ~Sunday(local) /\ pc'[p] = "claiming" /\ report'[p] = <<o, local>>
  BY <1>1 DEF IInv, TypeOK
<1>6. TypeOK'
  <2>1. TypeOK BY DEF IInv
  <2>2. /\ pc' \in [Schedulers -> {"down", "waiting", "running", "claiming", "sending"}]
        /\ report' \in [Schedulers -> (Offices \X Dates) \cup {NoReport}]
    <3>1. CASE Sunday(local) BY <1>1, <2>1, <3>1 DEF TypeOK
    <3>2. CASE ~Sunday(local)
      <4>1. /\ pc' = [pc EXCEPT ![p] = "claiming"]
            /\ report' = [report EXCEPT ![p] = <<o, local>>]
        BY <1>1, <3>2
      <4>2. pc \in [Schedulers -> {"down", "waiting", "running", "claiming", "sending"}]
        BY <2>1 DEF TypeOK
      <4>3. report \in [Schedulers -> (Offices \X Dates) \cup {NoReport}]
        BY <2>1 DEF TypeOK
      <4> QED BY <1>2, <4>1, <4>2, <4>3
    <3> QED BY <3>1, <3>2
  <2>3. todo' \in [Schedulers -> SUBSET Offices]
    BY <1>1, <2>1 DEF TypeOK
  <2>4. ASSUME NEW q \in Schedulers
        PROVE  /\ pc'[q] \in {"down", "waiting"} => todo'[q] = {}
               /\ pc'[q] \notin {"claiming", "sending"} <=> report'[q] = NoReport
    <3>1. CASE q = p
      <4>1. report[p] = NoReport BY <1>1, <2>1 DEF TypeOK
      <4> QED BY <1>1, <1>2, <1>5, <2>1, <3>1, <4>1 DEF TypeOK
    <3>2. CASE q # p BY <1>5, <2>1, <3>2 DEF TypeOK
    <3> QED BY <3>1, <3>2
  <2> QED BY <1>1, <2>1, <2>2, <2>3, <2>4 DEF TypeOK
<1>7. ClaimsInv'
  BY <1>1, <1>5 DEF IInv, ClaimsInv, SentOncePerDate, SentIsClaimed, FirstTime, OneSender
<1>8. MorningsCovered'
  <2> SUFFICES ASSUME NEW q \in Schedulers, NEW r \in Offices, NEW d \in Dates, ~Sunday(d)
      PROVE  /\ pc'[q] = "waiting" /\ now <= Morning(r, d) =>
                 fires[q][r] <= Morning(r, d) \/ (Morning(r, d) = now /\ Settled(q, r, d))
             /\ InRound(q)' /\ Morning(r, d) = now =>
                 \/ r \in todo'[q] \/ Settled(q, r, d)
                 \/ pc'[q] = "claiming" /\ report'[q] = <<r, d>>
    BY <1>1 DEF MorningsCovered, Settled
  <2>1. CASE q = p
    <3>1. CASE r = o
      BY <1>4, <1>5, <2>1, <3>1
    <3>2. CASE r # o
      BY <1>1, <1>5, <2>1, <3>2 DEF IInv, ClockInv, MorningsCovered, InRound
    <3>3. QED BY <3>1, <3>2
  <2>2. CASE q # p
    BY <1>5, <2>2 DEF IInv, ClockInv, MorningsCovered, InRound
  <2>3. QED BY <2>1, <2>2
<1>9. FiresAreMornings'
  BY <1>1, <1>5 DEF IInv, ClockInv, FiresAreMornings, Morning
<1>10. OnTime'
  BY <1>1, <1>5 DEF IInv, ClockInv, OnTime, InRound
<1>11. ReadsAreMornings'
  <2>1. ASSUME NEW q \in Schedulers PROVE ReadInTime(q)'
    <3>1. CASE q = p
      <4>1. now' = now /\ excused' = excused
        BY <1>1
      <4>2. \/ ~Sunday(local) /\ pc'[p] = "claiming" /\ report'[p] = <<o, local>>
            \/ pc'[p] # "claiming"
        BY <1>5
      <4>3. <<o, local>>[1] = o /\ <<o, local>>[2] = local /\ local <= Date(o, now)
        BY <1>2 DEF local
      <4>4. QED BY <1>3, <3>1, <4>1, <4>2, <4>3 DEF ReadInTime, Sunday, Date, Morning
    <3>2. CASE q # p
      BY <1>1, <1>5, <3>2
         DEF IInv, ClockInv, ReadsAreMornings, ReadInTime, Sunday, Date, Morning
    <3>3. QED BY <3>1, <3>2
  <2>2. QED BY <2>1 DEF ReadsAreMornings
<1>12. QED BY <1>6, <1>7, <1>8, <1>9, <1>10, <1>11 DEF IInv, ClockInv

\* The insert: the run was there, is claimed now, or the insert fails.
LEMMA ClaimIInv ==
    ASSUME IInv, NEW p \in Schedulers, Claim(p)
    PROVE  IInv'
<1> DEFINE run == report[p]
<1>1. pc[p] = "claiming" /\ UNCHANGED <<now, fires, todo, sent>>
  BY DEF Claim
<1>2. \/ /\ run \in runs /\ UNCHANGED <<runs, excused>>
         /\ pc' = [pc EXCEPT ![p] = "running"] /\ report' = [report EXCEPT ![p] = NoReport]
      \/ /\ run \notin runs /\ runs' = runs \cup {run}
         /\ pc' = [pc EXCEPT ![p] = "sending"] /\ UNCHANGED <<report, excused>>
      \/ /\ excused' = excused \cup {p} /\ UNCHANGED runs
         /\ pc' = [pc EXCEPT ![p] = "running"] /\ report' = [report EXCEPT ![p] = NoReport]
  BY DEF Claim, PassOn
<1>3. run \in Offices \X Dates
  BY <1>1 DEF IInv, TypeOK
<1> HIDE DEF run
<1>4. TypeOK'
  BY <1>1, <1>2, <1>3 DEF IInv, TypeOK, run
<1>5. /\ \A q \in Schedulers : q # p => report'[q] = report[q] /\ pc'[q] = pc[q]
      /\ \/ pc'[p] = "running" /\ (run \in runs' \/ p \in excused')
         \/ pc'[p] = "sending" /\ run \in runs' /\ run \notin runs /\ report'[p] = run
      /\ excused \subseteq excused' /\ runs \subseteq runs'
      /\ \A q \in Schedulers : q # p => (q \in excused' <=> q \in excused)
  BY <1>1, <1>2 DEF IInv, TypeOK, run
<1>6. ClaimsInv'
  <2>1. SentOncePerDate' /\ SentIsClaimed'
    BY <1>1, <1>5 DEF IInv, ClaimsInv, SentOncePerDate, SentIsClaimed
  <2>2. pc'[p] = "sending" => sent[run[1]][run[2]] = 0
    <3>1. run[1] \in Offices /\ run[2] \in Dates /\ run = <<run[1], run[2]>>
      BY <1>3
    <3>2. QED BY <1>5, <3>1 DEF IInv, ClaimsInv, SentIsClaimed
  <2>3. FirstTime'
    BY <1>1, <1>5, <2>2 DEF IInv, ClaimsInv, FirstTime
  <2>4. OneSender'
    BY <1>5 DEF IInv, ClaimsInv, FirstTime, OneSender
  <2>5. QED BY <2>1, <2>3, <2>4 DEF ClaimsInv
<1>7. MorningsCovered'
  <2> SUFFICES ASSUME NEW q \in Schedulers, NEW r \in Offices, NEW d \in Dates, ~Sunday(d)
      PROVE  /\ pc'[q] = "waiting" /\ now <= Morning(r, d) =>
                 \/ fires[q][r] <= Morning(r, d)
                 \/ Morning(r, d) = now /\ Settled(q, r, d)'
             /\ InRound(q)' /\ Morning(r, d) = now =>
                 \/ r \in todo[q] \/ Settled(q, r, d)'
                 \/ pc'[q] = "claiming" /\ report'[q] = <<r, d>>
    BY <1>1 DEF MorningsCovered
  <2>1. Settled(q, r, d) => Settled(q, r, d)'
    BY <1>5 DEF Settled
  <2>2. CASE q = p
    <3>1. report[p] = <<r, d>> => Settled(p, r, d)'
      BY <1>5 DEF Settled, run
    <3>2. QED BY <1>1, <1>5, <2>1, <2>2, <3>1 DEF IInv, ClockInv, MorningsCovered, InRound
  <2>3. CASE q # p
    BY <1>5, <2>1, <2>3 DEF IInv, ClockInv, MorningsCovered, InRound
  <2>4. QED BY <2>2, <2>3
<1>8. FiresAreMornings'
  BY <1>1, <1>5 DEF IInv, ClockInv, FiresAreMornings, Morning
<1>9. OnTime'
  BY <1>1, <1>5 DEF IInv, ClockInv, OnTime, InRound
<1>10. ReadsAreMornings'
  BY <1>1, <1>5 DEF IInv, ClockInv, ReadsAreMornings, ReadInTime, Sunday, Date, Morning
<1>11. QED BY <1>4, <1>6, <1>7, <1>8, <1>9, <1>10 DEF IInv, ClockInv

LEMMA SendIInv ==
    ASSUME IInv, NEW p \in Schedulers, Send(p)
    PROVE  IInv'
<1> DEFINE o == report[p][1]  d == report[p][2]
<1>1. /\ pc[p] = "sending" /\ pc' = [pc EXCEPT ![p] = "running"]
      /\ report' = [report EXCEPT ![p] = NoReport]
      /\ UNCHANGED <<now, runs, fires, todo, excused>>
      /\ sent' = sent \/ sent' = [sent EXCEPT ![o][d] = IF @ < 2 THEN @ + 1 ELSE @]
  BY DEF Send, PassOn
<1>2. report[p] \in Offices \X Dates /\ o \in Offices /\ d \in Dates /\ report[p] = <<o, d>>
  <2>1. report[p] \in Offices \X Dates
    BY <1>1 DEF IInv, TypeOK
  <2>2. QED BY <2>1
<1>3. sent[o][d] = 0 /\ report[p] \in runs
  BY <1>1 DEF IInv, ClaimsInv, FirstTime
<1> HIDE DEF o, d
<1>4. \A q \in Offices, e \in Dates :
        sent'[q][e] = sent[q][e] \/ (q = o /\ e = d /\ sent'[q][e] = 1)
  BY <1>1, <1>2, <1>3 DEF IInv, TypeOK
<1>5. sent' \in [Offices -> [Dates -> 0..2]]
  <2>1. CASE sent' = sent
    BY <2>1 DEF IInv, TypeOK
  <2>2. CASE sent' = [sent EXCEPT ![o][d] = IF @ < 2 THEN @ + 1 ELSE @]
    <3>1. sent \in [Offices -> [Dates -> 0..2]]
      BY DEF IInv, TypeOK
    <3>2. ASSUME NEW q \in Offices, NEW e \in Dates, sent[q][e] < 2
          PROVE  sent[q][e] + 1 \in 0..2
      <4>1. sent[q][e] \in 0..2
        BY <3>1
      <4>2. QED BY <3>2, <4>1
    <3>3. QED BY <2>2, <3>1, <3>2
  <2>3. QED BY <1>1, <2>1, <2>2
<1>6. TypeOK'
  BY <1>1, <1>5 DEF IInv, TypeOK
<1>7. /\ \A q \in Schedulers : q # p => report'[q] = report[q] /\ pc'[q] = pc[q]
      /\ pc'[p] = "running"
  BY <1>1 DEF IInv, TypeOK
<1>8. SentOncePerDate'
  BY <1>4 DEF IInv, ClaimsInv, SentOncePerDate
<1>9. SentIsClaimed'
  BY <1>1, <1>2, <1>3, <1>4 DEF IInv, ClaimsInv, SentIsClaimed
<1>10. OneSender'
  BY <1>7 DEF IInv, ClaimsInv, OneSender
<1>11. FirstTime'
  <2> SUFFICES ASSUME NEW q \in Schedulers, pc'[q] = "sending"
      PROVE  report'[q] \in runs /\ sent'[report'[q][1]][report'[q][2]] = 0
    BY <1>1 DEF FirstTime
  <2>1. q # p /\ pc[q] = "sending" /\ report'[q] = report[q]
    BY <1>7
  <2>2. report[q] \in Offices \X Dates /\ report[q] # report[p]
    BY <1>1, <2>1 DEF IInv, TypeOK, ClaimsInv, OneSender
  <2>3. /\ report[q][1] \in Offices /\ report[q][2] \in Dates
        /\ ~(report[q][1] = o /\ report[q][2] = d)
    BY <1>2, <2>2
  <2>4. report[q] \in runs /\ sent[report[q][1]][report[q][2]] = 0
    BY <2>1 DEF IInv, ClaimsInv, FirstTime
  <2>5. QED BY <1>4, <2>1, <2>3, <2>4
<1>12. ClockInv'
  <2>1. MorningsCovered'
    BY <1>1, <1>7 DEF IInv, ClockInv, MorningsCovered, Settled, Morning, Sunday, InRound
  <2>2. FiresAreMornings' /\ OnTime'
    BY <1>1, <1>7 DEF IInv, ClockInv, FiresAreMornings, OnTime, Morning, InRound
  <2>3. ReadsAreMornings'
    BY <1>1, <1>7 DEF IInv, ClockInv, ReadsAreMornings, ReadInTime, Sunday, Date, Morning
  <2>4. QED BY <2>1, <2>2, <2>3 DEF ClockInv
<1>13. QED BY <1>6, <1>8, <1>9, <1>10, <1>11, <1>12 DEF IInv, ClaimsInv

LEMMA StopIInv ==
    ASSUME IInv, NEW p \in Schedulers, Stop(p)
    PROVE  IInv'
<1>1. /\ pc' = [pc EXCEPT ![p] = "down"]
      /\ fires' = [fires EXCEPT ![p] = [o \in Offices |-> 0]]
      /\ todo' = [todo EXCEPT ![p] = {}]
      /\ report' = [report EXCEPT ![p] = NoReport]
      /\ excused' = excused \ {p} /\ UNCHANGED <<now, runs, sent>>
  BY DEF Stop
<1>2. /\ \A q \in Schedulers : q # p => /\ pc'[q] = pc[q] /\ fires'[q] = fires[q]
                                        /\ todo'[q] = todo[q] /\ report'[q] = report[q]
                                        /\ q \in excused' <=> q \in excused
      /\ pc'[p] = "down"
  BY <1>1 DEF IInv, TypeOK
<1>3. 0 \in Times
  BY ClockAssumption DEF Times
<1>4. TypeOK'
  BY <1>1, <1>3 DEF IInv, TypeOK
<1>5. ClaimsInv'
  BY <1>1, <1>2 DEF IInv, ClaimsInv, SentOncePerDate, SentIsClaimed, FirstTime, OneSender
<1>6. MorningsCovered'
  BY <1>1, <1>2 DEF IInv, ClockInv, MorningsCovered, Settled, Morning, Sunday, InRound
<1>7. FiresAreMornings' /\ OnTime'
  BY <1>1, <1>2 DEF IInv, ClockInv, FiresAreMornings, OnTime, Morning, InRound
<1>8. ReadsAreMornings'
  BY <1>1, <1>2 DEF IInv, ClockInv, ReadsAreMornings, ReadInTime, Sunday, Date, Morning
<1>9. QED BY <1>4, <1>5, <1>6, <1>7, <1>8 DEF IInv, ClockInv

\* An hour passes: who was to act in the last one and did not is excused in this one.
LEMMA TickIInv ==
    ASSUME IInv, Tick
    PROVE  IInv'
<1>1. /\ now < Horizon /\ now' = now + 1
      /\ excused' = {p \in Schedulers : Stalled(p)}
      /\ UNCHANGED <<runs, pc, fires, todo, report, sent>>
  BY DEF Tick
<1>2. now \in Int /\ \A p \in Schedulers, o \in Offices : fires[p][o] \in Int
  BY DEF IInv, TypeOK, Times
<1>3. TypeOK'
  BY <1>1, ClockAssumption DEF IInv, TypeOK
<1>4. ClaimsInv'
  BY <1>1 DEF IInv, ClaimsInv, SentOncePerDate, SentIsClaimed, FirstTime, OneSender
<1>5. \A o \in Offices, d \in Dates : Morning(o, d) \in Int /\ Morning(o, d)' = Morning(o, d)
  BY Mornings DEF Dates, Morning
<1>6. MorningsCovered'
  <2> SUFFICES ASSUME NEW p \in Schedulers, NEW o \in Offices, NEW d \in Dates, ~Sunday(d)
      PROVE  /\ pc[p] = "waiting" /\ now + 1 <= Morning(o, d) => fires[p][o] <= Morning(o, d)
             /\ InRound(p) => p \in excused'
    BY <1>1, <1>5 DEF MorningsCovered, Settled, Sunday, InRound
  <2>1. pc[p] = "waiting" /\ now + 1 <= Morning(o, d) => fires[p][o] <= Morning(o, d)
    BY <1>2, <1>5 DEF IInv, ClockInv, MorningsCovered
  <2>2. InRound(p) => p \in excused'
    BY <1>1 DEF Stalled, InRound
  <2>3. QED BY <2>1, <2>2
<1>7. FiresAreMornings'
  BY <1>1 DEF IInv, ClockInv, FiresAreMornings, Morning
<1>8. OnTime'
  BY <1>1, <1>2 DEF OnTime, Stalled, Due, InRound
<1>9. ReadsAreMornings'
  <2> SUFFICES ASSUME NEW p \in Schedulers, pc[p] = "claiming"
      PROVE  /\ ~Sunday(report[p][2]) /\ report[p][2] <= Date(report[p][1], now + 1)
             /\ p \in excused'
    BY <1>1 DEF ReadsAreMornings, ReadInTime, Sunday, Date
  <2>1. p \in excused'
    BY <1>1 DEF Stalled
  <2>2. ~Sunday(report[p][2]) /\ report[p][2] <= Date(report[p][1], now)
    BY DEF IInv, ClockInv, ReadsAreMornings, ReadInTime
  <2>3. report[p] \in Offices \X Dates /\ now \in Nat
    BY DEF IInv, TypeOK
  <2>4. report[p][1] \in Offices /\ report[p][2] \in Int
    BY <2>3 DEF Dates
  <2>5. /\ Date(report[p][1], now) <= Date(report[p][1], now + 1)
        /\ Date(report[p][1], now) \in Int /\ Date(report[p][1], now + 1) \in Int
    BY <2>3, <2>4, DatesFollow, DateIsOfTime
  <2>6. QED BY <2>1, <2>2, <2>4, <2>5
<1>10. QED BY <1>3, <1>4, <1>6, <1>7, <1>8, <1>9 DEF IInv, ClockInv

LEMMA NextIInv == IInv /\ [Next]_vars => IInv'
<1> SUFFICES ASSUME IInv, [Next]_vars PROVE IInv'
  OBVIOUS
<1>1. CASE UNCHANGED vars
  BY <1>1 DEF vars, IInv, TypeOK, ClaimsInv, SentOncePerDate, SentIsClaimed, FirstTime,
     OneSender, ClockInv, MorningsCovered, FiresAreMornings, OnTime, ReadsAreMornings,
     ReadInTime, Settled, InRound, Morning, Sunday, Date
<1>2. QED BY <1>1, PlanIInv, FireIInv, ReadIInv, ClaimIInv, SendIInv, StopIInv, TickIInv DEF Next

LEMMA IInvAlways == Spec => []IInv
  BY InitIInv, NextIInv, PTL DEF Spec

\* Every state of the schedulers and of daily_report_runs is well formed: fire times
\* lie within a week of now and claims name dates of the calendar.
THEOREM SchedulersAreTyped == Spec => []TypeOK
<1>1. IInv => TypeOK
  BY DEF IInv
<1>2. QED BY IInvAlways, <1>1, PTL

\* However many processes overlap, stall or restart, no office is sent the report of
\* one local date twice (20260717210000_daily_report_runs.sql:1).
THEOREM OneReportPerDate == Spec => []SentOncePerDate
<1>1. IInv => SentOncePerDate
  BY DEF IInv, ClaimsInv
<1>2. QED BY IInvAlways, <1>1, PTL

LEMMA MorningStep ==
    ASSUME IInv, Next, now' # now, NEW p \in Schedulers \ (excused \cup excused'),
           NEW o \in Offices, NEW d \in Dates, pc[p] # "down", ~Sunday(d), Morning(o, d) = now
    PROVE  <<o, d>> \in runs
<1>1. Tick
  BY DEF Next, Start, EndRound, Plan, Fire, ReadDate, Claim, Send, Stop
<1>2. ~Stalled(p)
  BY <1>1 DEF Tick
<1>3. pc[p] = "waiting" /\ ~(fires[p][o] <= now)
  BY <1>2 DEF Stalled, Due, IInv, TypeOK
<1>4. now <= Morning(o, d)
  BY DEF IInv, TypeOK
<1>5. QED BY <1>3, <1>4 DEF IInv, ClockInv, MorningsCovered, Settled

\* No office's morning passes a process by that was up, on time and met no failed
\* insert: its report is claimed within the hour, from Monday to Saturday, for any
\* offices, offsets, hour and length of the calendar (report.go:95).
THEOREM MorningsAreClaimed == Spec => NoMorningSkipped
<1>1. IInv /\ [Next]_vars =>
        [now' # now =>
            \A p \in Schedulers \ (excused \cup excused'), o \in Offices, d \in Dates :
                pc[p] # "down" /\ ~Sunday(d) /\ Morning(o, d) = now
                    => <<o, d>> \in runs]_vars
  BY MorningStep
<1>2. QED BY IInvAlways, <1>1, PTL DEF Spec, NoMorningSkipped

\* No run is claimed for a Sunday or for a day to come, and one that is claimed outside
\* the local hour of its date is claimed by a process that started or met a failed insert
\* in this hour, or was stalled when it began (report.go:159-166, report.go:450).
THEOREM RunsAreAtTheirHour == Spec => RunsAreMornings
<1>1. IInv /\ [Next]_vars =>
        [\A p \in Schedulers :
            pc[p] = "claiming" /\ pc'[p] = "sending" =>
                LET o == report[p][1]
                    d == report[p][2]
                IN /\ ~Sunday(d) /\ d <= Date(o, now)
                   /\ p \in excused \/ Morning(o, d) = now]_vars
  BY DEF IInv, ClockInv, ReadsAreMornings, ReadInTime
<1>2. QED BY IInvAlways, <1>1, PTL DEF Spec, RunsAreMornings

----------------------------------------------------------------------------
(* Documents *)

KeyHeld(c) ==
    at[c] \in {"lock", "head", "block", "attach"} =>
        keyOwner[asks[c].key] = c /\ keyRow[asks[c].key] = NoKeyRow

\* The row a confirmation holds waits for it, and keeps the lead from being removed.
RowHeld(c) ==
    at[c] \in {"head", "block", "attach"} =>
        /\ rowOwner[asks[c].file] = c
        /\ document[asks[c].file] = "awaiting_upload"
        /\ leadState # "gone"

\* What is about to be listed was within the limit, or was put again since.
Measured(c) ==
    at[c] = "attach" => asks[c].file \in looked \/ object[asks[c].file] = "fits"

\* A key without a response belongs to a document that was too large.
Unanswered(k) ==
    keyRow[k].file \in Files /\ ~keyRow[k].answered =>
        document[keyRow[k].file] = "blocked" \/ leadState = "gone"

\* An entry that was deleted by hand was that of a document that is ready for good.
ErasedWasListed == \A f \in erased : document[f] = "ready" \/ leadState = "gone"

DocumentInv ==
    /\ DocumentTypeOK
    /\ \A c \in Confirmations : at[c] # "new" => asks[c].file \in Files
    /\ \A c \in Confirmations : KeyHeld(c) /\ RowHeld(c) /\ Measured(c)
    /\ \A k \in ConfirmKeys : Unanswered(k)
    /\ AttachedOnce
    /\ ListedWasChecked
    /\ ErasedWasListed

LEMMA InitDocumentInv == DocumentInit => DocumentInv
<1> SUFFICES ASSUME DocumentInit PROVE DocumentInv OBVIOUS
<1>1. DocumentTypeOK
  <2>1. asks \in [Confirmations -> [file : Files \cup {NoFile}, key : ConfirmKeys]]
    BY DEF DocumentInit
  <2>2. deletingLead \in BOOLEAN BY DEF DocumentInit
  <2> QED BY <2>1, <2>2 DEF DocumentInit, DocumentTypeOK
<1>2. \A k \in ConfirmKeys : Unanswered(k)
  BY DocumentAssumption DEF DocumentInit, Unanswered, NoKeyRow
<1> QED BY <1>1, <1>2 DEF DocumentInit, DocumentInv, KeyHeld, RowHeld, Measured,
                          AttachedOnce, ListedWasChecked, Listed, ErasedWasListed

\* A transaction that ends without writing gives up its locks and nothing else.
LEMMA RollBackInv ==
    ASSUME DocumentInv, NEW c \in Confirmations, at[c] # "new",
           NEW answer \in {"nothing", "created", "refused", "unclaimed"}, RollBack(c, answer),
           UNCHANGED <<leadOfFiles, bucket>>
    PROVE  DocumentInv'
<1> USE DocumentAssumption DEF RollBack, Conclude, Step, documentRows, leadOfFiles, bucket
<1>1. DocumentTypeOK' BY DEF DocumentInv, DocumentTypeOK
<1>2. \A d \in Confirmations : at'[d] # "done" => d # c /\ at'[d] = at[d]
  BY DEF DocumentInv, DocumentTypeOK
<1>3. \A d \in Confirmations : at'[d] # "new" => asks'[d].file \in Files
  BY DEF DocumentInv, DocumentTypeOK
<1>4. ASSUME NEW d \in Confirmations PROVE (KeyHeld(d) /\ RowHeld(d) /\ Measured(d))'
  BY <1>2, <1>3 DEF DocumentInv, DocumentTypeOK, KeyHeld, RowHeld, Measured
<1>5. \A k \in ConfirmKeys : Unanswered(k)' BY DEF DocumentInv, Unanswered
<1>6. AttachedOnce' /\ ListedWasChecked' /\ ErasedWasListed'
  BY DEF DocumentInv, AttachedOnce, ListedWasChecked, Listed, ErasedWasListed
<1> QED BY <1>1, <1>3, <1>4, <1>5, <1>6 DEF DocumentInv

\* Steps of the lead, the bucket and the uploads, which leave the confirmations alone.
LEMMA OutsideInv ==
    ASSUME DocumentInv,
           \/ \E f \in Files : \/ SignUpload(f) \/ AwaitUpload(f) \/ PutObject(f) \/ Expire(f)
                               \/ AllowErase(f) \/ EraseEntry(f)
           \/ ArchiveLead \/ LockLead \/ RemoveLead \/ KeepLead
    PROVE  DocumentInv'
<1> USE DocumentAssumption DEF documentRows, leadOfFiles, bucket, documentLocks
<1>1. ASSUME NEW f \in Files, SignUpload(f) \/ Expire(f) PROVE DocumentInv'
  BY <1>1 DEF SignUpload, Expire, DocumentInv, DocumentTypeOK, KeyHeld, RowHeld, Measured,
              Unanswered, AttachedOnce, ListedWasChecked, Listed, ErasedWasListed
<1>2. ASSUME NEW f \in Files, AwaitUpload(f) PROVE DocumentInv'
  BY <1>2 DEF AwaitUpload, DocumentInv, DocumentTypeOK, KeyHeld, RowHeld, Measured,
              Unanswered, AttachedOnce, ListedWasChecked, Listed, ErasedWasListed
<1>3. ASSUME NEW f \in Files, PutObject(f) PROVE DocumentInv'
  <2>1. DocumentTypeOK' BY <1>3 DEF PutObject, DocumentInv, DocumentTypeOK
  <2>2. \A g \in Files : object'[g] = object[g] \/ g = f
    BY <1>3 DEF PutObject, DocumentInv, DocumentTypeOK
  <2>3. ListedWasChecked'
    BY <1>3, <2>2 DEF PutObject, Looked, Listed, ListedWasChecked, DocumentInv
  <2>4. \A c \in Confirmations : Measured(c)'
    BY <1>3, <2>2 DEF PutObject, Looked, Measured, RowHeld, DocumentInv
  <2> QED BY <1>3, <2>1, <2>3, <2>4
          DEF PutObject, DocumentInv, KeyHeld, RowHeld, Unanswered, AttachedOnce, Listed,
              ErasedWasListed
<1>4. CASE ArchiveLead \/ LockLead \/ KeepLead
  <2>1. DocumentTypeOK'
    BY <1>4 DEF ArchiveLead, LockLead, KeepLead, DocumentInv, DocumentTypeOK
  <2>2. (leadState = "gone") = (leadState' = "gone")
    BY <1>4 DEF ArchiveLead, LockLead, KeepLead
  <2>3. UNCHANGED <<erasing, erased, bucket, documentRows, documentLocks, asks, at, told>>
    BY <1>4 DEF ArchiveLead, LockLead, KeepLead
  <2> QED BY <2>1, <2>2, <2>3 DEF DocumentInv, KeyHeld, RowHeld, Measured, Unanswered,
                                  AttachedOnce, ListedWasChecked, Listed, ErasedWasListed
<1>5. CASE RemoveLead
  <2>1. DocumentTypeOK'
    <3>1. deletingLead' \in BOOLEAN BY <1>5 DEF RemoveLead
    <3>2. UNCHANGED <<erasing, erased, bucket, keyRow, documentLocks, asks, at, told>>
      BY <1>5 DEF RemoveLead
    <3>3. /\ leadState' \in {"open", "archived", "gone"}
          /\ attached' \in [Files -> 0..2]
          /\ document' \in [Files -> {"none", "awaiting_upload", "ready", "blocked"}]
      BY <1>5 DEF RemoveLead
    <3> QED BY <3>1, <3>2, <3>3 DEF DocumentInv, DocumentTypeOK
  <2>2. \A c \in Confirmations : at[c] \notin {"head", "block", "attach"}
    BY <1>5 DEF RemoveLead, DocumentInv, RowHeld
  <2>3. \A c \in Confirmations : KeyHeld(c)' /\ RowHeld(c)' /\ Measured(c)'
    BY <1>5, <2>2 DEF RemoveLead, DocumentInv, KeyHeld, RowHeld, Measured
  <2> QED BY <1>5, <2>1, <2>3 DEF RemoveLead, DocumentInv, Unanswered, AttachedOnce,
                                  ListedWasChecked, Listed, ErasedWasListed
<1>6. ASSUME NEW f \in Files, AllowErase(f) \/ EraseEntry(f) PROVE DocumentInv'
  <2>1. /\ UNCHANGED <<leadState, deletingLead, document, keyRow, asks, at, told, bucket,
                       documentLocks>>
        /\ \/ UNCHANGED <<attached, erased>>
           \/ /\ attached[f] > 0 /\ erased' = erased \cup {f}
              /\ attached' = [attached EXCEPT ![f] = @ - 1]
        /\ erasing' \in SUBSET Files
    BY <1>6 DEF AllowErase, EraseEntry, DocumentInv, DocumentTypeOK
  <2>2. attached[f] > 0 => attached[f] = 1 /\ f \in Listed
    BY DEF DocumentInv, AttachedOnce
  <2>3. DocumentTypeOK' BY <2>1, <2>2 DEF DocumentInv, DocumentTypeOK
  <2>4. AttachedOnce' /\ ListedWasChecked' /\ ErasedWasListed'
    BY <2>1, <2>2 DEF DocumentInv, DocumentTypeOK, AttachedOnce, ListedWasChecked, Listed,
                      ErasedWasListed
  <2> QED BY <2>1, <2>3, <2>4 DEF DocumentInv, KeyHeld, RowHeld, Measured, Unanswered
<1> QED BY <1>1, <1>2, <1>3, <1>4, <1>5, <1>6

LEMMA ConfirmationInv ==
    ASSUME DocumentInv, NEW c \in Confirmations,
           \/ \E f \in Files : Confirm(c, f)
           \/ ClaimKey(c) \/ LockDocument(c) \/ Look(c) \/ Block(c) \/ Attach(c)
           \/ Break(c)
    PROVE  DocumentInv'
<1> USE DocumentAssumption DEF documentRows, leadOfFiles, bucket, documentLocks, Step
<1>1. ASSUME NEW f \in Files, Confirm(c, f) PROVE DocumentInv'
  <2>1. /\ at[c] = "new" /\ at' = [at EXCEPT ![c] = "claim"]
        /\ asks' = [asks EXCEPT ![c].file = f]
        /\ UNCHANGED <<leadOfFiles, bucket, documentRows, documentLocks, told>>
    BY <1>1 DEF Confirm
  <2>2. DocumentTypeOK' BY <2>1 DEF DocumentInv, DocumentTypeOK
  <2>3. at'[c] = "claim" /\ asks'[c].file = f BY <2>1 DEF DocumentInv, DocumentTypeOK
  <2>4. \A d \in Confirmations \ {c} : at'[d] = at[d] /\ asks'[d] = asks[d]
    BY <2>1 DEF DocumentInv, DocumentTypeOK
  <2>5. \A d \in Confirmations : at'[d] # "new" => asks'[d].file \in Files
    BY <2>3, <2>4 DEF DocumentInv
  <2>6. ASSUME NEW d \in Confirmations PROVE (KeyHeld(d) /\ RowHeld(d) /\ Measured(d))'
    <3>1. KeyHeld(d) /\ RowHeld(d) /\ Measured(d) BY DEF DocumentInv
    <3> QED BY <2>1, <2>3, <2>4, <3>1 DEF KeyHeld, RowHeld, Measured
  <2>7. (\A k \in ConfirmKeys : Unanswered(k))' BY <2>1 DEF DocumentInv, Unanswered
  <2>8. AttachedOnce' /\ ListedWasChecked' /\ ErasedWasListed'
    BY <2>1 DEF DocumentInv, AttachedOnce, ListedWasChecked, Listed, ErasedWasListed
  <2> QED BY <2>2, <2>5, <2>6, <2>7, <2>8 DEF DocumentInv
<1>2. CASE ClaimKey(c)
  <2>1. CASE \E answer \in {"created", "refused"} : RollBack(c, answer)
    BY <1>2, <2>1, RollBackInv DEF ClaimKey
  <2>2. CASE /\ keyRow[asks[c].key] = NoKeyRow
             /\ keyOwner' = [keyOwner EXCEPT ![asks[c].key] = c]
             /\ at' = [at EXCEPT ![c] = "lock"]
             /\ UNCHANGED <<documentRows, rowOwner, asks, told>>
    BY <1>2, <2>2 DEF ClaimKey, DocumentInv, DocumentTypeOK, KeyHeld, RowHeld, Measured,
                      Unanswered, AttachedOnce, ListedWasChecked, Listed, ErasedWasListed
  <2> QED BY <1>2, <2>1, <2>2 DEF ClaimKey
<1>3. CASE LockDocument(c)
  <2>1. CASE RollBack(c, "refused") BY <1>3, <2>1, RollBackInv DEF LockDocument
  <2>2. CASE ~RollBack(c, "refused")
    <3> DEFINE f == asks[c].file
    <3>1. /\ at[c] = "lock" /\ leadState = "open" /\ document[f] = "awaiting_upload"
          /\ rowOwner[f] = NoOne /\ rowOwner' = [rowOwner EXCEPT ![f] = c]
          /\ at' = [at EXCEPT ![c] = "head"]
          /\ UNCHANGED <<documentRows, keyOwner, asks, told, leadOfFiles, bucket>>
      BY <1>3, <2>2 DEF LockDocument
    <3>2. f \in Files BY <3>1 DEF DocumentInv
    <3>3. DocumentTypeOK' BY <3>1, <3>2 DEF DocumentInv, DocumentTypeOK
    <3>4. \A d \in Confirmations : at'[d] = IF d = c THEN "head" ELSE at[d]
      BY <3>1 DEF DocumentInv, DocumentTypeOK
    <3>5. \A g \in Files : rowOwner'[g] = IF g = f THEN c ELSE rowOwner[g]
      BY <3>1 DEF DocumentInv, DocumentTypeOK
    <3>6. \A d \in Confirmations : at'[d] # "new" => asks'[d].file \in Files
      BY <3>1, <3>2, <3>4 DEF DocumentInv
    <3>7. ASSUME NEW d \in Confirmations PROVE KeyHeld(d)' /\ Measured(d)'
      BY <3>1, <3>4 DEF DocumentInv, KeyHeld, Measured
    <3>8. ASSUME NEW d \in Confirmations PROVE RowHeld(d)'
      <4>1. at[d] # "new" => asks[d].file \in Files BY DEF DocumentInv
      <4>2. RowHeld(d) BY DEF DocumentInv
      <4> QED BY <3>1, <3>4, <3>5, <4>1, <4>2 DEF RowHeld
    <3>9. \A k \in ConfirmKeys : Unanswered(k)' BY <3>1 DEF DocumentInv, Unanswered
    <3>10. AttachedOnce' /\ ListedWasChecked' /\ ErasedWasListed'
      BY <3>1 DEF DocumentInv, AttachedOnce, ListedWasChecked, Listed, ErasedWasListed
    <3> QED BY <3>3, <3>6, <3>7, <3>8, <3>9, <3>10 DEF DocumentInv
  <2> QED BY <2>1, <2>2
<1>4. CASE Look(c)
  <2>1. CASE RollBack(c, "refused") BY <1>4, <2>1, RollBackInv DEF Look
  <2>2. CASE ~RollBack(c, "refused")
    <3>1. /\ UNCHANGED <<leadOfFiles, bucket, documentRows, documentLocks, asks, told>>
          /\ at' \in {[at EXCEPT ![c] = "block"], [at EXCEPT ![c] = "attach"]}
          /\ at[c] = "head" /\ asks[c].file \in Files
          /\ at'[c] = "attach" => object[asks[c].file] = "fits"
      BY <1>4, <2>2 DEF Look, DocumentInv, DocumentTypeOK
    <3>2. DocumentTypeOK' BY <3>1 DEF DocumentInv, DocumentTypeOK
    <3>3. ASSUME NEW d \in Confirmations PROVE (KeyHeld(d) /\ RowHeld(d) /\ Measured(d))'
      BY <3>1 DEF DocumentInv, DocumentTypeOK, KeyHeld, RowHeld, Measured
    <3> QED BY <3>1, <3>2, <3>3 DEF DocumentInv, DocumentTypeOK, Unanswered, AttachedOnce,
                                    ListedWasChecked, Listed, ErasedWasListed
  <2> QED BY <2>1, <2>2
<1>5. CASE Break(c) BY <1>5, RollBackInv DEF Break
<1>6. CASE Block(c) \/ Attach(c)
  <2> DEFINE f == asks[c].file k == asks[c].key
  <2>1. /\ f \in Files /\ k \in ConfirmKeys /\ leadState # "gone"
        /\ rowOwner[f] = c /\ document[f] = "awaiting_upload" /\ attached[f] = 0
        /\ keyOwner[k] = c /\ keyRow[k] = NoKeyRow /\ f \notin erased
    BY <1>6 DEF Block, Attach, DocumentInv, DocumentTypeOK, KeyHeld, RowHeld,
                AttachedOnce, Listed, ErasedWasListed
  <2>2. /\ document' \in {[document EXCEPT ![f] = "blocked"],
                           [document EXCEPT ![f] = "ready"]}
        /\ UNCHANGED <<leadOfFiles, bucket, asks>>
        /\ at' = [at EXCEPT ![c] = "done"]
        /\ rowOwner' = [g \in Files |-> IF rowOwner[g] = c THEN NoOne ELSE rowOwner[g]]
        /\ keyOwner' = [j \in ConfirmKeys |->
                            IF keyOwner[j] = c THEN NoOne ELSE keyOwner[j]]
        /\ \E answered \in BOOLEAN :
              /\ keyRow' = [keyRow EXCEPT ![k] = [file |-> f, answered |-> answered]]
              /\ ~answered => document'[f] = "blocked"
    BY <1>6, <2>1 DEF Block, Attach, Conclude, DocumentInv, DocumentTypeOK
  <2>3. attached' = [attached EXCEPT ![f] = IF document'[f] = "ready" THEN 1 ELSE 0]
    BY <1>6, <2>1 DEF Block, Attach, DocumentInv, DocumentTypeOK
  <2>4. told' \in [Confirmations -> {"nothing", "created", "refused", "unclaimed"}]
    BY <1>6 DEF Block, Attach, Conclude, DocumentInv, DocumentTypeOK
  <2>5. DocumentTypeOK'
    <3>1. attached' \in [Files -> 0..2] BY <2>1, <2>3 DEF DocumentInv, DocumentTypeOK
    <3>2. document' \in [Files -> {"none", "awaiting_upload", "ready", "blocked"}]
      BY <2>1, <2>2 DEF DocumentInv, DocumentTypeOK
    <3>3. keyRow' \in [ConfirmKeys -> [file : Files, answered : BOOLEAN] \cup {NoKeyRow}]
      BY <2>1, <2>2 DEF DocumentInv, DocumentTypeOK
    <3>4. /\ rowOwner' \in [Files -> Confirmations \cup {NoOne}]
          /\ keyOwner' \in [ConfirmKeys -> Confirmations \cup {NoOne}]
      BY <2>2 DEF DocumentInv, DocumentTypeOK
    <3>5. at' \in [Confirmations -> {"new", "claim", "lock", "head", "block", "attach",
                                     "done"}]
      BY <2>2 DEF DocumentInv, DocumentTypeOK
    <3> QED BY <2>2, <2>4, <3>1, <3>2, <3>3, <3>4, <3>5 DEF DocumentInv, DocumentTypeOK
  <2>6. \A d \in Confirmations : at'[d] # "new" => asks'[d].file \in Files
    BY <1>6, <2>2 DEF DocumentInv, DocumentTypeOK, Block, Attach
  <2>7. ASSUME NEW d \in Confirmations PROVE (KeyHeld(d) /\ RowHeld(d) /\ Measured(d))'
    <3>1. CASE d = c BY <2>2, <3>1 DEF KeyHeld, RowHeld, Measured, DocumentInv, DocumentTypeOK
    <3>2. CASE d # c
      <4>1. at'[d] = at[d] /\ asks'[d] = asks[d] /\ asks[d].key \in ConfirmKeys
        BY <2>2, <3>2 DEF DocumentInv, DocumentTypeOK
      <4>2. at[d] \in {"lock", "head", "block", "attach"} => asks[d].key # k
        BY <2>1, <3>2 DEF DocumentInv, KeyHeld
      <4>3. KeyHeld(d)' BY <2>1, <2>2, <3>2, <4>1, <4>2 DEF DocumentInv, DocumentTypeOK, KeyHeld
      <4>4. at[d] \in {"head", "block", "attach"} => asks[d].file \in Files \ {f}
        BY <2>1, <3>2 DEF DocumentInv, RowHeld
      <4>5. RowHeld(d)' /\ Measured(d)'
        BY <2>1, <2>2, <3>2, <4>1, <4>4 DEF DocumentInv, DocumentTypeOK, RowHeld, Measured
      <4> QED BY <4>3, <4>5
    <3> QED BY <3>1, <3>2
  <2>8. \A j \in ConfirmKeys : Unanswered(j)'
    BY <2>1, <2>2 DEF DocumentInv, DocumentTypeOK, Unanswered, NoKeyRow
  <2>9. AttachedOnce'
    BY <2>1, <2>2, <2>3 DEF DocumentInv, DocumentTypeOK, AttachedOnce, Listed
  <2>10. ListedWasChecked'
    BY <1>6, <2>1, <2>2 DEF Block, Attach, DocumentInv, DocumentTypeOK, ListedWasChecked,
                            Listed, Measured
  <2>11. ErasedWasListed'
    BY <2>1, <2>2 DEF DocumentInv, DocumentTypeOK, ErasedWasListed
  <2> QED BY <2>5, <2>6, <2>7, <2>8, <2>9, <2>10, <2>11 DEF DocumentInv
<1> QED BY <1>1, <1>2, <1>3, <1>4, <1>5, <1>6

LEMMA NextDocumentInv == DocumentInv /\ [DocumentNext]_documentVars => DocumentInv'
<1>1. CASE UNCHANGED documentVars
  BY <1>1 DEF documentVars, documentRows, leadOfFiles, bucket, documentLocks, DocumentInv,
              DocumentTypeOK, KeyHeld, RowHeld, Measured, Unanswered, AttachedOnce,
              ListedWasChecked, Listed, ErasedWasListed
<1> QED BY <1>1, OutsideInv, ConfirmationInv DEF DocumentNext

\* Every variable of the documents keeps its type.
THEOREM DocumentTypes == DocumentSpec => []DocumentTypeOK
<1>1. DocumentInv => DocumentTypeOK BY DEF DocumentInv
<1> QED BY InitDocumentInv, NextDocumentInv, <1>1, PTL DEF DocumentSpec

\* Confirmed at once by several people, retried, or deleted with its lead meanwhile: a
\* document has one entry in the timeline while it is listed, or none if somebody deleted
\* it by hand, and none otherwise (lead_documents.go:292, leads.go:1231).
THEOREM OneEntryPerDocument == DocumentSpec => []AttachedOnce
<1>1. DocumentInv => AttachedOnce BY DEF DocumentInv
<1> QED BY InitDocumentInv, NextDocumentInv, <1>1, PTL DEF DocumentSpec

\* What is listed passed the look at the bucket, unless its URL was used again after
\* that look (lead_documents.go:284).
THEOREM ListedDocumentsFit == DocumentSpec => []ListedWasChecked
<1>1. DocumentInv => ListedWasChecked BY DEF DocumentInv
<1> QED BY InitDocumentInv, NextDocumentInv, <1>1, PTL DEF DocumentSpec

LEMMA RetryIsToldStep ==
    ASSUME DocumentInv, [DocumentNext]_documentVars, NEW c \in Confirmations,
           asks[c].file \in Listed, keyRow[asks[c].key].file = asks[c].file,
           told'[c] = "refused"
    PROVE  told[c] = "refused"
<1> SUFFICES ASSUME told[c] # "refused" PROVE FALSE OBVIOUS
<1>1. told' # told BY DEF DocumentTypeOK
<1>2. PICK d \in Confirmations :
        ClaimKey(d) \/ LockDocument(d) \/ Look(d) \/ Block(d) \/ Attach(d) \/ Break(d)
  BY <1>1 DEF DocumentNext, documentVars, SignUpload, AwaitUpload, PutObject, Expire, Confirm,
              AllowErase, EraseEntry, ArchiveLead, LockLead, RemoveLead, KeepLead
<1>3. d = c
  BY <1>2 DEF ClaimKey, LockDocument, Look, Block, Attach, Break, RollBack, Conclude,
              DocumentInv, DocumentTypeOK
<1>4. keyRow[asks[c].key] = [file |-> asks[c].file, answered |-> TRUE]
  <2>1. asks[c].key \in ConfirmKeys /\ asks[c].file \in Files
    BY DEF DocumentInv, DocumentTypeOK, Listed
  <2>2. keyRow[asks[c].key] \in [file : Files, answered : BOOLEAN]
    BY <2>1, DocumentAssumption DEF DocumentInv, DocumentTypeOK, NoKeyRow
  <2>3. keyRow[asks[c].key].answered
    BY <2>1 DEF DocumentInv, Unanswered, Listed, AttachedOnce
  <2> QED BY <2>2, <2>3
<1>5. at[c] = "claim"
  BY <1>2, <1>3, <1>4, DocumentAssumption
  DEF ClaimKey, LockDocument, Look, Block, Attach, Break, RollBack, Conclude, DocumentInv,
      DocumentTypeOK, KeyHeld, NoKeyRow
<1>6. CASE ClaimKey(c)
  BY <1>4, <1>6, DocumentAssumption DEF ClaimKey, RollBack, Conclude, DocumentInv,
     DocumentTypeOK, NoKeyRow, Listed
<1>7. CASE Break(c) BY <1>7 DEF Break, RollBack, Conclude, DocumentInv, DocumentTypeOK
<1> QED BY <1>2, <1>3, <1>5, <1>6, <1>7 DEF LockDocument, Look, Block, Attach

\* The retry of a confirmation that listed its document is answered like the first one,
\* or nothing, or, if its claim fails in the database, as a conflict: nobody is told that
\* the document had been confirmed before (lead_documents.go:253).
THEOREM RetriesAreTold == DocumentSpec => RetryIsTold
<1>1. DocumentInv /\ [DocumentNext]_documentVars
      => [\A c \in Confirmations :
            asks[c].file \in Listed /\ keyRow[asks[c].key].file = asks[c].file
                => told'[c] # "refused" \/ told[c] = "refused"]_documentVars
  BY RetryIsToldStep
<1> QED BY InitDocumentInv, NextDocumentInv, <1>1, PTL DEF DocumentSpec, RetryIsTold

----------------------------------------------------------------------------
(* The promise of the confirmation's key (Once) *)

\* Whoever is not done has been told nothing.
UntoldInv == \A c \in Confirmations : at[c] # "done" => told[c] = "nothing"
ConfirmedInv == DocumentInv /\ UntoldInv

LEMMA InitConfirmed == DocumentInit => ConfirmedInv /\ Confirmed!Init
<1> SUFFICES ASSUME DocumentInit PROVE ConfirmedInv /\ Confirmed!Init OBVIOUS
<1>1. ConfirmedInv BY InitDocumentInv DEF ConfirmedInv, UntoldInv, DocumentInit
<1>2. KeysSent = [c \in Confirmations |-> NoOne] BY DEF DocumentInit, KeysSent
<1>3. DocumentsConfirmed = [k \in ConfirmKeys |-> {}]
  BY DEF DocumentInit, DocumentsConfirmed, NoKeyRow
<1>4. DocumentsTold = [c \in Confirmations |-> {}] BY DEF DocumentInit, DocumentsTold
<1> QED BY <1>1, <1>2, <1>3, <1>4 DEF Confirmed!Init

\* A confirmation that answers nothing new leaves the keys alone.
LEMMA UnsaidStep ==
    ASSUME ConfirmedInv, NEW c \in Confirmations, at[c] \notin {"new", "done"},
           UNCHANGED <<asks, keyRow>>,
           \E next \in {"lock", "head", "block", "attach", "done"} :
              at' = [at EXCEPT ![c] = next],
           \/ told' = told
           \/ /\ at' = [at EXCEPT ![c] = "done"]
              /\ told' \in {[told EXCEPT ![c] = "nothing"], [told EXCEPT ![c] = "refused"],
                           [told EXCEPT ![c] = "unclaimed"]}
    PROVE  UntoldInv' /\ UNCHANGED Confirmed!onceVars
<1>1. /\ at \in [Confirmations -> {"new", "claim", "lock", "head", "block", "attach",
                                   "done"}]
      /\ told \in [Confirmations -> {"nothing", "created", "refused", "unclaimed"}]
      /\ told[c] = "nothing"
  BY DEF ConfirmedInv, UntoldInv, DocumentInv, DocumentTypeOK
<1>2. UntoldInv' BY <1>1 DEF ConfirmedInv, UntoldInv
<1>3. KeysSent' = KeysSent BY <1>1 DEF KeysSent
<1>4. DocumentsConfirmed' = DocumentsConfirmed BY DEF DocumentsConfirmed
<1>5. DocumentsTold' = DocumentsTold BY <1>1 DEF DocumentsTold
<1> QED BY <1>2, <1>3, <1>4, <1>5 DEF Confirmed!onceVars

LEMMA ConfirmStep ==
    ASSUME ConfirmedInv, NEW c \in Confirmations, NEW f \in Files, Confirm(c, f)
    PROVE  UntoldInv' /\ \E k \in ConfirmKeys : Confirmed!Ask(c, k)
<1> DEFINE k == asks[c].key
<1>1. /\ at[c] = "new" /\ told[c] = "nothing" /\ k \in ConfirmKeys
      /\ asks' = [asks EXCEPT ![c].file = f] /\ at' = [at EXCEPT ![c] = "claim"]
      /\ UNCHANGED <<keyRow, told>>
      /\ asks \in [Confirmations -> [file : Files \cup {NoFile}, key : ConfirmKeys]]
      /\ DOMAIN at = Confirmations
  BY DEF Confirm, Step, ConfirmedInv, UntoldInv, DocumentInv, DocumentTypeOK, documentRows
<1>2. UntoldInv' BY <1>1 DEF ConfirmedInv, UntoldInv
<1>3. KeysSent[c] = NoOne BY <1>1 DEF KeysSent
<1>4. KeysSent' = [KeysSent EXCEPT ![c] = k]
  <2>1. KeysSent'[c] = k BY <1>1 DEF KeysSent
  <2>2. \A d \in Confirmations \ {c} : KeysSent'[d] = KeysSent[d] BY <1>1 DEF KeysSent
  <2> HIDE DEF k
  <2> QED BY <2>1, <2>2 DEF KeysSent
<1>5. DocumentsConfirmed' = DocumentsConfirmed BY <1>1 DEF DocumentsConfirmed
<1>6. DocumentsTold' = DocumentsTold BY <1>1 DEF DocumentsTold
<1> QED BY <1>1, <1>2, <1>3, <1>4, <1>5, <1>6 DEF Confirmed!Ask

LEMMA ClaimKeyStep ==
    ASSUME ConfirmedInv, NEW c \in Confirmations, ClaimKey(c)
    PROVE  UntoldInv' /\ (Confirmed!Replay(c) \/ UNCHANGED Confirmed!onceVars)
<1> DEFINE k == asks[c].key f == asks[c].file
<1>1. /\ at[c] = "claim" /\ told[c] = "nothing" /\ k \in ConfirmKeys /\ k # NoOne
      /\ DOMAIN told = Confirmations /\ DOMAIN at = Confirmations
  BY DocumentAssumption
     DEF ClaimKey, ConfirmedInv, UntoldInv, DocumentInv, DocumentTypeOK
<1>2. CASE keyRow[k] = NoKeyRow
  <2>1. NoKeyRow # [file |-> f, answered |-> TRUE] BY DEF NoKeyRow
  <2>2. at' = [at EXCEPT ![c] = "lock"] /\ UNCHANGED <<asks, keyRow, told>>
    BY <1>2, <2>1 DEF ClaimKey, Step, documentRows
  <2> QED BY <1>1, <2>2, UnsaidStep
<1>3. CASE keyRow[k] # NoKeyRow /\ keyRow[k] # [file |-> f, answered |-> TRUE]
  <2>1. /\ at' = [at EXCEPT ![c] = "done"] /\ UNCHANGED <<asks, keyRow>>
        /\ told' = [told EXCEPT ![c] = "refused"]
    BY <1>3 DEF ClaimKey, RollBack, Conclude, Step, documentRows
  <2> QED BY <1>1, <2>1, UnsaidStep
<1>4. CASE keyRow[k] = [file |-> f, answered |-> TRUE]
  <2>1. keyRow[k] # NoKeyRow BY <1>4 DEF NoKeyRow
  <2>2. /\ UNCHANGED <<asks, keyRow>> /\ at' = [at EXCEPT ![c] = "done"]
        /\ told' = [told EXCEPT ![c] = "created"]
    BY <1>4, <2>1 DEF ClaimKey, RollBack, Conclude, Step, documentRows
  <2>3. DocumentsConfirmed[k] = {f} BY <1>1, <1>4 DEF DocumentsConfirmed
  <2>4. KeysSent[c] = k /\ DocumentsTold[c] = {} BY <1>1 DEF KeysSent, DocumentsTold
  <2>5. KeysSent' = KeysSent BY <1>1, <2>2 DEF KeysSent
  <2>6. DocumentsConfirmed' = DocumentsConfirmed BY <2>2 DEF DocumentsConfirmed
  <2>7. DocumentsTold' = [DocumentsTold EXCEPT ![c] = {f}]
    <3>1. DocumentsTold'[c] = {f} BY <1>1, <2>2 DEF DocumentsTold
    <3>2. \A d \in Confirmations \ {c} : DocumentsTold'[d] = DocumentsTold[d]
      BY <1>1, <2>2 DEF DocumentsTold
    <3> HIDE DEF f
    <3> QED BY <3>1, <3>2 DEF DocumentsTold
  <2>8. UntoldInv' BY <1>1, <2>2 DEF ConfirmedInv, UntoldInv
  <2> HIDE DEF k, f
  <2> QED BY <1>1, <2>3, <2>4, <2>5, <2>6, <2>7, <2>8 DEF Confirmed!Replay
<1> QED BY <1>2, <1>3, <1>4

LEMMA AttachStep ==
    ASSUME ConfirmedInv, NEW c \in Confirmations, Attach(c) \/ Block(c)
    PROVE  UntoldInv' /\ (Confirmed!Work(c) \/ UNCHANGED Confirmed!onceVars)
<1> DEFINE k == asks[c].key f == asks[c].file
<1>1. /\ at[c] \in {"attach", "block"} /\ told[c] = "nothing" /\ k \in ConfirmKeys
      /\ k # NoOne /\ f \in Files /\ keyRow[k] = NoKeyRow
      /\ DOMAIN told = Confirmations /\ DOMAIN at = Confirmations
      /\ DOMAIN keyRow = ConfirmKeys
  BY DocumentAssumption
     DEF Attach, Block, ConfirmedInv, UntoldInv, DocumentInv, DocumentTypeOK, KeyHeld
<1>2. PICK answered \in BOOLEAN, word \in {"created", "nothing", "refused"} :
        /\ keyRow' = [keyRow EXCEPT ![k] = [file |-> f, answered |-> answered]]
        /\ told' = [told EXCEPT ![c] = word]
        /\ word = "created" => answered
        /\ UNCHANGED asks /\ at' = [at EXCEPT ![c] = "done"]
  BY DEF Attach, Block, Conclude, Step
<1>3. UntoldInv' BY <1>1, <1>2 DEF ConfirmedInv, UntoldInv
<1>4. KeysSent[c] = k /\ KeysSent' = KeysSent BY <1>1, <1>2 DEF KeysSent
<1>5. DocumentsConfirmed[k] = {} BY <1>1 DEF DocumentsConfirmed, NoKeyRow
<1>6. DocumentsConfirmed' = IF answered THEN [DocumentsConfirmed EXCEPT ![k] = {f}]
                                        ELSE DocumentsConfirmed
  <2>1. DocumentsConfirmed'[k] = IF answered THEN {f} ELSE {}
    BY <1>1, <1>2 DEF DocumentsConfirmed
  <2>2. \A j \in ConfirmKeys \ {k} : DocumentsConfirmed'[j] = DocumentsConfirmed[j]
    BY <1>1, <1>2 DEF DocumentsConfirmed
  <2> HIDE DEF k, f
  <2> QED BY <1>1, <1>5, <2>1, <2>2 DEF DocumentsConfirmed
<1>7. DocumentsTold' = IF word = "created" THEN [DocumentsTold EXCEPT ![c] = {f}]
                                           ELSE DocumentsTold
  <2>1. DocumentsTold[c] = {} BY <1>1 DEF DocumentsTold
  <2>2. DocumentsTold'[c] = IF word = "created" THEN {f} ELSE {}
    BY <1>1, <1>2 DEF DocumentsTold
  <2>3. \A d \in Confirmations \ {c} : DocumentsTold'[d] = DocumentsTold[d]
    BY <1>1, <1>2 DEF DocumentsTold
  <2> HIDE DEF k, f
  <2> QED BY <2>1, <2>2, <2>3 DEF DocumentsTold
<1> HIDE DEF k, f
<1> QED BY <1>1, <1>2, <1>3, <1>4, <1>5, <1>6, <1>7
        DEF Confirmed!Work, Confirmed!onceVars

LEMMA NextConfirmed ==
    ASSUME ConfirmedInv, [DocumentNext]_documentVars
    PROVE  ConfirmedInv' /\ [Confirmed!Next]_(Confirmed!onceVars)
<1>1. DocumentInv' BY NextDocumentInv DEF ConfirmedInv
<1>2. CASE UNCHANGED <<keyRow, asks, at, told>>
  <2>1. UNCHANGED Confirmed!onceVars
    BY <1>2 DEF Confirmed!onceVars, KeysSent, DocumentsConfirmed, DocumentsTold
  <2>2. UntoldInv' BY <1>2 DEF ConfirmedInv, UntoldInv
  <2> QED BY <1>1, <2>1, <2>2 DEF ConfirmedInv
<1>3. ASSUME NEW c \in Confirmations, NEW f \in Files, Confirm(c, f)
      PROVE  UntoldInv' /\ Confirmed!Next
  BY <1>3, ConfirmStep DEF Confirmed!Next
<1>4. ASSUME NEW c \in Confirmations, ClaimKey(c)
      PROVE  UntoldInv' /\ [Confirmed!Next]_(Confirmed!onceVars)
  BY <1>4, ClaimKeyStep DEF Confirmed!Next
<1>5. ASSUME NEW c \in Confirmations, Block(c) \/ Attach(c)
      PROVE  UntoldInv' /\ [Confirmed!Next]_(Confirmed!onceVars)
  BY <1>5, AttachStep DEF Confirmed!Next
<1>6. ASSUME NEW c \in Confirmations, LockDocument(c) \/ Look(c) \/ Break(c)
      PROVE  UntoldInv' /\ [Confirmed!Next]_(Confirmed!onceVars)
  <2>1. at[c] \notin {"new", "done"} /\ UNCHANGED <<asks, keyRow>>
    BY <1>6 DEF LockDocument, Look, Break, RollBack, Conclude, documentRows
  <2>2. \E next \in {"lock", "head", "block", "attach", "done"} :
          at' = [at EXCEPT ![c] = next]
    BY <1>6 DEF LockDocument, Look, Break, RollBack, Conclude, Step
  <2>3. \/ told' = told
        \/ /\ at' = [at EXCEPT ![c] = "done"]
           /\ told' \in {[told EXCEPT ![c] = "nothing"], [told EXCEPT ![c] = "refused"],
                        [told EXCEPT ![c] = "unclaimed"]}
    BY <1>6 DEF LockDocument, Look, Break, RollBack, Conclude, Step
  <2> QED BY <2>1, <2>2, <2>3, UnsaidStep
<1>7. ASSUME \/ \E f \in Files : \/ SignUpload(f) \/ AwaitUpload(f) \/ PutObject(f)
                                 \/ Expire(f) \/ AllowErase(f) \/ EraseEntry(f)
             \/ ArchiveLead \/ LockLead \/ RemoveLead \/ KeepLead
             \/ UNCHANGED documentVars
      PROVE  UNCHANGED <<keyRow, asks, at, told>>
  BY <1>7 DEF SignUpload, AwaitUpload, PutObject, Expire, AllowErase, EraseEntry, ArchiveLead,
              LockLead, RemoveLead, KeepLead, documentVars, documentRows
<1> QED BY <1>1, <1>2, <1>3, <1>4, <1>5, <1>6, <1>7 DEF DocumentNext, ConfirmedInv

\* A confirmation keeps the promise of its key: what a key confirmed is one document,
\* whichever requests retry it and whatever is blocked, archived or deleted, and
\* nobody is told of another (lead_documents.go:253).
THEOREM ConfirmationsImplementOnce == DocumentSpec => ConfirmationsAreOnce
<1>1. DocumentInit => ConfirmedInv BY InitConfirmed
<1>2. DocumentInit => Confirmed!Init BY InitConfirmed
<1>3. ConfirmedInv /\ [DocumentNext]_documentVars => ConfirmedInv' BY NextConfirmed
<1>4. ConfirmedInv /\ [DocumentNext]_documentVars
          => [Confirmed!Next]_(Confirmed!onceVars)
  BY NextConfirmed
<1> QED BY <1>1, <1>2, <1>3, <1>4, PTL DEF DocumentSpec, ConfirmationsAreOnce, Confirmed!Spec

----------------------------------------------------------------------------
(* Conversations *)

\* Who is about to write the question holds its row, and holds what is in it.
Held(c) ==
    step[c] = "write" /\ job[c].op # "edit entry" =>
        /\ holder = c /\ seen[c] = value /\ asked # NoText
        /\ job[c].op = "answer" => value.answer = NoAnswer
        /\ job[c].op = "edit answer" =>
            /\ value.answer # NoAnswer
            /\ job[c].who \in {value.answer.author} \cup SuperAdmins

\* Everybody who was ever told of an answer, or will be when retrying, is told of the
\* one the question has had since.
Said == {given[c] : c \in Calls} \cup {keyed[p] : p \in People}
OneAnswer ==
    \A x, y \in Said \ {NoAnswer} :
        x = y /\ (value.answer # NoAnswer \/ asked = NoText)

ConversationInv ==
    /\ ConversationTypeOK
    /\ \A c \in Calls : Held(c)
    /\ TranslationsMatch
    /\ OneAnswer

LEMMA InitConversationInv == ConversationInit => ConversationInv
<1> SUFFICES ASSUME ConversationInit PROVE ConversationInv OBVIOUS
<1> USE ConversationAssumption DEF ConversationInit
<1>1. value \in Values /\ value.answer = NoAnswer /\ value.translation = NoText
  BY DEF Unread, Values, Answers
<1>2. ConversationTypeOK
  <2>1. readOnly \in BOOLEAN OBVIOUS
  <2>2. /\ keyed \in [People -> Answers] /\ given \in [Calls -> Answers]
        /\ seen \in [Calls -> Values \cup Texts]
    BY <1>1 DEF Answers
  <2>3. note \in [text : Texts \cup {NoText}, translation : Texts \cup {NoText}]
    OBVIOUS
  <2> QED BY <1>1, <2>1, <2>2, <2>3 DEF ConversationTypeOK
<1>3. TranslationsMatch BY <1>1 DEF TranslationsMatch
<1>4. OneAnswer BY DEF OneAnswer, Said
<1> QED BY <1>2, <1>3, <1>4 DEF ConversationInv, Held

\* What a request has, by what it does.
LEMMA JobFields ==
    ASSUME ConversationTypeOK, NEW c \in Calls
    PROVE  /\ job[c].op \in {"answer", "edit answer"}
                => job[c].who \in People /\ job[c].text \in Texts
           /\ job[c].op \in {"edit question", "edit entry"} => job[c].text \in Texts
           /\ job[c].op = "translate answer" => job[c].target \in Targets
<1>1. job[c] \in Jobs \cup {Idle} BY DEF ConversationTypeOK
<1>2. CASE job[c] \in [op : {"answer", "edit answer"}, who : People, text : Texts]
  BY <1>2
<1>3. CASE job[c] \in [op : {"edit question", "edit entry"}, text : Texts]
  BY <1>3
<1>4. CASE job[c] \in [op : {"translate answer"}, target : Targets]
  BY <1>4
<1>5. CASE job[c] \in [op : {"translate entry"}] BY <1>5
<1>6. CASE job[c] = Idle BY <1>6 DEF Idle
<1>7. \/ job[c] \in [op : {"answer", "edit answer"}, who : People, text : Texts]
      \/ job[c] \in [op : {"edit question", "edit entry"}, text : Texts]
      \/ job[c] \in [op : {"translate answer"}, target : Targets]
      \/ job[c] \in [op : {"translate entry"}] \/ job[c] = Idle
  BY <1>1, Zenon DEF Jobs
<1> QED BY <1>2, <1>3, <1>4, <1>5, <1>6, <1>7, Zenon

\* The answer ends c's transaction and nobody else's.
LEMMA ReplyFrame ==
    ASSUME ConversationTypeOK, NEW c \in Calls, NEW with \in Answers, Reply(c, with)
    PROVE  /\ step'[c] = "done" /\ given'[c] = with
           /\ \A d \in Calls \ {c} :
                /\ step'[d] = step[d] /\ job'[d] = job[d] /\ seen'[d] = seen[d]
                /\ given'[d] = given[d] /\ (holder = d => holder' = d)
           /\ holder' \in Calls \cup {NoCall}
           /\ claimed' \in [People -> Calls \cup {NoCall}]
           /\ job' \in [Calls -> Jobs \cup {Idle}]
           /\ step' \in [Calls -> {"new", "claim", "lock", "write", "load", "deepl", "save",
                                   "reread", "authorize", "done"}]
           /\ seen' \in [Calls -> Values \cup Texts] /\ given' \in [Calls -> Answers]
<1>1. Unread \in Values BY DEF Unread, Values, Answers
<1> QED BY <1>1 DEF Reply, To, ConversationTypeOK

\* An end that writes nothing tells of no answer, or of one its key has.
LEMMA QuietInv ==
    ASSUME ConversationInv, NEW c \in Calls, NEW with \in Answers, Reply(c, with),
           with = NoAnswer \/ (\E p \in People : with = keyed[p]),
           UNCHANGED <<conversationRows, keyed>>
    PROVE  ConversationInv'
<1> USE DEF conversationRows
<1>1. ConversationTypeOK BY DEF ConversationInv
<1>2. ConversationTypeOK' BY <1>1, ReplyFrame DEF ConversationTypeOK
<1>3. ASSUME NEW d \in Calls PROVE Held(d)'
  <2>1. CASE d = c BY <1>1, <2>1, ReplyFrame DEF Held
  <2>2. CASE d # c
    <3>1. /\ step'[d] = step[d] /\ job'[d] = job[d] /\ seen'[d] = seen[d]
          /\ holder = d => holder' = d
      BY <1>1, <2>2, ReplyFrame
    <3> QED BY <2>2, <3>1 DEF ConversationInv, Held
  <2> QED BY <2>1, <2>2
<1>4. TranslationsMatch' BY DEF ConversationInv, TranslationsMatch
<1>5. Said' \ {NoAnswer} \subseteq Said BY <1>1, ReplyFrame DEF Said
<1>6. OneAnswer' BY <1>5 DEF ConversationInv, OneAnswer
<1> QED BY <1>2, <1>3, <1>4, <1>6 DEF ConversationInv

\* A step of c to its next statement, which only reads.
LEMMA MoveInv ==
    ASSUME ConversationInv, NEW c \in Calls, ConversationTypeOK',
           NEW next, To(c, next), next \in {"write"} => Held(c)',
           \A d \in Calls \ {c} : job'[d] = job[d] /\ seen'[d] = seen[d],
           holder' = holder \/ holder = NoCall,
           UNCHANGED <<conversationRows, keyed, given>>
    PROVE  ConversationInv'
<1> USE ConversationAssumption DEF conversationRows
<1>1. ASSUME NEW d \in Calls PROVE Held(d)'
  <2>1. CASE d # c
    <3>1. /\ step'[d] = step[d] /\ job'[d] = job[d] /\ seen'[d] = seen[d]
          /\ holder = d => holder' = d
      BY <1>1, <2>1 DEF To, ConversationInv, ConversationTypeOK
    <3> QED BY <3>1 DEF ConversationInv, Held
  <2>2. CASE d = c
    BY <2>2 DEF To, Held, ConversationInv, ConversationTypeOK
  <2> QED BY <2>1, <2>2
<1>2. TranslationsMatch' BY DEF ConversationInv, TranslationsMatch
<1>3. OneAnswer' BY DEF ConversationInv, OneAnswer, Said
<1> QED BY <1>1, <1>2, <1>3 DEF ConversationInv

\* A write of the question by its holder, or of the entry by anybody.
LEMMA WriteInv ==
    ASSUME ConversationInv, NEW c \in Calls, NEW with \in Answers, Reply(c, with),
           UNCHANGED readOnly, asked' \in Texts \cup {NoText}, value' \in Values,
           note' \in [text : Texts \cup {NoText}, translation : Texts \cup {NoText}],
           keyed' \in [People -> Answers],
           \/ holder \in {c, NoCall}
           \/ value' = value /\ asked' = asked,
           TranslationsMatch', OneAnswer'
    PROVE  ConversationInv'
<1> USE ConversationAssumption
<1>1. ConversationTypeOK BY DEF ConversationInv
<1>2. ConversationTypeOK' BY <1>1, ReplyFrame DEF ConversationTypeOK
<1>3. ASSUME NEW d \in Calls PROVE Held(d)'
  <2>1. CASE d = c BY <1>1, <2>1, ReplyFrame DEF Held
  <2>2. CASE d # c
    <3>1. /\ step'[d] = step[d] /\ job'[d] = job[d] /\ seen'[d] = seen[d]
          /\ holder = d => holder' = d
      BY <1>1, <2>2, ReplyFrame
    <3> QED BY <2>2, <3>1 DEF ConversationInv, Held
  <2> QED BY <2>1, <2>2
<1> QED BY <1>2, <1>3 DEF ConversationInv

\* The calls that read: requests, claims, locks, loads and DeepL.
LEMMA ReadingInv ==
    ASSUME ConversationInv, NEW c \in Calls,
           \/ Request(c) \/ LockQuestion(c) \/ ClaimAnswer(c) \/ LockAnswer(c) \/ LockEdit(c)
           \/ LoadAnswer(c) \/ Translate(c) \/ AuthorizeEdit(c) \/ LoadEntry(c)
           \/ RereadEntry(c) \/ Fail(c)
    PROVE  ConversationInv'
<1> USE ConversationAssumption DEF conversationRows, conversationLocks
<1>1. NoAnswer \in Answers BY DEF Answers
<1>2. ASSUME Refuse(c) PROVE ConversationInv' BY <1>1, <1>2, QuietInv DEF Refuse
<1>3. CASE Request(c)
  <2>1. PICK new \in Jobs :
          /\ job' = [job EXCEPT ![c] = new]
          /\ To(c, CASE new.op \in {"edit question", "edit answer"} -> "lock"
                     [] new.op = "answer" -> "claim"
                     [] new.op \in {"translate answer", "translate entry"} -> "load"
                     [] new.op = "edit entry" -> "authorize")
    BY <1>3 DEF Request
  <2>2. PICK next : next \in {"lock", "claim", "load", "authorize"} /\ To(c, next)
    <3>1. new.op \in {"answer", "edit answer", "edit question", "edit entry",
                       "translate answer", "translate entry"}
      <4>1. \/ new \in [op : {"answer", "edit answer"}, who : People, text : Texts]
            \/ new \in [op : {"edit question", "edit entry"}, text : Texts]
            \/ new \in [op : {"translate answer"}, target : Targets]
            \/ new \in [op : {"translate entry"}]
        BY Zenon DEF Jobs
      <4> QED BY <4>1
    <3> QED BY <2>1, <3>1
  <2>3. ConversationTypeOK'
    <3>1. job' \in [Calls -> Jobs \cup {Idle}]
      BY <2>1 DEF ConversationInv, ConversationTypeOK
    <3> QED BY <1>3, <2>2, <3>1 DEF Request, To, ConversationInv, ConversationTypeOK
  <2> QED BY <1>3, <2>1, <2>2, <2>3, MoveInv DEF Request, ConversationInv, ConversationTypeOK
<1>4. ASSUME NEW allowed \in BOOLEAN, Lock(c, allowed), job[c].op \in
               {"edit question", "answer", "edit answer"},
             allowed => /\ job[c].op = "answer" => value.answer = NoAnswer
                        /\ job[c].op = "edit answer" =>
                            /\ value.answer # NoAnswer
                            /\ job[c].who \in {value.answer.author} \cup SuperAdmins
      PROVE  ConversationInv'
  <2>1. CASE Refuse(c) BY <1>2, <2>1
  <2>2. CASE ~Refuse(c)
    <3>1. /\ allowed /\ asked # NoText /\ holder = NoCall /\ holder' = c
          /\ seen' = [seen EXCEPT ![c] = value] /\ To(c, "write")
          /\ UNCHANGED <<conversationRows, claimed, keyed, job, given>>
      BY <1>4, <2>2 DEF Lock
    <3>2. ConversationTypeOK' BY <3>1 DEF To, ConversationInv, ConversationTypeOK
    <3>3. Held(c)' BY <1>4, <3>1 DEF Held, ConversationInv, ConversationTypeOK
    <3>4. \A d \in Calls \ {c} : job'[d] = job[d] /\ seen'[d] = seen[d]
      BY <3>1 DEF ConversationInv, ConversationTypeOK
    <3> QED BY <3>1, <3>2, <3>3, <3>4, MoveInv
  <2> QED BY <2>1, <2>2
<1>5. CASE LockQuestion(c)
  <2>1. Lock(c, TRUE) /\ job[c].op = "edit question" BY <1>5 DEF LockQuestion
  <2> QED BY <2>1, <1>4
<1>6. CASE LockAnswer(c)
  <2>1. Lock(c, value.answer = NoAnswer) /\ job[c].op = "answer" BY <1>6 DEF LockAnswer
  <2> QED BY <2>1, <1>4
<1>7. CASE LockEdit(c)
  <2> DEFINE allowed == /\ value.answer # NoAnswer
                        /\ job[c].who \in {value.answer.author} \cup SuperAdmins
  <2>1. Lock(c, allowed) /\ job[c].op = "edit answer" BY <1>7 DEF LockEdit
  <2>2. allowed \in BOOLEAN OBVIOUS
  <2> HIDE DEF allowed
  <2>3. allowed => /\ value.answer # NoAnswer
                   /\ job[c].who \in {value.answer.author} \cup SuperAdmins
    BY DEF allowed
  <2> QED BY <2>1, <2>2, <2>3, <1>4
<1>8. CASE ClaimAnswer(c)
  <2> DEFINE p == job[c].who
  <2>1. p \in People
    BY <1>8, JobFields DEF ClaimAnswer, Does, ConversationInv
  <2>2. CASE Refuse(c) BY <1>2, <2>2
  <2>3. CASE Reply(c, keyed[p]) /\ UNCHANGED <<conversationRows, keyed>>
    BY <2>1, <2>3, QuietInv DEF ConversationInv, ConversationTypeOK
  <2>4. CASE /\ claimed' = [claimed EXCEPT ![p] = c] /\ To(c, "lock")
             /\ UNCHANGED <<conversationRows, holder, keyed, job, seen, given>>
    <3>1. ConversationTypeOK' BY <2>4 DEF To, ConversationInv, ConversationTypeOK
    <3> QED BY <2>4, <3>1, MoveInv
  <2> QED BY <1>8, <2>2, <2>3, <2>4 DEF ClaimAnswer
<1>9. CASE LoadAnswer(c)
  <2>1. CASE Refuse(c) BY <1>2, <2>1
  <2>2. CASE ~Refuse(c)
    <3>1. /\ value.answer # NoAnswer /\ seen' = [seen EXCEPT ![c] = value.answer.text]
          /\ To(c, "deepl")
          /\ UNCHANGED <<conversationRows, conversationLocks, job, given>>
      BY <1>9, <2>2 DEF LoadAnswer
    <3>2. value.answer.text \in Texts
      BY <3>1 DEF ConversationInv, ConversationTypeOK, Values, Answers, Answer
    <3>3. ConversationTypeOK' BY <3>1, <3>2 DEF To, ConversationInv, ConversationTypeOK
    <3>4. \A d \in Calls \ {c} : job'[d] = job[d] /\ seen'[d] = seen[d]
      BY <3>1 DEF ConversationInv, ConversationTypeOK
    <3> QED BY <3>1, <3>3, <3>4, MoveInv
  <2> QED BY <2>1, <2>2
<1>10. CASE Translate(c)
  <2>1. CASE Refuse(c) BY <1>2, <2>1
  <2>2. CASE ~Refuse(c)
    <3>1. To(c, "save") /\ UNCHANGED <<conversationRows, conversationLocks, job, seen, given>>
      BY <1>10, <2>2 DEF Translate
    <3>2. ConversationTypeOK' BY <3>1 DEF To, ConversationInv, ConversationTypeOK
    <3> QED BY <3>1, <3>2, MoveInv
  <2> QED BY <2>1, <2>2
<1>11. CASE AuthorizeEdit(c)
  <2>1. CASE Refuse(c) BY <1>2, <2>1
  <2>2. CASE ~Refuse(c)
    <3>1. /\ To(c, "write") /\ job[c].op = "edit entry"
          /\ UNCHANGED <<conversationRows, conversationLocks, job, seen, given>>
      BY <1>11, <2>2 DEF AuthorizeEdit, Does
    <3>2. ConversationTypeOK' BY <3>1 DEF To, ConversationInv, ConversationTypeOK
    <3>3. Held(c)' BY <3>1 DEF Held
    <3> QED BY <3>1, <3>2, <3>3, MoveInv
  <2> QED BY <2>1, <2>2
<1>12. CASE LoadEntry(c)
  <2>1. CASE Refuse(c) BY <1>2, <2>1
  <2>2. CASE Reply(c, NoAnswer) /\ UNCHANGED <<conversationRows, keyed>>
    BY <1>1, <2>2, QuietInv
  <2>3. CASE /\ note.text # NoText /\ seen' = [seen EXCEPT ![c] = note.text]
             /\ To(c, "deepl")
             /\ UNCHANGED <<conversationRows, conversationLocks, job, given>>
    <3>1. note.text \in Texts BY <2>3 DEF ConversationInv, ConversationTypeOK
    <3>2. ConversationTypeOK' BY <2>3, <3>1 DEF To, ConversationInv, ConversationTypeOK
    <3>3. \A d \in Calls \ {c} : job'[d] = job[d] /\ seen'[d] = seen[d]
      BY <2>3 DEF ConversationInv, ConversationTypeOK
    <3> QED BY <2>3, <3>2, <3>3, MoveInv
  <2> QED BY <1>12, <2>1, <2>2, <2>3 DEF LoadEntry
<1>13. CASE RereadEntry(c) \/ Fail(c) BY <1>1, <1>13, QuietInv DEF RereadEntry, Fail
<1> QED BY <1>3, <1>5, <1>6, <1>7, <1>8, <1>9, <1>10, <1>11, <1>12, <1>13

\* Nobody is told of anything new, and the answer stays if there is one.
LEMMA SaidLess ==
    ASSUME ConversationInv, NEW c \in Calls, Reply(c, NoAnswer), keyed' = keyed,
           \/ value.answer # NoAnswer /\ value'.answer # NoAnswer
           \/ value'.answer = value.answer /\ (asked = NoText => asked' = NoText)
           \/ asked' = NoText
    PROVE  OneAnswer'
<1>1. NoAnswer \in Answers BY DEF Answers
<1>2. Said' \ {NoAnswer} \subseteq Said BY <1>1, ReplyFrame DEF Said, ConversationInv
<1> QED BY <1>2 DEF ConversationInv, OneAnswer

LEMMA WritingInv ==
    ASSUME ConversationInv, NEW c \in Calls,
           \/ EditQuestion(c) \/ GiveAnswer(c) \/ EditAnswer(c) \/ SaveTranslation(c)
           \/ EditEntry(c) \/ SaveEntry(c)
    PROVE  ConversationInv'
<1> USE ConversationAssumption DEF conversationRows, conversationLocks
<1>0. /\ NoAnswer \in Answers /\ ConversationTypeOK
      /\ value \in Values /\ asked \in Texts \cup {NoText}
      /\ note \in [text : Texts \cup {NoText}, translation : Texts \cup {NoText}]
      /\ keyed \in [People -> Answers]
  BY DEF Answers, ConversationInv, ConversationTypeOK
<1>1. CASE EditQuestion(c)
  <2>1. holder = c /\ seen[c] = value /\ asked # NoText /\ job[c].text \in Texts
    BY <1>0, <1>1, JobFields DEF EditQuestion, Does, ConversationInv, Held
  <2>2. PICK translation \in {job[c].text, IF asked = job[c].text THEN value.translation
                                                                 ELSE NoText} :
          value' = [value EXCEPT !.translation = translation]
    BY <1>1, <2>1 DEF EditQuestion
  <2>3. translation \in {NoText, job[c].text}
    BY <2>2 DEF ConversationInv, TranslationsMatch
  <2>4. value' \in Values /\ value'.answer = value.answer
        /\ value'.translation = translation
    BY <1>0, <2>1, <2>2, <2>3 DEF Values
  <2>5. TranslationsMatch'
    BY <1>1, <2>3, <2>4 DEF EditQuestion, ConversationInv, TranslationsMatch
  <2>6. OneAnswer' BY <1>1, <2>1, <2>4, SaidLess DEF EditQuestion
  <2> QED BY <1>0, <1>1, <2>1, <2>4, <2>5, <2>6, WriteInv DEF EditQuestion
<1>2. CASE GiveAnswer(c)
  <2> DEFINE p == job[c].who
             answer == [text |-> job[c].text, author |-> job[c].who,
                        translations |-> Untranslated]
  <2>1. /\ holder = c /\ seen[c] = value /\ asked # NoText /\ value.answer = NoAnswer
        /\ p \in People /\ job[c].text \in Texts
    BY <1>0, <1>2, JobFields DEF GiveAnswer, Does, ConversationInv, Held
  <2>2. answer \in Answer BY <2>1 DEF Answer, Untranslated
  <2>3. value' = [value EXCEPT !.answer = answer] /\ keyed' = [keyed EXCEPT ![p] = answer]
        /\ UNCHANGED <<readOnly, asked, note>>
    BY <1>2, <2>1 DEF GiveAnswer
  <2>4. PICK with \in {answer, NoAnswer} : Reply(c, with) BY <1>2 DEF GiveAnswer
  <2>5. with \in Answers BY <1>0, <2>2, <2>4 DEF Answers
  <2>6. /\ answer.translations = Untranslated /\ answer # NoAnswer
    BY <2>2
  <2> HIDE DEF answer, p
  <2>7. /\ value' \in Values /\ value'.answer = answer
        /\ value'.translation = value.translation
    BY <1>0, <2>2, <2>3 DEF Values, Answers
  <2>8. TranslationsMatch'
    BY <2>3, <2>6, <2>7 DEF Untranslated, ConversationInv, TranslationsMatch
  <2>9. Said \subseteq {NoAnswer} BY <2>1 DEF ConversationInv, OneAnswer
  <2>10. /\ \A d \in Calls : given'[d] \in {NoAnswer, answer}
         /\ \A q \in People : keyed'[q] \in {NoAnswer, answer}
    <3>1. \A d \in Calls : given'[d] \in {NoAnswer, answer}
      BY <1>0, <2>4, <2>5, <2>9, ReplyFrame DEF Said
    <3>2. \A q \in People : keyed'[q] \in {NoAnswer, answer}
      BY <1>0, <2>1, <2>3, <2>9 DEF Said
    <3> QED BY <3>1, <3>2
  <2>11. OneAnswer' BY <2>6, <2>7, <2>10 DEF OneAnswer, Said
  <2>12. keyed' \in [People -> Answers] BY <1>0, <2>2, <2>3 DEF Answers
  <2> QED BY <1>0, <2>1, <2>3, <2>4, <2>5, <2>7, <2>8, <2>11, <2>12, WriteInv
<1>3. CASE EditAnswer(c)
  <2>1. /\ holder = c /\ seen[c] = value /\ asked # NoText /\ value.answer # NoAnswer
        /\ job[c].text \in Texts
    BY <1>0, <1>3, JobFields DEF EditAnswer, Does, ConversationInv, Held
  <2>2. value.answer \in Answer BY <1>0, <2>1 DEF Values, Answers
  <2>3. value' = [value EXCEPT !.answer = [value.answer EXCEPT !.text = job[c].text,
                                                           !.translations = Untranslated]]
        /\ UNCHANGED <<readOnly, asked, note, keyed>> /\ Reply(c, NoAnswer)
    BY <1>0, <1>3, <2>1, <2>2 DEF EditAnswer, Values, Answer
  <2>4. /\ value'.answer \in Answer /\ value'.translation = value.translation
        /\ value'.answer.translations = Untranslated
        /\ value' \in Values
    BY <1>0, <2>1, <2>2, <2>3 DEF Values, Answers, Answer, Untranslated
  <2>5. TranslationsMatch'
    BY <2>3, <2>4 DEF Untranslated, ConversationInv, TranslationsMatch
  <2>6. OneAnswer' BY <2>1, <2>3, <2>4, SaidLess
  <2> QED BY <1>0, <2>1, <2>3, <2>4, <2>5, <2>6, WriteInv
<1>4. CASE SaveTranslation(c)
  <2>1. CASE Refuse(c) BY <1>0, <2>1, QuietInv DEF Refuse
  <2>2. CASE ~Refuse(c)
    <3> DEFINE g == job[c].target
    <3>1. /\ holder = NoCall /\ asked # NoText /\ value.answer # NoAnswer
          /\ value.answer.text = seen[c]
          /\ value' = [value EXCEPT !.answer.translations[g] = seen[c]]
          /\ Reply(c, NoAnswer) /\ UNCHANGED <<readOnly, asked, note, keyed>>
      BY <1>4, <2>2 DEF SaveTranslation
    <3>2. value.answer \in Answer /\ g \in Targets
      BY <1>0, <1>4, <3>1, JobFields DEF SaveTranslation, Does, Values, Answers
    <3>3. /\ value'.translation = value.translation
          /\ value'.answer.text = value.answer.text
          /\ value'.answer.author = value.answer.author
          /\ value'.answer.translations = [value.answer.translations EXCEPT ![g] = seen[c]]
          /\ value'.answer \in Answer /\ value' \in Values
      BY <1>0, <3>1, <3>2 DEF Values, Answers, Answer
    <3>4. TranslationsMatch'
      BY <3>1, <3>2, <3>3 DEF ConversationInv, TranslationsMatch, Answer
    <3>5. OneAnswer' BY <3>1, <3>3, SaidLess
    <3> QED BY <1>0, <3>1, <3>3, <3>4, <3>5, WriteInv
  <2> QED BY <2>1, <2>2
<1>5. CASE EditEntry(c)
  <2>1. job[c].text \in Texts BY <1>0, <1>5, JobFields DEF EditEntry, Does
  <2>2. /\ Reply(c, NoAnswer) /\ UNCHANGED <<readOnly, asked, value, keyed>>
        /\ note'.translation = NoText
        /\ note' \in [text : Texts \cup {NoText}, translation : Texts \cup {NoText}]
    <3>1. PICK text \in {job[c].text, NoText} :
            note' = [text |-> text, translation |-> NoText]
      BY <1>5 DEF EditEntry
    <3>2. UNCHANGED <<readOnly, asked, value, keyed>> /\ Reply(c, NoAnswer)
      BY <1>5 DEF EditEntry
    <3> QED BY <2>1, <3>1, <3>2
  <2>3. TranslationsMatch' BY <2>2 DEF ConversationInv, TranslationsMatch
  <2>4. OneAnswer' BY <2>2, SaidLess
  <2> QED BY <1>0, <2>2, <2>3, <2>4, WriteInv
<1>6. CASE SaveEntry(c)
  <2>1. CASE note.text = seen[c] /\ Reply(c, NoAnswer)
             /\ note' = [note EXCEPT !.translation = seen[c]]
             /\ UNCHANGED <<readOnly, asked, value, keyed>>
    <3>1. /\ note' \in [text : Texts \cup {NoText}, translation : Texts \cup {NoText}]
          /\ note'.translation = note'.text
      BY <1>0, <2>1
    <3>2. TranslationsMatch' BY <2>1, <3>1 DEF ConversationInv, TranslationsMatch
    <3>3. OneAnswer' BY <2>1, SaidLess
    <3> QED BY <1>0, <2>1, <3>1, <3>2, <3>3, WriteInv
  <2>2. CASE /\ To(c, "reread")
             /\ UNCHANGED <<conversationRows, conversationLocks, job, seen, given>>
    <3>1. ConversationTypeOK' BY <2>2 DEF To, ConversationInv, ConversationTypeOK
    <3> QED BY <2>2, <3>1, MoveInv
  <2> QED BY <1>6, <2>1, <2>2 DEF SaveEntry
<1> QED BY <1>1, <1>2, <1>3, <1>4, <1>5, <1>6

LEMMA NextConversationInv ==
  ConversationInv /\ [ConversationNext]_conversationVars => ConversationInv'
<1> USE ConversationAssumption
    DEF conversationVars, conversationRows, conversationLocks, conversationCalls
<1>1. ASSUME ConversationInv, UNCHANGED conversationVars PROVE ConversationInv'
  <2>1. ConversationTypeOK' BY <1>1 DEF ConversationInv, ConversationTypeOK
  <2>2. \A c \in Calls : Held(c)' BY <1>1 DEF ConversationInv, Held
  <2>3. TranslationsMatch' /\ OneAnswer'
    BY <1>1 DEF ConversationInv, TranslationsMatch, OneAnswer, Said
  <2> QED BY <2>1, <2>2, <2>3 DEF ConversationInv
<1>2. ASSUME ConversationInv, ArchiveOrRestore PROVE ConversationInv'
  <2>1. ConversationTypeOK'
    BY <1>2 DEF ArchiveOrRestore, ConversationInv, ConversationTypeOK
  <2> QED BY <1>2, <2>1 DEF ArchiveOrRestore, ConversationInv, Held, TranslationsMatch,
                            OneAnswer, Said
<1>3. ASSUME ConversationInv, DeleteQuestion PROVE ConversationInv'
  <2>1. value' \in Values /\ value'.answer = NoAnswer /\ value'.translation = NoText
    BY <1>3 DEF DeleteQuestion, Unread, Values, Answers
  <2>2. ConversationTypeOK'
    BY <1>3, <2>1 DEF DeleteQuestion, ConversationInv, ConversationTypeOK
  <2>3. \A c \in Calls : Held(c)' BY <1>3 DEF DeleteQuestion, ConversationInv, Held
  <2>4. TranslationsMatch'
    BY <1>3, <2>1 DEF DeleteQuestion, ConversationInv, TranslationsMatch
  <2>5. OneAnswer' BY <1>3 DEF DeleteQuestion, ConversationInv, OneAnswer, Said
  <2> QED BY <2>2, <2>3, <2>4, <2>5 DEF ConversationInv
<1> QED BY <1>1, <1>2, <1>3, ReadingInv, WritingInv DEF ConversationNext

\* Whatever is edited while DeepL works, no translation of another text is shown
\* (translations.go:129, questions.go:340).
THEOREM TranslationsAreOfTheText == ConversationSpec => []TranslationsMatch
<1>1. ConversationInv => TranslationsMatch BY DEF ConversationInv
<1> QED BY InitConversationInv, NextConversationInv, <1>1, PTL DEF ConversationSpec

\* Everybody who is told that the question was answered is told of one answer
\* (questions.go:253).
THEOREM QuestionsAreAnsweredOnce == ConversationSpec => []AnsweredOnce
<1>1. ConversationInv => AnsweredOnce
  BY DEF ConversationInv, OneAnswer, Said, AnsweredOnce
<1> QED BY InitConversationInv, NextConversationInv, <1>1, PTL DEF ConversationSpec

LEMMA AnswerIsKeptStep ==
    ASSUME ConversationInv, [ConversationNext]_conversationVars,
           value.answer # NoAnswer, asked' # NoText
    PROVE  \/ Extends(value'.answer, value.answer)
           \/ \E c \in Calls :
                /\ Does(c, "edit answer", "write") /\ step'[c] = "done"
                /\ job[c].who \in {value.answer.author} \cup SuperAdmins
                /\ value'.answer.author = value.answer.author
<1> USE ConversationAssumption DEF conversationRows, conversationLocks
<1>0. /\ ConversationTypeOK /\ NoAnswer \in Answers
      /\ value \in Values /\ value.answer \in Answer
  BY DEF ConversationInv, ConversationTypeOK, Values, Answers
<1>1. CASE value' = value BY <1>0, <1>1 DEF Extends
<1>2. ASSUME NEW c \in Calls,
             EditQuestion(c) \/ GiveAnswer(c) \/ EditAnswer(c) \/ SaveTranslation(c)
      PROVE  \/ Extends(value'.answer, value.answer)
             \/ /\ Does(c, "edit answer", "write") /\ step'[c] = "done"
                /\ job[c].who \in {value.answer.author} \cup SuperAdmins
                /\ value'.answer.author = value.answer.author
  <2>1. CASE EditQuestion(c)
    <3>1. seen[c] = value BY <2>1 DEF EditQuestion, Does, ConversationInv, Held
    <3>2. value'.answer = value.answer BY <1>0, <2>1, <3>1 DEF EditQuestion, Values
    <3> QED BY <1>0, <3>2 DEF Extends
  <2>2. CASE GiveAnswer(c) BY <2>2 DEF GiveAnswer, Does, ConversationInv, Held
  <2>3. CASE EditAnswer(c)
    <3>1. seen[c] = value /\ job[c].who \in {value.answer.author} \cup SuperAdmins
      BY <2>3 DEF EditAnswer, Does, ConversationInv, Held
    <3>2. step'[c] = "done" BY <1>0, <2>3, ReplyFrame DEF EditAnswer
    <3>3. value'.answer.author = value.answer.author
      BY <1>0, <2>3, <3>1 DEF EditAnswer, Values, Answer
    <3> QED BY <2>3, <3>1, <3>2, <3>3 DEF EditAnswer
  <2>4. CASE SaveTranslation(c)
    <3>1. CASE Refuse(c) BY <1>0, <3>1 DEF Refuse, Extends
    <3>2. CASE ~Refuse(c)
      <4> DEFINE g == job[c].target
      <4>1. value.answer.text = seen[c]
            /\ value' = [value EXCEPT !.answer.translations[g] = seen[c]]
        BY <2>4, <3>2 DEF SaveTranslation
      <4>2. g \in Targets BY <1>0, <2>4, JobFields DEF SaveTranslation, Does
      <4>3. /\ value'.answer.text = value.answer.text
            /\ value'.answer.author = value.answer.author
            /\ value'.answer.translations = [value.answer.translations EXCEPT ![g] = seen[c]]
            /\ value'.answer \in Answer
        BY <1>0, <4>1, <4>2, <3>2, <2>4 DEF Values, Answers, Answer, SaveTranslation,
           ConversationTypeOK
      <4>4. \A h \in Targets : value.answer.translations[h] # NoText
                => value'.answer.translations[h] = value.answer.translations[h]
        BY <1>0, <4>1, <4>3 DEF ConversationInv, TranslationsMatch, Answer
      <4> QED BY <4>3, <4>4 DEF Extends
    <3> QED BY <3>1, <3>2
  <2> QED BY <1>2, <2>1, <2>2, <2>3, <2>4
<1>3. CASE \E c \in Calls :
             EditQuestion(c) \/ GiveAnswer(c) \/ EditAnswer(c) \/ SaveTranslation(c)
  BY <1>2, <1>3
<1>4. CASE \E c \in Calls :
             \/ Request(c) \/ LockQuestion(c) \/ ClaimAnswer(c) \/ LockAnswer(c) \/ LockEdit(c)
             \/ LoadAnswer(c) \/ Translate(c) \/ AuthorizeEdit(c) \/ EditEntry(c)
             \/ LoadEntry(c) \/ SaveEntry(c) \/ RereadEntry(c) \/ Fail(c)
  BY <1>1, <1>4 DEF Request, LockQuestion, Lock, ClaimAnswer, LockAnswer, LockEdit, LoadAnswer,
     Translate, AuthorizeEdit, EditEntry, LoadEntry, SaveEntry, RereadEntry, Fail, Refuse
<1>5. CASE ArchiveOrRestore \/ DeleteQuestion
  BY <1>1, <1>5 DEF ArchiveOrRestore, DeleteQuestion
<1>6. CASE UNCHANGED conversationVars BY <1>1, <1>6 DEF conversationVars
<1> QED BY <1>3, <1>4, <1>5, <1>6 DEF ConversationNext

\* An answer is lost only to an edit by its author or a super admin, although the
\* question's value is written back whole (questions.go:171).
THEOREM AnswersAreKept == ConversationSpec => AnswerIsKept
<1>1. ConversationInv /\ [ConversationNext]_conversationVars
      => [value.answer # NoAnswer /\ asked' # NoText =>
            \/ Extends(value'.answer, value.answer)
            \/ \E c \in Calls :
                /\ Does(c, "edit answer", "write") /\ step'[c] = "done"
                /\ job[c].who \in {value.answer.author} \cup SuperAdmins
                /\ value'.answer.author = value.answer.author]_conversationVars
  BY AnswerIsKeptStep
<1> QED BY InitConversationInv, NextConversationInv, <1>1, PTL
        DEF ConversationSpec, AnswerIsKept

----------------------------------------------------------------------------
(* Tasks *)

\* A person who loaded a task has a version of it, the row's own while it is fresh.
Loaded(e) ==
    patching[e].step = "loaded" =>
        /\ patching[e].who \in Staff /\ patching[e].id \in TaskIds
        /\ task[patching[e].id] # NoTask
        /\ patching[e].version \in Nat
        /\ patching[e].version <= task[patching[e].id].version
        /\ patching[e].version = task[patching[e].id].version => patching[e].fresh

Opened(e) ==
    patching[e].step = "opened" =>
        /\ patching[e].who \in Staff /\ patching[e].id \in Lists
        /\ listOwner[patching[e].id] # NoPerson
        /\ patching[e].version \in Nat
        /\ patching[e].version <= listVersion[patching[e].id]
        /\ patching[e].version = listVersion[patching[e].id] => patching[e].fresh

Edits == [step : {"new", "loaded", "opened", "done"}, who : Staff \cup {NoPerson},
          id : TaskIds \cup Lists \cup {0}, version : Nat, fresh : BOOLEAN]
ListsTyped == listOwner \in [Lists -> Named \cup {NoPerson}] /\ listVersion \in [Lists -> Nat]

TaskInv ==
    /\ task \in [TaskIds -> Row \cup {NoTask}] /\ writes \in Nat
    /\ person \in [Staff -> {"active", "inactive", "deleted"}]
    /\ ListsTyped
    /\ patching \in [TaskEdits -> Edits]
    /\ \A e \in TaskEdits : Loaded(e) /\ Opened(e)
    /\ TaskIsConsistent

\* A request that was answered.
LEMMA DonePatch ==
    /\ [NoPatch EXCEPT !.step = "done"] \in Edits
    /\ [NoPatch EXCEPT !.step = "done"].step = "done"
BY DEF NoPatch, Edits

LEMMA InitTaskInv == TaskInit => TaskInv
BY DEF TaskInit, TaskInv, Loaded, Opened, Edits, ListsTyped, NoPatch, TaskIsConsistent

LEMMA PatchFields ==
    ASSUME NEW patch \in Patches
    PROVE  /\ patch.status \in Status \cup {""}
           /\ patch.inProgress \in {"keep", "yes", "no"}
           /\ patch.due \in DueDates \cup {SameDay}
           /\ patch.timed \in {"keep", "yes", "no"}
           /\ patch.assignee \in Office \cup {NoPerson}
BY DEF Patches

\* What a patch makes of a row that is consistent.
LEMMA PatchedRow ==
    ASSUME NEW row \in Row, NEW patch \in Patches
    PROVE  /\ Patched(row, patch) \in Row
           /\ Patched(row, patch).version = row.version
           /\ Patched(row, patch).inProgress /\ patch.inProgress # "yes" =>
                /\ row.inProgress
                /\ row.status = "open" => Patched(row, patch).status = "open"
<1> USE TaskAssumption, PatchFields
<1> DEFINE status == IF patch.status = "" THEN row.status ELSE patch.status
           kept == row.inProgress /\ (patch.status = "" \/ {status, row.status} = {"open"})
           running == IF patch.inProgress = "keep" THEN kept ELSE patch.inProgress = "yes"
           due == IF patch.due = SameDay THEN row.due ELSE patch.due
           timed == CASE patch.timed = "keep" -> row.timed /\ due # NoDay
                      [] OTHER -> patch.timed = "yes"
           assignee == IF patch.assignee = NoPerson THEN row.assignee ELSE patch.assignee
<1>1. status \in Status /\ due \in DueDates /\ assignee \in Named BY DEF Row, Named
<1>2. running \in BOOLEAN /\ timed \in BOOLEAN BY DEF Row
<1>3. Patched(row, patch) =
        [row EXCEPT !.status = status, !.inProgress = running, !.due = due, !.timed = timed,
                    !.assignee = assignee]
  BY Zenon DEF Patched
<1>4. running /\ patch.inProgress # "yes" => row.inProgress /\ (row.status = "open"
                                                                 => status = "open")
  OBVIOUS
<1> HIDE DEF status, kept, running, due, timed, assignee
<1>5. /\ Patched(row, patch) \in Row /\ Patched(row, patch).status = status
      /\ Patched(row, patch).inProgress = running
      /\ Patched(row, patch).version = row.version
  BY <1>1, <1>2, <1>3 DEF Row
<1> QED BY <1>4, <1>5

LEMMA UpdateTaskInv ==
    ASSUME TaskInv, NEW e \in TaskEdits, UpdateTask(e)
    PROVE  /\ TaskInv'
           /\ patching[e].step = "loaded" /\ patching'[e].step = "done"
           /\ patching[e].fresh /\ patching[e].id \in TaskIds
           /\ person' = person /\ lists' = lists
           /\ \A t \in TaskIds \ {patching[e].id} : task'[t] = task[t]
<1> USE TaskAssumption
<1> DEFINE t == patching[e].id p == patching[e].who row == task[t]
<1>1. /\ t \in TaskIds /\ p \in Staff /\ row \in Row /\ writes \in Nat
      /\ patching[e].fresh /\ patching[e].step = "loaded"
  BY DEF UpdateTask, TaskInv, Loaded
<1>2. /\ row.inProgress => row.status = "open"
      /\ (row.completedBy # NoPerson) = (row.status = "done")
      /\ (row.canceledBy # NoPerson) = (row.status = "canceled")
  BY <1>1 DEF TaskInv, Loaded, TaskIsConsistent
<1>3. PICK patch \in Patches :
        LET next == Patched(row, patch)
        IN /\ Accepted(row, next, patch)
           /\ task' = [task EXCEPT ![t] = [next EXCEPT
                !.completedBy = ClosedBy(row, next, p, "done", row.completedBy),
                !.canceledBy = ClosedBy(row, next, p, "canceled", row.canceledBy),
                !.version = @ + 1, !.updated = writes + 1]]
  BY DEF UpdateTask
<1> DEFINE next == Patched(row, patch)
           done == ClosedBy(row, next, p, "done", row.completedBy)
           canceled == ClosedBy(row, next, p, "canceled", row.canceledBy)
<1>4. next \in Row /\ next.version = row.version BY <1>1, PatchedRow
<1>5. next.inProgress => next.status = "open"
  BY <1>1, <1>2, <1>3, PatchedRow DEF Accepted
<1>6. next.timed => next.due # NoDay BY <1>3 DEF Accepted
<1>7. /\ done \in Named \cup {NoPerson} /\ canceled \in Named \cup {NoPerson}
      /\ (done # NoPerson) = (next.status = "done")
      /\ (canceled # NoPerson) = (next.status = "canceled")
  BY <1>1, <1>2 DEF ClosedBy, Row, Named
<1>8. task' = [task EXCEPT ![t] = [next EXCEPT !.completedBy = done, !.canceledBy = canceled,
                                    !.version = @ + 1, !.updated = writes + 1]]
  BY <1>3
<1> HIDE DEF next, done, canceled
<1>9. /\ task'[t] \in Row /\ task'[t].version = row.version + 1
      /\ task'[t].status = next.status /\ task'[t].inProgress = next.inProgress
      /\ task'[t].timed = next.timed /\ task'[t].due = next.due
      /\ task'[t].completedBy = done /\ task'[t].canceledBy = canceled
  <2>1. task'[t] = [next EXCEPT !.completedBy = done, !.canceledBy = canceled,
                                !.version = @ + 1, !.updated = writes + 1]
    BY <1>1, <1>8 DEF TaskInv
  <2>2. done \in Named \cup {NoPerson} /\ canceled \in Named \cup {NoPerson} BY <1>7
  <2>3. writes + 1 \in Nat BY <1>1
  <2>4. /\ task'[t].version = next.version + 1
        /\ task'[t].status = next.status /\ task'[t].inProgress = next.inProgress
        /\ task'[t].timed = next.timed /\ task'[t].due = next.due
        /\ task'[t].completedBy = done /\ task'[t].canceledBy = canceled
    BY <1>4, <2>1 DEF Row
  <2>5. next.version + 1 \in Nat BY <1>4 DEF Row
  <2>6. task'[t] \in Row BY <1>4, <2>1, <2>2, <2>3, <2>5 DEF Row
  <2> QED BY <1>4, <2>4, <2>6
<1>10. \A u \in TaskIds \ {t} : task'[u] = task[u] BY <1>8 DEF TaskInv
<1>11. task' \in [TaskIds -> Row \cup {NoTask}]
  BY <1>1, <1>8, <1>9 DEF TaskInv
<1>12. TaskIsConsistent'
  BY <1>5, <1>6, <1>7, <1>9, <1>10 DEF TaskInv, TaskIsConsistent
<1>13. patching'[e] = [NoPatch EXCEPT !.step = "done"]
  BY DEF UpdateTask, PatchDone
<1>14. ASSUME NEW f \in TaskEdits \ {e}
       PROVE  /\ patching'[f].step = patching[f].step /\ patching'[f].who = patching[f].who
              /\ patching'[f].id = patching[f].id /\ patching'[f].version = patching[f].version
              /\ patching[f].step # "loaded" \/ patching[f].id # t =>
                    patching'[f].fresh = patching[f].fresh
              /\ patching'[f] \in Edits
  <2>1. patching[f] \in Edits BY DEF TaskInv
  <2>2. patching'[f] = [patching[f] EXCEPT !.fresh = @ /\ ~(/\ TRUE
                                                           /\ patching[f].step = "loaded"
                                                           /\ patching[f].id = t)]
    BY <1>1 DEF UpdateTask, PatchDone
  <2>3. patching'[f].fresh = (patching[f].fresh /\ ~(/\ TRUE
                                                    /\ patching[f].step = "loaded"
                                                    /\ patching[f].id = t))
    BY <2>1, <2>2 DEF Edits
  <2>4. patching[f].fresh \in BOOLEAN BY <2>1 DEF Edits
  <2>5. patching[f].step # "loaded" \/ patching[f].id # t =>
            patching'[f].fresh = patching[f].fresh
    BY <2>3, <2>4
  <2>6. patching'[f].fresh \in BOOLEAN BY <2>3, <2>4
  <2>7. patching'[f] = [patching[f] EXCEPT !.fresh = patching'[f].fresh]
    BY <2>1, <2>2, <2>3 DEF Edits
  <2> QED BY <2>1, <2>5, <2>6, <2>7 DEF Edits
<1>15. lists' = lists /\ person' = person BY DEF UpdateTask
<1>16. ASSUME NEW f \in TaskEdits PROVE Loaded(f)' /\ Opened(f)'
  <2>1. CASE f = e BY <1>13, <2>1 DEF Loaded, Opened, NoPatch
  <2>2. CASE f # e
    <3>1. /\ patching'[f].step = patching[f].step /\ patching'[f].who = patching[f].who
          /\ patching'[f].id = patching[f].id /\ patching'[f].version = patching[f].version
          /\ patching[f].step # "loaded" \/ patching[f].id # t =>
                patching'[f].fresh = patching[f].fresh
      BY <1>14, <2>2
    <3>2. Loaded(f) /\ Opened(f) BY DEF TaskInv
    <3>3. Opened(f)'
      <4>1. listOwner' = listOwner /\ listVersion' = listVersion BY <1>15 DEF lists
      <4> QED BY <3>1, <3>2, <4>1 DEF Opened
    <3>4. CASE patching[f].id = t
      <4>1. patching[f].step = "loaded" => patching[f].version < task'[t].version
        BY <1>1, <1>9, <3>2, <3>4 DEF Loaded, Row
      <4>2. task'[t] # NoTask BY <1>9
      <4>3. task'[t].version \in Nat BY <1>9 DEF Row
      <4>4. patching[f].step = "loaded" =>
              patching[f].who \in Staff /\ patching[f].version \in Nat
        BY <3>2 DEF Loaded
      <4> QED BY <1>1, <3>1, <3>3, <3>4, <4>1, <4>2, <4>3, <4>4 DEF Loaded
    <3>5. CASE patching[f].id # t
      <4>1. patching[f].step = "loaded" => task'[patching[f].id] = task[patching[f].id]
        BY <1>10, <3>2, <3>5 DEF Loaded
      <4> QED BY <3>1, <3>2, <3>3, <3>5, <4>1 DEF Loaded
    <3> QED BY <3>4, <3>5
  <2> QED BY <2>1, <2>2
<1>17. writes' \in Nat BY <1>1 DEF UpdateTask, Written
<1>18. patching' \in [TaskEdits -> Edits]
  <2>1. patching'[e] \in Edits BY <1>13, DonePatch
  <2>2. \A f \in TaskEdits : patching'[f] \in Edits BY <1>14, <2>1
  <2>3. patching' = [f \in TaskEdits |-> patching'[f]] BY DEF UpdateTask, PatchDone
  <2> QED BY <2>2, <2>3
<1>19. ListsTyped' /\ (person \in [Staff -> {"active", "inactive", "deleted"}])'
  BY <1>15 DEF lists, TaskInv, ListsTyped
<1>20. TaskInv' BY <1>11, <1>12, <1>16, <1>17, <1>18, <1>19 DEF TaskInv
<1> QED BY <1>1, <1>10, <1>13, <1>15, <1>20 DEF NoPatch

LEMMA CreateTaskInv ==
    ASSUME TaskInv, NEW p \in Staff, NEW t \in TaskIds, NEW assignee \in Office,
           NEW new \in NewTasks, CreateTask(p, t, assignee, new)
    PROVE  TaskInv'
<1> USE TaskAssumption
<1> DEFINE row == [status |-> "open", inProgress |-> FALSE, due |-> new.due,
                   timed |-> new.timed, list |-> new.list, by |-> p, assignee |-> assignee,
                   completedBy |-> NoPerson, canceledBy |-> NoPerson,
                   version |-> 1, updated |-> writes + 1]
<1>1. /\ task[t] = NoTask /\ task' = [task EXCEPT ![t] = row] /\ patching' = patching
      /\ writes' = writes + 1 /\ writes \in Nat /\ (row.timed => row.due # NoDay)
      /\ UNCHANGED <<person, listOwner, listVersion>>
  BY DEF CreateTask, Written, TaskInv, lists
<1>2. row \in Row
  <2>1. new \in [list : Lists \cup {NoList}, due : DueDates, timed : BOOLEAN] OBVIOUS
  <2>2. writes + 1 \in Nat /\ assignee \in Staff BY <1>1
  <2> QED BY <2>1, <2>2 DEF Row, Status, Named
<1>3. /\ row.status = "open" /\ ~row.inProgress
      /\ row.completedBy = NoPerson /\ row.canceledBy = NoPerson
  OBVIOUS
<1> HIDE DEF row
<1>4. task'[t] = row /\ \A u \in TaskIds \ {t} : task'[u] = task[u] BY <1>1 DEF TaskInv
<1>5. task' \in [TaskIds -> Row \cup {NoTask}] BY <1>1, <1>2 DEF TaskInv
<1>6. TaskIsConsistent' BY <1>1, <1>3, <1>4 DEF TaskInv, TaskIsConsistent
<1>7. \A e \in TaskEdits : Loaded(e)' BY <1>1, <1>4 DEF TaskInv, Loaded
<1>8. writes' \in Nat /\ ListsTyped' BY <1>1 DEF TaskInv, ListsTyped
<1>9. \A e \in TaskEdits : Opened(e)' BY <1>1 DEF TaskInv, Opened
<1> QED BY <1>1, <1>5, <1>6, <1>7, <1>8, <1>9 DEF TaskInv

\* A read gives the version of what it shows.
LEMMA ReadInv ==
    ASSUME TaskInv, NEW e \in TaskEdits, NEW p \in Staff,
           \/ \E t \in TaskIds : LoadTask(e, p, t)
           \/ \E l \in Lists : OpenList(e, p, l)
    PROVE  TaskInv'
<1>1. UNCHANGED <<task, person, writes, listOwner, listVersion>>
  BY DEF LoadTask, OpenList, lists
<1>2. /\ patching'[e] \in Edits /\ Loaded(e)' /\ Opened(e)'
      /\ patching' = [patching EXCEPT ![e] = patching'[e]]
  <2>1. CASE \E t \in TaskIds : LoadTask(e, p, t)
    <3>1. PICK t \in TaskIds : LoadTask(e, p, t) BY <2>1
    <3>2. task[t] # NoTask /\ task[t] \in Row /\ task[t].version \in Nat
      <4>1. task[t] # NoTask BY <3>1 DEF LoadTask, InView, GetsTask, OnDashboard
      <4> QED BY <4>1 DEF TaskInv, Row
    <3>3. patching' = [patching EXCEPT ![e] = [step |-> "loaded", who |-> p, id |-> t,
                                              version |-> task[t].version, fresh |-> TRUE]]
      BY <3>1 DEF LoadTask
    <3>4. patching'[e] = [step |-> "loaded", who |-> p, id |-> t,
                          version |-> task[t].version, fresh |-> TRUE]
      BY <3>3 DEF TaskInv
    <3>5. patching'[e] \in Edits BY <3>2, <3>4 DEF Edits
    <3>6. Loaded(e)' BY <1>1, <3>2, <3>4 DEF Loaded
    <3>7. Opened(e)' BY <3>4 DEF Opened
    <3> QED BY <3>3, <3>4, <3>5, <3>6, <3>7
  <2>2. CASE \E l \in Lists : OpenList(e, p, l)
    <3>1. PICK l \in Lists : OpenList(e, p, l) BY <2>2
    <3>2. listVersion[l] \in Nat /\ listOwner[l] # NoPerson
      BY <3>1 DEF OpenList, TaskInv, ListsTyped
    <3>3. patching' = [patching EXCEPT ![e] = [step |-> "opened", who |-> p, id |-> l,
                                              version |-> listVersion[l], fresh |-> TRUE]]
      BY <3>1 DEF OpenList
    <3>4. patching'[e] = [step |-> "opened", who |-> p, id |-> l,
                          version |-> listVersion[l], fresh |-> TRUE]
      BY <3>3 DEF TaskInv
    <3>5. patching'[e] \in Edits BY <3>2, <3>4 DEF Edits
    <3>6. Opened(e)' BY <1>1, <3>2, <3>4 DEF Opened
    <3>7. Loaded(e)' BY <3>4 DEF Loaded
    <3> QED BY <3>3, <3>4, <3>5, <3>6, <3>7
  <2> QED BY <2>1, <2>2
<1>3. \A f \in TaskEdits \ {e} : patching'[f] = patching[f] BY <1>2 DEF TaskInv
<1>4. patching' \in [TaskEdits -> Edits] BY <1>2 DEF TaskInv
<1>5. \A f \in TaskEdits : Loaded(f)' /\ Opened(f)'
  BY <1>1, <1>2, <1>3 DEF TaskInv, Loaded, Opened
<1> QED BY <1>1, <1>4, <1>5 DEF TaskInv, TaskIsConsistent, ListsTyped

\* A request that is refused leaves everybody else's as it was.
LEMMA RefuseEditInv ==
    ASSUME TaskInv, NEW e \in TaskEdits, RefuseEdit(e)
    PROVE  TaskInv'
<1>1. /\ patching'[e] = [NoPatch EXCEPT !.step = "done"]
      /\ UNCHANGED <<task, person, listOwner, listVersion, writes>>
      /\ patching' = [f \in TaskEdits |-> patching'[f]]
  BY DEF RefuseEdit, PatchDone, lists
<1>2. ASSUME NEW f \in TaskEdits \ {e} PROVE patching'[f] = patching[f]
  <2>1. patching'[f] = [patching[f] EXCEPT !.fresh = @ /\ ~(/\ FALSE
                                        /\ patching[f].step = patching[e].step
                                        /\ patching[f].id = patching[e].id)]
    BY DEF RefuseEdit, PatchDone
  <2>2. patching[f] \in Edits /\ patching[f].fresh \in BOOLEAN BY DEF TaskInv, Edits
  <2>3. (patching[f].fresh /\ ~(/\ FALSE /\ patching[f].step = patching[e].step
                               /\ patching[f].id = patching[e].id)) = patching[f].fresh
    BY <2>2
  <2> QED BY <2>1, <2>2, <2>3 DEF Edits
<1>3. patching'[e] \in Edits /\ Loaded(e)' /\ Opened(e)'
  BY <1>1, DonePatch DEF Loaded, Opened
<1>4. \A f \in TaskEdits : Loaded(f)' /\ Opened(f)'
  BY <1>1, <1>2, <1>3 DEF TaskInv, Loaded, Opened
<1>5. \A f \in TaskEdits : patching'[f] \in Edits BY <1>2, <1>3 DEF TaskInv
<1>6. patching' \in [TaskEdits -> Edits] BY <1>1, <1>5
<1> QED BY <1>1, <1>4, <1>6 DEF TaskInv, TaskIsConsistent, ListsTyped

LEMMA CreateListInv ==
    ASSUME TaskInv, NEW l \in Lists, NEW owner \in Staff, CreateList(l, owner)
    PROVE  TaskInv'
<1>1. /\ listOwner[l] = NoPerson /\ UNCHANGED <<task, person, writes, patching>>
      /\ listOwner' = [listOwner EXCEPT ![l] = owner]
      /\ listVersion' = [listVersion EXCEPT ![l] = 1]
  BY DEF CreateList
<1>2. ListsTyped' BY <1>1 DEF TaskInv, ListsTyped, Named
<1>3. \A k \in Lists \ {l} : listOwner'[k] = listOwner[k] /\ listVersion'[k] = listVersion[k]
  BY <1>1 DEF TaskInv, ListsTyped
<1>4. ASSUME NEW f \in TaskEdits PROVE Opened(f)'
  <2>1. patching[f].step = "opened" => patching[f].id \in Lists \ {l}
    BY <1>1 DEF TaskInv, Opened
  <2> QED BY <1>1, <1>3, <2>1 DEF TaskInv, Opened
<1>5. \A f \in TaskEdits : Loaded(f)' BY <1>1 DEF TaskInv, Loaded
<1> QED BY <1>1, <1>2, <1>4, <1>5 DEF TaskInv, TaskIsConsistent

LEMMA GiveListInv ==
    ASSUME TaskInv, NEW e \in TaskEdits, NEW owner \in Staff, GiveList(e, owner)
    PROVE  /\ TaskInv'
           /\ patching[e].step = "opened" /\ patching'[e].step = "done" /\ patching[e].fresh
           /\ \A l \in Lists \ {patching[e].id} : listOwner'[l] = listOwner[l]
<1> DEFINE l == patching[e].id
<1>1. /\ l \in Lists /\ patching[e].step = "opened" /\ patching[e].fresh
      /\ listOwner' = [listOwner EXCEPT ![l] = owner]
      /\ listVersion' = [listVersion EXCEPT ![l] = @ + 1]
      /\ UNCHANGED <<task, person, writes>>
      /\ patching'[e] = [NoPatch EXCEPT !.step = "done"]
      /\ patching' = [f \in TaskEdits |-> patching'[f]]
  BY DEF GiveList, PatchDone, TaskInv, Opened
<1>2. /\ ListsTyped' /\ listVersion[l] \in Nat /\ listVersion'[l] = listVersion[l] + 1
      /\ listOwner'[l] # NoPerson
      /\ \A k \in Lists \ {l} : listOwner'[k] = listOwner[k] /\ listVersion'[k] = listVersion[k]
  BY <1>1, TaskAssumption DEF TaskInv, ListsTyped, Named
<1>3. ASSUME NEW f \in TaskEdits \ {e}
      PROVE  /\ patching'[f].step = patching[f].step /\ patching'[f].who = patching[f].who
             /\ patching'[f].id = patching[f].id /\ patching'[f].version = patching[f].version
             /\ patching[f].step # "opened" \/ patching[f].id # l =>
                   patching'[f].fresh = patching[f].fresh
             /\ patching'[f] \in Edits
  <2>1. patching[f] \in Edits BY DEF TaskInv
  <2>2. patching'[f] = [patching[f] EXCEPT !.fresh = @ /\ ~(/\ TRUE
                                                           /\ patching[f].step = "opened"
                                                           /\ patching[f].id = l)]
    BY <1>1 DEF GiveList, PatchDone
  <2>3. patching'[f].fresh = (patching[f].fresh /\ ~(/\ TRUE
                                                    /\ patching[f].step = "opened"
                                                    /\ patching[f].id = l))
    BY <2>1, <2>2 DEF Edits
  <2>4. patching[f].fresh \in BOOLEAN BY <2>1 DEF Edits
  <2>5. patching[f].step # "opened" \/ patching[f].id # l =>
            patching'[f].fresh = patching[f].fresh
    BY <2>3, <2>4
  <2>6. patching'[f].fresh \in BOOLEAN BY <2>3, <2>4
  <2>7. patching'[f] = [patching[f] EXCEPT !.fresh = patching'[f].fresh]
    BY <2>1, <2>2, <2>3 DEF Edits
  <2> QED BY <2>1, <2>5, <2>6, <2>7 DEF Edits
<1> HIDE DEF l
<1>4. ASSUME NEW f \in TaskEdits PROVE Loaded(f)' /\ Opened(f)'
  <2>1. CASE f = e BY <1>1, <2>1 DEF Loaded, Opened, NoPatch
  <2>2. CASE f # e
    <3>1. Loaded(f) /\ Opened(f) BY DEF TaskInv
    <3>2. Loaded(f)' BY <1>1, <1>3, <2>2, <3>1 DEF Loaded
    <3>3. CASE patching[f].id = l
      <4>1. /\ patching'[f].step = patching[f].step /\ patching'[f].who = patching[f].who
            /\ patching'[f].id = l /\ patching'[f].version = patching[f].version
        BY <1>3, <2>2, <3>3
      <4>2. patching[f].step = "opened" =>
              /\ patching[f].who \in Staff /\ patching[f].version \in Nat
              /\ patching[f].version < listVersion'[l]
        BY <1>2, <3>1, <3>3 DEF Opened
      <4>3. listVersion'[l] \in Nat BY <1>2
      <4> QED BY <1>1, <1>2, <3>2, <4>1, <4>2, <4>3 DEF Opened
    <3>4. CASE patching[f].id # l BY <1>2, <1>3, <2>2, <3>1, <3>2, <3>4 DEF Opened
    <3> QED BY <3>3, <3>4
  <2> QED BY <2>1, <2>2
<1>5. patching' \in [TaskEdits -> Edits]
  <2>1. patching'[e] \in Edits BY <1>1, DonePatch
  <2>2. \A f \in TaskEdits : patching'[f] \in Edits BY <1>3, <2>1
  <2> QED BY <1>1, <2>2
<1>6. TaskInv' BY <1>1, <1>2, <1>4, <1>5 DEF TaskInv, TaskIsConsistent
<1> QED BY <1>1, <1>2, <1>6 DEF NoPatch, l

\* A deleted user's name goes from the rows, and nothing else changes in them.
LEMMA DeleteUserInv ==
    ASSUME TaskInv, NEW p \in Staff, DeleteUser(p)
    PROVE  /\ TaskInv'
           /\ person[p] = "inactive" /\ person'[p] = "deleted"
           /\ \A t \in TaskIds :
                /\ task'[t] = NoTask <=> task[t] = NoTask
                /\ task[t] # NoTask =>
                    /\ task'[t].status = task[t].status /\ task'[t].due = task[t].due
                    /\ task'[t].updated = task[t].updated
                    /\ task'[t].assignee = Without(p, task[t].assignee)
<1> USE TaskAssumption
<1>1. /\ person[p] = "inactive" /\ person' = [person EXCEPT ![p] = "deleted"]
      /\ task' = [t \in TaskIds |-> IF task[t] = NoTask THEN NoTask ELSE
            [task[t] EXCEPT !.by = Without(p, @), !.assignee = Without(p, @),
                            !.completedBy = Without(p, @), !.canceledBy = Without(p, @)]]
      /\ listOwner' = [l \in Lists |-> Without(p, listOwner[l])]
      /\ UNCHANGED <<listVersion, writes, patching>>
  BY DEF DeleteUser
<1>2. \A x \in Named \cup {NoPerson} :
        /\ Without(p, x) \in Named \cup {NoPerson} /\ (x \in Named => Without(p, x) \in Named)
        /\ (Without(p, x) # NoPerson) = (x # NoPerson)
  BY DEF Without, Named
<1>3. ASSUME NEW t \in TaskIds, task[t] # NoTask
      PROVE  /\ task'[t] \in Row
             /\ task'[t].status = task[t].status /\ task'[t].due = task[t].due
             /\ task'[t].updated = task[t].updated /\ task'[t].version = task[t].version
             /\ task'[t].inProgress = task[t].inProgress /\ task'[t].timed = task[t].timed
             /\ task'[t].assignee = Without(p, task[t].assignee)
             /\ task'[t].completedBy = Without(p, task[t].completedBy)
             /\ task'[t].canceledBy = Without(p, task[t].canceledBy)
  <2> DEFINE row == task[t]
             by == Without(p, row.by) assignee == Without(p, row.assignee)
             done == Without(p, row.completedBy) canceled == Without(p, row.canceledBy)
  <2>1. row \in Row BY <1>3 DEF TaskInv
  <2>2. /\ row.by \in Named /\ row.assignee \in Named
        /\ row.completedBy \in Named \cup {NoPerson} /\ row.canceledBy \in Named \cup {NoPerson}
    BY <2>1 DEF Row
  <2>3. /\ by \in Named /\ assignee \in Named
        /\ done \in Named \cup {NoPerson} /\ canceled \in Named \cup {NoPerson}
    BY <1>2, <2>2
  <2>4. task'[t] = [row EXCEPT !.by = by, !.assignee = assignee, !.completedBy = done,
                               !.canceledBy = canceled]
    BY <1>1, <1>3
  <2> HIDE DEF row, by, assignee, done, canceled
  <2>5. /\ task'[t] \in Row
        /\ task'[t].status = row.status /\ task'[t].due = row.due
        /\ task'[t].updated = row.updated /\ task'[t].version = row.version
        /\ task'[t].inProgress = row.inProgress /\ task'[t].timed = row.timed
        /\ task'[t].assignee = assignee /\ task'[t].completedBy = done
        /\ task'[t].canceledBy = canceled
    BY <2>1, <2>3, <2>4 DEF Row
  <2> QED BY <2>5 DEF row, assignee, done, canceled
<1>4. \A t \in TaskIds : task[t] = NoTask => task'[t] = NoTask BY <1>1
<1>5. \A t \in TaskIds : task'[t] = NoTask <=> task[t] = NoTask BY <1>3, <1>4
<1>6. task' \in [TaskIds -> Row \cup {NoTask}]
  <2>1. \A t \in TaskIds : task'[t] \in Row \cup {NoTask} BY <1>3, <1>4
  <2>2. task' = [t \in TaskIds |-> task'[t]] BY <1>1
  <2> QED BY <2>1, <2>2
<1>7. TaskIsConsistent'
  <2> SUFFICES ASSUME NEW t \in TaskIds, task[t] # NoTask
      PROVE  /\ task'[t].inProgress => task'[t].status = "open"
             /\ task'[t].timed => task'[t].due # NoDay
             /\ (task'[t].completedBy # NoPerson) = (task'[t].status = "done")
             /\ (task'[t].canceledBy # NoPerson) = (task'[t].status = "canceled")
    BY <1>5 DEF TaskIsConsistent
  <2>1. /\ task[t].inProgress => task[t].status = "open"
        /\ task[t].timed => task[t].due # NoDay
        /\ (task[t].completedBy # NoPerson) = (task[t].status = "done")
        /\ (task[t].canceledBy # NoPerson) = (task[t].status = "canceled")
    BY DEF TaskInv, TaskIsConsistent
  <2>2. /\ task[t].completedBy \in Named \cup {NoPerson}
        /\ task[t].canceledBy \in Named \cup {NoPerson}
    <3>1. task[t] \in Row BY DEF TaskInv
    <3> QED BY <3>1 DEF Row
  <2> QED BY <1>2, <1>3, <2>1, <2>2
<1>8. \A l \in Lists : listOwner'[l] = Without(p, listOwner[l])
                       /\ listOwner[l] \in Named \cup {NoPerson}
  BY <1>1 DEF TaskInv, ListsTyped
<1>9. ListsTyped'
  <2>1. \A l \in Lists : Without(p, listOwner[l]) \in Named \cup {NoPerson} BY <1>2, <1>8
  <2> QED BY <1>1, <2>1 DEF TaskInv, ListsTyped
<1>10. ASSUME NEW f \in TaskEdits PROVE Loaded(f)' /\ Opened(f)'
  <2>1. Loaded(f) /\ Opened(f) BY DEF TaskInv
  <2>2. Loaded(f)'
    <3>1. patching' = patching BY <1>1
    <3>2. CASE patching[f].step = "loaded"
      <4>1. patching[f].id \in TaskIds /\ task[patching[f].id] # NoTask
        BY <2>1, <3>2 DEF Loaded
      <4>2. task'[patching[f].id] # NoTask
        BY <1>5, <4>1
      <4>3. task'[patching[f].id].version = task[patching[f].id].version
        BY <1>3, <4>1
      <4> QED BY <2>1, <3>1, <4>1, <4>2, <4>3 DEF Loaded
    <3>3. CASE patching[f].step # "loaded" BY <3>1, <3>3 DEF Loaded
    <3> QED BY <3>2, <3>3
  <2>3. Opened(f)' BY <1>1, <1>2, <1>8, <2>1 DEF Opened
  <2> QED BY <2>2, <2>3
<1>11. TaskInv' BY <1>1, <1>6, <1>7, <1>9, <1>10 DEF TaskInv
<1>12. person'[p] = "deleted" BY <1>1 DEF TaskInv
<1> QED BY <1>1, <1>3, <1>5, <1>11, <1>12

LEMMA NextTaskInv == TaskInv /\ [TaskNext]_taskVars => TaskInv'
<1> SUFFICES ASSUME TaskInv, [TaskNext]_taskVars PROVE TaskInv' OBVIOUS
<1>1. CASE UNCHANGED <<task, person, listOwner, listVersion, writes, patching>>
  BY <1>1 DEF TaskInv, Loaded, Opened, TaskIsConsistent, ListsTyped
<1>2. ASSUME NEW p \in Staff, NEW active \in BOOLEAN, SetUserActive(p, active) PROVE TaskInv'
  <2>1. /\ UNCHANGED <<task, listOwner, listVersion, writes, patching>>
        /\ person' \in [Staff -> {"active", "inactive", "deleted"}]
    BY <1>2 DEF SetUserActive, lists, TaskInv
  <2> QED BY <2>1 DEF TaskInv, Loaded, Opened, TaskIsConsistent, ListsTyped
<1>3. CASE \/ Midnight \/ NextPage
           \/ \E s \in Sections, manager \in Office \cup {NoPerson} : StartWalk(s, manager)
  BY <1>1, <1>3 DEF Midnight, NextPage, StartWalk, lists
<1>4. CASE UNCHANGED taskVars BY <1>1, <1>4 DEF taskVars, lists
<1> QED BY <1>2, <1>3, <1>4, ReadInv, RefuseEditInv, CreateListInv, GiveListInv,
           DeleteUserInv, CreateTaskInv, UpdateTaskInv DEF TaskNext

\* However a task is edited, closed and reopened, its fields fit together: it names who
\* closed it exactly while it is closed that way, or who did was deleted since
\* (tasks.go:409, 20260908120000_manual_tasks.sql:12).
THEOREM TasksStayConsistent == TaskSpec => []TaskIsConsistent
<1>1. TaskInv => TaskIsConsistent BY DEF TaskInv
<1> QED BY InitTaskInv, NextTaskInv, <1>1, PTL DEF TaskSpec

Removed == \E p \in Staff : person[p] = "inactive" /\ person'[p] = "deleted"
Seen(kind, id) == \E e \in TaskEdits :
    /\ patching[e].step = kind /\ patching'[e].step = "done"
    /\ patching[e].id = id /\ patching[e].fresh

LEMMA NoLostTaskUpdateStep ==
    ASSUME TaskInv, [TaskNext]_taskVars
    PROVE  /\ \A t \in TaskIds :
                task[t] # NoTask /\ task'[t] # task[t] => Seen("loaded", t) \/ Removed
           /\ \A l \in Lists :
                listOwner[l] # NoPerson /\ listOwner'[l] # listOwner[l] =>
                    Seen("opened", l) \/ Removed
<1>1. CASE UNCHANGED <<task, lists>> BY <1>1 DEF lists
<1>2. ASSUME NEW p \in Staff, NEW u \in TaskIds, NEW assignee \in Office,
             NEW new \in NewTasks, CreateTask(p, u, assignee, new)
      PROVE  /\ listOwner' = listOwner
             /\ \A t \in TaskIds : task[t] # NoTask => task'[t] = task[t]
  BY <1>2 DEF CreateTask, TaskInv, lists
<1>3. ASSUME NEW e \in TaskEdits, UpdateTask(e)
      PROVE  /\ listOwner' = listOwner
             /\ \A t \in TaskIds : task'[t] # task[t] => Seen("loaded", t)
  <2>1. /\ patching[e].step = "loaded" /\ patching'[e].step = "done" /\ patching[e].fresh
        /\ \A t \in TaskIds \ {patching[e].id} : task'[t] = task[t]
        /\ lists' = lists
    BY <1>3, UpdateTaskInv
  <2> QED BY <2>1 DEF lists, Seen
<1>4. ASSUME NEW e \in TaskEdits, NEW owner \in Staff, GiveList(e, owner)
      PROVE  /\ task' = task
             /\ \A l \in Lists : listOwner'[l] # listOwner[l] => Seen("opened", l)
  <2>1. /\ patching[e].step = "opened" /\ patching'[e].step = "done" /\ patching[e].fresh
        /\ \A l \in Lists \ {patching[e].id} : listOwner'[l] = listOwner[l]
    BY <1>4, GiveListInv
  <2>2. task' = task BY <1>4 DEF GiveList
  <2> QED BY <2>1, <2>2 DEF Seen
<1>5. ASSUME NEW l \in Lists, NEW owner \in Staff, CreateList(l, owner)
      PROVE  /\ task' = task
             /\ \A k \in Lists : listOwner[k] # NoPerson => listOwner'[k] = listOwner[k]
  BY <1>5 DEF CreateList, TaskInv, ListsTyped
<1>6. ASSUME NEW p \in Staff, DeleteUser(p) PROVE Removed
  BY <1>6, DeleteUserInv DEF Removed
<1>7. \/ UNCHANGED <<task, lists>>
      \/ \E p \in Staff, u \in TaskIds, assignee \in Office, new \in NewTasks :
            CreateTask(p, u, assignee, new)
      \/ \E e \in TaskEdits : UpdateTask(e) \/ \E owner \in Staff : GiveList(e, owner)
      \/ \E l \in Lists, owner \in Staff : CreateList(l, owner)
      \/ \E p \in Staff : DeleteUser(p)
  BY DEF TaskNext, taskVars, LoadTask, OpenList, RefuseEdit, SetUserActive, Midnight,
         NextPage, StartWalk
<1> HIDE DEF Seen, Removed
<1> QED BY <1>1, <1>2, <1>3, <1>4, <1>5, <1>6, <1>7

\* Nobody's change of a task, or of who owns a list, is overwritten by a person who had
\* not seen it (tasks.go:382, task_lists.go:380).
THEOREM TaskUpdatesAreSeen == TaskSpec => NoLostTaskUpdate
<1>1. TaskInv /\ [TaskNext]_taskVars
      => [/\ \A t \in TaskIds : task[t] # NoTask /\ task'[t] # task[t] =>
                \/ \E e \in TaskEdits : patching[e].step = "loaded" /\ patching'[e].step = "done"
                                          /\ patching[e].id = t /\ patching[e].fresh
                \/ \E p \in Staff : person[p] = "inactive" /\ person'[p] = "deleted"
          /\ \A l \in Lists : listOwner[l] # NoPerson /\ listOwner'[l] # listOwner[l] =>
                \/ \E e \in TaskEdits : patching[e].step = "opened" /\ patching'[e].step = "done"
                                          /\ patching[e].id = l /\ patching[e].fresh
                \/ \E p \in Staff : person[p] = "inactive" /\ person'[p] = "deleted"]_taskVars
  BY NoLostTaskUpdateStep DEF Seen, Removed
<1> QED BY InitTaskInv, NextTaskInv, <1>1, PTL DEF TaskSpec, NoLostTaskUpdate

----------------------------------------------------------------------------
(* The dashboard's pages *)

\* n rows of different ranks below n have them all.
LEMMA RanksAreAll ==
    ASSUME NEW S, IsFiniteSet(S), NEW r \in [S -> 0..(Cardinality(S) - 1)],
           \A t, u \in S : t # u => r[t] # r[u]
    PROVE  \A k \in 0..(Cardinality(S) - 1) : \E t \in S : r[t] = k
<1> DEFINE T == 0..(Cardinality(S) - 1)
<1>1. Cardinality(S) \in Nat BY FS_CardinalityType
<1>2. IsFiniteSet(T) /\ Cardinality(T) = Cardinality(S) BY <1>1, FS_Interval
<1>3. r \in Injection(S, T) BY DEF Injection, IsInjective
<1>4. r \in Surjection(S, T)
  <2> HIDE DEF T
  <2> QED BY <1>2, <1>3, FS_Injection
<1> QED BY <1>4 DEF Surjection

\* The order of the rows is a strict total order of their keys.
LEMMA BeforeOfPairs ==
    ASSUME NEW a1 \in Int, NEW a2 \in Int, NEW b1 \in Int, NEW b2 \in Int
    PROVE  Before(<<a1, a2>>, <<b1, b2>>) <=> a1 < b1 \/ (a1 = b1 /\ a2 < b2)
<1> DEFINE j == <<a1, a2>> k == <<b1, b2>>
<1>1. /\ DOMAIN j = {1, 2}
      /\ j[1] = a1 /\ j[2] = a2 /\ k[1] = b1 /\ k[2] = b2
  OBVIOUS
<1>2. 1..(1 - 1) = {} /\ 1..(2 - 1) = {1} OBVIOUS
<1> HIDE DEF j, k
<1> DEFINE Decides(n) == j[n] < k[n] /\ \A m \in 1..(n - 1) : j[m] = k[m]
<1>3. Before(j, k) <=> Decides(1) \/ Decides(2)
  <2>1. Before(j, k) <=> \E n \in {1, 2} : Decides(n) BY <1>1 DEF Before
  <2> HIDE DEF Decides
  <2> QED BY <2>1, Zenon
<1>4. Decides(1) <=> a1 < b1 BY <1>1, <1>2
<1>5. Decides(2) <=> a2 < b2 /\ a1 = b1 BY <1>1, <1>2
<1> HIDE DEF Decides
<1>6. Before(j, k) <=> a1 < b1 \/ (a1 = b1 /\ a2 < b2)
  BY <1>3, <1>4, <1>5, Zenon
<1> QED BY <1>6 DEF j, k

LEMMA BeforeOfTriples ==
    ASSUME NEW a1 \in Int, NEW a2 \in Int, NEW a3 \in Int,
           NEW b1 \in Int, NEW b2 \in Int, NEW b3 \in Int
    PROVE  Before(<<a1, a2, a3>>, <<b1, b2, b3>>)
             <=> a1 < b1 \/ (a1 = b1 /\ (a2 < b2 \/ (a2 = b2 /\ a3 < b3)))
<1> DEFINE j == <<a1, a2, a3>> k == <<b1, b2, b3>>
<1>1. /\ DOMAIN j = {1, 2, 3}
      /\ j[1] = a1 /\ j[2] = a2 /\ j[3] = a3 /\ k[1] = b1 /\ k[2] = b2 /\ k[3] = b3
  OBVIOUS
<1>2. 1..(1 - 1) = {} /\ 1..(2 - 1) = {1} /\ 1..(3 - 1) = {1, 2} OBVIOUS
<1> HIDE DEF j, k
<1> DEFINE Decides(n) == j[n] < k[n] /\ \A m \in 1..(n - 1) : j[m] = k[m]
<1>3. Before(j, k) <=> Decides(1) \/ Decides(2) \/ Decides(3)
  <2>1. Before(j, k) <=> \E n \in {1, 2, 3} : Decides(n) BY <1>1 DEF Before
  <2> HIDE DEF Decides
  <2> QED BY <2>1, Zenon
<1>4. Decides(1) <=> a1 < b1 BY <1>1, <1>2
<1>5. Decides(2) <=> a2 < b2 /\ a1 = b1 BY <1>1, <1>2
<1>6. Decides(3) <=> a3 < b3 /\ a1 = b1 /\ a2 = b2 BY <1>1, <1>2
<1> HIDE DEF Decides
<1>7. Before(j, k) <=> a1 < b1 \/ (a1 = b1 /\ (a2 < b2 \/ (a2 = b2 /\ a3 < b3)))
  BY <1>3, <1>4, <1>5, <1>6, Zenon
<1> QED BY <1>7 DEF j, k

WalkKeys(s) == IF s \in Closed THEN Int \X Int ELSE Int \X Int \X Int

LEMMA BeforeIsOrder ==
    ASSUME NEW s, NEW j \in WalkKeys(s), NEW k \in WalkKeys(s), NEW l \in WalkKeys(s)
    PROVE  /\ ~Before(j, j)
           /\ Before(j, k) /\ Before(k, l) => Before(j, l)
           /\ j # k => Before(j, k) \/ Before(k, j)
<1>1. CASE s \in Closed
  <2>1. \A key \in WalkKeys(s) :
          key[1] \in Int /\ key[2] \in Int /\ key = <<key[1], key[2]>>
    BY <1>1 DEF WalkKeys
  <2>2. \A p, q \in WalkKeys(s) :
          Before(p, q) <=> p[1] < q[1] \/ (p[1] = q[1] /\ p[2] < q[2])
    BY <2>1, BeforeOfPairs
  <2>3. j # k => j[1] # k[1] \/ j[2] # k[2] BY <2>1
  <2>4. ~Before(j, j) BY <2>1, <2>2
  <2>5. Before(j, k) /\ Before(k, l) => Before(j, l)
    <3>1. \A a1, a2, b1, b2, c1, c2 \in Int :
            (a1 < b1 \/ (a1 = b1 /\ a2 < b2)) /\ (b1 < c1 \/ (b1 = c1 /\ b2 < c2))
              => a1 < c1 \/ (a1 = c1 /\ a2 < c2)
      OBVIOUS
    <3> QED BY <2>1, <2>2, <3>1
  <2>6. j # k => Before(j, k) \/ Before(k, j) BY <2>1, <2>2, <2>3
  <2> QED BY <2>4, <2>5, <2>6
<1>2. CASE s \notin Closed
  <2>1. \A key \in WalkKeys(s) :
          /\ key[1] \in Int /\ key[2] \in Int /\ key[3] \in Int
          /\ key = <<key[1], key[2], key[3]>>
    BY <1>2 DEF WalkKeys
  <2>2. \A p, q \in WalkKeys(s) :
          Before(p, q) <=>
            p[1] < q[1] \/ (p[1] = q[1] /\ (p[2] < q[2] \/ (p[2] = q[2] /\ p[3] < q[3])))
    BY <2>1, BeforeOfTriples
  <2>3. j # k => j[1] # k[1] \/ j[2] # k[2] \/ j[3] # k[3] BY <2>1
  <2>4. ~Before(j, j) BY <2>1, <2>2
  <2>5. Before(j, k) /\ Before(k, l) => Before(j, l)
    <3>1. /\ j[1] \in Int /\ j[2] \in Int /\ j[3] \in Int
          /\ k[1] \in Int /\ k[2] \in Int /\ k[3] \in Int
          /\ l[1] \in Int /\ l[2] \in Int /\ l[3] \in Int
      BY <2>1
    <3> SUFFICES ASSUME Before(j, k), Before(k, l) PROVE Before(j, l) OBVIOUS
    <3>2. j[1] < k[1] \/ (j[1] = k[1] /\ (j[2] < k[2] \/ (j[2] = k[2] /\ j[3] < k[3])))
      BY <2>2
    <3>3. k[1] < l[1] \/ (k[1] = l[1] /\ (k[2] < l[2] \/ (k[2] = l[2] /\ k[3] < l[3])))
      BY <2>2
    <3>4. j[1] < l[1] \/ (j[1] = l[1] /\ (j[2] < l[2] \/ (j[2] = l[2] /\ j[3] < l[3])))
      BY <3>1, <3>2, <3>3
    <3> QED BY <2>2, <3>4
  <2>6. j # k => Before(j, k) \/ Before(k, j) BY <2>1, <2>2, <2>3
  <2> QED BY <2>4, <2>5, <2>6
<1> QED BY <1>1, <1>2

LEMMA KeysOfRows ==
    ASSUME NEW s, NEW day, NEW t \in TaskIds, NEW u \in TaskIds,
           task[t] \in Row, task[u] \in Row
    PROVE  /\ SortKey(t, s, day) \in WalkKeys(s)
           /\ t # u => SortKey(t, s, day) # SortKey(u, s, day)
<1> USE TaskAssumption
<1>1. /\ task[t].due \in Int /\ task[u].due \in Int
      /\ task[t].updated \in Int /\ task[u].updated \in Int
      /\ t \in Int /\ u \in Int
  BY DEF Row, DueDates, NoDay
<1>2. CASE s \in Closed
  <2>1. /\ SortKey(t, s, day) = <<-task[t].updated, -t>>
        /\ SortKey(u, s, day) = <<-task[u].updated, -u>>
    BY <1>2 DEF SortKey
  <2> QED BY <1>1, <1>2, <2>1 DEF WalkKeys
<1>3. CASE s \notin Closed
  <2> DEFINE bucketOf(w) == IF task[w].due = NoDay THEN 2
                          ELSE IF task[w].due < day THEN 0 ELSE 1
  <2>1. /\ SortKey(t, s, day) = <<bucketOf(t), task[t].due, t>>
        /\ SortKey(u, s, day) = <<bucketOf(u), task[u].due, u>>
    BY <1>3 DEF SortKey
  <2>2. bucketOf(t) \in Int /\ bucketOf(u) \in Int OBVIOUS
  <2> HIDE DEF bucketOf
  <2> QED BY <1>1, <1>3, <2>1, <2>2 DEF WalkKeys
<1> QED BY <1>2, <1>3

Cursors == {<<>>} \cup (Int \X Int) \cup (Int \X Int \X Int)
WalkState == [section : Sections \cup {"none"}, manager : Staff \cup {NoPerson},
              cursor : Cursors, open : BOOLEAN, times : [TaskIds -> Nat],
              steady : SUBSET TaskIds]

\* What a reader has of a row that stayed where it was: once if the cursor has passed
\* it, not yet otherwise.
ReadOnce(t) ==
    IF walk.open
    THEN /\ InSection(t, walk.section, walk.manager, today)
         /\ walk.times[t] = IF t \in Remaining THEN 0 ELSE 1
    ELSE walk.times[t] = 1

WalkInv ==
    /\ walk \in WalkState
    /\ walk.cursor = <<>> \/ walk.cursor \in WalkKeys(walk.section)
    /\ \A t \in walk.steady : ReadOnce(t)

PlaceOf(t) == SortKey(t, walk.section, today)

LEMMA RowsAhead ==
    ASSUME TaskInv
    PROVE  /\ IsFiniteSet(Remaining)
           /\ \A t \in Remaining : t \in TaskIds /\ PlaceOf(t) \in WalkKeys(walk.section)
           /\ \A t, u \in Remaining :
                t # u => Before(PlaceOf(t), PlaceOf(u)) \/ Before(PlaceOf(u), PlaceOf(t))
<1>1. IsFiniteSet(Remaining)
  <2>1. Remaining \in SUBSET TaskIds BY DEF Remaining
  <2> QED BY <2>1, TaskAssumption, FS_Subset
<1>2. \A t \in Remaining : t \in TaskIds /\ task[t] \in Row
  BY DEF Remaining, InSection, TaskInv
<1>3. \A t, u \in Remaining : /\ PlaceOf(t) \in WalkKeys(walk.section)
                              /\ t # u => PlaceOf(t) # PlaceOf(u)
  BY <1>2, KeysOfRows DEF PlaceOf
<1>4. \A t, u \in Remaining :
        t # u => Before(PlaceOf(t), PlaceOf(u)) \/ Before(PlaceOf(u), PlaceOf(t))
  BY <1>3, BeforeIsOrder
<1> QED BY <1>1, <1>2, <1>3, <1>4

\* The rank of a row counts those before it.
LEMMA RanksFollowTheOrder ==
    ASSUME TaskInv
    PROVE  /\ \A t \in Remaining : Rank(t) \in 0..(Cardinality(Remaining) - 1)
           /\ \A t, u \in Remaining :
                Before(PlaceOf(t), PlaceOf(u)) => Rank(t) < Rank(u)
<1> DEFINE Ahead(t) == {u \in Remaining : Before(PlaceOf(u), PlaceOf(t))}
<1>1. \A t : Rank(t) = Cardinality(Ahead(t)) BY DEF Rank, PlaceOf
<1>2. \A t : Ahead(t) \in SUBSET Remaining OBVIOUS
<1>3. \A t \in Remaining : t \notin Ahead(t) BY RowsAhead, BeforeIsOrder
<1>4. \A t, u \in Remaining : Before(PlaceOf(t), PlaceOf(u)) =>
        t \in Ahead(u) /\ Ahead(t) \in SUBSET Ahead(u)
  BY RowsAhead, BeforeIsOrder
<1> HIDE DEF Ahead
<1>5. \A t : IsFiniteSet(Ahead(t)) /\ Cardinality(Ahead(t)) \in Nat
  BY <1>2, RowsAhead, FS_Subset, FS_CardinalityType
<1>6. Cardinality(Remaining) \in Nat BY RowsAhead, FS_CardinalityType
<1>7. ASSUME NEW t \in Remaining PROVE Rank(t) \in 0..(Cardinality(Remaining) - 1)
  <2>1. Ahead(t) # Remaining BY <1>3
  <2>2. Cardinality(Ahead(t)) < Cardinality(Remaining)
    BY <1>2, <1>5, <1>6, <2>1, RowsAhead, FS_Subset
  <2> QED BY <1>1, <1>5, <1>6, <2>2
<1>8. ASSUME NEW t \in Remaining, NEW u \in Remaining, Before(PlaceOf(t), PlaceOf(u))
      PROVE  Rank(t) < Rank(u)
  <2>1. Ahead(t) \in SUBSET Ahead(u) /\ Ahead(t) # Ahead(u) BY <1>3, <1>4, <1>8
  <2>2. Cardinality(Ahead(t)) < Cardinality(Ahead(u)) BY <1>5, <2>1, FS_Subset
  <2> QED BY <1>1, <2>2
<1> QED BY <1>7, <1>8

\* A page that is not all has a last row, after which the cursor stands.
LEMMA FullPageHasLast ==
    ASSUME TaskInv, NEW t \in Remaining, ~(Rank(t) < PageSize)
    PROVE  \E u \in Remaining : Rank(u) = PageSize - 1
<1> DEFINE rank == [u \in Remaining |-> Rank(u)]
<1>1. PageSize \in Nat /\ PageSize # 0 BY TaskAssumption
<1>2. Cardinality(Remaining) \in Nat BY RowsAhead, FS_CardinalityType
<1>3. rank \in [Remaining -> 0..(Cardinality(Remaining) - 1)] BY RanksFollowTheOrder
<1>4. \A u, v \in Remaining : u # v => Rank(u) < Rank(v) \/ Rank(v) < Rank(u)
  BY RowsAhead, RanksFollowTheOrder
<1>5. \A u \in Remaining : Rank(u) \in Nat BY <1>2, RanksFollowTheOrder
<1>6. \A u, v \in Remaining : u # v => rank[u] # rank[v] BY <1>4, <1>5
<1>7. PageSize - 1 \in 0..(Cardinality(Remaining) - 1)
  BY <1>1, <1>2, RanksFollowTheOrder
<1> HIDE DEF rank
<1>8. \E u \in Remaining : rank[u] = PageSize - 1
  BY <1>3, <1>6, <1>7, RowsAhead, RanksAreAll
<1> QED BY <1>8 DEF rank

\* A row stays as read as it was while the reader does nothing, the row is written by
\* nobody and its place is the same.
LEMMA StaysRead ==
    ASSUME NEW t \in TaskIds, ReadOnce(t),
           /\ walk'.section = walk.section /\ walk'.manager = walk.manager
           /\ walk'.cursor = walk.cursor /\ walk'.open = walk.open
           /\ walk'.times = walk.times,
           InSection(t, walk.section, walk.manager, today)
             => InSection(t, walk.section, walk.manager, today)'
                /\ SortKey(t, walk.section, today)' = SortKey(t, walk.section, today)
    PROVE  ReadOnce(t)'
<1>1. CASE walk.open
  <2>1. InSection(t, walk.section, walk.manager, today) BY <1>1 DEF ReadOnce
  <2>2. t \in Remaining <=> t \in Remaining' BY <2>1 DEF Remaining
  <2> QED BY <1>1, <2>1, <2>2 DEF ReadOnce
<1>2. CASE ~walk.open BY <1>2 DEF ReadOnce
<1> QED BY <1>1, <1>2

LEMMA WrittenWalk ==
    ASSUME WalkInv, NEW t \in TaskIds, Written(t), UNCHANGED <<today, person>>,
           \A u \in TaskIds \ {t} : task'[u] = task[u]
    PROVE  WalkInv'
<1>1. walk' = [walk EXCEPT !.steady = @ \ {t}] BY DEF Written
<1>2. /\ walk' \in WalkState /\ walk'.steady = walk.steady \ {t}
      /\ walk'.section = walk.section /\ walk'.manager = walk.manager
      /\ walk'.cursor = walk.cursor /\ walk'.open = walk.open
      /\ walk'.times = walk.times
  BY <1>1 DEF WalkInv, WalkState
<1>3. ASSUME NEW u \in walk'.steady PROVE ReadOnce(u)'
  <2>1. u \in walk.steady /\ u \in TaskIds \ {t} BY <1>2, <1>3 DEF WalkInv, WalkState
  <2>2. ReadOnce(u) /\ task'[u] = task[u] BY <2>1 DEF WalkInv
  <2>3. InSection(u, walk.section, walk.manager, today)
          => InSection(u, walk.section, walk.manager, today)'
    BY <1>2, <2>2 DEF InSection, Manager
  <2>4. SortKey(u, walk.section, today)' = SortKey(u, walk.section, today)
    BY <1>2, <2>2 DEF SortKey
  <2> QED BY <1>2, <2>1, <2>2, <2>3, <2>4, StaysRead
<1>4. WalkKeys(walk.section)' = WalkKeys(walk.section) BY <1>2 DEF WalkKeys
<1> QED BY <1>2, <1>3, <1>4 DEF WalkInv

\* Rows that neither move to another manager nor change their place stay as they were.
LEMMA RowsStay ==
    ASSUME WalkInv, walk' \in WalkState, walk'.steady \in SUBSET walk.steady,
           /\ walk'.section = walk.section /\ walk'.manager = walk.manager
           /\ walk'.cursor = walk.cursor /\ walk'.open = walk.open
           /\ walk'.times = walk.times /\ today' = today,
           \A u \in walk'.steady :
                /\ task'[u] = NoTask <=> task[u] = NoTask
                /\ task[u] # NoTask =>
                    /\ task'[u].status = task[u].status /\ task'[u].due = task[u].due
                    /\ task'[u].updated = task[u].updated
                    /\ Manager(u)' = Manager(u)
    PROVE  WalkInv'
<1>1. ASSUME NEW u \in walk'.steady PROVE ReadOnce(u)'
  <2>1. u \in walk.steady /\ u \in TaskIds BY <1>1 DEF WalkInv, WalkState
  <2>2. ReadOnce(u) BY <2>1 DEF WalkInv
  <2>3. InSection(u, walk.section, walk.manager, today)
          => /\ InSection(u, walk.section, walk.manager, today)'
             /\ SortKey(u, walk.section, today)' = SortKey(u, walk.section, today)
    BY <1>1 DEF InSection, SortKey
  <2> QED BY <2>1, <2>2, <2>3, StaysRead
<1>2. WalkKeys(walk.section)' = WalkKeys(walk.section) BY DEF WalkKeys
<1> QED BY <1>1, <1>2 DEF WalkInv

LEMMA SetUserActiveWalk ==
    ASSUME TaskInv, WalkInv, NEW p \in Staff, NEW active \in BOOLEAN, SetUserActive(p, active)
    PROVE  WalkInv'
<1>1. /\ walk' = [walk EXCEPT !.steady = {t \in @ : task[t].assignee # p}]
      /\ UNCHANGED <<task, today>>
      /\ \A q \in Staff \ {p} : person'[q] = person[q]
  BY DEF SetUserActive, TaskInv
<1>2. /\ walk' \in WalkState /\ walk'.steady = {t \in walk.steady : task[t].assignee # p}
      /\ walk'.section = walk.section /\ walk'.manager = walk.manager
      /\ walk'.cursor = walk.cursor /\ walk'.open = walk.open
      /\ walk'.times = walk.times
  BY <1>1 DEF WalkInv, WalkState
<1>3. ASSUME NEW u \in walk'.steady PROVE Manager(u)' = Manager(u)
  <2>1. task[u].assignee # p BY <1>2, <1>3
  <2> QED BY <1>1, <2>1, TaskAssumption DEF Manager
<1>4. walk'.steady \in SUBSET walk.steady BY <1>2
<1> QED BY <1>1, <1>2, <1>3, <1>4, RowsStay

LEMMA DeleteUserWalk ==
    ASSUME TaskInv, WalkInv, NEW p \in Staff, DeleteUser(p)
    PROVE  WalkInv'
<1>1. /\ UNCHANGED <<today, walk>> /\ person' = [person EXCEPT ![p] = "deleted"]
      /\ person[p] = "inactive"
  BY DEF DeleteUser
<1>2. \A t \in TaskIds :
        /\ task'[t] = NoTask <=> task[t] = NoTask
        /\ task[t] # NoTask =>
            /\ task'[t].status = task[t].status /\ task'[t].due = task[t].due
            /\ task'[t].updated = task[t].updated
            /\ task'[t].assignee = Without(p, task[t].assignee)
  BY DeleteUserInv
<1>3. ASSUME NEW t \in TaskIds, task[t] # NoTask PROVE Manager(t)' = Manager(t)
  <2>1. \A q \in Staff \ {p} : person'[q] = person[q] BY <1>1 DEF TaskInv
  <2>2. CASE task[t].assignee = p
    <3>1. task'[t].assignee = Former BY <1>2, <1>3, <2>2 DEF Without
    <3>2. Manager(t)' = NoPerson BY <3>1, TaskAssumption DEF Manager
    <3>3. Manager(t) = NoPerson BY <1>1, <2>2 DEF Manager
    <3> QED BY <3>2, <3>3
  <2>3. CASE task[t].assignee # p
    <3>1. task'[t].assignee = task[t].assignee BY <1>2, <1>3, <2>3 DEF Without
    <3> QED BY <2>1, <2>3, <3>1, TaskAssumption DEF Manager
  <2> QED BY <2>2, <2>3
<1>4. walk' \in WalkState /\ walk.steady \in SUBSET TaskIds BY <1>1 DEF WalkInv, WalkState
<1> QED BY <1>1, <1>2, <1>3, <1>4, RowsStay

LEMMA MidnightWalk ==
    ASSUME WalkInv, Midnight
    PROVE  WalkInv'
<1> DEFINE Same(t) == /\ InSection(t, walk.section, walk.manager, today + 1)
                      /\ SortKey(t, walk.section, today) = SortKey(t, walk.section, today + 1)
<1>1. /\ today' = today + 1 /\ UNCHANGED <<task, person>>
      /\ walk' = [walk EXCEPT !.steady = {t \in @ : Same(t)}]
  BY DEF Midnight
<1>2. \A t : Same(t) => /\ InSection(t, walk.section, walk.manager, today + 1)
                        /\ SortKey(t, walk.section, today)
                             = SortKey(t, walk.section, today + 1)
  OBVIOUS
<1> HIDE DEF Same
<1>3. /\ walk' \in WalkState /\ walk'.steady = {t \in walk.steady : Same(t)}
      /\ walk'.section = walk.section /\ walk'.manager = walk.manager
      /\ walk'.cursor = walk.cursor /\ walk'.open = walk.open
      /\ walk'.times = walk.times
  BY <1>1 DEF WalkInv, WalkState
<1>4. ASSUME NEW u \in walk'.steady PROVE ReadOnce(u)'
  <2>1. u \in walk.steady /\ u \in TaskIds /\ Same(u) /\ ReadOnce(u)
    BY <1>3, <1>4 DEF WalkInv, WalkState
  <2>2. InSection(u, walk.section, walk.manager, today)'
    BY <1>1, <1>2, <1>3, <2>1 DEF InSection, Manager
  <2>3. SortKey(u, walk.section, today)' = SortKey(u, walk.section, today)
    BY <1>1, <1>2, <1>3, <2>1 DEF SortKey
  <2> QED BY <1>3, <2>1, <2>2, <2>3, StaysRead
<1>5. WalkKeys(walk.section)' = WalkKeys(walk.section) BY <1>3 DEF WalkKeys
<1> QED BY <1>3, <1>4, <1>5 DEF WalkInv

LEMMA StartWalkWalk ==
    ASSUME WalkInv, NEW s \in Sections, NEW manager \in Office \cup {NoPerson},
           StartWalk(s, manager)
    PROVE  WalkInv'
<1> DEFINE rows == {t \in TaskIds : InSection(t, s, manager, today)}
<1>1. /\ walk' = [NoWalk EXCEPT !.section = s, !.manager = manager, !.open = TRUE,
                                !.steady = rows]
      /\ UNCHANGED <<task, today, person>>
  BY DEF StartWalk
<1>2. rows \in SUBSET TaskIds /\ \A t \in rows : InSection(t, s, manager, today) OBVIOUS
<1> HIDE DEF rows
<1>3. /\ walk' = [section |-> s, manager |-> manager, cursor |-> <<>>, open |-> TRUE,
                  times |-> [t \in TaskIds |-> 0], steady |-> rows]
  BY <1>1 DEF NoWalk
<1>4. walk' \in WalkState
  <2>1. manager \in Staff \cup {NoPerson} BY TaskAssumption
  <2>2. <<>> \in Cursors BY DEF Cursors
  <2>3. [t \in TaskIds |-> 0] \in [TaskIds -> Nat] OBVIOUS
  <2> HIDE DEF Cursors
  <2> QED BY <1>2, <1>3, <2>1, <2>2, <2>3 DEF WalkState
<1>5. ASSUME NEW t \in walk'.steady PROVE ReadOnce(t)'
  <2>1. t \in rows /\ t \in TaskIds BY <1>2, <1>3, <1>5
  <2>2. InSection(t, walk.section, walk.manager, today)'
    BY <1>1, <1>2, <1>3, <2>1 DEF InSection, Manager
  <2>3. t \in Remaining' BY <1>3, <2>1, <2>2 DEF Remaining
  <2> QED BY <1>3, <2>1, <2>2, <2>3 DEF ReadOnce
<1> QED BY <1>3, <1>4, <1>5 DEF WalkInv

\* A page: what the reader gets is read, what is behind its last row is ahead of the
\* cursor, and nothing else is.
LEMMA NextPageWalk ==
    ASSUME TaskInv, WalkInv, NextPage
    PROVE  WalkInv'
<1> DEFINE page == {t \in Remaining : Rank(t) < PageSize}
           more == Remaining # page
           last == CHOOSE t \in page : Rank(t) = PageSize - 1
<1>1. /\ walk.open /\ UNCHANGED <<task, today, person>>
      /\ walk' = [walk EXCEPT
           !.times = [t \in TaskIds |-> IF t \in page THEN @[t] + 1 ELSE @[t]],
           !.open = more,
           !.cursor = IF more THEN SortKey(last, walk.section, today) ELSE <<>>]
  BY DEF NextPage
<1>2. /\ PageSize \in Nat \ {0}
      /\ \A t \in Remaining : Rank(t) \in Nat
  BY TaskAssumption, RanksFollowTheOrder, RowsAhead, FS_CardinalityType
<1>3. more => last \in page /\ last \in Remaining /\ Rank(last) = PageSize - 1
  <2> SUFFICES ASSUME more PROVE last \in page /\ Rank(last) = PageSize - 1 OBVIOUS
  <2>1. PICK t \in Remaining : ~(Rank(t) < PageSize) OBVIOUS
  <2>2. PICK u \in Remaining : Rank(u) = PageSize - 1 BY <2>1, FullPageHasLast
  <2>3. u \in page BY <1>2, <2>2
  <2> QED BY <2>2, <2>3
<1>4. \A t : t \in page <=> t \in Remaining /\ Rank(t) < PageSize OBVIOUS
<1> HIDE DEF page, last
<1>5. /\ walk'.section = walk.section /\ walk'.manager = walk.manager
      /\ walk'.steady = walk.steady /\ walk'.open = more
      /\ walk'.cursor = IF more THEN PlaceOf(last) ELSE <<>>
      /\ walk'.times = [t \in TaskIds |-> IF t \in page THEN walk.times[t] + 1
                                                         ELSE walk.times[t]]
  BY <1>1 DEF WalkInv, WalkState, PlaceOf
<1>6. walk'.cursor = <<>> \/ walk'.cursor \in WalkKeys(walk.section)
  BY <1>3, <1>5, RowsAhead
<1>7. walk' \in WalkState
  <2> DEFINE times == [t \in TaskIds |-> IF t \in page THEN walk.times[t] + 1
                                                        ELSE walk.times[t]]
             cursor == IF more THEN SortKey(last, walk.section, today) ELSE <<>>
  <2>1. WalkKeys(walk.section) \in SUBSET Cursors /\ <<>> \in Cursors
    BY DEF WalkKeys, Cursors
  <2>2. cursor \in Cursors BY <1>3, <2>1, RowsAhead DEF PlaceOf
  <2>3. walk.times \in [TaskIds -> Nat] BY DEF WalkInv, WalkState
  <2>4. times \in [TaskIds -> Nat] BY <2>3
  <2>5. walk' = [walk EXCEPT !.times = times, !.open = more, !.cursor = cursor]
    BY <1>1, <2>3
  <2>6. more \in BOOLEAN OBVIOUS
  <2> HIDE DEF Cursors, more, times, cursor
  <2> QED BY <2>2, <2>4, <2>5, <2>6 DEF WalkInv, WalkState
<1>8. ASSUME NEW t \in walk.steady PROVE ReadOnce(t)'
  <2>1. /\ t \in TaskIds /\ InSection(t, walk.section, walk.manager, today)
        /\ walk.times[t] = IF t \in Remaining THEN 0 ELSE 1
        /\ task[t] \in Row
    BY <1>1, <1>8 DEF WalkInv, WalkState, ReadOnce, InSection, TaskInv
  <2>2. walk'.times[t] = IF t \in page THEN walk.times[t] + 1 ELSE walk.times[t]
    BY <1>5, <2>1
  <2>3. CASE ~more
    <3>1. walk'.times[t] = 1 BY <2>1, <2>2, <2>3
    <3> QED BY <1>5, <2>3, <3>1 DEF ReadOnce
  <2>4. CASE more
    <3>1. InSection(t, walk.section, walk.manager, today)'
      BY <1>1, <1>5, <2>1 DEF InSection, Manager
    <3>2. PlaceOf(last) \in WalkKeys(walk.section) /\ PlaceOf(last) # <<>>
      <4>1. <<>> \notin WalkKeys(walk.section) BY DEF WalkKeys
      <4> QED BY <1>3, <2>4, <4>1, RowsAhead
    <3>3. t \in Remaining' <=> Before(PlaceOf(last), PlaceOf(t))
      <4>1. SortKey(t, walk.section, today)' = PlaceOf(t)
        BY <1>1, <1>5 DEF SortKey, PlaceOf
      <4> HIDE DEF more
      <4> QED BY <1>5, <2>1, <2>4, <3>1, <3>2, <4>1 DEF Remaining
    <3>4. PlaceOf(t) \in WalkKeys(walk.section) BY <2>1, KeysOfRows DEF PlaceOf
    <3>5. CASE t \in page
      <4>1. t \in Remaining /\ ~(Rank(last) < Rank(t)) BY <1>2, <1>3, <1>4, <2>4, <3>5
      <4>2. ~Before(PlaceOf(last), PlaceOf(t))
        BY <1>3, <2>4, <4>1, RanksFollowTheOrder
      <4>3. walk'.times[t] = 1 BY <2>1, <2>2, <3>5, <4>1
      <4> QED BY <1>5, <2>4, <3>1, <3>3, <4>2, <4>3 DEF ReadOnce
    <3>6. CASE t \in Remaining /\ t \notin page
      <4>1. t # last /\ ~(Rank(t) < Rank(last)) BY <1>2, <1>3, <1>4, <2>4, <3>6
      <4>2. Before(PlaceOf(last), PlaceOf(t))
        BY <1>3, <2>4, <3>6, <4>1, RowsAhead, RanksFollowTheOrder
      <4>3. walk'.times[t] = 0 BY <2>1, <2>2, <3>6
      <4> QED BY <1>5, <2>4, <3>1, <3>3, <4>2, <4>3 DEF ReadOnce
    <3>7. CASE t \notin Remaining
      <4>1. /\ walk.cursor # <<>> /\ ~Before(walk.cursor, PlaceOf(t))
            /\ walk.cursor \in WalkKeys(walk.section)
        BY <2>1, <3>7 DEF Remaining, PlaceOf, WalkInv
      <4>2. Before(walk.cursor, PlaceOf(last))
        BY <1>3, <2>4, <4>1 DEF Remaining, PlaceOf
      <4>3. ~Before(PlaceOf(last), PlaceOf(t))
        BY <3>2, <3>4, <4>1, <4>2, BeforeIsOrder
      <4>4. walk'.times[t] = 1 BY <1>4, <2>1, <2>2, <3>7
      <4> QED BY <1>5, <2>4, <3>1, <3>3, <4>3, <4>4 DEF ReadOnce
    <3> QED BY <1>4, <3>5, <3>6, <3>7
  <2> QED BY <2>3, <2>4
<1>9. WalkKeys(walk.section)' = WalkKeys(walk.section) BY <1>5 DEF WalkKeys
<1> QED BY <1>5, <1>6, <1>7, <1>8, <1>9 DEF WalkInv

LEMMA NextWalkInv ==
    TaskInv /\ WalkInv /\ [TaskNext]_taskVars => WalkInv'
<1> SUFFICES ASSUME TaskInv, WalkInv, [TaskNext]_taskVars PROVE WalkInv' OBVIOUS
<1>1. CASE UNCHANGED <<task, person, today, walk>>
  <2>1. \A t : InSection(t, walk.section, walk.manager, today)
                 => InSection(t, walk.section, walk.manager, today)'
    BY <1>1 DEF InSection, Manager
  <2>2. \A t : SortKey(t, walk.section, today)' = SortKey(t, walk.section, today)
    BY <1>1 DEF SortKey
  <2>3. ASSUME NEW t \in walk.steady PROVE ReadOnce(t)'
    <3>1. t \in TaskIds /\ ReadOnce(t) BY DEF WalkInv, WalkState
    <3> QED BY <1>1, <2>1, <2>2, <3>1, StaysRead
  <2>4. WalkKeys(walk.section)' = WalkKeys(walk.section) BY <1>1 DEF WalkKeys
  <2>5. (walk \in WalkState)' BY <1>1 DEF WalkInv, WalkState
  <2> QED BY <1>1, <2>3, <2>4, <2>5 DEF WalkInv
<1>2. ASSUME NEW p \in Staff, NEW t \in TaskIds, NEW assignee \in Office,
             NEW new \in NewTasks, CreateTask(p, t, assignee, new)
      PROVE  WalkInv'
  <2>1. /\ Written(t) /\ UNCHANGED <<today, person>> /\ \A u \in TaskIds \ {t} : task'[u] = task[u]
    BY <1>2 DEF CreateTask, TaskInv
  <2> QED BY <2>1, WrittenWalk
<1>3. ASSUME NEW e \in TaskEdits, UpdateTask(e) PROVE WalkInv'
  <2>1. Written(patching[e].id) /\ UNCHANGED <<today, person>> BY <1>3 DEF UpdateTask
  <2> QED BY <1>3, <2>1, UpdateTaskInv, WrittenWalk
<1>4. CASE \/ \E e \in TaskEdits, p \in Staff, t \in TaskIds : LoadTask(e, p, t)
           \/ \E e \in TaskEdits : RefuseEdit(e)
           \/ \E e \in TaskEdits, p \in Staff, l \in Lists : OpenList(e, p, l)
           \/ \E e \in TaskEdits, owner \in Staff : GiveList(e, owner)
           \/ \E l \in Lists, owner \in Staff : CreateList(l, owner)
  BY <1>1, <1>4 DEF LoadTask, RefuseEdit, OpenList, CreateList, GiveList
<1>5. CASE UNCHANGED taskVars BY <1>1, <1>5 DEF taskVars
<1> QED
  BY <1>2, <1>3, <1>4, <1>5, MidnightWalk, StartWalkWalk, NextPageWalk, SetUserActiveWalk,
     DeleteUserWalk DEF TaskNext

LEMMA InitWalkInv == TaskInit => WalkInv
<1> SUFFICES ASSUME TaskInit PROVE WalkInv OBVIOUS
<1>1. walk = [section |-> "none", manager |-> NoPerson, cursor |-> <<>>, open |-> FALSE,
              times |-> [t \in TaskIds |-> 0], steady |-> {}]
  BY DEF TaskInit, NoWalk
<1>2. <<>> \in Cursors BY DEF Cursors
<1>3. [t \in TaskIds |-> 0] \in [TaskIds -> Nat] OBVIOUS
<1>4. walk \in WalkState BY <1>1, <1>2, <1>3 DEF WalkState
<1> QED BY <1>1, <1>4 DEF WalkInv

\* Pages that are cut by a cursor neither lose a task nor show it twice, whatever is
\* written between them (dashboard_tasks.go:189).
THEOREM DashboardListsEverything == TaskSpec => []PagesListEverything
<1>1. WalkInv => PagesListEverything BY DEF WalkInv, ReadOnce, PagesListEverything
<1> QED BY InitTaskInv, NextTaskInv, InitWalkInv, NextWalkInv, <1>1, PTL DEF TaskSpec

=============================================================================
