--------------------------- MODULE CalendarProofs ---------------------------
(***************************************************************************)
(* Proofs about Calendar, for any number of concurrent requests.  The      *)
(* argument is the one of two-phase locking: what a transaction read is    *)
(* still true while it holds the lock it read under (Sound), because a     *)
(* step of another request writes only what that one has locked (Frame).   *)
(* That the bookings of a key are an instance of Once rests on one fact    *)
(* more, which is about the data only: what a key remembers is a booking   *)
(* with that key.  So the visits of a key are the one it remembers, and    *)
(* they change where the row that remembers them does.                     *)
(***************************************************************************)
EXTENDS Calendar, TLAPS

\* Operations that claim an idempotency key, and the steps after the claim.
Keyed(t) == Is(t, {"book", "invite", "close"})
Claimed == {"lead", "visit", "active", "manager", "probe", "apply"}

\* What a request at each step asks for and has not done yet.
Shape(t) ==
    /\ pc[t] # "done" => visits[t] = NoVisit /\ reply[t] = None
    /\ pc[t] = "new" => target[t] = None
    /\ pc[t] # "new" => ask[t] \in Operations
    /\ pc[t] = "key" => Keyed(t)
    /\ pc[t] = "active" => Is(t, {"book"})
    /\ pc[t] \in {"manager", "probe"} => Is(t, {"book", "edit"})
    /\ pc[t] = "lead" => ~Is(t, {"erase"})
    /\ pc[t] = "visit" => ~Is(t, {"book"})
    /\ pc[t] # "new" /\ Keyed(t) => key[t] \in Keys
    /\ pc[t] # "new" /\ Is(t, {"book"}) => target[t] = None
    /\ pc[t] # "new" /\ Is(t, {"edit", "erase"})
         => target[t] \in Requests /\ visits[target[t]] # NoVisit

\* Nobody holds a lock before the first statement or after the end.
Unlocked(t) == pc[t] \in {"new", "done"} => \A r \in Resources : holder[r] # t

\* The key is claimed until the end, so nobody else answers it.
KeyHeld(t) ==
    pc[t] \in Claimed /\ Keyed(t)
        => holder[<<"key", KeyOf(t)>>] = t /\ keys[KeyOf(t)] = None

\* Whoever schedules for a lead or closes it holds its row, and it is open.
LeadHeld(t) ==
    \/ pc[t] \in {"active", "manager", "probe", "apply"} /\ Is(t, {"book"})
    \/ pc[t] \in {"visit", "apply"} /\ Is(t, {"invite", "close"})
    => holder[<<"lead", ask[t].lead>>] = t /\ ask[t].lead \notin closed

\* An edit holds its visit, which stays the version its author saw.
EditHeld(t) ==
    /\ pc[t] \in {"lead", "manager", "probe", "apply"} /\ Is(t, {"edit", "erase"})
         => holder[<<"visit", target[t]>>] = t
    /\ pc[t] \in {"manager", "probe", "apply"} /\ Is(t, {"edit"}) => EditGuard(t)
    /\ pc[t] \in {"manager", "probe"} /\ Is(t, {"edit"})
         => Checks(ask[t], visits[target[t]])

Mine(t, v) == /\ Scheduled(v) /\ visits[v].lead = ask[t].lead
              /\ Is(t, {"invite"}) => visits[v].kind = "showroom"

\* An invitation or a closing holds every visit it is going to move or cancel.
Swept(t) ==
    /\ pc[t] \notin {"new", "apply"} /\ Is(t, {"invite"})
         => \A v \in Requests : holder[<<"visit", v>>] # t
    /\ pc[t] = "apply" /\ Is(t, {"invite", "close"})
         => \A v \in Requests : Mine(t, v) => holder[<<"visit", v>>] = t
    /\ pc[t] = "apply" /\ Is(t, {"invite"})
         => \A v \in Requests : holder[<<"visit", v>>] = t => Mine(t, v)

\* The slots that go through the availability check.
Vetted(t) == \/ Is(t, {"book"})
             \/ Is(t, {"edit"}) /\ Checks(ask[t], visits[target[t]])

Rival(t, v) == /\ Scheduled(v) /\ visits[v].checked
               /\ visits[v].mgr = ask[t].mgr /\ Overlaps(visits[v], ask[t])

\* From the check to the commit the manager's lock keeps the slot free of other
\* checked visits.
SlotHeld(t) ==
    /\ pc[t] = "probe" \/ (pc[t] = "apply" /\ Vetted(t))
         => holder[<<"manager", ask[t].mgr>>] = t
    /\ pc[t] = "apply" /\ Vetted(t)
         => \A v \in Requests : v # target[t] => ~Rival(t, v)

\* From its check on a booking is the only one of its kind.
NoneActive(t) ==
    pc[t] \in {"manager", "probe", "apply"} /\ Is(t, {"book"}) /\ ask[t].kind # "office_work"
        => \A v \in Requests : ~(/\ Scheduled(v) /\ visits[v].lead = ask[t].lead
                                 /\ visits[v].kind = ask[t].kind)

\* What a booking inserted or answered is what its key remembers.
Answered(t) ==
    pc[t] = "done" /\ Is(t, {"book"})
        => /\ visits[t] # NoVisit => keys[KeyOf(t)] # None /\ keys[KeyOf(t)].made = t
           /\ reply[t] # None => keys[KeyOf(t)] # None /\ keys[KeyOf(t)].made = reply[t]

Sound(t) ==
    /\ Shape(t) /\ Unlocked(t) /\ KeyHeld(t) /\ LeadHeld(t) /\ EditHeld(t) /\ Swept(t)
    /\ SlotHeld(t) /\ NoneActive(t) /\ Answered(t)

\* Only rows that exist are locked.
LocksExist == \A v \in Requests : holder[<<"visit", v>>] # None => visits[v] # NoVisit

IInv == /\ TypeOK /\ LocksExist
        /\ \A t \in Requests : Sound(t)
        /\ CheckedNeverClash /\ OneVisitPerKind /\ ClosedHasNoVisits

----------------------------------------------------------------------------
(* What a step of t leaves to the others *)

\* The only visit t may insert as scheduled: its lead is locked and open, and no
\* other visit of the kind is scheduled.
Inserted(t, v) ==
    /\ v = t /\ visits[t] = NoVisit
    /\ holder[<<"lead", visits'[t].lead>>] = t
    /\ visits'[t].lead \notin closed
    /\ \A w \in Requests : Scheduled(w) /\ visits[w].lead = visits'[t].lead
          => visits[w].kind # visits'[t].kind \/ visits[w].kind = "office_work"

\* The only visit t may put into a slot it checked.
Moved(t, v) ==
    /\ pc[t] = "apply" /\ Vetted(t)
    /\ v = IF Is(t, {"edit"}) THEN target[t] ELSE t
    /\ v # t => target[t] = v
    /\ Is(t, {"book"}) => target[t] = None
    /\ visits'[v].mgr = ask[t].mgr
    /\ visits'[v].start = ask[t].start /\ visits'[v].len = ask[t].len

SameOthers(t) ==
    \A u \in Requests \ {t} :
        /\ pc'[u] = pc[u] /\ ask'[u] = ask[u] /\ key'[u] = key[u]
        /\ target'[u] = target[u] /\ base'[u] = base[u]
        /\ reply'[u] = reply[u] /\ answer'[u] = answer[u]
        /\ \A r \in Resources : holder'[r] = u <=> holder[r] = u

LocksOfOwn(t) ==
    \A v \in Requests : holder'[<<"visit", v>>] = t => visits'[v] # NoVisit

WritesLocked(t) ==
    \A v \in Requests :
        /\ \/ visits'[v] = visits[v]
           \/ holder[<<"visit", v>>] = t
           \/ v = t /\ visits[v] = NoVisit
        /\ visits[v] # NoVisit => visits'[v] # NoVisit

SchedulesLocked(t) ==
    \A v \in Requests : visits'[v].status = "scheduled" =>
        \/ /\ Scheduled(v) /\ visits'[v].lead = visits[v].lead
           /\ visits'[v].kind = visits[v].kind
        \/ Inserted(t, v)

ChecksLocked(t) ==
    \A v \in Requests : visits'[v].status = "scheduled" /\ visits'[v].checked =>
        \/ /\ Scheduled(v) /\ visits[v].checked /\ visits'[v].mgr = visits[v].mgr
           /\ visits'[v].start = visits[v].start /\ visits'[v].len = visits[v].len
        \/ Moved(t, v)

ClosesLocked(t) ==
    \/ closed' = closed
    \/ \E l \in Leads :
          /\ closed' = closed \cup {l} /\ holder[<<"lead", l>>] = t
          /\ \A v \in Requests : visits'[v].status = "scheduled" =>
                Scheduled(v) /\ visits'[v].lead = visits[v].lead /\ visits[v].lead # l

KeysLocked(t) ==
    \A k \in KeyIds : \/ keys'[k] = keys[k]
                      \/ holder[<<"key", k>>] = t /\ keys[k] = None

Frame(t) ==
    /\ SameOthers(t) /\ LocksOfOwn(t) /\ WritesLocked(t) /\ SchedulesLocked(t)
    /\ ChecksLocked(t) /\ ClosesLocked(t) /\ KeysLocked(t)

----------------------------------------------------------------------------
(* Facts about locks and types *)

\* The names of the locks, and that no request is None.
LEMMA Names ==
    /\ \A v \in Requests : <<"visit", v>> \in Resources /\ v # None
    /\ \A l \in Leads : <<"lead", l>> \in Resources
    /\ \A m \in Managers : <<"manager", m>> \in Resources
    /\ \A k \in KeyIds : <<"key", k>> \in Resources
BY NoneAssumption DEF Resources

\* A visit is not the absence of one.
LEMMA VisitExists == \A v \in Visit : v # NoVisit /\ v.status # "none"
<1>1. \A v \in Visit : v.status # "none"
  BY DEF Visit
<1> QED
  BY <1>1 DEF NoVisit

\* Taking locks gives them to t, and moves no lock of anybody else.
LEMMA LockFacts ==
    ASSUME TypeOK, NEW t \in Requests, NEW S \in SUBSET Resources, Lock(t, S)
    PROVE  /\ holder' \in [Resources -> Requests \cup {None}]
           /\ \A r \in Resources : holder'[r] = t <=> r \in S \/ holder[r] = t
           /\ \A u \in Requests \ {t}, r \in Resources : holder'[r] = u <=> holder[r] = u
BY NoneAssumption DEF TypeOK, Lock, Free

\* The end of a transaction frees its locks and no lock of anybody else.
LEMMA FinishFacts ==
    ASSUME TypeOK, NEW t \in Requests, NEW how, Finish(t, how)
    PROVE  /\ holder' \in [Resources -> Requests \cup {None}]
           /\ \A r \in Resources : holder'[r] # t
           /\ \A u \in Requests \ {t}, r \in Resources : holder'[r] = u <=> holder[r] = u
           /\ pc' = [pc EXCEPT ![t] = "done"]
           /\ answer' = [answer EXCEPT ![t] = how]
           /\ UNCHANGED request
BY NoneAssumption DEF TypeOK, Finish, Goto

----------------------------------------------------------------------------
(* A step of t leaves what the others rely on *)

LEMMA FrameSound ==
    ASSUME IInv, NEW t \in Requests, Frame(t), NEW u \in Requests, u # t
    PROVE  Sound(u)'
<1> USE Names
<1>0. /\ Sound(u) /\ TypeOK /\ LocksExist
      /\ pc'[u] = pc[u] /\ ask'[u] = ask[u] /\ key'[u] = key[u]
      /\ target'[u] = target[u] /\ base'[u] = base[u] /\ reply'[u] = reply[u]
      /\ \A r \in Resources : holder'[r] = u <=> holder[r] = u
  BY DEF IInv, Frame, SameOthers
<1>1. ASSUME NEW v \in Requests, holder[<<"visit", v>>] = u
      PROVE  visits[v] # NoVisit /\ visits'[v] = visits[v]
  BY <1>0, <1>1 DEF Frame, WritesLocked, LocksExist
<1>2. visits[u] = NoVisit <=> visits'[u] = NoVisit
  BY <1>0 DEF Frame, WritesLocked, LocksExist
<1>3. Shape(u)'
  BY <1>0, <1>2 DEF Sound, Shape, Keyed, Is, Frame, WritesLocked
<1>4. Unlocked(u)'
  BY <1>0 DEF Sound, Unlocked
<1>5. KeyHeld(u)'
  <2> SUFFICES ASSUME (pc[u] \in Claimed /\ Keyed(u))'
               PROVE  (holder[<<"key", KeyOf(u)>>] = u /\ keys[KeyOf(u)] = None)'
    BY DEF KeyHeld
  <2>1. pc[u] \in Claimed /\ Keyed(u) /\ KeyOf(u)' = KeyOf(u)
    BY <1>0 DEF Keyed, Is, KeyOf
  <2>2. KeyOf(u) \in KeyIds
    BY <2>1, <1>0 DEF Sound, Shape, Claimed, KeyOf, KeyIds
  <2>3. holder[<<"key", KeyOf(u)>>] = u /\ keys[KeyOf(u)] = None
    BY <2>1, <1>0 DEF Sound, KeyHeld
  <2> QED
    BY <2>1, <2>2, <2>3, <1>0 DEF Frame, KeysLocked
<1>6. LeadHeld(u)'
  <2> SUFFICES ASSUME (\/ pc[u] \in {"active", "manager", "probe", "apply"} /\ Is(u, {"book"})
                       \/ pc[u] \in {"visit", "apply"} /\ Is(u, {"invite", "close"}))'
               PROVE  (holder[<<"lead", ask[u].lead>>] = u /\ ask[u].lead \notin closed)'
    BY DEF LeadHeld
  <2>1. holder[<<"lead", ask[u].lead>>] = u /\ ask[u].lead \notin closed
    BY <1>0 DEF Sound, LeadHeld, Is
  <2>2. ask[u].lead \in Leads
    BY <1>0, OperationsAssumption DEF Sound, Shape, Operation
  <2> QED
    BY <2>1, <2>2, <1>0 DEF Frame, ClosesLocked
<1>7. EditHeld(u)'
  BY <1>0, <1>1 DEF Sound, Shape, EditHeld, EditGuard, Is, Checks, Scheduled
<1>8. Swept(u)'
  <2>1. ASSUME pc[u] = "apply", Is(u, {"invite", "close"}), NEW v \in Requests, Mine(u, v)'
        PROVE  Mine(u, v)
    <3>1. ask[u].lead \in Leads /\ holder[<<"lead", ask[u].lead>>] = u
      BY <1>0, <2>1, OperationsAssumption DEF Sound, Shape, Operation, LeadHeld
    <3>2. visits'[v].status = "scheduled" /\ visits'[v].lead = ask[u].lead
      BY <1>0, <2>1 DEF Mine, Scheduled
    <3>3. ~Inserted(t, v)
      BY <3>1, <3>2 DEF Inserted
    <3> QED
      BY <1>0, <2>1, <3>2, <3>3 DEF Mine, Scheduled, Is, Frame, SchedulesLocked
  <2>2. ASSUME NEW v \in Requests, holder[<<"visit", v>>] = u, Mine(u, v)
        PROVE  Mine(u, v)'
    BY <1>0, <1>1, <2>2 DEF Mine, Scheduled, Is
  <2> QED
    BY <1>0, <2>1, <2>2 DEF Sound, Swept, Is
<1>9. SlotHeld(u)'
  <2> SUFFICES ASSUME pc[u] = "probe" \/ pc[u] = "apply"
               PROVE  SlotHeld(u)'
    BY <1>0 DEF SlotHeld
  <2>1. ask[u].mgr \in Managers
    BY <1>0, OperationsAssumption DEF Sound, Shape, Operation
  <2>2. Vetted(u)' <=> Vetted(u)
    BY <1>0, <1>1 DEF Sound, Shape, EditHeld, Vetted, Is, Checks
  <2>3. ASSUME Vetted(u), pc[u] = "apply", NEW v \in Requests, Rival(u, v)'
        PROVE  Rival(u, v)
    <3>1. holder[<<"manager", ask[u].mgr>>] = u
      BY <1>0, <2>3 DEF Sound, SlotHeld
    <3>2. /\ visits'[v].status = "scheduled" /\ visits'[v].checked
          /\ visits'[v].mgr = ask[u].mgr
      BY <1>0, <2>3 DEF Rival, Scheduled
    <3>3. ~Moved(t, v)
      <4> SUFFICES ASSUME Moved(t, v) PROVE FALSE
        OBVIOUS
      <4>1. holder[<<"manager", ask[t].mgr>>] = t
        BY DEF IInv, Sound, SlotHeld, Moved
      <4> QED
        BY <3>1, <3>2, <4>1 DEF Moved
    <3> QED
      BY <1>0, <2>3, <3>2, <3>3 DEF Rival, Scheduled, Overlaps, Frame, ChecksLocked
  <2> QED
    BY <1>0, <2>1, <2>2, <2>3 DEF Sound, SlotHeld
<1>10. NoneActive(u)'
  <2> SUFFICES ASSUME pc[u] \in {"manager", "probe", "apply"}, Is(u, {"book"}),
                      ask[u].kind # "office_work", NEW v \in Requests,
                      visits'[v].status = "scheduled", visits'[v].lead = ask[u].lead,
                      visits'[v].kind = ask[u].kind
               PROVE  FALSE
    BY <1>0 DEF NoneActive, Is, Scheduled
  <2>1. holder[<<"lead", ask[u].lead>>] = u
    BY <1>0 DEF Sound, LeadHeld
  <2>2. ~Inserted(t, v)
    BY <2>1 DEF Inserted
  <2> QED
    BY <1>0, <2>2 DEF Sound, NoneActive, Frame, SchedulesLocked
<1>11. Answered(u)'
  <2> SUFFICES ASSUME pc[u] = "done", Is(u, {"book"})
               PROVE  Answered(u)'
    BY <1>0 DEF Answered, Is
  <2>1. KeyOf(u) \in KeyIds /\ KeyOf(u)' = KeyOf(u)
    BY <1>0 DEF Sound, Shape, KeyOf, KeyIds, Is, Keyed
  <2>2. keys[KeyOf(u)] # None => keys'[KeyOf(u)] = keys[KeyOf(u)]
    BY <2>1 DEF Frame, KeysLocked
  <2> QED
    BY <1>0, <1>2, <2>1, <2>2 DEF Sound, Answered
<1> QED
  BY <1>3, <1>4, <1>5, <1>6, <1>7, <1>8, <1>9, <1>10, <1>11 DEF Sound

LEMMA FrameInvariants ==
    ASSUME IInv, NEW t \in Requests, Frame(t), TypeOK'
    PROVE  LocksExist' /\ CheckedNeverClash' /\ OneVisitPerKind' /\ ClosedHasNoVisits'
<1> USE Names
<1>0. TypeOK /\ Sound(t)
  BY DEF IInv
<1>1. LocksExist'
  <2> SUFFICES ASSUME NEW v \in Requests, holder'[<<"visit", v>>] # None
               PROVE  visits'[v] # NoVisit
    BY DEF LocksExist
  <2>1. PICK u \in Requests : holder'[<<"visit", v>>] = u
    BY DEF TypeOK
  <2>2. CASE u = t
    BY <2>1, <2>2 DEF Frame, LocksOfOwn
  <2>3. CASE u # t
    BY <2>1, <2>3 DEF Frame, SameOthers, WritesLocked, IInv, LocksExist
  <2> QED
    BY <2>2, <2>3
<1>2. CheckedNeverClash'
  <2>1. SUFFICES ASSUME NEW v \in Requests, NEW w \in Requests, v # w,
                        visits'[v].status = "scheduled", visits'[w].status = "scheduled",
                        visits'[v].checked, visits'[w].checked,
                        visits'[v].mgr = visits'[w].mgr, Overlaps(visits[v], visits[w])'
                 PROVE  FALSE
    BY DEF CheckedNeverClash, Clash, Scheduled
  <2> DEFINE Kept(x) == /\ Scheduled(x) /\ visits[x].checked
                        /\ visits'[x].mgr = visits[x].mgr
                        /\ visits'[x].start = visits[x].start
                        /\ visits'[x].len = visits[x].len
  <2>2. \A x \in {v, w} : Kept(x) \/ Moved(t, x)
    BY <2>1 DEF Frame, ChecksLocked
  <2>3. ~(Kept(v) /\ Kept(w))
    BY <2>1 DEF IInv, CheckedNeverClash, Clash, Overlaps
  <2>4. ~(Moved(t, v) /\ Moved(t, w))
    BY <2>1 DEF Moved
  <2>5. ASSUME NEW x \in {v, w}, NEW y \in {v, w}, x # y, Moved(t, x), Kept(y)
        PROVE  FALSE
    <3>1. y # target[t]
      BY <2>5, Names DEF Moved, Vetted
    <3>2. ~Rival(t, y)
      BY <1>0, <2>5, <3>1 DEF Sound, SlotHeld, Moved
    <3>3. /\ visits'[x].mgr = visits'[y].mgr
          /\ visits'[x].start < visits'[y].start + visits'[y].len
          /\ visits'[x].start + visits'[x].len > visits'[y].start
      <4>1. /\ visits'[v].start \in Nat /\ visits'[v].len \in Nat
            /\ visits'[w].start \in Nat /\ visits'[w].len \in Nat
        BY <2>1 DEF TypeOK, Visit, NoVisit
      <4> QED
        BY <2>1, <2>5, <4>1 DEF Overlaps
    <3>4. /\ ask[t].start \in Nat /\ ask[t].len \in Nat
          /\ visits'[y].start \in Nat /\ visits'[y].len \in Nat
      <4>1. ask[t] \in Operation
        BY <1>0, <2>5, OperationsAssumption DEF Sound, Shape, Moved
      <4>2. visits'[y] \in Visit
        BY <2>1, <2>5 DEF TypeOK, NoVisit
      <4> QED
        BY <4>1, <4>2 DEF Operation, Visit
    <3>5. Rival(t, y)
      BY <2>5, <3>3, <3>4 DEF Moved, Rival, Overlaps
    <3> QED
      BY <3>2, <3>5
  <2> QED
    BY <2>1, <2>2, <2>3, <2>4, <2>5
<1>3. OneVisitPerKind'
  <2>1. SUFFICES ASSUME NEW v \in Requests, NEW w \in Requests, v # w,
                        visits'[v].status = "scheduled", visits'[w].status = "scheduled",
                        visits'[v].lead = visits'[w].lead
                 PROVE  visits'[v].kind # visits'[w].kind \/ visits'[v].kind = "office_work"
    BY DEF OneVisitPerKind, Scheduled
  <2>2. ~(Inserted(t, v) /\ Inserted(t, w))
    BY <2>1 DEF Inserted
  <2> QED
    BY <2>1, <2>2 DEF Frame, SchedulesLocked, Inserted, IInv, OneVisitPerKind
<1>4. ClosedHasNoVisits'
  <2>1. SUFFICES ASSUME NEW v \in Requests, visits'[v].status = "scheduled",
                        visits'[v].lead \in closed'
                 PROVE  FALSE
    BY DEF ClosedHasNoVisits, Scheduled
  <2> QED
    BY <2>1 DEF Frame, ClosesLocked, SchedulesLocked, Inserted, IInv, ClosedHasNoVisits
<1> QED
  BY <1>1, <1>2, <1>3, <1>4

----------------------------------------------------------------------------
(* What each step of t does to itself, and that it keeps the frame *)

Kept(t) == TypeOK' /\ Frame(t) /\ Sound(t)'

\* A step that writes no data keeps the frame.
LEMMA FrameOfStill ==
    ASSUME NEW t \in Requests, UNCHANGED data, SameOthers(t), LocksOfOwn(t)
    PROVE  Frame(t)
BY DEF Frame, WritesLocked, SchedulesLocked, ChecksLocked, ClosesLocked, KeysLocked,
       data, Scheduled

\* A request that ends without a write.
LEMMA RefuseKept ==
    ASSUME IInv, NEW t \in Requests, pc[t] # "new", pc[t] # "done",
           NEW how \in {"refused", "busy", "conflict", "error"}, Refuse(t, how)
    PROVE  Kept(t)
<1> USE Names
<1>0. TypeOK /\ Sound(t) /\ UNCHANGED data /\ UNCHANGED reply
  BY DEF IInv, Refuse
<1>1. /\ holder' \in [Resources -> Requests \cup {None}]
      /\ \A r \in Resources : holder'[r] # t
      /\ \A u \in Requests \ {t}, r \in Resources : holder'[r] = u <=> holder[r] = u
      /\ pc' = [pc EXCEPT ![t] = "done"]
      /\ answer' = [answer EXCEPT ![t] = how]
      /\ UNCHANGED request
  BY <1>0, FinishFacts DEF Refuse
<1>2. TypeOK'
  BY <1>0, <1>1 DEF TypeOK, data, request
<1>3. Frame(t)
  <2>1. SameOthers(t) /\ LocksOfOwn(t)
    BY <1>0, <1>1 DEF SameOthers, LocksOfOwn, TypeOK, request
  <2> QED
    BY <2>1, <1>0, FrameOfStill
<1>4. pc'[t] = "done" /\ ask'[t] = ask[t] /\ key'[t] = key[t] /\ target'[t] = target[t]
  BY <1>0, <1>1 DEF TypeOK, request
<1>5. visits'[t] = NoVisit /\ reply'[t] = None /\ visits' = visits
  BY <1>0 DEF Sound, Shape, data
<1>6. Sound(t)'
  BY <1>0, <1>1, <1>4, <1>5
     DEF Sound, Shape, Unlocked, KeyHeld, LeadHeld, EditHeld, Swept, SlotHeld, NoneActive,
         Answered, Claimed, Is, Keyed
<1> QED
  BY <1>2, <1>3, <1>6 DEF Kept

\* The locks a step may take on its way.
Takes(t) ==
    \/ UNCHANGED holder
    \/ \E S \in SUBSET Resources :
          Lock(t, S) /\ \A v \in Requests : <<"visit", v>> \in S => visits[v] # NoVisit

LEMMA ProceedFacts ==
    ASSUME IInv, NEW t \in Requests,
           NEW step \in {"lead", "visit", "active", "manager", "probe", "apply"},
           Proceed(t, step), Takes(t)
    PROVE  /\ TypeOK' /\ Frame(t)
           /\ pc'[t] = step /\ UNCHANGED <<data, request, answer, reply>>
           /\ \A r \in Resources : holder[r] = t => holder'[r] = t
<1> USE Names
<1>0. TypeOK /\ LocksExist /\ UNCHANGED <<data, request, answer, reply>>
      /\ pc' = [pc EXCEPT ![t] = step]
  BY DEF IInv, Proceed, Goto
<1>1. /\ holder' \in [Resources -> Requests \cup {None}]
      /\ \A r \in Resources : holder[r] = t => holder'[r] = t
      /\ \A u \in Requests \ {t}, r \in Resources : holder'[r] = u <=> holder[r] = u
      /\ \A v \in Requests : holder'[<<"visit", v>>] = t => visits[v] # NoVisit
  <2>1. CASE UNCHANGED holder
    BY <1>0, <2>1 DEF TypeOK, LocksExist
  <2>2. CASE ~UNCHANGED holder
    <3>1. PICK S \in SUBSET Resources :
            Lock(t, S) /\ \A v \in Requests : <<"visit", v>> \in S => visits[v] # NoVisit
      BY <2>2 DEF Takes
    <3>2. /\ holder' \in [Resources -> Requests \cup {None}]
          /\ \A r \in Resources : holder'[r] = t <=> r \in S \/ holder[r] = t
          /\ \A u \in Requests \ {t}, r \in Resources : holder'[r] = u <=> holder[r] = u
      BY <1>0, <3>1, LockFacts
    <3> QED
      BY <1>0, <3>1, <3>2 DEF LocksExist
  <2> QED
    BY <2>1, <2>2
<1>2. TypeOK'
  BY <1>0, <1>1 DEF TypeOK, data, request
<1>3. SameOthers(t) /\ LocksOfOwn(t)
  BY <1>0, <1>1 DEF SameOthers, LocksOfOwn, TypeOK, data, request
<1>4. Frame(t)
  BY <1>0, <1>3, FrameOfStill
<1> QED
  BY <1>0, <1>1, <1>2, <1>4 DEF TypeOK

LEMMA ArriveKept ==
    ASSUME IInv, NEW t \in Requests, NEW o \in Operations, Arrive(t, o)
    PROVE  Kept(t)
<1> USE Names
<1>0. TypeOK /\ Sound(t) /\ pc[t] = "new" /\ UNCHANGED <<data, holder, answer, reply>>
      /\ ask' = [ask EXCEPT ![t] = o] /\ LocksExist
  BY DEF IInv, Arrive
<1>1. /\ pc' = [pc EXCEPT ![t] = pc'[t]] /\ pc'[t] \in {"key", "visit"}
      /\ key' = [key EXCEPT ![t] = key'[t]] /\ key'[t] \in Keys \cup {None}
      /\ target' = [target EXCEPT ![t] = target'[t]] /\ target'[t] \in Requests \cup {None}
      /\ base' = [base EXCEPT ![t] = base'[t]] /\ base'[t] \in Nat
      /\ o.op \in {"book", "invite", "close"} =>
            pc'[t] = "key" /\ key'[t] \in Keys /\ target'[t] = None
      /\ o.op \in {"edit", "erase"} =>
            pc'[t] = "visit" /\ target'[t] \in Requests /\ visits[target'[t]] # NoVisit
      /\ o.op = "archive" => pc'[t] = "visit"
  <2>0. \A v \in Requests : visits[v].status \notin {"none", "erased"} =>
            visits[v] # NoVisit /\ visits[v].version \in Nat
    BY <1>0 DEF TypeOK, Visit, NoVisit
  <2>1. CASE o.op \in {"book", "invite", "close"}
    <3>1. PICK k \in Keys : key' = [key EXCEPT ![t] = k]
      BY <2>1 DEF Arrive
    <3> QED
      BY <1>0, <2>1, <3>1 DEF Arrive, TypeOK, Goto, Sound, Shape
  <2>2. CASE o.op \in {"edit", "erase"}
    <3>1. PICK v \in Requests : /\ visits[v].status \notin {"none", "erased"}
                                /\ target' = [target EXCEPT ![t] = v]
                                /\ base' = [base EXCEPT ![t] = visits[v].version]
      BY <2>2 DEF Arrive
    <3> QED
      BY <1>0, <2>0, <2>2, <3>1 DEF Arrive, TypeOK, Goto
  <2>3. CASE o.op = "archive"
    BY <1>0, <2>3 DEF Arrive, TypeOK, Goto
  <2> QED
    BY <2>1, <2>2, <2>3 DEF Arrive
<1>2. TypeOK'
  BY <1>0, <1>1 DEF TypeOK, data
<1>3. Frame(t)
  <2>1. SameOthers(t) /\ LocksOfOwn(t)
    BY <1>0, <1>1 DEF SameOthers, LocksOfOwn, TypeOK, data, LocksExist
  <2> QED
    BY <2>1, <1>0, FrameOfStill
<1>4. ask'[t] = o /\ visits' = visits /\ visits[t] = NoVisit /\ reply'[t] = None
  BY <1>0 DEF TypeOK, data, Sound, Shape
<1>5. \A r \in Resources : holder'[r] # t
  BY <1>0 DEF Sound, Unlocked
<1>6. o.op \in Ops
  BY OperationsAssumption DEF Operation
<1>7. Sound(t)'
  BY <1>0, <1>1, <1>4, <1>5, <1>6
     DEF Sound, Shape, Unlocked, KeyHeld, LeadHeld, EditHeld, Swept, SlotHeld, NoneActive,
         Answered, Claimed, Is, Keyed, Ops
<1> QED
  BY <1>2, <1>3, <1>7 DEF Kept

\* The key of a request that sent one.
LEMMA KeyOfFact ==
    ASSUME NEW t \in Requests, key[t] \in Keys
    PROVE  KeyOf(t) \in KeyIds
BY DEF KeyOf, KeyIds

LEMMA ClaimKeyKept ==
    ASSUME IInv, NEW t \in Requests, ClaimKey(t)
    PROVE  Kept(t)
<1> USE Names
<1>0. /\ TypeOK /\ Sound(t) /\ pc[t] = "key" /\ Keyed(t) /\ KeyOf(t) \in KeyIds
      /\ ask[t] \in Operations
  BY KeyOfFact DEF IInv, ClaimKey, Sound, Shape
<1>1. CASE keys[KeyOf(t)] = None
  <2>1. Lock(t, {<<"key", KeyOf(t)>>}) /\ Proceed(t, "lead")
    BY <1>1 DEF ClaimKey
  <2>2. {<<"key", KeyOf(t)>>} \in SUBSET Resources
    BY <1>0
  <2>3. Takes(t)
    BY <2>1, <2>2 DEF Takes
  <2>4. TypeOK' /\ Frame(t) /\ pc'[t] = "lead" /\ UNCHANGED <<data, request, answer, reply>>
    BY <2>1, <2>3, ProceedFacts
  <2>5. \A r \in Resources : holder'[r] = t <=> r = <<"key", KeyOf(t)>> \/ holder[r] = t
    BY <1>0, <2>1, <2>2, LockFacts
  <2>6. Sound(t)'
    BY <1>0, <1>1, <2>4, <2>5
       DEF Sound, Shape, Unlocked, KeyHeld, LeadHeld, EditHeld, Swept, SlotHeld,
           NoneActive, Answered, Claimed, Is, Keyed, data, request, KeyOf
  <2> QED
    BY <2>4, <2>6 DEF Kept
<1>2. CASE keys[KeyOf(t)] # None /\ keys[KeyOf(t)].body = ask[t]
  <2>0. /\ Finish(t, "ok") /\ UNCHANGED data
        /\ reply' = [reply EXCEPT ![t] = keys[KeyOf(t)].made]
    BY <1>2 DEF ClaimKey
  <2>1. /\ holder' \in [Resources -> Requests \cup {None}]
        /\ \A r \in Resources : holder'[r] # t
        /\ \A u \in Requests \ {t}, r \in Resources : holder'[r] = u <=> holder[r] = u
        /\ pc' = [pc EXCEPT ![t] = "done"]
        /\ answer' = [answer EXCEPT ![t] = "ok"]
        /\ UNCHANGED request
    BY <1>0, <2>0, FinishFacts
  <2>2. TypeOK'
    <3>1. keys[KeyOf(t)].made \in Requests \cup {None}
      BY <1>0, <1>2 DEF TypeOK
    <3> QED
      BY <1>0, <2>0, <2>1, <3>1 DEF TypeOK, data, request
  <2>3. SameOthers(t) /\ LocksOfOwn(t)
    BY <1>0, <2>0, <2>1 DEF SameOthers, LocksOfOwn, TypeOK, request
  <2>4. Frame(t)
    BY <2>0, <2>3, FrameOfStill
  <2>5. /\ pc'[t] = "done" /\ UNCHANGED request /\ UNCHANGED data
        /\ reply'[t] = keys[KeyOf(t)].made /\ visits[t] = NoVisit
    BY <1>0, <2>0, <2>1 DEF TypeOK, Sound, Shape
  <2>6. Sound(t)'
    BY <1>0, <1>2, <2>1, <2>5
       DEF Sound, Shape, Unlocked, KeyHeld, LeadHeld, EditHeld, Swept, SlotHeld,
           NoneActive, Answered, Claimed, Is, Keyed, data, request, KeyOf
  <2> QED
    BY <2>2, <2>4, <2>6 DEF Kept
<1>3. CASE keys[KeyOf(t)] # None /\ keys[KeyOf(t)].body # ask[t]
  <2>1. Refuse(t, "conflict")
    BY <1>3 DEF ClaimKey
  <2> QED
    BY <2>1, <1>0, RefuseKept
<1> QED
  BY <1>1, <1>2, <1>3

\* The lead a request is about exists.
LEMMA LeadOfFact ==
    ASSUME TypeOK, NEW t \in Requests, Shape(t), pc[t] # "new"
    PROVE  /\ ask[t] \in Operation /\ ask[t].op \in Ops
           /\ LeadOf(t) \in Leads
           /\ ~Is(t, {"edit", "erase"}) => LeadOf(t) = ask[t].lead
<1>1. ask[t] \in Operation
  BY OperationsAssumption DEF Shape
<1>2. ask[t].op \in Ops /\ ask[t].lead \in Leads
  BY <1>1 DEF Operation
<1>3. CASE Is(t, {"edit", "erase"})
  <2>1. visits[target[t]] \in Visit
    BY <1>3 DEF Shape, TypeOK, Keyed, Is
  <2> QED
    BY <1>1, <1>2, <1>3, <2>1 DEF LeadOf, Visit
<1>4. CASE ~Is(t, {"edit", "erase"})
  BY <1>1, <1>2, <1>4 DEF LeadOf
<1> QED
  BY <1>3, <1>4

LEMMA LockLeadKept ==
    ASSUME IInv, NEW t \in Requests, LockLead(t)
    PROVE  Kept(t)
<1> USE Names
<1>0. TypeOK /\ Sound(t) /\ pc[t] = "lead" /\ ~Is(t, {"edit", "archive"}) /\ Shape(t)
  BY DEF IInv, LockLead, Sound
<1>1. /\ LeadOf(t) \in Leads /\ LeadOf(t) = ask[t].lead
      /\ ask[t].op \in {"book", "invite", "close"}
  BY <1>0, LeadOfFact DEF Is, Ops, Shape
<1>2. CASE LeadOf(t) \in closed \cup archived
  BY <1>0, <1>2, RefuseKept DEF LockLead
<1>3. CASE LeadOf(t) \notin closed \cup archived
  <2> DEFINE step == IF Is(t, {"book"}) THEN "active" ELSE "visit"
  <2>1. Lock(t, {<<"lead", LeadOf(t)>>}) /\ Proceed(t, step)
    BY <1>3 DEF LockLead
  <2>2. {<<"lead", LeadOf(t)>>} \in SUBSET Resources
    BY <1>1
  <2>3. Takes(t)
    BY <2>1, <2>2 DEF Takes
  <2>4. /\ TypeOK' /\ Frame(t) /\ pc'[t] = step /\ UNCHANGED <<data, request, answer, reply>>
        /\ \A r \in Resources : holder[r] = t => holder'[r] = t
    BY <2>1, <2>3, ProceedFacts
  <2>5. \A r \in Resources : holder'[r] = t <=> r = <<"lead", ask[t].lead>> \/ holder[r] = t
    BY <1>0, <1>1, <2>1, <2>2, LockFacts
  <2>6. KeyHeld(t)'
    <3>1. KeyOf(t) \in KeyIds
      BY <1>0, <1>1, KeyOfFact DEF Shape, Keyed, Is
    <3> QED
      BY <1>0, <2>4, <3>1 DEF Sound, KeyHeld, Claimed, Is, Keyed, data, request, KeyOf
  <2>7. Sound(t)'
    BY <1>0, <1>1, <1>3, <2>4, <2>5, <2>6
       DEF Sound, Shape, Unlocked, LeadHeld, EditHeld, Swept, SlotHeld,
           NoneActive, Answered, Is, Keyed, data, request
  <2> QED
    BY <2>4, <2>7 DEF Kept
<1> QED
  BY <1>2, <1>3

LEMMA LockArchivedKept ==
    ASSUME IInv, NEW t \in Requests, LockArchived(t)
    PROVE  Kept(t)
<1> USE Names
<1>0. TypeOK /\ Sound(t) /\ pc[t] = "lead" /\ Is(t, {"archive"}) /\ Shape(t)
      /\ Lock(t, {<<"lead", LeadOf(t)>>}) /\ Proceed(t, "apply")
  BY DEF IInv, LockArchived, Sound
<1>1. {<<"lead", LeadOf(t)>>} \in SUBSET Resources
  BY <1>0, LeadOfFact
<1>2. Takes(t)
  BY <1>0, <1>1 DEF Takes
<1>3. TypeOK' /\ Frame(t) /\ pc'[t] = "apply" /\ UNCHANGED <<data, request, answer, reply>>
  BY <1>0, <1>2, ProceedFacts
<1>4. Sound(t)'
  BY <1>0, <1>3
     DEF Sound, Shape, Unlocked, KeyHeld, LeadHeld, EditHeld, Swept, SlotHeld,
         NoneActive, Answered, Is, Keyed, data, request, Vetted
<1> QED
  BY <1>3, <1>4 DEF Kept

LEMMA LockVisitsKept ==
    ASSUME IInv, NEW t \in Requests, LockVisits(t)
    PROVE  Kept(t)
<1> USE Names
<1> DEFINE S == {<<"visit", v>> : v \in Touches(t)}
           step == IF Is(t, {"edit", "archive"}) THEN "lead" ELSE "apply"
<1>0. TypeOK /\ Sound(t) /\ pc[t] = "visit" /\ Shape(t) /\ Lock(t, S) /\ Proceed(t, step)
  BY DEF IInv, LockVisits, Sound
<1>1. /\ ask[t].op \in Ops /\ ask[t].op # "book"
      /\ ~Is(t, {"edit", "erase"}) => LeadOf(t) = ask[t].lead
  BY <1>0, LeadOfFact DEF Shape, Is
<1>2. /\ Is(t, {"edit", "erase"}) => target[t] \in Requests /\ visits[target[t]] # NoVisit
      /\ Touches(t) \subseteq Requests
      /\ \A v \in Touches(t) : visits[v] # NoVisit
  BY <1>0 DEF Shape, Touches, Scheduled, NoVisit
<1>3. S \in SUBSET Resources /\ \A v \in Requests : <<"visit", v>> \in S <=> v \in Touches(t)
  BY <1>2
<1>4. Takes(t)
  BY <1>0, <1>2, <1>3 DEF Takes
<1>5. /\ TypeOK' /\ Frame(t) /\ pc'[t] = step /\ UNCHANGED <<data, request, answer, reply>>
      /\ \A r \in Resources : holder[r] = t => holder'[r] = t
  BY <1>0, <1>4, ProceedFacts
<1>6. \A v \in Requests : holder'[<<"visit", v>>] = t
          <=> v \in Touches(t) \/ holder[<<"visit", v>>] = t
  <2>1. \A r \in Resources : holder'[r] = t <=> r \in S \/ holder[r] = t
    BY <1>0, <1>3, LockFacts
  <2> QED
    BY <1>3, <2>1
<1>7. KeyHeld(t)'
  <2>1. Keyed(t) => KeyOf(t) \in KeyIds
    BY <1>0, KeyOfFact DEF Shape
  <2> QED
    BY <1>0, <1>5, <2>1 DEF Sound, KeyHeld, Claimed, Is, Keyed, data, request, KeyOf
<1>8. Swept(t)'
  BY <1>0, <1>1, <1>5, <1>6
     DEF Sound, Swept, Touches, Mine, Is, Scheduled, data, request
<1>9. LeadHeld(t)' /\ EditHeld(t)'
  <2>1. ask[t].lead \in Leads
    BY <1>0, LeadOfFact DEF Operation
  <2> QED
    BY <1>0, <1>1, <1>2, <1>5, <1>6, <2>1
       DEF Sound, LeadHeld, EditHeld, Touches, Is, data, request
<1>10. Sound(t)'
  BY <1>0, <1>1, <1>5, <1>7, <1>8, <1>9
     DEF Sound, Shape, Unlocked, SlotHeld, NoneActive, Answered, Is, Keyed, Ops, Vetted,
         data, request
<1> QED
  BY <1>5, <1>10 DEF Kept

LEMMA LockEditedKept ==
    ASSUME IInv, NEW t \in Requests, LockEdited(t)
    PROVE  Kept(t)
<1> USE Names
<1>0. TypeOK /\ Sound(t) /\ pc[t] = "lead" /\ Is(t, {"edit"}) /\ Shape(t)
  BY DEF IInv, LockEdited, Sound
<1>1. CASE ~EditGuard(t)
  BY <1>0, <1>1, RefuseKept DEF LockEdited
<1>2. CASE EditGuard(t)
  <2> DEFINE step == IF Checks(ask[t], visits[target[t]]) THEN "manager" ELSE "apply"
  <2>1. Lock(t, {<<"lead", LeadOf(t)>>}) /\ Proceed(t, step)
    BY <1>2 DEF LockEdited
  <2>2. {<<"lead", LeadOf(t)>>} \in SUBSET Resources
    BY <1>0, LeadOfFact
  <2>3. Takes(t)
    BY <2>1, <2>2 DEF Takes
  <2>4. /\ TypeOK' /\ Frame(t) /\ pc'[t] = step /\ UNCHANGED <<data, request, answer, reply>>
        /\ \A r \in Resources : holder[r] = t => holder'[r] = t
    BY <2>1, <2>3, ProceedFacts
  <2>5. EditHeld(t)'
    <3>1. target[t] \in Requests
      BY <1>0 DEF Shape, Is
    <3> QED
      BY <1>0, <1>2, <2>4, <3>1
         DEF Sound, EditHeld, EditGuard, Checks, Scheduled, Is, data, request
  <2>6. SlotHeld(t)'
    BY <1>0, <2>4 DEF SlotHeld, Vetted, Is, data, request
  <2>7. Sound(t)'
    BY <1>0, <2>4, <2>5, <2>6
       DEF Sound, Shape, Unlocked, KeyHeld, LeadHeld, Swept, NoneActive, Answered, Is,
           Keyed, data, request
  <2> QED
    BY <2>4, <2>7 DEF Kept
<1> QED
  BY <1>1, <1>2

LEMMA CheckActiveKept ==
    ASSUME IInv, NEW t \in Requests, CheckActive(t)
    PROVE  Kept(t)
<1> USE Names
<1> DEFINE found == /\ ask[t].kind # "office_work"
                    /\ \E v \in Requests : /\ Scheduled(v) /\ visits[v].lead = ask[t].lead
                                           /\ visits[v].kind = ask[t].kind
<1>0. TypeOK /\ Sound(t) /\ pc[t] = "active" /\ Is(t, {"book"})
  BY DEF IInv, CheckActive, Sound, Shape
<1>1. CASE found
  BY <1>0, <1>1, RefuseKept DEF CheckActive
<1>2. CASE ~found
  <2>1. Proceed(t, "manager") /\ UNCHANGED holder
    BY <1>2 DEF CheckActive
  <2>2. TypeOK' /\ Frame(t) /\ pc'[t] = "manager" /\ UNCHANGED <<data, request, answer, reply>>
    BY <2>1, ProceedFacts DEF Takes
  <2>3. NoneActive(t)'
    BY <1>2, <2>2 DEF NoneActive, Scheduled, data, request
  <2>4. Sound(t)'
    BY <1>0, <2>1, <2>2, <2>3
       DEF Sound, Shape, Unlocked, KeyHeld, Claimed, LeadHeld, EditHeld, Swept, SlotHeld,
           Answered, Is, Keyed, KeyOf, data, request
  <2> QED
    BY <2>2, <2>4 DEF Kept
<1> QED
  BY <1>1, <1>2

LEMMA LockManagerKept ==
    ASSUME IInv, NEW t \in Requests, LockManager(t)
    PROVE  Kept(t)
<1> USE Names
<1>0. /\ TypeOK /\ Sound(t) /\ pc[t] = "manager" /\ Shape(t)
      /\ Lock(t, {<<"manager", ask[t].mgr>>}) /\ Proceed(t, "probe")
  BY DEF IInv, LockManager, Sound
<1>1. ask[t].mgr \in Managers /\ ask[t].lead \in Leads
  BY <1>0, LeadOfFact DEF Operation
<1>2. {<<"manager", ask[t].mgr>>} \in SUBSET Resources
  BY <1>1
<1>3. Takes(t)
  BY <1>0, <1>2 DEF Takes
<1>4. /\ TypeOK' /\ Frame(t) /\ pc'[t] = "probe" /\ UNCHANGED <<data, request, answer, reply>>
      /\ \A r \in Resources : holder[r] = t => holder'[r] = t
  BY <1>0, <1>3, ProceedFacts
<1>5. \A r \in Resources : holder'[r] = t <=> r = <<"manager", ask[t].mgr>> \/ holder[r] = t
  BY <1>0, <1>2, LockFacts
<1>6. KeyHeld(t)'
  <2>1. Keyed(t) => KeyOf(t) \in KeyIds
    BY <1>0, KeyOfFact DEF Shape
  <2> QED
    BY <1>0, <1>4, <2>1 DEF Sound, KeyHeld, Claimed, Is, Keyed, data, request, KeyOf
<1>7. SlotHeld(t)'
  BY <1>1, <1>4, <1>5 DEF SlotHeld, Vetted, request
<1>8. LeadHeld(t)' /\ NoneActive(t)'
  BY <1>0, <1>1, <1>4
     DEF Sound, Shape, LeadHeld, NoneActive, Scheduled, Is, data, request
<1>9. EditHeld(t)'
  <2>1. Is(t, {"edit"}) => target[t] \in Requests
    BY <1>0 DEF Shape, Is
  <2> QED
    BY <1>0, <1>4, <2>1 DEF Sound, Shape, EditHeld, EditGuard, Checks, Scheduled, Is,
                            data, request
<1>10. Sound(t)'
  BY <1>0, <1>4, <1>6, <1>7, <1>8, <1>9
     DEF Sound, Shape, Unlocked, Swept, Answered, Is, Keyed, data, request
<1> QED
  BY <1>4, <1>10 DEF Kept

LEMMA ProbeKept ==
    ASSUME IInv, NEW t \in Requests, Probe(t)
    PROVE  Kept(t)
<1> USE Names
<1>0. TypeOK /\ Sound(t) /\ pc[t] = "probe"
  BY DEF IInv, Probe
<1>1. CASE Busy(t)
  BY <1>0, <1>1, RefuseKept DEF Probe
<1>2. CASE ~Busy(t)
  <2>1. Proceed(t, "apply") /\ UNCHANGED holder
    BY <1>2 DEF Probe
  <2>2. TypeOK' /\ Frame(t) /\ pc'[t] = "apply" /\ UNCHANGED <<data, request, answer, reply>>
    BY <2>1, ProceedFacts DEF Takes
  <2>3. SlotHeld(t)'
    <3>1. \A v \in Requests : v # target[t] => ~Rival(t, v)
      BY <1>2 DEF Busy, Rival
    <3> QED
      BY <1>0, <2>1, <2>2, <3>1 DEF Sound, SlotHeld, Rival, Scheduled, Overlaps, Vetted, Is,
                                    Checks, data, request
  <2>4. Sound(t)'
    BY <1>0, <2>1, <2>2, <2>3
       DEF Sound, Shape, Unlocked, KeyHeld, Claimed, LeadHeld, EditHeld, EditGuard, Swept,
           NoneActive, Scheduled, Answered, Is, Keyed, KeyOf, data, request
  <2> QED
    BY <2>2, <2>4 DEF Kept
<1> QED
  BY <1>1, <1>2

LEMMA AbortKept ==
    ASSUME IInv, NEW t \in Requests, Abort(t)
    PROVE  Kept(t)
BY RefuseKept DEF Abort

----------------------------------------------------------------------------
(* The commits *)

LEMMA CommitFacts ==
    ASSUME IInv, NEW t \in Requests, Commit(t),
           \A u \in Requests \ {t} : reply'[u] = reply[u]
    PROVE  /\ holder' \in [Resources -> Requests \cup {None}]
           /\ \A r \in Resources : holder'[r] # t
           /\ pc' = [pc EXCEPT ![t] = "done"] /\ pc'[t] = "done"
           /\ answer' \in [Requests -> {"none", "ok", "lost", "refused", "busy",
                                        "conflict", "error"}]
           /\ UNCHANGED request
           /\ SameOthers(t) /\ LocksOfOwn(t)
<1> USE Names
<1>0. TypeOK
  BY DEF IInv
<1>1. PICK how \in {"ok", "lost"} : Finish(t, how)
  BY DEF Commit
<1>2. /\ holder' \in [Resources -> Requests \cup {None}]
      /\ \A r \in Resources : holder'[r] # t
      /\ \A u \in Requests \ {t}, r \in Resources : holder'[r] = u <=> holder[r] = u
      /\ pc' = [pc EXCEPT ![t] = "done"]
      /\ answer' = [answer EXCEPT ![t] = how]
      /\ UNCHANGED request
  BY <1>0, <1>1, FinishFacts
<1>3. SameOthers(t) /\ LocksOfOwn(t)
  BY <1>0, <1>2 DEF SameOthers, LocksOfOwn, TypeOK, request
<1> QED
  BY <1>0, <1>2, <1>3 DEF TypeOK

\* A request that is done relies on nothing but its stored answer.
LEMMA DoneSound ==
    ASSUME IInv, NEW t \in Requests, pc[t] = "apply", pc'[t] = "done", UNCHANGED request,
           \A r \in Resources : holder'[r] # t, WritesLocked(t), Answered(t)'
    PROVE  Sound(t)'
<1> USE Names
<1>0. Sound(t)
  BY DEF IInv
<1> QED
  BY <1>0 DEF Sound, Shape, Unlocked, KeyHeld, LeadHeld, EditHeld, Swept, SlotHeld,
              NoneActive, Claimed, Is, Keyed, request, WritesLocked

\* What a request at its last step asks for, reads and holds.
LEMMA ApplyFacts ==
    ASSUME IInv, NEW t \in Requests, pc[t] = "apply"
    PROVE  /\ TypeOK /\ Sound(t) /\ ask[t] \in Operation /\ ask[t].op \in Ops
           /\ ask[t] \in Operations
           /\ LeadOf(t) \in Leads /\ (~Is(t, {"edit", "erase"}) => LeadOf(t) = ask[t].lead)
           /\ Keyed(t) => /\ KeyOf(t) \in KeyIds /\ keys[KeyOf(t)] = None
                          /\ holder[<<"key", KeyOf(t)>>] = t
           /\ visits[t] = NoVisit /\ visits[t].status # "scheduled"
           /\ Locked(t) \subseteq Requests
           /\ \A v \in Locked(t) : visits[v] \in Visit /\ visits[v] # NoVisit
<1> USE Names
<1>0. TypeOK /\ Sound(t) /\ Shape(t) /\ LocksExist
  BY DEF IInv, Sound
<1>1. /\ ask[t] \in Operation /\ ask[t].op \in Ops /\ ask[t] \in Operations
      /\ LeadOf(t) \in Leads /\ (~Is(t, {"edit", "erase"}) => LeadOf(t) = ask[t].lead)
  BY <1>0, LeadOfFact DEF Shape
<1>2. Keyed(t) => /\ KeyOf(t) \in KeyIds /\ keys[KeyOf(t)] = None
                  /\ holder[<<"key", KeyOf(t)>>] = t
  BY <1>0, KeyOfFact DEF Sound, Shape, KeyHeld, Claimed
<1>3. visits[t] = NoVisit /\ visits[t].status # "scheduled"
  BY <1>0 DEF Shape, NoVisit
<1>4. /\ Locked(t) \subseteq Requests
      /\ \A v \in Locked(t) : visits[v] \in Visit /\ visits[v] # NoVisit
  BY <1>0 DEF Locked, LocksExist, TypeOK
<1> QED
  BY <1>0, <1>1, <1>2, <1>3, <1>4

\* The row that remembers the answer changes under the key's lock.
LEMMA StoreFacts ==
    ASSUME IInv, NEW t \in Requests, pc[t] = "apply", Keyed(t),
           NEW made \in Requests \cup {None}, StoreResponse(t, made)
    PROVE  /\ KeysLocked(t) /\ reply'[t] = made
           /\ keys'[KeyOf(t)] # None /\ keys'[KeyOf(t)].made = made
           /\ keys' \in [KeyIds -> [body : Operations, made : Requests \cup {None}] \cup {None}]
           /\ reply' \in [Requests -> Requests \cup {None}]
           /\ \A u \in Requests \ {t} : reply'[u] = reply[u]
<1>0. /\ TypeOK /\ KeyOf(t) \in KeyIds /\ keys[KeyOf(t)] = None /\ ask[t] \in Operations
      /\ holder[<<"key", KeyOf(t)>>] = t
  BY ApplyFacts
<1> DEFINE row == [body |-> ask[t], made |-> made]
<1>1. keys' = [keys EXCEPT ![KeyOf(t)] = row] /\ reply' = [reply EXCEPT ![t] = made]
  BY DEF StoreResponse
<1>2. row \in [body : Operations, made : Requests \cup {None}] /\ row.made = made
  BY <1>0
<1>3. row # None
  BY <1>2, NoneAssumption
<1>4. KeysLocked(t)
  BY <1>0, <1>1 DEF KeysLocked, TypeOK
<1>5. keys'[KeyOf(t)] = row /\ reply'[t] = made
  BY <1>0, <1>1 DEF TypeOK
<1>6. /\ keys' \in [KeyIds -> [body : Operations, made : Requests \cup {None}] \cup {None}]
      /\ reply' \in [Requests -> Requests \cup {None}]
      /\ \A u \in Requests \ {t} : reply'[u] = reply[u]
  BY <1>0, <1>1, <1>2 DEF TypeOK
<1> QED
  BY <1>2, <1>3, <1>4, <1>5, <1>6

LEMMA ApplyBookKept ==
    ASSUME IInv, NEW t \in Requests, ApplyBook(t)
    PROVE  Kept(t)
<1> USE Names
<1> DEFINE new == Placed(t, ask[t].kind, 1, TRUE)
<1>0. /\ pc[t] = "apply" /\ Is(t, {"book"}) /\ ~Is(t, {"edit", "erase"}) /\ ~Is(t, {"edit"})
      /\ Keyed(t) /\ visits' = [visits EXCEPT ![t] = new]
      /\ StoreResponse(t, t) /\ Commit(t) /\ UNCHANGED <<closed, archived>>
  BY DEF ApplyBook, Is, Keyed
<1>1. /\ TypeOK /\ Sound(t) /\ Shape(t) /\ ask[t] \in Operation /\ LeadOf(t) = ask[t].lead
      /\ visits[t] = NoVisit /\ KeyOf(t) \in KeyIds /\ keys[KeyOf(t)] = None
  BY <1>0, ApplyFacts DEF Sound
<1>2. /\ KeysLocked(t) /\ reply'[t] = t
      /\ keys'[KeyOf(t)] # None /\ keys'[KeyOf(t)].made = t
      /\ keys' \in [KeyIds -> [body : Operations, made : Requests \cup {None}] \cup {None}]
      /\ reply' \in [Requests -> Requests \cup {None}]
      /\ \A u \in Requests \ {t} : reply'[u] = reply[u]
  BY <1>0, StoreFacts
<1>3. /\ holder' \in [Resources -> Requests \cup {None}]
      /\ \A r \in Resources : holder'[r] # t
      /\ pc' = [pc EXCEPT ![t] = "done"] /\ pc'[t] = "done"
      /\ answer' \in [Requests -> {"none", "ok", "lost", "refused", "busy",
                                   "conflict", "error"}]
      /\ UNCHANGED request /\ SameOthers(t) /\ LocksOfOwn(t)
  BY <1>0, <1>2, CommitFacts
<1>4. /\ new \in Visit /\ new # NoVisit /\ new.lead = ask[t].lead /\ new.kind = ask[t].kind
      /\ new.mgr = ask[t].mgr /\ new.start = ask[t].start /\ new.len = ask[t].len
  BY <1>1 DEF Placed, Visit, NoVisit, Operation
<1>5. TypeOK'
  BY <1>0, <1>1, <1>2, <1>3, <1>4 DEF TypeOK, request
<1>6. visits'[t] = new /\ \A v \in Requests \ {t} : visits'[v] = visits[v]
  BY <1>0, <1>1 DEF TypeOK
<1>7. WritesLocked(t)
  BY <1>1, <1>4, <1>6 DEF WritesLocked
<1>8. Inserted(t, t)
  <2>1. visits'[t].lead = ask[t].lead /\ visits'[t].kind = ask[t].kind
    BY <1>4, <1>6
  <2>2. holder[<<"lead", ask[t].lead>>] = t /\ ask[t].lead \notin closed
    BY <1>0, <1>1 DEF Sound, LeadHeld
  <2>3. NoneActive(t)
    BY <1>1 DEF Sound
  <2> QED
    BY <1>0, <1>1, <2>1, <2>2, <2>3 DEF Inserted, NoneActive
<1>9. Moved(t, t)
  BY <1>0, <1>1, <1>4, <1>6 DEF Moved, Vetted, Shape
<1>10. SchedulesLocked(t) /\ ChecksLocked(t)
  BY <1>6, <1>8, <1>9 DEF SchedulesLocked, ChecksLocked, Scheduled
<1>11. Frame(t)
  BY <1>0, <1>2, <1>3, <1>7, <1>10 DEF Frame, ClosesLocked
<1>12. Answered(t)'
  BY <1>1, <1>2, <1>3 DEF Answered, KeyOf, Is, request
<1>13. Sound(t)'
  BY <1>0, <1>3, <1>7, <1>12, DoneSound
<1> QED
  BY <1>5, <1>11, <1>13 DEF Kept

LEMMA ApplyInviteKept ==
    ASSUME IInv, NEW t \in Requests, ApplyInvite(t)
    PROVE  Kept(t)
<1> USE Names
<1>0. /\ pc[t] = "apply" /\ Is(t, {"invite"}) /\ ~Is(t, {"edit", "erase"}) /\ Keyed(t)
      /\ ~Is(t, {"book"}) /\ Commit(t) /\ UNCHANGED <<closed, archived>>
  BY DEF ApplyInvite, Is, Keyed
<1>1. /\ TypeOK /\ Sound(t) /\ ask[t] \in Operation /\ LeadOf(t) = ask[t].lead
      /\ visits[t] = NoVisit /\ Locked(t) \subseteq Requests
      /\ \A v \in Locked(t) : visits[v] \in Visit /\ visits[v] # NoVisit
  BY <1>0, ApplyFacts
<1>2. PICK v \in Requests, version \in Nat :
          /\ Locked(t) = {} => v = t
          /\ Locked(t) # {} => v \in Locked(t)
          /\ visits' = [visits EXCEPT ![v] = Placed(t, "showroom", version, FALSE)]
          /\ StoreResponse(t, v)
  <2> DEFINE v0 == IF Locked(t) = {} THEN t ELSE CHOOSE v \in Locked(t) : TRUE
             version0 == IF v0 = t THEN 1 ELSE visits[v0].version + 1
  <2>1. (Locked(t) = {} => v0 = t) /\ (Locked(t) # {} => v0 \in Locked(t))
    OBVIOUS
  <2>2. v0 \in Requests
    BY <1>1, <2>1
  <2>3. version0 \in Nat
    BY <1>1, <2>1 DEF Visit
  <2>4. /\ visits' = [visits EXCEPT ![v0] = Placed(t, "showroom", version0, FALSE)]
        /\ StoreResponse(t, v0)
    BY DEF ApplyInvite
  <2> QED
    BY <2>1, <2>2, <2>3, <2>4
<1> DEFINE new == Placed(t, "showroom", version, FALSE)
<1>3. /\ KeysLocked(t)
      /\ keys' \in [KeyIds -> [body : Operations, made : Requests \cup {None}] \cup {None}]
      /\ reply' \in [Requests -> Requests \cup {None}]
      /\ \A u \in Requests \ {t} : reply'[u] = reply[u]
  BY <1>0, <1>2, StoreFacts
<1>4. /\ holder' \in [Resources -> Requests \cup {None}]
      /\ \A r \in Resources : holder'[r] # t
      /\ pc' = [pc EXCEPT ![t] = "done"] /\ pc'[t] = "done"
      /\ answer' \in [Requests -> {"none", "ok", "lost", "refused", "busy",
                                   "conflict", "error"}]
      /\ UNCHANGED request /\ SameOthers(t) /\ LocksOfOwn(t)
  BY <1>0, <1>3, CommitFacts
<1>5. /\ new \in Visit /\ new # NoVisit /\ new.lead = ask[t].lead /\ new.kind = "showroom"
      /\ ~new.checked
  BY <1>1 DEF Placed, Visit, NoVisit, Operation, Kinds
<1>6. TypeOK'
  BY <1>0, <1>1, <1>2, <1>3, <1>4, <1>5 DEF TypeOK, request
<1>7. /\ visits'[v] = new /\ \A w \in Requests \ {v} : visits'[w] = visits[w]
      /\ visits'[v].lead = ask[t].lead /\ visits'[v].kind = "showroom"
      /\ ~visits'[v].checked /\ visits'[v] # NoVisit
  <2>1. visits'[v] = new /\ \A w \in Requests \ {v} : visits'[w] = visits[w]
    BY <1>1, <1>2 DEF TypeOK
  <2> QED
    BY <1>5, <2>1
<1> HIDE DEF new
<1>8. v \in Locked(t) => holder[<<"visit", v>>] = t /\ Mine(t, v)
  BY <1>0, <1>1 DEF Locked, Sound, Swept
<1>9. WritesLocked(t)
  BY <1>1, <1>2, <1>7, <1>8 DEF WritesLocked
<1>10. ASSUME Locked(t) = {} PROVE SchedulesLocked(t)
  <2>1. \A w \in Requests : ~Mine(t, w)
    BY <1>0, <1>1, <1>10 DEF Locked, Sound, Swept, Is
  <2>2. v = t
    BY <1>2, <1>10
  <2>3. holder[<<"lead", ask[t].lead>>] = t /\ ask[t].lead \notin closed
    BY <1>0, <1>1 DEF Sound, LeadHeld, Is
  <2> QED
    <3>1. Inserted(t, t)
      BY <1>0, <1>1, <1>7, <2>1, <2>2, <2>3 DEF Inserted, Mine
    <3>2. ASSUME NEW w \in Requests, w # v, visits'[w].status = "scheduled"
          PROVE  Scheduled(w) /\ visits'[w] = visits[w]
      BY <1>7, <3>2 DEF Scheduled
    <3> QED
      BY <2>2, <3>1, <3>2 DEF SchedulesLocked
<1>11. ASSUME Locked(t) # {} PROVE SchedulesLocked(t)
  <2>1. Mine(t, v)
    BY <1>2, <1>8, <1>11
  <2> QED
    BY <1>0, <1>7, <2>1 DEF SchedulesLocked, Mine, Scheduled
<1>12. ChecksLocked(t)
  BY <1>7 DEF ChecksLocked, Scheduled
<1>13. Frame(t)
  BY <1>0, <1>3, <1>4, <1>9, <1>10, <1>11, <1>12 DEF Frame, ClosesLocked
<1>14. Answered(t)'
  BY <1>0, <1>4 DEF Answered, Is, request
<1>15. Sound(t)'
  BY <1>0, <1>4, <1>9, <1>14, DoneSound
<1> QED
  BY <1>6, <1>13, <1>15 DEF Kept

\* What canceling does to the visits that are held, and only to them.
LEMMA CanceledFacts ==
    ASSUME IInv, NEW t \in Requests, pc[t] = "apply", visits' = Canceled(t)
    PROVE  /\ visits' \in [Requests -> Visit \cup {NoVisit}]
           /\ \A v \in Requests : v \notin Locked(t) => visits'[v] = visits[v]
           /\ \A v \in Locked(t) : visits'[v].status = "canceled"
           /\ WritesLocked(t) /\ SchedulesLocked(t) /\ ChecksLocked(t)
<1>0. /\ TypeOK /\ Locked(t) \subseteq Requests
      /\ \A v \in Locked(t) : visits[v] \in Visit /\ visits[v] # NoVisit
  BY ApplyFacts
<1>1. \A v \in Requests : v \notin Locked(t) => visits'[v] = visits[v]
  BY DEF Canceled
<1>2. ASSUME NEW v \in Locked(t)
      PROVE  /\ visits'[v] \in Visit /\ visits'[v].status = "canceled"
             /\ visits'[v] # NoVisit /\ holder[<<"visit", v>>] = t
  <2>1. /\ v \in Requests /\ visits[v] \in Visit /\ holder[<<"visit", v>>] = t
        /\ visits'[v] = [visits[v] EXCEPT !.status = "canceled", !.version = @ + 1]
    BY <1>0 DEF Canceled, Locked
  <2>2. visits'[v].status = "canceled"
    BY <2>1 DEF Visit
  <2>3. visits[v].version + 1 \in Nat
    BY <2>1 DEF Visit
  <2>4. visits'[v] \in Visit
    BY <2>1, <2>3 DEF Visit
  <2> QED
    BY <2>1, <2>2, <2>4, VisitExists
<1>3. visits' \in [Requests -> Visit \cup {NoVisit}]
  <2>1. \A v \in Requests : visits'[v] \in Visit \cup {NoVisit}
    BY <1>0, <1>1, <1>2 DEF TypeOK
  <2> QED
    BY <2>1 DEF Canceled
<1>4. WritesLocked(t) /\ SchedulesLocked(t) /\ ChecksLocked(t)
  BY <1>0, <1>1, <1>2 DEF WritesLocked, SchedulesLocked, ChecksLocked, Scheduled
<1> QED
  BY <1>1, <1>2, <1>3, <1>4

LEMMA ApplyCloseKept ==
    ASSUME IInv, NEW t \in Requests, ApplyClose(t)
    PROVE  Kept(t)
<1> USE Names
<1>0. /\ pc[t] = "apply" /\ Is(t, {"close"}) /\ ~Is(t, {"edit", "erase"}) /\ Keyed(t)
      /\ ~Is(t, {"book"}) /\ Commit(t) /\ visits' = Canceled(t) /\ StoreResponse(t, None)
      /\ closed' = closed \cup {LeadOf(t)} /\ UNCHANGED archived
  BY DEF ApplyClose, Is, Keyed
<1>1. /\ TypeOK /\ Sound(t) /\ LeadOf(t) = ask[t].lead /\ LeadOf(t) \in Leads
  BY <1>0, ApplyFacts
<1>2. /\ KeysLocked(t)
      /\ keys' \in [KeyIds -> [body : Operations, made : Requests \cup {None}] \cup {None}]
      /\ reply' \in [Requests -> Requests \cup {None}]
      /\ \A u \in Requests \ {t} : reply'[u] = reply[u]
  BY <1>0, StoreFacts
<1>3. /\ holder' \in [Resources -> Requests \cup {None}]
      /\ \A r \in Resources : holder'[r] # t
      /\ pc' = [pc EXCEPT ![t] = "done"] /\ pc'[t] = "done"
      /\ answer' \in [Requests -> {"none", "ok", "lost", "refused", "busy",
                                   "conflict", "error"}]
      /\ UNCHANGED request /\ SameOthers(t) /\ LocksOfOwn(t)
  BY <1>0, <1>2, CommitFacts
<1>4. /\ visits' \in [Requests -> Visit \cup {NoVisit}]
      /\ \A v \in Requests : v \notin Locked(t) => visits'[v] = visits[v]
      /\ \A v \in Locked(t) : visits'[v].status = "canceled"
      /\ WritesLocked(t) /\ SchedulesLocked(t) /\ ChecksLocked(t)
  BY <1>0, CanceledFacts
<1>5. TypeOK'
  BY <1>0, <1>1, <1>2, <1>3, <1>4 DEF TypeOK, request
<1>6. ClosesLocked(t)
  <2>1. ASSUME NEW v \in Requests, visits'[v].status = "scheduled"
        PROVE  Scheduled(v) /\ visits'[v].lead = visits[v].lead /\ visits[v].lead # LeadOf(t)
    <3>1. v \notin Locked(t) /\ visits'[v] = visits[v]
      BY <1>4, <2>1
    <3>2. ~Mine(t, v)
      BY <1>0, <1>1, <3>1 DEF Sound, Swept, Locked, Is
    <3> QED
      BY <1>0, <1>1, <2>1, <3>1, <3>2 DEF Mine, Scheduled, Is
  <2>2. holder[<<"lead", LeadOf(t)>>] = t
    BY <1>0, <1>1 DEF Sound, LeadHeld, Is
  <2> QED
    BY <1>0, <1>1, <2>1, <2>2 DEF ClosesLocked
<1>7. Frame(t)
  BY <1>2, <1>3, <1>4, <1>6 DEF Frame
<1>8. Answered(t)'
  BY <1>0, <1>3 DEF Answered, Is, request
<1>9. Sound(t)'
  BY <1>0, <1>3, <1>4, <1>8, DoneSound
<1> QED
  BY <1>5, <1>7, <1>9 DEF Kept

LEMMA ApplyArchiveKept ==
    ASSUME IInv, NEW t \in Requests, ApplyArchive(t)
    PROVE  Kept(t)
<1>0. /\ pc[t] = "apply" /\ Is(t, {"archive"}) /\ ~Is(t, {"edit", "erase"})
      /\ ~Is(t, {"book"}) /\ Commit(t) /\ visits' = Canceled(t)
      /\ archived' = archived \cup {LeadOf(t)} /\ UNCHANGED <<closed, keys, reply>>
  BY DEF ApplyArchive, Is
<1>1. TypeOK /\ Sound(t) /\ LeadOf(t) = ask[t].lead /\ LeadOf(t) \in Leads
  BY <1>0, ApplyFacts
<1>2. /\ holder' \in [Resources -> Requests \cup {None}]
      /\ \A r \in Resources : holder'[r] # t
      /\ pc' = [pc EXCEPT ![t] = "done"] /\ pc'[t] = "done"
      /\ answer' \in [Requests -> {"none", "ok", "lost", "refused", "busy",
                                   "conflict", "error"}]
      /\ UNCHANGED request /\ SameOthers(t) /\ LocksOfOwn(t)
  BY <1>0, CommitFacts
<1>3. /\ visits' \in [Requests -> Visit \cup {NoVisit}]
      /\ WritesLocked(t) /\ SchedulesLocked(t) /\ ChecksLocked(t)
  BY <1>0, CanceledFacts
<1>4. TypeOK'
  BY <1>0, <1>1, <1>2, <1>3 DEF TypeOK, request
<1>5. Frame(t)
  BY <1>0, <1>2, <1>3 DEF Frame, ClosesLocked, KeysLocked
<1>6. Answered(t)'
  BY <1>0, <1>2 DEF Answered, Is, request
<1>7. Sound(t)'
  BY <1>0, <1>2, <1>3, <1>6, DoneSound
<1> QED
  BY <1>4, <1>5, <1>7 DEF Kept

\* An edit writes its visit, and a scheduled one keeps a slot that was checked.
LEMMA ApplyEditKept ==
    ASSUME IInv, NEW t \in Requests, ApplyEdit(t)
    PROVE  Kept(t)
<1> USE Names
<1> DEFINE x == target[t]
           was == visits[x]
           new == [was EXCEPT !.start = ask[t].start, !.len = ask[t].len, !.mgr = ask[t].mgr,
                              !.status = IF ask[t].ends THEN "ended" ELSE @,
                              !.version = @ + 1,
                              !.checked = IF Checks(ask[t], was) THEN TRUE ELSE @]
<1>0. /\ pc[t] = "apply" /\ Is(t, {"edit"}) /\ Is(t, {"edit", "erase"}) /\ ~Is(t, {"book"})
      /\ Commit(t) /\ visits' = [visits EXCEPT ![x] = new]
      /\ UNCHANGED <<closed, archived, keys, reply>>
  BY DEF ApplyEdit, Is
<1>1. /\ TypeOK /\ Sound(t) /\ Shape(t) /\ ask[t] \in Operation
      /\ visits[t] = NoVisit
  BY <1>0, ApplyFacts DEF Sound
<1>2. x \in Requests /\ was \in Visit /\ holder[<<"visit", x>>] = t
  BY <1>0, <1>1 DEF Shape, TypeOK, Sound, EditHeld
<1>3. /\ holder' \in [Resources -> Requests \cup {None}]
      /\ \A r \in Resources : holder'[r] # t
      /\ pc' = [pc EXCEPT ![t] = "done"] /\ pc'[t] = "done"
      /\ answer' \in [Requests -> {"none", "ok", "lost", "refused", "busy",
                                   "conflict", "error"}]
      /\ UNCHANGED request /\ SameOthers(t) /\ LocksOfOwn(t)
  BY <1>0, CommitFacts
<1>4. /\ visits'[x].start = ask[t].start /\ visits'[x].len = ask[t].len
      /\ visits'[x].mgr = ask[t].mgr /\ visits'[x].lead = was.lead
      /\ visits'[x].kind = was.kind
      /\ visits'[x].status = IF ask[t].ends THEN "ended" ELSE was.status
      /\ visits'[x].checked = IF Checks(ask[t], was) THEN TRUE ELSE was.checked
      /\ visits'[x] \in Visit
  <2>1. visits'[x] = new
    BY <1>0, <1>1, <1>2 DEF TypeOK
  <2>2. was.version + 1 \in Nat
    BY <1>2 DEF Visit
  <2> QED
    BY <1>1, <1>2, <2>1, <2>2 DEF Visit, Operation
<1>5. \A v \in Requests \ {x} : visits'[v] = visits[v]
  BY <1>0, <1>1, <1>2 DEF TypeOK
<1>6. visits' \in [Requests -> Visit \cup {NoVisit}]
  <2>1. \A v \in Requests : visits'[v] \in Visit \cup {NoVisit}
    BY <1>1, <1>4, <1>5 DEF TypeOK
  <2>2. visits' = [v \in Requests |-> visits'[v]]
    BY <1>0, <1>1 DEF TypeOK
  <2> QED
    BY <2>1, <2>2
<1> HIDE DEF new
<1>7. TypeOK'
  BY <1>0, <1>1, <1>3, <1>6 DEF TypeOK, request
<1>8. WritesLocked(t)
  BY <1>2, <1>4, <1>5, VisitExists DEF WritesLocked
<1>9. SchedulesLocked(t)
  <2>1. visits'[x].status = "scheduled" => was.status = "scheduled"
    BY <1>4
  <2> QED
    BY <1>4, <1>5, <2>1 DEF SchedulesLocked, Scheduled
<1>10. ChecksLocked(t)
  <2>1. ASSUME visits'[x].status = "scheduled", visits'[x].checked
        PROVE  \/ /\ Scheduled(x) /\ was.checked /\ visits'[x].mgr = was.mgr
                  /\ visits'[x].start = was.start /\ visits'[x].len = was.len
               \/ Moved(t, x)
    <3>1. was.status = "scheduled" /\ ~ask[t].ends
      BY <1>4, <2>1
    <3>2. CASE Checks(ask[t], was)
      BY <1>0, <1>4, <3>2 DEF Moved, Vetted
    <3>3. CASE ~Checks(ask[t], was)
      <4>1. was.checked
        BY <1>4, <2>1, <3>3
      <4>2. ask[t].start = was.start /\ ask[t].len = was.len /\ ask[t].mgr = was.mgr
        BY <3>1, <3>3 DEF Checks
      <4> QED
        BY <1>4, <3>1, <4>1, <4>2 DEF Scheduled
    <3> QED
      BY <3>2, <3>3
  <2>2. ASSUME NEW v \in Requests, v # x, visits'[v].status = "scheduled", visits'[v].checked
        PROVE  /\ Scheduled(v) /\ visits[v].checked /\ visits'[v].mgr = visits[v].mgr
               /\ visits'[v].start = visits[v].start /\ visits'[v].len = visits[v].len
    BY <1>5, <2>2 DEF Scheduled
  <2> QED
    BY <2>1, <2>2 DEF ChecksLocked
<1>11. Frame(t)
  BY <1>0, <1>3, <1>8, <1>9, <1>10 DEF Frame, ClosesLocked, KeysLocked
<1>12. Answered(t)'
  BY <1>0, <1>3 DEF Answered, Is, request
<1>13. Sound(t)'
  BY <1>0, <1>3, <1>8, <1>12, DoneSound
<1> QED
  BY <1>7, <1>11, <1>13 DEF Kept

LEMMA ApplyEraseKept ==
    ASSUME IInv, NEW t \in Requests, ApplyErase(t)
    PROVE  Kept(t)
<1> USE Names
<1> DEFINE x == target[t]
<1>0. /\ pc[t] = "apply" /\ Is(t, {"erase"}) /\ Is(t, {"edit", "erase"}) /\ ~Is(t, {"book"})
      /\ Commit(t) /\ visits' = [visits EXCEPT ![x].status = "erased"]
      /\ UNCHANGED <<closed, archived, keys, reply>>
  BY DEF ApplyErase, Is
<1>1. TypeOK /\ Sound(t) /\ Shape(t)
  BY <1>0, ApplyFacts DEF Sound
<1>2. x \in Requests /\ visits[x] \in Visit /\ holder[<<"visit", x>>] = t
  BY <1>0, <1>1 DEF Shape, TypeOK, Sound, EditHeld
<1>3. /\ holder' \in [Resources -> Requests \cup {None}]
      /\ \A r \in Resources : holder'[r] # t
      /\ pc' = [pc EXCEPT ![t] = "done"] /\ pc'[t] = "done"
      /\ answer' \in [Requests -> {"none", "ok", "lost", "refused", "busy",
                                   "conflict", "error"}]
      /\ UNCHANGED request /\ SameOthers(t) /\ LocksOfOwn(t)
  BY <1>0, CommitFacts
<1>4. visits'[x] \in Visit /\ visits'[x].status = "erased"
  <2>1. visits'[x] = [visits[x] EXCEPT !.status = "erased"]
    BY <1>0, <1>1, <1>2 DEF TypeOK
  <2> QED
    BY <1>2, <2>1 DEF Visit
<1>5. \A v \in Requests \ {x} : visits'[v] = visits[v]
  BY <1>0, <1>1, <1>2 DEF TypeOK
<1>6. visits' \in [Requests -> Visit \cup {NoVisit}]
  <2>1. \A v \in Requests : visits'[v] \in Visit \cup {NoVisit}
    BY <1>1, <1>4, <1>5 DEF TypeOK
  <2>2. visits' = [v \in Requests |-> visits'[v]]
    BY <1>0, <1>1 DEF TypeOK
  <2> QED
    BY <2>1, <2>2
<1>7. TypeOK'
  BY <1>0, <1>1, <1>3, <1>6 DEF TypeOK, request
<1>8. WritesLocked(t)
  BY <1>2, <1>4, <1>5, VisitExists DEF WritesLocked
<1>9. SchedulesLocked(t) /\ ChecksLocked(t)
  BY <1>4, <1>5 DEF SchedulesLocked, ChecksLocked, Scheduled
<1>10. Frame(t)
  BY <1>0, <1>3, <1>8, <1>9 DEF Frame, ClosesLocked, KeysLocked
<1>11. Answered(t)'
  BY <1>0, <1>3 DEF Answered, Is, request
<1>12. Sound(t)'
  BY <1>0, <1>3, <1>8, <1>11, DoneSound
<1> QED
  BY <1>7, <1>10, <1>12 DEF Kept

----------------------------------------------------------------------------
(* The inductive invariant *)

\* One step of one request.
Step(t) ==
    \/ \E o \in Operations : Arrive(t, o)
    \/ ClaimKey(t)
    \/ LockLead(t) \/ LockArchived(t) \/ LockVisits(t) \/ LockEdited(t)
    \/ CheckActive(t) \/ LockManager(t) \/ Probe(t)
    \/ Apply(t)
    \/ Abort(t)

LEMMA StepKept ==
    ASSUME IInv, NEW t \in Requests, Step(t)
    PROVE  Kept(t)
<1>1. CASE \E o \in Operations : Arrive(t, o)
  BY <1>1, ArriveKept
<1>2. CASE ClaimKey(t)
  BY <1>2, ClaimKeyKept
<1>3. CASE LockLead(t)
  BY <1>3, LockLeadKept
<1>4. CASE LockArchived(t)
  BY <1>4, LockArchivedKept
<1>5. CASE LockVisits(t)
  BY <1>5, LockVisitsKept
<1>6. CASE LockEdited(t)
  BY <1>6, LockEditedKept
<1>7. CASE CheckActive(t)
  BY <1>7, CheckActiveKept
<1>8. CASE LockManager(t)
  BY <1>8, LockManagerKept
<1>9. CASE Probe(t)
  BY <1>9, ProbeKept
<1>10. CASE Apply(t)
  BY <1>10, ApplyBookKept, ApplyInviteKept, ApplyCloseKept, ApplyArchiveKept,
     ApplyEditKept, ApplyEraseKept DEF Apply
<1>11. CASE Abort(t)
  BY <1>11, AbortKept
<1> QED
  BY <1>1, <1>2, <1>3, <1>4, <1>5, <1>6, <1>7, <1>8, <1>9, <1>10, <1>11 DEF Step

LEMMA InitInvariant == Init => IInv
<1> SUFFICES ASSUME Init PROVE IInv
  OBVIOUS
<1> USE Names
<1>1. TypeOK
  BY DEF Init, TypeOK
<1>2. LocksExist
  BY DEF Init, LocksExist
<1>3. ASSUME NEW t \in Requests PROVE Sound(t)
  BY <1>3 DEF Init, Sound, Shape, Unlocked, KeyHeld, LeadHeld, EditHeld, Swept, SlotHeld,
              NoneActive, Answered, Claimed
<1>4. \A v \in Requests : ~Scheduled(v)
  BY DEF Init, NoVisit, Scheduled
<1> QED
  BY <1>1, <1>2, <1>3, <1>4
     DEF IInv, CheckedNeverClash, Clash, OneVisitPerKind, ClosedHasNoVisits

LEMMA StepInvariant ==
    ASSUME IInv, NEW t \in Requests, Step(t)
    PROVE  IInv'
<1>1. TypeOK' /\ Frame(t) /\ Sound(t)'
  BY StepKept DEF Kept
<1>2. ASSUME NEW u \in Requests PROVE Sound(u)'
  <2>1. CASE u = t
    BY <1>1, <2>1
  <2>2. CASE u # t
    BY <1>1, <2>2, FrameSound
  <2> QED
    BY <2>1, <2>2
<1>3. LocksExist' /\ CheckedNeverClash' /\ OneVisitPerKind' /\ ClosedHasNoVisits'
  BY <1>1, FrameInvariants
<1> QED
  BY <1>1, <1>2, <1>3 DEF IInv

LEMMA NextInvariant == IInv /\ [Next]_vars => IInv'
<1> SUFFICES ASSUME IInv, [Next]_vars PROVE IInv'
  OBVIOUS
<1>1. CASE Next
  <2>1. PICK t \in Requests : Step(t)
    BY <1>1 DEF Next, Step
  <2> QED
    BY <2>1, StepInvariant
<1>2. CASE UNCHANGED vars
  <2>1. /\ UNCHANGED <<visits, closed, archived, keys, holder, pc, ask, key, target, base>>
        /\ UNCHANGED <<answer, reply>>
    BY <1>2 DEF vars, data, request
  <2>2. TypeOK' /\ LocksExist'
    BY <2>1 DEF IInv, TypeOK, LocksExist
  <2>3. ASSUME NEW t \in Requests PROVE Sound(t)'
    <3>1. Sound(t)
      BY DEF IInv
    <3>2. /\ Is(t, {"book"})' <=> Is(t, {"book"})
          /\ Is(t, {"edit"})' <=> Is(t, {"edit"})
          /\ Is(t, {"invite"})' <=> Is(t, {"invite"})
          /\ Is(t, {"erase"})' <=> Is(t, {"erase"})
          /\ Is(t, {"book", "edit"})' <=> Is(t, {"book", "edit"})
          /\ Is(t, {"edit", "erase"})' <=> Is(t, {"edit", "erase"})
          /\ Is(t, {"invite", "close"})' <=> Is(t, {"invite", "close"})
          /\ Keyed(t)' <=> Keyed(t)
          /\ KeyOf(t)' = KeyOf(t)
      BY <2>1 DEF Is, Keyed, KeyOf
    <3>3. Shape(t)'
      BY <2>1, <3>1 DEF Sound, Shape, Keyed, Is
    <3>4. (Unlocked(t) /\ KeyHeld(t) /\ LeadHeld(t) /\ Answered(t))'
      BY <2>1, <3>1, <3>2 DEF Sound, Unlocked, KeyHeld, LeadHeld, Answered
    <3>5. (EditHeld(t) /\ SlotHeld(t))'
      BY <2>1, <3>1, <3>2
         DEF Sound, EditHeld, EditGuard, SlotHeld, Rival, Vetted, Checks, Scheduled, Overlaps
    <3>6. (Swept(t) /\ NoneActive(t))'
      BY <2>1, <3>1, <3>2 DEF Sound, Swept, Mine, NoneActive, Scheduled
    <3> QED
      BY <3>3, <3>4, <3>5, <3>6 DEF Sound
  <2>4. (CheckedNeverClash /\ OneVisitPerKind /\ ClosedHasNoVisits)'
    BY <2>1 DEF IInv, CheckedNeverClash, Clash, Overlaps, OneVisitPerKind,
                ClosedHasNoVisits, Scheduled
  <2> QED
    BY <2>2, <2>3, <2>4 DEF IInv
<1> QED
  BY <1>1, <1>2

----------------------------------------------------------------------------
(* Theorems *)

\* Every reachable state satisfies the inductive invariant.
THEOREM Inductive == Spec => []IInv
<1>1. Init => IInv
  BY InitInvariant
<1>2. IInv /\ [Next]_vars => IInv'
  BY NextInvariant
<1> QED
  BY <1>1, <1>2, PTL DEF Spec

\* Every variable keeps its type under any number of concurrent requests.
THEOREM TypeCorrect == Spec => []TypeOK
<1>1. IInv => TypeOK
  BY DEF IInv
<1> QED
  BY <1>1, Inductive, PTL

\* Visits that went through the availability check never overlap for one manager
\* (lockManagerSchedule and managerOverlapExists, however requests interleave).
THEOREM NoCheckedClash == Spec => []CheckedNeverClash
<1>1. IInv => CheckedNeverClash
  BY DEF IInv
<1> QED
  BY <1>1, Inductive, PTL

\* A lead has at most one scheduled visit of a kind: the lead row lock covers the
\* checks of createAppointment and of scheduleLegacyAppointment.
THEOREM OnePerKind == Spec => []OneVisitPerKind
<1>1. IInv => OneVisitPerKind
  BY DEF IInv
<1> QED
  BY <1>1, Inductive, PTL

\* A lead that was closed has no scheduled visit, also when a booking ran at the
\* same time (cancelScheduledAppointmentsForLead).
THEOREM ClosedIsEmpty == Spec => []ClosedHasNoVisits
<1>1. IInv => ClosedHasNoVisits
  BY DEF IInv
<1> QED
  BY <1>1, Inductive, PTL

\* A booking retried with its key inserts at most one visit, and every answer
\* names it (claimIdempotency and storeIdempotencyResponse).
THEOREM RetryBooksOnce == Spec => []OncePerKey
<1>1. IInv => OncePerKey
  <2> SUFFICES ASSUME IInv, NEW t \in Requests, NEW u \in Requests, t # u,
                      pc[t] = "done", pc[u] = "done", Is(t, {"book"}), Is(u, {"book"}),
                      key[t] = key[u]
               PROVE  /\ visits[t] = NoVisit \/ visits[u] = NoVisit
                      /\ reply[t] # None /\ reply[u] # None => reply[t] = reply[u]
    BY DEF OncePerKey
  <2>1. KeyOf(t) = KeyOf(u)
    BY DEF KeyOf
  <2>2. Answered(t) /\ Answered(u)
    BY DEF IInv, Sound
  <2> QED
    BY <2>1, <2>2 DEF Answered
<1> QED
  BY <1>1, Inductive, PTL

\* A committed edit was made against the version its author saw (updateAppointment
\* compares it under the visit's row lock and holds the lock until the commit).
THEOREM EditsSeeTheirVersion == Spec => NoBlindEdit
<1> DEFINE Seen(t) ==
      answer[t] = "none" /\ answer'[t] \in {"ok", "lost"} /\ Is(t, {"edit"})
          => visits[target[t]].version = base[t]
<1>1. IInv /\ [Next]_vars => [\A t \in Requests : Seen(t)]_vars
  <2> SUFFICES ASSUME IInv, Next, NEW t \in Requests, answer[t] = "none",
                      answer'[t] \in {"ok", "lost"}, Is(t, {"edit"})
               PROVE  visits[target[t]].version = base[t]
    OBVIOUS
  <2>1. PICK u \in Requests : Step(u)
    BY DEF Next, Step
  <2>2. u = t
    <3>1. u # t => answer'[t] = answer[t]
      BY <2>1, StepKept DEF Kept, Frame, SameOthers
    <3> QED
      BY <3>1
  <2>3. Sound(t) /\ TypeOK
    BY DEF IInv
  <2>4. CASE ApplyEdit(t)
    BY <2>3, <2>4 DEF ApplyEdit, Sound, EditHeld, EditGuard
  <2>5. ~ClaimKey(t)
    BY <2>3 DEF ClaimKey, Sound, Shape, Keyed, Is
  <2>6. ~(ApplyBook(t) \/ ApplyInvite(t) \/ ApplyClose(t) \/ ApplyArchive(t) \/ ApplyErase(t))
    BY DEF ApplyBook, ApplyInvite, ApplyClose, ApplyArchive, ApplyErase, Is
  <2>7. ASSUME NEW how \in {"refused", "busy", "conflict", "error"}, Refuse(t, how)
        PROVE  FALSE
    BY <2>3, <2>7 DEF Refuse, Finish, TypeOK
  <2>8. ASSUME NEW step, Proceed(t, step) PROVE FALSE
    BY <2>8 DEF Proceed
  <2>9. ASSUME NEW o \in Operations, Arrive(t, o) PROVE FALSE
    BY <2>9 DEF Arrive
  <2>10. ~(LockLead(t) \/ LockArchived(t) \/ LockVisits(t) \/ LockEdited(t))
    BY <2>7, <2>8 DEF LockLead, LockArchived, LockVisits, LockEdited
  <2>11. ~(CheckActive(t) \/ LockManager(t) \/ Probe(t) \/ Abort(t))
    BY <2>7, <2>8 DEF CheckActive, LockManager, Probe, Abort
  <2> QED
    BY <2>1, <2>2, <2>4, <2>5, <2>6, <2>9, <2>10, <2>11 DEF Step, Apply
<1> QED
  BY <1>1, Inductive, PTL DEF Spec, NoBlindEdit
----------------------------------------------------------------------------
(* The promise of the key (Once) *)

Id(k) == <<"appointment.create", k>>

\* What a key remembers is a booking with that key, which inserted its visit.
Remembered(k) ==
    keys[Id(k)] # None => /\ keys[Id(k)].made \in Requests
                          /\ BookingKeys[keys[Id(k)].made] = k
                          /\ visits[keys[Id(k)].made] # NoVisit
OnceInv == \A k \in Keys : Remembered(k)

\* So the visits of a key are the one it remembers.
VisitsRemembered ==
    [k \in Keys |-> IF keys[Id(k)] # None THEN {keys[Id(k)].made} ELSE {}]

LEMMA MadeIsRemembered == IInv /\ OnceInv => VisitsMade = VisitsRemembered
<1> SUFFICES ASSUME IInv, OnceInv PROVE VisitsMade = VisitsRemembered OBVIOUS
<1>1. ASSUME NEW k \in Keys, NEW t \in Requests, BookingKeys[t] = k, visits[t] # NoVisit
      PROVE  keys[Id(k)] # None /\ keys[Id(k)].made = t
  <2>1. k # None BY NoneAssumption
  <2>2. Is(t, {"book"}) /\ key[t] = k BY <1>1, <2>1 DEF BookingKeys, Booking
  <2>3. Shape(t) /\ Answered(t) BY DEF IInv, Sound
  <2>4. KeyOf(t) = Id(k) BY <2>2 DEF KeyOf, Id
  <2> QED BY <1>1, <2>2, <2>3, <2>4 DEF Shape, Answered
<1>2. ASSUME NEW k \in Keys
      PROVE  {t \in Requests : BookingKeys[t] = k /\ visits[t] # NoVisit}
             = IF keys[Id(k)] # None THEN {keys[Id(k)].made} ELSE {}
  BY <1>1 DEF OnceInv, Remembered
<1> QED BY <1>2 DEF VisitsMade, VisitsRemembered

LEMMA MadeStaysRemembered == (IInv /\ OnceInv => VisitsMade = VisitsRemembered)'
BY MadeIsRemembered, PTL

LEMMA IdIsKey == \A k \in Keys : Id(k) \in KeyIds BY DEF Id, KeyIds

LEMMA InitOnce == Init => OnceInv /\ Bookings!Init
<1> SUFFICES ASSUME Init PROVE OnceInv /\ Bookings!Init OBVIOUS
<1>1. OnceInv BY IdIsKey DEF Init, OnceInv, Remembered
<1>2. BookingKeys = [t \in Requests |-> None] BY DEF Init, BookingKeys, Booking
<1>3. VisitsMade = [k \in Keys |-> {}] BY DEF Init, VisitsMade
<1>4. VisitsTold = [t \in Requests |-> {}] BY DEF Init, VisitsTold, Booking
<1> QED BY <1>1, <1>2, <1>3, <1>4 DEF Bookings!Init

\* The other requests keep their keys and answers, and every visit stays.
LEMMA OthersStay ==
    ASSUME IInv, NEW t \in Requests, Step(t)
    PROVE  /\ IInv'
           /\ \A u \in Requests \ {t} : /\ BookingKeys'[u] = BookingKeys[u]
                                        /\ VisitsTold'[u] = VisitsTold[u]
           /\ \A v \in Requests : visits[v] # NoVisit => visits'[v] # NoVisit
<1>1. IInv' /\ Kept(t) BY StepInvariant, StepKept
<1>2. SameOthers(t) /\ WritesLocked(t) BY <1>1 DEF Kept, Frame
<1> QED BY <1>1, <1>2
        DEF SameOthers, WritesLocked, BookingKeys, VisitsTold, Booking, Is

\* A step that stores no booking and answers none is no step of the keys.
LEMMA Unheard ==
    ASSUME IInv, OnceInv, NEW t \in Requests, Step(t), BookingKeys'[t] = BookingKeys[t],
           VisitsTold'[t] = VisitsTold[t],
           \A k \in Keys : keys'[Id(k)] = keys[Id(k)]
    PROVE  OnceInv' /\ UNCHANGED Bookings!onceVars
<1>1. /\ IInv'
      /\ \A u \in Requests : /\ BookingKeys'[u] = BookingKeys[u]
                             /\ VisitsTold'[u] = VisitsTold[u]
      /\ \A v \in Requests : visits[v] # NoVisit => visits'[v] # NoVisit
  BY OthersStay
<1>2. OnceInv' BY <1>1 DEF OnceInv, Remembered, Id
<1>3. BookingKeys' = BookingKeys BY <1>1 DEF BookingKeys
<1>4. VisitsTold' = VisitsTold BY <1>1 DEF VisitsTold
<1>5. VisitsMade' = VisitsMade
  BY <1>1, <1>2, MadeIsRemembered, MadeStaysRemembered DEF VisitsRemembered, Id
<1> QED BY <1>2, <1>3, <1>4, <1>5 DEF Bookings!onceVars

LEMMA StillIsUnheard ==
    ASSUME IInv, OnceInv, NEW t \in Requests, Step(t), pc[t] # "new", pc'[t] # "new",
           UNCHANGED request, reply'[t] = reply[t] \/ ~Is(t, {"book"}),
           \A k \in Keys : keys'[Id(k)] = keys[Id(k)]
    PROVE  OnceInv' /\ UNCHANGED Bookings!onceVars
<1>1. BookingKeys'[t] = BookingKeys[t] BY DEF BookingKeys, Booking, Is, request
<1>2. VisitsTold'[t] = VisitsTold[t] BY DEF VisitsTold, Booking, Is, request
<1> QED BY <1>1, <1>2, Unheard

LEMMA ArriveStep ==
    ASSUME IInv, OnceInv, NEW t \in Requests, NEW o \in Operations, Arrive(t, o)
    PROVE  OnceInv' /\ ((\E k \in Keys : Bookings!Ask(t, k)) \/ UNCHANGED Bookings!onceVars)
<1>1. Step(t) BY DEF Step
<1>2. /\ pc[t] = "new" /\ UNCHANGED <<visits, keys, reply>> /\ reply[t] = None
      /\ visits[t] = NoVisit /\ ask'[t] = o /\ pc'[t] \in {"key", "visit"}
      /\ o.op = "book" => \E k \in Keys : key'[t] = k
  BY DEF Arrive, data, IInv, Sound, Shape, TypeOK, Goto
<1>3. VisitsTold[t] = {} /\ VisitsTold'[t] = {} BY <1>2 DEF VisitsTold
<1>4. BookingKeys[t] = None BY <1>2 DEF BookingKeys, Booking
<1>5. CASE o.op # "book"
  <2>1. BookingKeys'[t] = None BY <1>2, <1>5 DEF BookingKeys, Booking, Is
  <2> QED BY <1>1, <1>2, <1>3, <1>4, <2>1, Unheard DEF Id
<1>6. CASE o.op = "book"
  <2>1. PICK k \in Keys : key'[t] = k BY <1>2, <1>6
  <2>2. BookingKeys'[t] = k BY <1>2, <1>6, <2>1 DEF BookingKeys, Booking, Is
  <2>3. /\ \A u \in Requests \ {t} : /\ BookingKeys'[u] = BookingKeys[u]
                                     /\ VisitsTold'[u] = VisitsTold[u]
    BY <1>1, OthersStay
  <2>4. BookingKeys' = [BookingKeys EXCEPT ![t] = k] BY <2>2, <2>3 DEF BookingKeys
  <2>5. VisitsTold' = VisitsTold BY <1>3, <2>3 DEF VisitsTold
  <2>6. VisitsMade' = VisitsMade BY <1>2, <2>3 DEF VisitsMade
  <2>7. OnceInv'
    BY <1>2, <2>3 DEF OnceInv, Remembered, Id
  <2> QED BY <1>4, <2>4, <2>5, <2>6, <2>7 DEF Bookings!Ask
<1> QED BY <1>5, <1>6

LEMMA ClaimStep ==
    ASSUME IInv, OnceInv, NEW t \in Requests, ClaimKey(t)
    PROVE  OnceInv' /\ (Bookings!Replay(t) \/ UNCHANGED Bookings!onceVars)
<1> DEFINE stored == keys[KeyOf(t)]
<1>1. /\ Step(t) /\ pc[t] = "key" /\ reply[t] = None /\ key[t] \in Keys
  BY DEF Step, ClaimKey, IInv, Sound, Shape
<1>2. /\ UNCHANGED <<data, request>> /\ pc'[t] # "new"
      /\ reply' \in {reply, [reply EXCEPT ![t] = stored.made]}
      /\ reply'[t] # reply[t] => stored # None
  BY DEF ClaimKey, Refuse, Proceed, Finish, Goto, IInv, TypeOK
<1>3. \A k \in Keys : keys'[Id(k)] = keys[Id(k)] BY <1>2 DEF data, Id
<1>4. CASE reply'[t] = reply[t] \/ ~Is(t, {"book"})
  BY <1>1, <1>2, <1>3, <1>4, StillIsUnheard
<1>5. CASE reply'[t] # reply[t] /\ Is(t, {"book"})
  <2> DEFINE k == key[t]
  <2>1. /\ KeyOf(t) = Id(k) /\ k \in Keys /\ k # None /\ keys[Id(k)] # None
        /\ BookingKeys[t] = k /\ VisitsTold[t] = {}
    BY <1>1, <1>2, <1>5, NoneAssumption
       DEF KeyOf, Id, BookingKeys, Booking, VisitsTold
  <2>2. reply'[t] = keys[Id(k)].made /\ keys[Id(k)].made # None
    BY <1>2, <1>5, <2>1, NoneAssumption DEF OnceInv, Remembered, IInv, TypeOK
  <2>3. VisitsMade[k] = {keys[Id(k)].made} BY <2>1, MadeIsRemembered DEF VisitsRemembered
  <2>4. VisitsTold'[t] = VisitsMade[k]
    BY <1>1, <1>2, <1>5, <2>2, <2>3 DEF VisitsTold, Booking, Is, request
  <2>5. /\ \A u \in Requests \ {t} : /\ BookingKeys'[u] = BookingKeys[u]
                                     /\ VisitsTold'[u] = VisitsTold[u]
    BY <1>1, OthersStay
  <2>6. BookingKeys'[t] = BookingKeys[t]
    BY <1>1, <1>2 DEF BookingKeys, Booking, Is, request
  <2>7. BookingKeys' = BookingKeys BY <2>5, <2>6 DEF BookingKeys
  <2>8. VisitsMade' = VisitsMade BY <1>2, <2>7 DEF VisitsMade, data
  <2>9. OnceInv' BY <1>2, <2>7 DEF OnceInv, Remembered, Id, data
  <2> HIDE DEF k
  <2>10. VisitsTold' = [VisitsTold EXCEPT ![t] = VisitsMade[k]]
    BY <2>4, <2>5 DEF VisitsTold
  <2> QED BY <2>1, <2>3, <2>7, <2>8, <2>9, <2>10 DEF Bookings!Replay
<1> QED BY <1>4, <1>5

LEMMA BookStep ==
    ASSUME IInv, OnceInv, NEW t \in Requests, ApplyBook(t)
    PROVE  OnceInv' /\ Bookings!Work(t)
<1> DEFINE k == key[t]
<1>1. /\ Step(t) /\ pc[t] = "apply" /\ Is(t, {"book"}) /\ Keyed(t) /\ StoreResponse(t, t)
      /\ Commit(t) /\ visits' = [visits EXCEPT ![t] = Placed(t, ask[t].kind, 1, TRUE)]
  BY DEF Step, Apply, ApplyBook, Keyed, Is
<1>2. /\ k \in Keys /\ k # None /\ KeyOf(t) = Id(k) /\ keys[Id(k)] = None
      /\ Id(k) \in KeyIds /\ t # None
  BY <1>1, ApplyFacts, NoneAssumption DEF Sound, Shape, KeyOf, Id
<1>3. /\ keys'[Id(k)] # None /\ keys'[Id(k)].made = t /\ reply'[t] = t
      /\ \A u \in Requests \ {t} : reply'[u] = reply[u]
  BY <1>1, <1>2, StoreFacts
<1>4. UNCHANGED request /\ pc'[t] = "done" BY <1>1, <1>3, CommitFacts
<1>5. /\ IInv'
      /\ \A u \in Requests \ {t} : /\ BookingKeys'[u] = BookingKeys[u]
                                   /\ VisitsTold'[u] = VisitsTold[u]
      /\ \A v \in Requests : visits[v] # NoVisit => visits'[v] # NoVisit
  BY <1>1, OthersStay
<1>6. BookingKeys[t] = k /\ BookingKeys'[t] = k
  BY <1>1, <1>4 DEF BookingKeys, Booking, Is, request
<1>7. visits'[t] # NoVisit
  BY <1>1, <1>5 DEF IInv, TypeOK, Placed, NoVisit
<1>8. \A q \in Keys \ {k} : keys'[Id(q)] = keys[Id(q)]
  BY <1>1, <1>2 DEF StoreResponse, Id
<1>9. OnceInv'
  <2> SUFFICES ASSUME NEW q \in Keys, keys'[Id(q)] # None
               PROVE  /\ keys'[Id(q)].made \in Requests
                      /\ BookingKeys'[keys'[Id(q)].made] = q
                      /\ visits'[keys'[Id(q)].made] # NoVisit
    BY DEF OnceInv, Remembered, Id
  <2>1. CASE q = k BY <1>3, <1>6, <1>7, <2>1
  <2>2. CASE q # k BY <1>5, <1>6, <1>8, <2>2 DEF OnceInv, Remembered
  <2> QED BY <2>1, <2>2
<1>10. VisitsMade[k] = {} BY <1>2, MadeIsRemembered DEF VisitsRemembered
<1>11. BookingKeys' = BookingKeys BY <1>5, <1>6 DEF BookingKeys
<1>12. VisitsMade' = [VisitsMade EXCEPT ![k] = {t}]
  <2>1. VisitsMade = VisitsRemembered /\ VisitsMade' = VisitsRemembered'
    BY <1>5, <1>9, MadeIsRemembered, MadeStaysRemembered
  <2>2. VisitsRemembered' = [VisitsRemembered EXCEPT ![k] = {t}]
    BY <1>2, <1>3, <1>8 DEF VisitsRemembered, Id
  <2> QED BY <2>1, <2>2
<1>13. VisitsTold' = [VisitsTold EXCEPT ![t] = {t}]
  <2>1. VisitsTold'[t] = {t} BY <1>1, <1>2, <1>3, <1>4 DEF VisitsTold, Booking, Is, request
  <2> QED BY <1>5, <2>1 DEF VisitsTold
<1> HIDE DEF k
<1> QED BY <1>2, <1>6, <1>9, <1>10, <1>11, <1>12, <1>13 DEF Bookings!Work

LEMMA ApplyStep ==
    ASSUME IInv, OnceInv, NEW t \in Requests, Apply(t)
    PROVE  OnceInv' /\ (Bookings!Work(t) \/ UNCHANGED Bookings!onceVars)
<1>0. Step(t) BY DEF Step
<1>1. CASE ApplyBook(t) BY <1>1, BookStep
<1>2. CASE ~ApplyBook(t)
  <2>1. pc[t] = "apply" /\ Commit(t)
    BY <1>2 DEF Apply, ApplyInvite, ApplyClose, ApplyArchive, ApplyEdit, ApplyErase
  <2>2. pc'[t] = "done" /\ UNCHANGED request
    BY <2>1 DEF Commit, Finish, Goto, IInv, TypeOK
  <2>3. CASE Is(t, {"invite", "close"})
    <3>1. PICK made : keys' = [keys EXCEPT ![KeyOf(t)] = [body |-> ask[t], made |-> made]]
      BY <1>2, <2>3 DEF Apply, ApplyInvite, ApplyClose, ApplyArchive, ApplyEdit,
                        ApplyErase, StoreResponse, Is
    <3>2. ~Is(t, {"book"}) BY <2>3 DEF Is
    <3>3. \A k \in Keys : KeyOf(t) # Id(k) BY <3>2 DEF KeyOf, Id
    <3>4. \A k \in Keys : keys'[Id(k)] = keys[Id(k)]
      BY <3>1, <3>3, IdIsKey DEF IInv, TypeOK
    <3> QED BY <1>0, <2>1, <2>2, <3>2, <3>4, StillIsUnheard
  <2>4. CASE ~Is(t, {"invite", "close"})
    <3>1. UNCHANGED <<keys, reply>>
      BY <1>2, <2>4 DEF Apply, ApplyInvite, ApplyClose, ApplyArchive, ApplyEdit,
                        ApplyErase, Is
    <3>2. \A k \in Keys : keys'[Id(k)] = keys[Id(k)] BY <3>1 DEF Id
    <3> QED BY <1>0, <2>1, <2>2, <3>1, <3>2, StillIsUnheard
  <2> QED BY <2>3, <2>4
<1> QED BY <1>1, <1>2

LEMMA RefusalIsUnheard ==
    ASSUME IInv, OnceInv, NEW t \in Requests, Step(t), pc[t] # "new",
           \/ \E how \in {"refused", "busy", "conflict", "error"} : Refuse(t, how)
           \/ \E step \in {"visit", "active", "manager", "probe", "apply", "lead"} :
                 Proceed(t, step)
    PROVE  OnceInv' /\ UNCHANGED Bookings!onceVars
<1>1. UNCHANGED <<data, request, reply>> /\ pc'[t] # "new"
  BY DEF Refuse, Proceed, Finish, Goto, IInv, TypeOK
<1>2. \A k \in Keys : keys'[Id(k)] = keys[Id(k)] BY <1>1 DEF data, Id
<1> QED BY <1>1, <1>2, StillIsUnheard

LEMMA NextOnce ==
    ASSUME IInv, OnceInv, [Next]_vars
    PROVE  OnceInv' /\ [Bookings!Next]_(Bookings!onceVars)
<1>1. ASSUME NEW t \in Requests, Step(t)
      PROVE  /\ OnceInv'
             /\ \/ \E k \in Keys : Bookings!Ask(t, k)
                \/ Bookings!Work(t) \/ Bookings!Replay(t)
                \/ UNCHANGED Bookings!onceVars
  <2>1. CASE \E o \in Operations : Arrive(t, o) BY <2>1, ArriveStep
  <2>2. CASE ClaimKey(t) BY <2>2, ClaimStep
  <2>3. CASE Apply(t) BY <2>3, ApplyStep
  <2>4. CASE LockLead(t) \/ LockArchived(t) \/ LockVisits(t) \/ LockEdited(t)
    BY <1>1, <2>4, RefusalIsUnheard DEF LockLead, LockArchived, LockVisits, LockEdited
  <2>5. CASE CheckActive(t) \/ LockManager(t) \/ Probe(t)
    BY <1>1, <2>5, RefusalIsUnheard DEF CheckActive, LockManager, Probe
  <2>6. CASE Abort(t) BY <1>1, <2>6, RefusalIsUnheard DEF Abort
  <2> QED BY <1>1, <2>1, <2>2, <2>3, <2>4, <2>5, <2>6 DEF Step
<1>2. CASE Next
  <2>1. PICK t \in Requests : Step(t) BY <1>2 DEF Next, Step
  <2> QED BY <1>1, <2>1 DEF Bookings!Next
<1>3. CASE UNCHANGED vars
  <2>1. UNCHANGED <<visits, keys, pc, ask, key, reply>> BY <1>3 DEF vars, data, request
  <2>2. UNCHANGED BookingKeys BY <2>1 DEF BookingKeys, Booking, Is
  <2>3. UNCHANGED VisitsMade BY <2>1, <2>2 DEF VisitsMade
  <2>4. UNCHANGED VisitsTold BY <2>1 DEF VisitsTold, Booking, Is
  <2>5. OnceInv' BY <2>1, <2>2 DEF OnceInv, Remembered, Id
  <2> QED BY <2>2, <2>3, <2>4, <2>5 DEF Bookings!onceVars
<1> QED BY <1>2, <1>3

\* A booking keeps the promise of its idempotency key: the commit of a booking does
\* the work of its key, which no other request does again, and claimIdempotency
\* answers a retry with that visit and no other (workflow.go:188).
THEOREM BookingsImplementOnce == Spec => BookingsAreOnce
<1>1. Init => OnceInv BY InitOnce
<1>2. Init => Bookings!Init BY InitOnce
<1>3. IInv /\ OnceInv /\ [Next]_vars => OnceInv' BY NextOnce
<1>4. IInv /\ OnceInv /\ [Next]_vars => [Bookings!Next]_(Bookings!onceVars) BY NextOnce
<1> QED BY <1>1, <1>2, <1>3, <1>4, Inductive, PTL DEF Spec, BookingsAreOnce, Bookings!Spec
=============================================================================
