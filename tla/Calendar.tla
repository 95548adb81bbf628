------------------------------ MODULE Calendar ------------------------------
(***************************************************************************)
(* The shared calendar under concurrent requests: POST and PATCH           *)
(* /v1/appointments, the lead activities that schedule or cancel visits,   *)
(* archiving a lead and deleting the entry of an office work block         *)
(* (internal/crmapi/appointments.go, workflow.go, activities.go).          *)
(*                                                                         *)
(* Each request is one read committed transaction and runs once.  A step   *)
(* waits for the locks it needs, reads, and locks are held until the end:  *)
(* the idempotency key, the lead row, visit rows, a manager's advisory     *)
(* lock.  Nothing a transaction wrote is seen before its commit.  A visit  *)
(* is named after the request that inserted it.                            *)
(***************************************************************************)
EXTENDS Naturals

CONSTANTS
    Requests,      \* one-shot HTTP requests
    Leads,
    Managers,
    Keys,          \* Idempotency-Key values, all of one actor
    Operations,    \* what the clients may ask for
    None

Ops == {"book", "invite", "close", "edit", "archive", "erase"}
Kinds == {"showroom", "measurement", "office_work"}

\* lead, kind: of book, invite (showroom), close and archive; start, len, mgr: of
\* book, invite (one hour) and edit; ends: the edit carries an outcome.
Operation == [op : Ops, lead : Leads, kind : Kinds, start : Nat, len : Nat \ {0},
              mgr : Managers, ends : BOOLEAN]

ASSUME OperationsAssumption == Operations \subseteq Operation
ASSUME NoneAssumption ==
    None \notin Requests \cup Keys \cup Operations
             \cup [body : Operations, made : Requests \cup {None}]

\* An activity and a booking with the same key do not meet.
KeyIds == {"appointment.create", "lead.activity"} \X Keys
Resources == ({"key"} \X KeyIds) \cup ({"lead"} \X Leads)
             \cup ({"visit"} \X Requests) \cup ({"manager"} \X Managers)

VARIABLES
    visits,      \* public.lead_showroom_visits
    closed,      \* leads whose client status is terminal
    archived,    \* leads.archived_at
    keys,        \* public.api_idempotency_keys, with the visit of the response
    holder,      \* holder[r]: the transaction that holds lock r
    pc,          \* pc[t]: the step request t is at
    ask,         \* ask[t]: its operation
    key,         \* key[t]: its Idempotency-Key
    target,      \* target[t]: the visit it edits or erases
    base,        \* base[t]: its If-Match version
    answer,      \* answer[t]: how it ended
    reply        \* reply[t]: the visit in its response

data == <<visits, closed, archived, keys>>
request == <<ask, key, target, base>>
vars == <<data, holder, pc, request, answer, reply>>

NoVisit == [status |-> "none"]
Visit == [lead : Leads, kind : Kinds, start : Nat, len : Nat \ {0}, mgr : Managers,
          status : {"scheduled", "ended", "canceled", "erased"}, version : Nat,
          checked : BOOLEAN]     \* history: its slot went through ensureManagerFree

TypeOK ==
    /\ visits \in [Requests -> Visit \cup {NoVisit}]
    /\ closed \in SUBSET Leads /\ archived \in SUBSET Leads
    /\ keys \in [KeyIds -> [body : Operations, made : Requests \cup {None}] \cup {None}]
    /\ holder \in [Resources -> Requests \cup {None}]
    /\ pc \in [Requests -> {"new", "key", "lead", "visit", "active", "manager",
                            "probe", "apply", "done"}]
    /\ ask \in [Requests -> Operations \cup {None}]
    /\ key \in [Requests -> Keys \cup {None}]
    /\ target \in [Requests -> Requests \cup {None}]
    /\ base \in [Requests -> Nat]
    /\ answer \in [Requests -> {"none", "ok", "lost", "refused", "busy",
                                "conflict", "error"}]
    /\ reply \in [Requests -> Requests \cup {None}]

Init ==
    /\ visits = [t \in Requests |-> NoVisit]
    /\ closed = {} /\ archived = {}
    /\ keys = [k \in KeyIds |-> None]
    /\ holder = [r \in Resources |-> None]
    /\ pc = [t \in Requests |-> "new"]
    /\ ask = [t \in Requests |-> None]
    /\ key = [t \in Requests |-> None]
    /\ target = [t \in Requests |-> None]
    /\ base = [t \in Requests |-> 0]
    /\ answer = [t \in Requests |-> "none"]
    /\ reply = [t \in Requests |-> None]

----------------------------------------------------------------------------
(* Helpers *)

Is(t, ops) == ask[t].op \in ops
KeyOf(t) == <<IF Is(t, {"book"}) THEN "appointment.create" ELSE "lead.activity", key[t]>>
LeadOf(t) == IF Is(t, {"edit", "erase"}) THEN visits[target[t]].lead ELSE ask[t].lead

Scheduled(v) == visits[v].status = "scheduled"

\* other.scheduled_at < $4 and other.ends_at > $3
Overlaps(a, b) == a.start < b.start + b.len /\ a.start + a.len > b.start

Free(t, resources) == \A r \in resources : holder[r] \in {None, t}
Lock(t, resources) ==
    /\ Free(t, resources)
    /\ holder' = [r \in Resources |-> IF r \in resources THEN t ELSE holder[r]]
Goto(t, step) == pc' = [pc EXCEPT ![t] = step]

\* The transaction ends, its locks go, and the handler answers.
Finish(t, how) ==
    /\ Goto(t, "done")
    /\ holder' = [r \in Resources |-> IF holder[r] = t THEN None ELSE holder[r]]
    /\ answer' = [answer EXCEPT ![t] = how]
    /\ UNCHANGED request
Refuse(t, how) == Finish(t, how) /\ UNCHANGED <<data, reply>>
Proceed(t, step) == Goto(t, step) /\ UNCHANGED <<data, request, answer, reply>>

----------------------------------------------------------------------------
(* A request arrives; an editor read the visit before, or reads it now. *)

Arrive(t, o) ==
    /\ pc[t] = "new"
    /\ ask' = [ask EXCEPT ![t] = o]
    /\ \/ /\ o.op \in {"book", "invite", "close"}
          /\ \E k \in Keys : key' = [key EXCEPT ![t] = k]
          /\ Goto(t, "key")
          /\ UNCHANGED <<target, base>>
       \/ /\ o.op \in {"edit", "erase"}
          /\ \E v \in Requests :
                /\ visits[v].status \notin {"none", "erased"}
                /\ o.op = "erase" => visits[v].kind = "office_work"
                /\ o.ends => visits[v].kind # "office_work"
                /\ target' = [target EXCEPT ![t] = v]
                /\ base' = [base EXCEPT ![t] = visits[v].version]
          /\ Goto(t, "visit")
          /\ UNCHANGED key
       \/ /\ o.op = "archive"
          /\ Goto(t, "visit")
          /\ UNCHANGED <<key, target, base>>
    /\ UNCHANGED <<data, holder, answer, reply>>

----------------------------------------------------------------------------
(* claimIdempotency *)

\* Mutated forms (Bad...): plausible bugs for the mutation runs.
BadClaimKey(t) ==
    /\ pc[t] = "key"
    /\ LET stored == keys[KeyOf(t)]
       IN CASE stored = None -> UNCHANGED holder /\ Proceed(t, "lead")
            [] stored # None /\ stored.body = ask[t] ->
                 /\ Finish(t, "ok")
                 /\ reply' = [reply EXCEPT ![t] = stored.made]
                 /\ UNCHANGED data
            [] stored # None /\ stored.body # ask[t] -> Refuse(t, "conflict")

\* The insert waits for a transaction with the same key.  A committed row is
\* replayed to the same request and refuses another one.
ClaimKey(t) ==
    /\ pc[t] = "key"
    /\ Free(t, {<<"key", KeyOf(t)>>})
    /\ LET stored == keys[KeyOf(t)]
       IN CASE stored = None -> Lock(t, {<<"key", KeyOf(t)>>}) /\ Proceed(t, "lead")
            [] stored # None /\ stored.body = ask[t] ->
                 /\ Finish(t, "ok")
                 /\ reply' = [reply EXCEPT ![t] = stored.made]
                 /\ UNCHANGED data
            [] stored # None /\ stored.body # ask[t] -> Refuse(t, "conflict")

----------------------------------------------------------------------------
(* Row locks *)

\* select ... from leads for update, and the guards on what it returns
BadLockLead(t) ==
    /\ pc[t] = "lead" /\ ~Is(t, {"edit", "archive"})
    /\ IF LeadOf(t) \in closed \cup archived
       THEN Refuse(t, "refused")
       ELSE /\ Proceed(t, IF Is(t, {"book"}) THEN "active" ELSE "visit")
            /\ UNCHANGED holder
LockLead(t) ==
    /\ pc[t] = "lead" /\ ~Is(t, {"edit", "archive"})
    /\ Free(t, {<<"lead", LeadOf(t)>>})
    /\ IF LeadOf(t) \in closed \cup archived
       THEN Refuse(t, "refused")
       ELSE /\ Lock(t, {<<"lead", LeadOf(t)>>})
            /\ Proceed(t, IF Is(t, {"book"}) THEN "active" ELSE "visit")

\* handleArchiveLead updates the lead after it canceled its visits.
LockArchived(t) ==
    /\ pc[t] = "lead" /\ Is(t, {"archive"})
    /\ Lock(t, {<<"lead", LeadOf(t)>>})
    /\ Proceed(t, "apply")

\* The visits the request is going to write.
Touches(t) ==
    IF Is(t, {"edit", "erase"}) THEN {target[t]}
    ELSE {v \in Requests : /\ Scheduled(v) /\ visits[v].lead = LeadOf(t)
                           /\ Is(t, {"invite"}) => visits[v].kind = "showroom"}

LockVisits(t) ==
    /\ pc[t] = "visit"
    /\ Lock(t, {<<"visit", v>> : v \in Touches(t)})
    /\ Proceed(t, IF Is(t, {"edit", "archive"}) THEN "lead" ELSE "apply")
Locked(t) == {v \in Requests : holder[<<"visit", v>>] = t}

\* Only a booking that moves in time or to another manager is checked again.
Checks(o, v) ==
    /\ v.status = "scheduled" /\ ~o.ends
    /\ <<o.start, o.len, o.mgr>> # <<v.start, v.len, v.mgr>>

\* updateAppointment has the visit and its lead (for update of v, l) and compares
\* the version; an erased visit is not found.
BadEditGuard(t) == visits[target[t]].status # "erased"
EditGuard(t) ==
    /\ visits[target[t]].status # "erased"
    /\ visits[target[t]].version = base[t]
    /\ ask[t].ends => Scheduled(target[t])

LockEdited(t) ==
    /\ pc[t] = "lead" /\ Is(t, {"edit"})
    /\ Free(t, {<<"lead", LeadOf(t)>>})
    /\ IF ~EditGuard(t)
       THEN Refuse(t, "refused")
       ELSE /\ Lock(t, {<<"lead", LeadOf(t)>>})
            /\ Proceed(t, IF Checks(ask[t], visits[target[t]]) THEN "manager" ELSE "apply")

----------------------------------------------------------------------------
(* The checks of a booking *)

CheckActive(t) ==
    /\ pc[t] = "active"
    /\ IF /\ ask[t].kind # "office_work"
          /\ \E v \in Requests : /\ Scheduled(v) /\ visits[v].lead = ask[t].lead
                                 /\ visits[v].kind = ask[t].kind
       THEN Refuse(t, "refused")
       ELSE Proceed(t, "manager") /\ UNCHANGED holder

\* lockManagerSchedule
BadLockManager(t) ==
    /\ pc[t] = "manager"
    /\ Proceed(t, "probe") /\ UNCHANGED holder
LockManager(t) ==
    /\ pc[t] = "manager"
    /\ Lock(t, {<<"manager", ask[t].mgr>>})
    /\ Proceed(t, "probe")

\* managerOverlapExists, of every kind but the edited visit itself
Busy(t) ==
    \E v \in Requests \ {target[t]} :
        Scheduled(v) /\ visits[v].mgr = ask[t].mgr /\ Overlaps(visits[v], ask[t])

Probe(t) ==
    /\ pc[t] = "probe"
    /\ IF Busy(t) THEN Refuse(t, "busy") ELSE Proceed(t, "apply") /\ UNCHANGED holder

----------------------------------------------------------------------------
(* The last statements and the commit, whose answer may get lost *)

\* scheduled with the slot that was asked for
Placed(t, kind, version, checked) ==
    [lead |-> LeadOf(t), kind |-> kind, start |-> ask[t].start, len |-> ask[t].len,
     mgr |-> ask[t].mgr, status |-> "scheduled", version |-> version, checked |-> checked]

Commit(t) == \E how \in {"ok", "lost"} : Finish(t, how)

StoreResponse(t, made) ==
    /\ keys' = [keys EXCEPT ![KeyOf(t)] = [body |-> ask[t], made |-> made]]
    /\ reply' = [reply EXCEPT ![t] = made]

ApplyBook(t) ==
    /\ pc[t] = "apply" /\ Is(t, {"book"})
    /\ visits' = [visits EXCEPT ![t] = Placed(t, ask[t].kind, 1, TRUE)]
    /\ StoreResponse(t, t)
    /\ Commit(t)
    /\ UNCHANGED <<closed, archived>>

\* scheduleLegacyAppointment: the visit it found and locked, or a new one
ApplyInvite(t) ==
    /\ pc[t] = "apply" /\ Is(t, {"invite"})
    /\ LET v == IF Locked(t) = {} THEN t ELSE CHOOSE v \in Locked(t) : TRUE
           version == IF v = t THEN 1 ELSE visits[v].version + 1
       IN /\ visits' = [visits EXCEPT ![v] = Placed(t, "showroom", version, FALSE)]
          /\ StoreResponse(t, v)
    /\ Commit(t)
    /\ UNCHANGED <<closed, archived>>

\* cancelScheduledAppointmentsForLead
Canceled(t) ==
    [v \in Requests |->
        IF v \in Locked(t)
        THEN [visits[v] EXCEPT !.status = "canceled", !.version = @ + 1]
        ELSE visits[v]]

ApplyClose(t) ==
    /\ pc[t] = "apply" /\ Is(t, {"close"})
    /\ visits' = Canceled(t)
    /\ closed' = closed \cup {LeadOf(t)}
    /\ StoreResponse(t, None)
    /\ Commit(t)
    /\ UNCHANGED archived

ApplyArchive(t) ==
    /\ pc[t] = "apply" /\ Is(t, {"archive"})
    /\ visits' = Canceled(t)
    /\ archived' = archived \cup {LeadOf(t)}
    /\ Commit(t)
    /\ UNCHANGED <<closed, keys, reply>>

ApplyEdit(t) ==
    /\ pc[t] = "apply" /\ Is(t, {"edit"})
    /\ LET was == visits[target[t]]
       IN visits' = [visits EXCEPT ![target[t]] =
              [was EXCEPT !.start = ask[t].start, !.len = ask[t].len, !.mgr = ask[t].mgr,
                          !.status = IF ask[t].ends THEN "ended" ELSE @,
                          !.version = @ + 1,
                          !.checked = IF Checks(ask[t], was) THEN TRUE ELSE @]]
    /\ Commit(t)
    /\ UNCHANGED <<closed, archived, keys, reply>>

\* handleDeleteEvent deletes the block of an office work entry.
ApplyErase(t) ==
    /\ pc[t] = "apply" /\ Is(t, {"erase"})
    /\ visits[target[t]].status # "none"
    /\ visits' = [visits EXCEPT ![target[t]].status = "erased"]
    /\ Commit(t)
    /\ UNCHANGED <<closed, archived, keys, reply>>

\* A lock timeout, a deadlock, a database error, a client or a process that goes
\* away: everything is rolled back.  An error of the claim is answered as a 409.
Abort(t) ==
    /\ pc[t] \notin {"new", "done"}
    /\ Refuse(t, IF pc[t] = "key" THEN "conflict" ELSE "error")

----------------------------------------------------------------------------
Apply(t) == \/ ApplyBook(t) \/ ApplyInvite(t) \/ ApplyClose(t)
            \/ ApplyArchive(t) \/ ApplyEdit(t) \/ ApplyErase(t)

Next ==
    \E t \in Requests :
        \/ \E o \in Operations : Arrive(t, o)
        \/ ClaimKey(t)
        \/ LockLead(t) \/ LockArchived(t) \/ LockVisits(t) \/ LockEdited(t)
        \/ CheckActive(t) \/ LockManager(t) \/ Probe(t)
        \/ Apply(t)
        \/ Abort(t)

Spec == Init /\ [][Next]_vars

----------------------------------------------------------------------------
(* Properties *)

Clash(v, w) ==
    /\ v # w /\ Scheduled(v) /\ Scheduled(w)
    /\ visits[v].mgr = visits[w].mgr /\ Overlaps(visits[v], visits[w])

\* Two visits that were both booked or moved through the availability check never
\* overlap for one manager, however their requests interleave
\* (appointments.go:441, "cannot be raced by a parallel insert").
CheckedNeverClash ==
    \A v, w \in Requests : Clash(v, w) => ~(visits[v].checked /\ visits[w].checked)

\* "A double booking is rejected outright" (appointments_test.go:353).
NoDoubleBooking == \A v, w \in Requests : ~Clash(v, w)

\* A lead never has two scheduled visits of one kind: the lead row lock covers the
\* check, so no booking ever runs into the unique index behind it.
OneVisitPerKind ==
    \A v, w \in Requests :
        v # w /\ Scheduled(v) /\ Scheduled(w) /\ visits[v].lead = visits[w].lead
            => visits[v].kind # visits[w].kind \/ visits[v].kind = "office_work"

\* No booking slips past a closing that runs at the same time.
ClosedHasNoVisits == \A v \in Requests : Scheduled(v) => visits[v].lead \notin closed

\* A request retried with its key takes effect once: of all requests with one key
\* at most one inserted a visit, and every answer names the same one.
OncePerKey ==
    \A t, u \in Requests :
        /\ t # u /\ pc[t] = "done" /\ pc[u] = "done"
        /\ Is(t, {"book"}) /\ Is(u, {"book"}) /\ key[t] = key[u]
        => /\ visits[t] = NoVisit \/ visits[u] = NoVisit
           /\ reply[t] # None /\ reply[u] # None => reply[t] = reply[u]

\* An edit is applied to the version its author saw, and to nothing newer: no
\* change that committed in between is overwritten.
NoBlindEdit ==
    [][\A t \in Requests :
        answer[t] = "none" /\ answer'[t] \in {"ok", "lost"} /\ Is(t, {"edit"})
            => visits[target[t]].version = base[t]]_vars

----------------------------------------------------------------------------
(* Refinement of Once *)

\* The work of a key is the visit that a booking inserted.
Booking(t) == pc[t] # "new" /\ Is(t, {"book"})
BookingKeys == [t \in Requests |-> IF Booking(t) THEN key[t] ELSE None]
VisitsMade == [k \in Keys |-> {t \in Requests : BookingKeys[t] = k /\ visits[t] # NoVisit}]
VisitsTold ==
    [t \in Requests |-> IF Booking(t) /\ reply[t] # None THEN {reply[t]} ELSE {}]

Bookings == INSTANCE Once WITH Results <- Requests, NoKey <- None, key <- BookingKeys,
                               done <- VisitsMade, told <- VisitsTold

\* A booking retried with its key takes effect once: one request with the key inserts
\* a visit, which every answer names, also one computed while the first is lost
\* (workflow.go:188).
BookingsAreOnce == Bookings!Spec

=============================================================================
