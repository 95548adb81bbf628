----------------------------- MODULE BiuroImport -----------------------------
(***************************************************************************)
(* The import of the Biuro sheet (internal/biuroimport).                   *)
(*                                                                         *)
(* People go on working on the sheet, and each run of the command is given *)
(* an export of it.  Rows with one phone are one customer, whose lead is   *)
(* named after the earliest of them; everything a run inserts has an id    *)
(* made from the sheet and is inserted on conflict do nothing.  A run is   *)
(* one repeatable read transaction: it decides on a snapshot, and fails    *)
(* when it meets a row that was written since.  Meanwhile managers call,   *)
(* leads are deleted, and leads with the same phones come in elsewhere.    *)
(*                                                                         *)
(* A row has an LP of its own, in the order of the sheet, and one comment  *)
(* of the four it can have.  The dry run and the readback change nothing   *)
(* and are left out, and so are the time of the first conversation and the *)
(* lead's denormalized last comment, which a run writes again: a run that  *)
(* only they make fail commits here.                                       *)
(***************************************************************************)
EXTENDS Naturals

CONSTANTS
    Runs,          \* runs of the command, --mode apply
    SheetKeys,     \* LPs
    Numbers,       \* phones, normalized
    Days,
    SheetRows,     \* what a row of the sheet can say
    NoNumber, NoDay, NoRow, NoLead, NoKey

ASSUME SheetAssumption ==
    /\ SheetKeys \subseteq Nat /\ Days \subseteq Nat
    /\ NoNumber \notin Numbers /\ NoDay \notin Days /\ NoKey \notin SheetKeys
    /\ NoRow \notin SheetRows

VARIABLES
    office,        \* the rows of the office: see Office
    run,           \* run[r]: its next statement, its export and its snapshot
    homes,         \* history: the lead and the phone row k was first applied with
    strayed,       \* history: leads that were applied a row with another home
    raced          \* history: leads created by a run that a run or a deletion overlapped

importVars == <<office, run, homes, strayed, raced>>

Phone == Numbers \cup {NoNumber}

\* Phone, date, first conversation, whether its manager is one of the three, comment.
SheetRow == [phone : Phone, day : Days, talk : Days \cup {NoDay}, known : BOOLEAN,
             note : BOOLEAN]
ASSUME SheetRowsAssumption == SheetRows \subseteq SheetRow

Sheet == [SheetKeys -> SheetRows \cup {NoRow}]

\* The imported leads by external id, the first-call attempt and the comment of each
\* row by the lead that has them, and the phones of leads from other sources.
ImportedLead == [phone : Phone, call : {"none", "sheet", "crm"}, by : Runs]
ASSUME NoLeadAssumption == NoLead \notin ImportedLead
Office == [leads : [SheetKeys -> ImportedLead \cup {NoLead}],
           attempts : [SheetKeys -> SheetKeys \cup {NoKey}],
           notes : [SheetKeys -> SheetKeys \cup {NoKey}],
           elsewhere : SUBSET Numbers]

EmptyOffice == [leads |-> [k \in SheetKeys |-> NoLead],
                attempts |-> [k \in SheetKeys |-> NoKey],
                notes |-> [k \in SheetKeys |-> NoKey], elsewhere |-> {}]
EmptySheet == [k \in SheetKeys |-> NoRow]
Waiting(pc) == [pc |-> pc, sheet |-> EmptySheet, seen |-> EmptyOffice,
                overlapped |-> FALSE]
NoHome == [lead |-> NoKey, phone |-> NoNumber, astray |-> FALSE]

ImportTypeOK ==
    /\ office \in Office
    /\ run \in [Runs -> [pc : {"new", "apply", "done"}, sheet : Sheet, seen : Office,
                         overlapped : BOOLEAN]]
    /\ homes \in [SheetKeys -> [lead : SheetKeys \cup {NoKey}, phone : Phone,
                                astray : BOOLEAN]]
    /\ strayed \in SUBSET SheetKeys /\ raced \in SUBSET SheetKeys

ImportInit ==
    /\ office = EmptyOffice
    /\ run = [r \in Runs |-> Waiting("new")]
    /\ homes = [k \in SheetKeys |-> NoHome]
    /\ strayed = {} /\ raced = {}

----------------------------------------------------------------------------
(* mergeRows *)

Rows(s) == {k \in SheetKeys : s[k] # NoRow}
Earlier(s, j, k) == s[j].day < s[k].day \/ (s[j].day = s[k].day /\ j < k)

\* The rows of one customer.
Group(s, k) == IF s[k].phone = NoNumber THEN {k}
               ELSE {j \in Rows(s) : s[j].phone = s[k].phone}

\* The rows whose LP is the external id of a lead.
Heads(s) == {k \in Rows(s) : \A j \in Group(s, k) \ {k} : Earlier(s, k, j)}

\* The row of the first conversation of lead x, if its manager is known: at most one.
Talkers(s, x) == {k \in Group(s, x) : s[k].talk # NoDay}
FirstTalk(s, x) ==
    {k \in Talkers(s, x) :
        /\ s[k].known
        /\ \A j \in Talkers(s, x) \ {k} :
              s[k].talk < s[j].talk \/ (s[k].talk = s[j].talk /\ Earlier(s, k, j))}

\* The lead is marked as reached.
\* Mutated forms (Bad...): plausible bugs for the mutation runs.
BadReached(s, x) == Talkers(s, x) # {}
Reached(s, x) == FirstTalk(s, x) # {}

----------------------------------------------------------------------------
(* analyze *)

\* Another lead of the office has the phone of x: its own import under another id, too.
BadTaken(seen, s, x) == s[x].phone \in seen.elsewhere
Taken(seen, s, x) ==
    \/ s[x].phone \in seen.elsewhere
    \/ /\ s[x].phone # NoNumber
       /\ \E y \in SheetKeys \ {x} :
             seen.leads[y] # NoLead /\ seen.leads[y].phone = s[x].phone

\* What was imported before is applied again; of the rest, what collides is skipped.
Applied(seen, s) == {x \in Heads(s) : seen.leads[x] # NoLead \/ ~Taken(seen, s, x)}

\* Snapshot and decisions.
Analyze(r) ==
    /\ run[r].pc = "new"
    /\ \E s \in Sheet :
          run' = [run EXCEPT ![r] = [pc |-> "apply", sheet |-> s, seen |-> office,
                                     overlapped |-> FALSE]]
    /\ UNCHANGED <<office, homes, strayed, raced>>

----------------------------------------------------------------------------
(* applyLead, for each lead that is not skipped, and the commit *)

\* An id that is taken is left alone if the snapshot has its row, else the run fails;
\* so it does when it updates a lead that was written since.
Serializable(seen, s) ==
    \A x \in Applied(seen, s) :
        /\ office.leads[x] # NoLead =>
              /\ seen.leads[x] # NoLead /\ seen.leads[x].by = office.leads[x].by
              /\ Reached(s, x) /\ seen.leads[x].call # "sheet" =>
                    office.leads[x] = seen.leads[x]
        /\ \A k \in FirstTalk(s, x) : office.attempts[k] \in {NoKey, seen.attempts[k]}
        /\ \A k \in Group(s, x) : s[k].note => office.notes[k] \in {NoKey, seen.notes[k]}

\* The lead after the run: a new one, or the old one marked as reached.
StoredLead(r, seen, s, x) ==
    IF office.leads[x] = NoLead
    THEN [phone |-> s[x].phone, call |-> IF Reached(s, x) THEN "sheet" ELSE "none",
          by |-> r]
    ELSE IF Reached(s, x) /\ seen.leads[x].call # "sheet"
         THEN [office.leads[x] EXCEPT !.call = "sheet"] ELSE office.leads[x]

\* The owner of row k's entry, which the run gives to x if it inserts it.
Owner(old, x, inserted) == IF old = NoKey /\ inserted THEN x ELSE old

CommitImport(r) ==
    LET s == run[r].sheet
        seen == run[r].seen
        applied == Applied(seen, s)
        touched == UNION {Group(s, x) : x \in applied}
        head == [k \in touched |-> CHOOSE x \in applied : k \in Group(s, x)]
        new == {x \in applied : office.leads[x] = NoLead}
        astray == {k \in touched : /\ homes[k] # NoHome
                                   /\ \/ homes[k].astray
                                      \/ homes[k].lead # head[k]
                                      \/ homes[k].phone # s[k].phone}
    IN /\ run[r].pc = "apply"
       /\ Serializable(seen, s)
       /\ office' = [office EXCEPT
            !.leads = [x \in SheetKeys |-> IF x \in applied THEN StoredLead(r, seen, s, x)
                                                            ELSE @[x]],
            !.attempts = [k \in SheetKeys |-> IF k \notin touched THEN @[k]
                             ELSE Owner(@[k], head[k], k \in FirstTalk(s, head[k]))],
            !.notes = [k \in SheetKeys |-> IF k \notin touched THEN @[k]
                             ELSE Owner(@[k], head[k], s[k].note)]]
       /\ run' = [q \in Runs |-> IF q = r THEN Waiting("done")
                                 ELSE [run[q] EXCEPT !.overlapped =
                                          @ \/ run[q].pc = "apply"]]
       /\ homes' = [k \in SheetKeys |->
            IF k \notin touched THEN homes[k]
            ELSE IF homes[k] = NoHome
                 THEN [lead |-> head[k], phone |-> s[k].phone, astray |-> FALSE]
                 ELSE [homes[k] EXCEPT !.astray = k \in astray]]
       /\ strayed' = strayed \cup {head[k] : k \in astray}
       /\ raced' = raced \cup {x \in new : run[r].overlapped \/ seen.leads[x] # NoLead}

\* Managers who are not found, a row that was written since, a lost connection, Ctrl-C.
FailImport(r) ==
    /\ run[r].pc = "apply"
    /\ run' = [run EXCEPT ![r] = Waiting("done")]
    /\ UNCHANGED <<office, homes, strayed, raced>>

----------------------------------------------------------------------------
(* The CRM meanwhile *)

\* A lead from a form, Meta or a manager.
LeadElsewhere(n) ==
    /\ office' = [office EXCEPT !.elsewhere = @ \cup {n}]
    /\ UNCHANGED <<run, homes, strayed, raced>>

\* A manager logs a call on an imported lead.
CallImported(x) ==
    /\ office.leads[x] # NoLead
    /\ office' = [office EXCEPT !.leads[x].call = "crm"]
    /\ UNCHANGED <<run, homes, strayed, raced>>

\* handleDeleteLead, and what it cascades to; the next run imports the lead again.
DeleteImported(x) ==
    LET Left(k) == IF k = x THEN NoKey ELSE k
    IN /\ office.leads[x] # NoLead
       /\ office' = [office EXCEPT
            !.leads[x] = NoLead,
            !.attempts = [k \in SheetKeys |-> Left(@[k])],
            !.notes = [k \in SheetKeys |-> Left(@[k])]]
       /\ homes' = [k \in SheetKeys |-> IF homes[k].lead = x /\ ~homes[k].astray
                                         THEN NoHome ELSE homes[k]]
       /\ strayed' = strayed \ {x} /\ raced' = raced \ {x}
       /\ UNCHANGED run

ImportNext ==
    \/ \E r \in Runs : Analyze(r) \/ CommitImport(r) \/ FailImport(r)
    \/ \E n \in Numbers : LeadElsewhere(n)
    \/ \E x \in SheetKeys : CallImported(x) \/ DeleteImported(x)

ImportSpec == ImportInit /\ [][ImportNext]_importVars

----------------------------------------------------------------------------
(* Properties *)

\* However the sheet changes between runs, so that the same customer is named after
\* another row, no customer is imported twice.  The exceptions are leads of a run
\* that another run or the deletion of its lead overlapped (importer.go:229, 333).
OneLeadPerCustomer ==
    \A x, y \in SheetKeys :
        x # y /\ office.leads[x] # NoLead /\ office.leads[y] # NoLead
              /\ office.leads[x].phone = office.leads[y].phone =>
            office.leads[x].phone = NoNumber \/ {x, y} \cap raced # {}

\* A lead has the comments and calls of its own customer, and is marked as reached
\* only with the call that says so, unless a row that was first applied to another
\* lead or with another phone was applied to it (importer.go:420, 448).
JournalIsOfTheCustomer ==
    \A x \in SheetKeys : office.leads[x] # NoLead /\ x \notin strayed =>
        /\ \A k \in SheetKeys : x \in {office.attempts[k], office.notes[k]} =>
              homes[k].phone = office.leads[x].phone
        /\ office.leads[x].call = "sheet" => \E k \in SheetKeys : office.attempts[k] = x

=============================================================================
