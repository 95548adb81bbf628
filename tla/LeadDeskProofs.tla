--------------------------- MODULE LeadDeskProofs ---------------------------
(***************************************************************************)
(* Theorems about LeadWorkflow, for any dates, visit kinds and bounds,     *)
(* about Budget, for any number of writers, accountants and rates, and     *)
(* about Duplicates, for any number of leads and requests.                 *)
(*                                                                         *)
(* The invariant of the lead adds to the properties what a correction      *)
(* relies on: no timeline entry remembers a terminal client status, since  *)
(* only an open lead gets an entry.  So undoing an entry never closes a    *)
(* lead behind the back of its reminders, visits and v2 status.            *)
(*                                                                         *)
(* That the timeline explains the lead needs the past as well: an entry    *)
(* nobody corrected remembers what the entries before it say, which is     *)
(* what undoing it restores.                                               *)
(*                                                                         *)
(* Of the rates, those in force are always the last ones entered.  Of the  *)
(* budget, a version names what was read with it, so that an edit which    *)
(* finds its version has priced the budget it replaces.                    *)
(*                                                                         *)
(* Of duplicates, what a marking has read under its locks is true when it  *)
(* writes: the new link goes to a lead that has none.  That there is no    *)
(* circle is said of sets (each has a lead whose link leaves it), which    *)
(* needs no paths and no induction.                                        *)
(***************************************************************************)
EXTENDS LeadWorkflow, Budget, Duplicates, TLAPS

NoTerminalPast == \A i \in Ids : log[i].oldClient \notin Terminal

Inv == TypeOK /\ NoTerminalPast /\ TerminalClean /\ LostInStep /\ DuplicateIsClosed

OpenEntry(e) == e \in Entry /\ e.oldClient \notin Terminal

----------------------------------------------------------------------------
\* deriveV2LeadStatus gives a v2 status other than project, and lost exactly for
\* closed_lost (v2_status.go:72).
LEMMA DeriveLost ==
    ASSUME NEW c \in ClientStatuses, NEW k \in CallStatuses \cup {"none"}
    PROVE  /\ Derive(c, k) \in V2Statuses
           /\ Derive(c, k) = "lost" <=> c = "closed_lost"
<1>1. CASE c = "new_lead"
  BY <1>1 DEF Derive, CallToV2, CallStatuses, V2Statuses
<1>2. CASE c \in {"showroom_invited", "thinking", "closed_lost"}
  BY <1>2 DEF Derive, ClientToV2, V2Statuses
<1>3. CASE c \in ClientStatuses \ {"new_lead", "showroom_invited", "thinking", "closed_lost"}
  BY <1>3 DEF Derive, ClientToV2, V2Statuses
<1>4. QED BY <1>1, <1>2, <1>3 DEF ClientStatuses

\* A place of the timeline without an entry remembers nothing.
LEMMA EmptyIsOpen == OpenEntry(Unwritten) /\ OpenEntry(Gone)
  BY BoundsAssumption DEF OpenEntry, Entry, Unwritten, Gone, NewEntry, EntryKinds, NoEntry,
     Absent, Terminal

\* The entries that activities write are open: comments and bookings remember no
\* client status, a client status remembers that of an open lead.
LEMMA EntriesAreOpen ==
    ASSUME TypeOK
    PROVE  /\ OpenEntry(Gone)
           /\ \A k \in CallStatuses : OpenEntry(CallEntry(k))
           /\ \A s \in ClientStatuses : ~IsTerminal(client) => OpenEntry(ClientEntry(s))
           /\ \A d \in Dates \cup {None}, k \in {"comment", "cleared", "status"} :
                OpenEntry(OtherEntry(k, d))
<1> USE BoundsAssumption DEF TypeOK, OpenEntry, Entry, NewEntry, EntryKinds, Correctable,
        CallStatuses, Terminal, Absent
<1>1. OpenEntry(Gone)
  BY EmptyIsOpen
<1>2. \A k \in CallStatuses : OpenEntry(CallEntry(k))
  BY DEF CallEntry
<1>3. \A s \in ClientStatuses : ~IsTerminal(client) => OpenEntry(ClientEntry(s))
  BY DEF ClientEntry, ClientStatuses, IsTerminal
<1>4. \A d \in Dates \cup {None}, k \in {"comment", "cleared", "status"} :
        OpenEntry(OtherEntry(k, d))
  BY DEF OtherEntry
<1>5. QED BY <1>1, <1>2, <1>3, <1>4

\* Writing an open entry keeps the timeline well formed and open.
LEMMA WriteKeeps ==
    ASSUME TypeOK, NoTerminalPast, NEW e, OpenEntry(e), Write(e)
    PROVE  /\ log' \in [Ids -> Entry] /\ overtaken' \in BOOLEAN
           /\ diverged' \in BOOLEAN
           /\ NoTerminalPast'
  BY BoundsAssumption DEF TypeOK, NoTerminalPast, OpenEntry, Write, Ids

\* Canceling and scheduling visits stays within the kinds that are booked.
LEMMA VisitsKeep ==
    ASSUME TypeOK
    PROVE  /\ \A kinds : Cancel(kinds) => visits' \subseteq VisitKinds
           /\ ScheduleShowroom => visits' \subseteq VisitKinds
           /\ Cancel(VisitKinds) => visits' = {}
  BY DEF TypeOK, Cancel, ScheduleShowroom
----------------------------------------------------------------------------
(* The inductive step, one lemma per kind of step *)

\* The parts of the type invariant that no timeline entry is needed for.
LeadTypeOK ==
    /\ call \in CallStatuses \cup {"none"} /\ client \in ClientStatuses
    /\ due \in Dates \cup {None} /\ v2 \in V2Statuses
    /\ project \in BOOLEAN /\ dup \in BOOLEAN /\ archived \in BOOLEAN
    /\ archiving \in BOOLEAN
    /\ visits \subseteq VisitKinds /\ seen \subseteq VisitKinds
LogTypeOK ==
    /\ log \in [Ids -> Entry] /\ overtaken \in BOOLEAN /\ diverged \in BOOLEAN
    /\ NoTerminalPast
StatusOK == TerminalClean /\ LostInStep /\ DuplicateIsClosed

LEMMA InvParts == Inv <=> LeadTypeOK /\ LogTypeOK /\ StatusOK
  BY DEF Inv, TypeOK, LeadTypeOK, LogTypeOK, StatusOK

LEMMA InvPartsNext == Inv' <=> LeadTypeOK' /\ LogTypeOK' /\ StatusOK'
  BY DEF Inv, TypeOK, LeadTypeOK, LogTypeOK, StatusOK

\* What a correction computes for an open lead is a status an open lead can have,
\* and the rewritten entry still remembers an open lead.
LEMMA CorrectionIsOpen ==
    ASSUME Inv, NEW i \in Ids, log[i].kind \in Correctable, log[i].fixes < MaxFixes,
           NEW kind \in Correctable
    PROVE  /\ Redone(Undone(i), kind).call \in CallStatuses \cup {"none"}
           /\ Redone(Undone(i), kind).client \in ClientStatuses
           /\ ~IsTerminal(client) => ~IsTerminal(Redone(Undone(i), kind).client)
           /\ OpenEntry(Rewritten(i, kind, MovesLead(i, kind)))
<1> DEFINE u == Undone(i)
<1>1. log[i] \in Entry /\ log[i].oldClient \notin Terminal
  BY DEF Inv, TypeOK, NoTerminalPast
<1>2. u.call \in CallStatuses \cup {"none"}
  BY <1>1 DEF Undone, Entry, Inv, TypeOK
<1>3. u.client \in ClientStatuses /\ (~IsTerminal(client) => ~IsTerminal(u.client))
  BY <1>1 DEF Undone, Entry, Inv, TypeOK, IsTerminal, Terminal, ClientStatuses
<1> HIDE DEF u
<1>4. /\ Redone(u, kind).call \in CallStatuses \cup {"none"}
      /\ Redone(u, kind).client \in ClientStatuses
      /\ ~IsTerminal(client) => ~IsTerminal(Redone(u, kind).client)
  BY <1>2, <1>3 DEF Redone, ClientStatuses, IsTerminal, Terminal
<1>5. MovesLead(i, kind) => ~IsTerminal(client)
  BY DEF MovesLead
<1>6. ASSUME NEW effective, effective => ~IsTerminal(client)
      PROVE  OpenEntry(Rewritten(i, kind, effective))
  <2>1. /\ kind \in EntryKinds
        /\ (IF kind = log[i].kind THEN log[i].due ELSE None) \in Dates \cup {None}
    BY <1>1 DEF EntryKinds, Entry
  <2>2. /\ (IF effective /\ log[i].kind = "comment" THEN call ELSE log[i].oldCall)
             \in CallStatuses \cup {"none", Absent}
        /\ (IF effective /\ log[i].kind = "comment" THEN client ELSE log[i].oldClient)
             \in (ClientStatuses \cup {Absent}) \ Terminal
    BY <1>1, <1>6 DEF Entry, Inv, TypeOK, IsTerminal, Terminal
  <2>3. log[i].fixes + 1 \in 0..MaxFixes
    BY <1>1, BoundsAssumption DEF Entry
  <2>4. QED BY <2>1, <2>2, <2>3 DEF OpenEntry, Entry, Rewritten
<1>7. QED BY <1>4, <1>5, <1>6 DEF u

LEMMA CorrectKeeps ==
    ASSUME Inv, NEW i \in Ids, NEW kind \in Correctable, NEW d \in Dates \cup {None},
           Correct(i, kind, d)
    PROVE  Inv'
<1> USE DEF leadVars, archiveVars, logVars
<1> DEFINE a == Redone(Undone(i), kind)
<1>1. /\ a.call \in CallStatuses \cup {"none"} /\ a.client \in ClientStatuses
      /\ ~IsTerminal(client) => ~IsTerminal(a.client)
      /\ OpenEntry(Rewritten(i, kind, MovesLead(i, kind)))
  BY CorrectionIsOpen DEF Correct
<1>2. LogTypeOK'
  BY <1>1 DEF Correct, Inv, TypeOK, LogTypeOK, NoTerminalPast, OpenEntry
<1>3. CASE MovesLead(i, kind)
  <2>1. ~IsTerminal(client)
    BY <1>3 DEF MovesLead
  <2>2. /\ call' = a.call /\ client' = a.client /\ due' = d
        /\ v2' = Derive(a.client, a.call)
        /\ UNCHANGED <<project, dup, archived, visits, archiveVars>>
    BY <1>3 DEF Correct
  <2> HIDE DEF a
  <2>3. LeadTypeOK'
    BY <1>1, <2>2, DeriveLost DEF Inv, TypeOK, LeadTypeOK
  <2>4. StatusOK'
    BY <1>1, <2>1, <2>2, DeriveLost
       DEF Inv, StatusOK, TerminalClean, LostInStep, DuplicateIsClosed, IsTerminal, Terminal
  <2>5. QED BY <1>2, <2>3, <2>4, InvPartsNext
<1>4. CASE ~MovesLead(i, kind)
  <2>1. /\ UNCHANGED <<call, client, v2, project, dup, archived, visits, archiveVars>>
        /\ due' \in Dates \cup {None}
        /\ IsTerminal(client) => due' = due
    BY <1>4 DEF Correct, Inv, TypeOK
  <2>2. LeadTypeOK' /\ StatusOK'
    BY <2>1 DEF Inv, TypeOK, LeadTypeOK, StatusOK, TerminalClean, LostInStep,
                DuplicateIsClosed, IsTerminal
  <2>3. QED BY <1>2, <2>2, InvPartsNext
<1>5. QED BY <1>3, <1>4

LEMMA CallStatusKeeps ==
    ASSUME Inv, NEW k \in CallStatuses, NEW d \in Dates \cup {None}, CallStatus(k, d)
    PROVE  Inv'
<1> USE DEF leadVars, archiveVars, logVars
<1>0. Write(CallEntry(k))
  BY DEF CallStatus, Active
<1>1. LeadTypeOK'
  BY DeriveLost, VisitsKeep
     DEF Inv, TypeOK, LeadTypeOK, CallStatus, Active, IsTerminal, V2Statuses,
         ClientStatuses, CallStatuses
<1>2. LogTypeOK'
  BY <1>0, EntriesAreOpen, WriteKeeps
     DEF Inv, LogTypeOK, CallStatus, Active, CallStatuses, ClientStatuses, IsTerminal
<1>3. StatusOK'
  BY DeriveLost, VisitsKeep
     DEF Inv, TypeOK, StatusOK, TerminalClean, LostInStep, DuplicateIsClosed,
         CallStatus, Active, Terminal, IsTerminal, ClientStatuses
<1>4. QED BY <1>1, <1>2, <1>3, InvPartsNext

LEMMA CommentKeeps ==
    ASSUME Inv, NEW d \in Dates \cup {None}, Comment(d)
    PROVE  Inv'
<1> USE DEF leadVars, archiveVars, logVars
<1>0. Write(OtherEntry("comment", d))
  BY DEF Comment
<1>1. LeadTypeOK'
  BY DeriveLost, VisitsKeep
     DEF Inv, TypeOK, LeadTypeOK, Comment, IsTerminal, V2Statuses, ClientStatuses,
         CallStatuses
<1>2. LogTypeOK'
  BY <1>0, EntriesAreOpen, WriteKeeps
     DEF Inv, LogTypeOK, Comment, CallStatuses, ClientStatuses, IsTerminal
<1>3. StatusOK'
  BY DeriveLost, VisitsKeep
     DEF Inv, TypeOK, StatusOK, TerminalClean, LostInStep, DuplicateIsClosed, Comment,
         Terminal, IsTerminal, ClientStatuses
<1>4. QED BY <1>1, <1>2, <1>3, InvPartsNext

LEMMA ClearCallbackKeeps ==
    ASSUME Inv, ClearCallback
    PROVE  Inv'
<1> USE DEF leadVars, archiveVars, logVars
<1>1. LeadTypeOK'
  BY DeriveLost, VisitsKeep
     DEF Inv, TypeOK, LeadTypeOK, ClearCallback, Active, IsTerminal, V2Statuses,
         ClientStatuses, CallStatuses
<1>2. LogTypeOK'
  BY DEF Inv, TypeOK, LogTypeOK, NoTerminalPast, ClearCallback, Active
<1>3. StatusOK'
  BY DeriveLost, VisitsKeep
     DEF Inv, TypeOK, StatusOK, TerminalClean, LostInStep, DuplicateIsClosed,
         ClearCallback, Active, Terminal, IsTerminal, ClientStatuses
<1>4. QED BY <1>1, <1>2, <1>3, InvPartsNext

LEMMA ClearCommentKeeps ==
    ASSUME Inv, ClearComment
    PROVE  Inv'
<1> USE DEF leadVars, archiveVars, logVars
<1>0. Write(OtherEntry("cleared", None))
  BY DEF ClearComment, Active
<1>1. LeadTypeOK'
  BY DeriveLost, VisitsKeep
     DEF Inv, TypeOK, LeadTypeOK, ClearComment, Active, IsTerminal, V2Statuses,
         ClientStatuses, CallStatuses
<1>2. LogTypeOK'
  BY <1>0, EntriesAreOpen, WriteKeeps
     DEF Inv, LogTypeOK, ClearComment, Active, CallStatuses, ClientStatuses, IsTerminal
<1>3. StatusOK'
  BY DeriveLost, VisitsKeep
     DEF Inv, TypeOK, StatusOK, TerminalClean, LostInStep, DuplicateIsClosed,
         ClearComment, Active, Terminal, IsTerminal, ClientStatuses
<1>4. QED BY <1>1, <1>2, <1>3, InvPartsNext

LEMMA ClearVisitKeeps ==
    ASSUME Inv, NEW kind, ClearVisit(kind)
    PROVE  Inv'
<1> USE DEF leadVars, archiveVars, logVars
<1>1. LeadTypeOK'
  BY DeriveLost, VisitsKeep
     DEF Inv, TypeOK, LeadTypeOK, ClearVisit, Active, IsTerminal, V2Statuses,
         ClientStatuses, CallStatuses
<1>2. LogTypeOK'
  BY DEF Inv, TypeOK, LogTypeOK, NoTerminalPast, ClearVisit, Active
<1>3. StatusOK'
  BY DeriveLost, VisitsKeep
     DEF Inv, TypeOK, StatusOK, TerminalClean, LostInStep, DuplicateIsClosed,
         ClearVisit, Active, Terminal, IsTerminal, ClientStatuses
<1>4. QED BY <1>1, <1>2, <1>3, InvPartsNext

LEMMA ClientStatusKeeps ==
    ASSUME Inv, NEW s \in ClientStatuses, NEW d \in Dates \cup {None}, ClientStatus(s, d)
    PROVE  Inv'
<1> USE DEF leadVars, archiveVars, logVars
<1>0. Write(ClientEntry(s))
  BY DEF ClientStatus, Active, ApplyClientStatus, NextDue
<1>1. LeadTypeOK'
  BY DeriveLost, VisitsKeep
     DEF Inv, TypeOK, LeadTypeOK, ClientStatus, Active, ApplyClientStatus, NextDue,
         IsTerminal, V2Statuses, ClientStatuses, CallStatuses
<1>2. LogTypeOK'
  BY <1>0, EntriesAreOpen, WriteKeeps
     DEF Inv, LogTypeOK, ClientStatus, Active, ApplyClientStatus, NextDue,
         CallStatuses, ClientStatuses, IsTerminal
<1>3. StatusOK'
  BY DeriveLost, VisitsKeep
     DEF Inv, TypeOK, StatusOK, TerminalClean, LostInStep, DuplicateIsClosed,
         ClientStatus, Active, ApplyClientStatus, NextDue, Terminal, IsTerminal,
         ClientStatuses
<1>4. QED BY <1>1, <1>2, <1>3, InvPartsNext

LEMMA ReopenKeeps ==
    ASSUME Inv, Reopen
    PROVE  Inv'
<1> USE DEF leadVars, archiveVars, logVars
<1>1. LeadTypeOK'
  BY DeriveLost, VisitsKeep
     DEF Inv, TypeOK, LeadTypeOK, Reopen, IsTerminal, V2Statuses, ClientStatuses,
         CallStatuses
<1>2. LogTypeOK'
  BY DEF Inv, TypeOK, LogTypeOK, NoTerminalPast, Reopen
<1>3. StatusOK'
  BY DeriveLost, VisitsKeep
     DEF Inv, TypeOK, StatusOK, TerminalClean, LostInStep, DuplicateIsClosed, Reopen,
         Terminal, IsTerminal, ClientStatuses
<1>4. QED BY <1>1, <1>2, <1>3, InvPartsNext

LEMMA V2CallKeeps ==
    ASSUME Inv, NEW s \in DOMAIN V2CallResults, NEW d \in Dates \cup {None}, V2Call(s, d)
    PROVE  Inv'
<1> USE DEF leadVars, archiveVars, logVars
<1>0. Write(CallEntry(V2CallResults[s]))
  BY DEF V2Call, Active, V2CallResults
<1>1. LeadTypeOK'
  BY DeriveLost, VisitsKeep
     DEF Inv, TypeOK, LeadTypeOK, V2Call, Active, V2CallResults, IsTerminal,
         V2Statuses, ClientStatuses, CallStatuses
<1>2. LogTypeOK'
  BY <1>0, EntriesAreOpen, WriteKeeps
     DEF Inv, LogTypeOK, V2Call, Active, V2CallResults, CallStatuses, ClientStatuses,
         IsTerminal
<1>3. StatusOK'
  BY DeriveLost, VisitsKeep
     DEF Inv, TypeOK, StatusOK, TerminalClean, LostInStep, DuplicateIsClosed, V2Call,
         Active, V2CallResults, Terminal, IsTerminal, ClientStatuses
<1>4. QED BY <1>1, <1>2, <1>3, InvPartsNext

LEMMA V2ThinkingKeeps ==
    ASSUME Inv, NEW d \in Dates, V2Thinking(d)
    PROVE  Inv'
<1> USE DEF leadVars, archiveVars, logVars
<1>0. Write(ClientEntry("thinking"))
  BY DEF V2Thinking, Active
<1>1. LeadTypeOK'
  BY DeriveLost, VisitsKeep
     DEF Inv, TypeOK, LeadTypeOK, V2Thinking, Active, IsTerminal, V2Statuses,
         ClientStatuses, CallStatuses
<1>2. LogTypeOK'
  BY <1>0, EntriesAreOpen, WriteKeeps
     DEF Inv, LogTypeOK, V2Thinking, Active, CallStatuses, ClientStatuses, IsTerminal
<1>3. StatusOK'
  BY DeriveLost, VisitsKeep
     DEF Inv, TypeOK, StatusOK, TerminalClean, LostInStep, DuplicateIsClosed,
         V2Thinking, Active, Terminal, IsTerminal, ClientStatuses
<1>4. QED BY <1>1, <1>2, <1>3, InvPartsNext

LEMMA V2InvitedKeeps ==
    ASSUME Inv, V2Invited
    PROVE  Inv'
<1> USE DEF leadVars, archiveVars, logVars
<1>0. Write(ClientEntry("showroom_invited"))
  BY DEF V2Invited, Active, NextDue
<1>1. LeadTypeOK'
  BY DeriveLost, VisitsKeep
     DEF Inv, TypeOK, LeadTypeOK, V2Invited, Active, NextDue, IsTerminal, V2Statuses,
         ClientStatuses, CallStatuses
<1>2. LogTypeOK'
  BY <1>0, EntriesAreOpen, WriteKeeps
     DEF Inv, LogTypeOK, V2Invited, Active, NextDue, CallStatuses, ClientStatuses,
         IsTerminal
<1>3. StatusOK'
  BY DeriveLost, VisitsKeep
     DEF Inv, TypeOK, StatusOK, TerminalClean, LostInStep, DuplicateIsClosed,
         V2Invited, Active, NextDue, Terminal, IsTerminal, ClientStatuses
<1>4. QED BY <1>1, <1>2, <1>3, InvPartsNext

LEMMA V2LostKeeps ==
    ASSUME Inv, V2Lost
    PROVE  Inv'
<1> USE DEF leadVars, archiveVars, logVars
<1>0. Write(ClientEntry("closed_lost"))
  BY DEF V2Lost, Active
<1>1. LeadTypeOK'
  BY DeriveLost, VisitsKeep
     DEF Inv, TypeOK, LeadTypeOK, V2Lost, Active, IsTerminal, V2Statuses,
         ClientStatuses, CallStatuses
<1>2. LogTypeOK'
  BY <1>0, EntriesAreOpen, WriteKeeps
     DEF Inv, LogTypeOK, V2Lost, Active, CallStatuses, ClientStatuses, IsTerminal
<1>3. StatusOK'
  BY DeriveLost, VisitsKeep
     DEF Inv, TypeOK, StatusOK, TerminalClean, LostInStep, DuplicateIsClosed, V2Lost,
         Active, Terminal, IsTerminal, ClientStatuses
<1>4. QED BY <1>1, <1>2, <1>3, InvPartsNext

LEMMA BookOfficeWorkKeeps ==
    ASSUME Inv, BookOfficeWork
    PROVE  Inv'
<1> USE DEF leadVars, archiveVars, logVars
<1>1. LeadTypeOK'
  BY DeriveLost, VisitsKeep
     DEF Inv, TypeOK, LeadTypeOK, BookOfficeWork, IsTerminal, V2Statuses,
         ClientStatuses, CallStatuses
<1>2. LogTypeOK'
  BY DEF Inv, TypeOK, LogTypeOK, NoTerminalPast, BookOfficeWork
<1>3. StatusOK'
  BY DeriveLost, VisitsKeep
     DEF Inv, TypeOK, StatusOK, TerminalClean, LostInStep, DuplicateIsClosed,
         BookOfficeWork, Terminal, IsTerminal, ClientStatuses
<1>4. QED BY <1>1, <1>2, <1>3, InvPartsNext

LEMMA BookVisitKeeps ==
    ASSUME Inv, NEW kind \in VisitKinds, BookVisit(kind)
    PROVE  Inv'
<1> USE DEF leadVars, archiveVars, logVars
<1>0. Write(OtherEntry("status", None))
  BY DEF BookVisit
<1>1. LeadTypeOK'
  BY DeriveLost, VisitsKeep
     DEF Inv, TypeOK, LeadTypeOK, BookVisit, IsTerminal, V2Statuses, ClientStatuses,
         CallStatuses
<1>2. LogTypeOK'
  BY <1>0, EntriesAreOpen, WriteKeeps
     DEF Inv, LogTypeOK, BookVisit, CallStatuses, ClientStatuses, IsTerminal
<1>3. StatusOK'
  BY DeriveLost, VisitsKeep
     DEF Inv, TypeOK, StatusOK, TerminalClean, LostInStep, DuplicateIsClosed,
         BookVisit, Terminal, IsTerminal, ClientStatuses
<1>4. QED BY <1>1, <1>2, <1>3, InvPartsNext

LEMMA EndVisitKeeps ==
    ASSUME Inv, NEW kind, EndVisit(kind)
    PROVE  Inv'
<1> USE DEF leadVars, archiveVars, logVars
<1>1. LeadTypeOK'
  BY DeriveLost, VisitsKeep
     DEF Inv, TypeOK, LeadTypeOK, EndVisit, IsTerminal, V2Statuses, ClientStatuses,
         CallStatuses
<1>2. LogTypeOK'
  BY DEF Inv, TypeOK, LogTypeOK, NoTerminalPast, EndVisit
<1>3. StatusOK'
  BY DeriveLost, VisitsKeep
     DEF Inv, TypeOK, StatusOK, TerminalClean, LostInStep, DuplicateIsClosed, EndVisit,
         Terminal, IsTerminal, ClientStatuses
<1>4. QED BY <1>1, <1>2, <1>3, InvPartsNext

LEMMA DeleteEntryKeeps ==
    ASSUME Inv, NEW i \in Ids, DeleteEntry(i)
    PROVE  Inv'
<1> USE DEF leadVars, archiveVars, logVars
<1>1. LeadTypeOK'
  BY DeriveLost, VisitsKeep
     DEF Inv, TypeOK, LeadTypeOK, DeleteEntry, IsTerminal, V2Statuses, ClientStatuses,
         CallStatuses
<1>2. LogTypeOK'
  BY EntriesAreOpen DEF Inv, TypeOK, LogTypeOK, NoTerminalPast, OpenEntry, DeleteEntry
<1>3. StatusOK'
  BY DeriveLost, VisitsKeep
     DEF Inv, TypeOK, StatusOK, TerminalClean, LostInStep, DuplicateIsClosed,
         DeleteEntry, Terminal, IsTerminal, ClientStatuses
<1>4. QED BY <1>1, <1>2, <1>3, InvPartsNext

LEMMA CreateProjectKeeps ==
    ASSUME Inv, CreateProject
    PROVE  Inv'
<1> USE DEF leadVars, archiveVars, logVars
<1>1. LeadTypeOK'
  BY DeriveLost, VisitsKeep
     DEF Inv, TypeOK, LeadTypeOK, CreateProject, IsTerminal, V2Statuses,
         ClientStatuses, CallStatuses
<1>2. LogTypeOK'
  BY DEF Inv, TypeOK, LogTypeOK, NoTerminalPast, CreateProject
<1>3. StatusOK'
  BY DeriveLost, VisitsKeep
     DEF Inv, TypeOK, StatusOK, TerminalClean, LostInStep, DuplicateIsClosed,
         CreateProject, Terminal, IsTerminal, ClientStatuses
<1>4. QED BY <1>1, <1>2, <1>3, InvPartsNext

LEMMA MarkDuplicateKeeps ==
    ASSUME Inv, MarkDuplicate
    PROVE  Inv'
<1> USE DEF leadVars, archiveVars, logVars
<1>1. LeadTypeOK'
  BY DeriveLost, VisitsKeep
     DEF Inv, TypeOK, LeadTypeOK, MarkDuplicate, ApplyClientStatus, NextDue,
         IsTerminal, V2Statuses, ClientStatuses, CallStatuses
<1>2. LogTypeOK'
  <2>1. CASE client = "closed_lost"
    BY <2>1 DEF Inv, TypeOK, LogTypeOK, NoTerminalPast, MarkDuplicate
  <2>2. CASE client # "closed_lost"
    <3>1. Write(ClientEntry("closed_lost"))
      BY <2>2 DEF MarkDuplicate, ApplyClientStatus
    <3>2. ~IsTerminal(client)
      BY <2>2 DEF MarkDuplicate, IsTerminal, Terminal
    <3>3. QED BY <3>1, <3>2, EntriesAreOpen, WriteKeeps DEF Inv, LogTypeOK, ClientStatuses
  <2>3. QED BY <2>1, <2>2
<1>3. StatusOK'
  BY DeriveLost, VisitsKeep
     DEF Inv, TypeOK, StatusOK, TerminalClean, LostInStep, DuplicateIsClosed,
         MarkDuplicate, ApplyClientStatus, NextDue, Terminal, IsTerminal, ClientStatuses
<1>4. QED BY <1>1, <1>2, <1>3, InvPartsNext

LEMMA BeginArchiveKeeps ==
    ASSUME Inv, BeginArchive
    PROVE  Inv'
<1> USE DEF leadVars, archiveVars, logVars
<1>1. LeadTypeOK'
  BY DeriveLost, VisitsKeep
     DEF Inv, TypeOK, LeadTypeOK, BeginArchive, IsTerminal, V2Statuses, ClientStatuses,
         CallStatuses
<1>2. LogTypeOK'
  BY DEF Inv, TypeOK, LogTypeOK, NoTerminalPast, BeginArchive
<1>3. StatusOK'
  BY DeriveLost, VisitsKeep
     DEF Inv, TypeOK, StatusOK, TerminalClean, LostInStep, DuplicateIsClosed,
         BeginArchive, Terminal, IsTerminal, ClientStatuses
<1>4. QED BY <1>1, <1>2, <1>3, InvPartsNext

LEMMA ArchiveKeeps ==
    ASSUME Inv, Archive
    PROVE  Inv'
<1> USE DEF leadVars, archiveVars, logVars
<1>1. LeadTypeOK'
  BY DeriveLost, VisitsKeep
     DEF Inv, TypeOK, LeadTypeOK, Archive, IsTerminal, V2Statuses, ClientStatuses,
         CallStatuses
<1>2. LogTypeOK'
  BY DEF Inv, TypeOK, LogTypeOK, NoTerminalPast, Archive
<1>3. StatusOK'
  BY DeriveLost, VisitsKeep
     DEF Inv, TypeOK, StatusOK, TerminalClean, LostInStep, DuplicateIsClosed, Archive,
         Terminal, IsTerminal, ClientStatuses
<1>4. QED BY <1>1, <1>2, <1>3, InvPartsNext

LEMMA AbandonArchiveKeeps ==
    ASSUME Inv, AbandonArchive
    PROVE  Inv'
<1> USE DEF leadVars, archiveVars, logVars
<1>1. LeadTypeOK'
  <2>1. archiving' \in BOOLEAN /\ seen' = {} BY DEF AbandonArchive
  <2>2. UNCHANGED <<leadVars, visits, archived>> BY DEF AbandonArchive
  <2> QED BY <2>1, <2>2 DEF Inv, TypeOK, LeadTypeOK
<1>2. LogTypeOK'
  BY DEF Inv, TypeOK, LogTypeOK, NoTerminalPast, AbandonArchive
<1>3. StatusOK'
  BY DEF Inv, StatusOK, TerminalClean, LostInStep, DuplicateIsClosed, AbandonArchive,
         IsTerminal
<1>4. QED BY <1>1, <1>2, <1>3, InvPartsNext

LEMMA RestoreKeeps ==
    ASSUME Inv, Restore
    PROVE  Inv'
<1> USE DEF leadVars, archiveVars, logVars
<1>1. LeadTypeOK' BY DEF Inv, TypeOK, LeadTypeOK, Restore
<1>2. LogTypeOK'
  BY DEF Inv, TypeOK, LogTypeOK, NoTerminalPast, Restore
<1>3. StatusOK'
  BY DEF Inv, StatusOK, TerminalClean, LostInStep, DuplicateIsClosed, Restore, IsTerminal
<1>4. QED BY <1>1, <1>2, <1>3, InvPartsNext

----------------------------------------------------------------------------
(* Theorems *)

LEMMA InvInit == Init => Inv
<1> SUFFICES ASSUME Init PROVE Inv
  OBVIOUS
<1>1. LeadTypeOK
  BY DEF Init, LeadTypeOK, ClientStatuses, V2Statuses
<1>2. LogTypeOK
  <2>1. Unwritten \in Entry /\ Unwritten.oldClient \notin Terminal
    BY EmptyIsOpen DEF OpenEntry
  <2>2. log \in [Ids -> Entry]
    BY <2>1 DEF Init
  <2>3. NoTerminalPast
    BY <2>1 DEF Init, NoTerminalPast
  <2>4. overtaken \in BOOLEAN /\ diverged \in BOOLEAN
    BY DEF Init
  <2>5. QED BY <2>2, <2>3, <2>4 DEF LogTypeOK
<1>3. StatusOK
  BY DEF Init, StatusOK, TerminalClean, LostInStep, DuplicateIsClosed, IsTerminal, Terminal
<1>4. QED BY <1>1, <1>2, <1>3, InvParts

LEMMA InvNext == Inv /\ [Next]_vars => Inv'
<1> SUFFICES ASSUME Inv, [Next]_vars PROVE Inv'
  OBVIOUS
<1>1. CASE UNCHANGED vars
  BY <1>1 DEF vars, leadVars, archiveVars, logVars, Inv, TypeOK, NoTerminalPast,
     TerminalClean, LostInStep, DuplicateIsClosed
<1>2. CASE Next
  BY <1>2, CallStatusKeeps, CommentKeeps, ClearCallbackKeeps, ClearCommentKeeps,
     ClearVisitKeeps, ClientStatusKeeps, ReopenKeeps, V2CallKeeps, V2ThinkingKeeps,
     V2InvitedKeeps, V2LostKeeps, BookOfficeWorkKeeps, BookVisitKeeps, EndVisitKeeps,
     CorrectKeeps, DeleteEntryKeeps, CreateProjectKeeps, MarkDuplicateKeeps,
     BeginArchiveKeeps, ArchiveKeeps, AbandonArchiveKeeps, RestoreKeeps
     DEF Next
<1>3. QED BY <1>1, <1>2

LEMMA InvAlways == Spec => []Inv
  BY InvInit, InvNext, PTL DEF Spec

\* Every state of the lead, its visits and its timeline is well formed.
THEOREM TypeCorrect == Spec => []TypeOK
  BY InvAlways, PTL DEF Inv

\* A closed lead carries no reminder date and no scheduled visit, whichever
\* handler closed it and whatever ran before, between or after (activities.go:952).
THEOREM ClosedLeadsAreClean == Spec => []TerminalClean
  BY InvAlways, PTL DEF Inv

\* v1 and v2 agree on which leads are lost (v2_status.go:72, activities.go:873).
THEOREM BothCallItLost == Spec => []LostInStep
  BY InvAlways, PTL DEF Inv

\* A duplicate is closed until it is reopened (duplicates.go:107, activities.go:946).
THEOREM DuplicatesStayClosed == Spec => []DuplicateIsClosed
  BY InvAlways, PTL DEF Inv

LEMMA ClosedStep ==
    ASSUME Next, IsTerminal(client), client' # client
    PROVE  client' = "new_lead" /\ call' = "none" /\ due' = None /\ v2' = "new"
<1> USE DEF leadVars, archiveVars, logVars
<1>1. ASSUME NEW i \in Ids, NEW kind, NEW d, Correct(i, kind, d) PROVE client' = client
  BY <1>1 DEF Correct, MovesLead
<1>2. CASE MarkDuplicate
  BY <1>2 DEF MarkDuplicate, IsTerminal, Terminal
<1>3. CASE Reopen
  BY <1>3 DEF Reopen
<1>4. QED
  BY <1>1, <1>2, <1>3 DEF Next, Active, CallStatus, Comment, ClearCallback, ClearComment,
     ClearVisit, ClientStatus, V2Call, V2Thinking, V2Invited, V2Lost, BookOfficeWork,
     BookVisit, EndVisit, DeleteEntry, CreateProject, BeginArchive, Archive,
     AbandonArchive, Restore

\* Only reopening leaves a closed status, and it starts the lead over: no
\* correction, deletion, booking or project does (activities.go:313).
THEOREM OnlyReopeningOpens == Spec => ClosedUntilReopened
<1>1. [Next]_vars => [IsTerminal(client) =>
          \/ client' = client
          \/ client' = "new_lead" /\ call' = "none" /\ due' = None /\ v2' = "new"]_vars
  BY ClosedStep DEF vars, leadVars
<1>2. QED BY <1>1, PTL DEF Spec, ClosedUntilReopened

----------------------------------------------------------------------------
(* The timeline explains the lead *)

\* The entries of some kinds below n: the last of them, or none.
LastBefore(l, kinds, n, j) ==
    /\ j < n /\ l[j].kind \in kinds
    /\ \A m \in Ids : m < n /\ l[m].kind \in kinds => m <= j
NoneBefore(l, kinds, n) == \A m \in Ids : m < n => l[m].kind \notin kinds

\* What the entries of the timeline l below n say of a call status c and of a client
\* status s.
ClientKinds == {"thinking", "status"}
SaidOfCall(l, c, n) ==
    \/ c = "none" /\ NoneBefore(l, CallStatuses, n)
    \/ \E j \in Ids : LastBefore(l, CallStatuses, n, j) /\ c = l[j].kind
SaidOfClient(l, s, n) ==
    \/ s # "thinking" /\ NoneBefore(l, ClientKinds, n)
    \/ \E j \in Ids : LastBefore(l, ClientKinds, n, j)
                      /\ (s = "thinking" <=> l[j].kind = "thinking")

Trusted == ~diverged /\ ~overtaken /\ \A i \in Ids : log[i].fixes < 2
End == MaxEntries + 1
LeadIsSaid == SaidOfCall(log, call, End) /\ SaidOfClient(log, client, End)
\* An entry nobody corrected remembers what the entries before it say.
PastIsSaid ==
    \A i \in Ids : log[i].fixes = 0 =>
        /\ log[i].kind \in CallStatuses => SaidOfCall(log, log[i].oldCall, i)
        /\ log[i].kind = "thinking" => SaidOfClient(log, log[i].oldClient, i)
TimelineInv == Trusted => LeadIsSaid /\ PastIsSaid

\* What is said below a point depends on the entries of those kinds below it alone:
\* writing, correcting or reading elsewhere changes nothing.
SameBelow(l1, n1, l2, n2, kinds) ==
    \A i \in Ids : /\ i < n1 /\ l1[i].kind \in kinds <=> i < n2 /\ l2[i].kind \in kinds
                   /\ i < n1 /\ l1[i].kind \in kinds => l2[i].kind = l1[i].kind

LEMMA LastStays ==
    ASSUME NEW l1, NEW n1, NEW l2, NEW n2, NEW kinds, SameBelow(l1, n1, l2, n2, kinds)
    PROVE  /\ NoneBefore(l1, kinds, n1) => NoneBefore(l2, kinds, n2)
           /\ \A j \in Ids : LastBefore(l1, kinds, n1, j) =>
                LastBefore(l2, kinds, n2, j) /\ l2[j].kind = l1[j].kind
  BY DEF SameBelow, NoneBefore, LastBefore

LEMMA SaidStays ==
    ASSUME NEW l1, NEW n1, NEW l2, NEW n2
    PROVE  /\ SameBelow(l1, n1, l2, n2, CallStatuses) =>
                \A c : SaidOfCall(l1, c, n1) => SaidOfCall(l2, c, n2)
           /\ SameBelow(l1, n1, l2, n2, ClientKinds) =>
                \A s : SaidOfClient(l1, s, n1) => SaidOfClient(l2, s, n2)
<1>1. ASSUME SameBelow(l1, n1, l2, n2, CallStatuses), NEW c, SaidOfCall(l1, c, n1)
      PROVE  SaidOfCall(l2, c, n2)
  BY <1>1, LastStays DEF SaidOfCall
<1>2. ASSUME SameBelow(l1, n1, l2, n2, ClientKinds), NEW s, SaidOfClient(l1, s, n1)
      PROVE  SaidOfClient(l2, s, n2)
  BY <1>2, LastStays DEF SaidOfClient
<1>3. QED BY <1>1, <1>2

\* An entry with none of its kind after it decides.
LEMMA LastDecides ==
    ASSUME NEW l, NEW i \in Ids, NEW n \in Nat, i < n
    PROVE  /\ l[i].kind \in CallStatuses /\ (\A j \in Ids : j > i => l[j].kind \notin CallStatuses)
                => SaidOfCall(l, l[i].kind, n)
           /\ l[i].kind \in ClientKinds /\ (\A j \in Ids : j > i => l[j].kind \notin ClientKinds)
                => \A s : (s = "thinking" <=> l[i].kind = "thinking") => SaidOfClient(l, s, n)
<1>1. \A kinds : l[i].kind \in kinds /\ (\A j \in Ids : j > i => l[j].kind \notin kinds)
                 => LastBefore(l, kinds, n, i)
  BY BoundsAssumption DEF LastBefore, Ids
<1>2. QED BY <1>1 DEF SaidOfCall, SaidOfClient

\* The entry the code takes for the latest of some kinds (event_correction.go reads it
\* ordered by created_at) is the last of them, 0 when there is none.
LEMMA LatestIsLast ==
    ASSUME NEW kinds
    PROVE  /\ NoneBefore(log, kinds, End) => Latest(kinds) = 0
           /\ \A j \in Ids : LastBefore(log, kinds, End, j) => Latest(kinds) = j
<1> USE BoundsAssumption DEF End, Ids
<1> DEFINE of == {i \in Ids : log[i].kind \in kinds}
<1>1. ASSUME NoneBefore(log, kinds, End) PROVE Latest(kinds) = 0
  <2>1. of = {}
    BY <1>1 DEF NoneBefore
  <2>2. QED BY <2>1 DEF Latest
<1>2. ASSUME NEW j \in Ids, LastBefore(log, kinds, End, j) PROVE Latest(kinds) = j
  <2>1. j \in of /\ \A m \in of : m <= j
    BY <1>2 DEF LastBefore
  <2>2. \A k \in of : (\A m \in of : m <= k) => k = j
    BY <2>1
  <2>3. Latest(kinds) = CHOOSE k \in of : \A m \in of : m <= k
    BY <2>1 DEF Latest
  <2>4. QED BY <2>1, <2>2, <2>3
<1>3. QED BY <1>1, <1>2

LEMMA SaidIsExplained == LeadIsSaid => Explained
<1> SUFFICES ASSUME LeadIsSaid PROVE Explained
  OBVIOUS
<1> USE BoundsAssumption DEF Ids
<1>1. call = IF Latest(CallStatuses) = 0 THEN "none" ELSE log[Latest(CallStatuses)].kind
  BY LatestIsLast DEF LeadIsSaid, SaidOfCall
<1>2. client = "thinking" <=> Latest(ClientKinds) # 0
                               /\ log[Latest(ClientKinds)].kind = "thinking"
  BY LatestIsLast DEF LeadIsSaid, SaidOfClient
<1>3. QED BY <1>1, <1>2 DEF Explained, ClientKinds

\* Nothing of what moves the lead comes after the latest status entry.
LEMMA NothingAfterLatest ==
    ASSUME LeadIsSaid
    PROVE  /\ Latest(StatusKinds) \in Nat
           /\ \A j \in Ids : j > Latest(StatusKinds) => log[j].kind \notin StatusKinds
<1> USE BoundsAssumption DEF Ids, End
<1>0. StatusKinds = CallStatuses \cup ClientKinds
  BY DEF StatusKinds, ClientKinds
<1>1. \/ NoneBefore(log, CallStatuses, End)
      \/ \E a \in Ids : LastBefore(log, CallStatuses, End, a)
  BY DEF LeadIsSaid, SaidOfCall
<1>2. \/ NoneBefore(log, ClientKinds, End)
      \/ \E b \in Ids : LastBefore(log, ClientKinds, End, b)
  BY DEF LeadIsSaid, SaidOfClient
<1>3. \/ NoneBefore(log, StatusKinds, End)
      \/ \E c \in Ids : LastBefore(log, StatusKinds, End, c)
  <2>1. CASE NoneBefore(log, CallStatuses, End) /\ NoneBefore(log, ClientKinds, End)
    BY <1>0, <2>1 DEF NoneBefore
  <2>2. ASSUME NEW a \in Ids, LastBefore(log, CallStatuses, End, a),
               NoneBefore(log, ClientKinds, End)
        PROVE  LastBefore(log, StatusKinds, End, a)
    BY <1>0, <2>2 DEF NoneBefore, LastBefore
  <2>3. ASSUME NEW b \in Ids, LastBefore(log, ClientKinds, End, b),
               NoneBefore(log, CallStatuses, End)
        PROVE  LastBefore(log, StatusKinds, End, b)
    BY <1>0, <2>3 DEF NoneBefore, LastBefore
  <2>4. ASSUME NEW a \in Ids, LastBefore(log, CallStatuses, End, a),
               NEW b \in Ids, LastBefore(log, ClientKinds, End, b)
        PROVE  LastBefore(log, StatusKinds, End, IF a < b THEN b ELSE a)
    BY <1>0, <2>4 DEF LastBefore
  <2>5. QED BY <1>1, <1>2, <2>1, <2>2, <2>3, <2>4
<1>4. QED BY <1>3, LatestIsLast DEF NoneBefore, LastBefore

----------------------------------------------------------------------------
\* Writing an entry: what it does to the lead is what the timeline then says.
EntryExplains(e) ==
    /\ e.kind \in CallStatuses => call' = e.kind /\ e.oldCall = call
    /\ e.kind \notin CallStatuses => call' = call
    /\ e.kind \in ClientKinds => (client' = "thinking" <=> e.kind = "thinking")
    /\ e.kind = "thinking" => e.oldClient = client
    /\ e.kind \notin ClientKinds => client' = client

LEMMA WriteExplains ==
    ASSUME TypeOK, TimelineInv, NEW e \in Entry, Write(e), e.fixes = 0, EntryExplains(e)
    PROVE  TimelineInv'
<1> USE BoundsAssumption DEF Ids
<1>1. PICK n \in Ids :
        /\ log[n] = Unwritten /\ log' = [log EXCEPT ![n] = e]
        /\ overtaken' = (overtaken \/ \E j \in Ids, side \in Sides :
                                         j > n /\ {e.kind, log[j].kind} \subseteq side)
        /\ diverged' = diverged
  BY DEF Write
<1>2. log'[n] = e /\ \A i \in Ids : i # n => log'[i] = log[i]
  BY <1>1 DEF TypeOK
<1>3. /\ log[n].fixes = 0 /\ log[n].kind = "unwritten"
      /\ log[n].kind \notin CallStatuses /\ log[n].kind \notin ClientKinds
  BY <1>1 DEF Unwritten, NewEntry, CallStatuses, ClientKinds
<1>4. SUFFICES ASSUME Trusted' PROVE LeadIsSaid' /\ PastIsSaid'
  BY DEF TimelineInv
<1>5. LeadIsSaid /\ PastIsSaid
  <2>1. Trusted
    BY <1>1, <1>2, <1>3, <1>4 DEF Trusted
  <2>2. QED BY <2>1 DEF TimelineInv
\* Nothing of the entry's own side began after it.
<1>6. /\ e.kind \in CallStatuses => \A j \in Ids : j > n => log[j].kind \notin CallStatuses
      /\ e.kind \in ClientKinds => \A j \in Ids : j > n => log[j].kind \notin ClientKinds
  <2>0. ~overtaken'
    BY <1>4 DEF Trusted
  <2>1. \A j \in Ids, side \in Sides :
            j > n /\ e.kind \in side => log[j].kind \notin side
    <3>1. \A j \in Ids, side \in Sides : ~(j > n /\ {e.kind, log[j].kind} \subseteq side)
      BY <1>1, <2>0
    <3>2. QED BY <3>1
  <2>2. CallStatuses \in Sides /\ ClientKinds \in Sides
    BY DEF Sides, ClientKinds
  <2>3. QED BY <2>1, <2>2
<1>7. n \in Nat /\ End \in Nat /\ n < End /\ \A i \in Ids : i < End
  BY DEF End
<1>8. \A kinds : log[n].kind \notin kinds =>
        /\ (\A j \in Ids : j > n => log[j].kind \notin kinds) => SameBelow(log, End, log', n, kinds)
        /\ \A m \in Nat : e.kind \notin kinds \/ m <= n => SameBelow(log, m, log', m, kinds)
  BY <1>1, <1>2, <1>7 DEF SameBelow
<1>9. SaidOfCall(log', call', End)
  <2>1. CASE e.kind \in CallStatuses
    <3>1. log'[n].kind = e.kind /\ \A j \in Ids : j > n => log'[j].kind \notin CallStatuses
      BY <1>2, <1>6, <2>1
    <3>2. call' = log'[n].kind
      BY <2>1, <3>1 DEF EntryExplains
    <3>3. QED BY <1>7, <2>1, <3>1, <3>2, LastDecides
  <2>2. CASE e.kind \notin CallStatuses
    BY <1>3, <1>5, <1>7, <1>8, <2>2, SaidStays DEF EntryExplains, LeadIsSaid
  <2>3. QED BY <2>1, <2>2
<1>10. SaidOfClient(log', client', End)
  <2>1. CASE e.kind \in ClientKinds
    <3>1. log'[n].kind = e.kind /\ \A j \in Ids : j > n => log'[j].kind \notin ClientKinds
      BY <1>2, <1>6, <2>1
    <3>2. client' = "thinking" <=> log'[n].kind = "thinking"
      BY <2>1, <3>1 DEF EntryExplains
    <3>3. QED BY <1>7, <2>1, <3>1, <3>2, LastDecides
  <2>2. CASE e.kind \notin ClientKinds
    BY <1>3, <1>5, <1>7, <1>8, <2>2, SaidStays DEF EntryExplains, LeadIsSaid
  <2>3. QED BY <2>1, <2>2
<1>11. ASSUME NEW i \in Ids, log'[i].fixes = 0
       PROVE  /\ log'[i].kind \in CallStatuses => SaidOfCall(log', log'[i].oldCall, i)
              /\ log'[i].kind = "thinking" => SaidOfClient(log', log'[i].oldClient, i)
  <2>1. CASE i = n
    <3>1. e.kind \in CallStatuses => e.oldCall = call /\ SaidOfCall(log', call, n)
      BY <1>3, <1>5, <1>6, <1>8, SaidStays DEF EntryExplains, LeadIsSaid
    <3>2. e.kind = "thinking" => e.oldClient = client /\ SaidOfClient(log', client, n)
      BY <1>3, <1>5, <1>6, <1>8, SaidStays DEF EntryExplains, LeadIsSaid, ClientKinds
    <3>3. QED BY <1>2, <2>1, <3>1, <3>2
  <2>2. CASE i # n
    <3>1. log'[i] = log[i] /\ log[i].fixes = 0 /\ i \in Nat /\ n \in Nat
      BY <1>2, <1>7, <1>11, <2>2
    <3>2. ASSUME log[i].kind \in CallStatuses PROVE SaidOfCall(log', log[i].oldCall, i)
      <4>1. e.kind \notin CallStatuses \/ i <= n
        BY <1>6, <3>1, <3>2
      <4>2. SameBelow(log, i, log', i, CallStatuses)
        BY <1>3, <1>8, <3>1, <4>1
      <4>3. QED BY <1>5, <3>1, <3>2, <4>2, SaidStays DEF PastIsSaid
    <3>3. ASSUME log[i].kind = "thinking" PROVE SaidOfClient(log', log[i].oldClient, i)
      <4>1. e.kind \notin ClientKinds \/ i <= n
        BY <1>6, <3>1, <3>3 DEF ClientKinds
      <4>2. SameBelow(log, i, log', i, ClientKinds)
        BY <1>3, <1>8, <3>1, <4>1
      <4>3. QED BY <1>5, <3>1, <3>3, <4>2, SaidStays DEF PastIsSaid
    <3>4. QED BY <3>1, <3>2, <3>3
  <2>3. QED BY <2>1, <2>2
<1>12. End' = End /\ Ids' = Ids
  BY DEF End
<1>13. QED BY <1>9, <1>10, <1>11, <1>12 DEF LeadIsSaid, PastIsSaid, SaidOfCall, SaidOfClient,
         LastBefore, NoneBefore, End

\* Correcting the latest status entry, or a comment after it: the lead moves to what
\* the timeline says with the entry rewritten (event_correction.go:17).
LEMMA CorrectExplains ==
    ASSUME TypeOK, TimelineInv, NEW i \in Ids, NEW kind \in Correctable,
           NEW d \in Dates \cup {None}, Correct(i, kind, d)
    PROVE  TimelineInv'
<1> USE BoundsAssumption DEF Ids
<1> DEFINE new == Rewritten(i, kind, MovesLead(i, kind))
<1>1. /\ log \in [Ids -> Entry] /\ log' = [log EXCEPT ![i] = new] /\ overtaken' = overtaken
      /\ log[i].kind \in Correctable /\ log[i].fixes \in Nat
      /\ new.kind = kind /\ new.fixes = log[i].fixes + 1
  <2>1. log[i] \in Entry
    BY DEF TypeOK
  <2>2. log[i].fixes \in Nat
    BY <2>1 DEF Entry
  <2>3. QED BY <2>2 DEF TypeOK, Correct, Rewritten
<1> HIDE DEF new
<1>2. log'[i] = new /\ \A j \in Ids : j # i => log'[j] = log[j]
  BY <1>1
<1>4. SUFFICES ASSUME Trusted' PROVE LeadIsSaid' /\ PastIsSaid'
  BY DEF TimelineInv
<1>5. /\ LeadIsSaid /\ PastIsSaid /\ log[i].fixes = 0 /\ new.fixes # 0
      /\ kind # log[i].kind => MovesLead(i, kind)
  <2>1. log[i].fixes = 0
    BY <1>1, <1>2, <1>4 DEF Trusted
  <2>2. ~diverged /\ (kind # log[i].kind => MovesLead(i, kind))
    BY <1>4 DEF Trusted, Correct
  <2>3. Trusted
    BY <1>1, <1>2, <1>4, <2>1, <2>2 DEF Trusted
  <2>4. QED BY <1>1, <2>1, <2>2, <2>3 DEF TimelineInv
<1>6. SUFFICES SaidOfCall(log', call', End) /\ SaidOfClient(log', client', End)
               /\ \A j \in Ids : j # i /\ log[j].fixes = 0 =>
                    /\ log[j].kind \in CallStatuses => SaidOfCall(log', log[j].oldCall, j)
                    /\ log[j].kind = "thinking" => SaidOfClient(log', log[j].oldClient, j)
  <2>1. End' = End /\ Ids' = Ids
    BY DEF End
  <2>2. QED BY <1>2, <1>5, <1>6, <2>1 DEF LeadIsSaid, PastIsSaid, SaidOfCall, SaidOfClient,
          LastBefore, NoneBefore, End
<1>7. CASE kind = log[i].kind
  <2>1. call' = call /\ client' = client
    BY <1>7 DEF Correct, MovesLead
  <2>2. \A j \in Ids : log'[j].kind = log[j].kind
    BY <1>1, <1>2, <1>7
  <2>3. \A kinds, n : SameBelow(log, n, log', n, kinds)
    BY <2>2 DEF SameBelow
  <2>4. QED BY <1>5, <2>1, <2>3, SaidStays DEF LeadIsSaid, PastIsSaid
<1>8. CASE kind # log[i].kind
  <2> DEFINE u == Undone(i)  after == Redone(Undone(i), kind)
  <2>1. MovesLead(i, kind) /\ call' = after.call /\ client' = after.client
    BY <1>5, <1>8 DEF Correct
  <2>2. \A j \in Ids : j > i => log[j].kind \notin StatusKinds
    <3>1. Latest(StatusKinds) <= i
      BY <1>5, <2>1, NothingAfterLatest DEF MovesLead
    <3>2. QED BY <1>5, <3>1, NothingAfterLatest
  <2>3. \A j \in Ids : j > i =>
            log[j].kind \notin CallStatuses /\ log[j].kind \notin ClientKinds
    BY <2>2 DEF StatusKinds, ClientKinds
  <2>4. i < End /\ i \in Nat /\ End \in Nat /\ \A j \in Ids : j < End
    BY DEF End
  <2>5. /\ \A kinds : log[i].kind \notin kinds /\ (\A j \in Ids : j > i => log[j].kind \notin kinds)
              => SameBelow(log, End, log, i, kinds)
        /\ \A kinds : kind \notin kinds /\ (\A j \in Ids : j > i => log[j].kind \notin kinds)
              => SameBelow(log, i, log', End, kinds)
    BY <1>1, <1>2, <2>4 DEF SameBelow
  <2>6. SaidOfCall(log, u.call, i) /\ SaidOfClient(log, u.client, i)
    <3>1. CASE log[i].kind \in CallStatuses
      <4>1. log[i].kind \notin ClientKinds /\ log[i].kind # "thinking"
        BY <3>1 DEF CallStatuses, ClientKinds
      <4>2. SaidOfCall(log, log[i].oldCall, i)
        BY <1>5, <3>1 DEF PastIsSaid
      <4>3. log[i].oldCall # Absent
        BY <4>2 DEF SaidOfCall, Absent, CallStatuses, LastBefore
      <4>4. u.call = log[i].oldCall /\ u.client = client
        BY <3>1, <4>1, <4>3 DEF Undone
      <4>5. SaidOfClient(log, client, i)
        BY <1>5, <2>3, <2>5, <4>1, SaidStays DEF LeadIsSaid
      <4>6. QED BY <4>2, <4>4, <4>5
    <3>2. CASE log[i].kind = "thinking"
      <4>1. log[i].kind \notin CallStatuses
        BY <3>2 DEF CallStatuses
      <4>2. SaidOfCall(log, call, i)
        BY <1>5, <2>3, <2>5, <4>1, SaidStays DEF LeadIsSaid
      <4>3. SaidOfClient(log, log[i].oldClient, i)
        BY <1>5, <3>2 DEF PastIsSaid
      <4>4. u.call = call /\ (u.client = "thinking" <=> log[i].oldClient = "thinking")
        BY <3>2, <4>1 DEF Undone, Absent
      <4>5. QED BY <4>2, <4>3, <4>4 DEF SaidOfClient
    <3>3. CASE log[i].kind = "comment"
      <4>1. /\ log[i].kind \notin CallStatuses /\ log[i].kind \notin ClientKinds
            /\ log[i].kind # "thinking"
        BY <3>3 DEF CallStatuses, ClientKinds
      <4>2. u.call = call /\ u.client = client
        BY <4>1 DEF Undone
      <4>3. QED BY <1>5, <2>3, <2>5, <4>1, <4>2, SaidStays DEF LeadIsSaid
    <3>4. QED BY <1>1, <3>1, <3>2, <3>3 DEF Correctable
  <2> HIDE DEF u
  <2>7. /\ after.call = IF kind \in CallStatuses THEN kind ELSE u.call
        /\ after.client = IF kind = "thinking" THEN "thinking" ELSE u.client
    BY DEF Redone, u
  <2> HIDE DEF after
  <2>8. SaidOfCall(log', call', End)
    <3>1. CASE kind \in CallStatuses
      <4>1. log'[i].kind = kind /\ \A j \in Ids : j > i => log'[j].kind \notin CallStatuses
        BY <1>1, <1>2, <2>3
      <4>2. QED BY <2>1, <2>4, <2>7, <3>1, <4>1, LastDecides
    <3>2. CASE kind \notin CallStatuses
      BY <2>1, <2>3, <2>5, <2>6, <2>7, <3>2, SaidStays
    <3>3. QED BY <3>1, <3>2
  <2>9. SaidOfClient(log', client', End)
    <3>1. CASE kind = "thinking"
      <4>1. /\ log'[i].kind = kind /\ kind \in ClientKinds
            /\ \A j \in Ids : j > i => log'[j].kind \notin ClientKinds
        BY <1>1, <1>2, <2>3, <3>1 DEF ClientKinds
      <4>2. QED BY <2>1, <2>4, <2>7, <3>1, <4>1, LastDecides
    <3>2. CASE kind # "thinking"
      <4>1. kind \notin ClientKinds
        BY <3>2 DEF Correctable, CallStatuses, ClientKinds
      <4>2. QED BY <2>1, <2>3, <2>5, <2>6, <2>7, <3>2, <4>1, SaidStays
    <3>3. QED BY <3>1, <3>2
  <2>10. ASSUME NEW j \in Ids, j # i, log[j].fixes = 0
         PROVE  /\ log[j].kind \in CallStatuses => SaidOfCall(log', log[j].oldCall, j)
                /\ log[j].kind = "thinking" => SaidOfClient(log', log[j].oldClient, j)
    <3>1. CASE j > i
      BY <2>3, <3>1 DEF ClientKinds
    <3>2. CASE j < i
      <4>1. \A kinds : SameBelow(log, j, log', j, kinds)
        BY <1>2, <3>2 DEF SameBelow
      <4>2. QED BY <1>5, <2>10, <4>1, SaidStays DEF PastIsSaid
    <3>3. QED BY <2>10, <3>1, <3>2
  <2>11. QED BY <2>8, <2>9, <2>10
<1>9. QED BY <1>7, <1>8

\* A step that writes nothing and leaves both statuses alone.
LEMMA QuietExplains ==
    ASSUME TimelineInv, UNCHANGED <<call, client, log, overtaken, diverged>>
    PROVE  TimelineInv'
<1>1. SUFFICES ASSUME Trusted' PROVE LeadIsSaid' /\ PastIsSaid'
  BY DEF TimelineInv
<1>2. LeadIsSaid /\ PastIsSaid
  BY <1>1 DEF TimelineInv, Trusted
<1>3. QED BY <1>2 DEF LeadIsSaid, PastIsSaid, SaidOfCall, SaidOfClient, LastBefore,
        NoneBefore, End

\* What each kind of entry does to the two statuses.
LEMMA EntriesExplain ==
    ASSUME Inv
    PROVE  /\ \A k \in CallStatuses :
                /\ CallEntry(k).fixes = 0
                /\ call' = k /\ client' = client => EntryExplains(CallEntry(k))
           /\ \A s \in ClientStatuses :
                /\ ClientEntry(s).fixes = 0
                /\ call' = call /\ client' = s => EntryExplains(ClientEntry(s))
           /\ \A d \in Dates \cup {None}, k \in {"comment", "cleared"} :
                /\ OtherEntry(k, d).fixes = 0
                /\ call' = call /\ client' = client => EntryExplains(OtherEntry(k, d))
           /\ OtherEntry("status", None).fixes = 0
           /\ call' = call /\ client' # "thinking" => EntryExplains(OtherEntry("status", None))
<1> USE DEF NewEntry, EntryExplains, CallStatuses, ClientKinds
<1>1. ASSUME NEW k \in CallStatuses
      PROVE  /\ CallEntry(k).fixes = 0
             /\ call' = k /\ client' = client => EntryExplains(CallEntry(k))
  BY DEF CallEntry
<1>2. ASSUME NEW s \in ClientStatuses
      PROVE  /\ ClientEntry(s).fixes = 0
             /\ call' = call /\ client' = s => EntryExplains(ClientEntry(s))
  <2>1. CASE s = "thinking"
    BY <2>1 DEF ClientEntry
  <2>2. CASE s # "thinking"
    BY <2>2 DEF ClientEntry
  <2>3. QED BY <2>1, <2>2
<1>3. ASSUME NEW d \in Dates \cup {None}, NEW k \in {"comment", "cleared"}
      PROVE  /\ OtherEntry(k, d).fixes = 0
             /\ call' = call /\ client' = client => EntryExplains(OtherEntry(k, d))
  BY DEF OtherEntry
<1>4. /\ OtherEntry("status", None).fixes = 0
      /\ call' = call /\ client' # "thinking" => EntryExplains(OtherEntry("status", None))
  BY DEF OtherEntry
<1>5. QED BY <1>1, <1>2, <1>3, <1>4

\* Activities and bookings: each writes the entry that says what it did.
LEMMA ActivityExplains ==
    ASSUME Inv, TimelineInv, NEW d \in Dates \cup {None}
    PROVE  /\ \A k \in CallStatuses : CallStatus(k, d) => TimelineInv'
           /\ Comment(d) => TimelineInv'
           /\ ClearComment => TimelineInv'
           /\ \A s \in ClientStatuses : ClientStatus(s, d) => TimelineInv'
           /\ \A s \in DOMAIN V2CallResults : V2Call(s, d) => TimelineInv'
           /\ V2Thinking(d) => TimelineInv'
           /\ V2Invited => TimelineInv'
           /\ V2Lost => TimelineInv'
           /\ \A kind \in VisitKinds : BookVisit(kind) => TimelineInv'
           /\ MarkDuplicate => TimelineInv'
<1>0. TypeOK
  BY DEF Inv
<1>1. ASSUME NEW k \in CallStatuses, Write(CallEntry(k)), call' = k, client' = client
      PROVE  TimelineInv'
  <2>1. CallEntry(k) \in Entry
    BY <1>0, EntriesAreOpen DEF OpenEntry
  <2>2. QED BY <1>0, <1>1, <2>1, EntriesExplain, WriteExplains
<1>2. ASSUME NEW s \in ClientStatuses, Write(ClientEntry(s)), call' = call, client' = s,
             ~IsTerminal(client)
      PROVE  TimelineInv'
  <2>1. ClientEntry(s) \in Entry
    BY <1>0, <1>2, EntriesAreOpen DEF OpenEntry
  <2>2. QED BY <1>0, <1>2, <2>1, EntriesExplain, WriteExplains
<1>3. ASSUME NEW k \in {"comment", "cleared"}, NEW e \in Dates \cup {None},
             Write(OtherEntry(k, e)), call' = call, client' = client
      PROVE  TimelineInv'
  <2>1. OtherEntry(k, e) \in Entry
    BY <1>0, EntriesAreOpen DEF OpenEntry
  <2>2. QED BY <1>0, <1>3, <2>1, EntriesExplain, WriteExplains
<1>4. ASSUME Write(OtherEntry("status", None)), call' = call, client' # "thinking"
      PROVE  TimelineInv'
  <2>1. OtherEntry("status", None) \in Entry
    BY <1>0, EntriesAreOpen DEF OpenEntry
  <2>2. QED BY <1>0, <1>4, <2>1, EntriesExplain, WriteExplains
<1>5. ASSUME NEW k \in CallStatuses, CallStatus(k, d) PROVE TimelineInv'
  BY <1>1, <1>5 DEF CallStatus
<1>6. ASSUME Comment(d) PROVE TimelineInv'
  BY <1>3, <1>6 DEF Comment
<1>7. ASSUME ClearComment PROVE TimelineInv'
  BY <1>3, <1>7 DEF ClearComment
<1>8. ASSUME NEW s \in ClientStatuses, ClientStatus(s, d) PROVE TimelineInv'
  BY <1>2, <1>8 DEF ClientStatus, ApplyClientStatus, Active
<1>9. ASSUME NEW s \in DOMAIN V2CallResults, V2Call(s, d) PROVE TimelineInv'
  <2>1. V2CallResults[s] \in CallStatuses
    BY DEF V2CallResults, CallStatuses
  <2>2. QED BY <1>1, <1>9, <2>1 DEF V2Call
<1>10. ASSUME V2Thinking(d) PROVE TimelineInv'
  BY <1>2, <1>10 DEF V2Thinking, Active, ClientStatuses
<1>11. ASSUME V2Invited PROVE TimelineInv'
  BY <1>2, <1>11 DEF V2Invited, Active, ClientStatuses
<1>12. ASSUME V2Lost PROVE TimelineInv'
  BY <1>2, <1>12 DEF V2Lost, Active, ClientStatuses
<1>13. ASSUME NEW kind \in VisitKinds, BookVisit(kind) PROVE TimelineInv'
  BY <1>4, <1>13 DEF BookVisit
<1>14. ASSUME MarkDuplicate PROVE TimelineInv'
  <2>1. CASE client = "closed_lost"
    BY <1>14, <2>1, QuietExplains DEF MarkDuplicate, logVars
  <2>2. CASE client # "closed_lost"
    BY <1>2, <1>14, <2>2 DEF MarkDuplicate, ApplyClientStatus, ClientStatuses, IsTerminal,
       Terminal
  <2>3. QED BY <2>1, <2>2
<1>15. QED BY <1>5, <1>6, <1>7, <1>8, <1>9, <1>10, <1>11, <1>12, <1>13, <1>14

\* Everything else writes nothing, or gives up on explaining the lead: reopening and
\* deleting an entry leave a timeline the lead no longer follows.
LEMMA NextExplains == Inv /\ TimelineInv /\ [Next]_vars => TimelineInv'
<1> SUFFICES ASSUME Inv, TimelineInv, [Next]_vars PROVE TimelineInv'
  OBVIOUS
<1> USE DEF leadVars, archiveVars, logVars
<1>1. CASE UNCHANGED vars
  BY <1>1, QuietExplains DEF vars
<1>2. CASE Reopen
  BY <1>2 DEF Reopen, TimelineInv, Trusted
<1>3. ASSUME NEW i \in Ids, DeleteEntry(i) PROVE TimelineInv'
  BY <1>3 DEF DeleteEntry, Trusted, TimelineInv
<1>4. CASE ClearCallback \/ BookOfficeWork \/ CreateProject
           \/ BeginArchive \/ Archive \/ AbandonArchive \/ Restore
  BY <1>4, QuietExplains DEF ClearCallback, BookOfficeWork, CreateProject, BeginArchive,
     Archive, AbandonArchive, Restore
<1>5. ASSUME NEW kind \in VisitKinds, ClearVisit(kind) \/ EndVisit(kind) PROVE TimelineInv'
  BY <1>5, QuietExplains DEF ClearVisit, EndVisit
<1>6. ASSUME NEW i \in Ids, NEW kind \in Correctable, NEW d \in Dates \cup {None},
             Correct(i, kind, d)
      PROVE  TimelineInv'
  BY <1>6, CorrectExplains DEF Inv
<1>7. QED BY <1>1, <1>2, <1>3, <1>4, <1>5, <1>6, ActivityExplains DEF Next

LEMMA InitExplains == Init => TimelineInv
<1> SUFFICES ASSUME Init PROVE TimelineInv
  OBVIOUS
<1>1. \A i \in Ids : log[i] = Unwritten
  BY DEF Init
<1>2. /\ Unwritten.kind \notin CallStatuses /\ Unwritten.kind \notin ClientKinds
      /\ Unwritten.kind # "thinking"
  BY DEF Unwritten, NewEntry, CallStatuses, ClientKinds
<1>3. LeadIsSaid /\ PastIsSaid
  BY <1>1, <1>2 DEF Init, LeadIsSaid, PastIsSaid, SaidOfCall, SaidOfClient, NoneBefore
<1>4. QED BY <1>3 DEF TimelineInv

\* The lead is what its timeline says, through every mix of activities, bookings,
\* corrections of the latest entry, duplicates and projects, for a timeline of any
\* length, as long as no entry is corrected twice (event_correction.go:17) and no
\* activity commits its entry before that of one of its side that began earlier
\* (activities.go:245, 268, 939).
THEOREM TimelineIsFollowed == Spec => []TimelineExplainsLead
<1>1. TimelineInv => TimelineExplainsLead
  BY SaidIsExplained DEF TimelineInv, Trusted, TimelineExplainsLead
<1>2. QED BY InvInit, InvNext, InitExplains, NextExplains, <1>1, PTL DEF Spec

----------------------------------------------------------------------------
(* Currency rates *)

RateSet == [replaced : 0..MaxRates, from : 0..MaxBegins]

RateInv ==
    /\ rates \in Seq(RateSet)
    /\ Len(rates) \in 1..MaxRates /\ begins \in 0..MaxBegins
    /\ \A i \in 1..Len(rates) : rates[i] \in RateSet /\ rates[i].from \in Nat
    /\ sawRates \in [Accountants -> 0..MaxRates]
    /\ begun \in [Accountants -> 0..MaxBegins]
    /\ \A i \in 1..Len(rates) : rates[i].from <= begins
    /\ \A i, j \in 1..Len(rates) : i < j => rates[i].from < rates[j].from
    /\ \A i \in 2..Len(rates) : rates[i].replaced = i - 1
    /\ \A a \in Accountants :
        /\ sawRates[a] <= Len(rates) /\ begun[a] <= begins
        /\ begun[a] # 0 => sawRates[a] # 0 /\ rates[sawRates[a]].from < begun[a]

LEMMA InForceIsLast == ASSUME RateInv PROVE InForce = Len(rates)
<1> DEFINE n == Len(rates)
           Newest(i) == \A j \in DOMAIN rates : rates[j].from <= rates[i].from
<1>1. DOMAIN rates = 1..n /\ n \in Nat /\ n \in 1..n
  BY BudgetAssumption DEF RateInv
<1>2. \A i \in 1..n : rates[i].from \in Nat BY DEF RateInv
<1>3. \A i, j \in 1..n : i < j => rates[i].from < rates[j].from BY DEF RateInv
<1> HIDE DEF n
<1>4. Newest(n)
  <2> SUFFICES ASSUME NEW j \in 1..n PROVE rates[j].from <= rates[n].from BY <1>1
  <2>1. CASE j = n BY <1>2, <2>1
  <2>2. CASE j < n BY <1>1, <1>2, <1>3, <2>2
  <2>3. j = n \/ j < n BY <1>1
  <2> QED BY <2>1, <2>2, <2>3
<1>5. ASSUME NEW i \in 1..n, Newest(i) PROVE i = n
  <2>1. rates[n].from <= rates[i].from BY <1>1, <1>5
  <2>2. ~(i < n) BY <1>1, <1>2, <1>3, <2>1
  <2>3. i \in Nat /\ i <= n BY <1>1
  <2> QED BY <1>1, <2>2, <2>3
<1> HIDE DEF Newest
<1>6. InForce = CHOOSE i \in 1..n : Newest(i) BY <1>1, Zenon DEF InForce, Newest
<1> QED BY <1>1, <1>4, <1>5, <1>6 DEF n

LEMMA InitRateInv == BudgetInit => RateInv
<1> SUFFICES ASSUME BudgetInit PROVE RateInv OBVIOUS
<1> USE BudgetAssumption
<1>1. rates = <<[replaced |-> 0, from |-> 0]>> /\ begins = 0 BY DEF BudgetInit
<1>2. rates \in Seq(RateSet) BY <1>1 DEF RateSet
<1>3. Len(rates) = 1 /\ rates[1].from = 0 BY <1>1
<1>4. \A i \in 1..Len(rates) : rates[i] \in RateSet /\ rates[i].from \in Nat
  BY <1>1, <1>3 DEF RateSet
<1> QED BY <1>1, <1>2, <1>3, <1>4 DEF BudgetInit, RateInv

LEMMA NextRateInv ==
    ASSUME RateInv, [BudgetNext]_budgetVars
    PROVE  RateInv' /\ Len(rates) <= Len(rates')
<1> USE BudgetAssumption
<1>0. Len(rates) \in Nat BY DEF RateInv
<1>1. ASSUME UNCHANGED rateVars PROVE RateInv' /\ Len(rates) <= Len(rates')
  <2>1. rates' = rates /\ sawRates' = sawRates /\ begun' = begun /\ begins' = begins
    BY <1>1 DEF rateVars
  <2>2. Len(rates) <= Len(rates') BY <1>0, <2>1
  <2> QED BY <2>1, <2>2 DEF RateInv
<1>2. ASSUME NEW a \in Accountants, GetRates(a) PROVE RateInv' /\ rates' = rates
  <2>1. sawRates' = [sawRates EXCEPT ![a] = Len(rates)]
    BY <1>2, InForceIsLast DEF GetRates
  <2>2. sawRates[a] = 0 /\ UNCHANGED <<rates, begun, begins>> BY <1>2 DEF GetRates
  <2> QED BY <1>0, <2>1, <2>2 DEF RateInv
<1>3. ASSUME NEW a \in Accountants, BeginRates(a) PROVE RateInv' /\ rates' = rates
  <2>1. /\ sawRates[a] # 0 /\ begins < MaxBegins /\ begins' = begins + 1
        /\ begun' = [begun EXCEPT ![a] = begins + 1]
        /\ UNCHANGED <<rates, sawRates>>
    BY <1>3 DEF BeginRates
  <2>2. begins \in 0..MaxBegins /\ begins + 1 \in 0..MaxBegins BY <2>1 DEF RateInv
  <2>3. \A i \in 1..Len(rates) : rates[i].from \in Nat /\ rates[i].from < begins + 1
    BY <2>2 DEF RateInv
  <2>4. \A b \in Accountants :
          /\ begun'[b] \in 0..MaxBegins /\ begun'[b] <= begins'
          /\ begun'[b] # 0 => sawRates[b] # 0 /\ rates[sawRates[b]].from < begun'[b]
    BY <1>0, <2>1, <2>2, <2>3 DEF RateInv
  <2>5. begun' \in [Accountants -> 0..MaxBegins] BY <2>1, <2>2 DEF RateInv
  <2>6. \A i \in 1..Len(rates) : rates[i].from <= begins' BY <2>1, <2>2, <2>3
  <2> QED BY <2>1, <2>2, <2>4, <2>5, <2>6 DEF RateInv
<1>4. ASSUME NEW a \in Accountants, UpdateRates(a)
      PROVE  RateInv' /\ Len(rates) <= Len(rates')
  <2> DEFINE n == Len(rates) new == [replaced |-> sawRates[a], from |-> begun[a]]
  <2>1. /\ begun[a] # 0 /\ n < MaxRates /\ begins' = begins
        /\ begun' = [begun EXCEPT ![a] = 0] /\ sawRates' = [sawRates EXCEPT ![a] = 0]
    BY <1>4 DEF UpdateRates
  <2>2. \A b \in Accountants : begun'[b] # 0 => begun'[b] = begun[b] /\ sawRates'[b] = sawRates[b]
    BY <2>1 DEF RateInv
  <2>3. CASE rates' = rates
    <3>1. \A b \in Accountants :
            /\ sawRates'[b] <= n /\ begun'[b] <= begins'
            /\ begun'[b] # 0 => sawRates'[b] # 0 /\ rates'[sawRates'[b]].from < begun'[b]
      BY <1>0, <2>1, <2>2, <2>3 DEF RateInv
    <3>2. /\ sawRates' \in [Accountants -> 0..MaxRates]
          /\ begun' \in [Accountants -> 0..MaxBegins]
      BY <2>1 DEF RateInv
    <3>3. /\ rates' \in Seq(RateSet) /\ Len(rates') = n
          /\ Len(rates') \in 1..MaxRates /\ begins' \in 0..MaxBegins
          /\ \A i \in 1..Len(rates') : rates'[i] \in RateSet /\ rates'[i].from \in Nat
      BY <2>1, <2>3 DEF RateInv
    <3>4. /\ \A i \in 1..Len(rates') : rates'[i].from <= begins'
          /\ \A i, j \in 1..Len(rates') : i < j => rates'[i].from < rates'[j].from
          /\ \A i \in 2..Len(rates') : rates'[i].replaced = i - 1
      BY <2>1, <2>3 DEF RateInv
    <3>5. n <= Len(rates') BY <1>0, <3>3
    <3> HIDE DEF n
    <3> QED BY <3>1, <3>2, <3>3, <3>4, <3>5 DEF RateInv, n
  <2>4. CASE sawRates[a] = n /\ rates' = Append(rates, new)
    <3>1. new \in RateSet /\ new.from \in Nat /\ new.from = begun[a]
      BY DEF RateInv, RateSet
    <3>2. /\ rates' \in Seq(RateSet)
          /\ Len(rates') = n + 1 /\ rates'[n + 1] = new
          /\ \A i \in 1..n : rates'[i] = rates[i]
      BY <2>4, <3>1 DEF RateInv
    <3>3. rates[n].from < begun[a] /\ begun[a] <= begins BY <2>1, <2>4 DEF RateInv
    <3>4. \A i \in 1..n : rates[i].from \in Nat /\ rates[i].from <= rates[n].from
      <4>1. ASSUME NEW i \in 1..n, i < n PROVE rates[i].from < rates[n].from
        BY <1>0, <4>1 DEF RateInv
      <4>2. \A i \in 1..n : rates[i].from \in Nat BY DEF RateInv
      <4> QED BY <1>0, <4>1, <4>2
    <3>11. \A i \in 1..n + 1 : rates'[i] \in RateSet /\ rates'[i].from \in Nat
      <4>1. ASSUME NEW i \in 1..n + 1 PROVE i = n + 1 \/ i \in 1..n BY <1>0
      <4>2. \A i \in 1..n : rates[i] \in RateSet /\ rates[i].from \in Nat BY DEF RateInv
      <4> HIDE DEF n, new
      <4> QED BY <3>1, <3>2, <4>1, <4>2
    <3>5. \A i \in 1..n : rates'[i].from < rates'[n + 1].from
      <4>1. new.from \in Nat BY <3>1
      <4>2. n \in Nat /\ rates[n].from \in Nat BY <1>0, <3>4 DEF RateInv
      <4> HIDE DEF n, new
      <4> QED BY <3>1, <3>2, <3>3, <3>4, <4>1, <4>2
    <3>6. \A i, j \in 1..n + 1 : i < j => rates'[i].from < rates'[j].from
      <4>1. \A i, j \in 1..n : i < j => rates[i].from < rates[j].from BY DEF RateInv
      <4>2. ASSUME NEW i \in 1..n + 1, NEW j \in 1..n + 1, i < j
            PROVE  i \in 1..n /\ (j = n + 1 \/ j \in 1..n)
        BY <1>0, <4>2
      <4> HIDE DEF n, new
      <4> QED BY <3>2, <3>5, <4>1, <4>2
    <3>7. \A i \in 1..n + 1 : rates'[i].from <= begins'
      <4>1. \A i \in 1..n : rates[i].from <= begins BY DEF RateInv
      <4>2. ASSUME NEW i \in 1..n + 1 PROVE i = n + 1 \/ i \in 1..n BY <1>0
      <4> HIDE DEF n, new
      <4> QED BY <2>1, <3>1, <3>2, <3>3, <4>1, <4>2
    <3>8. \A i \in 2..n + 1 : rates'[i].replaced = i - 1
      <4>1. ASSUME NEW i \in 2..n + 1 PROVE i = n + 1 \/ i \in 2..n BY <1>0
      <4>2. \A i \in 2..n : i \in 1..n /\ rates[i].replaced = i - 1 BY <1>0 DEF RateInv
      <4>3. new.replaced = (n + 1) - 1 BY <1>0, <2>4
      <4> HIDE DEF n, new
      <4> QED BY <3>2, <4>1, <4>2, <4>3
    <3>9. \A b \in Accountants :
            /\ sawRates'[b] <= n + 1 /\ begun'[b] <= begins'
            /\ begun'[b] # 0 => sawRates'[b] # 0 /\ rates'[sawRates'[b]].from < begun'[b]
      BY <1>0, <2>1, <2>2, <3>2 DEF RateInv
    <3>10. /\ sawRates' \in [Accountants -> 0..MaxRates]
           /\ begun' \in [Accountants -> 0..MaxBegins]
           /\ n + 1 \in 1..MaxRates /\ begins' \in 0..MaxBegins
      BY <1>0, <2>1 DEF RateInv
    <3> QED BY <1>0, <3>2, <3>6, <3>7, <3>8, <3>9, <3>10, <3>11 DEF RateInv
  <2>5. rates' = rates \/ (sawRates[a] = n /\ rates' = Append(rates, new))
    BY <1>4, InForceIsLast DEF UpdateRates, Enter
  <2> QED BY <2>3, <2>4, <2>5
<1>5. CASE \/ CreateLead \/ LoseOrRestore
           \/ \E w \in Writers : \/ SeeLead(w) \/ PreRead(w) \/ PriceEdit(w) \/ EditLead(w)
                                 \/ PatchInfo(w) \/ CallInfo(w)
  BY <1>1, <1>5 DEF CreateLead, LoseOrRestore, SeeLead, PreRead, PriceEdit, EditLead,
                    PatchInfo, CallInfo
<1>6. CASE UNCHANGED budgetVars BY <1>1, <1>6 DEF budgetVars
<1> QED BY <1>0, <1>2, <1>3, <1>4, <1>5, <1>6 DEF BudgetNext

\* No set of rates replaces one that its author had not seen, and the newest is the
\* one in force, whenever the transactions that enter them begin (settings.go:64).
THEOREM RatesAreReplacedInOrder == BudgetSpec => []RatesReplaceWhatWasSeen
<1>1. RateInv => RatesReplaceWhatWasSeen
  <2> SUFFICES ASSUME RateInv, NEW i \in 2..Len(rates)
               PROVE  rates[i].replaced = i - 1 /\ rates[i].from > rates[i - 1].from
    BY DEF RatesReplaceWhatWasSeen
  <2>1. i - 1 \in 1..Len(rates) /\ i \in 1..Len(rates) /\ i - 1 < i BY DEF RateInv
  <2>2. rates[i - 1].from \in Nat /\ rates[i].from \in Nat BY <2>1 DEF RateInv
  <2> QED BY <2>1, <2>2 DEF RateInv
<1>2. RateInv /\ [BudgetNext]_budgetVars => RateInv' BY NextRateInv
<1> QED BY InitRateInv, <1>1, <1>2, PTL DEF BudgetSpec

----------------------------------------------------------------------------
(* The budget *)

Edit == [amount : Amounts \cup {Nothing}, currency : Currencies]

WriterTypes ==
    /\ sawLead \in [Writers -> Lead] /\ preRead \in [Writers -> Lead]
    /\ sets \in [Writers -> Edit] /\ asOf \in [Writers -> 0..MaxRates]
    /\ phase \in [Writers -> {"new", "seen", "edit", "read", "priced", "done"}]

\* A user who has not seen the lead yet, or saw what its version names.
SawIt(w) ==
    /\ phase[w] \in {"new", "done"} => sawLead[w] = NoLead
    /\ phase[w] \notin {"new", "done"} =>
        /\ 0 < sawLead[w].version /\ sawLead[w].version <= budget.version
        /\ sawLead[w].version = budget.version => sawLead[w] = budget

\* What an edit read before its transaction is named by the version it read, but for
\* the rates, which it has replaced with newer ones if it changes the price.
ReadIt(w) ==
    phase[w] \in {"read", "priced"} =>
        /\ asOf[w] \in 1..Len(rates)
        /\ sawLead[w].version <= preRead[w].version
        /\ preRead[w].version <= budget.version
        /\ preRead[w].version = budget.version =>
            /\ preRead[w].amount = budget.amount /\ preRead[w].currency = budget.currency
            /\ phase[w] = "read" \/ ~Reprices(w) => preRead[w].pricedBy = budget.pricedBy
        /\ phase[w] = "priced" /\ Reprices(w) =>
            /\ preRead[w].pricedBy = 0 <=> sets[w].amount = Nothing
            /\ sets[w].amount # Nothing => preRead[w].pricedBy >= asOf[w]

BudgetInv ==
    /\ RateInv /\ WriterTypes
    /\ budget \in Lead /\ (budget.version = 0 => budget = NoLead)
    /\ enteredAt \in 1..Len(rates)
    /\ PricedWhenEntered
    /\ \A w \in Writers : SawIt(w) /\ ReadIt(w)

LEMMA NoLeadIsALead == NoLead \in Lead /\ Unset \in Edit
BY BudgetAssumption DEF NoLead, Lead, Unset, Edit

LEMMA InitBudgetInv == BudgetInit => BudgetInv
<1> SUFFICES ASSUME BudgetInit PROVE BudgetInv OBVIOUS
<1>1. RateInv BY InitRateInv
<1>2. WriterTypes BY NoLeadIsALead, BudgetAssumption DEF BudgetInit, WriterTypes
<1>3. budget = NoLead /\ budget \in Lead BY NoLeadIsALead DEF BudgetInit
<1>4. PricedWhenEntered BY <1>3 DEF NoLead, PricedWhenEntered
<1>5. enteredAt \in 1..Len(rates) BY <1>1 DEF BudgetInit, RateInv
<1>6. \A w \in Writers : SawIt(w) /\ ReadIt(w) BY DEF BudgetInit, SawIt, ReadIt
<1> QED BY <1>1, <1>2, <1>3, <1>4, <1>5, <1>6 DEF BudgetInv

\* The lead and the writers stay: rates only come to those there are.
LEMMA RatesKeepBudget ==
    ASSUME BudgetInv, [BudgetNext]_budgetVars, UNCHANGED <<budget, writerVars, enteredAt>>
    PROVE  BudgetInv'
<1>1. RateInv' /\ Len(rates) <= Len(rates') BY NextRateInv DEF BudgetInv
<1>2. Len(rates) \in Nat /\ Len(rates') \in Nat
  BY <1>1, BudgetAssumption DEF BudgetInv, RateInv
<1>3. 1..Len(rates) \subseteq 1..Len(rates') BY <1>1, <1>2
<1>4. UNCHANGED <<budget, enteredAt, sawLead, preRead, sets, phase, asOf>> BY DEF writerVars
<1>5. WriterTypes' BY <1>4 DEF BudgetInv, WriterTypes
<1>6. \A w \in Writers : SawIt(w)' BY <1>4 DEF BudgetInv, SawIt
<1>7. \A w \in Writers : ReadIt(w)'
  BY <1>3, <1>4 DEF BudgetInv, ReadIt, Reprices
<1>8. PricedWhenEntered' BY <1>4 DEF BudgetInv, PricedWhenEntered
<1> QED BY <1>1, <1>3, <1>4, <1>5, <1>6, <1>7, <1>8 DEF BudgetInv

\* A request that ends, and the others stay where they are.
LEMMA EndsFrame ==
    ASSUME WriterTypes, NEW w \in Writers, Ends(w)
    PROVE  /\ WriterTypes' /\ phase'[w] = "done" /\ sawLead'[w] = NoLead
           /\ \A v \in Writers \ {w} :
                /\ phase'[v] = phase[v] /\ sawLead'[v] = sawLead[v]
                /\ preRead'[v] = preRead[v] /\ sets'[v] = sets[v] /\ asOf'[v] = asOf[v]
BY NoLeadIsALead, BudgetAssumption DEF Ends, WriterTypes

\* The lead is replaced, under the next version, by one that is priced.
LEMMA ReplacedInv ==
    ASSUME BudgetInv, UNCHANGED rateVars, WriterTypes',
           \A v \in Writers :
             \/ phase'[v] = "done" /\ sawLead'[v] = NoLead
             \/ /\ phase'[v] = phase[v] /\ sawLead'[v] = sawLead[v]
                /\ preRead'[v] = preRead[v] /\ sets'[v] = sets[v] /\ asOf'[v] = asOf[v],
           budget' \in Lead,
           budget'.version = budget.version + 1 \/ (budget' = budget),
           enteredAt' \in 1..Len(rates), PricedWhenEntered'
    PROVE  BudgetInv'
<1>1. RateInv' /\ rates' = rates BY DEF BudgetInv, RateInv, rateVars
<1>2. budget.version \in Nat /\ budget'.version \in Nat BY DEF BudgetInv, Lead
<1>3. budget'.version = 0 => budget' = NoLead BY <1>2 DEF BudgetInv
<1>4. \A v \in Writers : sawLead[v].version \in Nat /\ preRead[v].version \in Nat
  BY DEF BudgetInv, WriterTypes, Lead
<1>5. ASSUME NEW v \in Writers PROVE SawIt(v)' /\ ReadIt(v)'
  <2>1. CASE phase'[v] = "done" /\ sawLead'[v] = NoLead
    BY <1>2, <1>3, <2>1 DEF SawIt, ReadIt, NoLead
  <2>2. CASE /\ phase'[v] = phase[v] /\ sawLead'[v] = sawLead[v]
             /\ preRead'[v] = preRead[v] /\ sets'[v] = sets[v] /\ asOf'[v] = asOf[v]
    <3>1. SawIt(v)' BY <1>2, <1>4, <2>2 DEF BudgetInv, SawIt
    <3>2. ReadIt(v)' BY <1>1, <1>2, <1>4, <2>2 DEF BudgetInv, ReadIt, Reprices
    <3> QED BY <3>1, <3>2
  <2> QED BY <2>1, <2>2
<1> QED BY <1>1, <1>3, <1>5 DEF BudgetInv

LEMMA PricedByRates ==
    ASSUME RateInv, NEW amount \in Amounts \cup {Nothing}
    PROVE  /\ Priced(amount) \in 0..MaxRates /\ InForce \in 1..Len(rates)
           /\ Priced(amount) = 0 <=> amount = Nothing
           /\ amount # Nothing => Priced(amount) = Len(rates)
BY InForceIsLast, BudgetAssumption DEF Priced, RateInv

LEMMA LowerIsAnAmount ==
    ASSUME NEW text \in BudgetText \cup {Nothing}
    PROVE  /\ Lower(text) \in Amounts \cup {Nothing}
           /\ text # Nothing => Lower(text) \in Amounts /\ Lower(text) # Nothing
BY BudgetAssumption DEF Lower, BudgetText

\* Steps of a user and of an edit that only reads.
LEMMA ReadingKeeps ==
    ASSUME BudgetInv, NEW w \in Writers, SeeLead(w) \/ PreRead(w) \/ PriceEdit(w)
    PROVE  BudgetInv'
<1>0. /\ RateInv /\ WriterTypes /\ budget \in Lead /\ budget.version \in Nat
      /\ RateInv' /\ rates' = rates /\ budget' = budget /\ enteredAt' = enteredAt
      /\ PricedWhenEntered'
  BY DEF BudgetInv, RateInv, Lead, rateVars, PricedWhenEntered, SeeLead, PreRead, PriceEdit
<1>1. ASSUME WriterTypes', SawIt(w)', ReadIt(w)',
             \A v \in Writers \ {w} :
                /\ phase'[v] = phase[v] /\ sawLead'[v] = sawLead[v]
                /\ preRead'[v] = preRead[v] /\ sets'[v] = sets[v] /\ asOf'[v] = asOf[v]
      PROVE  BudgetInv'
  <2>1. ASSUME NEW v \in Writers \ {w} PROVE SawIt(v)' /\ ReadIt(v)'
    BY <1>0, <1>1 DEF BudgetInv, SawIt, ReadIt, Reprices
  <2> QED BY <1>0, <1>1, <2>1 DEF BudgetInv
<1>2. CASE SeeLead(w)
  <2>1. /\ phase[w] = "new" /\ budget.version # 0
        /\ sawLead' = [sawLead EXCEPT ![w] = budget]
        /\ phase' = [phase EXCEPT ![w] = "seen"]
        /\ UNCHANGED <<preRead, sets, asOf>>
    BY <1>2 DEF SeeLead
  <2>2. WriterTypes' BY <1>0, <2>1 DEF WriterTypes
  <2>3. SawIt(w)' BY <1>0, <2>1 DEF WriterTypes, SawIt
  <2>4. ReadIt(w)' BY <1>0, <2>1 DEF WriterTypes, ReadIt
  <2>5. \A v \in Writers \ {w} : phase'[v] = phase[v] /\ sawLead'[v] = sawLead[v]
    BY <1>0, <2>1 DEF WriterTypes
  <2> QED BY <1>1, <2>1, <2>2, <2>3, <2>4, <2>5
<1>3. CASE PreRead(w)
  <2>1. CASE Ends(w)
    <3>1. SawIt(w)' /\ ReadIt(w)' BY <1>0, <2>1, EndsFrame DEF SawIt, ReadIt
    <3> QED BY <1>0, <1>1, <2>1, <3>1, EndsFrame
  <2>2. CASE ~Ends(w)
    <3>1. PICK amount \in Amounts \cup {Nothing}, c \in Currencies \cup {budget.currency} :
            sets' = [sets EXCEPT ![w] = [amount |-> amount, currency |-> c]]
      BY <1>3, <2>2 DEF PreRead
    <3>2. /\ phase[w] = "seen" /\ phase' = [phase EXCEPT ![w] = "read"]
          /\ preRead' = [preRead EXCEPT ![w] = budget]
          /\ asOf' = [asOf EXCEPT ![w] = InForce] /\ sawLead' = sawLead
      BY <1>3, <2>2 DEF PreRead
    <3>3. InForce \in 1..Len(rates) /\ InForce \in 0..MaxRates
      BY <1>0, InForceIsLast, BudgetAssumption DEF RateInv
    <3>4. [amount |-> amount, currency |-> c] \in Edit
      BY <1>0 DEF Edit, Lead
    <3>5. WriterTypes' BY <1>0, <3>1, <3>2, <3>3, <3>4 DEF WriterTypes
    <3>6. /\ phase'[w] = "read" /\ preRead'[w] = budget /\ asOf'[w] = InForce
          /\ sawLead'[w] = sawLead[w]
      BY <1>0, <3>2 DEF WriterTypes
    <3>7. SawIt(w)' BY <1>0, <3>2, <3>6 DEF BudgetInv, SawIt
    <3>8. ReadIt(w)' BY <1>0, <3>2, <3>3, <3>6 DEF BudgetInv, SawIt, ReadIt
    <3>9. \A v \in Writers \ {w} :
                /\ phase'[v] = phase[v] /\ sawLead'[v] = sawLead[v]
                /\ preRead'[v] = preRead[v] /\ sets'[v] = sets[v] /\ asOf'[v] = asOf[v]
      BY <1>0, <3>1, <3>2 DEF WriterTypes
    <3> QED BY <1>1, <3>5, <3>7, <3>8, <3>9
  <2> QED BY <2>1, <2>2
<1>4. CASE PriceEdit(w)
  <2> DEFINE price == IF Reprices(w) THEN Priced(sets[w].amount) ELSE preRead[w].pricedBy
  <2>1. /\ phase[w] = "read" /\ phase' = [phase EXCEPT ![w] = "priced"]
        /\ preRead' = [preRead EXCEPT ![w].pricedBy = price]
        /\ UNCHANGED <<sawLead, sets, asOf>>
    BY <1>4 DEF PriceEdit
  <2>2. sets[w].amount \in Amounts \cup {Nothing} /\ preRead[w] \in Lead
    BY <1>0 DEF WriterTypes, Edit
  <2>3. price \in 0..MaxRates BY <1>0, <2>2, PricedByRates DEF Lead
  <2>4. /\ Reprices(w) => (price = 0 <=> sets[w].amount = Nothing)
        /\ Reprices(w) /\ sets[w].amount # Nothing => price = Len(rates)
        /\ ~Reprices(w) => price = preRead[w].pricedBy
    BY <1>0, <2>2, PricedByRates
  <2> HIDE DEF price
  <2>5. /\ preRead'[w] = [preRead[w] EXCEPT !.pricedBy = price] /\ preRead'[w] \in Lead
        /\ preRead'[w].pricedBy = price /\ preRead'[w].amount = preRead[w].amount
        /\ preRead'[w].currency = preRead[w].currency
        /\ preRead'[w].version = preRead[w].version /\ phase'[w] = "priced"
    BY <1>0, <2>1, <2>2, <2>3 DEF WriterTypes, Lead
  <2>6. WriterTypes' BY <1>0, <2>1, <2>5 DEF WriterTypes
  <2>7. SawIt(w)' BY <1>0, <2>1, <2>5 DEF BudgetInv, SawIt
  <2>8. Reprices(w)' = Reprices(w) BY <2>1, <2>5 DEF Reprices
  <2>9. Len(rates) \in Nat BY <1>0, BudgetAssumption DEF RateInv
  <2>10. ReadIt(w)'
    BY <1>0, <2>1, <2>4, <2>5, <2>8, <2>9 DEF BudgetInv, ReadIt
  <2>11. \A v \in Writers \ {w} : phase'[v] = phase[v] /\ preRead'[v] = preRead[v]
    BY <1>0, <2>1 DEF WriterTypes
  <2> QED BY <1>1, <2>1, <2>6, <2>7, <2>10, <2>11
<1> QED BY <1>2, <1>3, <1>4

\* What is written names its price, entered now or before.
Priceable(lead, since) ==
    /\ lead \in Lead
    /\ lead.pricedBy = 0 <=> lead.amount = Nothing
    /\ lead.amount # Nothing =>
        \/ lead.pricedBy >= since /\ lead.pricedBy >= enteredAt
        \/ lead.pricedBy >= since /\ (lead.amount # budget.amount
                                      \/ lead.currency # budget.currency)
        \/ /\ lead.pricedBy = budget.pricedBy /\ lead.amount = budget.amount
           /\ lead.currency = budget.currency

LEMMA WriteLeadPrices ==
    ASSUME BudgetInv, NEW lead, NEW since \in 1..Len(rates), Priceable(lead, since),
           WriteLead(lead, since)
    PROVE  budget' = lead /\ enteredAt' \in 1..Len(rates) /\ PricedWhenEntered'
<1>1. budget' = lead /\ enteredAt' \in 1..Len(rates) BY DEF WriteLead, BudgetInv
<1>2. PricedWhenEntered'
  BY <1>1 DEF WriteLead, BudgetInv, Priceable, PricedWhenEntered
<1> QED BY <1>1, <1>2

\* What a request makes of the lead, and the version it is written under.
Holds(next, text, amount, c, price, o) ==
    next = [budget EXCEPT !.text = text, !.amount = amount, !.currency = c,
                          !.pricedBy = price, !.info = o]
Bumped(lead, next) == lead = [next EXCEPT !.version = @ + 1]
NextHolds(lead, amount, c, price) ==
    /\ lead \in Lead /\ lead.version = budget.version + 1 /\ lead.amount = amount
    /\ lead.currency = c /\ lead.pricedBy = price

LEMMA NextLead ==
    ASSUME budget \in Lead, NEW text \in BudgetText \cup {Nothing},
           NEW amount \in Amounts \cup {Nothing}, NEW c \in Currencies,
           NEW price \in 0..MaxRates, NEW o \in Other, NEW next, NEW lead,
           Holds(next, text, amount, c, price, o), Bumped(lead, next)
    PROVE  NextHolds(lead, amount, c, price)
<1>1. budget.version + 1 \in Nat BY DEF Lead
<1>2. next \in Lead BY Zenon DEF Lead, Holds
<1>3. /\ next.version = budget.version /\ next.amount = amount
      /\ next.currency = c /\ next.pricedBy = price
  BY DEF Lead, Holds
<1>4. lead \in Lead BY <1>1, <1>2, <1>3, Zenon DEF Lead, Bumped
<1> QED BY <1>2, <1>3, <1>4 DEF Lead, Bumped, NextHolds

LEMMA WriterKeeps ==
    ASSUME BudgetInv, NEW w \in Writers, EditLead(w) \/ PatchInfo(w) \/ CallInfo(w)
    PROVE  BudgetInv'
<1>0. /\ RateInv /\ WriterTypes /\ budget \in Lead /\ budget.version \in Nat
      /\ Len(rates) \in Nat /\ enteredAt \in 1..Len(rates) /\ InForce = Len(rates)
      /\ InForce \in 1..Len(rates) /\ Len(rates) \in 0..MaxRates
      /\ UNCHANGED rateVars /\ Ends(w)
  BY BudgetAssumption, InForceIsLast
  DEF BudgetInv, RateInv, Lead, EditLead, PatchInfo, CallInfo, rateVars
<1>f. /\ WriterTypes'
      /\ \A v \in Writers :
             \/ phase'[v] = "done" /\ sawLead'[v] = NoLead
             \/ /\ phase'[v] = phase[v] /\ sawLead'[v] = sawLead[v]
                /\ preRead'[v] = preRead[v] /\ sets'[v] = sets[v] /\ asOf'[v] = asOf[v]
  BY <1>0, EndsFrame
<1>1. CASE UNCHANGED <<budget, enteredAt>>
  <2>1. PricedWhenEntered' BY <1>1 DEF BudgetInv, PricedWhenEntered
  <2> QED BY <1>0, <1>f, <1>1, <2>1, ReplacedInv
<1>2. ASSUME NEW lead, NEW since \in 1..Len(rates), Priceable(lead, since),
             lead.version = budget.version + 1, WriteLead(lead, since)
      PROVE  BudgetInv'
  <2>1. budget' = lead /\ enteredAt' \in 1..Len(rates) /\ PricedWhenEntered'
    BY <1>2, WriteLeadPrices
  <2>2. lead \in Lead BY <1>2 DEF Priceable
  <2>3. budget' \in Lead /\ budget'.version = budget.version + 1 BY <1>2, <2>1, <2>2
  <2> QED BY <1>0, <1>f, <2>1, <2>3, ReplacedInv
<1>3. CASE EditLead(w)
  <2> DEFINE lead == [budget EXCEPT !.version = @ + 1, !.amount = sets[w].amount,
                                    !.currency = sets[w].currency,
                                    !.pricedBy = preRead[w].pricedBy]
  <2>1. CASE ~(budget.version = sawLead[w].version /\ ~lost)
    BY <1>1, <1>3, <2>1 DEF EditLead
  <2>2. CASE budget.version = sawLead[w].version /\ ~lost
    <3>1. phase[w] = "priced" /\ WriteLead(lead, asOf[w]) BY <1>3, <2>2 DEF EditLead
    <3>2. /\ sets[w] \in Edit /\ preRead[w] \in Lead /\ sawLead[w].version \in Nat
          /\ preRead[w].version \in Nat
      BY <1>0 DEF WriterTypes, Lead
    <3>3. asOf[w] \in 1..Len(rates) /\ preRead[w].version = budget.version
      BY <1>0, <2>2, <3>1, <3>2 DEF BudgetInv, ReadIt
    <3>4. /\ preRead[w].amount = budget.amount /\ preRead[w].currency = budget.currency
          /\ ~Reprices(w) => preRead[w].pricedBy = budget.pricedBy
          /\ Reprices(w) =>
                /\ preRead[w].pricedBy = 0 <=> sets[w].amount = Nothing
                /\ sets[w].amount # Nothing => preRead[w].pricedBy >= asOf[w]
      BY <3>1, <3>3 DEF BudgetInv, ReadIt
    <3>n. budget.version + 1 \in Nat BY <1>0
    <3>r. preRead[w].pricedBy \in 0..MaxRates BY <3>2 DEF Lead
    <3>s. sets[w].amount \in Amounts \cup {Nothing} /\ sets[w].currency \in Currencies
      BY <3>2 DEF Edit
    <3>5. /\ lead \in Lead /\ lead.version = budget.version + 1
          /\ lead.amount = sets[w].amount /\ lead.currency = sets[w].currency
          /\ lead.pricedBy = preRead[w].pricedBy
      BY <1>0, <3>n, <3>r, <3>s, Zenon DEF Lead
    <3> HIDE DEF lead
    <3>6. Priceable(lead, asOf[w])
      BY <3>4, <3>5 DEF Priceable, Reprices, BudgetInv, PricedWhenEntered
    <3> QED BY <1>2, <3>1, <3>3, <3>5, <3>6
  <2> QED BY <2>1, <2>2
<1>4. CASE PatchInfo(w)
  <2>1. PICK text \in BudgetText \cup {Nothing, Unsent}, c \in Currencies \cup {Unsent},
             o \in Other :
          \/ UNCHANGED <<budget, enteredAt>>
          \/ WriteLead([Info(text, c, o) EXCEPT !.version = @ + 1], InForce)
    BY <1>4 DEF PatchInfo
  <2> DEFINE amount == IF text = Unsent THEN budget.amount ELSE Lower(text)
             words == IF text = Unsent THEN budget.text ELSE text
             unit == CASE c # Unsent -> c
                       [] c = Unsent /\ budget.amount = Nothing /\ amount # Nothing ->
                            OfficeCurrency
                       [] OTHER -> budget.currency
             changed == \/ words # budget.text \/ amount # budget.amount
                        \/ unit # budget.currency
             price == IF changed THEN Priced(amount) ELSE budget.pricedBy
             lead == [Info(text, c, o) EXCEPT !.version = @ + 1]
  <2>2. amount \in Amounts \cup {Nothing} /\ words \in BudgetText \cup {Nothing}
    BY <1>0, LowerIsAnAmount DEF Lead
  <2>3. unit \in Currencies BY <1>0, BudgetAssumption DEF Lead
  <2>4. /\ price \in 0..MaxRates
        /\ changed => /\ price = 0 <=> amount = Nothing
                      /\ amount # Nothing => price = Len(rates)
        /\ ~changed => price = budget.pricedBy
    BY <1>0, <2>2, PricedByRates DEF Lead
  <2>5. Info(text, c, o) = [budget EXCEPT !.text = words, !.amount = amount, !.currency = unit,
                                          !.pricedBy = price, !.info = o]
    BY Zenon DEF Info
  <2>6. ~changed => amount = budget.amount /\ unit = budget.currency OBVIOUS
  <2> HIDE DEF amount, words, unit, changed, price
  <2>7. /\ lead \in Lead /\ lead.version = budget.version + 1 /\ lead.amount = amount
        /\ lead.currency = unit /\ lead.pricedBy = price
    <3> DEFINE next == Info(text, c, o)
    <3>1. Bumped(lead, next) BY DEF Bumped
    <3> HIDE DEF lead
    <3>2. Holds(next, words, amount, unit, price, o) BY <2>5 DEF Holds
    <3> HIDE DEF next
    <3>3. budget \in Lead BY <1>0
    <3>4. price \in 0..MaxRates BY <2>4
    <3>5. NextHolds(lead, amount, unit, price)
      BY <2>2, <2>3, <3>1, <3>2, <3>3, <3>4, NextLead, Zenon
    <3> QED BY <3>5, Zenon DEF NextHolds
  <2> HIDE DEF lead
  <2>8. Priceable(lead, InForce)
    BY <1>0, <2>4, <2>6, <2>7 DEF Priceable, BudgetInv, PricedWhenEntered
  <2>9. lead = [Info(text, c, o) EXCEPT !.version = @ + 1] BY DEF lead
  <2> QED BY <1>0, <1>1, <1>2, <2>1, <2>7, <2>8, <2>9
<1>5. CASE CallInfo(w)
  <2>1. PICK text \in BudgetText \cup {Unsent}, c \in Currencies, o \in Other :
          WriteLead([Called(text, c, o) EXCEPT !.version = @ + 1], InForce)
    BY <1>5 DEF CallInfo
  <2> DEFINE lead == [Called(text, c, o) EXCEPT !.version = @ + 1]
  <2>2. CASE text = Unsent
    <3>1. /\ lead \in Lead /\ lead.version = budget.version + 1
          /\ lead.amount = budget.amount /\ lead.currency = budget.currency
          /\ lead.pricedBy = budget.pricedBy
      <4>1. /\ budget.text \in BudgetText \cup {Nothing} /\ budget.currency \in Currencies
            /\ budget.amount \in Amounts \cup {Nothing} /\ budget.pricedBy \in 0..MaxRates
        BY <1>0 DEF Lead
      <4> DEFINE next == Called(text, c, o)
      <4>2. Bumped(lead, next) BY DEF Bumped
      <4> HIDE DEF lead
      <4>3. Holds(next, budget.text, budget.amount, budget.currency, budget.pricedBy, o)
        BY <1>0, <2>2 DEF Called, Lead, Holds
      <4> HIDE DEF next
      <4>4. budget \in Lead BY <1>0
      <4>5. NextHolds(lead, budget.amount, budget.currency, budget.pricedBy)
        BY <4>1, <4>2, <4>3, <4>4, NextLead, Zenon
      <4> QED BY <4>5, Zenon DEF NextHolds
    <3>2. Priceable(lead, InForce)
      BY <3>1 DEF Priceable, BudgetInv, PricedWhenEntered
    <3> QED BY <1>0, <1>2, <2>1, <3>1, <3>2
  <2>3. CASE text # Unsent
    <3>1. text \in BudgetText /\ Lower(text) \in Amounts /\ Lower(text) # Nothing
      BY <2>3, LowerIsAnAmount, BudgetAssumption
    <3>2. /\ lead \in Lead /\ lead.version = budget.version + 1
          /\ lead.amount = Lower(text) /\ lead.pricedBy = Len(rates)
      <4> DEFINE next == Called(text, c, o)
      <4>1. Bumped(lead, next) BY DEF Bumped
      <4> HIDE DEF lead
      <4>3. Holds(next, text, Lower(text), c, InForce, o)
        BY <2>3, Zenon DEF Called, Holds
      <4> HIDE DEF next
      <4>2. /\ text \in BudgetText \cup {Nothing} /\ Lower(text) \in Amounts \cup {Nothing}
            /\ InForce \in 0..MaxRates
        BY <1>0, <3>1
      <4>4. budget \in Lead /\ InForce = Len(rates) BY <1>0
      <4>5. NextHolds(lead, Lower(text), c, InForce)
        BY <4>1, <4>2, <4>3, <4>4, NextLead, Zenon
      <4> QED BY <4>4, <4>5, Zenon DEF NextHolds
    <3> HIDE DEF lead
    <3>3. Priceable(lead, InForce)
      BY <1>0, <3>1, <3>2 DEF Priceable, BudgetInv
    <3>4. lead = [Called(text, c, o) EXCEPT !.version = @ + 1] BY DEF lead
    <3> QED BY <1>0, <1>2, <2>1, <3>2, <3>3, <3>4
  <2> QED BY <2>2, <2>3
<1> QED BY <1>3, <1>4, <1>5

\* The lead is created, archived or restored: no request of a writer moves.
LEMMA LeadMovesKeep ==
    ASSUME BudgetInv, CreateLead \/ LoseOrRestore
    PROVE  BudgetInv'
<1>0. /\ RateInv /\ WriterTypes /\ budget \in Lead /\ budget.version \in Nat
      /\ Len(rates) \in Nat /\ enteredAt \in 1..Len(rates) /\ InForce = Len(rates)
      /\ InForce \in 1..Len(rates) /\ UNCHANGED <<rateVars, writerVars>>
  BY BudgetAssumption, InForceIsLast
  DEF BudgetInv, RateInv, Lead, CreateLead, LoseOrRestore
<1>f. /\ WriterTypes'
      /\ \A v \in Writers :
             \/ phase'[v] = "done" /\ sawLead'[v] = NoLead
             \/ /\ phase'[v] = phase[v] /\ sawLead'[v] = sawLead[v]
                /\ preRead'[v] = preRead[v] /\ sets'[v] = sets[v] /\ asOf'[v] = asOf[v]
  BY <1>0 DEF WriterTypes, writerVars
<1>1. CASE CreateLead
  <2>1. budget = NoLead BY <1>1 DEF BudgetInv, CreateLead
  <2>2. PICK text \in BudgetText \cup {Nothing}, number \in Amounts \cup {Nothing},
             c \in Currencies, o \in Other :
          LET amount == IF text = Nothing THEN number ELSE Lower(text)
          IN WriteLead([version |-> 1, text |-> text, amount |-> amount, currency |-> c,
                        pricedBy |-> Priced(amount), info |-> o], InForce)
    BY <1>1 DEF CreateLead
  <2> DEFINE amount == IF text = Nothing THEN number ELSE Lower(text)
             lead == [version |-> 1, text |-> text, amount |-> amount, currency |-> c,
                      pricedBy |-> Priced(amount), info |-> o]
  <2>3. amount \in Amounts \cup {Nothing} BY LowerIsAnAmount
  <2>4. /\ Priced(amount) \in 0..MaxRates
        /\ Priced(amount) = 0 <=> amount = Nothing
        /\ amount # Nothing => Priced(amount) = Len(rates)
    BY <1>0, <2>3, PricedByRates
  <2>5. WriteLead(lead, InForce) BY <2>2
  <2> HIDE DEF amount
  <2>6. lead \in Lead BY <2>3, <2>4, Zenon DEF Lead
  <2>7. /\ lead.version = 1 /\ lead.amount = amount /\ lead.pricedBy = Priced(amount)
    OBVIOUS
  <2> HIDE DEF lead
  <2>8. Priceable(lead, InForce)
    BY <1>0, <2>4, <2>6, <2>7 DEF Priceable
  <2>9. budget' = lead /\ enteredAt' \in 1..Len(rates) /\ PricedWhenEntered'
    BY <1>0, <2>5, <2>8, WriteLeadPrices
  <2>10. budget' \in Lead /\ budget'.version = budget.version + 1
    BY <2>1, <2>6, <2>7, <2>9 DEF NoLead
  <2> QED BY <1>0, <1>f, <2>9, <2>10, ReplacedInv
<1>2. CASE LoseOrRestore
  <2>1. budget' = [budget EXCEPT !.version = @ + 1] /\ enteredAt' = enteredAt
    BY <1>2 DEF LoseOrRestore
  <2>2. budget.version + 1 \in Nat BY <1>0
  <2>3. budget' \in Lead BY <1>0, <2>1, <2>2, Zenon DEF Lead
  <2>4. /\ budget'.version = budget.version + 1 /\ budget'.amount = budget.amount
        /\ budget'.pricedBy = budget.pricedBy
    BY <1>0, <2>1 DEF Lead
  <2>5. PricedWhenEntered' BY <2>1, <2>4 DEF BudgetInv, PricedWhenEntered
  <2> QED BY <1>0, <1>f, <2>1, <2>3, <2>4, <2>5, ReplacedInv
<1> QED BY <1>1, <1>2

LEMMA NextBudgetInv == BudgetInv /\ [BudgetNext]_budgetVars => BudgetInv'
<1> SUFFICES ASSUME BudgetInv, [BudgetNext]_budgetVars PROVE BudgetInv' OBVIOUS
<1>1. ASSUME NEW a \in Accountants, GetRates(a) \/ BeginRates(a) \/ UpdateRates(a)
      PROVE  BudgetInv'
  <2>1. UNCHANGED <<budget, writerVars, enteredAt>>
    BY <1>1 DEF GetRates, BeginRates, UpdateRates
  <2> QED BY <2>1, RatesKeepBudget
<1>2. CASE CreateLead \/ LoseOrRestore BY <1>2, LeadMovesKeep
<1>3. ASSUME NEW w \in Writers, \/ SeeLead(w) \/ PreRead(w) \/ PriceEdit(w)
                                \/ EditLead(w) \/ PatchInfo(w) \/ CallInfo(w)
      PROVE  BudgetInv'
  BY <1>3, ReadingKeeps, WriterKeeps
<1>4. CASE UNCHANGED budgetVars
  <2>1. UNCHANGED <<budget, writerVars, enteredAt>> BY <1>4 DEF budgetVars
  <2> QED BY <2>1, RatesKeepBudget
<1> QED BY <1>1, <1>2, <1>3, <1>4 DEF BudgetNext

\* A budget names the rates it is priced with, and none older than those in force when
\* the request arrived that last changed it, whichever handlers wrote in between
\* (leads.go:1075, lead_info.go:296).
THEOREM PricesAreOfTheirTime == BudgetSpec => []PricedWhenEntered
<1>1. BudgetInv => PricedWhenEntered BY DEF BudgetInv
<1> QED BY InitBudgetInv, NextBudgetInv, <1>1, PTL DEF BudgetSpec

\* While the lead has the version a user saw, it holds what that user was shown
\* (leads.go:1103).
THEOREM VersionsNameTheLead == BudgetSpec => []VersionNamesLead
<1>1. BudgetInv => VersionNamesLead
  <2> SUFFICES ASSUME BudgetInv, NEW w \in Writers, sawLead[w].version = budget.version
               PROVE  sawLead[w] = budget
    BY DEF VersionNamesLead
  <2>1. SawIt(w) /\ NoLead.version = 0 /\ (budget.version = 0 => budget = NoLead)
    BY DEF BudgetInv, NoLead
  <2> QED BY <2>1 DEF SawIt
<1> QED BY InitBudgetInv, NextBudgetInv, <1>1, PTL DEF BudgetSpec

----------------------------------------------------------------------------
(* Duplicates *)

\* What a marking has read is what is there until it commits.
ReadLeads ==
    \A m \in Marks :
        LET l == marking[m].lead
            o == marking[m].of
        IN /\ marking[m].at \in {"lead", "original", "write"} =>
                 l \in Leads /\ o \in Leads /\ l # o
           /\ marking[m].at \in {"original", "write"} =>
                 /\ rowLock[l] = m /\ shelf[l] = "active"
                 /\ original[l] = NoOriginal /\ stage[l] # "won"
           /\ marking[m].at = "write" =>
                 rowLock[o] = m /\ shelf[o] = "active" /\ original[o] = NoOriginal

\* A removal holds its lead.
HeldRemovals ==
    \A d \in Removals : removing[d].at = "delete" =>
        removing[d].lead \in Leads /\ rowLock[removing[d].lead] = d

LinkInv == DuplicateTypeOK /\ ReadLeads /\ HeldRemovals /\ DuplicatesLeadToAnOriginal

LEMMA InitLinkInv == DuplicateInit => LinkInv
<1> SUFFICES ASSUME DuplicateInit PROVE LinkInv OBVIOUS
<1>1. DuplicateTypeOK BY DEF DuplicateInit, DuplicateTypeOK
<1>2. ReadLeads /\ HeldRemovals BY DEF DuplicateInit, ReadLeads, HeldRemovals
<1>3. DuplicatesLeadToAnOriginal
  BY DuplicatesAssumption DEF DuplicateInit, DuplicatesLeadToAnOriginal
<1> QED BY <1>1, <1>2, <1>3 DEF LinkInv

LEMMA NextDuplicateTypes ==
    DuplicateTypeOK /\ [DuplicateNext]_duplicateVars => DuplicateTypeOK'
<1> SUFFICES ASSUME DuplicateTypeOK, [DuplicateNext]_duplicateVars
             PROVE  DuplicateTypeOK'
  OBVIOUS
<1> USE DEF DuplicateTypeOK
<1>1. CASE UNCHANGED duplicateVars BY <1>1 DEF duplicateVars, leadRows
<1>2. ASSUME NEW m \in Marks, AskMark(m) PROVE DuplicateTypeOK'
  <2>1. PICK l \in Leads, o \in Leads :
           marking' = [marking EXCEPT ![m] = [at |-> "lead", lead |-> l, of |-> o]]
    BY <1>2 DEF AskMark
  <2> QED BY <1>2, <2>1 DEF AskMark, leadRows
<1>3. ASSUME NEW m \in Marks, EndMark(m) PROVE DuplicateTypeOK'
  BY <1>3 DEF EndMark, Moves, Unlock, leadRows
<1>4. ASSUME NEW m \in Marks, LockDuplicate(m), ~EndMark(m) PROVE DuplicateTypeOK'
  BY <1>4 DEF LockDuplicate, Moves, leadRows
<1>5. ASSUME NEW m \in Marks, LockOriginal(m), ~EndMark(m) PROVE DuplicateTypeOK'
  <2>1. /\ rowLock' = [rowLock EXCEPT ![marking[m].of] = m] /\ UNCHANGED <<leadRows, removing>>
        /\ marking' = [marking EXCEPT ![m].at = "write"]
    BY <1>5 DEF LockOriginal, Moves
  <2> QED BY <2>1 DEF leadRows
<1>6. ASSUME NEW m \in Marks, WriteMark(m) PROVE DuplicateTypeOK'
  BY <1>6 DEF WriteMark, Moves, Unlock
<1>7. ASSUME NEW d \in Removals, LockRemoved(d) PROVE DuplicateTypeOK'
  BY <1>7 DEF LockRemoved, leadRows
<1>8. ASSUME NEW d \in Removals, RemoveDuplicated(d) \/ AbortRemoval(d)
      PROVE  DuplicateTypeOK'
  <2>1. CASE RemoveDuplicated(d) BY <2>1 DEF RemoveDuplicated, Unlock
  <2>2. CASE AbortRemoval(d) BY <2>2 DEF AbortRemoval, Unlock, leadRows
  <2> QED BY <1>8, <2>1, <2>2
<1>9. ASSUME NEW l \in Leads,
             \/ \E decision \in {"lost", "won"} : DecideLead(l, decision)
             \/ ReopenClosed(l) \/ ShelveLead(l)
      PROVE  DuplicateTypeOK'
  BY <1>9 DEF DecideLead, ReopenClosed, ShelveLead
<1> QED BY <1>1, <1>2, <1>3, <1>4, <1>5, <1>6, <1>7, <1>8, <1>9
        DEF DuplicateNext, AbortMark

\* A step of a marking m leaves what the others have read: it writes its own lead only.
LEMMA WriteKeepsLinks ==
    ASSUME LinkInv, NEW m \in Marks, WriteMark(m)
    PROVE  ReadLeads' /\ HeldRemovals' /\ DuplicatesLeadToAnOriginal'
<1> DEFINE l == marking[m].lead
           o == marking[m].of
<1>1. /\ l \in Leads /\ o \in Leads /\ l # o /\ marking[m].at = "write"
      /\ rowLock[l] = m /\ shelf[l] = "active" /\ original[l] = NoOriginal
      /\ rowLock[o] = m /\ shelf[o] = "active" /\ original[o] = NoOriginal
  BY DEF LinkInv, ReadLeads, WriteMark
<1>2. /\ original' = [original EXCEPT ![l] = o] /\ stage' = [stage EXCEPT ![l] = "lost"]
      /\ marking' = [marking EXCEPT ![m].at = "done"]
      /\ rowLock' = [k \in Leads |-> IF rowLock[k] = m THEN Nobody ELSE rowLock[k]]
      /\ shelf' = shelf /\ removing' = removing
  BY DEF WriteMark, Moves, Unlock
<1>3. /\ original \in [Leads -> Leads \cup {NoOriginal}]
      /\ stage \in [Leads -> {"open", "lost", "won"}]
      /\ marking \in [Marks -> [at : {"new", "lead", "original", "write", "done"},
                                lead : Leads \cup {NoOriginal},
                                of : Leads \cup {NoOriginal}]]
  BY DEF LinkInv, DuplicateTypeOK
<1>4. /\ original'[l] = o /\ stage'[l] = "lost"
      /\ \A k \in Leads \ {l} : original'[k] = original[k] /\ stage'[k] = stage[k]
      /\ marking'[m].at = "done"
      /\ \A n \in Marks \ {m} : marking'[n] = marking[n]
      /\ \A k \in Leads, q \in Marks \cup Removals :
            rowLock[k] = q /\ q # m => k # l /\ rowLock'[k] = q
  <2> HIDE DEF l, o
  <2> QED BY <1>1, <1>2, <1>3
<1>5. ReadLeads'
  <2> SUFFICES ASSUME NEW n \in Marks \ {m}
               PROVE  LET k == marking[n].lead
                          p == marking[n].of
                      IN /\ marking[n].at \in {"lead", "original", "write"} =>
                               k \in Leads /\ p \in Leads /\ k # p
                         /\ marking[n].at \in {"original", "write"} =>
                               /\ rowLock'[k] = n /\ shelf[k] = "active"
                               /\ original'[k] = NoOriginal /\ stage'[k] # "won"
                         /\ marking[n].at = "write" =>
                               rowLock'[p] = n /\ shelf[p] = "active"
                               /\ original'[p] = NoOriginal
    BY <1>2, <1>4 DEF ReadLeads
  <2> HIDE DEF l, o
  <2> QED BY <1>4 DEF LinkInv, ReadLeads
<1>6. HeldRemovals'
  <2>1. m \notin Removals BY DuplicatesAssumption
  <2> HIDE DEF l, o
  <2> QED BY <1>2, <1>4, <2>1 DEF LinkInv, HeldRemovals
<1>7. ASSUME NEW S \in SUBSET Leads, S # {}
      PROVE  \E k \in S : original'[k] \notin S
  <2>1. CASE o \in S
    <3>1. original'[o] = NoOriginal BY <1>1, <1>4
    <3>2. NoOriginal \notin S BY DuplicatesAssumption
    <3> QED BY <2>1, <3>1, <3>2
  <2>2. CASE o \notin S /\ l \in S BY <1>4, <2>2
  <2>3. CASE l \notin S
    <3>1. PICK k \in S : original[k] \notin S
      BY <1>7 DEF LinkInv, DuplicatesLeadToAnOriginal
    <3> QED BY <1>4, <2>3, <3>1
  <2> QED BY <2>1, <2>2, <2>3
<1>8. ASSUME NEW k \in Leads, original'[k] # NoOriginal
      PROVE  stage'[k] = "lost" /\ shelf'[k] # "gone" /\ shelf'[original'[k]] # "gone"
  <2>1. CASE k = l BY <1>1, <1>2, <1>4, <2>1
  <2>2. CASE k # l BY <1>2, <1>4, <1>8, <2>2 DEF LinkInv, DuplicatesLeadToAnOriginal
  <2> QED BY <2>1, <2>2
<1> QED BY <1>5, <1>6, <1>7, <1>8 DEF DuplicatesLeadToAnOriginal

\* Locking and letting go of rows: no lead is written.
LEMMA LocksKeepLinks ==
    ASSUME LinkInv, UNCHANGED leadRows,
           \/ \E m \in Marks :
                 AskMark(m) \/ LockDuplicate(m) \/ LockOriginal(m) \/ AbortMark(m)
           \/ \E d \in Removals : LockRemoved(d) \/ AbortRemoval(d)
    PROVE  ReadLeads' /\ HeldRemovals' /\ DuplicatesLeadToAnOriginal'
<1>0. DuplicateTypeOK /\ ReadLeads /\ HeldRemovals BY DEF LinkInv
<1>1. DuplicatesLeadToAnOriginal'
  BY DEF LinkInv, leadRows, DuplicatesLeadToAnOriginal
<1>2. ASSUME NEW m \in Marks, AskMark(m) PROVE ReadLeads' /\ HeldRemovals'
  BY <1>0, <1>2 DEF AskMark, leadRows, DuplicateTypeOK, ReadLeads, HeldRemovals
<1>3. ASSUME NEW m \in Marks, EndMark(m) PROVE ReadLeads' /\ HeldRemovals'
  <2>1. ReadLeads'
    BY <1>0, <1>3, DuplicatesAssumption
    DEF EndMark, Moves, Unlock, leadRows, DuplicateTypeOK, ReadLeads
  <2>2. HeldRemovals'
    BY <1>0, <1>3, DuplicatesAssumption
    DEF EndMark, Unlock, leadRows, DuplicateTypeOK, HeldRemovals
  <2> QED BY <2>1, <2>2
<1>4. ASSUME NEW m \in Marks, LockDuplicate(m), ~EndMark(m)
      PROVE  ReadLeads' /\ HeldRemovals'
  <2>1. ReadLeads'
    BY <1>0, <1>4, DuplicatesAssumption
    DEF LockDuplicate, Moves, Free, leadRows, DuplicateTypeOK, ReadLeads
  <2>2. HeldRemovals'
    BY <1>0, <1>4, DuplicatesAssumption
    DEF LockDuplicate, Free, leadRows, DuplicateTypeOK, HeldRemovals
  <2> QED BY <2>1, <2>2
<1>5. ASSUME NEW m \in Marks, LockOriginal(m), ~EndMark(m)
      PROVE  ReadLeads' /\ HeldRemovals'
  <2>1. ReadLeads'
    BY <1>0, <1>5, DuplicatesAssumption
    DEF LockOriginal, Moves, Free, leadRows, DuplicateTypeOK, ReadLeads
  <2>2. HeldRemovals'
    BY <1>0, <1>5, DuplicatesAssumption
    DEF LockOriginal, Free, leadRows, DuplicateTypeOK, HeldRemovals
  <2> QED BY <2>1, <2>2
<1>6. ASSUME NEW d \in Removals, LockRemoved(d) PROVE ReadLeads' /\ HeldRemovals'
  BY <1>0, <1>6, DuplicatesAssumption
  DEF LockRemoved, Free, leadRows, DuplicateTypeOK, ReadLeads, HeldRemovals
<1>7. ASSUME NEW d \in Removals, AbortRemoval(d) PROVE ReadLeads' /\ HeldRemovals'
  BY <1>0, <1>7, DuplicatesAssumption
  DEF AbortRemoval, Unlock, leadRows, DuplicateTypeOK, ReadLeads, HeldRemovals
<1> QED BY <1>1, <1>2, <1>3, <1>4, <1>5, <1>6, <1>7 DEF AbortMark

\* A lead that nobody has, or that d has, is written, and links are cleared.
LEMMA ClearingKeepsLinks ==
    ASSUME LinkInv,
           \/ \E d \in Removals : RemoveDuplicated(d)
           \/ \E l \in Leads :
                 \/ \E decision \in {"lost", "won"} : DecideLead(l, decision)
                 \/ ReopenClosed(l) \/ ShelveLead(l)
    PROVE  ReadLeads' /\ HeldRemovals' /\ DuplicatesLeadToAnOriginal'
<1>0. /\ DuplicateTypeOK /\ ReadLeads /\ HeldRemovals
      /\ \A S \in SUBSET Leads : S # {} => \E k \in S : original[k] \notin S
      /\ \A k \in Leads : original[k] # NoOriginal =>
            stage[k] = "lost" /\ shelf[k] # "gone" /\ shelf[original[k]] # "gone"
  BY DEF LinkInv, DuplicatesLeadToAnOriginal
\* Clearing links makes no circle.
<1>1. ASSUME \A k \in Leads : original'[k] \in {original[k], NoOriginal}
      PROVE  \A S \in SUBSET Leads : S # {} => \E k \in S : original'[k] \notin S
  <2> SUFFICES ASSUME NEW S \in SUBSET Leads, S # {}
               PROVE  \E k \in S : original'[k] \notin S
    OBVIOUS
  <2>1. PICK k \in S : original[k] \notin S BY <1>0
  <2> QED BY <1>1, <2>1, DuplicatesAssumption
<1>2. ASSUME NEW d \in Removals, RemoveDuplicated(d)
      PROVE  ReadLeads' /\ HeldRemovals' /\ DuplicatesLeadToAnOriginal'
  <2> DEFINE l == removing[d].lead
  <2>1. l \in Leads /\ rowLock[l] = d BY <1>0, <1>2 DEF RemoveDuplicated, HeldRemovals
  <2>2. /\ \A k \in Leads : original'[k] = IF k = l \/ original[k] = l THEN NoOriginal
                                                                     ELSE original[k]
        /\ \A k \in Leads : shelf'[k] = IF k = l THEN "gone" ELSE shelf[k]
        /\ \A k \in Leads : rowLock'[k] = IF rowLock[k] = d THEN Nobody ELSE rowLock[k]
        /\ stage' = stage /\ marking' = marking
        /\ removing'[d].at = "done" /\ \A e \in Removals \ {d} : removing'[e] = removing[e]
    BY <1>0, <1>2 DEF RemoveDuplicated, Unlock, DuplicateTypeOK
  <2> HIDE DEF l
  <2>3. ReadLeads' BY <1>0, <2>1, <2>2, DuplicatesAssumption DEF ReadLeads
  <2>4. HeldRemovals' BY <1>0, <2>2, DuplicatesAssumption DEF HeldRemovals
  <2>5. \A k \in Leads : original'[k] # NoOriginal =>
           stage'[k] = "lost" /\ shelf'[k] # "gone" /\ shelf'[original'[k]] # "gone"
    BY <1>0, <2>2 DEF DuplicateTypeOK
  <2> QED BY <1>1, <2>2, <2>3, <2>4, <2>5 DEF DuplicatesLeadToAnOriginal
<1>3. ASSUME NEW l \in Leads, Free(l), UNCHANGED <<rowLock, marking, removing>>,
             \A k \in Leads \ {l} : /\ original'[k] = original[k] /\ stage'[k] = stage[k]
                                    /\ shelf'[k] = shelf[k],
             original'[l] \in {original[l], NoOriginal},
             original'[l] # NoOriginal => stage'[l] = stage[l],
             shelf[l] # "gone" /\ shelf'[l] # "gone"
      PROVE  ReadLeads' /\ HeldRemovals' /\ DuplicatesLeadToAnOriginal'
  <2>1. ReadLeads'
    BY <1>0, <1>3, DuplicatesAssumption DEF Free, ReadLeads
  <2>2. HeldRemovals' BY <1>0, <1>3 DEF HeldRemovals
  <2>3. \A k \in Leads : original'[k] # NoOriginal =>
           stage'[k] = "lost" /\ shelf'[k] # "gone" /\ shelf'[original'[k]] # "gone"
    BY <1>0, <1>3 DEF DuplicateTypeOK
  <2> QED BY <1>1, <1>3, <2>1, <2>2, <2>3 DEF DuplicatesLeadToAnOriginal
<1>4. ASSUME NEW l \in Leads, NEW decision \in {"lost", "won"}, DecideLead(l, decision)
      PROVE  ReadLeads' /\ HeldRemovals' /\ DuplicatesLeadToAnOriginal'
  <2>1. original[l] = NoOriginal BY <1>0, <1>4 DEF DecideLead
  <2> QED BY <1>0, <1>3, <1>4, <2>1 DEF DecideLead, DuplicateTypeOK
<1>5. ASSUME NEW l \in Leads, ReopenClosed(l)
      PROVE  ReadLeads' /\ HeldRemovals' /\ DuplicatesLeadToAnOriginal'
  BY <1>0, <1>3, <1>5 DEF ReopenClosed, DuplicateTypeOK
<1>6. ASSUME NEW l \in Leads, ShelveLead(l)
      PROVE  ReadLeads' /\ HeldRemovals' /\ DuplicatesLeadToAnOriginal'
  BY <1>0, <1>3, <1>6 DEF ShelveLead, DuplicateTypeOK
<1> QED BY <1>2, <1>4, <1>5, <1>6

LEMMA NextLinkInv == LinkInv /\ [DuplicateNext]_duplicateVars => LinkInv'
<1> SUFFICES ASSUME LinkInv, [DuplicateNext]_duplicateVars PROVE LinkInv' OBVIOUS
<1>1. DuplicateTypeOK' BY NextDuplicateTypes DEF LinkInv
<1>2. CASE UNCHANGED duplicateVars
  BY <1>2 DEF LinkInv, duplicateVars, leadRows, DuplicateTypeOK, ReadLeads, HeldRemovals,
              DuplicatesLeadToAnOriginal
<1>3. CASE \E m \in Marks : WriteMark(m) BY <1>1, <1>3, WriteKeepsLinks DEF LinkInv
<1>4. CASE \/ \E m \in Marks :
                 AskMark(m) \/ LockDuplicate(m) \/ LockOriginal(m) \/ AbortMark(m)
           \/ \E d \in Removals : LockRemoved(d) \/ AbortRemoval(d)
  <2>1. UNCHANGED leadRows
    BY <1>4 DEF AskMark, LockDuplicate, LockOriginal, AbortMark, EndMark, LockRemoved,
                AbortRemoval
  <2> QED BY <1>1, <1>4, <2>1, LocksKeepLinks DEF LinkInv
<1>5. CASE \/ \E d \in Removals : RemoveDuplicated(d)
           \/ \E l \in Leads :
                 \/ \E decision \in {"lost", "won"} : DecideLead(l, decision)
                 \/ ReopenClosed(l) \/ ShelveLead(l)
  BY <1>1, <1>5, ClearingKeepsLinks DEF LinkInv
<1> QED BY <1>2, <1>3, <1>4, <1>5 DEF DuplicateNext

\* For any number of leads and of requests that lock them in any order: the links of
\* duplicates form no circle and end at a lead that is there, and no sold lead is a
\* duplicate (duplicates.go:60, 95).
THEOREM DuplicatesHaveAnOriginal == DuplicateSpec => []DuplicatesLeadToAnOriginal
<1>1. LinkInv => DuplicatesLeadToAnOriginal BY DEF LinkInv
<1> QED BY InitLinkInv, NextLinkInv, <1>1, PTL DEF DuplicateSpec

=============================================================================
