------------------------------ MODULE Duplicates ------------------------------
(***************************************************************************)
(* Leads of one office that are marked as repeat requests of another       *)
(* (internal/crmapi/duplicates.go), while leads are closed, reopened,      *)
(* archived, restored and deleted.                                         *)
(*                                                                         *)
(* Marking locks the duplicate, checks it, locks the original, checks it,  *)
(* and writes.  Two users may lock a pair in opposite orders, and then one *)
(* of the two is aborted.  Deleting a lead clears the links to it, for     *)
(* which it needs the rows they are in.  What else a handler does to one   *)
(* lead is LeadWorkflow's; here such a handler is one step.                *)
(***************************************************************************)

CONSTANTS
    Leads,
    Marks,         \* requests: one lead is a duplicate of another
    Removals,      \* requests: a lead is deleted
    NoOriginal, Nobody

ASSUME DuplicatesAssumption ==
    NoOriginal \notin Leads /\ Nobody \notin Marks \cup Removals /\ Marks \cap Removals = {}

VARIABLES
    original,      \* original[l]: leads.duplicate_of_lead_id
    stage,         \* stage[l]: lost is closed_lost; won is contract_signed or v2 project
    shelf,         \* shelf[l]: in use, archived or deleted
    rowLock,       \* rowLock[l]: who has the row of l
    marking,       \* marking[m]: the next step of m, and its two leads
    removing       \* removing[d]: the next step of d, and its lead

leadRows == <<original, stage, shelf>>
duplicateVars == <<leadRows, rowLock, marking, removing>>

DuplicateTypeOK ==
    /\ original \in [Leads -> Leads \cup {NoOriginal}]
    /\ stage \in [Leads -> {"open", "lost", "won"}]
    /\ shelf \in [Leads -> {"active", "archived", "gone"}]
    /\ rowLock \in [Leads -> Marks \cup Removals \cup {Nobody}]
    /\ marking \in [Marks -> [at : {"new", "lead", "original", "write", "done"},
                              lead : Leads \cup {NoOriginal},
                              of : Leads \cup {NoOriginal}]]
    /\ removing \in [Removals -> [at : {"new", "delete", "done"},
                                  lead : Leads \cup {NoOriginal}]]

DuplicateInit ==
    /\ original = [l \in Leads |-> NoOriginal]
    /\ stage \in [Leads -> {"open", "lost", "won"}]
    /\ shelf = [l \in Leads |-> "active"]
    /\ rowLock = [l \in Leads |-> Nobody]
    /\ marking = [m \in Marks |-> [at |-> "new", lead |-> NoOriginal, of |-> NoOriginal]]
    /\ removing = [d \in Removals |-> [at |-> "new", lead |-> NoOriginal]]

Free(l) == rowLock[l] = Nobody
Unlock(q) == rowLock' = [l \in Leads |-> IF rowLock[l] = q THEN Nobody ELSE rowLock[l]]

----------------------------------------------------------------------------
(* handleMarkLeadDuplicate *)

Moves(m, at) == marking' = [marking EXCEPT ![m].at = at]

AskMark(m) ==
    /\ marking[m].at = "new"
    /\ \E l, o \in Leads : /\ l # o
                           /\ marking' = [marking EXCEPT
                                ![m] = [at |-> "lead", lead |-> l, of |-> o]]
    /\ UNCHANGED <<leadRows, rowLock, removing>>

EndMark(m) == Moves(m, "done") /\ Unlock(m) /\ UNCHANGED <<leadRows, removing>>

\* The lead must be in use, not a duplicate already, and not sold.
LockDuplicate(m) ==
    LET l == marking[m].lead
    IN /\ marking[m].at = "lead" /\ Free(l)
       /\ IF shelf[l] = "active" /\ original[l] = NoOriginal /\ stage[l] # "won"
          THEN /\ Moves(m, "original")
               /\ rowLock' = [rowLock EXCEPT ![l] = m]
               /\ UNCHANGED <<leadRows, removing>>
          ELSE EndMark(m)

\* The original must be in use, and not a duplicate itself.
\* A mutated form (Hasty...): a plausible bug for the mutation runs.
HastyLockOriginal(m) ==
    LET o == marking[m].of
    IN /\ marking[m].at = "original"
       /\ IF shelf[o] = "active" /\ original[o] = NoOriginal
          THEN Moves(m, "write") /\ UNCHANGED <<leadRows, rowLock, removing>>
          ELSE EndMark(m)
LockOriginal(m) ==
    LET o == marking[m].of
    IN /\ marking[m].at = "original" /\ Free(o)
       /\ IF shelf[o] = "active" /\ original[o] = NoOriginal
          THEN /\ Moves(m, "write")
               /\ rowLock' = [rowLock EXCEPT ![o] = m]
               /\ UNCHANGED <<leadRows, removing>>
          ELSE EndMark(m)

WriteMark(m) ==
    LET l == marking[m].lead
    IN /\ marking[m].at = "write"
       /\ original' = [original EXCEPT ![l] = marking[m].of]
       /\ stage' = [stage EXCEPT ![l] = "lost"]
       /\ Moves(m, "done") /\ Unlock(m)
       /\ UNCHANGED <<shelf, removing>>

\* A lock timeout, the victim of a deadlock, a lost connection.
AbortMark(m) == marking[m].at \in {"lead", "original", "write"} /\ EndMark(m)

----------------------------------------------------------------------------
(* handleDeleteLead *)

LockRemoved(d) ==
    /\ removing[d].at = "new"
    /\ \E l \in Leads : /\ shelf[l] # "gone" /\ Free(l)
                        /\ rowLock' = [rowLock EXCEPT ![l] = d]
                        /\ removing' = [removing EXCEPT ![d] = [at |-> "delete", lead |-> l]]
    /\ UNCHANGED <<leadRows, marking>>

\* on delete set null
RemoveDuplicated(d) ==
    LET l == removing[d].lead
    IN /\ removing[d].at = "delete"
       /\ \A k \in Leads : original[k] = l => rowLock[k] \in {Nobody, d}
       /\ original' = [k \in Leads |-> IF k = l \/ original[k] = l THEN NoOriginal
                                                                   ELSE original[k]]
       /\ shelf' = [shelf EXCEPT ![l] = "gone"]
       /\ removing' = [removing EXCEPT ![d].at = "done"]
       /\ Unlock(d)
       /\ UNCHANGED <<stage, marking>>

AbortRemoval(d) ==
    /\ removing[d].at = "delete"
    /\ removing' = [removing EXCEPT ![d].at = "done"]
    /\ Unlock(d)
    /\ UNCHANGED <<leadRows, marking>>

----------------------------------------------------------------------------
(* The other handlers of a lead *)

\* An open lead is lost or sold.
DecideLead(l, decision) ==
    /\ Free(l) /\ shelf[l] = "active" /\ stage[l] = "open"
    /\ stage' = [stage EXCEPT ![l] = decision]
    /\ UNCHANGED <<original, shelf, rowLock, marking, removing>>

\* A closed lead is reopened, or an entry that sold it is corrected.
ReopenClosed(l) ==
    /\ Free(l) /\ shelf[l] = "active" /\ stage[l] # "open"
    /\ stage' = [stage EXCEPT ![l] = "open"]
    /\ original' = [original EXCEPT ![l] = NoOriginal]
    /\ UNCHANGED <<shelf, rowLock, marking, removing>>

ShelveLead(l) ==
    /\ Free(l) /\ shelf[l] \in {"active", "archived"}
    /\ shelf' = [shelf EXCEPT ![l] = IF @ = "active" THEN "archived" ELSE "active"]
    /\ UNCHANGED <<original, stage, rowLock, marking, removing>>

DuplicateNext ==
    \/ \E m \in Marks : \/ AskMark(m) \/ LockDuplicate(m) \/ LockOriginal(m)
                        \/ WriteMark(m) \/ AbortMark(m)
    \/ \E d \in Removals : LockRemoved(d) \/ RemoveDuplicated(d) \/ AbortRemoval(d)
    \/ \E l \in Leads : \/ \E decision \in {"lost", "won"} : DecideLead(l, decision)
                        \/ ReopenClosed(l) \/ ShelveLead(l)

DuplicateSpec == DuplicateInit /\ [][DuplicateNext]_duplicateVars

----------------------------------------------------------------------------
(* Properties *)

\* Reports skip duplicates (reports.go:156), so every request must still be counted
\* once: the links of duplicates form no circle, whoever marks whom at the same time,
\* they end at a lead that is there, and no lead that counts as sold is skipped.
DuplicatesLeadToAnOriginal ==
    /\ \A S \in SUBSET Leads : S # {} => \E l \in S : original[l] \notin S
    /\ \A l \in Leads : original[l] # NoOriginal =>
          stage[l] = "lost" /\ shelf[l] # "gone" /\ shelf[original[l]] # "gone"

=============================================================================
