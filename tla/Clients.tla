------------------------------ MODULE Clients -------------------------------
(***************************************************************************)
(* Clients: the contact that links leads and projects                      *)
(* (internal/crmapi/clients.go, and the triggers of                        *)
(* migrations/20261023120000_clients.sql that every insert of a lead or a  *)
(* project runs).                                                          *)
(*                                                                         *)
(* Four kinds of transaction meet on a client row.  A new lead looks for a *)
(* client by phone, then by email, behind an advisory lock on each; the    *)
(* foreign key of the lead or project that it becomes shares the row; a    *)
(* merge and an edit take it for update.  Requests that insert a lead are  *)
(* numbers: the lead, and the client made for it, bear the number of their *)
(* request, which is also their age (created_at comes with the lead).      *)
(* A phone is its client_phone_key.  All of it is one office.              *)
(*                                                                         *)
(* The import of a sheet is one transaction at REPEATABLE READ: its        *)
(* triggers run in its snapshot, which waiting for a lock does not renew.  *)
(***************************************************************************)
EXTENDS Naturals, FiniteSetsExt

CONSTANTS
    Inserts,       \* requests that insert a lead: CRM, site forms, Meta, import
    Imports,       \* those of them that are imports, of one new lead each
    Merges,        \* merge requests
    Edits,         \* edit requests
    Phones, Emails,
    LeadContacts,  \* the phone and email a lead can come with
    NoContact, NoCard, NoClient

ASSUME ClientAssumption ==
    /\ Inserts \subseteq Nat /\ Imports \subseteq Inserts
    /\ NoContact \notin Phones \cup Emails /\ NoClient \notin Inserts
    /\ LeadContacts \subseteq [phone : Phones \cup {NoContact},
                               email : Emails \cup {NoContact}]

VARIABLES
    contact,       \* contact[i]: phone and email of the lead that i inserts
    leadClient,    \* leadClient[i]: leads.client_id of a committed lead
    projectClient, \* projectClient[i]: projects.client_id of the project of lead i
    card,          \* card[c]: the client row, NoCard before it commits
    mergedInto,    \* mergedInto[c]: its merged_into_id
    cardVersion,   \* cardVersion[c]: its version
    arrival,       \* arrival[i]: the next statement of i
    view,          \* view[i]: the cards of the clients in the snapshot of import i
    choice,        \* choice[i]: the client the trigger chose for it
    opening,       \* opening[i]: handleCreateProject on lead i, and the client it read
    merging,       \* merging[m]: the merge's pair and next statement, leads it moved
    editing,       \* editing[e]: the client e loaded, its If-Match, next statement
    unsure,        \* history: clients with contacts from an edit, or committed behind the
                   \*   snapshot of an import that comes with one of their contacts
    late           \* history: leads that had chosen a client when it was merged away,
                   \*   or whose import had begun

clientRows == <<leadClient, projectClient, card, mergedInto, cardVersion>>
clientRequests == <<arrival, view, choice, opening, merging, editing>>
clientVars == <<contact, clientRows, clientRequests, unsure, late>>

Card == [phone : Phones \cup {NoContact}, second : Phones \cup {NoContact},
         email : Emails \cup {NoContact}]
MaybeClient == Inserts \cup {NoClient}
NoView == [c \in Inserts |-> NoCard]

NoOpening == [step |-> "none", client |-> NoClient]
NoMerge == [step |-> "new", older |-> NoClient, newer |-> NoClient, moved |-> {}]
NoEdit == [step |-> "new", client |-> NoClient, strict |-> FALSE, version |-> 0]

ClientTypeOK ==
    /\ contact \in [Inserts -> LeadContacts]
    /\ leadClient \in [Inserts -> MaybeClient]
    /\ projectClient \in [Inserts -> MaybeClient]
    /\ card \in [Inserts -> Card \cup {NoCard}]
    /\ mergedInto \in [Inserts -> MaybeClient]
    /\ cardVersion \in [Inserts -> Nat]
    /\ arrival \in [Inserts -> {"snapshot", "phone", "email", "insert", "commit", "done"}]
    /\ view \in [Inserts -> [Inserts -> Card \cup {NoCard}]]
    /\ choice \in [Inserts -> MaybeClient]
    /\ opening \in [Inserts -> [step : {"none", "insert", "commit"}, client : MaybeClient]]
    /\ merging \in [Merges -> [step : {"new", "leads", "commit", "done"},
                               older : MaybeClient, newer : MaybeClient,
                               moved : SUBSET Inserts]]
    /\ editing \in [Edits -> [step : {"new", "lock", "write", "done"},
                              client : MaybeClient, strict : BOOLEAN, version : Nat]]
    /\ unsure \in SUBSET Inserts /\ late \in SUBSET Inserts

ClientInit ==
    /\ contact \in [Inserts -> LeadContacts]
    /\ leadClient = [i \in Inserts |-> NoClient]
    /\ projectClient = [i \in Inserts |-> NoClient]
    /\ card = [c \in Inserts |-> NoCard]
    /\ mergedInto = [c \in Inserts |-> NoClient]
    /\ cardVersion = [c \in Inserts |-> 1]
    /\ arrival = [i \in Inserts |-> IF i \in Imports THEN "snapshot" ELSE "phone"]
    /\ view = [i \in Inserts |-> NoView]
    /\ choice = [i \in Inserts |-> NoClient]
    /\ opening = [i \in Inserts |-> NoOpening]
    /\ merging = [m \in Merges |-> NoMerge] /\ editing = [e \in Edits |-> NoEdit]
    /\ unsure = {} /\ late = {}

----------------------------------------------------------------------------
(* Locks, as the open transactions hold them *)

PhoneLocked(p) == \E i \in Inserts : /\ arrival[i] \in {"email", "insert", "commit"}
                                     /\ contact[i].phone = p
EmailLocked(e) == \E i \in Inserts : /\ arrival[i] \in {"insert", "commit"}
                                     /\ contact[i].email = e

\* A client row: for key share by a foreign key, for update by a merge or an edit.
ClientShared(c) ==
    \E i \in Inserts : \/ arrival[i] = "commit" /\ choice[i] = c
                       \/ opening[i] = [step |-> "commit", client |-> c]
ClientHeld(c) ==
    \/ \E m \in Merges : /\ merging[m].step \in {"leads", "commit"}
                         /\ c \in {merging[m].older, merging[m].newer}
    \/ \E e \in Edits : editing[e].step = "write" /\ editing[e].client = c

LeadMoved(i) == \E m \in Merges : i \in merging[m].moved

----------------------------------------------------------------------------
(* A new lead: private.attach_lead_to_client, resolve_client_for_lead *)

Live == {c \in Inserts : card[c] # NoCard /\ mergedInto[c] = NoClient}
Oldest(found) == IF found = {} THEN NoClient ELSE Min(found)

\* What the selects of the trigger see: what has committed, or the snapshot of an import.
LiveCards == [c \in Inserts |-> IF c \in Live THEN card[c] ELSE NoCard]
Seen(i) == IF i \in Imports THEN view[i] ELSE LiveCards
MatchPhone(i) ==
    LET row == Seen(i)
    IN Oldest({c \in Inserts : row[c] # NoCard
                               /\ contact[i].phone \in {row[c].phone, row[c].second}})
MatchEmail(i) ==
    LET row == Seen(i)
    IN Oldest({c \in Inserts : row[c] # NoCard /\ contact[i].email = row[c].email})

\* The import reads the managers and the leads that are there before it inserts any.
Snapshot(i) ==
    /\ arrival[i] = "snapshot"
    /\ arrival' = [arrival EXCEPT ![i] = "phone"]
    /\ view' = [view EXCEPT ![i] = LiveCards]
    /\ UNCHANGED <<contact, clientRows, choice, opening, merging, editing, unsure, late>>

EndView(i) == view' = [view EXCEPT ![i] = NoView]

Advance(i, at, client) ==
    /\ arrival' = [arrival EXCEPT ![i] = at]
    /\ choice' = [choice EXCEPT ![i] = client]
    /\ IF at = "done" THEN EndView(i) ELSE UNCHANGED view
    /\ UNCHANGED <<contact, clientRows, opening, merging, editing, unsure, late>>

\* Mutated forms (Bad..., Hasty...): plausible bugs for the mutation runs.
BadByPhone(i) ==
    /\ arrival[i] = "phone"
    /\ LET p == contact[i].phone
       IN Advance(i, "email", IF p = NoContact THEN NoClient ELSE MatchPhone(i))
ByPhone(i) ==
    LET p == contact[i].phone
    IN /\ arrival[i] = "phone"
       /\ IF p = NoContact
          THEN Advance(i, "email", NoClient)
          ELSE ~PhoneLocked(p) /\ Advance(i, "email", MatchPhone(i))

\* Without a match the trigger inserts client i, which only i sees until it commits.
ByEmail(i) ==
    LET e == contact[i].email
        OrNew(c) == IF c = NoClient THEN i ELSE c
    IN /\ arrival[i] = "email"
       /\ IF e = NoContact
          THEN Advance(i, "insert", OrNew(choice[i]))
          ELSE /\ ~EmailLocked(e)
               /\ Advance(i, "insert", OrNew(IF choice[i] = NoClient THEN MatchEmail(i)
                                                                     ELSE choice[i]))

\* The foreign key waits for who holds the client; a tombstone satisfies it too.  That
\* the database may refuse an import a row changed behind its snapshot is an abort.
InsertAttached(i) ==
    /\ arrival[i] = "insert" /\ ~ClientHeld(choice[i])
    /\ Advance(i, "commit", choice[i])

\* An import that has begun does not see the client that commits now.
Overlooked(i) ==
    \E j \in Imports \ {i} :
        /\ arrival[j] \in {"phone", "email", "insert", "commit"}
        /\ \/ contact[j].phone = contact[i].phone /\ contact[i].phone # NoContact
           \/ contact[j].email = contact[i].email /\ contact[i].email # NoContact

CommitAttached(i) ==
    /\ arrival[i] = "commit"
    /\ EndView(i)
    /\ arrival' = [arrival EXCEPT ![i] = "done"]
    /\ leadClient' = [leadClient EXCEPT ![i] = choice[i]]
    /\ card' = IF choice[i] # i THEN card
               ELSE [card EXCEPT ![i] = [phone |-> contact[i].phone, second |-> NoContact,
                                         email |-> contact[i].email]]
    /\ unsure' = IF choice[i] = i /\ Overlooked(i) THEN unsure \cup {i} ELSE unsure
    /\ UNCHANGED <<contact, projectClient, mergedInto, cardVersion, choice, opening,
                   merging, editing, late>>

AbortAttached(i) ==
    /\ arrival[i] # "done"
    /\ Advance(i, "done", NoClient)

----------------------------------------------------------------------------
(* handleCreateProject, of which the lead row and the client matter here *)

SetOpening(i, at, client) ==
    /\ opening' = [opening EXCEPT ![i] = [step |-> at, client |-> client]]
    /\ UNCHANGED <<contact, leadClient, card, mergedInto, cardVersion, arrival, view, choice,
                   merging, editing, unsure, late>>

\* for update of the lead, and the trigger's read of its client
BadLockLead(i) ==
    /\ leadClient[i] # NoClient /\ projectClient[i] = NoClient
    /\ opening[i] = NoOpening
    /\ SetOpening(i, "insert", leadClient[i]) /\ UNCHANGED projectClient
LockLeadOfClient(i) ==
    /\ leadClient[i] # NoClient /\ projectClient[i] = NoClient
    /\ opening[i] = NoOpening /\ ~LeadMoved(i)
    /\ SetOpening(i, "insert", leadClient[i]) /\ UNCHANGED projectClient

InsertProject(i) ==
    /\ opening[i].step = "insert" /\ ~ClientHeld(opening[i].client)
    /\ SetOpening(i, "commit", opening[i].client) /\ UNCHANGED projectClient

CommitProject(i) ==
    /\ opening[i].step = "commit"
    /\ projectClient' = [projectClient EXCEPT ![i] = opening[i].client]
    /\ SetOpening(i, "none", NoClient)

\* An error, or the deadlock with a merge: the lead here, the client there.
AbortProject(i) ==
    /\ opening[i].step # "none"
    /\ SetOpening(i, "none", NoClient) /\ UNCHANGED projectClient

----------------------------------------------------------------------------
(* handleMergeClients *)

SetMerge(m, with) ==
    /\ merging' = [merging EXCEPT ![m] = with]
    /\ UNCHANGED <<contact, arrival, view, choice, opening, editing>>
MergeDone(m) == SetMerge(m, [NoMerge EXCEPT !.step = "done"])

\* Both rows for update; a client that was already merged is refused.
LockClients(m) ==
    /\ merging[m].step = "new"
    /\ \E pair \in {p \in Inserts \X Inserts : p[1] < p[2]} :
        /\ \A c \in {pair[1], pair[2]} :
                card[c] # NoCard /\ ~ClientHeld(c) /\ ~ClientShared(c)
        /\ IF {pair[1], pair[2]} \subseteq Live
           THEN SetMerge(m, [step |-> "leads", older |-> pair[1], newer |-> pair[2],
                             moved |-> {}])
           ELSE MergeDone(m)
    /\ UNCHANGED <<clientRows, unsure, late>>

\* update leads set client_id: it waits for leads that become projects.
BadMoveLeads(m) ==
    /\ merging[m].step = "leads"
    /\ LET leads == {i \in Inserts : leadClient[i] = merging[m].newer}
       IN SetMerge(m, [merging[m] EXCEPT !.step = "commit",
                                         !.moved = {i \in leads : opening[i] = NoOpening}])
    /\ UNCHANGED <<clientRows, unsure, late>>
MoveLeads(m) ==
    /\ merging[m].step = "leads"
    /\ LET leads == {i \in Inserts : leadClient[i] = merging[m].newer}
       IN /\ \A i \in leads : opening[i] = NoOpening
          /\ SetMerge(m, [merging[m] EXCEPT !.step = "commit", !.moved = leads])
    /\ UNCHANGED <<clientRows, unsure, late>>

\* mergeClientContacts: the older keeps its phone, a free second phone takes a phone
\* of the newer, the email is the one chosen.
Contacts(old, new, keepNewer) ==
    LET spare == {p \in {new.phone, new.second} : p \notin {NoContact, old.phone}}
        second == IF new.phone \in spare THEN new.phone ELSE new.second
    IN [phone |-> old.phone,
        second |-> IF old.second = NoContact /\ old.phone # NoContact /\ spare # {}
                   THEN second ELSE old.second,
        email |-> IF keepNewer THEN new.email ELSE old.email]

\* The leads whose requests do not know that their client is merged away.
MergedTooSoon(new) ==
    {i \in Inserts : \/ arrival[i] \in {"email", "insert"} /\ choice[i] = new
                     \/ arrival[i] \in {"phone", "email"} /\ view[i][new] # NoCard}

\* The projects, the tombstone, the survivor, and the commit.
BadCommitMerge(m) ==
    LET old == merging[m].older new == merging[m].newer
    IN /\ merging[m].step = "commit"
       /\ leadClient' = [i \in Inserts |-> IF i \in merging[m].moved THEN old
                                                                     ELSE leadClient[i]]
       /\ projectClient' = [i \in Inserts |-> IF projectClient[i] = new THEN old
                                                                  ELSE projectClient[i]]
       /\ mergedInto' = [mergedInto EXCEPT ![new] = old]
       /\ \E keepNewer \in BOOLEAN :
            card' = [card EXCEPT ![old] = Contacts(card[old], card[new], keepNewer)]
       /\ cardVersion' = [cardVersion EXCEPT ![old] = @ + 1]
       /\ late' = late \cup MergedTooSoon(new)
       /\ unsure' = IF new \in unsure THEN unsure \cup {old} ELSE unsure
       /\ MergeDone(m)
CommitMerge(m) ==
    LET old == merging[m].older new == merging[m].newer
    IN /\ merging[m].step = "commit"
       /\ leadClient' = [i \in Inserts |-> IF i \in merging[m].moved THEN old
                                                                     ELSE leadClient[i]]
       /\ projectClient' = [i \in Inserts |-> IF projectClient[i] = new THEN old
                                                                  ELSE projectClient[i]]
       /\ mergedInto' = [mergedInto EXCEPT ![new] = old]
       /\ \E keepNewer \in BOOLEAN :
            card' = [card EXCEPT ![old] = Contacts(card[old], card[new], keepNewer)]
       /\ cardVersion' = [cardVersion EXCEPT ![old] = @ + 1, ![new] = @ + 1]
       /\ late' = late \cup MergedTooSoon(new)
       /\ unsure' = IF new \in unsure THEN unsure \cup {old} ELSE unsure
       /\ MergeDone(m)

AbortMerge(m) ==
    /\ merging[m].step \in {"leads", "commit"}
    /\ MergeDone(m) /\ UNCHANGED <<clientRows, unsure, late>>

----------------------------------------------------------------------------
(* handleUpdateClient *)

SetEdit(e, with) ==
    /\ editing' = [editing EXCEPT ![e] = with]
    /\ UNCHANGED <<contact, leadClient, projectClient, mergedInto, arrival, view, choice,
                   opening, merging, late>>
EditDone(e) == SetEdit(e, [NoEdit EXCEPT !.step = "done"])

\* loadReadableClient, on the pool: an id that was merged away is refused.  If-Match
\* is the version its user saw, which is the current one or answers a conflict.
LoadClient(e) ==
    /\ editing[e].step = "new"
    /\ \E c \in Live, strict \in BOOLEAN :
            SetEdit(e, [step |-> "lock", client |-> c, strict |-> strict,
                        version |-> cardVersion[c]])
    /\ UNCHANGED <<card, cardVersion, unsure>>

\* for update, then If-Match; merged_into_id is not read again.
LockClient(e) ==
    LET c == editing[e].client
    IN /\ editing[e].step = "lock" /\ ~ClientHeld(c) /\ ~ClientShared(c)
       /\ IF editing[e].strict /\ editing[e].version # cardVersion[c]
          THEN EditDone(e)
          ELSE SetEdit(e, [editing[e] EXCEPT !.step = "write"])
       /\ UNCHANGED <<card, cardVersion, unsure>>

\* A phone is required, the others can be cleared; what stays the same is no change.
WriteClient(e) ==
    LET c == editing[e].client
    IN /\ editing[e].step = "write"
       /\ \/ \E p \in Phones : card' = [card EXCEPT ![c].phone = p]
          \/ \E p \in Phones \cup {NoContact} : card' = [card EXCEPT ![c].second = p]
          \/ \E a \in Emails \cup {NoContact} : card' = [card EXCEPT ![c].email = a]
       /\ IF card' = card THEN UNCHANGED <<cardVersion, unsure>>
          ELSE /\ cardVersion' = [cardVersion EXCEPT ![c] = @ + 1]
               /\ unsure' = unsure \cup {c}
       /\ EditDone(e)

AbortEdit(e) ==
    /\ editing[e].step \in {"lock", "write"}
    /\ EditDone(e) /\ UNCHANGED <<card, cardVersion, unsure>>

----------------------------------------------------------------------------
ClientNext ==
    \/ \E i \in Inserts :
        \/ Snapshot(i) \/ ByPhone(i) \/ ByEmail(i) \/ InsertAttached(i) \/ CommitAttached(i)
        \/ AbortAttached(i)
        \/ LockLeadOfClient(i) \/ InsertProject(i) \/ CommitProject(i) \/ AbortProject(i)
    \/ \E m \in Merges :
        LockClients(m) \/ MoveLeads(m) \/ CommitMerge(m) \/ AbortMerge(m)
    \/ \E e \in Edits :
        LoadClient(e) \/ LockClient(e) \/ WriteClient(e) \/ AbortEdit(e)

ClientSpec == ClientInit /\ [][ClientNext]_clientVars

----------------------------------------------------------------------------
(* Properties *)

\* However the inserts of leads interleave with each other and with merges, two
\* clients that are not merged away and that nobody edited share no phone or email,
\* unless an import that had begun when one of them committed made the other.
NoTwins ==
    \A c, d \in Live \ unsure :
        c # d => /\ {card[c].phone, card[c].second}
                        \cap {card[d].phone, card[d].second} \subseteq {NoContact}
                 /\ card[c].email = card[d].email => card[c].email = NoContact

\* A project belongs to the client of its lead, also when a merge moves the lead
\* while it becomes a project.
ProjectFollowsLead ==
    \A i \in Inserts : projectClient[i] # NoClient => projectClient[i] = leadClient[i]

\* A merge takes every lead along: one that points to a client merged away was inserted
\* after the merge committed, by a request that chose the client before, or by an import
\* that began before (clients.go:698, importer.go:109).
NothingLeftBehind ==
    \A i \in Inserts : leadClient[i] # NoClient /\ mergedInto[leadClient[i]] # NoClient
                           => i \in late

\* A merge is for good and goes to a client that is older and still there; after
\* it, an edit reaches the tombstone only if it was sent without If-Match.
MergedForGood ==
    [][\A c \in Inserts :
        /\ mergedInto[c] # NoClient => mergedInto'[c] = mergedInto[c]
        /\ mergedInto'[c] # mergedInto[c] => mergedInto'[c] \in {d \in Live : d < c}
        /\ mergedInto[c] # NoClient /\ card'[c] # card[c] =>
              \E e \in Edits : /\ editing[e].step = "write" /\ editing'[e].step = "done"
                               /\ editing[e].client = c /\ ~editing[e].strict
      ]_clientVars

=============================================================================
