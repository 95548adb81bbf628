----------------------------- MODULE Documents ------------------------------
(***************************************************************************)
(* Documents of one lead (internal/crmapi/lead_documents.go, storage): the *)
(* API signs a URL, the browser puts the file into the bucket itself, and  *)
(* a confirmation looks at the object and makes the row ready.             *)
(*                                                                         *)
(* The bucket takes part in no transaction.  A confirmation locks the row  *)
(* of the document but not the lead, which is deleted in the opposite      *)
(* order: lead first, then, by cascade, its documents and its timeline.    *)
(* An entry of the timeline may also be deleted by hand, by its author.    *)
(***************************************************************************)
EXTENDS Naturals

CONSTANTS
    Confirmations, \* one-shot requests to confirm a document
    Files,         \* attachment ids
    ConfirmKeys,   \* idempotency keys of one user
    NoFile, NoOne

ASSUME DocumentAssumption == /\ NoFile \notin Files
                             /\ NoOne \notin Confirmations \cup ConfirmKeys

VARIABLES
    leadState,     \* the lead is "open", "archived" or "gone"
    deletingLead,  \* a transaction that deletes it holds its row
    erasing,       \* files whose entry somebody was allowed to delete by hand
    erased,        \* history: files whose entry was deleted by hand
    url,           \* url[f]: the signed PUT is "none", "live" or "expired"
    object,        \* object[f]: what the bucket holds: "none", "fits" or "big"
    document,      \* document[f]: the status of its row, or "none"
    attached,      \* attached[f]: "attachment" entries of the timeline, capped at 2
    rowOwner,      \* rowOwner[f]: the confirmation that holds its row
    keyOwner,      \* keyOwner[k]: the confirmation that is claiming k
    keyRow,        \* keyRow[k]: the request of k and whether it has a response
    asks,          \* asks[c]: the file and the key of c
    at,            \* at[c]: its next statement
    told,          \* told[c]
    looked         \* history: files put again after their object was looked at

leadOfFiles == <<leadState, deletingLead, erasing, erased>>
bucket == <<url, object, looked>>
documentRows == <<document, attached, keyRow>>
documentLocks == <<rowOwner, keyOwner>>
documentVars == <<leadOfFiles, bucket, documentRows, documentLocks, asks, at, told>>

NoKeyRow == [file |-> NoFile, answered |-> FALSE]

DocumentTypeOK ==
    /\ leadState \in {"open", "archived", "gone"} /\ deletingLead \in BOOLEAN
    /\ erasing \in SUBSET Files /\ erased \in SUBSET Files
    /\ url \in [Files -> {"none", "live", "expired"}]
    /\ object \in [Files -> {"none", "fits", "big"}]
    /\ document \in [Files -> {"none", "awaiting_upload", "ready", "blocked"}]
    /\ attached \in [Files -> 0..2]
    /\ rowOwner \in [Files -> Confirmations \cup {NoOne}]
    /\ keyOwner \in [ConfirmKeys -> Confirmations \cup {NoOne}]
    /\ keyRow \in [ConfirmKeys -> [file : Files, answered : BOOLEAN] \cup {NoKeyRow}]
    /\ asks \in [Confirmations -> [file : Files \cup {NoFile}, key : ConfirmKeys]]
    /\ at \in [Confirmations -> {"new", "claim", "lock", "head", "block", "attach", "done"}]
    /\ told \in [Confirmations -> {"nothing", "created", "refused", "unclaimed"}]
    /\ looked \in SUBSET Files

DocumentInit ==
    /\ leadState = "open" /\ deletingLead = FALSE /\ erasing = {} /\ erased = {}
    /\ url = [f \in Files |-> "none"] /\ object = [f \in Files |-> "none"]
    /\ document = [f \in Files |-> "none"] /\ attached = [f \in Files |-> 0]
    /\ rowOwner = [f \in Files |-> NoOne]
    /\ keyOwner = [k \in ConfirmKeys |-> NoOne]
    /\ keyRow = [k \in ConfirmKeys |-> NoKeyRow]
    /\ asks \in [Confirmations -> [file : {NoFile}, key : ConfirmKeys]]
    /\ at = [c \in Confirmations |-> "new"]
    /\ told = [c \in Confirmations |-> "nothing"]
    /\ looked = {}

----------------------------------------------------------------------------
(* handleCreateDocumentUpload: sign, then insert the row; the handler may end
   between the two. *)
SignUpload(f) ==
    /\ url[f] = "none" /\ leadState = "open"
    /\ url' = [url EXCEPT ![f] = "live"]
    /\ UNCHANGED <<leadOfFiles, object, looked, documentRows, documentLocks, asks, at, told>>

\* The foreign key waits for a transaction that deletes the lead.
AwaitUpload(f) ==
    /\ url[f] # "none" /\ document[f] = "none"
    /\ ~deletingLead /\ leadState # "gone"
    /\ document' = [document EXCEPT ![f] = "awaiting_upload"]
    /\ UNCHANGED <<leadOfFiles, bucket, attached, keyRow, documentLocks, asks, at, told>>

\* The browser puts the file, and may put another one while the URL lives.
Looked(f) ==
    \/ document[f] \in {"ready", "blocked"}
    \/ rowOwner[f] # NoOne /\ at[rowOwner[f]] \in {"block", "attach"}
PutObject(f) ==
    /\ url[f] = "live"
    /\ \E size \in {"fits", "big"} : object' = [object EXCEPT ![f] = size]
    /\ looked' = IF Looked(f) THEN looked \cup {f} ELSE looked
    /\ UNCHANGED <<leadOfFiles, url, documentRows, documentLocks, asks, at, told>>

Expire(f) ==
    /\ url[f] = "live"
    /\ url' = [url EXCEPT ![f] = "expired"]
    /\ UNCHANGED <<leadOfFiles, object, looked, documentRows, documentLocks, asks, at, told>>

----------------------------------------------------------------------------
(* handleConfirmDocument *)
Step(c, next) == at' = [at EXCEPT ![c] = next]

\* The transaction of c ends, its locks with it, and the handler answers.
Conclude(c, answer) ==
    /\ Step(c, "done")
    /\ told' = [told EXCEPT ![c] = answer]
    /\ rowOwner' = [f \in Files |-> IF rowOwner[f] = c THEN NoOne ELSE rowOwner[f]]
    /\ keyOwner' = [k \in ConfirmKeys |-> IF keyOwner[k] = c THEN NoOne ELSE keyOwner[k]]
    /\ UNCHANGED asks
RollBack(c, answer) == Conclude(c, answer) /\ UNCHANGED documentRows

Confirm(c, f) ==
    /\ at[c] = "new" /\ url[f] # "none"
    /\ asks' = [asks EXCEPT ![c].file = f]
    /\ Step(c, "claim")
    /\ UNCHANGED <<leadOfFiles, bucket, documentRows, documentLocks, told>>

\* claimIdempotency: waits for a transaction that is claiming the same key.
ClaimKey(c) ==
    LET k == asks[c].key
    IN /\ at[c] = "claim" /\ keyOwner[k] = NoOne
       /\ CASE keyRow[k] = NoKeyRow ->
                 /\ keyOwner' = [keyOwner EXCEPT ![k] = c]
                 /\ Step(c, "lock")
                 /\ UNCHANGED <<documentRows, rowOwner, asks, told>>
            [] keyRow[k] = [file |-> asks[c].file, answered |-> TRUE] ->
                 RollBack(c, "created")
            [] OTHER -> RollBack(c, "refused")
       /\ UNCHANGED <<leadOfFiles, bucket>>

\* for update of a: the row of the document, not the lead
\* Mutated forms (Bad..., Hasty...): plausible bugs for the mutation runs.
BadLockDocument(c) ==
    LET f == asks[c].file
    IN /\ at[c] = "lock" /\ rowOwner[f] = NoOne
       /\ IF leadState = "open" /\ document[f] = "awaiting_upload"
          THEN /\ Step(c, "head")
               /\ UNCHANGED <<documentRows, documentLocks, asks, told>>
          ELSE RollBack(c, "refused")
       /\ UNCHANGED <<leadOfFiles, bucket>>
LockDocument(c) ==
    LET f == asks[c].file
    IN /\ at[c] = "lock" /\ rowOwner[f] = NoOne
       /\ IF leadState = "open" /\ document[f] = "awaiting_upload"
          THEN /\ rowOwner' = [rowOwner EXCEPT ![f] = c]
               /\ Step(c, "head")
               /\ UNCHANGED <<documentRows, keyOwner, asks, told>>
          ELSE RollBack(c, "refused")
       /\ UNCHANGED <<leadOfFiles, bucket>>

\* HeadObject: what the bucket holds now, or an error of its own.
Look(c) ==
    /\ at[c] = "head"
    /\ \/ /\ object[asks[c].file] # "none"
          /\ Step(c, IF object[asks[c].file] = "big" THEN "block" ELSE "attach")
          /\ UNCHANGED <<documentRows, documentLocks, asks, told>>
       \/ RollBack(c, "refused")
    /\ UNCHANGED <<leadOfFiles, bucket>>

\* Too large: the row is blocked, and the key committed without a response.
Block(c) ==
    LET f == asks[c].file
    IN /\ at[c] = "block"
       /\ document' = [document EXCEPT ![f] = "blocked"]
       /\ keyRow' = [keyRow EXCEPT ![asks[c].key] = [file |-> f, answered |-> FALSE]]
       /\ Conclude(c, "refused")
       /\ UNCHANGED <<leadOfFiles, bucket, attached>>

\* The row, the timeline entry, whose foreign key waits for a transaction that
\* deletes the lead, the response and the commit, whose answer may be lost.
HastyAttach(c) ==
    LET f == asks[c].file
    IN /\ at[c] = "attach" /\ ~deletingLead
       /\ document' = [document EXCEPT ![f] = "ready"]
       /\ attached' = [attached EXCEPT ![f] = IF @ < 2 THEN @ + 1 ELSE @]
       /\ keyRow' = [keyRow EXCEPT ![asks[c].key] = [file |-> f, answered |-> FALSE]]
       /\ (Conclude(c, "created") \/ Conclude(c, "nothing"))
       /\ UNCHANGED <<leadOfFiles, bucket>>
Attach(c) ==
    LET f == asks[c].file
    IN /\ at[c] = "attach" /\ ~deletingLead
       /\ document' = [document EXCEPT ![f] = "ready"]
       /\ attached' = [attached EXCEPT ![f] = IF @ < 2 THEN @ + 1 ELSE @]
       /\ keyRow' = [keyRow EXCEPT ![asks[c].key] = [file |-> f, answered |-> TRUE]]
       /\ (Conclude(c, "created") \/ Conclude(c, "nothing"))
       /\ UNCHANGED <<leadOfFiles, bucket>>

\* A database error, a deadlock with the deletion, a client that goes away.  Any error
\* of the claim is answered as the conflict of a key that was used for something else.
Break(c) ==
    /\ at[c] \notin {"new", "done"}
    /\ RollBack(c, "nothing") \/ (at[c] = "claim" /\ RollBack(c, "unclaimed"))
    /\ UNCHANGED <<leadOfFiles, bucket>>

----------------------------------------------------------------------------
(* The lead: archived and restored without a look at its documents; deleted in
   two steps, for update and then delete with its cascades. *)
ArchiveLead ==
    /\ leadState # "gone" /\ ~deletingLead
    /\ leadState' = IF leadState = "open" THEN "archived" ELSE "open"
    /\ UNCHANGED <<deletingLead, erasing, erased, bucket, documentRows, documentLocks, asks,
                   at, told>>

LockLead ==
    /\ leadState # "gone" /\ ~deletingLead
    /\ deletingLead' = TRUE
    /\ UNCHANGED <<leadState, erasing, erased, bucket, documentRows, documentLocks, asks, at,
                   told>>

\* The cascade waits for the documents' rows; a deadlock may end it instead.
RemoveLead ==
    /\ deletingLead /\ \A f \in Files : rowOwner[f] = NoOne
    /\ deletingLead' = FALSE /\ leadState' = "gone"
    /\ document' = [f \in Files |-> "none"] /\ attached' = [f \in Files |-> 0]
    /\ UNCHANGED <<erasing, erased, bucket, keyRow, documentLocks, asks, at, told>>
KeepLead ==
    /\ deletingLead
    /\ deletingLead' = FALSE
    /\ UNCHANGED <<leadState, erasing, erased, bucket, documentRows, documentLocks, asks, at,
                   told>>

----------------------------------------------------------------------------
(* handleDeleteEvent on the entry of a document: its author or a super admin is let
   in by a read on the pool, and its transaction looks at the entry only. *)
AllowErase(f) ==
    /\ leadState = "open" /\ attached[f] > 0
    /\ erasing' = erasing \cup {f}
    /\ UNCHANGED <<leadState, deletingLead, erased, bucket, documentRows, documentLocks, asks,
                   at, told>>

EraseEntry(f) ==
    /\ f \in erasing
    /\ erasing' = erasing \ {f}
    /\ IF attached[f] > 0
       THEN /\ attached' = [attached EXCEPT ![f] = @ - 1]
            /\ erased' = erased \cup {f}
       ELSE UNCHANGED <<attached, erased>>
    /\ UNCHANGED <<leadState, deletingLead, bucket, document, keyRow, documentLocks, asks, at,
                   told>>

----------------------------------------------------------------------------
DocumentNext ==
    \/ \E f \in Files : \/ SignUpload(f) \/ AwaitUpload(f) \/ PutObject(f) \/ Expire(f)
                        \/ AllowErase(f) \/ EraseEntry(f)
    \/ \E c \in Confirmations :
        \/ \E f \in Files : Confirm(c, f)
        \/ ClaimKey(c) \/ LockDocument(c) \/ Look(c) \/ Block(c) \/ Attach(c) \/ Break(c)
    \/ ArchiveLead \/ LockLead \/ RemoveLead \/ KeepLead

DocumentSpec == DocumentInit /\ [][DocumentNext]_documentVars

----------------------------------------------------------------------------
(* Properties *)

\* handleListDocuments and handleFileDownloadURL
Listed == {f \in Files : document[f] = "ready"}

\* However often and with whichever key a document is confirmed, the timeline never has
\* two entries of it; it has one while the document is listed, unless somebody deleted
\* that by hand (leads.go:1231), none of a document that is not listed, and a deleted
\* lead leaves neither behind (CRM-V2-WORKFLOW-CONTRACT.md:405).
AttachedOnce ==
    /\ \A f \in Files : attached[f] = (IF f \in Listed \ erased THEN 1 ELSE 0)
    /\ leadState = "gone" => Listed = {}

\* What is listed is within the limit, unless the browser used its URL once more
\* after the API had looked: once a URL is expired, the object is what was checked.
ListedWasChecked == \A f \in Listed \ looked : object[f] = "fits"

\* Who retries the confirmation that listed a document, its answer lost, with the
\* same key, is told that it was created and never that somebody did it before; only a
\* retry whose claim fails in the database gets the answer of a key used for something
\* else (lead_documents.go:254).
RetryIsTold ==
    [][\A c \in Confirmations :
        asks[c].file \in Listed /\ keyRow[asks[c].key].file = asks[c].file
            => told'[c] # "refused" \/ told[c] = "refused"]_documentVars

----------------------------------------------------------------------------
(* Refinement of Once *)

\* The work of a key is the document that was made ready with it.
KeysSent == [c \in Confirmations |-> IF at[c] = "new" THEN NoOne ELSE asks[c].key]
DocumentsConfirmed ==
    [k \in ConfirmKeys |-> IF keyRow[k].answered THEN {keyRow[k].file} ELSE {}]
DocumentsTold ==
    [c \in Confirmations |-> IF told[c] = "created" THEN {asks[c].file} ELSE {}]

Confirmed == INSTANCE Once WITH Requests <- Confirmations, Keys <- ConfirmKeys,
                                Results <- Files, NoKey <- NoOne, key <- KeysSent,
                                done <- DocumentsConfirmed, told <- DocumentsTold

\* A key confirms one document, once and for good: nobody is told that another one
\* was created with it, or one that was blocked (lead_documents.go:253).
ConfirmationsAreOnce == Confirmed!Spec

=============================================================================
