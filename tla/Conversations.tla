--------------------------- MODULE Conversations ----------------------------
(***************************************************************************)
(* One question to a colleague and one commented entry in the timeline of  *)
(* a lead, with their translations (internal/crmapi/questions.go,          *)
(* translations.go, leads.go).                                             *)
(*                                                                         *)
(* The question's text is a column, everything else of it one jsonb value  *)
(* that a handler reads, changes and writes back whole: the row lock is    *)
(* what keeps it from writing back what it no longer holds.  Translating   *)
(* calls DeepL between a read and a write that no transaction joins.  A    *)
(* translation is represented by the text it is a translation of.          *)
(***************************************************************************)
EXTENDS Naturals

CONSTANTS
    Calls,         \* one-shot requests
    People,        \* users of the lead's office
    SuperAdmins,
    Texts,
    Targets,       \* target languages
    NoText, NoAnswer, NoCall

Answer == [text : Texts, author : People, translations : [Targets -> Texts \cup {NoText}]]

ASSUME ConversationAssumption ==
    /\ SuperAdmins \subseteq People
    /\ NoText \notin Texts /\ NoCall \notin Calls /\ NoAnswer \notin Answer

VARIABLES
    readOnly,      \* leads.archived_at is set
    asked,         \* the question's lead_events.comment, NoText once it is deleted
    value,         \* its new_value: the translation of asked, and the answer
    note,          \* the other entry: comment and comment_translation_en
    holder,        \* the call that holds the rows of the question and its lead
    claimed,       \* claimed[p]: the call whose open transaction claimed p's key
    keyed,         \* keyed[p]: the response stored under p's key for answering
    job,           \* job[c]: what c does, for whom, with which text and language
    step,          \* step[c]: its next statement
    seen,          \* seen[c]: new_value, or the other entry's comment, as it read it
    given          \* given[c]: the answer its response named

conversationRows == <<readOnly, asked, value, note>>
conversationLocks == <<holder, claimed, keyed>>
conversationCalls == <<job, step, seen, given>>
conversationVars == <<conversationRows, conversationLocks, conversationCalls>>

Answers == Answer \cup {NoAnswer}
Values == [translation : Texts \cup {NoText}, answer : Answers]
Jobs == [op : {"answer", "edit answer"}, who : People, text : Texts]
        \cup [op : {"edit question", "edit entry"}, text : Texts]
        \cup [op : {"translate answer"}, target : Targets]
        \cup [op : {"translate entry"}]
Untranslated == [g \in Targets |-> NoText]
Unread == [translation |-> NoText, answer |-> NoAnswer]
Idle == [op |-> "none"]

ConversationTypeOK ==
    /\ readOnly \in BOOLEAN
    /\ asked \in Texts \cup {NoText}
    /\ value \in Values
    /\ note \in [text : Texts \cup {NoText}, translation : Texts \cup {NoText}]
    /\ holder \in Calls \cup {NoCall}
    /\ claimed \in [People -> Calls \cup {NoCall}]
    /\ keyed \in [People -> Answers]
    /\ job \in [Calls -> Jobs \cup {Idle}]
    /\ step \in [Calls -> {"new", "claim", "lock", "write", "load", "deepl", "save",
                           "reread", "authorize", "done"}]
    /\ seen \in [Calls -> Values \cup Texts]
    /\ given \in [Calls -> Answers]

ConversationInit ==
    /\ readOnly = FALSE
    /\ asked \in Texts /\ value = Unread
    /\ note \in [text : Texts, translation : {NoText}]
    /\ holder = NoCall
    /\ claimed = [p \in People |-> NoCall] /\ keyed = [p \in People |-> NoAnswer]
    /\ job = [c \in Calls |-> Idle] /\ step = [c \in Calls |-> "new"]
    /\ seen = [c \in Calls |-> Unread]
    /\ given = [c \in Calls |-> NoAnswer]

----------------------------------------------------------------------------
Does(c, op, at) == job[c].op = op /\ step[c] = at
To(c, at) == step' = [step EXCEPT ![c] = at]

\* The transaction of c ends, its locks with it, and the handler answers.
Reply(c, with) ==
    /\ To(c, "done")
    /\ given' = [given EXCEPT ![c] = with]
    /\ job' = [job EXCEPT ![c] = Idle]
    /\ seen' = [seen EXCEPT ![c] = Unread]
    /\ holder' = IF holder = c THEN NoCall ELSE holder
    /\ claimed' = [p \in People |-> IF claimed[p] = c THEN NoCall ELSE claimed[p]]
Refuse(c) == Reply(c, NoAnswer) /\ UNCHANGED <<conversationRows, keyed>>

Request(c) ==
    /\ step[c] = "new"
    /\ \E todo \in Jobs :
        /\ job' = [job EXCEPT ![c] = todo]
        /\ To(c, CASE todo.op \in {"edit question", "edit answer"} -> "lock"
                   [] todo.op = "answer" -> "claim"
                   [] todo.op \in {"translate answer", "translate entry"} -> "load"
                   [] todo.op = "edit entry" -> "authorize")
    /\ UNCHANGED <<conversationRows, conversationLocks, seen, given>>

\* select ... for update of the event and the lead, waiting for their holder; the
\* checks are those of the row it waited for.
\* Mutated forms (Bad..., Hasty...): plausible bugs for the mutation runs.
BadLock(c, allowed) ==
    /\ step[c] = "lock" /\ holder = NoCall
    /\ IF asked # NoText /\ ~readOnly /\ allowed
       THEN /\ seen' = [seen EXCEPT ![c] = value]
            /\ To(c, "write")
            /\ UNCHANGED <<conversationRows, conversationLocks, job, given>>
       ELSE Refuse(c)
Lock(c, allowed) ==
    /\ step[c] = "lock" /\ holder = NoCall
    /\ IF asked # NoText /\ ~readOnly /\ allowed
       THEN /\ holder' = c
            /\ seen' = [seen EXCEPT ![c] = value]
            /\ To(c, "write")
            /\ UNCHANGED <<conversationRows, claimed, keyed, job, given>>
       ELSE Refuse(c)

(* handleUpdateLeadQuestion *)
LockQuestion(c) == job[c].op = "edit question" /\ Lock(c, TRUE)

\* Translations come with the text, or those of another text are cleared.
EditQuestion(c) ==
    /\ Does(c, "edit question", "write")
    /\ asked' = job[c].text
    /\ \E translation \in {job[c].text,
                           IF asked = job[c].text THEN seen[c].translation ELSE NoText} :
            value' = [seen[c] EXCEPT !.translation = translation]
    /\ Reply(c, NoAnswer)
    /\ UNCHANGED <<readOnly, note, keyed>>

(* handleAnswerLeadQuestion; each person uses one idempotency key *)
ClaimAnswer(c) ==
    LET p == job[c].who
    IN /\ Does(c, "answer", "claim") /\ claimed[p] = NoCall
       /\ IF keyed[p] = NoAnswer
          THEN /\ claimed' = [claimed EXCEPT ![p] = c]
               /\ To(c, "lock")
               /\ UNCHANGED <<conversationRows, holder, keyed, job, seen, given>>
          ELSE IF keyed[p].text = job[c].text
          THEN Reply(c, keyed[p]) /\ UNCHANGED <<conversationRows, keyed>>
          ELSE Refuse(c)

LockAnswer(c) == job[c].op = "answer" /\ Lock(c, value.answer = NoAnswer)

GiveAnswer(c) ==
    LET answer == [text |-> job[c].text, author |-> job[c].who,
                   translations |-> Untranslated]
    IN /\ Does(c, "answer", "write")
       /\ value' = [seen[c] EXCEPT !.answer = answer]
       /\ keyed' = [keyed EXCEPT ![job[c].who] = answer]
       /\ (Reply(c, answer) \/ Reply(c, NoAnswer))      \* the response may be lost
       /\ UNCHANGED <<readOnly, asked, note>>

(* handleUpdateLeadQuestionAnswer: the author or a super admin *)
LockEdit(c) ==
    /\ job[c].op = "edit answer"
    /\ Lock(c, /\ value.answer # NoAnswer
               /\ job[c].who \in {value.answer.author} \cup SuperAdmins)

EditAnswer(c) ==
    /\ Does(c, "edit answer", "write")
    /\ value' = [seen[c] EXCEPT !.answer.text = job[c].text,
                                !.answer.translations = Untranslated]
    /\ Reply(c, NoAnswer)
    /\ UNCHANGED <<readOnly, asked, note, keyed>>

(* handleTranslateLeadQuestionAnswer *)
LoadAnswer(c) ==
    /\ Does(c, "translate answer", "load")
    /\ IF asked # NoText /\ ~readOnly /\ value.answer # NoAnswer
       THEN /\ seen' = [seen EXCEPT ![c] = value.answer.text]
            /\ To(c, "deepl")
            /\ UNCHANGED <<conversationRows, conversationLocks, job, given>>
       ELSE Refuse(c)

\* DeepL translates what was read, or fails, is over its quota or times out.
Translate(c) ==
    /\ step[c] = "deepl"
    /\ \/ /\ To(c, "save")
          /\ UNCHANGED <<conversationRows, conversationLocks, job, seen, given>>
       \/ Refuse(c)

\* One update, waiting for the row's lock: if the answer is still that text.
SaveTranslation(c) ==
    /\ Does(c, "translate answer", "save") /\ holder = NoCall
    /\ IF /\ asked # NoText /\ ~readOnly /\ value.answer # NoAnswer
          /\ value.answer.text = seen[c]
       THEN /\ value' = [value EXCEPT !.answer.translations[job[c].target] = seen[c]]
            /\ Reply(c, NoAnswer)
            /\ UNCHANGED <<readOnly, asked, note, keyed>>
       ELSE Refuse(c)

(* handleUpdateEvent of any other entry: authorized in one statement, written in
   another, which looks neither at the archive nor at what was there. *)
AuthorizeEdit(c) ==
    /\ Does(c, "edit entry", "authorize")
    /\ IF readOnly
       THEN Refuse(c)
       ELSE /\ To(c, "write")
            /\ UNCHANGED <<conversationRows, conversationLocks, job, seen, given>>

EditEntry(c) ==
    /\ Does(c, "edit entry", "write")
    /\ \E text \in {job[c].text, NoText} : note' = [text |-> text, translation |-> NoText]
    /\ Reply(c, NoAnswer)
    /\ UNCHANGED <<readOnly, asked, value, keyed>>

(* handleTranslateEvent *)
LoadEntry(c) ==
    /\ Does(c, "translate entry", "load")
    /\ CASE readOnly \/ (note.translation = NoText /\ note.text = NoText) -> Refuse(c)
         [] ~readOnly /\ note.translation # NoText ->
              Reply(c, NoAnswer) /\ UNCHANGED <<conversationRows, keyed>>
         [] OTHER ->
              /\ seen' = [seen EXCEPT ![c] = note.text]
              /\ To(c, "deepl")
              /\ UNCHANGED <<conversationRows, conversationLocks, job, given>>

BadSaveEntry(c) ==
    /\ Does(c, "translate entry", "save")
    /\ note' = [note EXCEPT !.translation = seen[c]]
    /\ Reply(c, NoAnswer)
    /\ UNCHANGED <<readOnly, asked, value, keyed>>
SaveEntry(c) ==
    /\ Does(c, "translate entry", "save")
    /\ IF note.text = seen[c] /\ note.translation = NoText /\ ~readOnly
       THEN /\ note' = [note EXCEPT !.translation = seen[c]]
            /\ Reply(c, NoAnswer)
            /\ UNCHANGED <<readOnly, asked, value, keyed>>
       ELSE /\ To(c, "reread")
            /\ UNCHANGED <<conversationRows, conversationLocks, job, seen, given>>

\* Somebody else's translation is as good; otherwise 409.
RereadEntry(c) ==
    /\ Does(c, "translate entry", "reread")
    /\ Reply(c, NoAnswer)
    /\ UNCHANGED <<conversationRows, keyed>>

\* A database error, a lock timeout or a client that goes away.
Fail(c) ==
    /\ step[c] \notin {"new", "done"}
    /\ Reply(c, NoAnswer)
    /\ UNCHANGED <<conversationRows, keyed>>

(* The lead is archived and restored, and the question deleted, in between. *)
ArchiveOrRestore ==
    /\ holder = NoCall
    /\ readOnly' = ~readOnly
    /\ UNCHANGED <<asked, value, note, conversationLocks, conversationCalls>>
DeleteQuestion ==
    /\ holder = NoCall /\ asked # NoText /\ ~readOnly
    /\ asked' = NoText /\ value' = Unread
    /\ UNCHANGED <<readOnly, note, conversationLocks, conversationCalls>>

----------------------------------------------------------------------------
ConversationNext ==
    \/ \E c \in Calls :
        \/ Request(c) \/ LockQuestion(c) \/ EditQuestion(c)
        \/ ClaimAnswer(c) \/ LockAnswer(c) \/ GiveAnswer(c) \/ LockEdit(c) \/ EditAnswer(c)
        \/ LoadAnswer(c) \/ Translate(c) \/ SaveTranslation(c)
        \/ AuthorizeEdit(c) \/ EditEntry(c)
        \/ LoadEntry(c) \/ SaveEntry(c) \/ RereadEntry(c)
        \/ Fail(c)
    \/ ArchiveOrRestore \/ DeleteQuestion

ConversationSpec == ConversationInit /\ [][ConversationNext]_conversationVars

----------------------------------------------------------------------------
(* Properties *)

\* Whatever is edited while DeepL works, no entry, question or answer ever shows the
\* translation of a text it no longer holds (translations.go:129, questions.go:340).
TranslationsMatch ==
    /\ value.translation \in {NoText, asked}
    /\ note.translation \in {NoText, note.text}
    /\ value.answer # NoAnswer =>
        \A g \in Targets : value.answer.translations[g] \in {NoText, value.answer.text}

\* A question is answered once: of colleagues who answer at the same time, and of
\* their retries, all who are told of success are told of one and the same answer.
AnsweredOnce ==
    \A c, d \in Calls : given[c] # NoAnswer /\ given[d] # NoAnswer => given[c] = given[d]

\* An answer and its translations are lost only to an edit by its author or a super
\* admin, never to a concurrent edit of the question or a translation into another
\* language, although those write back what they read.
Extends(new, old) ==
    /\ new # NoAnswer /\ new.text = old.text /\ new.author = old.author
    /\ \A g \in Targets : old.translations[g] # NoText
                            => new.translations[g] = old.translations[g]
AnswerIsKept ==
    [][value.answer # NoAnswer /\ asked' # NoText =>
        \/ Extends(value'.answer, value.answer)
        \/ \E c \in Calls :
            /\ Does(c, "edit answer", "write") /\ step'[c] = "done"
            /\ job[c].who \in {value.answer.author} \cup SuperAdmins
            /\ value'.answer.author = value.answer.author]_conversationVars

=============================================================================
