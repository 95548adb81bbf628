---------------------------- MODULE MCBackOffice ----------------------------
(***************************************************************************)
(* The back office for TLC: DailyReport, Conversations, Documents and      *)
(* Tasks in one state machine.  They share no state, so nothing is gained  *)
(* by interleaving them: a behaviour picks one part and moves only that.   *)
(***************************************************************************)
EXTENDS DailyReport, Conversations, Documents, Tasks, TLC

\* Two offices an hour apart, a day of three hours, a week of three days.
CONSTANTS kyiv, warsaw
KyivThenWarsaw == kyiv :> 1 @@ warsaw :> 2
KyivIsAhead == kyiv :> 1 @@ warsaw :> 0

\* Interchangeable things: each part uses them for its own (BackOffice.cfg), so that
\* one small group of permutations serves them all.
CONSTANTS s1, s2
Symmetric == Permutations({s1, s2})

CONSTANTS ann, bob, a, b, c3, d3, f1, boss, eve

\* Tasks for a day, and of a list with a time.
FewNewTasks == {[list |-> NoList, due |-> 0, timed |-> FALSE],
                [list |-> 1, due |-> 1, timed |-> TRUE]}

VARIABLE part

\* Bounds of the two parts that are about tasks.  With two tasks nobody leaves, lists
\* stay as they are, all is eve's, and the younger has the smaller id, so that with equal
\* dates it comes in ahead of the other; while people leave there is one task, the reader
\* reads open ones, and no day ends.
TwoTasksOfOne ==
    /\ person' = person
    /\ task'[1] # NoTask => task'[2] # NoTask
    /\ walk'.section # "none" => walk'.manager = eve
    /\ \A e \in TaskEdits : patching'[e].who # boss /\ patching'[e].step # "opened"
    /\ \A t \in TaskIds : task'[t] # NoTask => task'[t].by = eve /\ task'[t].assignee = eve
OneTask == task'[1] = NoTask /\ today' = today /\ walk'.section # "done"

\* The parts that stand still start alike.
RunInit ==
    /\ part \in {"report", "conversation", "document", "tasks", "staff"}
    /\ Init /\ ConversationInit /\ DocumentInit /\ TaskInit
    /\ part # "conversation" => asked = a /\ note.text = a
    /\ part # "document" => \A c \in Confirmations : asks[c] = [file |-> NoFile, key |-> "x"]

RunNext ==
    /\ part' = part
    /\ \/ part = "report" /\ Next
          /\ UNCHANGED <<conversationVars, documentVars, taskVars>>
       \/ part = "conversation" /\ ConversationNext
          /\ UNCHANGED <<vars, documentVars, taskVars>>
       \/ part = "document" /\ DocumentNext
          /\ UNCHANGED <<vars, conversationVars, taskVars>>
       \/ part = "tasks" /\ TaskNext /\ TwoTasksOfOne
          /\ UNCHANGED <<vars, conversationVars, documentVars>>
       \/ part = "staff" /\ TaskNext /\ OneTask
          /\ UNCHANGED <<vars, conversationVars, documentVars>>

RunSpec == RunInit /\ [][RunNext]_<<part, vars, conversationVars, documentVars, taskVars>>
=============================================================================
