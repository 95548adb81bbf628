-------------------------- MODULE MCNotifications --------------------------
(***************************************************************************)
(* Instances of Notifications for TLC.                                     *)
(***************************************************************************)
EXTENDS Notifications, TLC

CONSTANTS d1, d2, chatA, chatB, slackC

TwoInstances == {d1, d2}
OneInstance == {d1}
TwoLeads == {1, 2}
OneLead == {1}
AllDestinations == {chatA, chatB, slackC}
SlackChannels == {slackC}
HealthyChats == {chatA}
ChatAndSlack == [l \in TwoLeads |-> IF l = 1 THEN {slackC} ELSE {chatA}]
ChatsOnly == [l \in OneLead |-> {chatA, chatB}]
NoDestination == {}

\* The two processes are alike, and so are the two chats of the one lead.
Alike == Permutations({d1, d2}) \cup Permutations({chatA, chatB})
=============================================================================
