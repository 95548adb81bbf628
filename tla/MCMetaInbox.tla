---------------------------- MODULE MCMetaInbox ----------------------------
(***************************************************************************)
(* Instances of MetaInbox for TLC.                                         *)
(***************************************************************************)
EXTENDS MetaInbox

CONSTANTS w1, w2, old, foreign

TwoWorkers == {w1, w2}
OldAndForeign == {old, foreign}
JustOld == {old}
JustForeign == {foreign}
=============================================================================
