--------------------------- MODULE MCLeadWorkflow ---------------------------
(***************************************************************************)
(* Instances of LeadWorkflow for TLC.                                      *)
(***************************************************************************)
EXTENDS LeadWorkflow

CONSTANTS monday

OneDate == {monday}
AllKinds == {"showroom", "measurement", "office_work"}
=============================================================================
