----------------------------- MODULE MCCalibration -----------------------------
(***************************************************************************)
(* Three targets, one of which holds a forbidden word, and self updates of *)
(* every kind, within the bounds on reliability and beyond.                *)
(***************************************************************************)
EXTENDS Calibration

Denied(target) == Commitment(target, FALSE, FALSE)
Allowed(target) == Commitment(target, TRUE, FALSE)
Escalated == Commitment("self_update", FALSE, TRUE)

MCEntries == {Denied("personalise")}

MCHistories ==
  {<<>>,
   <<Denied("entity_update"), Allowed("entity_update"), Allowed("entity_update"),
     Redirect, Redirect, Redirect>>,
   <<Denied("personalise"), Escalated, Approval("approved")>>}

MCGiven ==
  {Delta("self_update", "self_model", "reliability", "", Number(99)),
   Delta("self_update", "self_model", "profile", "", Model({<<"d">>}, {}))}
================================================================================
