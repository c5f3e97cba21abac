---------------------------- MODULE CommitmentPolicy ----------------------------
(***************************************************************************)
(* The commitment policy: whether a commitment of a kind may be made, given*)
(* how far its act can be undone, if that is said.                         *)
(***************************************************************************)

CommitmentKind == {"observe", "act", "tool_contact", "internal_commit"}
NotSaid == "not said"

Decision(allowed) == [allowed |-> allowed, requires_approval |-> ~allowed]

\* An act has to be one that can be undone, at least in part.
EvaluateCommitmentPolicy(kind, reversibility) ==
  Decision(/\ kind \in CommitmentKind
           /\ kind = "act" => reversibility \in {"reversible",
                                                 "partially_reversible"})

================================================================================
