---------------------------- MODULE AuditedEvolution ----------------------------
(***************************************************************************)
(* What the engine promises about the evolution of the world model,        *)
(* whatever component drives it: the record only grows, the world state    *)
(* changes only by a revision on record, a revision only follows a         *)
(* commitment already on record as successful, and each revision continues *)
(* from the state the record replays to at that point.                     *)
(*                                                                         *)
(* Components that write the log are shown to implement Spec with          *)
(* record <- log.                                                          *)
(***************************************************************************)
EXTENDS EventLog

VARIABLE record

Init == record = <<>>

Justified(entries, n) ==
  IsRevision(entries[n]) =>
    /\ CommittedBefore(entries, n, entries[n].cause)
    /\ entries[n].prior = ReplayedAt(entries, n - 1)

Next ==
  /\ Extends(record', record)
  /\ \A n \in (Len(record) + 1)..Len(record') : Justified(record', n)

Spec == Init /\ [][Next]_record

================================================================================
