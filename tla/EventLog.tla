------------------------------- MODULE EventLog --------------------------------
(***************************************************************************)
(* The event log as every component sees it: a sequence of typed entries,  *)
(* of which replay reads the revisions only.  A state id "ws_n" is modelled*)
(* by n; a world state is modelled by its id where its contents do not     *)
(* matter (module WorldReplay has the contents).                           *)
(***************************************************************************)
EXTENDS Naturals, Sequences

IsRevision(entry) == entry.type = "revision"

\* EventLog.revision_events, by their positions among the first n entries.
RevisionsUpTo(entries, n) == {m \in 1..n : IsRevision(entries[m])}
RevisionsIn(entries) == RevisionsUpTo(entries, Len(entries))

(***************************************************************************)
(* The id of the world state the first n entries replay to.  Each revision *)
(* sets the state id to its resulting_state_id, whatever the id was before,*)
(* so replay ends in the result of the last one (ws_0 if there is none).   *)
(***************************************************************************)
ReplayedAt(entries, n) ==
  LET revisions == RevisionsUpTo(entries, n)
  IN  IF revisions = {} THEN 0
      ELSE entries[CHOOSE last \in revisions :
                     \A m \in revisions : m <= last].result

ReplayedState(entries) == ReplayedAt(entries, Len(entries))

\* A commitment with this id is on record as successful before position n.
CommittedBefore(entries, n, id) ==
  \E m \in 1..(n - 1) :
    /\ entries[m].type = "commitment"
    /\ entries[m].id = id
    /\ entries[m].success

\* EventLog.append is the only mutator: what is on record stays.
Extends(longer, shorter) ==
  /\ Len(shorter) <= Len(longer)
  /\ \A n \in 1..Len(shorter) : longer[n] = shorter[n]

================================================================================
