------------------------------ MODULE WorldReplay ------------------------------
(***************************************************************************)
(* The contents of a world state, and how replay derives it from the       *)
(* revisions on record (event_log).                                        *)
(*                                                                         *)
(* A value that may be missing is a set of at most one element.  Numbers   *)
(* between 0.0 and 1.0 are tenths.  The ids the helpers of world_state give*)
(* to the states in between are left out: a revision replaces them by its  *)
(* own resulting id.  So are relations and tensions, which no revision     *)
(* changes, and provenance.                                                *)
(***************************************************************************)
EXTENDS Integers, EventLog

Garbled == -1    \* a confidence that is there and is no number

(***************************************************************************)
(* A delta as replay sees it: its kind, the section (root) and key of its  *)
(* target, the summary of the value after it, and the raw value: missing,  *)
(* a text, a number, a list, or the description of a hypothesis.           *)
(***************************************************************************)
NoValue == [tag |-> "none"]
Text(t) == [tag |-> "text", of |-> t]
Number(n) == [tag |-> "number", of |-> n]
List(items) == [tag |-> "list", of |-> items]
Description(id, status, confidence) ==
  [tag |-> "dict", id |-> id, status |-> status, confidence |-> confidence]

Delta(kind, root, key, after, raw) ==
  [kind |-> kind, root |-> root, key |-> key, after |-> after, raw |-> raw]

Or(optional, default) ==
  IF optional = {} THEN default ELSE CHOOSE x \in optional : TRUE

\* ok is FALSE once replay has raised: there is no state then.
EmptyWorld ==
  [ok |-> TRUE, id |-> 0, goals |-> <<>>, entities |-> [ref \in {} |-> <<>>],
   hypotheses |-> <<>>, anchors |-> <<>>,
   capabilities |-> <<>>, limits |-> <<>>, reliability |-> 5]

Raised(world) == [world EXCEPT !.ok = FALSE]

--------------------------------------------------------------------------------
(* Hypotheses.                                                             *)

HasHypothesis(world, id) ==
  \E n \in DOMAIN world.hypotheses : world.hypotheses[n].id = id

AddHypothesis(world, id, status, confidence) ==
  [world EXCEPT !.hypotheses =
     Append(@, [id |-> id, status |-> status, confidence |-> confidence])]

UpdateHypothesisStatus(world, id, status, confidence) ==
  [world EXCEPT !.hypotheses =
     [n \in DOMAIN world.hypotheses |->
        IF world.hypotheses[n].id = id
        THEN [id |-> id, status |-> status, confidence |-> confidence]
        ELSE world.hypotheses[n]]]

(***************************************************************************)
(* An update needs a description, and names the hypothesis by its target   *)
(* if the description does not.  Of a hypothesis that exists, replay calls *)
(* for a new status without a confidence if none is given: it raises.      *)
(***************************************************************************)
ReplayHypothesisUpdate(world, delta) ==
  LET raw == delta.raw
      id == Or(raw.id, delta.key)
      status == Or(raw.status, "active")
      confidence == Or(raw.confidence, 5)
  IN  IF raw.tag # "dict" THEN world
      ELSE IF raw.confidence = {Garbled} THEN Raised(world)
      ELSE IF ~HasHypothesis(world, id)
      THEN AddHypothesis(world, id, status, confidence)
      ELSE IF raw.confidence = {} THEN Raised(world)
      ELSE UpdateHypothesisStatus(world, id, status, confidence)

\* A removal always calls for a new status without a confidence.
ReplayHypothesisRemove(world, delta) ==
  LET id == IF delta.raw.tag = "text" THEN delta.raw.of ELSE delta.key
  IN  IF HasHypothesis(world, id) THEN Raised(world) ELSE world

\* An addition does not look whether the hypothesis exists.  (Without a
\* description its id is the delta's own, for which the key stands.)
ReplayHypothesisAdd(world, delta) ==
  LET raw == delta.raw
  IN  IF raw.tag = "dict"
      THEN IF raw.confidence = {Garbled} THEN Raised(world)
           ELSE AddHypothesis(world, Or(raw.id, delta.key),
                              Or(raw.status, "tentative"), Or(raw.confidence, 5))
      ELSE IF delta.after # "" THEN AddHypothesis(world, delta.key, "tentative", 5)
      ELSE world

--------------------------------------------------------------------------------
(* Entities: beliefs and domain data are replaced, memories are added to.  *)

SetEntity(world, ref, content) ==
  [world EXCEPT !.entities =
     [r \in DOMAIN world.entities \cup {ref} |->
        IF r = ref THEN content ELSE world.entities[r]]]

\* Defect: a memory is replaced like a belief.
ReplayEntityForgetsMemory(world, delta) ==
  IF delta.root \in {"beliefs", "domain_data", "memory"}
  THEN SetEntity(world, <<delta.root, delta.key>>, <<delta.raw>>)
  ELSE world

\* The first value of a memory, if it is a list, is its list of values.
ReplayEntity(world, delta) ==
  LET ref == <<delta.root, delta.key>>
  IN  IF delta.root \in {"beliefs", "domain_data"}
      THEN SetEntity(world, ref, <<delta.raw>>)
      ELSE IF delta.root # "memory" THEN world
      ELSE IF ref \in DOMAIN world.entities
      THEN SetEntity(world, ref, Append(world.entities[ref], delta.raw))
      ELSE IF delta.raw.tag = "list" THEN SetEntity(world, ref, delta.raw.of)
      ELSE SetEntity(world, ref, <<delta.raw>>)

\* The self model changes in three fields, each of a type of its own.
ReplaySelfUpdate(world, delta) ==
  CASE delta.key = "capabilities" /\ delta.raw.tag = "list" ->
         [world EXCEPT !.capabilities = delta.raw.of]
    [] delta.key = "limits" /\ delta.raw.tag = "list" ->
         [world EXCEPT !.limits = delta.raw.of]
    [] delta.key = "reliability" /\ delta.raw.tag = "number" ->
         [world EXCEPT !.reliability = delta.raw.of]
    [] OTHER -> world

\* The removal of entities, relations and tensions are on record and no more.
ReplayDelta(world, delta) ==
  IF ~world.ok THEN world
  ELSE CASE delta.kind = "hypothesis_update" -> ReplayHypothesisUpdate(world, delta)
         [] delta.kind = "hypothesis_remove" -> ReplayHypothesisRemove(world, delta)
         [] delta.kind = "hypothesis_add" -> ReplayHypothesisAdd(world, delta)
         [] delta.kind = "goal_update" /\ delta.raw.tag = "list" ->
              [world EXCEPT !.goals = delta.raw.of]
         [] delta.kind = "self_update" -> ReplaySelfUpdate(world, delta)
         [] delta.kind \in {"entity_add", "entity_update"} /\ delta.raw # NoValue ->
              ReplayEntity(world, delta)
         [] OTHER -> world

\* A sequence that holds nothing twice.
Distinct(seq) == \A m, n \in DOMAIN seq : seq[m] = seq[n] => m = n

\* The facts a revision anchors are added after all its deltas, each once.
Anchored(anchors, deltas) ==
  LET anchored[n \in 0..Len(deltas)] ==
        IF n = 0 THEN anchors
        ELSE LET before == anchored[n - 1]
                 fact == deltas[n].after
             IN  IF /\ deltas[n].kind = "anchor_add" /\ fact # ""
                    /\ \A m \in DOMAIN before : before[m] # fact
                 THEN Append(before, fact) ELSE before
  IN  anchored[Len(deltas)]

ReplayRevision(world, revision) ==
  LET deltas == revision.deltas
      replayed[n \in 0..Len(deltas)] ==
        IF n = 0 THEN world ELSE ReplayDelta(replayed[n - 1], deltas[n])
      after == replayed[Len(deltas)]
  IN  IF ~after.ok THEN after
      ELSE [after EXCEPT !.anchors = Anchored(@, deltas), !.id = revision.result]

\* replay_world_state, from an initial state, over some of the entries on record,
\* given by their positions, in order.
ReplayWorld(initial, entries, revisions) ==
  LET world[n \in 0..Len(entries)] ==
        IF n = 0 THEN initial
        ELSE IF n \in revisions THEN ReplayRevision(world[n - 1], entries[n])
        ELSE world[n - 1]
  IN  world[Len(entries)]

\* Of the world before, the world after keeps what is meant to last.
Keeps(before, after) ==
  /\ Extends(after.anchors, before.anchors)
  /\ Distinct(after.anchors)
  /\ \A ref \in DOMAIN before.entities :
       ref[1] = "memory" =>
         ref \in DOMAIN after.entities
         /\ Extends(after.entities[ref], before.entities[ref])

================================================================================
