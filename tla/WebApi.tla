--------------------------------- MODULE WebApi ---------------------------------
(***************************************************************************)
(* The web API over its files: task requests that tell every subscriber of *)
(* their events and store them, commitment requests that revise the stored *)
(* world state, subscribers that come and go, and a server that may be     *)
(* stopped at any point and started again.                                 *)
(*                                                                         *)
(* One event loop runs them all: a handler keeps control (running) until it*)
(* awaits.  Only the sending of an event to a subscriber awaits, so a task *)
(* request is interleaved there and a commitment request nowhere.          *)
(*                                                                         *)
(* A world state is the sequence of the revisions it was made by; its id is*)
(* their number.  A commitment and the revision it causes have one id: the *)
(* task they are by (0: a commitment request) and a number.                *)
(***************************************************************************)
EXTENDS Storage, CommitmentPolicy, Functions

CONSTANTS
  Clients,         \* the web sockets that may subscribe, each once
  Runs,            \* what the run of every task requested leaves
  MaxCommitments,  \* bound on the commitment requests that are not refused
  MaxFaults        \* bound on the writes that fail and the stops of the server

Tasks == 1..Len(Runs)
NoTask == 0

(***************************************************************************)
(* A run as the API sees its result: the number of events in its log and of*)
(* commitments, the commitments that caused a revision (one each, see      *)
(* OneRevisionPerCommitment of PlanExecution), and whether there is a world*)
(* state to save.                                                          *)
(***************************************************************************)
ASSUME RunAssumption ==
  /\ Runs \in Seq([events : Nat \ {0}, commitments : Nat, revised : Seq(Nat),
                   world : BOOLEAN])
  /\ \A t \in Tasks : /\ Runs[t].revised \in Seq(1..Runs[t].commitments)
                     /\ IsInjective(Runs[t].revised)
  /\ MaxCommitments \in Nat /\ MaxFaults \in Nat

VARIABLES
  running,      \* the task request that has control, if any
  requests,     \* the task requests
  subscribers,  \* app.state.event_subscribers
  connection,   \* the state of every client's web socket
  received,     \* the events every client that is connected received
  events,       \* events.jsonl
  commitments,  \* commitment_events.jsonl
  revisions,    \* revision_events.jsonl
  world,        \* world_state.json
  artifacts,    \* runs/<task>.json
  stored,       \* history: the records whose append returned, by file
  asked,        \* the number of commitment requests taken
  faults        \* the number of writes that failed and of stops

volatile == <<running, requests, subscribers, connection, received>>
files == <<events, commitments, revisions, world, artifacts, stored>>
webVars == <<volatile, files, asked, faults>>

(***************************************************************************)
(* pc: "idle", "events" (between two sends), "sending", "world", "records",*)
(* "artifact" (what is to be stored next) or "ended": answered, or cut off *)
(* by a crash.  position: of the next subscriber in the list, or of the    *)
(* next record to store.  disconnected: those sending to failed.           *)
(***************************************************************************)
Request(pc) ==
  [pc |-> pc, event |-> 1, position |-> 1, to |-> {}, disconnected |-> {}]

WebInit ==
  /\ running = NoTask
  /\ requests = [t \in Tasks |-> Request("idle")]
  /\ subscribers = <<>>
  /\ connection = [c \in Clients |-> "new"]
  /\ received = [c \in Clients |-> <<>>]
  /\ events = NoLines
  /\ commitments = NoLines
  /\ revisions = NoLines
  /\ world = Saved(<<>>)
  /\ artifacts = [t \in Tasks |-> "none"]
  /\ stored = [events |-> <<>>, commitments |-> <<>>, revisions |-> <<>>]
  /\ asked = 0
  /\ faults = 0

\* n more faults.
Faults(n) == faults' = faults + n /\ faults' <= MaxFaults

\* Of a list, only what is wanted, in its order.
Only(list, wanted) ==
  LET kept[n \in 0..Len(list)] ==
        IF n = 0 THEN <<>>
        ELSE IF list[n] \in wanted THEN Append(kept[n - 1], list[n])
        ELSE kept[n - 1]
  IN  kept[Len(list)]

--------------------------------------------------------------------------------
(* Subscribers.                                                            *)

\* Defect: the newest subscriber is put first.
SubscribeFirst(c) ==
  /\ running = NoTask
  /\ connection[c] = "new"
  /\ connection' = [connection EXCEPT ![c] = "open"]
  /\ subscribers' = <<c>> \o subscribers
  /\ UNCHANGED <<running, requests, received, files, asked, faults>>

Subscribe(c) ==
  /\ running = NoTask
  /\ connection[c] = "new"
  /\ connection' = [connection EXCEPT ![c] = "open"]
  /\ subscribers' = Append(subscribers, c)
  /\ UNCHANGED <<running, requests, received, files, asked, faults>>

\* The other end goes away, which nobody here has noticed yet.  (Whoever has
\* control would not notice before it awaits.)
GoAway(c) ==
  /\ running = NoTask
  /\ connection[c] = "open"
  /\ connection' = [connection EXCEPT ![c] = "gone"]
  /\ received' = [received EXCEPT ![c] = <<>>]
  /\ UNCHANGED <<running, requests, subscribers, files, asked, faults>>

\* Its handler notices and takes it off the list, if it still is on it.
NoticeGone(c) ==
  /\ running = NoTask
  /\ connection[c] = "gone"
  /\ connection' = [connection EXCEPT ![c] = "closed"]
  /\ subscribers' = Only(subscribers, Clients \ {c})
  /\ UNCHANGED <<running, requests, received, files, asked, faults>>

--------------------------------------------------------------------------------
(* A task request: POST /tasks.                                            *)

\* The task is run over a log of its own; its events are broadcast in turn.
ExecuteTask(t) ==
  /\ running = NoTask
  /\ requests[t].pc = "idle"
  /\ running' = t
  /\ requests' = [requests EXCEPT ![t].pc = "events"]
  /\ UNCHANGED <<subscribers, connection, received, files, asked, faults>>

\* The run raises: status 500, and nothing of it is told or stored.
TaskRaises(t) ==
  /\ running = NoTask
  /\ requests[t].pc = "idle"
  /\ requests' = [requests EXCEPT ![t].pc = "ended"]
  /\ UNCHANGED <<running, subscribers, connection, received, files,
                 asked, faults>>

\* The loop over the list asks for the next one by its position.
BeginSend(t) ==
  /\ running = t
  /\ requests[t].pc = "events"
  /\ requests[t].position <= Len(subscribers)
  /\ requests' = [requests EXCEPT ![t].pc = "sending",
                                  ![t].to = {subscribers[requests[t].position]},
                                  ![t].position = @ + 1]
  /\ running' = NoTask
  /\ UNCHANGED <<subscribers, connection, received, files, asked, faults>>

\* Sending may fail whatever the client's state, and may not be noticed to if
\* the client went away.
SendReturns(t) ==
  /\ running = NoTask
  /\ requests[t].pc = "sending"
  /\ running' = t
  /\ \E c \in requests[t].to, failed \in BOOLEAN :
       /\ received' = IF connection[c] = "open" /\ ~failed
                      THEN [received EXCEPT ![c] =
                              Append(@, [task |-> t, event |-> requests[t].event])]
                      ELSE received
       /\ requests' = [requests EXCEPT
            ![t].pc = "events", ![t].to = {},
            ![t].disconnected = IF failed THEN @ \cup {c} ELSE @]
  /\ UNCHANGED <<subscribers, connection, files, asked, faults>>

Line(file, what) == [index |-> CountLines(file), what |-> what]

EventOf(t) == [task |-> t, event |-> requests[t].event]

\* Who is still on the list of those sending to failed for is taken off it.
Pruned(t) == Only(subscribers, Clients \ requests[t].disconnected)

NextEvent(t) ==
  IF requests[t].event = Runs[t].events THEN Request("world")
  ELSE [Request("events") EXCEPT !.event = requests[t].event + 1]

\* What a run leaves to store: its commitments, then its revisions.
RecordsOf(t) ==
  [n \in 1..Runs[t].commitments |->
     [file |-> "commitments", id |-> [by |-> t, n |-> n]]] \o
  [n \in DOMAIN Runs[t].revised |->
     [file |-> "revisions", id |-> [by |-> t, n |-> Runs[t].revised[n]]]]

NextRecord(t) == RecordsOf(t)[requests[t].position]

AfterRecords(t, n) ==
  IF n > Len(RecordsOf(t)) THEN Request("artifact")
  ELSE [Request("records") EXCEPT !.position = n]

\* The world state the run's revisions made.
RunState(t) == [n \in DOMAIN Runs[t].revised |-> [by |-> t, n |-> Runs[t].revised[n]]]

ContinueWith(t, request) ==
  /\ requests' = [requests EXCEPT ![t] = request]
  /\ running' = IF request.pc = "ended" THEN NoTask ELSE t

\* The list is through; the event is stored.
EndBroadcast(t) ==
  /\ running = t
  /\ requests[t].pc = "events"
  /\ requests[t].position > Len(subscribers)
  /\ subscribers' = Pruned(t)
  /\ events' = AppendLine(events, Line(events, EventOf(t)))
  /\ stored' = [stored EXCEPT !.events = Append(@, EventOf(t))]
  /\ ContinueWith(t, NextEvent(t))
  /\ UNCHANGED <<connection, received, commitments, revisions, world, artifacts,
                 asked, faults>>

\* The run's own world state, if it has one, replaces the stored one.
SaveRunState(t) ==
  /\ running = t
  /\ requests[t].pc = "world"
  /\ world' = IF Runs[t].world THEN Saved(RunState(t)) ELSE world
  /\ ContinueWith(t, AfterRecords(t, 1))
  /\ UNCHANGED <<subscribers, connection, received, events, commitments, revisions,
                 artifacts, stored, asked, faults>>

StoreRecord(t) ==
  /\ running = t
  /\ requests[t].pc = "records"
  /\ LET id == NextRecord(t).id
         to == NextRecord(t).file
     IN  /\ commitments' = IF to = "commitments"
                           THEN AppendLine(commitments, Line(commitments, id))
                           ELSE commitments
         /\ revisions' = IF to = "revisions"
                         THEN AppendLine(revisions, Line(revisions, id))
                         ELSE revisions
         /\ stored' = [stored EXCEPT ![to] = Append(@, id)]
  /\ ContinueWith(t, AfterRecords(t, requests[t].position + 1))
  /\ UNCHANGED <<subscribers, connection, received, events, world, artifacts,
                 asked, faults>>

SaveArtifact(t) ==
  /\ running = t
  /\ requests[t].pc = "artifact"
  /\ artifacts' = [artifacts EXCEPT ![t] = "saved"]
  /\ ContinueWith(t, Request("ended"))
  /\ UNCHANGED <<subscribers, connection, received, events, commitments, revisions,
                 world, stored, asked, faults>>

\* What the write this request is about to make leaves if it is cut off.
WriteCutOff(t) ==
  /\ \/ /\ requests[t].pc = "events" /\ requests[t].position > Len(subscribers)
        /\ events' \in AppendFails(events, Line(events, EventOf(t)))
        /\ UNCHANGED <<commitments, revisions, world, artifacts>>
     \/ /\ requests[t].pc = "world" /\ Runs[t].world
        /\ world' \in SaveFails(world)
        /\ UNCHANGED <<events, commitments, revisions, artifacts>>
     \/ /\ requests[t].pc = "records" /\ NextRecord(t).file = "commitments"
        /\ commitments' \in
             AppendFails(commitments, Line(commitments, NextRecord(t).id))
        /\ UNCHANGED <<events, revisions, world, artifacts>>
     \/ /\ requests[t].pc = "records" /\ NextRecord(t).file = "revisions"
        /\ revisions' \in AppendFails(revisions, Line(revisions, NextRecord(t).id))
        /\ UNCHANGED <<events, commitments, world, artifacts>>
     \/ /\ requests[t].pc = "artifact"
        /\ \E left \in {"none", "torn"} :
             artifacts' = [artifacts EXCEPT ![t] = left]
        /\ UNCHANGED <<events, commitments, revisions, world>>
  /\ UNCHANGED stored

\* A write raises, which is logged.  Of the records the rest is skipped then.
WriteRaises(t) ==
  /\ running = t
  /\ WriteCutOff(t)
  /\ Faults(1)
  /\ subscribers' = IF requests[t].pc = "events" THEN Pruned(t) ELSE subscribers
  /\ ContinueWith(t, CASE requests[t].pc = "events"   -> NextEvent(t)
                       [] requests[t].pc = "world"    -> AfterRecords(t, 1)
                       [] requests[t].pc = "records"  -> Request("artifact")
                       [] requests[t].pc = "artifact" -> Request("ended"))
  /\ UNCHANGED <<connection, received, asked>>

--------------------------------------------------------------------------------
(* A commitment request, POST /world/commitment, and a restart.            *)

\* Defect: the world state is saved before its revision is stored.
CommitWorldFirst(id, made) ==
  /\ commitments' = AppendLine(commitments, Line(commitments, id))
  /\ world' = Saved(made)
  /\ \/ /\ revisions' \in AppendFails(revisions, Line(revisions, id))
        /\ stored' = [stored EXCEPT !.commitments = Append(@, id)]
        /\ Faults(1)
     \/ /\ revisions' = AppendLine(revisions, Line(revisions, id))
        /\ stored' = [stored EXCEPT !.commitments = Append(@, id),
                                    !.revisions = Append(@, id)]
        /\ Faults(0)

\* With a revision: the commitment is stored, the revision, the state it made.
Commit(id, made) ==
  \/ /\ commitments' \in AppendFails(commitments, Line(commitments, id))
     /\ Faults(1)
     /\ UNCHANGED <<revisions, world, stored>>
  \/ /\ commitments' = AppendLine(commitments, Line(commitments, id))
     /\ revisions' \in AppendFails(revisions, Line(revisions, id))
     /\ stored' = [stored EXCEPT !.commitments = Append(@, id)]
     /\ Faults(1)
     /\ UNCHANGED world
  \/ /\ commitments' = AppendLine(commitments, Line(commitments, id))
     /\ revisions' = AppendLine(revisions, Line(revisions, id))
     /\ stored' = [stored EXCEPT !.commitments = Append(@, id),
                                 !.revisions = Append(@, id)]
     /\ \/ world' \in SaveFails(world) /\ Faults(1)
        \/ world' = Saved(made) /\ Faults(0)

\* Without one: the commitment is stored, and the state as it was loaded.
CommitOnly(id) ==
  \/ /\ commitments' \in AppendFails(commitments, Line(commitments, id))
     /\ Faults(1)
     /\ UNCHANGED <<revisions, world, stored>>
  \/ /\ commitments' = AppendLine(commitments, Line(commitments, id))
     /\ stored' = [stored EXCEPT !.commitments = Append(@, id)]
     /\ \/ world' \in SaveFails(world) /\ Faults(1)
        \/ UNCHANGED world /\ Faults(0)
     /\ UNCHANGED revisions

(***************************************************************************)
(* The world state is loaded, which has to succeed, and revised from the   *)
(* commitment; the first write that raises ends the request.  A request has*)
(* no way to say how far an act can be undone, so that every act is refused*)
(* and changes nothing.                                                    *)
(***************************************************************************)
ExecuteCommitment(kind, revises) ==
  LET id == [by |-> 0, n |-> asked + 1]
  IN  /\ running = NoTask
      /\ asked < MaxCommitments
      /\ EvaluateCommitmentPolicy(kind, NotSaid).allowed
      /\ ~world.torn
      /\ asked' = asked + 1
      /\ IF revises THEN Commit(id, Append(world.value, id)) ELSE CommitOnly(id)
      /\ UNCHANGED <<volatile, events, artifacts>>

\* The server is stopped, maybe in the middle of a write, and started: what is
\* not on file is gone.
Crash ==
  /\ Faults(1)
  /\ \/ UNCHANGED files
     \/ \E t \in Tasks : running = t /\ WriteCutOff(t)
  /\ running' = NoTask
  /\ requests' = [t \in Tasks |->
       Request(IF requests[t].pc = "idle" THEN "idle" ELSE "ended")]
  /\ subscribers' = <<>>
  /\ connection' = [c \in Clients |->
       IF connection[c] = "new" THEN "new" ELSE "closed"]
  /\ received' = [c \in Clients |-> <<>>]
  /\ UNCHANGED asked

TaskStep(t) ==
  \/ BeginSend(t)
  \/ SendReturns(t)
  \/ EndBroadcast(t)
  \/ SaveRunState(t)
  \/ StoreRecord(t)
  \/ SaveArtifact(t)
  \/ WriteRaises(t)

WebNext ==
  \/ \E c \in Clients : Subscribe(c) \/ GoAway(c) \/ NoticeGone(c)
  \/ \E t \in Tasks : ExecuteTask(t) \/ TaskRaises(t) \/ TaskStep(t)
  \/ \E kind \in CommitmentKind, revises \in BOOLEAN :
       ExecuteCommitment(kind, revises)
  \/ Crash

WebSpec == WebInit /\ [][WebNext]_webVars

--------------------------------------------------------------------------------
Before(seq, x, y) ==
  \E m, n \in DOMAIN seq : m < n /\ seq[m] = x /\ seq[n] = y

\* What a file that can be loaded holds, without the numbers.
Contents(file) == [n \in DOMAIN Loaded(file) |-> Loaded(file)[n].what]

\* Where the stored world state was changed by commitment requests.
MadeByCommitments == {m \in DOMAIN world.value : world.value[m].by = 0}

\* The lines of a file that are records, whatever the others are.
Readable(file) == {n \in DOMAIN file.lines : file.lines[n] # <<>>}

(***************************************************************************)
(* What is written ahead of what, wherever the writes of a request, or the *)
(* server, were stopped: a revision is on a line that can be read only if  *)
(* the append of its commitment had returned, and if both files can be     *)
(* loaded the commitment is loaded with it (persistence: "maintaining      *)
(* determinism and replay semantics").  What commitment requests changed in*)
(* the stored world state they changed in the order in which the appends of*)
(* the revisions returned, whichever task came between.  A task request is *)
(* the other way round, its world state is saved before its revisions are  *)
(* stored: so only if nothing was cut off is each of these stored too, once*)
(* the request is through with its records.                                *)
(***************************************************************************)
WriteAhead ==
  /\ \A n \in Readable(revisions) :
       revisions.lines[n][1].what \in Range(stored.commitments)
  /\ CanBeLoaded(commitments) /\ CanBeLoaded(revisions) =>
       Range(Contents(revisions)) \subseteq Range(Contents(commitments))
  /\ \A m \in MadeByCommitments : world.value[m] \in Range(stored.revisions)
  /\ \A m, n \in MadeByCommitments :
       m < n => Before(stored.revisions, world.value[m], world.value[n])
  /\ faults = 0 =>
       \A m \in DOMAIN world.value \ MadeByCommitments :
         \/ world.value[m] \in Range(stored.revisions)
         \/ requests[world.value[m].by].pc = "records"

(***************************************************************************)
(* A file that can be loaded is whole: it holds every record whose append  *)
(* returned, in the order in which they did, and its records are numbered  *)
(* by their place, whatever writes before were cut off in the middle of a  *)
(* line (append_event, append_commitment_event, append_revision_event,     *)
(* which number by counting lines they do not read).                       *)
(***************************************************************************)
Whole(file, returned) ==
  CanBeLoaded(file) =>
    /\ Only(Contents(file), Range(returned)) = returned
    /\ \A n \in DOMAIN Loaded(file) : Loaded(file)[n].index = n - 1

LogsWhole ==
  /\ Whole(events, stored.events)
  /\ Whole(commitments, stored.commitments)
  /\ Whole(revisions, stored.revisions)

(***************************************************************************)
(* A subscriber hears of the events of a task in order and of each at most *)
(* once, though the list is gone through by position while others join and *)
(* leave it (_broadcast_event).                                            *)
(***************************************************************************)
DeliveredInOrder ==
  \A c \in Clients : \A m, n \in DOMAIN received[c] :
    m < n /\ received[c][m].task = received[c][n].task =>
      received[c][m].event < received[c][n].event

================================================================================
