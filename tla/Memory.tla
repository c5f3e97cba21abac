-------------------------------- MODULE Memory ---------------------------------
(***************************************************************************)
(* Long-term memory: the promotion pipeline in front of it                 *)
(* (memory_promotion), the store, which is a table in the process and one  *)
(* file per memory (memory_store), and the vector index beside it, a table *)
(* and one file for all (memory_index).  A file is opened for writing,     *)
(* which empties it, and is whole when the writer is done: the process may *)
(* fail in between, and a restart reads what the files hold.               *)
(***************************************************************************)
EXTENDS Naturals, Sequences, FiniteSets

CONSTANTS
  Rules,        \* the rules of the promotion policy that requests break here
  MaxMemories,  \* bound on the memories made: their ids are 1 .. MaxMemories
  MaxCrashes,   \* bound on the restarts
  NoMemory, Torn

VARIABLES
  record,   \* what the event logs of all runs of the process were told
  stored,   \* MemoryStore._memory_index
  files,    \* the file of every memory: none, torn, or what was written
  vectors,  \* MemoryIndex._vector_index, by its keys
  saved,    \* what vector_index.json can be loaded as: of a torn file, nothing
  handle,   \* a memory object that a caller has kept
  todo,     \* what is left of the operation under way
  crashes   \* the restarts so far

memoryVars == <<record, stored, files, vectors, saved, handle, todo, crashes>>

Ids == 1..MaxMemories

\* plain: json can write its state_diff.  vector: it has a semantic_vector.
Memory == [id : Ids, plain : BOOLEAN, vector : BOOLEAN]

ASSUME MemoryAssumption ==
  /\ MaxMemories \in Nat /\ MaxCrashes \in Nat
  /\ NoMemory # Torn
  /\ NoMemory \notin Memory /\ Torn \notin Memory

Event(type, id) == [type |-> type, id |-> id]

(***************************************************************************)
(* The operations are lists of steps; a step is where the process may fail *)
(* and leave the rest undone.                                              *)
(***************************************************************************)
Do(step, memory) == [step |-> step, memory |-> memory]
Idle == todo = <<>>
At(step) == ~Idle /\ Head(todo).step = step
Subject == Head(todo).memory
Raise == todo' = <<>>  \* nothing is caught: the rest is not done

Recorded(type, id) == \E n \in DOMAIN record : record[n] = Event(type, id)
Made == Cardinality({id \in Ids : Recorded("requested", id)})
Fresh == Made + 1  \* ids are random in the code; the order is that of creation

Loaded(file) == IF file = Torn THEN NoMemory ELSE file

MemoryInit ==
  /\ record = <<>>
  /\ stored = [id \in Ids |-> NoMemory]
  /\ files = [id \in Ids |-> NoMemory]
  /\ vectors = {}
  /\ saved = {}
  /\ handle = NoMemory
  /\ todo = <<>>
  /\ crashes = 0

--------------------------------------------------------------------------------
\* MemoryStore.add_memory up to the open file; what remains is steps.
AddMemory(memory, rest) ==
  /\ stored' = [stored EXCEPT ![memory.id] = memory]
  /\ files' = [files EXCEPT ![memory.id] = Torn]
  /\ todo' = <<Do("write", memory)>> \o rest

\* json.dump raises on a state_diff it cannot write, and leaves the file torn.
Write ==
  /\ At("write")
  /\ IF Subject.plain
     THEN /\ files' = [files EXCEPT ![Subject.id] = Subject]
          /\ todo' = Tail(todo)
     ELSE /\ Raise
          /\ UNCHANGED files
  /\ UNCHANGED <<record, stored, vectors, saved, handle, crashes>>

(***************************************************************************)
(* Promotion.  A request is what it would store and the rules it breaks; a *)
(* policy of the caller may answer anything.                               *)
(***************************************************************************)
PolicyVerdicts(policy, violated) ==
  IF policy = "default" THEN {violated = {}} ELSE BOOLEAN

Promoting == Idle /\ Made < MaxMemories

\* Defect: the memory is stored while the policy is still to be asked.
PromotionRejectedTooLate(policy, violated) ==
  /\ Promoting
  /\ FALSE \in PolicyVerdicts(policy, violated)
  /\ record' = record \o <<Event("requested", Fresh), Event("rejected", Fresh)>>
  /\ AddMemory([id |-> Fresh, plain |-> TRUE, vector |-> FALSE], <<>>)
  /\ UNCHANGED <<vectors, saved, handle, crashes>>

PromotionRejected(policy, violated) ==
  /\ Promoting
  /\ FALSE \in PolicyVerdicts(policy, violated)
  /\ record' = record \o <<Event("requested", Fresh), Event("rejected", Fresh)>>
  /\ UNCHANGED <<stored, files, vectors, saved, handle, todo, crashes>>

PromotionStored(policy, violated, plain) ==
  LET memory == [id |-> Fresh, plain |-> plain, vector |-> FALSE]
  IN  /\ Promoting
      /\ TRUE \in PolicyVerdicts(policy, violated)
      /\ record' = Append(record, Event("requested", Fresh))
      /\ AddMemory(memory, <<Do("approve", memory)>>)
      /\ UNCHANGED <<vectors, saved, handle, crashes>>

\* The approval is recorded when the file is written, and the memory returned.
PromotionApproved ==
  /\ At("approve")
  /\ record' = Append(record, Event("approved", Subject.id))
  /\ handle' = Subject
  /\ todo' = Tail(todo)
  /\ UNCHANGED <<stored, files, vectors, saved, crashes>>

--------------------------------------------------------------------------------
(***************************************************************************)
(* The vector index.  Indexing a memory without a vector embeds it, stores *)
(* it again with the vector and only then adds it to the index.            *)
(***************************************************************************)
AddVector(id, rest) ==
  /\ vectors' = vectors \cup {id}
  /\ saved' = {}
  /\ todo' = <<Do("save", NoMemory)>> \o rest

IndexMemory ==
  LET embedded == [Subject EXCEPT !.vector = TRUE]
  IN  /\ At("index") /\ ~Subject.vector /\ Subject.plain
      /\ AddMemory(embedded, <<Do("vector", embedded)>> \o Tail(todo))
      /\ UNCHANGED <<record, vectors, saved, handle, crashes>>

\* The text to embed holds the state_diff, and json raises on it.
IndexMemoryRaises ==
  /\ At("index") /\ ~Subject.vector /\ ~Subject.plain
  /\ Raise
  /\ UNCHANGED <<record, stored, files, vectors, saved, handle, crashes>>

IndexVector ==
  /\ At("vector") \/ (At("index") /\ Subject.vector)
  /\ AddVector(Subject.id, Tail(todo))
  /\ UNCHANGED <<record, stored, files, handle, crashes>>

SaveIndex ==
  /\ At("save")
  /\ saved' = vectors
  /\ todo' = Tail(todo)
  /\ UNCHANGED <<record, stored, files, vectors, handle, crashes>>

DeleteFromIndex(id) ==
  /\ Idle /\ id \in vectors
  /\ vectors' = vectors \ {id}
  /\ saved' = {}
  /\ todo' = <<Do("save", NoMemory)>>
  /\ UNCHANGED <<record, stored, files, handle, crashes>>

\* Every run with a memory store loads the index anew and completes it.
Stored == {stored[id] : id \in Ids} \ {NoMemory}

\* What is done with each of some memories, in an order of all of them.
Orders(memories) ==
  {order \in [1..Cardinality(memories) -> memories] :
     \A memory \in memories : \E n \in DOMAIN order : order[n] = memory}

DoInOrder(step, order) == [n \in DOMAIN order |-> Do(step, order[n])]

\* The newest memory first.
BuildIndex(missing) ==
  /\ Idle
  /\ vectors' = saved
  /\ \E order \in Orders(missing) :
       /\ \A m, n \in DOMAIN order : m < n => order[m].id > order[n].id
       /\ todo' = DoInOrder("index", order) \o <<Do("built", NoMemory)>>
  /\ UNCHANGED <<record, stored, files, saved, handle, crashes>>

\* Defect: a memory that has its vector is taken to be in the index.
BuildIndexFromStoreTrusting == BuildIndex({m \in Stored : ~m.vector})

BuildIndexFromStore ==
  BuildIndex({m \in Stored : m.id \notin saved \/ ~m.vector})

IndexBuilt ==
  /\ At("built")
  /\ todo' = Tail(todo)
  /\ UNCHANGED <<record, stored, files, vectors, saved, handle, crashes>>

\* A caller indexes the object it holds, or asks for what is similar to it.
IndexHandle ==
  /\ Idle /\ handle # NoMemory
  /\ todo' = <<Do("index", handle)>>
  /\ UNCHANGED <<record, stored, files, vectors, saved, handle, crashes>>

GetMemory(id) ==
  /\ Idle /\ stored[id] # NoMemory
  /\ handle' = stored[id]
  /\ UNCHANGED <<record, stored, files, vectors, saved, todo, crashes>>

--------------------------------------------------------------------------------
(***************************************************************************)
(* Deletion.  Neither the vector index nor the log hears of it.            *)
(***************************************************************************)
\* Defect: the file stays.
DeleteMemoryKeepsFile ==
  /\ At("delete")
  /\ stored' = [stored EXCEPT ![Subject.id] = NoMemory]
  /\ todo' = Tail(todo)
  /\ UNCHANGED <<record, files, vectors, saved, handle, crashes>>

DeleteMemory ==
  /\ At("delete")
  /\ stored' = [stored EXCEPT ![Subject.id] = NoMemory]
  /\ todo' = <<Do("unlink", Subject)>> \o Tail(todo)
  /\ UNCHANGED <<record, files, vectors, saved, handle, crashes>>

Unlink ==
  /\ At("unlink")
  /\ files' = [files EXCEPT ![Subject.id] = NoMemory]
  /\ todo' = Tail(todo)
  /\ UNCHANGED <<record, stored, vectors, saved, handle, crashes>>

Delete(memory) ==
  /\ Idle /\ memory \in Stored
  /\ todo' = <<Do("delete", memory)>>
  /\ UNCHANGED <<record, stored, files, vectors, saved, handle, crashes>>

\* All that were created before a time, in the order of the table.
CleanupOldMemories(before) ==
  LET old == {m \in Stored : m.id < before}
  IN  /\ Idle /\ old # {}
      /\ \E order \in Orders(old) : todo' = DoInOrder("delete", order)
      /\ UNCHANGED <<record, stored, files, vectors, saved, handle, crashes>>

\* The process fails at any step and is started again over the same files.
Restart ==
  /\ crashes < MaxCrashes
  /\ stored' = [id \in Ids |-> Loaded(files[id])]
  /\ vectors' = saved
  /\ handle' = NoMemory
  /\ todo' = <<>>
  /\ crashes' = crashes + 1
  /\ UNCHANGED <<record, files, saved>>

MemoryStep ==
  \/ Write \/ PromotionApproved
  \/ IndexMemory \/ IndexMemoryRaises \/ IndexVector \/ SaveIndex \/ IndexBuilt
  \/ DeleteMemory \/ Unlink

MemoryNext ==
  \/ MemoryStep
  \/ \E policy \in {"default", "given"}, violated \in SUBSET Rules :
       \/ PromotionRejected(policy, violated)
       \/ \E plain \in BOOLEAN : PromotionStored(policy, violated, plain)
  \/ BuildIndexFromStore \/ IndexHandle
  \/ \E id \in Ids : DeleteFromIndex(id) \/ GetMemory(id)
  \/ \E memory \in Stored : Delete(memory)
  \/ \E before \in 2..(MaxMemories + 1) : CleanupOldMemories(before)

MemorySpec == MemoryInit /\ [][MemoryNext \/ Restart]_memoryVars

--------------------------------------------------------------------------------
(***************************************************************************)
(* Only what the policy allowed is ever in the store, in a file or in the  *)
(* hands of a caller, whichever way it got there (a restart, a copy with a *)
(* vector, an object indexed again after its deletion); and a memory in    *)
(* the store of a process that never failed has its approval on record,    *)
(* unless its promotion is under way or could not be written.              *)
(***************************************************************************)
PromotedThroughPolicy ==
  /\ \A memory \in Stored \cup ({files[id] : id \in Ids} \ {NoMemory, Torn})
                   \cup ({handle} \ {NoMemory}) :
       Recorded("requested", memory.id) /\ ~Recorded("rejected", memory.id)
  /\ \A memory \in Stored :
       \/ Recorded("approved", memory.id)
       \/ ~memory.plain \/ crashes > 0
       \/ ~Idle /\ todo[Len(todo)] = Do("approve", memory)

(***************************************************************************)
(* Between operations the store and its files agree, whatever failed       *)
(* before: what a file holds is what the store serves, and only a memory   *)
(* that json cannot write is served and has no file to come back from.     *)
(***************************************************************************)
StoreMatchesFiles ==
  Idle => \A id \in Ids :
            \/ stored[id] = Loaded(files[id])
            \/ stored[id] # NoMemory /\ ~stored[id].plain /\ files[id] = Torn

(***************************************************************************)
(* Completing the index mends what earlier failures left undone: when it   *)
(* returns, every memory of the store has its vector in the store, in its  *)
(* file, in the index and in the file of the index.                        *)
(***************************************************************************)
BuildIndexesAll ==
  At("built") => \A memory \in Stored :
                   /\ memory.vector /\ files[memory.id] = memory
                   /\ memory.id \in vectors /\ memory.id \in saved
================================================================================
