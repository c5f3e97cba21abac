---------------------------- MODULE KnowledgeProofs ----------------------------
(***************************************************************************)
(* What the system knows and what it reasons with, for any size of either. *)
(*                                                                         *)
(* Long-term memory, whatever the documents beside it do: only what the    *)
(* policy allowed is ever in the store, the store agrees with its files    *)
(* between operations, and completing the index mends what failures left,  *)
(* for any number of memories, failures and restarts.                      *)
(*                                                                         *)
(* Evidence graphs with any number of edges, however they are cut down and *)
(* bounded: the walks over them count what they are to count, once.        *)
(* Simulations of any number of changes, and models that answer or fail to *)
(* whenever they are asked.                                                *)
(***************************************************************************)
EXTENDS Retrieval, Reasoning, SequenceTheorems, FiniteSetTheorems,
        WellFoundedInduction, TLAPS

Step ==
  {"write", "approve", "index", "vector", "save", "built", "delete", "unlink"}

Work == [step : Step, memory : Memory \cup {NoMemory}]

MemoryEvent == [type : {"requested", "rejected", "approved"}, id : Ids]

MemoryTypeOK ==
  /\ record \in Seq(MemoryEvent)
  /\ stored \in [Ids -> Memory \cup {NoMemory}]
  /\ files \in [Ids -> Memory \cup {NoMemory, Torn}]
  /\ \A id \in Ids : /\ stored[id] # NoMemory => stored[id].id = id
                     /\ files[id] \in Memory => files[id].id = id
  /\ vectors \subseteq Ids
  /\ saved \subseteq Ids
  /\ handle \in Memory \cup {NoMemory}
  /\ todo \in Seq(Work)
  /\ crashes \in Nat

\* Memories are made in the order of their ids, and judged after they are asked
\* for.
Asked == {id \in Ids : Recorded("requested", id)}

Numbered ==
  /\ Asked = 1..Made
  /\ \A id \in Ids : Recorded("rejected", id) => id \in Asked

(***************************************************************************)
(* The lists of steps that operations make: what is begun is finished next,*)
(* a promotion is on its own, and so is a deletion.                        *)
(***************************************************************************)
InOrder(list) ==
  \A n \in 1..Len(list) :
    /\ list[n].step \notin {"save", "built"} => list[n].memory # NoMemory
    /\ list[n].step \in {"write", "unlink", "save"} => n = 1
    /\ list[n].step \in {"approve", "vector"} /\ n # 1 =>
         n = 2 /\ list[1] = Do("write", list[n].memory)
    /\ list[n].step \in {"approve", "built"} => n = Len(list)
    /\ list[n].step \in {"delete", "unlink"} =>
         \A k \in 1..Len(list) : list[k].step \in {"delete", "unlink"}

PromotionUnderWay(memory) ==
  ~Idle /\ todo[Len(todo)] = Do("approve", memory)

Building == ~Idle /\ todo[Len(todo)].step = "built"

\* The policy allowed the memory, which has no vector unless json can write it.
Allowed(memory) ==
  /\ memory \in Memory
  /\ Recorded("requested", memory.id) /\ ~Recorded("rejected", memory.id)
  /\ memory.vector => memory.plain

\* The approval is on record, or there is a reason why it is not.
Recovered(memory) ==
  Recorded("approved", memory.id) \/ ~memory.plain \/ crashes > 0

Known(memory) == Allowed(memory) /\ Recovered(memory)

\* So it is with every memory at hand, but the one that is being promoted.
AllKnown ==
  /\ \A id \in Ids : stored[id] # NoMemory =>
       Known(stored[id]) \/ (Allowed(stored[id]) /\ PromotionUnderWay(stored[id]))
  /\ \A id \in Ids : files[id] \in Memory => Allowed(files[id])
  /\ handle # NoMemory => Known(handle)
  /\ \A n \in 1..Len(todo) : todo[n].memory # NoMemory =>
       \/ Known(todo[n].memory)
       \/ Allowed(todo[n].memory) /\ PromotionUnderWay(todo[n].memory)

\* A memory and its file agree, but for the one that is written or deleted.
Agree(id) ==
  \/ stored[id] = Loaded(files[id])
  \/ stored[id] # NoMemory /\ ~stored[id].plain /\ files[id] = Torn

Matches ==
  \A id \in Ids :
    Agree(id) \/ ((At("write") \/ At("unlink")) /\ Subject.id = id)

\* What is written and indexed is what the store holds, and not what is deleted.
Held ==
  \A n \in 1..Len(todo) :
    /\ todo[n].step \in {"write", "vector"} =>
         stored[todo[n].memory.id] = todo[n].memory
    /\ todo[n].step = "write" => files[todo[n].memory.id] = Torn
    /\ todo[n].step = "vector" => todo[n].memory.vector
    /\ todo[n].step = "unlink" => stored[todo[n].memory.id] = NoMemory

\* While the index is completed, what it lacks is still to be indexed.
ToIndex(id) ==
  \E n \in 1..Len(todo) :
    todo[n].step \in {"index", "vector"} /\ todo[n].memory.id = id

Completing ==
  Building =>
    /\ saved = vectors \/ At("save")
    /\ \A id \in Ids : stored[id] # NoMemory =>
         (stored[id].vector /\ id \in vectors) \/ ToIndex(id)
    /\ \A n \in 1..Len(todo) : todo[n].step = "index" =>
         /\ stored[todo[n].memory.id] # NoMemory
         /\ todo[n].memory.vector => stored[todo[n].memory.id].vector

MemoryInvariant ==
  /\ MemoryTypeOK
  /\ Numbered
  /\ InOrder(todo)
  /\ AllKnown
  /\ Matches
  /\ Held
  /\ Completing

--------------------------------------------------------------------------------
(* Lists.                                                                  *)

\* The first of a list and the rest of it.
LEMMA RestOfList ==
  ASSUME NEW S, NEW list \in Seq(S), list # <<>>
  PROVE  /\ Len(list) \in Nat /\ Len(list) >= 1
         /\ Head(list) = list[1] /\ list[1] \in S
         /\ Tail(list) \in Seq(S) /\ Len(Tail(list)) = Len(list) - 1
         /\ \A n \in 1..(Len(list) - 1) : Tail(list)[n] = list[n + 1]
  BY HeadTailProperties, EmptySeq, LenProperties

\* One step before the rest.
LEMMA OneBefore ==
  ASSUME NEW S, NEW a \in S, NEW rest \in Seq(S)
  PROVE  /\ <<a>> \o rest \in Seq(S)
         /\ Len(<<a>> \o rest) = Len(rest) + 1
         /\ (<<a>> \o rest)[1] = a
         /\ \A n \in 2..(Len(rest) + 1) : (<<a>> \o rest)[n] = rest[n - 1]
<1>1. <<a>> \in Seq(S) /\ Len(<<a>>) = 1 /\ <<a>>[1] = a
  OBVIOUS
<1>2. Len(rest) \in Nat
  OBVIOUS
<1>3. /\ <<a>> \o rest \in Seq(S)
      /\ Len(<<a>> \o rest) = 1 + Len(rest)
      /\ \A n \in 1..(1 + Len(rest)) :
           (<<a>> \o rest)[n] = IF n <= 1 THEN <<a>>[n] ELSE rest[n - 1]
  BY <1>1, ConcatProperties
<1>4. (<<a>> \o rest)[1] = a
  <2>1. 1 \in 1..(1 + Len(rest))
    BY <1>2
  <2> QED
    BY <1>1, <1>3, <2>1
<1> QED
  BY <1>2, <1>3, <1>4

\* Two steps before the rest.
LEMMA TwoBefore ==
  ASSUME NEW S, NEW a \in S, NEW b \in S, NEW rest \in Seq(S)
  PROVE  /\ <<a>> \o (<<b>> \o rest) \in Seq(S)
         /\ Len(<<a>> \o (<<b>> \o rest)) = Len(rest) + 2
         /\ (<<a>> \o (<<b>> \o rest))[1] = a
         /\ (<<a>> \o (<<b>> \o rest))[2] = b
         /\ \A n \in 3..(Len(rest) + 2) :
              (<<a>> \o (<<b>> \o rest))[n] = rest[n - 2]
<1>1. PICK more \in Seq(S) : more = <<b>> \o rest
  BY OneBefore
<1>2. /\ Len(rest) \in Nat /\ Len(more) = Len(rest) + 1 /\ more[1] = b
      /\ \A n \in 2..(Len(rest) + 1) : more[n] = rest[n - 1]
  BY <1>1, OneBefore, LenProperties
<1>3. /\ <<a>> \o more \in Seq(S) /\ Len(<<a>> \o more) = Len(rest) + 2
      /\ (<<a>> \o more)[1] = a
      /\ \A n \in 2..(Len(rest) + 2) : (<<a>> \o more)[n] = more[n - 1]
  BY <1>2, OneBefore
<1>4. (<<a>> \o more)[2] = b
  BY <1>2, <1>3
<1>5. \A n \in 3..(Len(rest) + 2) : (<<a>> \o more)[n] = rest[n - 2]
  <2> TAKE n \in 3..(Len(rest) + 2)
  <2>1. /\ n \in 2..(Len(rest) + 2) /\ n - 1 \in 2..(Len(rest) + 1)
        /\ (n - 1) - 1 = n - 2
    BY <1>2
  <2> QED
    BY <1>2, <1>3, <2>1
<1> QED
  BY <1>1, <1>3, <1>4, <1>5

\* What is left of a list in order is in order, and so is an empty one.
LEMMA RestInOrder ==
  ASSUME NEW list \in Seq(Work), list # <<>>, InOrder(list)
  PROVE  /\ Tail(list) \in Seq(Work) /\ InOrder(Tail(list))
         /\ \A n \in 1..Len(Tail(list)) :
              /\ n + 1 \in 2..Len(list) /\ Tail(list)[n] = list[n + 1]
              /\ Tail(list)[n].step \notin {"write", "unlink", "save"}
<1>1. PICK rest \in Seq(Work) : rest = Tail(list)
  BY RestOfList
<1>2. /\ Len(list) \in Nat /\ Len(rest) \in Nat /\ Len(rest) = Len(list) - 1
      /\ \A n \in 1..Len(rest) : rest[n] = list[n + 1]
  BY <1>1, RestOfList
<1>3. \A n \in 1..Len(rest) : n + 1 \in 2..Len(list) /\ n + 1 \in 1..Len(list)
  BY <1>2
<1>4. \A n \in 1..Len(rest) : rest[n].step \notin {"write", "unlink", "save"}
  <2> TAKE n \in 1..Len(rest)
  <2>1. n + 1 # 1 /\ n + 1 \in 1..Len(list)
    BY <1>3
  <2> QED
    BY <1>2, <2>1 DEF InOrder
<1>5. InOrder(rest)
  <2> SUFFICES ASSUME NEW n \in 1..Len(rest)
               PROVE  /\ rest[n].step \notin {"save", "built"} =>
                           rest[n].memory # NoMemory
                      /\ rest[n].step \in {"write", "unlink", "save"} => n = 1
                      /\ rest[n].step \in {"approve", "vector"} /\ n # 1 =>
                           n = 2 /\ rest[1] = Do("write", rest[n].memory)
                      /\ rest[n].step \in {"approve", "built"} => n = Len(rest)
                      /\ rest[n].step \in {"delete", "unlink"} =>
                           \A k \in 1..Len(rest) :
                             rest[k].step \in {"delete", "unlink"}
    BY DEF InOrder
  <2>1. n + 1 \in 1..Len(list) /\ rest[n] = list[n + 1] /\ n + 1 # 1 /\ n \in Nat
    BY <1>2, <1>3
  <2>2. rest[n].step \in {"approve", "vector"} => n + 1 = 2
    BY <2>1 DEF InOrder
  <2>3. rest[n].step \in {"approve", "built"} => n + 1 = Len(list)
    BY <2>1 DEF InOrder
  <2>4. rest[n].step \in {"delete", "unlink"} =>
          \A k \in 1..Len(list) : list[k].step \in {"delete", "unlink"}
    BY <2>1 DEF InOrder
  <2>5. rest[n].step \notin {"save", "built"} => rest[n].memory # NoMemory
    BY <2>1 DEF InOrder
  <2>6. rest[n].step \in {"delete", "unlink"} =>
          \A k \in 1..Len(rest) : rest[k].step \in {"delete", "unlink"}
    BY <1>2, <1>3, <2>4
  <2>7. rest[n].step \in {"approve", "vector"} => n = 1
    BY <2>1, <2>2
  <2>8. rest[n].step \in {"approve", "built"} => n = Len(rest)
    BY <1>2, <2>1, <2>3
  <2> QED
    BY <1>4, <2>5, <2>6, <2>7, <2>8
<1> QED
  BY <1>1, <1>2, <1>3, <1>4, <1>5

--------------------------------------------------------------------------------
(* What a step leaves as it is.                                            *)

\* The step that an operation is at.
LEMMA HeadOfTodo ==
  ASSUME MemoryTypeOK, ~Idle
  PROVE  /\ Len(todo) \in Nat /\ Len(todo) >= 1
         /\ Head(todo) = todo[1] /\ todo[1] \in Work /\ Subject = todo[1].memory
         /\ todo[1] = Do(todo[1].step, todo[1].memory)
<1>1. todo \in Seq(Work) /\ todo # <<>>
  BY DEF MemoryTypeOK, Idle
<1>2. /\ Len(todo) \in Nat /\ Len(todo) >= 1
      /\ Head(todo) = todo[1] /\ todo[1] \in Work
  BY <1>1, RestOfList
<1> QED
  BY <1>2 DEF Subject, Do, Work

\* Only what writes a memory or approves it promotes.
LEMMA NoPromotion ==
  ASSUME MemoryTypeOK, InOrder(todo),
         Idle \/ todo[1].step \notin {"write", "approve"}
  PROVE  \A memory : ~PromotionUnderWay(memory)
<1> SUFFICES ASSUME NEW memory, ~Idle, todo[Len(todo)] = Do("approve", memory)
             PROVE  FALSE
  BY DEF PromotionUnderWay
<1>1. Len(todo) \in 1..Len(todo) /\ todo[1].step \notin {"write", "approve"}
  BY HeadOfTodo
<1>2. todo[Len(todo)].step = "approve"
  BY DEF Do
<1>3. Len(todo) # 1
  BY <1>1, <1>2
<1>4. todo[1] = Do("write", todo[Len(todo)].memory)
  BY <1>1, <1>2, <1>3 DEF InOrder
<1> QED
  BY <1>1, <1>4 DEF Do

\* What is on record stays, when nothing is put there.
LEMMA RecordStays ==
  ASSUME record' = record
  PROVE  /\ \A type, id : Recorded(type, id)' <=> Recorded(type, id)
         /\ Numbered => Numbered'
<1>1. \A type, id : Recorded(type, id)' <=> Recorded(type, id)
  BY DEF Recorded
<1>2. Asked' = Asked /\ Made' = Made
  BY DEF Asked, Made, Recorded
<1>3. Numbered => Numbered'
  BY <1>1, <1>2 DEF Numbered
<1> QED
  BY <1>1, <1>3

\* A memory stays known while record and process are the same.
LEMMA KnownStays ==
  ASSUME record' = record, crashes' = crashes, NEW memory
  PROVE  /\ Allowed(memory)' <=> Allowed(memory)
         /\ Known(memory)' <=> Known(memory)
  BY RecordStays DEF Known, Allowed, Recovered

\* With no promotion under way, all memories at hand are known.
LEMMA KnownMemories ==
  ASSUME AllKnown, \A memory : ~PromotionUnderWay(memory)
  PROVE  /\ \A id \in Ids : stored[id] # NoMemory => Known(stored[id])
         /\ \A n \in 1..Len(todo) :
              todo[n].memory # NoMemory => Known(todo[n].memory)
  BY DEF AllKnown

\* A memory and its file agree as long as neither changes.
LEMMA AgreeStays ==
  ASSUME NEW id, stored'[id] = stored[id], files'[id] = files[id], Agree(id)
  PROVE  Agree(id)'
  BY DEF Agree, Loaded

\* Steps that change neither store nor files, and begin nothing of the kind.
LEMMA Undisturbed ==
  ASSUME MemoryInvariant,
         Idle \/ todo[1].step \in {"index", "vector", "save", "built"},
         UNCHANGED <<record, stored, files, crashes>>,
         NEW t \in Seq(Work), todo' = t, InOrder(t),
         \A n \in 1..Len(t) :
           /\ t[n].step \notin {"write", "approve", "unlink", "vector"}
           /\ t[n].memory # NoMemory => Known(t[n].memory),
         NEW h \in Memory \cup {NoMemory}, handle' = h,
         h # NoMemory => Known(h),
         vectors' \subseteq Ids, saved' \subseteq Ids, Completing'
  PROVE  MemoryInvariant'
<1>1. /\ MemoryTypeOK /\ Numbered /\ InOrder(todo) /\ AllKnown /\ Matches
      /\ record' = record /\ stored' = stored /\ files' = files
      /\ crashes' = crashes
  BY DEF MemoryInvariant
<1>2. \A memory : ~PromotionUnderWay(memory)
  BY <1>1, NoPromotion
<1>3. MemoryTypeOK'
  BY <1>1 DEF MemoryTypeOK
<1>4. Numbered'
  BY <1>1, RecordStays
<1>5. InOrder(todo)'
  BY DEF InOrder
<1>6. AllKnown'
  <2>1. \A id \in Ids : stored[id] # NoMemory => Known(stored[id])'
    BY <1>1, <1>2, KnownMemories, KnownStays
  <2>2. \A id \in Ids : stored'[id] # NoMemory => Known(stored[id])
    BY <1>1, <1>2, KnownMemories
  <2>3. \A id \in Ids : files'[id] \in Memory => Allowed(files[id])
    BY <1>1 DEF AllKnown
  <2> QED
    BY <1>1, <2>2, <2>3, RecordStays DEF AllKnown, Known, Allowed, Recovered
<1>7. Matches'
  <2>1. ~(At("write") \/ At("unlink"))
    BY <1>1, HeadOfTodo DEF At, Idle
  <2>2. \A id \in Ids : Agree(id)
    BY <1>1, <2>1 DEF Matches
  <2> QED
    BY <1>1, <2>2, AgreeStays DEF Matches
<1>8. Held'
  BY DEF Held
<1> QED
  BY <1>3, <1>4, <1>5, <1>6, <1>7, <1>8 DEF MemoryInvariant

--------------------------------------------------------------------------------
(* Operations that only change the index, or only decide what is to be done.*)

\* A list of one step, and the empty one.
LEMMA SingleStep ==
  ASSUME NEW work \in Work,
         work.step \notin {"save", "built"} => work.memory # NoMemory,
         work.step \notin {"write", "approve", "unlink", "vector"},
         work.memory # NoMemory => Known(work.memory)
  PROVE  /\ <<work>> \in Seq(Work) /\ InOrder(<<work>>)
         /\ \A n \in 1..Len(<<work>>) :
              /\ <<work>>[n].step \notin {"write", "approve", "unlink", "vector"}
              /\ <<work>>[n].memory # NoMemory => Known(<<work>>[n].memory)
<1>1. /\ <<work>> \in Seq(Work) /\ Len(<<work>>) = 1 /\ <<work>>[1] = work
      /\ 1..Len(<<work>>) = {1}
  OBVIOUS
<1>2. InOrder(<<work>>)
  BY <1>1 DEF InOrder
<1> QED
  BY <1>1, <1>2

\* An operation that is over.
LEMMA NothingToDo ==
  /\ <<>> \in Seq(Work) /\ InOrder(<<>>) /\ Len(<<>>) = 0 /\ 1..Len(<<>>) = {}
  BY DEF InOrder

\* Nothing is being completed when the last step is another.
LEMMA NotBuilding ==
  ASSUME NEW t, todo' = t, t = <<>> \/ t[Len(t)].step # "built"
  PROVE  Completing'
  BY DEF Completing, Building, Idle

\* The steps that follow one that is neither written nor promoted.
LEMMA Following ==
  ASSUME MemoryTypeOK, InOrder(todo), ~Idle,
         todo[1].step \in {"index", "vector", "save", "built"}
  PROVE  \A n \in 2..Len(todo) :
           todo[n].step \notin {"write", "approve", "unlink", "vector", "save"}
<1> SUFFICES ASSUME NEW n \in 2..Len(todo)
             PROVE  todo[n].step
                      \notin {"write", "approve", "unlink", "vector", "save"}
  OBVIOUS
<1>1. n \in 1..Len(todo) /\ n # 1
  BY HeadOfTodo
<1>2. todo[n].step \notin {"write", "unlink", "save"}
  BY <1>1 DEF InOrder
<1>3. todo[n].step \in {"approve", "vector"} =>
        todo[1] = Do("write", todo[n].memory)
  BY <1>1 DEF InOrder
<1>4. \A m : Do("write", m).step = "write"
  BY DEF Do
<1> QED
  BY <1>2, <1>3, <1>4

\* The index file is written next.
LEMMA SaveNext ==
  ASSUME MemoryTypeOK, InOrder(todo), ~Idle, todo[1].step \in {"index", "vector"},
         \A memory : ~PromotionUnderWay(memory), AllKnown
  PROVE  \E t \in Seq(Work) :
           /\ t = <<Do("save", NoMemory)>> \o Tail(todo)
           /\ InOrder(t) /\ t # <<>> /\ Len(t) = Len(todo)
           /\ t[1] = Do("save", NoMemory) /\ Head(t) = t[1]
           /\ \A n \in 2..Len(t) : t[n] = todo[n]
           /\ \A n \in 1..Len(t) :
                /\ t[n].step \notin {"write", "approve", "unlink", "vector"}
                /\ t[n].memory # NoMemory => Known(t[n].memory)
<1>1. /\ todo \in Seq(Work) /\ todo # <<>> /\ Len(todo) \in Nat /\ Len(todo) >= 1
      /\ Do("save", NoMemory) \in Work
  BY HeadOfTodo DEF MemoryTypeOK, Idle, Do, Work, Step
<1>2. /\ Tail(todo) \in Seq(Work) /\ Len(Tail(todo)) = Len(todo) - 1
      /\ \A n \in 1..(Len(todo) - 1) : Tail(todo)[n] = todo[n + 1]
  BY <1>1, RestOfList
<1>3. PICK t \in Seq(Work) : t = <<Do("save", NoMemory)>> \o Tail(todo)
  BY <1>1, <1>2, OneBefore
<1>4. /\ Len(t) = Len(todo) /\ t[1] = Do("save", NoMemory)
      /\ \A n \in 2..Len(todo) : t[n] = Tail(todo)[n - 1]
  BY <1>1, <1>2, <1>3, OneBefore
<1>5. \A n \in 2..Len(todo) : t[n] = todo[n]
  <2> TAKE n \in 2..Len(todo)
  <2>1. n - 1 \in 1..(Len(todo) - 1) /\ (n - 1) + 1 = n
    BY <1>1
  <2> QED
    BY <1>2, <1>4, <2>1
<1>6. t # <<>> /\ Head(t) = t[1]
  <2>1. Len(t) >= 1
    BY <1>1, <1>4
  <2>2. t # <<>>
    BY <2>1, EmptySeq
  <2> QED
    BY <2>2, RestOfList
<1>7. \A n \in 1..Len(t) : n = 1 \/ (n \in 2..Len(todo) /\ n \in 1..Len(todo))
  BY <1>1, <1>4
<1>8. \A n \in 2..Len(todo) :
        /\ todo[n].step \notin {"write", "approve", "unlink", "vector", "save"}
        /\ todo[n].memory # NoMemory => Known(todo[n].memory)
  BY <1>1, Following, KnownMemories
<1>9. InOrder(t)
  <2> SUFFICES ASSUME NEW n \in 2..Len(todo), n \in 1..Len(todo)
               PROVE  /\ todo[n].step # "built" => todo[n].memory # NoMemory
                      /\ todo[n].step = "built" => n = Len(todo)
                      /\ todo[n].step \notin {"delete", "unlink"}
    BY <1>4, <1>5, <1>7, <1>8 DEF InOrder, Do
  <2> QED
    BY <1>1, <1>8 DEF InOrder
<1>10. \A n \in 1..Len(t) :
         /\ t[n].step \notin {"write", "approve", "unlink", "vector"}
         /\ t[n].memory # NoMemory => Known(t[n].memory)
  BY <1>4, <1>5, <1>7, <1>8 DEF Do
<1> QED
  BY <1>3, <1>4, <1>5, <1>6, <1>9, <1>10

\* MemoryIndex.index_memory once the memory has its vector.
LEMMA IndexVectorSafe ==
  ASSUME MemoryInvariant, IndexVector
  PROVE  MemoryInvariant'
<1>1. /\ MemoryTypeOK /\ InOrder(todo) /\ AllKnown /\ Held /\ Completing
      /\ ~Idle /\ todo[1].step \in {"index", "vector"}
      /\ todo[1].step = "index" => Subject.vector
  BY HeadOfTodo DEF MemoryInvariant, IndexVector, At
<1>2. \A memory : ~PromotionUnderWay(memory)
  BY <1>1, NoPromotion
<1>3. /\ vectors' = vectors \cup {Subject.id} /\ saved' = {}
      /\ todo' = <<Do("save", NoMemory)>> \o Tail(todo)
      /\ UNCHANGED <<record, stored, files, handle, crashes>>
  BY DEF IndexVector, AddVector
<1>4. PICK t \in Seq(Work) :
        /\ todo' = t /\ InOrder(t) /\ t # <<>> /\ Len(t) = Len(todo)
        /\ t[1] = Do("save", NoMemory) /\ Head(t) = t[1]
        /\ \A n \in 2..Len(t) : t[n] = todo[n]
        /\ \A n \in 1..Len(t) :
             /\ t[n].step \notin {"write", "approve", "unlink", "vector"}
             /\ t[n].memory # NoMemory => Known(t[n].memory)
  BY <1>1, <1>2, <1>3, SaveNext
<1>5. /\ Len(todo) \in Nat /\ Len(todo) >= 1 /\ Subject = todo[1].memory
      /\ Subject \in Memory
  BY <1>1, HeadOfTodo DEF InOrder, Work
<1>6. Completing'
  <2> SUFFICES ASSUME Building'
               PROVE  /\ At("save")'
                      /\ \A id \in Ids : stored[id] # NoMemory =>
                           (stored[id].vector /\ id \in vectors') \/ ToIndex(id)'
                      /\ \A n \in 1..Len(t) : t[n].step = "index" =>
                           /\ stored[t[n].memory.id] # NoMemory
                           /\ t[n].memory.vector => stored[t[n].memory.id].vector
    BY <1>3, <1>4 DEF Completing
  <2>1. At("save")'
    BY <1>4 DEF At, Idle, Do
  <2>2. t[Len(t)].step = "built" /\ Len(t) \in 1..Len(t)
    BY <1>4, <1>5 DEF Building
  <2>3. Len(t) # 1
    BY <1>4, <2>2 DEF Do
  <2>4. Building
    <3>1. Len(t) \in 2..Len(t)
      BY <1>4, <1>5, <2>3
    <3> QED
      BY <1>1, <1>4, <2>2, <3>1 DEF Building
  <2>5. /\ \A id \in Ids : stored[id] # NoMemory =>
             (stored[id].vector /\ id \in vectors) \/ ToIndex(id)
        /\ \A n \in 1..Len(todo) : todo[n].step = "index" =>
             /\ stored[todo[n].memory.id] # NoMemory
             /\ todo[n].memory.vector => stored[todo[n].memory.id].vector
    BY <1>1, <2>4 DEF Completing
  <2>6. stored[Subject.id] # NoMemory => stored[Subject.id].vector
    <3>1. 1 \in 1..Len(todo)
      BY <1>5
    <3>2. CASE todo[1].step = "index"
      BY <1>1, <1>5, <2>5, <3>1, <3>2
    <3>3. CASE todo[1].step = "vector"
      BY <1>1, <1>5, <3>1, <3>3 DEF Held
    <3> QED
      BY <1>1, <3>2, <3>3
  <2>7. ASSUME NEW id \in Ids, stored[id] # NoMemory,
               ~(stored[id].vector /\ id \in vectors')
        PROVE  ToIndex(id)'
    <3>1. id # Subject.id /\ ~(stored[id].vector /\ id \in vectors)
      BY <1>3, <2>6, <2>7
    <3>2. PICK n \in 1..Len(todo) : /\ todo[n].step \in {"index", "vector"}
                                    /\ todo[n].memory.id = id
      BY <2>5, <2>7, <3>1 DEF ToIndex
    <3>3. n # 1
      BY <1>5, <3>1, <3>2
    <3>4. n \in 2..Len(t) /\ n \in 1..Len(t)
      BY <1>4, <1>5, <3>3
    <3>5. t[n].step \in {"index", "vector"} /\ t[n].memory.id = id
      BY <1>4, <3>2, <3>4
    <3> QED
      BY <1>4, <3>4, <3>5 DEF ToIndex
  <2>8. ASSUME NEW n \in 1..Len(t), t[n].step = "index"
        PROVE  /\ stored[t[n].memory.id] # NoMemory
               /\ t[n].memory.vector => stored[t[n].memory.id].vector
    <3>1. n # 1
      BY <1>4, <2>8 DEF Do
    <3>2. n \in 2..Len(t) /\ n \in 1..Len(todo)
      BY <1>4, <1>5, <3>1
    <3> QED
      BY <1>4, <2>5, <2>8, <3>2
  <2> QED
    BY <2>1, <2>7, <2>8
<1>7. vectors' \subseteq Ids /\ saved' \subseteq Ids
  BY <1>1, <1>3, <1>5 DEF MemoryTypeOK, Memory
<1>8. handle \in Memory \cup {NoMemory} /\ (handle # NoMemory => Known(handle))
  BY <1>1 DEF MemoryTypeOK, AllKnown
<1> QED
  BY <1>1, <1>3, <1>4, <1>6, <1>7, <1>8, Undisturbed

\* What follows a step that leaves the store and its files alone.
LEMMA RestIsKnown ==
  ASSUME MemoryTypeOK, InOrder(todo), AllKnown, ~Idle,
         todo[1].step \in {"index", "vector", "save", "built"}
  PROVE  \E t \in Seq(Work) :
           /\ t = Tail(todo) /\ InOrder(t) /\ Len(t) = Len(todo) - 1
           /\ \A n \in 1..Len(t) :
                /\ n + 1 \in 2..Len(todo) /\ n + 1 \in 1..Len(todo)
                /\ t[n] = todo[n + 1]
                /\ t[n].step \notin {"write", "approve", "unlink", "vector"}
                /\ t[n].memory # NoMemory => Known(t[n].memory)
<1>1. /\ todo \in Seq(Work) /\ todo # <<>> /\ Len(todo) \in Nat
      /\ \A memory : ~PromotionUnderWay(memory)
  BY HeadOfTodo, NoPromotion DEF MemoryTypeOK, Idle
<1>2. PICK t \in Seq(Work) : t = Tail(todo)
  BY <1>1, RestOfList
<1>3. /\ InOrder(t) /\ Len(t) = Len(todo) - 1
      /\ \A n \in 1..Len(t) : n + 1 \in 2..Len(todo) /\ t[n] = todo[n + 1]
  BY <1>1, <1>2, RestInOrder, RestOfList
<1>4. \A n \in 2..Len(todo) :
        /\ n \in 1..Len(todo)
        /\ todo[n].step \notin {"write", "approve", "unlink", "vector"}
        /\ todo[n].memory # NoMemory => Known(todo[n].memory)
  BY <1>1, Following, KnownMemories
<1>5. \A n \in 1..Len(t) :
        /\ n + 1 \in 2..Len(todo) /\ n + 1 \in 1..Len(todo)
        /\ t[n] = todo[n + 1]
        /\ t[n].step \notin {"write", "approve", "unlink", "vector"}
        /\ t[n].memory # NoMemory => Known(t[n].memory)
  BY <1>3, <1>4
<1> QED
  BY <1>2, <1>3, <1>5

\* What a caller holds is known.
LEMMA HandleKnown ==
  ASSUME MemoryTypeOK, AllKnown
  PROVE  handle \in Memory \cup {NoMemory} /\ (handle # NoMemory => Known(handle))
  BY DEF MemoryTypeOK, AllKnown

\* MemoryIndex._save_index at its end.
LEMMA SaveIndexSafe ==
  ASSUME MemoryInvariant, SaveIndex
  PROVE  MemoryInvariant'
<1>1. /\ MemoryTypeOK /\ InOrder(todo) /\ AllKnown /\ Completing
      /\ ~Idle /\ todo[1].step = "save"
      /\ Len(todo) \in Nat /\ Len(todo) >= 1
  BY HeadOfTodo DEF MemoryInvariant, SaveIndex, At
<1>2. /\ saved' = vectors /\ todo' = Tail(todo)
      /\ UNCHANGED <<record, stored, files, vectors, handle, crashes>>
  BY DEF SaveIndex
<1>3. PICK t \in Seq(Work) :
        /\ todo' = t /\ InOrder(t) /\ Len(t) = Len(todo) - 1
        /\ \A n \in 1..Len(t) :
             /\ n + 1 \in 2..Len(todo) /\ n + 1 \in 1..Len(todo)
             /\ t[n] = todo[n + 1]
             /\ t[n].step \notin {"write", "approve", "unlink", "vector"}
             /\ t[n].memory # NoMemory => Known(t[n].memory)
  BY <1>1, <1>2, RestIsKnown
<1>4. Completing'
  <2> SUFFICES ASSUME Building'
               PROVE  /\ \A id \in Ids : stored[id] # NoMemory =>
                           (stored[id].vector /\ id \in vectors) \/ ToIndex(id)'
                      /\ \A n \in 1..Len(t) : t[n].step = "index" =>
                           /\ stored[t[n].memory.id] # NoMemory
                           /\ t[n].memory.vector => stored[t[n].memory.id].vector
    BY <1>2, <1>3 DEF Completing
  <2>1. t # <<>> /\ t[Len(t)].step = "built"
    BY <1>3 DEF Building, Idle
  <2>2. Len(t) \in 1..Len(t)
    BY <2>1, EmptySeq, LenProperties
  <2>3. Building
    BY <1>1, <1>3, <2>1, <2>2 DEF Building
  <2>4. /\ \A id \in Ids : stored[id] # NoMemory =>
             (stored[id].vector /\ id \in vectors) \/ ToIndex(id)
        /\ \A n \in 1..Len(todo) : todo[n].step = "index" =>
             /\ stored[todo[n].memory.id] # NoMemory
             /\ todo[n].memory.vector => stored[todo[n].memory.id].vector
    BY <1>1, <2>3 DEF Completing
  <2>5. ASSUME NEW id \in Ids, ToIndex(id)
        PROVE  ToIndex(id)'
    <3>1. PICK n \in 1..Len(todo) : /\ todo[n].step \in {"index", "vector"}
                                    /\ todo[n].memory.id = id
      BY <2>5 DEF ToIndex
    <3>2. n - 1 \in 1..Len(t) /\ (n - 1) + 1 = n
      BY <1>1, <1>3, <3>1
    <3>3. t[n - 1] = todo[n]
      BY <1>3, <3>2
    <3> QED
      BY <1>3, <3>1, <3>2, <3>3 DEF ToIndex
  <2>6. \A n \in 1..Len(t) : t[n].step = "index" =>
          /\ stored[t[n].memory.id] # NoMemory
          /\ t[n].memory.vector => stored[t[n].memory.id].vector
    BY <1>3, <2>4
  <2> QED
    BY <2>4, <2>5, <2>6
<1>5. vectors' \subseteq Ids /\ saved' \subseteq Ids
  BY <1>1, <1>2 DEF MemoryTypeOK
<1> QED
  BY <1>1, <1>2, <1>3, <1>4, <1>5, HandleKnown, Undisturbed

\* MemoryIndex.build_index_from_store returns.
LEMMA IndexBuiltSafe ==
  ASSUME MemoryInvariant, IndexBuilt
  PROVE  MemoryInvariant'
<1>1. /\ MemoryTypeOK /\ InOrder(todo) /\ AllKnown
      /\ ~Idle /\ todo[1].step = "built"
      /\ Len(todo) \in Nat /\ Len(todo) >= 1
  BY HeadOfTodo DEF MemoryInvariant, IndexBuilt, At
<1>2. /\ todo' = Tail(todo)
      /\ UNCHANGED <<record, stored, files, vectors, saved, handle, crashes>>
  BY DEF IndexBuilt
<1>3. PICK t \in Seq(Work) :
        /\ todo' = t /\ InOrder(t) /\ Len(t) = Len(todo) - 1
        /\ \A n \in 1..Len(t) :
             /\ t[n].step \notin {"write", "approve", "unlink", "vector"}
             /\ t[n].memory # NoMemory => Known(t[n].memory)
  BY <1>1, <1>2, RestIsKnown
<1>4. t = <<>>
  <2>1. 1 \in 1..Len(todo)
    BY <1>1
  <2>2. Len(t) = 0
    BY <1>1, <1>3, <2>1 DEF InOrder
  <2> QED
    BY <2>2, EmptySeq
<1>5. Completing'
  BY <1>3, <1>4, NotBuilding
<1>6. vectors' \subseteq Ids /\ saved' \subseteq Ids
  BY <1>1, <1>2 DEF MemoryTypeOK
<1> QED
  BY <1>1, <1>2, <1>3, <1>5, <1>6, HandleKnown, Undisturbed

\* MemoryIndex.index_memory on a memory that json cannot write.
LEMMA IndexMemoryRaisesSafe ==
  ASSUME MemoryInvariant, IndexMemoryRaises
  PROVE  MemoryInvariant'
<1>1. /\ MemoryTypeOK /\ AllKnown /\ ~Idle /\ todo[1].step = "index"
  BY HeadOfTodo DEF MemoryInvariant, IndexMemoryRaises, At
<1>2. /\ todo' = <<>>
      /\ UNCHANGED <<record, stored, files, vectors, saved, handle, crashes>>
  BY DEF IndexMemoryRaises, Raise
<1>3. Completing'
  BY <1>2, NotBuilding
<1>4. vectors' \subseteq Ids /\ saved' \subseteq Ids
  BY <1>1, <1>2 DEF MemoryTypeOK
<1> QED
  BY <1>1, <1>2, <1>3, <1>4, HandleKnown, NothingToDo, Undisturbed

\* MemoryIndex.delete_from_index.
LEMMA DeleteFromIndexSafe ==
  ASSUME MemoryInvariant, NEW id \in Ids, DeleteFromIndex(id)
  PROVE  MemoryInvariant'
<1>1. MemoryTypeOK /\ AllKnown /\ Idle
  BY DEF MemoryInvariant, DeleteFromIndex
<1>2. /\ vectors' = vectors \ {id} /\ saved' = {}
      /\ todo' = <<Do("save", NoMemory)>>
      /\ UNCHANGED <<record, stored, files, handle, crashes>>
  BY DEF DeleteFromIndex
<1>3. PICK work \in Work : work = Do("save", NoMemory)
  BY DEF Work, Step, Do
<1>4. work.step = "save" /\ work.memory = NoMemory
  BY <1>3 DEF Do
<1>5. /\ <<work>> \in Seq(Work) /\ InOrder(<<work>>)
      /\ \A n \in 1..Len(<<work>>) :
           /\ <<work>>[n].step \notin {"write", "approve", "unlink", "vector"}
           /\ <<work>>[n].memory # NoMemory => Known(<<work>>[n].memory)
  BY <1>4, SingleStep
<1>6. Completing'
  <2>1. <<work>>[Len(<<work>>)].step # "built"
    BY <1>4
  <2> QED
    BY <1>2, <1>3, <2>1, NotBuilding
<1>7. vectors' \subseteq Ids /\ saved' \subseteq Ids
  BY <1>1, <1>2 DEF MemoryTypeOK
<1> QED
  BY <1>1, <1>2, <1>3, <1>5, <1>6, <1>7, HandleKnown, Undisturbed

\* MemoryIndex.index_memory begins, with an object of the caller.
LEMMA IndexHandleSafe ==
  ASSUME MemoryInvariant, IndexHandle
  PROVE  MemoryInvariant'
<1>1. MemoryTypeOK /\ AllKnown /\ Idle /\ handle # NoMemory
  BY DEF MemoryInvariant, IndexHandle
<1>2. /\ todo' = <<Do("index", handle)>>
      /\ UNCHANGED <<record, stored, files, vectors, saved, handle, crashes>>
  BY DEF IndexHandle
<1>3. PICK work \in Work : work = Do("index", handle)
  BY <1>1, HandleKnown DEF Work, Step, Do
<1>4. work.step = "index" /\ work.memory = handle
  BY <1>3 DEF Do
<1>5. /\ <<work>> \in Seq(Work) /\ InOrder(<<work>>)
      /\ \A n \in 1..Len(<<work>>) :
           /\ <<work>>[n].step \notin {"write", "approve", "unlink", "vector"}
           /\ <<work>>[n].memory # NoMemory => Known(<<work>>[n].memory)
  BY <1>1, <1>4, HandleKnown, SingleStep
<1>6. Completing'
  <2>1. <<work>>[Len(<<work>>)].step # "built"
    BY <1>4
  <2> QED
    BY <1>2, <1>3, <2>1, NotBuilding
<1>7. vectors' \subseteq Ids /\ saved' \subseteq Ids
  BY <1>1, <1>2 DEF MemoryTypeOK
<1> QED
  BY <1>1, <1>2, <1>3, <1>5, <1>6, <1>7, HandleKnown, Undisturbed

\* MemoryStore.get_memory.
LEMMA GetMemorySafe ==
  ASSUME MemoryInvariant, NEW id \in Ids, GetMemory(id)
  PROVE  MemoryInvariant'
<1>1. /\ MemoryTypeOK /\ AllKnown /\ InOrder(todo) /\ Idle
      /\ stored[id] # NoMemory
  BY DEF MemoryInvariant, GetMemory
<1>2. /\ handle' = stored[id] /\ todo' = <<>>
      /\ UNCHANGED <<record, stored, files, vectors, saved, crashes>>
  BY <1>1 DEF GetMemory, Idle
<1>3. stored[id] \in Memory \cup {NoMemory} /\ Known(stored[id])
  BY <1>1, NoPromotion, KnownMemories DEF MemoryTypeOK
<1>4. Completing'
  BY <1>2, NotBuilding
<1>5. vectors' \subseteq Ids /\ saved' \subseteq Ids
  BY <1>1, <1>2 DEF MemoryTypeOK
<1> QED
  BY <1>1, <1>2, <1>3, <1>4, <1>5, NothingToDo, Undisturbed

--------------------------------------------------------------------------------
(* Lists made of the memories in the store.                                *)

\* The store holds finitely many memories.
LEMMA StoredFinite ==
  ASSUME MemoryTypeOK
  PROVE  IsFiniteSet(Stored) /\ Stored \subseteq Memory
<1>1. stored \in [Ids -> Memory \cup {NoMemory}]
  BY DEF MemoryTypeOK
<1>2. IsFiniteSet(Ids)
  BY MemoryAssumption, FS_Interval DEF Ids
<1> DEFINE Kept == {id \in Ids : stored[id] # NoMemory}
           kept == [id \in Kept |-> stored[id]]
<1>3. IsFiniteSet(Kept)
  BY <1>2, FS_Subset
<1>4. kept \in Surjection(Kept, Stored)
  <2>1. kept \in [Kept -> Stored]
    BY DEF Stored
  <2>2. \A memory \in Stored : \E id \in Kept : kept[id] = memory
    BY DEF Stored
  <2> QED
    BY <2>1, <2>2 DEF Surjection
<1>5. IsFiniteSet(Stored)
  <2> HIDE DEF Kept, kept
  <2> QED
    BY <1>3, <1>4, FS_Surjection
<1>6. Stored \subseteq Memory
  BY <1>1 DEF Stored
<1> QED
  BY <1>5, <1>6

\* What the store holds is known, under its id, when nothing is promoted.
LEMMA StoredKnown ==
  ASSUME MemoryInvariant, Idle
  PROVE  \A memory \in Stored :
           /\ memory \in Memory /\ memory # NoMemory /\ Known(memory)
           /\ memory.id \in Ids /\ stored[memory.id] = memory
<1>1. MemoryTypeOK /\ AllKnown /\ InOrder(todo)
  BY DEF MemoryInvariant
<1> TAKE memory \in Stored
<1>2. PICK id \in Ids : stored[id] = memory /\ memory # NoMemory
  BY DEF Stored
<1>3. memory \in Memory /\ memory.id = id
  BY <1>1, <1>2 DEF MemoryTypeOK
<1>4. Known(memory)
  BY <1>1, <1>2, NoPromotion, KnownMemories
<1> QED
  BY <1>2, <1>3, <1>4

\* A list of one step with each of some memories of the store.
ListOf(list, step, memories) ==
  /\ InOrder(list)
  /\ \A n \in 1..Len(list) :
       /\ list[n].step = step /\ list[n].memory \in memories
       /\ list[n].memory # NoMemory /\ Known(list[n].memory)
       /\ stored[list[n].memory.id] = list[n].memory
  /\ \A memory \in memories : \E n \in 1..Len(list) : list[n].memory = memory

\* A list of steps with stored memories can be worked off.
LEMMA StoredInOrder ==
  ASSUME MemoryInvariant, Idle, NEW memories \in SUBSET Stored,
         NEW order \in Orders(memories), NEW step \in {"index", "delete"}
  PROVE  \E list \in Seq(Work) :
           list = DoInOrder(step, order) /\ ListOf(list, step, memories)
<1>1. MemoryTypeOK
  BY DEF MemoryInvariant
<1>2. PICK many \in Nat : many = Cardinality(memories)
  BY <1>1, StoredFinite, FS_Subset, FS_CardinalityType
<1>3. /\ order \in [1..many -> memories] /\ DOMAIN order = 1..many
      /\ \A memory \in memories : \E n \in 1..many : order[n] = memory
  <2>1. /\ order \in [1..Cardinality(memories) -> memories]
        /\ \A memory \in memories : \E n \in DOMAIN order : order[n] = memory
    BY DEF Orders
  <2>2. order \in [1..many -> memories]
    BY <1>2, <2>1
  <2> QED
    BY <2>1, <2>2
<1>4. PICK list : list = DoInOrder(step, order)
  OBVIOUS
<1>5. list = [n \in 1..many |-> Do(step, order[n])]
  BY <1>3, <1>4 DEF DoInOrder
<1>6. \A memory \in memories : Do(step, memory) \in Work
  BY <1>1, StoredFinite DEF Work, Step, Do
<1>7. list \in Seq(Work) /\ Len(list) = many
  BY <1>3, <1>5, <1>6
<1>8. \A n \in 1..Len(list) :
        /\ list[n].step = step /\ list[n].memory \in memories
        /\ list[n].memory = order[n]
  BY <1>3, <1>5, <1>7 DEF Do
<1>9. \A n \in 1..Len(list) :
        /\ list[n].memory # NoMemory /\ Known(list[n].memory)
        /\ stored[list[n].memory.id] = list[n].memory
  BY <1>8, StoredKnown
<1>10. InOrder(list)
  BY <1>8, <1>9 DEF InOrder
<1> QED
  BY <1>3, <1>4, <1>7, <1>8, <1>9, <1>10 DEF ListOf

\* MemoryStore.delete_memory begins.
LEMMA DeleteSafe ==
  ASSUME MemoryInvariant, NEW memory \in Stored, Delete(memory)
  PROVE  MemoryInvariant'
<1>1. MemoryTypeOK /\ AllKnown /\ Idle
  BY DEF MemoryInvariant, Delete
<1>2. /\ todo' = <<Do("delete", memory)>>
      /\ UNCHANGED <<record, stored, files, vectors, saved, handle, crashes>>
  BY DEF Delete
<1>3. memory \in Memory /\ memory # NoMemory /\ Known(memory)
  BY <1>1, StoredKnown
<1>4. PICK work \in Work : work = Do("delete", memory)
  BY <1>3 DEF Work, Step, Do
<1>5. work.step = "delete" /\ work.memory = memory
  BY <1>4 DEF Do
<1>6. /\ <<work>> \in Seq(Work) /\ InOrder(<<work>>)
      /\ \A n \in 1..Len(<<work>>) :
           /\ <<work>>[n].step \notin {"write", "approve", "unlink", "vector"}
           /\ <<work>>[n].memory # NoMemory => Known(<<work>>[n].memory)
  BY <1>3, <1>5, SingleStep
<1>7. Completing'
  <2>1. <<work>>[Len(<<work>>)].step # "built"
    BY <1>5
  <2> QED
    BY <1>2, <1>4, <2>1, NotBuilding
<1>8. vectors' \subseteq Ids /\ saved' \subseteq Ids
  BY <1>1, <1>2 DEF MemoryTypeOK
<1> QED
  BY <1>1, <1>2, <1>4, <1>6, <1>7, <1>8, HandleKnown, Undisturbed

\* MemoryStore.cleanup_old_memories begins.
LEMMA CleanupOldMemoriesSafe ==
  ASSUME MemoryInvariant, NEW before, CleanupOldMemories(before)
  PROVE  MemoryInvariant'
<1>1. MemoryTypeOK /\ AllKnown /\ Idle
  BY DEF MemoryInvariant, CleanupOldMemories
<1>2. PICK old \in SUBSET Stored :
        \E order \in Orders(old) : todo' = DoInOrder("delete", order)
  BY DEF CleanupOldMemories
<1>3. UNCHANGED <<record, stored, files, vectors, saved, handle, crashes>>
  BY DEF CleanupOldMemories
<1>4. PICK order \in Orders(old) : todo' = DoInOrder("delete", order)
  BY <1>2
<1>5. PICK list \in Seq(Work) :
        /\ todo' = list /\ InOrder(list)
        /\ \A n \in 1..Len(list) : /\ list[n].step = "delete"
                                   /\ Known(list[n].memory)
  BY <1>1, <1>4, StoredInOrder DEF ListOf
<1>6. Completing'
  <2>1. list = <<>> \/ Len(list) \in 1..Len(list)
    BY EmptySeq, LenProperties
  <2> QED
    BY <1>5, <2>1, NotBuilding
<1>7. vectors' \subseteq Ids /\ saved' \subseteq Ids
  BY <1>1, <1>3 DEF MemoryTypeOK
<1> QED
  BY <1>1, <1>3, <1>5, <1>6, <1>7, HandleKnown, Undisturbed

\* The list is followed by the end of the operation.
LEMMA OneAfter ==
  ASSUME NEW S, NEW list \in Seq(S), NEW last \in S
  PROVE  /\ list \o <<last>> \in Seq(S)
         /\ Len(list \o <<last>>) = Len(list) + 1
         /\ (list \o <<last>>)[Len(list) + 1] = last
         /\ \A n \in 1..Len(list) : (list \o <<last>>)[n] = list[n]
<1>1. <<last>> \in Seq(S) /\ Len(<<last>>) = 1 /\ <<last>>[1] = last
  OBVIOUS
<1>2. Len(list) \in Nat
  OBVIOUS
<1>3. /\ list \o <<last>> \in Seq(S)
      /\ Len(list \o <<last>>) = Len(list) + 1
      /\ \A n \in 1..(Len(list) + 1) :
           (list \o <<last>>)[n] =
             IF n <= Len(list) THEN list[n] ELSE <<last>>[n - Len(list)]
  BY <1>1, ConcatProperties
<1>4. (list \o <<last>>)[Len(list) + 1] = last
  <2>1. /\ Len(list) + 1 \in 1..(Len(list) + 1) /\ ~(Len(list) + 1 <= Len(list))
        /\ (Len(list) + 1) - Len(list) = 1
    BY <1>2
  <2> QED
    BY <1>1, <1>3, <2>1
<1>5. \A n \in 1..Len(list) : (list \o <<last>>)[n] = list[n]
  BY <1>2, <1>3
<1> QED
  BY <1>3, <1>4, <1>5

\* MemoryIndex.build_index_from_store begins.
LEMMA BuildIndexFromStoreSafe ==
  ASSUME MemoryInvariant, BuildIndexFromStore
  PROVE  MemoryInvariant'
<1>1. MemoryTypeOK /\ AllKnown /\ Idle
  BY DEF MemoryInvariant, BuildIndexFromStore, BuildIndex
<1>2. PICK missing \in SUBSET Stored :
        /\ missing = {m \in Stored : m.id \notin saved \/ ~m.vector}
        /\ BuildIndex(missing)
  BY DEF BuildIndexFromStore
<1>3. /\ vectors' = saved
      /\ UNCHANGED <<record, stored, files, saved, handle, crashes>>
  BY <1>2 DEF BuildIndex
<1>4. PICK order \in Orders(missing) :
        todo' = DoInOrder("index", order) \o <<Do("built", NoMemory)>>
  BY <1>2 DEF BuildIndex
<1>5. PICK list \in Seq(Work) :
        list = DoInOrder("index", order) /\ ListOf(list, "index", missing)
  BY <1>1, StoredInOrder
<1>6. PICK built \in Work : built = Do("built", NoMemory)
  BY DEF Work, Step, Do
<1>7. built.step = "built" /\ built.memory = NoMemory
  BY <1>6 DEF Do
<1>8. PICK t \in Seq(Work) : t = list \o <<built>>
  BY OneAfter
<1>9. /\ todo' = t /\ Len(list) \in Nat /\ Len(t) = Len(list) + 1
      /\ t[Len(t)] = built /\ \A n \in 1..Len(list) : t[n] = list[n]
  BY <1>4, <1>5, <1>6, <1>8, OneAfter, LenProperties
<1>10. \A n \in 1..Len(t) : n \in 1..Len(list) \/ (n = Len(t) /\ t[n] = built)
  BY <1>9
<1>11. \A n \in 1..Len(t) :
         /\ t[n].step \in {"index", "built"}
         /\ t[n].step = "built" => n = Len(t)
         /\ t[n].step = "index" => t[n].memory # NoMemory
         /\ t[n].memory # NoMemory => Known(t[n].memory)
         /\ t[n].step = "index" => n \in 1..Len(list)
  BY <1>5, <1>7, <1>9, <1>10 DEF ListOf
<1>12. InOrder(t)
  BY <1>11 DEF InOrder
<1>13. Completing'
  <2>1. ASSUME NEW id \in Ids, stored[id] # NoMemory,
               ~(stored[id].vector /\ id \in vectors')
        PROVE  ToIndex(id)'
    <3>1. stored[id] \in missing /\ stored[id].id = id
      BY <1>1, <1>2, <1>3, <2>1 DEF Stored, MemoryTypeOK
    <3>2. PICK n \in 1..Len(list) : list[n].memory = stored[id]
      BY <1>5, <3>1 DEF ListOf
    <3>3. n \in 1..Len(t) /\ t[n] = list[n]
      BY <1>9, <3>2
    <3>4. t[n].step = "index" /\ t[n].memory.id = id
      BY <1>5, <3>1, <3>2, <3>3 DEF ListOf
    <3> QED
      BY <1>9, <3>3, <3>4 DEF ToIndex
  <2>2. ASSUME NEW n \in 1..Len(t), t[n].step = "index"
        PROVE  /\ stored[t[n].memory.id] # NoMemory
               /\ t[n].memory.vector => stored[t[n].memory.id].vector
    <3>1. n \in 1..Len(list) /\ t[n] = list[n]
      BY <1>9, <1>11, <2>2
    <3>2. stored[t[n].memory.id] = t[n].memory /\ t[n].memory # NoMemory
      BY <1>5, <3>1 DEF ListOf
    <3> QED
      BY <3>2
  <2> QED
    BY <1>3, <1>9, <2>1, <2>2 DEF Completing
<1>14. vectors' \subseteq Ids /\ saved' \subseteq Ids
  BY <1>1, <1>3 DEF MemoryTypeOK
<1>15. \A n \in 1..Len(t) :
         /\ t[n].step \notin {"write", "approve", "unlink", "vector"}
         /\ t[n].memory # NoMemory => Known(t[n].memory)
  BY <1>11
<1> QED
  BY <1>1, <1>3, <1>9, <1>12, <1>13, <1>14, <1>15, HandleKnown, Undisturbed

--------------------------------------------------------------------------------
(* Operations on the store and its files.                                  *)

\* All memories at hand are known after a step.
LEMMA AllKnownNext ==
  ASSUME NEW s, NEW f, NEW h, NEW t,
         stored' = s, files' = f, handle' = h, todo' = t,
         \A id \in Ids : s[id] # NoMemory =>
           Known(s[id])' \/ (Allowed(s[id])' /\ PromotionUnderWay(s[id])'),
         \A id \in Ids : f[id] \in Memory => Allowed(f[id])',
         h # NoMemory => Known(h)',
         \A n \in 1..Len(t) : t[n].memory # NoMemory =>
           \/ Known(t[n].memory)'
           \/ Allowed(t[n].memory)' /\ PromotionUnderWay(t[n].memory)'
  PROVE  AllKnown'
  BY DEF AllKnown

\* A step that changes one memory of the store, or its file.
LEMMA MatchesNext ==
  ASSUME MemoryTypeOK, NEW one \in Ids,
         \A id \in Ids : id # one =>
           Agree(id) /\ stored'[id] = stored[id] /\ files'[id] = files[id],
         Agree(one)' \/ ((At("write") \/ At("unlink")) /\ Subject.id = one)'
  PROVE  Matches'
<1>1. ASSUME NEW id \in Ids, id # one
      PROVE  Agree(id)'
  BY <1>1, AgreeStays
<1> QED
  BY <1>1 DEF Matches

\* The file of a memory is written, or json raises.
LEMMA WriteSafe ==
  ASSUME MemoryInvariant, Write
  PROVE  MemoryInvariant'
<1>1. /\ MemoryTypeOK /\ Numbered /\ InOrder(todo) /\ AllKnown /\ Matches
      /\ Held /\ Completing
      /\ ~Idle /\ todo \in Seq(Work) /\ todo # <<>>
      /\ todo[1].step = "write" /\ Subject = todo[1].memory
      /\ Len(todo) \in Nat /\ 1 \in 1..Len(todo)
  BY HeadOfTodo DEF MemoryInvariant, Write, At, Idle, MemoryTypeOK
<1>2. /\ Subject \in Memory /\ stored[Subject.id] = Subject
      /\ files[Subject.id] = Torn /\ Subject.id \in Ids
      /\ Subject # NoMemory /\ Subject # Torn /\ Allowed(Subject)
  <2>1. Subject # NoMemory /\ Subject \in Memory
    BY <1>1, HeadOfTodo DEF InOrder, Work
  <2>2. Allowed(Subject)
    BY <1>1, <2>1 DEF AllKnown, Known
  <2> QED
    BY <1>1, <2>1, <2>2, MemoryAssumption DEF Held, Memory
<1>3. UNCHANGED <<record, stored, vectors, saved, handle, crashes>>
  BY DEF Write
<1>4. \A id \in Ids : id # Subject.id => Agree(id)
  BY <1>1 DEF Matches
<1>5. CASE Subject.plain
  <2>1. /\ files' = [files EXCEPT ![Subject.id] = Subject]
        /\ todo' = Tail(todo)
    BY <1>5 DEF Write
  <2>2. PICK t \in Seq(Work) :
          /\ todo' = t /\ InOrder(t) /\ Len(t) = Len(todo) - 1
          /\ \A n \in 1..Len(t) :
               /\ n + 1 \in 2..Len(todo) /\ t[n] = todo[n + 1]
               /\ t[n].step \notin {"write", "unlink", "save"}
    BY <1>1, <2>1, RestInOrder, RestOfList
  <2>3. \A n \in 1..Len(t) : n + 1 \in 1..Len(todo)
    BY <2>2
  <2>4. ASSUME NEW memory, PromotionUnderWay(memory)
        PROVE  PromotionUnderWay(memory)'
    <3>1. todo[Len(todo)] = Do("approve", memory)
      BY <2>4 DEF PromotionUnderWay
    <3>2. Len(todo) # 1
      BY <1>1, <3>1 DEF Do
    <3>3. Len(t) \in 1..Len(t) /\ Len(t) + 1 = Len(todo)
      BY <1>1, <2>2, <3>2
    <3>4. t[Len(t)] = Do("approve", memory) /\ t # <<>>
      BY <2>2, <3>1, <3>3, EmptySeq
    <3> QED
      BY <2>2, <3>4 DEF PromotionUnderWay, Idle
  <2>5. MemoryTypeOK'
    BY <1>1, <1>2, <1>3, <2>1, <2>2 DEF MemoryTypeOK
  <2>6. Numbered' /\ InOrder(todo)'
    BY <1>1, <1>3, <2>2, RecordStays DEF InOrder
  <2>7. AllKnown'
    <3> PICK s : s = stored
      OBVIOUS
    <3> PICK f : f = files'
      OBVIOUS
    <3> PICK h : h = handle
      OBVIOUS
    <3>1. \A id \in Ids : s[id] # NoMemory =>
            Known(s[id])' \/ (Allowed(s[id])' /\ PromotionUnderWay(s[id])')
      <4> TAKE id \in Ids
      <4>1. PICK memory : memory = s[id]
        OBVIOUS
      <4>2. memory # NoMemory =>
              Known(memory) \/ (Allowed(memory) /\ PromotionUnderWay(memory))
        BY <1>1, <4>1 DEF AllKnown
      <4> QED
        BY <1>3, <2>4, <4>1, <4>2, KnownStays
    <3>2. \A id \in Ids : f[id] \in Memory => Allowed(f[id])'
      <4> TAKE id \in Ids
      <4>1. PICK memory : memory = f[id]
        OBVIOUS
      <4>2. memory \in Memory => Allowed(memory)
        BY <1>1, <1>2, <2>1, <4>1 DEF AllKnown, MemoryTypeOK
      <4> QED
        BY <1>3, <4>1, <4>2, KnownStays
    <3>3. h # NoMemory => Known(h)'
      BY <1>1, <1>3, KnownStays DEF AllKnown
    <3>4. \A n \in 1..Len(t) : t[n].memory # NoMemory =>
            \/ Known(t[n].memory)'
            \/ Allowed(t[n].memory)' /\ PromotionUnderWay(t[n].memory)'
      <4> TAKE n \in 1..Len(t)
      <4>1. PICK memory : memory = t[n].memory
        OBVIOUS
      <4>2. memory # NoMemory =>
              Known(memory) \/ (Allowed(memory) /\ PromotionUnderWay(memory))
        BY <1>1, <2>2, <2>3, <4>1 DEF AllKnown
      <4> QED
        BY <1>3, <2>4, <4>1, <4>2, KnownStays
    <3> QED
      BY <1>3, <2>2, <3>1, <3>2, <3>3, <3>4, AllKnownNext
  <2>8. Matches'
    <3>1. PICK subject \in Memory : subject = Subject
      BY <1>2
    <3>2. /\ stored' = stored /\ files' = [files EXCEPT ![subject.id] = subject]
          /\ subject.id \in Ids /\ subject # Torn
      BY <1>2, <1>3, <2>1, <3>1
    <3>3. \A id \in Ids : id # subject.id =>
            Agree(id) /\ stored'[id] = stored[id] /\ files'[id] = files[id]
      BY <1>1, <1>4, <3>1, <3>2 DEF MemoryTypeOK
    <3>4. stored'[subject.id] = subject /\ files'[subject.id] = subject
      BY <1>1, <1>2, <3>1, <3>2 DEF MemoryTypeOK
    <3>5. Agree(subject.id)'
      BY <3>2, <3>4 DEF Agree, Loaded
    <3> QED
      BY <1>1, <3>2, <3>3, <3>5, MatchesNext
  <2>9. Held'
    <3> SUFFICES ASSUME NEW n \in 1..Len(t)
                 PROVE  t[n].step = "vector" =>
                          /\ stored[t[n].memory.id] = t[n].memory
                          /\ t[n].memory.vector
      BY <1>3, <2>2 DEF Held
    <3> QED
      BY <1>1, <2>2, <2>3 DEF Held
  <2>10. Completing'
    <3> SUFFICES ASSUME Building'
                 PROVE  /\ saved = vectors
                        /\ \A id \in Ids : stored[id] # NoMemory =>
                             (stored[id].vector /\ id \in vectors) \/ ToIndex(id)'
                        /\ \A n \in 1..Len(t) : t[n].step = "index" =>
                             /\ stored[t[n].memory.id] # NoMemory
                             /\ t[n].memory.vector =>
                                  stored[t[n].memory.id].vector
      BY <1>3, <2>2 DEF Completing
    <3>1. t # <<>> /\ t[Len(t)].step = "built"
      BY <2>2 DEF Building, Idle
    <3>2. Len(t) \in 1..Len(t) /\ Len(t) + 1 = Len(todo)
      BY <1>1, <2>2, <3>1, EmptySeq, LenProperties
    <3>3. Building
      BY <1>1, <2>2, <3>1, <3>2 DEF Building
    <3>4. ~At("save")
      BY <1>1, HeadOfTodo DEF At
    <3>5. /\ saved = vectors
          /\ \A id \in Ids : stored[id] # NoMemory =>
               (stored[id].vector /\ id \in vectors) \/ ToIndex(id)
          /\ \A n \in 1..Len(todo) : todo[n].step = "index" =>
               /\ stored[todo[n].memory.id] # NoMemory
               /\ todo[n].memory.vector => stored[todo[n].memory.id].vector
      BY <1>1, <3>3, <3>4 DEF Completing
    <3>6. ASSUME NEW id \in Ids, ToIndex(id)
          PROVE  ToIndex(id)'
      <4>1. PICK n \in 1..Len(todo) : /\ todo[n].step \in {"index", "vector"}
                                      /\ todo[n].memory.id = id
        BY <3>6 DEF ToIndex
      <4>2. n # 1
        BY <1>1, <4>1
      <4>3. n - 1 \in 1..Len(t) /\ (n - 1) + 1 = n
        BY <1>1, <2>2, <4>1, <4>2
      <4>4. t[n - 1] = todo[n]
        BY <2>2, <4>3
      <4> QED
        BY <2>2, <4>1, <4>3, <4>4 DEF ToIndex
    <3>7. \A n \in 1..Len(t) : t[n].step = "index" =>
            /\ stored[t[n].memory.id] # NoMemory
            /\ t[n].memory.vector => stored[t[n].memory.id].vector
      BY <2>2, <2>3, <3>5
    <3> QED
      BY <3>5, <3>6, <3>7
  <2> QED
    BY <2>5, <2>6, <2>7, <2>8, <2>9, <2>10 DEF MemoryInvariant
<1>6. CASE ~Subject.plain
  <2>1. files' = files /\ todo' = <<>>
    BY <1>6 DEF Write, Raise
  <2>2. ASSUME NEW memory, PromotionUnderWay(memory)
        PROVE  memory = Subject
    <3>1. todo[Len(todo)] = Do("approve", memory)
      BY <2>2 DEF PromotionUnderWay
    <3>2. todo[Len(todo)].step = "approve" /\ todo[Len(todo)].memory = memory
      BY <3>1 DEF Do
    <3>3. Len(todo) # 1 /\ Len(todo) \in 1..Len(todo)
      BY <1>1, <3>2
    <3>4. todo[1] = Do("write", memory)
      BY <1>1, <3>2, <3>3 DEF InOrder
    <3> QED
      BY <1>1, <3>4 DEF Do
  <2>3. \A id \in Ids : stored[id] # NoMemory => Known(stored[id])
    <3>1. \A id \in Ids : stored[id] # NoMemory =>
            \/ Known(stored[id]) \/ (Allowed(stored[id]) /\ stored[id] = Subject)
      BY <1>1, <2>2 DEF AllKnown
    <3> QED
      BY <1>6, <3>1 DEF Known, Recovered
  <2>4. MemoryTypeOK'
    BY <1>1, <1>3, <2>1, NothingToDo DEF MemoryTypeOK
  <2>5. Numbered' /\ InOrder(todo)'
    BY <1>1, <1>3, <2>1, RecordStays, NothingToDo
  <2>6. AllKnown'
    <3>1. \A id \in Ids : stored'[id] # NoMemory => Known(stored[id])
      BY <1>3, <2>3
    <3>2. \A id \in Ids : files'[id] \in Memory => Allowed(files[id])
      BY <1>1, <2>1 DEF AllKnown
    <3>3. handle' # NoMemory => Known(handle)
      BY <1>1, <1>3 DEF AllKnown
    <3> QED
      BY <1>3, <2>1, <3>1, <3>2, <3>3, RecordStays, NothingToDo
      DEF AllKnown, Known, Allowed, Recovered
  <2>7. Matches'
    <3>1. \A id \in Ids : Agree(id)
      BY <1>2, <1>4, <1>6 DEF Agree
    <3> QED
      BY <1>3, <2>1, <3>1, AgreeStays DEF Matches
  <2>8. Held' /\ Completing'
    BY <2>1, NothingToDo, NotBuilding DEF Held
  <2> QED
    BY <2>4, <2>5, <2>6, <2>7, <2>8 DEF MemoryInvariant
<1> QED
  BY <1>5, <1>6

\* MemoryStore.delete_memory up to the file.
LEMMA DeleteMemorySafe ==
  ASSUME MemoryInvariant, DeleteMemory
  PROVE  MemoryInvariant'
<1>1. /\ MemoryTypeOK /\ Numbered /\ InOrder(todo) /\ AllKnown /\ Matches
      /\ ~Idle /\ todo \in Seq(Work) /\ todo # <<>>
      /\ todo[1].step = "delete" /\ Subject = todo[1].memory
      /\ Len(todo) \in Nat /\ 1 \in 1..Len(todo)
      /\ \A memory : ~PromotionUnderWay(memory)
  BY HeadOfTodo, NoPromotion
  DEF MemoryInvariant, DeleteMemory, At, Idle, MemoryTypeOK
<1>2. PICK subject \in Memory : subject = Subject
  BY <1>1, HeadOfTodo DEF InOrder, Work
<1>3. /\ subject.id \in Ids /\ subject # NoMemory /\ Known(subject)
      /\ \A n \in 1..Len(todo) : todo[n].step \in {"delete", "unlink"}
  BY <1>1, <1>2, MemoryAssumption, KnownMemories DEF InOrder, Memory
<1>4. /\ stored' = [stored EXCEPT ![subject.id] = NoMemory]
      /\ todo' = <<Do("unlink", subject)>> \o Tail(todo)
      /\ UNCHANGED <<record, files, vectors, saved, handle, crashes>>
  BY <1>2 DEF DeleteMemory
<1>5. PICK unlink \in Work :
        /\ unlink = Do("unlink", subject)
        /\ unlink.step = "unlink" /\ unlink.memory = subject
  <2>1. Do("unlink", subject) \in Work
    BY DEF Work, Step, Do
  <2>2. /\ Do("unlink", subject).step = "unlink"
        /\ Do("unlink", subject).memory = subject
    BY DEF Do
  <2> QED
    BY <2>1, <2>2
<1>6. PICK t \in Seq(Work) : todo' = t /\ t = <<unlink>> \o Tail(todo)
  BY <1>1, <1>4, <1>5, RestOfList, OneBefore
<1>7. /\ Len(t) = Len(todo) /\ t[1] = unlink
      /\ \A n \in 2..Len(todo) : t[n] = Tail(todo)[n - 1]
  BY <1>1, <1>6, RestOfList, OneBefore
<1>8. \A n \in 2..Len(todo) : t[n] = todo[n] /\ n \in 1..Len(todo)
  <2> TAKE n \in 2..Len(todo)
  <2>1. n - 1 \in 1..(Len(todo) - 1) /\ (n - 1) + 1 = n
    BY <1>1
  <2> QED
    BY <1>1, <1>7, <2>1, RestOfList
<1>9. \A n \in 1..Len(t) : n = 1 \/ n \in 2..Len(todo)
  BY <1>1, <1>7
<1>10. \A n \in 2..Len(todo) : todo[n].step = "delete"
  BY <1>1, <1>3, <1>8 DEF InOrder
<1>11. \A n \in 1..Len(t) :
         /\ t[n].step \in {"delete", "unlink"}
         /\ t[n].step = "unlink" => n = 1
         /\ t[n].memory # NoMemory
         /\ Known(t[n].memory)
  BY <1>1, <1>3, <1>5, <1>7, <1>8, <1>9, <1>10, KnownMemories DEF InOrder
<1>12. MemoryTypeOK'
  BY <1>1, <1>3, <1>4, <1>6 DEF MemoryTypeOK
<1>13. Numbered' /\ InOrder(todo)'
  BY <1>1, <1>4, <1>6, <1>11, RecordStays DEF InOrder
<1>14. AllKnown'
  <2>1. PICK s : s = stored'
    OBVIOUS
  <2>2. PICK f : f = files
    OBVIOUS
  <2>3. PICK h : h = handle
    OBVIOUS
  <2>4. \A id \in Ids : s[id] # NoMemory => Known(s[id])'
    <3>1. \A id \in Ids : s[id] # NoMemory => Known(s[id])
      BY <1>1, <1>3, <1>4, <2>1, KnownMemories DEF MemoryTypeOK
    <3> QED
      BY <1>4, <3>1, KnownStays
  <2>5. \A id \in Ids : f[id] \in Memory => Allowed(f[id])'
    BY <1>1, <1>4, <2>2, KnownStays DEF AllKnown
  <2>6. h # NoMemory => Known(h)'
    BY <1>1, <1>4, <2>3, KnownStays DEF AllKnown
  <2>7. \A n \in 1..Len(t) : t[n].memory # NoMemory => Known(t[n].memory)'
    BY <1>4, <1>11, KnownStays
  <2> QED
    BY <1>4, <1>6, <2>1, <2>2, <2>3, <2>4, <2>5, <2>6, <2>7, AllKnownNext
<1>15. Matches'
  <2>1. ~At("write") /\ ~At("unlink")
    BY <1>1, HeadOfTodo DEF At
  <2>2. \A id \in Ids : id # subject.id =>
          Agree(id) /\ stored'[id] = stored[id] /\ files'[id] = files[id]
    BY <1>1, <1>3, <1>4, <2>1 DEF Matches, MemoryTypeOK
  <2>3. (At("unlink") /\ Subject = subject)'
    <3>1. t # <<>> /\ Head(t) = unlink
      BY <1>1, <1>7, EmptySeq, RestOfList
    <3> QED
      BY <1>5, <1>6, <3>1 DEF At, Idle, Subject
  <2> QED
    BY <1>1, <1>3, <2>2, <2>3, MatchesNext
<1>16. Held'
  <2>1. stored'[subject.id] = NoMemory
    BY <1>1, <1>3, <1>4 DEF MemoryTypeOK
  <2>2. \A n \in 1..Len(t) :
          t[n].step = "unlink" => t[n].memory = subject
    BY <1>5, <1>7, <1>11
  <2>3. \A n \in 1..Len(t) :
          t[n].step = "unlink" => stored'[t[n].memory.id] = NoMemory
    BY <2>1, <2>2
  <2> QED
    BY <1>6, <1>11, <2>3 DEF Held
<1>17. Completing'
  <2>1. Len(t) \in 1..Len(t)
    BY <1>1, <1>7
  <2> QED
    BY <1>6, <1>11, <2>1, NotBuilding
<1> QED
  BY <1>12, <1>13, <1>14, <1>15, <1>16, <1>17 DEF MemoryInvariant

\* The file of a deleted memory is removed.
LEMMA UnlinkSafe ==
  ASSUME MemoryInvariant, Unlink
  PROVE  MemoryInvariant'
<1>1. /\ MemoryTypeOK /\ Numbered /\ InOrder(todo) /\ AllKnown /\ Matches /\ Held
      /\ ~Idle /\ todo \in Seq(Work) /\ todo # <<>>
      /\ todo[1].step = "unlink" /\ Subject = todo[1].memory
      /\ Len(todo) \in Nat /\ 1 \in 1..Len(todo)
      /\ \A memory : ~PromotionUnderWay(memory)
  BY HeadOfTodo, NoPromotion
  DEF MemoryInvariant, Unlink, At, Idle, MemoryTypeOK
<1>2. PICK subject \in Memory : subject = Subject
  BY <1>1, HeadOfTodo DEF InOrder, Work
<1>3. /\ subject.id \in Ids /\ stored[subject.id] = NoMemory
      /\ \A n \in 1..Len(todo) : todo[n].step \in {"delete", "unlink"}
  BY <1>1, <1>2 DEF InOrder, Held, Memory
<1>4. /\ files' = [files EXCEPT ![subject.id] = NoMemory]
      /\ todo' = Tail(todo)
      /\ UNCHANGED <<record, stored, vectors, saved, handle, crashes>>
  BY <1>2 DEF Unlink
<1>5. PICK t \in Seq(Work) :
        /\ todo' = t /\ InOrder(t)
        /\ \A n \in 1..Len(t) :
             /\ n + 1 \in 2..Len(todo) /\ t[n] = todo[n + 1]
             /\ t[n].step \notin {"write", "unlink", "save"}
  BY <1>1, <1>4, RestInOrder
<1>6. \A n \in 1..Len(t) : n + 1 \in 1..Len(todo)
  BY <1>5
<1>7. \A n \in 1..Len(t) :
        t[n].step = "delete" /\ (t[n].memory # NoMemory => Known(t[n].memory))
  BY <1>1, <1>3, <1>5, <1>6, KnownMemories
<1>8. MemoryTypeOK'
  BY <1>1, <1>3, <1>4, <1>5, MemoryAssumption DEF MemoryTypeOK
<1>9. Numbered' /\ InOrder(todo)'
  BY <1>1, <1>4, <1>5, RecordStays DEF InOrder
<1>10. AllKnown'
  <2>1. PICK s : s = stored
    OBVIOUS
  <2>2. PICK f : f = files'
    OBVIOUS
  <2>3. PICK h : h = handle
    OBVIOUS
  <2>4. \A id \in Ids : s[id] # NoMemory => Known(s[id])'
    BY <1>1, <1>4, <2>1, KnownMemories, KnownStays
  <2>5. \A id \in Ids : f[id] \in Memory => Allowed(f[id])'
    <3>1. \A id \in Ids : f[id] \in Memory => Allowed(f[id])
      BY <1>1, <1>3, <1>4, <2>2, MemoryAssumption DEF AllKnown, MemoryTypeOK
    <3> QED
      BY <1>4, <3>1, KnownStays
  <2>6. h # NoMemory => Known(h)'
    BY <1>1, <1>4, <2>3, KnownStays DEF AllKnown
  <2>7. \A n \in 1..Len(t) : t[n].memory # NoMemory => Known(t[n].memory)'
    BY <1>4, <1>7, KnownStays
  <2> QED
    BY <1>4, <1>5, <2>1, <2>2, <2>3, <2>4, <2>5, <2>6, <2>7, AllKnownNext
<1>11. Matches'
  <2>1. \A id \in Ids : id # subject.id =>
          Agree(id) /\ stored'[id] = stored[id] /\ files'[id] = files[id]
    BY <1>1, <1>2, <1>4 DEF Matches, MemoryTypeOK
  <2>2. Agree(subject.id)'
    <3>1. stored'[subject.id] = NoMemory /\ files'[subject.id] = NoMemory
      BY <1>1, <1>3, <1>4 DEF MemoryTypeOK
    <3> QED
      BY <3>1, MemoryAssumption DEF Agree, Loaded
  <2> QED
    BY <1>1, <1>3, <2>1, <2>2, MatchesNext
<1>12. Held'
  BY <1>5, <1>7 DEF Held
<1>13. Completing'
  <2>1. t = <<>> \/ Len(t) \in 1..Len(t)
    BY EmptySeq, LenProperties
  <2> QED
    BY <1>5, <1>7, <2>1, NotBuilding
<1> QED
  BY <1>8, <1>9, <1>10, <1>11, <1>12, <1>13 DEF MemoryInvariant

\* What restarts: the files as they are, and nothing else of the process.
LEMMA RestartSafe ==
  ASSUME MemoryInvariant, Restart
  PROVE  MemoryInvariant'
<1>1. MemoryTypeOK /\ Numbered /\ AllKnown
  BY DEF MemoryInvariant
<1>2. /\ stored' = [id \in Ids |-> Loaded(files[id])]
      /\ vectors' = saved /\ handle' = NoMemory /\ todo' = <<>>
      /\ crashes' = crashes + 1
      /\ UNCHANGED <<record, files, saved>>
  BY DEF Restart
<1>3. \A id \in Ids : /\ stored'[id] # NoMemory =>
                           files[id] \in Memory /\ stored'[id] = files[id]
                      /\ files[id] \in Memory => stored'[id] = files[id]
                      /\ stored'[id] = Loaded(files[id])
                      /\ stored'[id] \in Memory \cup {NoMemory}
  BY <1>1, <1>2, MemoryAssumption DEF MemoryTypeOK, Loaded
<1>4. MemoryTypeOK'
  <2>1. stored' \in [Ids -> Memory \cup {NoMemory}]
    BY <1>2, <1>3
  <2>2. \A id \in Ids : stored'[id] # NoMemory => stored'[id].id = id
    BY <1>1, <1>3 DEF MemoryTypeOK
  <2> QED
    BY <1>1, <1>2, <2>1, <2>2, NothingToDo DEF MemoryTypeOK
<1>5. Numbered' /\ InOrder(todo)'
  BY <1>1, <1>2, RecordStays, NothingToDo
<1>6. AllKnown'
  <2>1. PICK s : s = stored'
    OBVIOUS
  <2>2. PICK f : f = files
    OBVIOUS
  <2>3. ASSUME NEW memory, Allowed(memory)
        PROVE  Allowed(memory)' /\ Known(memory)'
    <3>1. Allowed(memory)'
      BY <1>2, <2>3, RecordStays DEF Allowed
    <3>2. crashes' > 0
      BY <1>1, <1>2 DEF MemoryTypeOK
    <3> QED
      BY <3>1, <3>2 DEF Known, Recovered
  <2>4. \A id \in Ids : f[id] \in Memory => Allowed(f[id])
    BY <1>1, <2>2 DEF AllKnown
  <2>5. \A id \in Ids : s[id] # NoMemory => Allowed(s[id])
    BY <1>3, <2>1, <2>2, <2>4
  <2> QED
    BY <1>2, <2>1, <2>2, <2>3, <2>4, <2>5, NothingToDo, AllKnownNext
<1>7. Matches'
  BY <1>2, <1>3 DEF Matches, Agree, Loaded
<1>8. Held' /\ Completing'
  BY <1>2, NothingToDo, NotBuilding DEF Held
<1> QED
  BY <1>4, <1>5, <1>6, <1>7, <1>8 DEF MemoryInvariant

--------------------------------------------------------------------------------
(* Promotion, and the copy of a memory with its vector.                    *)

\* What is put on record is added to what was there.
LEMMA RecordedMore ==
  ASSUME record \in Seq(MemoryEvent), NEW more \in Seq(MemoryEvent),
         record' = record \o more, NEW type, NEW id
  PROVE  Recorded(type, id)' <=>
           \/ Recorded(type, id)
           \/ \E n \in 1..Len(more) : more[n] = Event(type, id)
<1>1. PICK r \in Seq(MemoryEvent) : r = record
  OBVIOUS
<1>2. PICK p \in Seq(MemoryEvent) : p = record \o more
  BY <1>1, ConcatProperties
<1>3. /\ Len(r) \in Nat /\ Len(more) \in Nat /\ Len(p) = Len(r) + Len(more)
      /\ DOMAIN r = 1..Len(r) /\ DOMAIN p = 1..Len(p)
      /\ \A n \in 1..Len(r) : n \in 1..Len(p) /\ p[n] = r[n]
      /\ \A n \in 1..Len(more) : n + Len(r) \in 1..Len(p)
      /\ \A n \in 1..Len(p) : p[n] = IF n <= Len(r) THEN r[n] ELSE more[n - Len(r)]
  BY <1>1, <1>2, ConcatProperties, LenProperties
<1>4. \A n \in 1..Len(more) : p[n + Len(r)] = more[n]
  <2> TAKE n \in 1..Len(more)
  <2>1. ~(n + Len(r) <= Len(r)) /\ (n + Len(r)) - Len(r) = n
    BY <1>3
  <2> QED
    BY <1>3, <2>1
<1>5. PICK event : event = Event(type, id)
  OBVIOUS
<1>6. (\E n \in 1..Len(p) : p[n] = event) <=>
        \/ \E n \in 1..Len(r) : r[n] = event
        \/ \E n \in 1..Len(more) : more[n] = event
  <2>1. ASSUME NEW n \in 1..Len(p), p[n] = event
        PROVE  \/ \E m \in 1..Len(r) : r[m] = event
               \/ \E m \in 1..Len(more) : more[m] = event
    <3>1. CASE n <= Len(r)
      BY <1>3, <2>1, <3>1
    <3>2. CASE ~(n <= Len(r))
      <4>1. n - Len(r) \in 1..Len(more)
        BY <1>3, <3>2
      <4> QED
        BY <1>3, <2>1, <3>2, <4>1
    <3> QED
      BY <3>1, <3>2
  <2>2. ASSUME NEW n \in 1..Len(r), r[n] = event
        PROVE  \E m \in 1..Len(p) : p[m] = event
    BY <1>3, <2>2
  <2>3. ASSUME NEW n \in 1..Len(more), more[n] = event
        PROVE  \E m \in 1..Len(p) : p[m] = event
    BY <1>3, <1>4, <2>3
  <2> QED
    BY <2>1, <2>2, <2>3
<1>7. Recorded(type, id) <=> \E n \in 1..Len(r) : r[n] = event
  BY <1>1, <1>3, <1>5 DEF Recorded
<1>8. record' = p
  BY <1>2
<1>9. Recorded(type, id)' <=> \E n \in 1..Len(p) : p[n] = event
  BY <1>3, <1>5, <1>8 DEF Recorded, Event
<1> QED
  BY <1>5, <1>6, <1>7, <1>9

\* The next id was not asked for, and is the last one when it is.
LEMMA FreshIsNew ==
  ASSUME MemoryTypeOK, Numbered, Promoting
  PROVE  /\ Made \in Nat /\ Fresh = Made + 1 /\ Fresh \in Ids
         /\ ~Recorded("requested", Fresh) /\ ~Recorded("rejected", Fresh)
<1>1. Asked \subseteq Ids /\ IsFiniteSet(Ids) /\ Ids = 1..MaxMemories
  BY MemoryAssumption, FS_Interval DEF Asked, Ids
<1>2. Made = Cardinality(Asked) /\ IsFiniteSet(Asked)
  BY <1>1, FS_Subset DEF Made, Asked
<1>3. Made \in Nat
  BY <1>2, FS_CardinalityType
<1>4. Fresh \in Ids /\ Fresh = Made + 1
  BY <1>1, <1>3, MemoryAssumption DEF Fresh, Promoting
<1>5. Fresh \notin Asked
  BY <1>3, <1>4 DEF Numbered
<1> QED
  BY <1>3, <1>4, <1>5 DEF Asked, Numbered

\* A request, and perhaps its rejection, are put on record.
LEMMA RequestRecorded ==
  ASSUME MemoryTypeOK, Numbered, Promoting,
         NEW more \in Seq(MemoryEvent), record' = record \o more,
         \E n \in 1..Len(more) : more[n] = Event("requested", Fresh),
         \A n \in 1..Len(more) :
           more[n] \in {Event("requested", Fresh), Event("rejected", Fresh)}
  PROVE  /\ record' \in Seq(MemoryEvent) /\ Numbered'
         /\ \A memory : Allowed(memory) => Allowed(memory)'
         /\ crashes' = crashes => \A memory : Known(memory) => Known(memory)'
<1>1. /\ Made \in Nat /\ Fresh = Made + 1 /\ Fresh \in Ids
      /\ ~Recorded("requested", Fresh) /\ ~Recorded("rejected", Fresh)
      /\ record \in Seq(MemoryEvent)
  BY FreshIsNew DEF MemoryTypeOK
<1>2. PICK fresh \in Ids : fresh = Fresh
  BY <1>1
<1>3. record' \in Seq(MemoryEvent)
  BY <1>1, ConcatProperties
<1>4. \A type, id : Recorded(type, id)' <=>
        \/ Recorded(type, id)
        \/ \E n \in 1..Len(more) : more[n] = Event(type, id)
  BY <1>1, RecordedMore
<1>5. \A n \in 1..Len(more) :
        more[n].id = fresh /\ more[n].type \in {"requested", "rejected"}
  BY <1>2 DEF Event
<1>6. \A type, id : id # fresh => (Recorded(type, id)' <=> Recorded(type, id))
  <2> SUFFICES ASSUME NEW type, NEW id, id # fresh
               PROVE  Recorded(type, id)' <=> Recorded(type, id)
    OBVIOUS
  <2>1. Event(type, id).id = id
    BY DEF Event
  <2>2. \A n \in 1..Len(more) : more[n] # Event(type, id)
    BY <1>5, <2>1
  <2> QED
    BY <1>4, <2>2
<1>7. Recorded("requested", fresh)'
  BY <1>2, <1>4
<1>8. \A type, id : Recorded(type, id) => Recorded(type, id)'
  BY <1>4
<1>9. Asked' = Asked \cup {fresh}
  <2>1. Asked' = {id \in Ids : Recorded("requested", id)'}
    BY DEF Asked
  <2>2. \A id \in Ids : Recorded("requested", id)' <=>
          Recorded("requested", id) \/ id = fresh
    BY <1>6, <1>7, <1>8
  <2> QED
    BY <1>2, <2>1, <2>2 DEF Asked
<1>10. Asked' = 1..(Made + 1)
  BY <1>1, <1>2, <1>9 DEF Numbered
<1>11. Made' = Made + 1
  <2>1. Made' = Cardinality(Asked')
    BY DEF Made, Asked
  <2>2. Cardinality(1..(Made + 1)) = Made + 1
    BY <1>1, FS_Interval
  <2> QED
    BY <1>10, <2>1, <2>2
<1>12. Numbered'
  <2>1. \A id \in Ids : Recorded("rejected", id)' => id \in Asked \cup {fresh}
    BY <1>6 DEF Numbered
  <2>2. \A id \in Ids : Recorded("rejected", id)' => id \in Asked'
    BY <1>9, <2>1
  <2> QED
    BY <1>10, <1>11, <2>2 DEF Numbered
<1>13. ASSUME NEW memory, Allowed(memory)
       PROVE  Allowed(memory)'
  <2>1. memory.id # fresh
    BY <1>1, <1>2, <1>13 DEF Allowed
  <2> QED
    BY <1>6, <1>13, <2>1 DEF Allowed
<1>14. ASSUME crashes' = crashes, NEW memory, Known(memory)
       PROVE  Known(memory)'
  <2>1. Allowed(memory)'
    BY <1>13, <1>14 DEF Known
  <2>2. Recovered(memory)'
    BY <1>8, <1>14 DEF Known, Recovered
  <2> QED
    BY <2>1, <2>2 DEF Known
<1> QED
  BY <1>3, <1>12, <1>13, <1>14

\* The policy rejects a request.
LEMMA PromotionRejectedSafe ==
  ASSUME MemoryInvariant, NEW policy, NEW violated,
         PromotionRejected(policy, violated)
  PROVE  MemoryInvariant'
<1>1. /\ MemoryTypeOK /\ Numbered /\ InOrder(todo) /\ AllKnown /\ Matches
      /\ Held /\ Promoting /\ Idle
      /\ \A memory : ~PromotionUnderWay(memory)
  BY NoPromotion DEF MemoryInvariant, PromotionRejected, Promoting
<1>2. /\ record' =
           record \o <<Event("requested", Fresh), Event("rejected", Fresh)>>
      /\ UNCHANGED <<stored, files, vectors, saved, handle, todo, crashes>>
  BY DEF PromotionRejected
<1>3. PICK a \in MemoryEvent, b \in MemoryEvent :
        a = Event("requested", Fresh) /\ b = Event("rejected", Fresh)
  BY <1>1, FreshIsNew DEF MemoryEvent, Event
<1>4. /\ <<a, b>> \in Seq(MemoryEvent) /\ Len(<<a, b>>) = 2
      /\ <<a, b>>[1] = a /\ <<a, b>>[2] = b
      /\ 1 \in 1..2 /\ \A n \in 1..2 : n = 1 \/ n = 2
  OBVIOUS
<1>5. PICK more \in Seq(MemoryEvent) : more = <<a, b>>
  BY <1>4
<1>6. /\ record' = record \o more
      /\ \E n \in 1..Len(more) : more[n] = Event("requested", Fresh)
      /\ \A n \in 1..Len(more) :
           more[n] \in {Event("requested", Fresh), Event("rejected", Fresh)}
  BY <1>2, <1>3, <1>4, <1>5
<1>7. /\ record' \in Seq(MemoryEvent) /\ Numbered'
      /\ \A memory : Allowed(memory) => Allowed(memory)'
      /\ \A memory : Known(memory) => Known(memory)'
  BY <1>1, <1>2, <1>6, RequestRecorded
<1>8. todo' = <<>> /\ todo = <<>>
  BY <1>1, <1>2 DEF Idle
<1>9. MemoryTypeOK'
  BY <1>1, <1>2, <1>7 DEF MemoryTypeOK
<1>10. InOrder(todo)'
  BY <1>8, NothingToDo
<1>11. AllKnown'
  <2>1. PICK s : s = stored
    OBVIOUS
  <2>2. PICK f : f = files
    OBVIOUS
  <2>3. PICK h : h = handle
    OBVIOUS
  <2>4. \A id \in Ids : s[id] # NoMemory => Known(s[id])'
    BY <1>1, <1>7, <2>1, KnownMemories
  <2>5. \A id \in Ids : f[id] \in Memory => Allowed(f[id])'
    BY <1>1, <1>7, <2>2 DEF AllKnown
  <2>6. h # NoMemory => Known(h)'
    BY <1>1, <1>7, <2>3 DEF AllKnown
  <2> QED
    BY <1>2, <1>8, <2>1, <2>2, <2>3, <2>4, <2>5, <2>6, NothingToDo, AllKnownNext
<1>12. Matches'
  <2>1. \A id \in Ids : Agree(id)
    BY <1>1 DEF Matches, At
  <2> QED
    BY <1>2, <2>1, AgreeStays DEF Matches
<1>13. Held' /\ Completing'
  BY <1>8, NothingToDo, NotBuilding DEF Held
<1> QED
  BY <1>7, <1>9, <1>10, <1>11, <1>12, <1>13 DEF MemoryInvariant

\* The policy allows a request, whose memory is stored.
LEMMA PromotionStoredSafe ==
  ASSUME MemoryInvariant, NEW policy, NEW violated, NEW plain \in BOOLEAN,
         PromotionStored(policy, violated, plain)
  PROVE  MemoryInvariant'
<1>1. /\ MemoryTypeOK /\ Numbered /\ AllKnown /\ Matches /\ Promoting /\ Idle
      /\ InOrder(todo) /\ \A memory : ~PromotionUnderWay(memory)
  BY NoPromotion DEF MemoryInvariant, PromotionStored, Promoting
<1>2. PICK newer \in Memory :
        newer = [id |-> Fresh, plain |-> plain, vector |-> FALSE]
  BY <1>1, FreshIsNew DEF Memory
<1>3. /\ newer.id = Fresh /\ newer.id \in Ids /\ ~newer.vector
      /\ newer # NoMemory /\ newer # Torn
  BY <1>1, <1>2, FreshIsNew, MemoryAssumption
<1>4. /\ stored' = [stored EXCEPT ![newer.id] = newer]
      /\ files' = [files EXCEPT ![newer.id] = Torn]
      /\ UNCHANGED <<vectors, saved, handle, crashes>>
  BY <1>2 DEF PromotionStored, AddMemory
<1>5. PICK a \in MemoryEvent : a = Event("requested", Fresh)
  BY <1>1, FreshIsNew DEF MemoryEvent, Event
<1>6. /\ <<a>> \in Seq(MemoryEvent) /\ Len(<<a>>) = 1 /\ <<a>>[1] = a
      /\ 1 \in 1..1 /\ \A n \in 1..1 : n = 1
  OBVIOUS
<1>7. PICK more \in Seq(MemoryEvent) : more = <<a>>
  BY <1>6
<1>8. record' = record \o more /\ record \in Seq(MemoryEvent)
  <2>1. record \in Seq(MemoryEvent) /\ record' = Append(record, a)
    BY <1>1, <1>5 DEF MemoryTypeOK, PromotionStored
  <2> QED
    BY <1>7, <2>1, AppendIsConcat
<1>9. /\ \E n \in 1..Len(more) : more[n] = Event("requested", Fresh)
      /\ \A n \in 1..Len(more) : more[n] = Event("requested", Fresh)
  BY <1>5, <1>6, <1>7
<1>10. /\ record' \in Seq(MemoryEvent) /\ Numbered'
       /\ \A memory : Allowed(memory) => Allowed(memory)'
       /\ \A memory : Known(memory) => Known(memory)'
  BY <1>1, <1>4, <1>8, <1>9, RequestRecorded
<1>11. Allowed(newer)'
  <2>1. PICK fresh \in Ids : fresh = Fresh
    BY <1>1, FreshIsNew
  <2>2. \A type : Recorded(type, fresh)' <=>
          \/ Recorded(type, fresh)
          \/ \E n \in 1..Len(more) : more[n] = Event(type, fresh)
    BY <1>8, RecordedMore
  <2>3. Recorded("requested", fresh)'
    BY <1>9, <2>1, <2>2
  <2>4. Event("requested", fresh) # Event("rejected", fresh)
    <3>1. /\ Event("requested", fresh).type = "requested"
          /\ Event("rejected", fresh).type = "rejected"
      BY DEF Event
    <3> QED
      BY <3>1
  <2>5. ~Recorded("rejected", fresh)'
    BY <1>1, <1>9, <2>1, <2>2, <2>4, FreshIsNew
  <2> QED
    BY <1>3, <2>1, <2>3, <2>5 DEF Allowed
<1>12. PICK write \in Work, judging \in Work :
         write = Do("write", newer) /\ judging = Do("approve", newer)
  BY DEF Work, Step, Do
<1>13. /\ write.step = "write" /\ write.memory = newer
       /\ judging.step = "approve" /\ judging.memory = newer
  BY <1>12 DEF Do
<1>14. PICK t \in Seq(Work) :
         /\ t = <<write>> \o <<judging>> /\ Len(t) = 2
         /\ t[1] = write /\ t[2] = judging
  <2>1. /\ <<judging>> \in Seq(Work) /\ Len(<<judging>>) = 1
        /\ <<judging>>[1] = judging
    OBVIOUS
  <2>2. PICK rest \in Seq(Work) : rest = <<judging>>
    BY <2>1
  <2>3. /\ <<write>> \o rest \in Seq(Work) /\ Len(<<write>> \o rest) = 2
        /\ (<<write>> \o rest)[1] = write /\ (<<write>> \o rest)[2] = rest[1]
    BY <2>1, <2>2, OneBefore
  <2> QED
    BY <2>1, <2>2, <2>3
<1>15. /\ todo' = t /\ 1..Len(t) = {1, 2} /\ t # <<>> /\ Head(t) = write
  <2>1. t # <<>>
    BY <1>14, EmptySeq
  <2>2. todo' = <<Do("write", newer)>> \o <<Do("approve", newer)>>
    BY <1>2 DEF PromotionStored, AddMemory
  <2> QED
    BY <1>12, <1>14, <2>1, <2>2, RestOfList
<1>16. MemoryTypeOK'
  <2>1. /\ record' \in Seq(MemoryEvent) /\ todo' \in Seq(Work)
        /\ vectors' \subseteq Ids /\ saved' \subseteq Ids
        /\ handle' \in Memory \cup {NoMemory} /\ crashes' \in Nat
    BY <1>1, <1>4, <1>10, <1>15 DEF MemoryTypeOK
  <2>2. /\ stored' \in [Ids -> Memory \cup {NoMemory}]
        /\ files' \in [Ids -> Memory \cup {NoMemory, Torn}]
    BY <1>1, <1>3, <1>4 DEF MemoryTypeOK
  <2>3. \A id \in Ids : /\ stored'[id] # NoMemory => stored'[id].id = id
                        /\ files'[id] \in Memory => files'[id].id = id
    BY <1>1, <1>3, <1>4, MemoryAssumption DEF MemoryTypeOK
  <2> QED
    BY <2>1, <2>2, <2>3 DEF MemoryTypeOK
<1>17. InOrder(t)
  BY <1>3, <1>12, <1>13, <1>14, <1>15 DEF InOrder
<1>18. PromotionUnderWay(newer)'
  BY <1>12, <1>14, <1>15 DEF PromotionUnderWay, Idle
<1>19. AllKnown'
  <2>1. PICK s : s = stored'
    OBVIOUS
  <2>2. PICK f : f = files'
    OBVIOUS
  <2>3. PICK h : h = handle
    OBVIOUS
  <2>4. \A id \in Ids : s[id] # NoMemory =>
          Known(s[id])' \/ (Allowed(s[id])' /\ PromotionUnderWay(s[id])')
    <3> TAKE id \in Ids
    <3>1. CASE id = newer.id
      <4>1. s[id] = newer
        BY <1>1, <1>3, <1>4, <2>1, <3>1 DEF MemoryTypeOK
      <4> QED
        BY <1>11, <1>18, <4>1
    <3>2. CASE id # newer.id
      <4>1. s[id] = stored[id]
        BY <1>1, <1>4, <2>1, <3>2 DEF MemoryTypeOK
      <4>2. PICK memory : memory = s[id]
        OBVIOUS
      <4>3. memory # NoMemory => Known(memory)
        BY <1>1, <4>1, <4>2, KnownMemories
      <4> QED
        BY <1>10, <4>2, <4>3
    <3> QED
      BY <3>1, <3>2
  <2>5. \A id \in Ids : f[id] \in Memory => Allowed(f[id])'
    <3>1. \A id \in Ids : f[id] \in Memory => Allowed(f[id])
      BY <1>1, <1>3, <1>4, <2>2, MemoryAssumption DEF AllKnown, MemoryTypeOK
    <3> QED
      BY <1>10, <3>1
  <2>6. h # NoMemory => Known(h)'
    BY <1>1, <1>10, <2>3 DEF AllKnown
  <2>7. \A n \in 1..Len(t) :
          Allowed(t[n].memory)' /\ PromotionUnderWay(t[n].memory)'
    <3>1. \A n \in 1..Len(t) : t[n].memory = newer
      BY <1>13, <1>14, <1>15
    <3> QED
      BY <1>11, <1>18, <3>1
  <2> QED
    BY <1>4, <1>15, <2>1, <2>2, <2>3, <2>4, <2>5, <2>6, <2>7,
       AllKnownNext
<1>20. Matches'
  <2>1. \A id \in Ids : id # newer.id =>
          Agree(id) /\ stored'[id] = stored[id] /\ files'[id] = files[id]
    BY <1>1, <1>3, <1>4 DEF Matches, MemoryTypeOK, At
  <2>2. (At("write") /\ Subject = newer)'
    BY <1>13, <1>15 DEF At, Idle, Subject
  <2> QED
    BY <1>1, <1>3, <2>1, <2>2, MatchesNext
<1>21. Held'
  <2>1. stored'[newer.id] = newer /\ files'[newer.id] = Torn
    BY <1>1, <1>3, <1>4 DEF MemoryTypeOK
  <2> QED
    BY <1>13, <1>14, <1>15, <2>1 DEF Held
<1>22. Completing'
  BY <1>13, <1>14, <1>15, NotBuilding
<1>23. InOrder(todo)'
  BY <1>15, <1>17
<1> QED
  BY <1>10, <1>16, <1>19, <1>20, <1>21, <1>22, <1>23 DEF MemoryInvariant

\* The approval is put on record, and the memory returned.
LEMMA PromotionApprovedSafe ==
  ASSUME MemoryInvariant, PromotionApproved
  PROVE  MemoryInvariant'
<1>1. /\ MemoryTypeOK /\ Numbered /\ InOrder(todo) /\ AllKnown /\ Matches
      /\ ~Idle /\ todo \in Seq(Work) /\ todo # <<>>
      /\ todo[1].step = "approve" /\ Subject = todo[1].memory
      /\ Len(todo) \in Nat /\ 1 \in 1..Len(todo)
  BY HeadOfTodo DEF MemoryInvariant, PromotionApproved, At, Idle, MemoryTypeOK
<1>2. PICK subject \in Memory : subject = Subject
  BY <1>1, HeadOfTodo DEF InOrder, Work
<1>3. Len(todo) = 1 /\ subject.id \in Ids /\ subject # NoMemory
  BY <1>1, <1>2, MemoryAssumption DEF InOrder, Memory
<1>4. /\ record' = Append(record, Event("approved", subject.id))
      /\ handle' = subject
      /\ UNCHANGED <<stored, files, vectors, saved, crashes>>
  BY <1>2 DEF PromotionApproved
<1>5. todo' = <<>>
  <2>1. PICK t \in Seq(Work) : t = Tail(todo)
    BY <1>1, RestOfList
  <2>2. Len(t) = 0
    BY <1>1, <1>3, <2>1, RestOfList
  <2> QED
    BY <2>1, <2>2, EmptySeq DEF PromotionApproved
<1>6. PICK a \in MemoryEvent : a = Event("approved", subject.id)
  BY <1>3 DEF MemoryEvent, Event
<1>7. a.type = "approved"
  BY <1>6 DEF Event
<1>8. /\ <<a>> \in Seq(MemoryEvent) /\ Len(<<a>>) = 1 /\ <<a>>[1] = a
      /\ 1 \in 1..1 /\ \A n \in 1..1 : n = 1
  OBVIOUS
<1>9. PICK more \in Seq(MemoryEvent) : more = <<a>>
  BY <1>8
<1>10. record' = record \o more /\ record \in Seq(MemoryEvent)
  BY <1>1, <1>4, <1>6, <1>9, AppendIsConcat DEF MemoryTypeOK
<1>11. \A type, id : Recorded(type, id)' <=>
         Recorded(type, id) \/ a = Event(type, id)
  <2>1. \A type, id : Recorded(type, id)' <=>
          \/ Recorded(type, id)
          \/ \E n \in 1..Len(more) : more[n] = Event(type, id)
    BY <1>10, RecordedMore
  <2> QED
    BY <1>8, <1>9, <2>1
<1>12. \A id : /\ Recorded("requested", id)' <=> Recorded("requested", id)
               /\ Recorded("rejected", id)' <=> Recorded("rejected", id)
  <2>1. \A type, id : Event(type, id).type = type
    BY DEF Event
  <2>2. \A id : a # Event("requested", id) /\ a # Event("rejected", id)
    BY <1>7, <2>1
  <2> QED
    BY <1>11, <2>2
<1>13. \A memory : Allowed(memory) => Allowed(memory)'
  BY <1>12 DEF Allowed
<1>14. \A memory : Known(memory) => Known(memory)'
  BY <1>4, <1>11, <1>13 DEF Known, Recovered
<1>15. \A memory : PromotionUnderWay(memory) => memory = subject
  BY <1>1, <1>2, <1>3 DEF PromotionUnderWay, Do
<1>16. Allowed(subject) => Known(subject)'
  BY <1>6, <1>11, <1>13 DEF Known, Recovered
<1>17. \A memory : (Allowed(memory) /\ PromotionUnderWay(memory)) => Known(memory)'
  BY <1>15, <1>16
<1>18. Known(subject)'
  <2>1. Known(subject) \/ (Allowed(subject) /\ PromotionUnderWay(subject))
    BY <1>1, <1>2, <1>3 DEF AllKnown
  <2> QED
    BY <1>14, <1>17, <2>1
<1>19. record' \in Seq(MemoryEvent)
  BY <1>10, ConcatProperties
<1>20. MemoryTypeOK'
  BY <1>1, <1>4, <1>5, <1>19, NothingToDo DEF MemoryTypeOK
<1>21. Numbered'
  <2>1. Asked' = Asked /\ Made' = Made
    BY <1>12 DEF Asked, Made
  <2> QED
    BY <1>1, <1>12, <2>1 DEF Numbered
<1>22. InOrder(todo)'
  BY <1>5, NothingToDo
<1>23. AllKnown'
  <2>1. PICK s : s = stored
    OBVIOUS
  <2>2. PICK f : f = files
    OBVIOUS
  <2>3. \A id \in Ids : s[id] # NoMemory => Known(s[id])'
    <3> TAKE id \in Ids
    <3>1. PICK memory : memory = s[id]
      OBVIOUS
    <3>2. memory # NoMemory =>
            Known(memory) \/ (Allowed(memory) /\ PromotionUnderWay(memory))
      BY <1>1, <2>1, <3>1 DEF AllKnown
    <3> QED
      BY <1>14, <1>17, <3>1, <3>2
  <2>4. \A id \in Ids : f[id] \in Memory => Allowed(f[id])'
    BY <1>1, <1>13, <2>2 DEF AllKnown
  <2> QED
    BY <1>4, <1>5, <1>18, <2>1, <2>2, <2>3, <2>4, NothingToDo, AllKnownNext
<1>24. Matches'
  <2>1. ~At("write") /\ ~At("unlink")
    BY <1>1, HeadOfTodo DEF At
  <2>2. \A id \in Ids : Agree(id)
    BY <1>1, <2>1 DEF Matches
  <2> QED
    BY <1>4, <2>2, AgreeStays DEF Matches
<1>25. Held' /\ Completing'
  BY <1>5, NothingToDo, NotBuilding DEF Held
<1> QED
  BY <1>20, <1>21, <1>22, <1>23, <1>24, <1>25 DEF MemoryInvariant

\* A memory is embedded, and stored again with its vector.
LEMMA IndexMemorySafe ==
  ASSUME MemoryInvariant, IndexMemory
  PROVE  MemoryInvariant'
<1>1. /\ MemoryTypeOK /\ Numbered /\ InOrder(todo) /\ AllKnown /\ Matches
      /\ Completing
      /\ ~Idle /\ todo \in Seq(Work) /\ todo # <<>>
      /\ todo[1].step = "index" /\ Subject = todo[1].memory
      /\ Len(todo) \in Nat /\ 1 \in 1..Len(todo)
      /\ \A memory : ~PromotionUnderWay(memory)
  BY HeadOfTodo, NoPromotion
  DEF MemoryInvariant, IndexMemory, At, Idle, MemoryTypeOK
<1>2. PICK subject \in Memory : subject = Subject
  BY <1>1, HeadOfTodo DEF InOrder, Work
<1>3. PICK newer \in Memory : newer = [subject EXCEPT !.vector = TRUE]
  BY DEF Memory
<1>4. /\ newer.id = subject.id /\ newer.id \in Ids /\ newer.vector /\ newer.plain
      /\ newer # NoMemory /\ newer # Torn /\ subject # NoMemory
      /\ newer.plain = subject.plain
  BY <1>2, <1>3, MemoryAssumption DEF IndexMemory, Memory
<1>5. Known(newer)
  <2>1. Known(subject)
    BY <1>1, <1>2, <1>4, KnownMemories
  <2> QED
    BY <1>4, <2>1 DEF Known, Allowed, Recovered
<1>6. /\ stored' = [stored EXCEPT ![newer.id] = newer]
      /\ files' = [files EXCEPT ![newer.id] = Torn]
      /\ UNCHANGED <<record, vectors, saved, handle, crashes>>
  BY <1>2, <1>3 DEF IndexMemory, AddMemory
<1>7. PICK write \in Work, vector \in Work :
        write = Do("write", newer) /\ vector = Do("vector", newer)
  BY DEF Work, Step, Do
<1>8. /\ write.step = "write" /\ write.memory = newer
      /\ vector.step = "vector" /\ vector.memory = newer
  BY <1>7 DEF Do
<1>9. PICK rest \in Seq(Work) :
        /\ rest = Tail(todo) /\ Len(rest) = Len(todo) - 1
        /\ \A n \in 1..Len(rest) :
             /\ n + 1 \in 2..Len(todo) /\ n + 1 \in 1..Len(todo)
             /\ rest[n] = todo[n + 1]
             /\ rest[n].step
                  \notin {"write", "approve", "unlink", "vector", "save"}
             /\ rest[n].memory # NoMemory => Known(rest[n].memory)
  <2>1. PICK rest \in Seq(Work) :
          /\ rest = Tail(todo) /\ Len(rest) = Len(todo) - 1
          /\ \A n \in 1..Len(rest) :
               /\ n + 1 \in 2..Len(todo) /\ n + 1 \in 1..Len(todo)
               /\ rest[n] = todo[n + 1]
               /\ rest[n].memory # NoMemory => Known(rest[n].memory)
    BY <1>1, RestIsKnown
  <2>2. \A n \in 2..Len(todo) :
          todo[n].step \notin {"write", "approve", "unlink", "vector", "save"}
    BY <1>1, Following
  <2> QED
    BY <2>1, <2>2
<1>10. PICK t \in Seq(Work) : t = <<write>> \o (<<vector>> \o rest)
  BY TwoBefore
<1>11. /\ todo' = t /\ Len(t) = Len(rest) + 2 /\ Len(rest) \in Nat
       /\ t[1] = write /\ t[2] = vector
       /\ \A n \in 3..Len(t) : t[n] = rest[n - 2]
  <2>1. /\ Len(t) = Len(rest) + 2 /\ t[1] = write /\ t[2] = vector
        /\ \A n \in 3..(Len(rest) + 2) : t[n] = rest[n - 2]
    BY <1>10, TwoBefore
  <2>2. todo' = <<Do("write", newer)>> \o (<<Do("vector", newer)>> \o Tail(todo))
    BY <1>2, <1>3 DEF IndexMemory, AddMemory
  <2> QED
    BY <1>7, <1>9, <1>10, <2>1, <2>2, LenProperties
<1>12. \A n \in 1..Len(t) :
         n = 1 \/ n = 2 \/ (n \in 3..Len(t) /\ n - 2 \in 1..Len(rest))
  BY <1>11
<1>13. \A n \in 3..Len(t) :
         /\ n - 1 \in 2..Len(todo) /\ n - 1 \in 1..Len(todo)
         /\ t[n] = todo[n - 1]
         /\ t[n].step \notin {"write", "approve", "unlink", "vector", "save"}
         /\ t[n].memory # NoMemory => Known(t[n].memory)
  <2> TAKE n \in 3..Len(t)
  <2>1. n - 2 \in 1..Len(rest) /\ (n - 2) + 1 = n - 1
    BY <1>11
  <2> QED
    BY <1>9, <1>11, <2>1
<1>14. MemoryTypeOK'
  <2>1. /\ record' \in Seq(MemoryEvent) /\ todo' \in Seq(Work)
        /\ vectors' \subseteq Ids /\ saved' \subseteq Ids
        /\ handle' \in Memory \cup {NoMemory} /\ crashes' \in Nat
    BY <1>1, <1>6, <1>11 DEF MemoryTypeOK
  <2>2. /\ stored' \in [Ids -> Memory \cup {NoMemory}]
        /\ files' \in [Ids -> Memory \cup {NoMemory, Torn}]
    BY <1>1, <1>4, <1>6 DEF MemoryTypeOK
  <2>3. \A id \in Ids : /\ stored'[id] # NoMemory => stored'[id].id = id
                        /\ files'[id] \in Memory => files'[id].id = id
    BY <1>1, <1>4, <1>6, MemoryAssumption DEF MemoryTypeOK
  <2> QED
    BY <2>1, <2>2, <2>3 DEF MemoryTypeOK
<1>15. InOrder(t)
  <2>1. \A n \in 3..Len(t) :
          /\ t[n].step # "built" => t[n].memory # NoMemory
          /\ t[n].step = "built" => n = Len(t)
          /\ t[n].step # "delete"
    <3> TAKE n \in 3..Len(t)
    <3>1. /\ todo[n - 1].step \notin {"save", "built"} =>
               todo[n - 1].memory # NoMemory
          /\ todo[n - 1].step \in {"approve", "built"} => n - 1 = Len(todo)
          /\ todo[n - 1].step \in {"delete", "unlink"} =>
               todo[1].step \in {"delete", "unlink"}
      BY <1>1, <1>13 DEF InOrder
    <3> QED
      BY <1>1, <1>9, <1>11, <1>13, <3>1
  <2>2. ASSUME NEW n \in 1..Len(t), n # 1, n # 2
        PROVE  n \in 3..Len(t)
    BY <1>12, <2>2
  <2>3. \A n \in 1..Len(t) :
          t[n].step \notin {"save", "built"} => t[n].memory # NoMemory
    BY <1>4, <1>8, <1>11, <2>1, <2>2
  <2>4. \A n \in 1..Len(t) : t[n].step \in {"write", "unlink", "save"} => n = 1
    BY <1>8, <1>11, <1>13, <2>2
  <2>5. \A n \in 1..Len(t) : t[n].step \in {"approve", "vector"} /\ n # 1 =>
                               n = 2 /\ t[1] = Do("write", t[n].memory)
    <3> SUFFICES ASSUME NEW n \in 1..Len(t), n # 1,
                        t[n].step \in {"approve", "vector"}
                 PROVE  n = 2 /\ t[1] = Do("write", t[n].memory)
      OBVIOUS
    <3>1. n = 2
      BY <1>13, <2>2
    <3> QED
      BY <1>7, <1>8, <1>11, <3>1
  <2>6. \A n \in 1..Len(t) : t[n].step \in {"approve", "built"} => n = Len(t)
    BY <1>8, <1>11, <1>13, <2>1, <2>2
  <2>7. \A n \in 1..Len(t) : t[n].step \notin {"delete", "unlink"}
    BY <1>8, <1>11, <1>13, <2>1, <2>2
  <2> QED
    BY <2>3, <2>4, <2>5, <2>6, <2>7 DEF InOrder
<1>16. Numbered' /\ InOrder(todo)'
  BY <1>1, <1>6, <1>11, <1>15, RecordStays DEF InOrder
<1>17. AllKnown'
  <2>1. PICK s : s = stored'
    OBVIOUS
  <2>2. PICK f : f = files'
    OBVIOUS
  <2>3. PICK h : h = handle
    OBVIOUS
  <2>4. \A id \in Ids : s[id] # NoMemory => Known(s[id])'
    <3>1. \A id \in Ids : s[id] # NoMemory => Known(s[id])
      BY <1>1, <1>4, <1>5, <1>6, <2>1, KnownMemories DEF MemoryTypeOK
    <3> QED
      BY <1>6, <3>1, KnownStays
  <2>5. \A id \in Ids : f[id] \in Memory => Allowed(f[id])'
    <3>1. \A id \in Ids : f[id] \in Memory => Allowed(f[id])
      BY <1>1, <1>4, <1>6, <2>2, MemoryAssumption DEF AllKnown, MemoryTypeOK
    <3> QED
      BY <1>6, <3>1, KnownStays
  <2>6. h # NoMemory => Known(h)'
    BY <1>1, <1>6, <2>3, KnownStays DEF AllKnown
  <2>7. \A n \in 1..Len(t) : t[n].memory # NoMemory => Known(t[n].memory)'
    <3>1. \A n \in 1..Len(t) : t[n].memory # NoMemory => Known(t[n].memory)
      BY <1>5, <1>8, <1>11, <1>12, <1>13
    <3> QED
      BY <1>6, <3>1, KnownStays
  <2> QED
    BY <1>6, <1>11, <2>1, <2>2, <2>3, <2>4, <2>5, <2>6, <2>7, AllKnownNext
<1>18. Matches'
  <2>1. ~At("write") /\ ~At("unlink")
    BY <1>1, HeadOfTodo DEF At
  <2>2. \A id \in Ids : id # newer.id =>
          Agree(id) /\ stored'[id] = stored[id] /\ files'[id] = files[id]
    BY <1>1, <1>4, <1>6, <2>1 DEF Matches, MemoryTypeOK
  <2>3. t # <<>> /\ Head(t) = write
    BY <1>11, EmptySeq, RestOfList
  <2>4. (At("write") /\ Subject = newer)'
    BY <1>8, <1>11, <2>3 DEF At, Idle, Subject
  <2> QED
    BY <1>1, <1>4, <2>2, <2>4, MatchesNext
<1>19. Held'
  <2>1. stored'[newer.id] = newer /\ files'[newer.id] = Torn
    BY <1>1, <1>4, <1>6 DEF MemoryTypeOK
  <2>2. \A n \in 1..Len(t) : t[n].step \in {"write", "vector"} =>
                               t[n].memory = newer
    BY <1>8, <1>11, <1>12, <1>13
  <2>3. \A n \in 1..Len(t) : t[n].step # "unlink"
    BY <1>8, <1>11, <1>12, <1>13
  <2> QED
    BY <1>4, <1>11, <2>1, <2>2, <2>3 DEF Held
<1>20. Completing'
  <2> SUFFICES ASSUME Building'
               PROVE  /\ saved = vectors
                      /\ \A id \in Ids : stored'[id] # NoMemory =>
                           (stored'[id].vector /\ id \in vectors) \/ ToIndex(id)'
                      /\ \A n \in 1..Len(t) : t[n].step = "index" =>
                           /\ stored'[t[n].memory.id] # NoMemory
                           /\ t[n].memory.vector =>
                                stored'[t[n].memory.id].vector
    BY <1>6, <1>11 DEF Completing
  <2>1. t[Len(t)].step = "built" /\ Len(t) \in 1..Len(t)
    BY <1>11 DEF Building
  <2>2. Len(t) \in 3..Len(t)
    BY <1>8, <1>11, <1>12, <2>1
  <2>3. Building
    BY <1>1, <1>9, <1>11, <1>13, <2>1, <2>2 DEF Building
  <2>4. ~At("save")
    BY <1>1, HeadOfTodo DEF At
  <2>5. /\ saved = vectors
        /\ \A id \in Ids : stored[id] # NoMemory =>
             (stored[id].vector /\ id \in vectors) \/ ToIndex(id)
        /\ \A n \in 1..Len(todo) : todo[n].step = "index" =>
             /\ stored[todo[n].memory.id] # NoMemory
             /\ todo[n].memory.vector => stored[todo[n].memory.id].vector
    BY <1>1, <2>3, <2>4 DEF Completing
  <2>6. \A id \in Ids : stored'[id] = IF id = newer.id THEN newer ELSE stored[id]
    BY <1>1, <1>4, <1>6 DEF MemoryTypeOK
  <2>7. ASSUME NEW id \in Ids, stored'[id] # NoMemory,
               ~(stored'[id].vector /\ id \in vectors)
        PROVE  ToIndex(id)'
    <3>1. CASE id = newer.id
      <4>1. 2 \in 1..Len(t) /\ t[2].step = "vector" /\ t[2].memory.id = id
        BY <1>8, <1>11, <3>1
      <4> QED
        BY <1>11, <4>1 DEF ToIndex
    <3>2. CASE id # newer.id
      <4>1. ToIndex(id)
        BY <2>5, <2>6, <2>7, <3>2
      <4>2. PICK n \in 1..Len(todo) : /\ todo[n].step \in {"index", "vector"}
                                      /\ todo[n].memory.id = id
        BY <4>1 DEF ToIndex
      <4>3. n # 1
        BY <1>1, <1>2, <1>4, <3>2, <4>2
      <4>4. n + 1 \in 3..Len(t) /\ (n + 1) - 1 = n
        BY <1>1, <1>9, <1>11, <4>2, <4>3
      <4>5. n + 1 \in 1..Len(t) /\ t[n + 1] = todo[n]
        BY <1>11, <1>13, <4>4
      <4> QED
        BY <1>11, <4>2, <4>5 DEF ToIndex
    <3> QED
      BY <3>1, <3>2
  <2>8. ASSUME NEW n \in 1..Len(t), t[n].step = "index"
        PROVE  /\ stored'[t[n].memory.id] # NoMemory
               /\ t[n].memory.vector => stored'[t[n].memory.id].vector
    <3>1. n \in 3..Len(t)
      BY <1>8, <1>11, <1>12, <2>8
    <3>2. n - 1 \in 1..Len(todo) /\ t[n] = todo[n - 1]
      BY <1>13, <3>1
    <3>3. /\ stored[t[n].memory.id] # NoMemory
          /\ t[n].memory.vector => stored[t[n].memory.id].vector
      BY <2>5, <2>8, <3>2
    <3>4. t[n].memory # NoMemory
      BY <1>1, <2>8, <3>2 DEF InOrder
    <3>5. t[n].memory \in Memory /\ t[n].memory.id \in Ids
      <4>1. t[n] \in Work /\ newer.id \in Ids
        BY <1>4
      <4> QED
        BY <3>4, <4>1 DEF Work, Memory
    <3> QED
      BY <1>4, <2>6, <3>3, <3>5
  <2> QED
    BY <2>5, <2>7, <2>8
<1> QED
  BY <1>14, <1>16, <1>17, <1>18, <1>19, <1>20 DEF MemoryInvariant

--------------------------------------------------------------------------------
(* The invariant.                                                          *)

\* The invariant holds of a store over no files.
LEMMA MemoryInit_Invariant ==
  ASSUME MemoryInit
  PROVE  MemoryInvariant
<1>1. /\ record = <<>> /\ stored = [id \in Ids |-> NoMemory]
      /\ files = [id \in Ids |-> NoMemory] /\ vectors = {} /\ saved = {}
      /\ handle = NoMemory /\ todo = <<>> /\ crashes = 0
  BY DEF MemoryInit
<1>2. MemoryTypeOK
  BY <1>1, NothingToDo, MemoryAssumption DEF MemoryTypeOK
<1>3. \A type, id : ~Recorded(type, id)
  BY <1>1 DEF Recorded
<1>4. Numbered
  <2>1. Asked = {}
    BY <1>3 DEF Asked
  <2>2. Made = 0
    BY <2>1, FS_EmptySet DEF Made, Asked
  <2> QED
    BY <1>3, <2>1, <2>2 DEF Numbered
<1>5. InOrder(todo)
  BY <1>1, NothingToDo
<1>6. AllKnown
  BY <1>1, NothingToDo, MemoryAssumption DEF AllKnown
<1>7. Matches
  BY <1>1, MemoryAssumption DEF Matches, Agree, Loaded
<1>8. Held /\ Completing
  BY <1>1, NothingToDo DEF Held, Completing, Building, Idle
<1> QED
  BY <1>2, <1>4, <1>5, <1>6, <1>7, <1>8 DEF MemoryInvariant

\* The documents beside the memories leave them alone.
LEMMA MemoryUnchanged ==
  ASSUME MemoryInvariant, UNCHANGED memoryVars
  PROVE  MemoryInvariant'
<1>1. UNCHANGED <<record, stored, files, vectors, saved, handle, todo, crashes>>
  BY DEF memoryVars
<1>2. MemoryTypeOK'
  BY <1>1 DEF MemoryInvariant, MemoryTypeOK
<1>3. Numbered'
  BY <1>1, RecordStays DEF MemoryInvariant
<1>4. InOrder(todo)'
  BY <1>1 DEF MemoryInvariant, InOrder
<1>5. AllKnown'
  BY <1>1 DEF MemoryInvariant, AllKnown, Known, Allowed, Recovered, Recorded,
              PromotionUnderWay, Idle
<1>6. Matches'
  BY <1>1 DEF MemoryInvariant, Matches, Agree, At, Idle, Subject
<1>7. Held'
  BY <1>1 DEF MemoryInvariant, Held
<1>8. Completing'
  BY <1>1 DEF MemoryInvariant, Completing, Building, ToIndex, At, Idle
<1> QED
  BY <1>2, <1>3, <1>4, <1>5, <1>6, <1>7, <1>8 DEF MemoryInvariant

\* Every operation and every step of one keeps the invariant.
LEMMA MemoryStepInvariant ==
  ASSUME MemoryInvariant, MemoryNext
  PROVE  MemoryInvariant'
<1>1. ASSUME MemoryStep
      PROVE  MemoryInvariant'
  BY <1>1, WriteSafe, PromotionApprovedSafe, IndexMemorySafe,
     IndexMemoryRaisesSafe, IndexVectorSafe, SaveIndexSafe, IndexBuiltSafe,
     DeleteMemorySafe, UnlinkSafe
  DEF MemoryStep
<1>2. ASSUME NEW policy, NEW violated,
             \/ PromotionRejected(policy, violated)
             \/ \E plain \in BOOLEAN : PromotionStored(policy, violated, plain)
      PROVE  MemoryInvariant'
  BY <1>2, PromotionRejectedSafe, PromotionStoredSafe
<1>3. ASSUME BuildIndexFromStore \/ IndexHandle
      PROVE  MemoryInvariant'
  BY <1>3, BuildIndexFromStoreSafe, IndexHandleSafe
<1>4. ASSUME NEW id \in Ids, DeleteFromIndex(id) \/ GetMemory(id)
      PROVE  MemoryInvariant'
  BY <1>4, DeleteFromIndexSafe, GetMemorySafe
<1>5. ASSUME NEW memory \in Stored, Delete(memory)
      PROVE  MemoryInvariant'
  BY <1>5, DeleteSafe
<1>6. ASSUME NEW before, CleanupOldMemories(before)
      PROVE  MemoryInvariant'
  BY <1>6, CleanupOldMemoriesSafe
<1> QED
  BY <1>1, <1>2, <1>3, <1>4, <1>5, <1>6 DEF MemoryNext

(***************************************************************************)
(* The inductive invariant of the store, its files, the index and the steps*)
(* that are left of an operation, in every state of a retriever.           *)
(***************************************************************************)
THEOREM MemoryInvariantHolds == RetrievalSpec => []MemoryInvariant
<1>1. RetrievalInit => MemoryInvariant
  BY MemoryInit_Invariant DEF RetrievalInit
<1>2. MemoryInvariant /\ [RetrievalNext]_retrievalVars => MemoryInvariant'
  <2> SUFFICES ASSUME MemoryInvariant, [RetrievalNext]_retrievalVars
               PROVE  MemoryInvariant'
    OBVIOUS
  <2>1. CASE MemoryNext
    BY <2>1, MemoryStepInvariant
  <2>2. CASE UNCHANGED memoryVars
    BY <2>2, MemoryUnchanged
  <2>3. CASE Restart
    BY <2>3, RestartSafe
  <2> QED
    BY <2>1, <2>2, <2>3 DEF RetrievalNext, RestartRetriever, retrievalVars
<1> QED
  BY <1>1, <1>2, PTL DEF RetrievalSpec

(***************************************************************************)
(* Only what the policy allowed is in the store, in a file or in the hands *)
(* of a caller (memory_promotion.promote_memory), whatever restarts,       *)
(* deletions and indexing do, and its approval is on record.               *)
(***************************************************************************)
THEOREM MemoriesAlwaysPromoted == RetrievalSpec => []PromotedThroughPolicy
<1>1. MemoryInvariant => PromotedThroughPolicy
  <2> SUFFICES ASSUME MemoryInvariant
               PROVE  PromotedThroughPolicy
    OBVIOUS
  <2>1. MemoryTypeOK /\ AllKnown
    BY DEF MemoryInvariant
  <2>2. ASSUME NEW memory \in Stored
        PROVE  /\ Allowed(memory)
               /\ Recovered(memory) \/ PromotionUnderWay(memory)
    <3>1. PICK id \in Ids : stored[id] = memory /\ memory # NoMemory
      BY DEF Stored
    <3> QED
      BY <2>1, <3>1 DEF AllKnown, Known
  <2>3. ASSUME NEW memory \in {files[id] : id \in Ids} \ {NoMemory, Torn}
        PROVE  Allowed(memory)
    <3>1. PICK id \in Ids : files[id] = memory
      BY <2>3
    <3>2. memory \in Memory
      BY <2>1, <2>3, <3>1 DEF MemoryTypeOK
    <3> QED
      BY <2>1, <3>1, <3>2 DEF AllKnown
  <2>4. ASSUME NEW memory \in {handle} \ {NoMemory}
        PROVE  Allowed(memory)
    BY <2>1, <2>4 DEF AllKnown, Known
  <2> QED
    BY <2>2, <2>3, <2>4
    DEF PromotedThroughPolicy, Allowed, Recovered, PromotionUnderWay
<1> QED
  BY <1>1, MemoryInvariantHolds, PTL

(***************************************************************************)
(* The store of a process and its files agree between operations           *)
(* (MemoryStore.add_memory, delete_memory and the load at the start),      *)
(* whatever was raised or failed in between.                               *)
(***************************************************************************)
THEOREM StoreAlwaysMatches == RetrievalSpec => []StoreMatchesFiles
<1>1. MemoryInvariant => StoreMatchesFiles
  BY DEF MemoryInvariant, Matches, Agree, At, StoreMatchesFiles
<1> QED
  BY <1>1, MemoryInvariantHolds, PTL

(***************************************************************************)
(* When build_index_from_store returns, every memory of the store has its  *)
(* vector in the store, in its file and in both forms of the index.        *)
(***************************************************************************)
THEOREM IndexAlwaysBuilt == RetrievalSpec => []BuildIndexesAll
<1>1. MemoryInvariant => BuildIndexesAll
  <2> SUFFICES ASSUME MemoryInvariant, At("built"), NEW memory \in Stored
               PROVE  /\ memory.vector /\ files[memory.id] = memory
                      /\ memory.id \in vectors /\ memory.id \in saved
    BY DEF BuildIndexesAll
  <2>1. /\ MemoryTypeOK /\ InOrder(todo) /\ AllKnown /\ Matches /\ Completing
        /\ ~Idle /\ todo[1].step = "built" /\ Head(todo) = todo[1]
        /\ Len(todo) \in Nat /\ 1 \in 1..Len(todo)
    BY HeadOfTodo DEF MemoryInvariant, At
  <2>2. Len(todo) = 1 /\ Building
    BY <2>1 DEF InOrder, Building
  <2>3. ~At("save") /\ ~At("write") /\ ~At("unlink")
    BY <2>1 DEF At
  <2>4. \A id \in Ids : ~ToIndex(id)
    BY <2>1, <2>2 DEF ToIndex
  <2>5. PICK id \in Ids : stored[id] = memory /\ memory # NoMemory
    BY DEF Stored
  <2>6. memory.id = id
    BY <2>1, <2>5 DEF MemoryTypeOK
  <2>7. memory.vector /\ id \in vectors /\ saved = vectors
    BY <2>1, <2>2, <2>3, <2>4, <2>5 DEF Completing
  <2>8. memory.plain
    BY <2>1, <2>5, <2>7 DEF AllKnown, Known, Allowed
  <2>9. files[id] = memory
    BY <2>1, <2>3, <2>5, <2>8 DEF Matches, Agree, Loaded
  <2> QED
    BY <2>6, <2>7, <2>9
<1> QED
  BY <1>1, MemoryInvariantHolds, PTL

--------------------------------------------------------------------------------
(***************************************************************************)
(* What is computed one after the other.                                   *)
(***************************************************************************)

\* A set of numbers has a least one.
LEMMA LeastNumber ==
  ASSUME NEW T, T \subseteq Nat, T # {}
  PROVE  \E least \in T : \A m \in T : least <= m
<1>1. PICK x \in T : \A y \in T : ~(<<y, x>> \in OpToRel(<, Nat))
  BY NatLessThanWellFounded, WFMin
<1>2. \A y \in T : ~(y < x)
  BY <1>1 DEF OpToRel
<1>3. \A m \in T : x <= m
  BY <1>2
<1> QED
  BY <1>3

\* f is what n steps make of a base, each of what the one before made.
Iterates(f, base, step, n) ==
  f = [k \in 0..n |-> IF k = 0 THEN base ELSE step[<<k, f[k - 1]>>]]

\* There is such a function if the steps do not leave a set.
LEMMA IterationExists ==
  ASSUME NEW S, NEW base \in S, NEW step, NEW n \in Nat,
         \A k \in 1..n, x \in S : step[<<k, x>>] \in S
  PROVE  \E f \in [0..n -> S] : Iterates(f, base, step, n)
<1> DEFINE None_(k) == \A f \in [0..k -> S] : ~Iterates(f, base, step, k)
           T == {k \in 0..n : None_(k)}
<1> SUFFICES ASSUME T # {}
             PROVE  FALSE
  OBVIOUS
<1>1. PICK least \in T : \A m \in T : least <= m
  <2>1. T \subseteq Nat
    OBVIOUS
  <2> HIDE DEF T
  <2> QED
    BY <2>1, LeastNumber
<1>2. CASE least = 0
  <2> DEFINE f == [k \in 0..0 |-> base]
  <2>1. f \in [0..0 -> S] /\ Iterates(f, base, step, 0)
    BY DEF Iterates
  <2> QED
    BY <1>2, <2>1
<1>3. CASE least # 0
  <2>1. least \in 1..n /\ least - 1 \in 0..n /\ least - 1 \notin T
    BY <1>1, <1>3
  <2>2. PICK f \in [0..(least - 1) -> S] : Iterates(f, base, step, least - 1)
    BY <2>1
  <2> DEFINE last == step[<<least, f[least - 1]>>]
             g == [k \in 0..least |-> IF k = least THEN last ELSE f[k]]
  <2>3. \A k \in 0..(least - 1) :
          f[k] = IF k = 0 THEN base ELSE step[<<k, f[k - 1]>>]
    BY <2>2 DEF Iterates
  <2>4. last \in S
    BY <2>1
  <2>5. g \in [0..least -> S]
    BY <2>1, <2>4
  <2>6. \A k \in 0..least :
          g[k] = IF k = 0 THEN base ELSE step[<<k, g[k - 1]>>]
    <3> TAKE k \in 0..least
    <3>1. CASE k = least
      <4>1. least - 1 \in 0..least /\ least - 1 # least
        BY <1>3, <2>1
      <4>2. g[least - 1] = f[least - 1]
        BY <4>1
      <4> QED
        BY <1>3, <3>1, <4>2
    <3>2. CASE k # least
      <4>1. k \in 0..(least - 1) /\ g[k] = f[k]
        BY <3>2
      <4>2. k # 0 => k - 1 \in 0..least /\ k - 1 # least
        BY <4>1
      <4>3. k # 0 => g[k - 1] = f[k - 1]
        BY <4>2
      <4> QED
        BY <2>3, <4>1, <4>3
    <3> QED
      BY <3>1, <3>2
  <2>7. Iterates(g, base, step, least)
    <3> DEFINE h == [k \in 0..least |->
                       IF k = 0 THEN base ELSE step[<<k, g[k - 1]>>]]
    <3>1. g = h
      BY <2>6
    <3> QED
      BY <3>1 DEF Iterates
  <2> QED
    BY <1>1, <2>5, <2>7
<1> QED
  BY <1>2, <1>3

\* f takes these steps as long as it is in the set.
Stepwise(f, S, base, step, n) ==
  /\ base \in S /\ n \in Nat
  /\ \A k \in 1..n, x \in S : step[<<k, x>>] \in S
  /\ f[0] = base
  /\ \A k \in 1..n : f[k - 1] \in S => f[k] = step[<<k, f[k - 1]>>]

\* Then it stays there.
LEMMA IterationStays ==
  ASSUME NEW S, NEW base, NEW step, NEW n, NEW f, Stepwise(f, S, base, step, n)
  PROVE  \A k \in 0..n : f[k] \in S
<1>6. n \in Nat
  BY DEF Stepwise
<1> DEFINE T == {k \in 0..n : f[k] \notin S}
<1> SUFFICES ASSUME T # {}
             PROVE  FALSE
  OBVIOUS
<1>1. PICK least \in T : \A m \in T : least <= m
  <2>1. T \subseteq Nat
    BY <1>6
  <2> HIDE DEF T
  <2> QED
    BY <2>1, LeastNumber
<1>2. least # 0
  BY <1>1 DEF Stepwise
<1>3. least \in 1..n /\ least - 1 \in 0..n /\ least - 1 \notin T
  BY <1>1, <1>2, <1>6
<1>4. f[least - 1] \in S
  BY <1>3
<1>5. f[least] = step[<<least, f[least - 1]>>]
  BY <1>3, <1>4 DEF Stepwise
<1> QED
  BY <1>1, <1>3, <1>4, <1>5 DEF Stepwise

--------------------------------------------------------------------------------
(***************************************************************************)
(* Evidence graphs.                                                        *)
(***************************************************************************)
NodeSet == [type : {"source"} \cup StepTypes, confidence : Weights]

EdgeSet(ends) ==
  [from : ends, to : ends,
   type : {"supports", "contradicts", "requires_more_evidence"},
   confidence : 0..100]

EvidenceInv ==
  /\ made \in Nat
  /\ DOMAIN nodes \subseteq 1..made
  /\ nodes \in [DOMAIN nodes -> NodeSet]
  /\ edges \in Seq(EdgeSet(DOMAIN nodes))
  /\ \A id \in DOMAIN step_to_node_map : step_to_node_map[id] \in DOMAIN nodes

\* A finite set is put in some order.
LEMMA OrderOf ==
  ASSUME NEW set, IsFiniteSet(set)
  PROVE  SetToSeq(set) \in Seq(set)
<1>1. Cardinality(set) \in Nat
  BY FS_CardinalityType
<1>2. ExistsBijection(1..Cardinality(set), set)
  BY FS_CardinalityType
<1>3. PICK f \in Bijection(1..Cardinality(set), set) : TRUE
  BY <1>2 DEF ExistsBijection
<1>4. f \in [1..Cardinality(set) -> set] /\ IsInjective(f)
  BY <1>3 DEF Bijection, Injection, IsInjective
<1>5. SetToSeq(set) \in [1..Cardinality(set) -> set]
  BY <1>4 DEF SetToSeq
<1> QED
  BY <1>1, <1>5

\* The edges of a new node lead to what it names.
LEMMA EdgesLead ==
  ASSUME NEW ends, NEW node \in ends, NEW targets, targets \subseteq ends,
         IsFiniteSet(targets),
         NEW type \in {"supports", "contradicts", "requires_more_evidence"},
         NEW confidence \in 0..100
  PROVE  LET known == SetToSeq(targets)
         IN  [n \in DOMAIN known |-> Edge(node, known[n], type, confidence)]
               \in Seq(EdgeSet(ends))
<1> DEFINE known == SetToSeq(targets)
<1>1. known \in Seq(targets)
  BY OrderOf
<1> HIDE DEF known
<1>2. \A n \in DOMAIN known : Edge(node, known[n], type, confidence) \in EdgeSet(ends)
  BY <1>1 DEF Edge, EdgeSet
<1>3. Len(known) \in Nat /\ DOMAIN known = 1..Len(known)
  BY <1>1
<1>4. [n \in DOMAIN known |-> Edge(node, known[n], type, confidence)]
        \in [1..Len(known) -> EdgeSet(ends)]
  BY <1>2, <1>3
<1>5. [n \in DOMAIN known |-> Edge(node, known[n], type, confidence)]
        \in Seq(EdgeSet(ends))
  BY <1>3, <1>4
<1> QED
  BY <1>5 DEF known

\* Edges among some nodes are edges among more.
LEMMA EdgesAmongMore ==
  ASSUME NEW some, NEW ends, some \subseteq ends, NEW E \in Seq(EdgeSet(some))
  PROVE  E \in Seq(EdgeSet(ends))
<1>1. EdgeSet(some) \subseteq EdgeSet(ends)
  BY DEF EdgeSet
<1> QED
  BY <1>1

\* A node is made.
LEMMA NodeMade ==
  ASSUME EvidenceInv, NEW type \in {"source"} \cup StepTypes, NEW confidence \in Weights,
         AddNode(type, confidence)
  PROVE  /\ made' \in Nat
         /\ DOMAIN nodes' = DOMAIN nodes \cup {NewNode}
         /\ DOMAIN nodes' \subseteq 1..made'
         /\ nodes' \in [DOMAIN nodes' -> NodeSet]
<1>1. made' = made + 1 /\ nodes' = With(nodes, made + 1, [type |-> type, confidence |-> confidence])
  BY DEF AddNode, NewNode
<1>2. DOMAIN nodes' = DOMAIN nodes \cup {made + 1}
  BY <1>1 DEF With
<1>3. \A k \in DOMAIN nodes' : nodes'[k] \in NodeSet
  BY <1>1 DEF With, NodeSet, EvidenceInv
<1>4. nodes' = [k \in DOMAIN nodes' |-> nodes'[k]]
  BY <1>1 DEF With
<1> QED
  BY <1>1, <1>2, <1>3, <1>4 DEF EvidenceInv, NewNode

LEMMA StepAdded ==
  ASSUME EvidenceInv, NEW step \in ReasoningStep, AddStep(step)
  PROVE  EvidenceInv'
<1> DEFINE ends == DOMAIN nodes'
           steps == With(step_to_node_map, step.id, NewNode)
           NodesOf(ids) == {steps[id] : id \in ids \cap DOMAIN steps}
           EdgesTo(targets, type, confidence) ==
             LET known == SetToSeq(targets)
             IN  [n \in DOMAIN known |-> Edge(NewNode, known[n], type, confidence)]
<1>1. /\ step.type \in StepTypes /\ step.confidence \in Weights
      /\ 9 * step.confidence \in 0..100 /\ 10 * step.confidence \in 0..100
  <2>1. step.type \in StepTypes /\ step.confidence \in Weights
    BY DEF ReasoningStep
  <2>2. step.confidence \in 0..10
    BY <2>1, EvidenceAssumption
  <2>3. \A n \in 0..10 : 9 * n \in 0..100 /\ 10 * n \in 0..100
    OBVIOUS
  <2> QED
    BY <2>1, <2>2, <2>3
<1>2. AddNode(step.type, step.confidence)
  BY DEF AddStep
<1>3. /\ made' \in Nat
      /\ ends = DOMAIN nodes \cup {NewNode}
      /\ ends \subseteq 1..made'
      /\ nodes' \in [ends -> NodeSet]
  BY <1>1, <1>2, NodeMade
<1>4. step_to_node_map' = steps
  BY DEF AddStep
<1>5. \A id \in DOMAIN steps : steps[id] \in ends
  BY <1>3 DEF EvidenceInv, With
<1>6. \A ids : NodesOf(ids) \subseteq ends
  BY <1>5
<1>7. \A set \in SUBSET ends : IsFiniteSet(set)
  <2>1. \A n \in Nat : IsFiniteSet(1..n)
    <3> TAKE n \in Nat
    <3> QED
      BY FS_Interval
  <2> HIDE DEF ends, steps
  <2>2. IsFiniteSet(1..made')
    BY <1>3, <2>1
  <2> QED
    BY <1>3, <2>2, FS_Subset
<1>8. NewNode \in ends
  BY <1>3
<1>9. edges' = edges
        \o EdgesTo(NodesOf(step.supports), "supports", 9 * step.confidence)
        \o EdgesTo(NodesOf(step.contradicts), "contradicts", 10 * step.confidence)
        \o EdgesTo(step.requires \cap DOMAIN nodes', "requires_more_evidence",
                   10 * step.confidence)
  BY DEF AddStep
<1> HIDE DEF ends, steps
<1>10. /\ EdgesTo(NodesOf(step.supports), "supports", 9 * step.confidence)
            \in Seq(EdgeSet(ends))
       /\ EdgesTo(NodesOf(step.contradicts), "contradicts", 10 * step.confidence)
            \in Seq(EdgeSet(ends))
  BY <1>1, <1>6, <1>7, <1>8, EdgesLead
<1>11. EdgesTo(step.requires \cap ends, "requires_more_evidence", 10 * step.confidence)
         \in Seq(EdgeSet(ends))
  BY <1>1, <1>7, <1>8, EdgesLead
<1>12. edges \in Seq(EdgeSet(ends))
  <2>1. edges \in Seq(EdgeSet(DOMAIN nodes)) /\ DOMAIN nodes \subseteq ends
    BY <1>3 DEF EvidenceInv
  <2> QED
    BY <2>1, EdgesAmongMore
<1>13. edges' \in Seq(EdgeSet(ends))
  <2> DEFINE E == EdgeSet(ends)
             a == EdgesTo(NodesOf(step.supports), "supports", 9 * step.confidence)
             b == EdgesTo(NodesOf(step.contradicts), "contradicts", 10 * step.confidence)
             c == EdgesTo(step.requires \cap ends, "requires_more_evidence",
                          10 * step.confidence)
  <2>1. edges' = edges \o a \o b \o c
    BY <1>9 DEF ends
  <2>2. edges \in Seq(E) /\ a \in Seq(E) /\ b \in Seq(E) /\ c \in Seq(E)
    BY <1>10, <1>11, <1>12
  <2> HIDE DEF a, b, c, E
  <2>3. edges \o a \in Seq(E)
    BY <2>2
  <2>4. edges \o a \o b \in Seq(E)
    BY <2>2, <2>3
  <2> QED
    BY <2>1, <2>2, <2>4 DEF E
<1> QED
  BY <1>3, <1>4, <1>5, <1>13 DEF EvidenceInv, ends

\* Every step keeps a graph that was built.
LEMMA EvidenceNextKeeps ==
  ASSUME EvidenceInv, [EvidenceNext]_evidenceVars
  PROVE  EvidenceInv'
<1>1. ASSUME NEW confidence \in Weights, AddSourceNode(confidence)
      PROVE  EvidenceInv'
  <2>1. /\ made' \in Nat
        /\ DOMAIN nodes' = DOMAIN nodes \cup {NewNode}
        /\ DOMAIN nodes' \subseteq 1..made'
        /\ nodes' \in [DOMAIN nodes' -> NodeSet]
    BY <1>1, NodeMade DEF AddSourceNode
  <2>2. edges' = edges /\ step_to_node_map' = step_to_node_map
    BY <1>1 DEF AddSourceNode
  <2>3. edges \in Seq(EdgeSet(DOMAIN nodes'))
    <3>1. edges \in Seq(EdgeSet(DOMAIN nodes)) /\ DOMAIN nodes \subseteq DOMAIN nodes'
      BY <2>1 DEF EvidenceInv
    <3> QED
      BY <3>1, EdgesAmongMore
  <2> QED
    BY <2>1, <2>2, <2>3 DEF EvidenceInv
<1>2. ASSUME NEW step \in ReasoningStep, AddStep(step)
      PROVE  EvidenceInv'
  BY <1>2, StepAdded
<1>3. ASSUME NEW from \in DOMAIN nodes, NEW to \in DOMAIN nodes,
             NEW type \in {"supports", "contradicts"}, NEW confidence \in Weights,
             AddRelation(from, to, type, confidence)
      PROVE  EvidenceInv'
  <2>1. 10 * confidence \in 0..100
    BY EvidenceAssumption
  <2>2. Edge(from, to, type, 10 * confidence) \in EdgeSet(DOMAIN nodes)
    BY <2>1 DEF Edge, EdgeSet
  <2>3. edges' \in Seq(EdgeSet(DOMAIN nodes))
    BY <1>3, <2>2 DEF AddRelation, EvidenceInv
  <2> QED
    BY <1>3, <2>3 DEF AddRelation, EvidenceInv
<1>4. ASSUME ClearBuilder
      PROVE  EvidenceInv'
  <2>1. DOMAIN EmptyMap = {} /\ EmptyMap \in [{} -> NodeSet]
    BY DEF EmptyMap
  <2> QED
    BY <1>4, <2>1 DEF ClearBuilder, EvidenceInv
<1>5. ASSUME UNCHANGED evidenceVars
      PROVE  EvidenceInv'
  BY <1>5 DEF evidenceVars, EvidenceInv
<1> QED
  BY <1>1, <1>2, <1>3, <1>4, <1>5 DEF EvidenceNext

LEMMA EvidenceBegins ==
  ASSUME EvidenceInit
  PROVE  EvidenceInv
<1>1. DOMAIN EmptyMap = {} /\ EmptyMap \in [{} -> NodeSet]
  BY DEF EmptyMap
<1> QED
  BY <1>1 DEF EvidenceInit, EvidenceInv

LEMMA EvidenceAlways == ReasoningSpec => []EvidenceInv
<1>1. ReasoningInit => EvidenceInv
  BY EvidenceBegins DEF ReasoningInit
<1>2. EvidenceInv /\ [ReasoningNext]_reasoningVars => EvidenceInv'
  <2> SUFFICES ASSUME EvidenceInv, [ReasoningNext]_reasoningVars
               PROVE  EvidenceInv'
    OBVIOUS
  <2>1. [EvidenceNext]_evidenceVars
    BY DEF ReasoningNext, reasoningVars
  <2> QED
    BY <2>1, EvidenceNextKeeps
<1> QED
  BY <1>1, <1>2, PTL DEF ReasoningSpec

THEOREM EdgesAlwaysResolve == ReasoningSpec => []EdgesResolve
<1>1. EvidenceInv => EdgesResolve
  <2> SUFFICES ASSUME EvidenceInv
               PROVE  EdgesResolve
    OBVIOUS
  <2>1. \A n \in DOMAIN edges : edges[n] \in EdgeSet(DOMAIN nodes)
    BY DEF EvidenceInv
  <2> QED
    BY <2>1 DEF EvidenceInv, EdgesResolve, EdgeSet
<1> QED
  BY <1>1, EvidenceAlways, PTL

--------------------------------------------------------------------------------
(***************************************************************************)
(* What edges are worth, of any graph.                                     *)
(***************************************************************************)
StrengthOf(E, N, given) ==
  LET sum[n \in 0..Len(E)] ==
        IF n = 0 THEN 0
        ELSE IF n \in given
             THEN sum[n - 1] + N[E[n].from].confidence * E[n].confidence
             ELSE sum[n - 1]
  IN  sum[Len(E)]

\* f is the worth of the first n edges given.
Sums(f, E, N, given) ==
  /\ f \in [0..Len(E) -> Nat]
  /\ f[0] = 0
  /\ \A n \in 1..Len(E) :
       f[n] = IF n \in given
              THEN f[n - 1] + N[E[n].from].confidence * E[n].confidence
              ELSE f[n - 1]

\* Edges lead from node to node, and confidences are numbers.
LEMMA EdgeHas ==
  ASSUME NEW D, NEW e \in EdgeSet(D)
  PROVE  e.from \in D /\ e.to \in D /\ e.confidence \in Nat
<1>1. e.from \in D /\ e.to \in D /\ e.confidence \in 0..100
  BY DEF EdgeSet
<1>2. \A n \in 0..100 : n \in Nat
  OBVIOUS
<1> QED
  BY <1>1, <1>2

LEMMA NodeHas ==
  ASSUME NEW node \in NodeSet
  PROVE  node.confidence \in 0..10
<1>1. node.confidence \in Weights
  BY DEF NodeSet
<1> QED
  BY <1>1, EvidenceAssumption

\* So is what an edge is worth.
LEMMA WorthIs ==
  ASSUME NEW D, NEW N \in [D -> NodeSet], NEW E \in Seq(EdgeSet(D)),
         NEW n \in 1..Len(E)
  PROVE  N[E[n].from].confidence * E[n].confidence \in Nat
<1>1. PICK e \in EdgeSet(D) : e = E[n]
  OBVIOUS
<1>2. e.from \in D /\ e.confidence \in Nat
  BY EdgeHas
<1>3. PICK node \in NodeSet : node = N[e.from]
  BY <1>2
<1>4. node.confidence \in 0..10
  BY NodeHas
<1>5. \A a \in 0..10, b \in Nat : a * b \in Nat
  OBVIOUS
<1>6. node.confidence * e.confidence \in Nat
  BY <1>2, <1>4, <1>5
<1> QED
  BY <1>1, <1>3, <1>6

\* The sum has a value, and it is a number.
LEMMA StrengthIs ==
  ASSUME NEW D, NEW N \in [D -> NodeSet], NEW E \in Seq(EdgeSet(D)), NEW given
  PROVE  \E f : Sums(f, E, N, given) /\ StrengthOf(E, N, given) = f[Len(E)]
<1> DEFINE worth(n) == N[E[n].from].confidence * E[n].confidence
           step == [p \in (1..Len(E)) \X Nat |->
                      IF p[1] \in given THEN p[2] + worth(p[1]) ELSE p[2]]
           Is(f) == f = [n \in 0..Len(E) |->
                           IF n = 0 THEN 0
                           ELSE IF n \in given THEN f[n - 1] + worth(n) ELSE f[n - 1]]
<1>1. Len(E) \in Nat /\ DOMAIN E = 1..Len(E)
  OBVIOUS
<1>2. \A n \in 1..Len(E) : worth(n) \in Nat
  BY WorthIs
<1> HIDE DEF worth
<1>3. \A n \in 1..Len(E), x \in Nat :
        step[<<n, x>>] = IF n \in given THEN x + worth(n) ELSE x
  OBVIOUS
<1>4. \A n \in 1..Len(E), x \in Nat : step[<<n, x>>] \in Nat
  <2> HIDE DEF step
  <2> TAKE n \in 1..Len(E), x \in Nat
  <2>1. worth(n) \in Nat
    BY <1>2
  <2>2. x + worth(n) \in Nat
    BY <2>1
  <2> QED
    BY <1>3, <2>2
<1> HIDE DEF step
<1>5. PICK f \in [0..Len(E) -> Nat] : Iterates(f, 0, step, Len(E))
  BY <1>1, <1>4, IterationExists
<1>6. \A n \in 0..Len(E) : f[n] = IF n = 0 THEN 0 ELSE step[<<n, f[n - 1]>>]
  BY <1>5 DEF Iterates
<1>7. \A n \in 0..Len(E) :
        f[n] = IF n = 0 THEN 0
               ELSE IF n \in given THEN f[n - 1] + worth(n) ELSE f[n - 1]
  <2> TAKE n \in 0..Len(E)
  <2>1. CASE n = 0
    BY <1>6, <2>1
  <2>2. CASE n # 0
    <3>1. n \in 1..Len(E) /\ n - 1 \in 0..Len(E)
      BY <1>1, <2>2
    <3>2. f[n - 1] \in Nat
      BY <3>1
    <3>3. f[n] = step[<<n, f[n - 1]>>]
      BY <1>6, <2>2
    <3> QED
      BY <1>3, <2>2, <3>1, <3>2, <3>3
  <2> QED
    BY <2>1, <2>2
<1>8. Is(f)
  <2> DEFINE g == [n \in 0..Len(E) |->
                     IF n = 0 THEN 0
                     ELSE IF n \in given THEN f[n - 1] + worth(n) ELSE f[n - 1]]
  <2>1. f = g
    BY <1>7
  <2> QED
    BY <2>1
<1> DEFINE c == CHOOSE g : Is(g)
<1>9. Is(c)
  BY <1>8
<1>10. StrengthOf(E, N, given) = c[Len(E)]
  BY DEF StrengthOf, worth
<1>11. \A n \in 0..Len(E) : c[n] = f[n]
  <2> DEFINE T == {n \in 0..Len(E) : c[n] # f[n]}
  <2> SUFFICES ASSUME T # {}
               PROVE  FALSE
    OBVIOUS
  <2>1. PICK least \in T : \A m \in T : least <= m
    <3>1. T \subseteq Nat
      OBVIOUS
    <3> HIDE DEF T
    <3> QED
      BY <3>1, LeastNumber
  <2>2. c[least] = IF least = 0 THEN 0
                   ELSE IF least \in given THEN c[least - 1] + worth(least)
                   ELSE c[least - 1]
    <3> HIDE DEF c
    <3> QED
      BY <1>9, <2>1
  <2>3. least # 0
    BY <1>7, <2>1, <2>2
  <2>4. least - 1 \in 0..Len(E) /\ least - 1 \notin T
    BY <2>1, <2>3
  <2> HIDE DEF c
  <2>5. c[least - 1] = f[least - 1]
    BY <2>4
  <2> QED
    BY <1>7, <2>1, <2>2, <2>3, <2>5
<1>12. Sums(f, E, N, given)
  BY <1>1, <1>7 DEF Sums, worth
<1> QED
  BY <1>1, <1>10, <1>11, <1>12

\* One more edge: of what was given before, the worth is the same; with it, the
\* worth is not less.
LEMMA StrengthGrows ==
  ASSUME NEW D, NEW N \in [D -> NodeSet], NEW E \in Seq(EdgeSet(D)), NEW e \in EdgeSet(D),
         NEW given, NEW more,
         \A n \in 1..Len(E) : n \in given <=> n \in more
  PROVE  /\ StrengthOf(E, N, given) \in Nat
         /\ StrengthOf(Append(E, e), N, more) \in Nat
         /\ StrengthOf(E, N, given) <= StrengthOf(Append(E, e), N, more)
         /\ Len(E) + 1 \notin more =>
              StrengthOf(Append(E, e), N, more) = StrengthOf(E, N, given)
<1> DEFINE G == Append(E, e)
<1>1. /\ G \in Seq(EdgeSet(D)) /\ Len(G) = Len(E) + 1 /\ Len(E) \in Nat
      /\ \A n \in 1..Len(E) : G[n] = E[n]
  OBVIOUS
<1> HIDE DEF G
<1>2. PICK f : Sums(f, E, N, given) /\ StrengthOf(E, N, given) = f[Len(E)]
  BY StrengthIs
<1>3. PICK g : Sums(g, G, N, more) /\ StrengthOf(G, N, more) = g[Len(G)]
  BY <1>1, StrengthIs
<1>4. \A n \in 0..Len(E) : f[n] = g[n]
  <2> DEFINE T == {n \in 0..Len(E) : f[n] # g[n]}
  <2> SUFFICES ASSUME T # {}
               PROVE  FALSE
    OBVIOUS
  <2>1. PICK least \in T : \A m \in T : least <= m
    <3>1. T \subseteq Nat
      OBVIOUS
    <3> HIDE DEF T
    <3> QED
      BY <3>1, LeastNumber
  <2>2. least # 0
    BY <1>2, <1>3, <2>1 DEF Sums
  <2>3. least \in 1..Len(E) /\ least \in 1..Len(G) /\ least - 1 \notin T
    BY <1>1, <2>1, <2>2
  <2>4. f[least - 1] = g[least - 1]
    BY <1>1, <2>3
  <2>5. f[least] = IF least \in given
                   THEN f[least - 1] + N[E[least].from].confidence * E[least].confidence
                   ELSE f[least - 1]
    BY <1>2, <2>3 DEF Sums
  <2>6. g[least] = IF least \in more
                   THEN g[least - 1] + N[G[least].from].confidence * G[least].confidence
                   ELSE g[least - 1]
    BY <1>3, <2>3 DEF Sums
  <2> QED
    BY <1>1, <2>1, <2>3, <2>4, <2>5, <2>6
<1> DEFINE last == N[G[Len(G)].from].confidence * G[Len(G)].confidence
<1>5. last \in Nat
  <2>1. Len(G) \in 1..Len(G)
    BY <1>1
  <2> QED
    BY <1>1, <2>1, WorthIs
<1>6. g[Len(G)] = IF Len(G) \in more THEN g[Len(G) - 1] + last ELSE g[Len(G) - 1]
  <2>1. Len(G) \in 1..Len(G)
    BY <1>1
  <2> QED
    BY <1>3, <2>1 DEF Sums
<1> HIDE DEF last
<1>7. g[Len(G) - 1] = f[Len(E)] /\ f[Len(E)] \in Nat
  BY <1>1, <1>2, <1>4 DEF Sums
<1> QED
  BY <1>1, <1>2, <1>3, <1>5, <1>6, <1>7 DEF G

--------------------------------------------------------------------------------
(***************************************************************************)
(* The confidence in a conclusion, of any graph.                           *)
(***************************************************************************)
IntoOf(E, node, type) == {n \in DOMAIN E : E[n].to = node /\ E[n].type = type}

CountOf(E, node) == AtLeast(1, Cardinality(IntoOf(E, node, "supports")))

CombinedOf(E, N, node) ==
  300 * N[node].confidence * CountOf(E, node)
    + 7 * StrengthOf(E, N, IntoOf(E, node, "supports"))

PenaltyOf(E, N, node) ==
  5 * CountOf(E, node) * StrengthOf(E, N, IntoOf(E, node, "contradicts"))

ConfidenceOf(E, N, node) ==
  IF IntoOf(E, node, "supports") = {} THEN 1000 * N[node].confidence
  ELSE AtMost(10000 * CountOf(E, node),
              AtLeast(0, CombinedOf(E, N, node) - PenaltyOf(E, N, node)))

\* The graph at hand is one of them.
LEMMA OfThisGraph ==
  /\ \A node : ConclusionConfidence(node) = ConfidenceOf(edges, nodes, node)
  /\ \A node : SupportCount(node) = CountOf(edges, node)
  /\ \A node : ConclusionConfidence(node)' = ConfidenceOf(edges', nodes', node)
  /\ \A node : SupportCount(node)' = CountOf(edges', node)
BY DEF ConclusionConfidence, ConfidenceOf, SupportCount, CountOf, Combined, CombinedOf,
       PenaltyOf, Into, IntoOf, Strength, StrengthOf

\* Places in a sequence are finitely many.
LEMMA PlacesCounted ==
  ASSUME NEW n \in Nat, NEW S, S \subseteq 1..n
  PROVE  IsFiniteSet(S) /\ Cardinality(S) \in Nat
<1>1. IsFiniteSet(1..n)
  BY FS_Interval
<1>2. IsFiniteSet(S)
  BY <1>1, FS_Subset
<1> QED
  BY <1>2, FS_CardinalityType

\* What a confidence is made of.
LEMMA ConfidenceParts ==
  ASSUME NEW D, NEW N \in [D -> NodeSet], NEW E \in Seq(EdgeSet(D)), NEW node \in D
  PROVE  /\ N[node].confidence \in 0..10
         /\ CountOf(E, node) \in Nat \ {0}
         /\ IntoOf(E, node, "supports") = {} => CountOf(E, node) = 1
         /\ CombinedOf(E, N, node) \in Nat
         /\ PenaltyOf(E, N, node) \in Nat
<1>1. N[node].confidence \in 0..10
  BY NodeHas
<1>2. Cardinality(IntoOf(E, node, "supports")) \in Nat
  <2>1. Len(E) \in Nat /\ DOMAIN E = 1..Len(E)
    OBVIOUS
  <2>2. IsFiniteSet(1..Len(E))
    BY <2>1, FS_Interval
  <2>3. IntoOf(E, node, "supports") \subseteq 1..Len(E)
    BY <2>1 DEF IntoOf
  <2> QED
    BY <2>2, <2>3, FS_Subset, FS_CardinalityType
<1>3. CountOf(E, node) \in Nat \ {0}
  BY <1>2 DEF CountOf, AtLeast
<1>4. IntoOf(E, node, "supports") = {} => CountOf(E, node) = 1
  <2>1. Cardinality({}) = 0
    BY FS_EmptySet
  <2>2. AtLeast(1, 0) = 1
    BY DEF AtLeast
  <2> QED
    BY <2>1, <2>2 DEF CountOf
<1>5. ASSUME NEW given
      PROVE  StrengthOf(E, N, given) \in Nat
  <2>1. PICK f : Sums(f, E, N, given) /\ StrengthOf(E, N, given) = f[Len(E)]
    BY StrengthIs
  <2> QED
    BY <2>1 DEF Sums
<1>6. \A a \in 0..10, b \in Nat, s \in Nat : 300 * a * b + 7 * s \in Nat
  OBVIOUS
<1>7. \A b \in Nat, s \in Nat : 5 * b * s \in Nat
  OBVIOUS
<1>8. CombinedOf(E, N, node) \in Nat
  BY <1>1, <1>3, <1>5, <1>6 DEF CombinedOf
<1>9. PenaltyOf(E, N, node) \in Nat
  BY <1>3, <1>5, <1>7 DEF PenaltyOf
<1> QED
  BY <1>1, <1>3, <1>4, <1>8, <1>9

\* A confidence is one.
LEMMA ConfidenceInRange ==
  ASSUME NEW D, NEW N \in [D -> NodeSet], NEW E \in Seq(EdgeSet(D)), NEW node \in D
  PROVE  ConfidenceOf(E, N, node) \in 0..(10000 * CountOf(E, node))
<1>1. PICK own \in 0..10, count \in Nat \ {0}, combined \in Nat, penalty \in Nat :
        /\ own = N[node].confidence
        /\ count = CountOf(E, node)
        /\ IntoOf(E, node, "supports") = {} => count = 1
        /\ combined = CombinedOf(E, N, node)
        /\ penalty = PenaltyOf(E, N, node)
  BY ConfidenceParts
<1>2. ConfidenceOf(E, N, node) =
        IF IntoOf(E, node, "supports") = {} THEN 1000 * own
        ELSE AtMost(10000 * count, AtLeast(0, combined - penalty))
  BY <1>1 DEF ConfidenceOf
<1>3. CASE IntoOf(E, node, "supports") = {}
  <2>1. \A a \in 0..10 : 1000 * a \in 0..(10000 * 1)
    OBVIOUS
  <2>2. 1000 * own \in 0..(10000 * count)
    BY <1>1, <1>3, <2>1
  <2> QED
    BY <1>1, <1>2, <1>3, <2>2
<1>4. CASE IntoOf(E, node, "supports") # {}
  BY <1>1, <1>2, <1>4 DEF AtMost, AtLeast
<1> QED
  BY <1>3, <1>4

\* What more strength takes off.
LEMMA MorePenalty ==
  ASSUME NEW b \in Nat, NEW s \in Nat, NEW t \in Nat, s <= t
  PROVE  5 * b * s <= 5 * b * t
<1>1. PICK d \in Nat : t = s + d
  <2>1. t - s \in Nat /\ t = s + (t - s)
    OBVIOUS
  <2> QED
    BY <2>1
<1>2. 5 * b * t = 5 * b * s + 5 * b * d
  BY <1>1
<1>3. 5 * b * d \in Nat /\ 5 * b * s \in Nat
  OBVIOUS
<1> QED
  BY <1>2, <1>3

\* One more contradiction, and no confidence is higher.
LEMMA ContradictionLowers ==
  ASSUME NEW D, NEW N \in [D -> NodeSet], NEW E \in Seq(EdgeSet(D)), NEW e \in EdgeSet(D),
         e.type = "contradicts", NEW node \in D
  PROVE  ConfidenceOf(Append(E, e), N, node) <= ConfidenceOf(E, N, node)
<1> DEFINE G == Append(E, e)
<1>1. /\ G \in Seq(EdgeSet(D)) /\ Len(G) = Len(E) + 1 /\ Len(E) \in Nat
      /\ \A n \in 1..Len(E) : G[n] = E[n]
      /\ G[Len(E) + 1] = e
      /\ DOMAIN E = 1..Len(E) /\ DOMAIN G = 1..(Len(E) + 1)
  OBVIOUS
<1>2. /\ \A given, more : (\A n \in 1..Len(E) : n \in given <=> n \in more) =>
           /\ StrengthOf(E, N, given) \in Nat /\ StrengthOf(G, N, more) \in Nat
           /\ StrengthOf(E, N, given) <= StrengthOf(G, N, more)
           /\ Len(E) + 1 \notin more => StrengthOf(G, N, more) = StrengthOf(E, N, given)
  BY StrengthGrows
<1> HIDE DEF G
<1>3. IntoOf(G, node, "supports") = IntoOf(E, node, "supports")
  BY <1>1 DEF IntoOf
<1>4. \A n \in 1..Len(E) :
        n \in IntoOf(E, node, "contradicts") <=> n \in IntoOf(G, node, "contradicts")
  BY <1>1 DEF IntoOf
<1>5. Len(E) + 1 \notin IntoOf(E, node, "supports")
  BY <1>1 DEF IntoOf
<1>6. StrengthOf(G, N, IntoOf(G, node, "supports"))
        = StrengthOf(E, N, IntoOf(E, node, "supports"))
  BY <1>2, <1>3, <1>5
<1>7. CountOf(G, node) = CountOf(E, node)
  BY <1>3 DEF CountOf
<1>8. CombinedOf(G, N, node) = CombinedOf(E, N, node)
  BY <1>6, <1>7 DEF CombinedOf
<1>9. PenaltyOf(E, N, node) <= PenaltyOf(G, N, node)
  <2>1. PICK s, t \in Nat :
          /\ s = StrengthOf(E, N, IntoOf(E, node, "contradicts"))
          /\ t = StrengthOf(G, N, IntoOf(G, node, "contradicts"))
          /\ s <= t
    BY <1>2, <1>4
  <2>2. PICK b \in Nat : b = CountOf(E, node)
    BY ConfidenceParts
  <2>3. 5 * b * s <= 5 * b * t
    BY <2>1, MorePenalty
  <2> QED
    BY <1>7, <2>1, <2>2, <2>3 DEF PenaltyOf
<1>10. PICK own \in 0..10, count \in Nat, combined \in Nat, less \in Nat, more \in Nat :
         /\ own = N[node].confidence
         /\ count = CountOf(E, node) /\ count = CountOf(G, node)
         /\ combined = CombinedOf(E, N, node) /\ combined = CombinedOf(G, N, node)
         /\ less = PenaltyOf(E, N, node) /\ more = PenaltyOf(G, N, node)
         /\ less <= more
  BY <1>1, <1>7, <1>8, <1>9, ConfidenceParts
<1>11. /\ ConfidenceOf(E, N, node) =
            IF IntoOf(E, node, "supports") = {} THEN 1000 * own
            ELSE AtMost(10000 * count, AtLeast(0, combined - less))
       /\ ConfidenceOf(G, N, node) =
            IF IntoOf(E, node, "supports") = {} THEN 1000 * own
            ELSE AtMost(10000 * count, AtLeast(0, combined - more))
  BY <1>3, <1>10 DEF ConfidenceOf
<1>12. AtMost(10000 * count, AtLeast(0, combined - more))
         <= AtMost(10000 * count, AtLeast(0, combined - less))
  <2>1. \A x, y, z \in Int :
          x <= y => AtMost(z, AtLeast(0, x)) <= AtMost(z, AtLeast(0, y))
    BY DEF AtMost, AtLeast
  <2>2. /\ combined - more \in Int /\ combined - less \in Int /\ 10000 * count \in Int
        /\ combined - more <= combined - less
    BY <1>10
  <2> QED
    BY <2>1, <2>2
<1>13. ConfidenceOf(G, N, node) <= ConfidenceOf(E, N, node)
  <2>1. CASE IntoOf(E, node, "supports") = {}
    BY <1>10, <1>11, <2>1
  <2>2. CASE IntoOf(E, node, "supports") # {}
    BY <1>11, <1>12, <2>2
  <2> QED
    BY <2>1, <2>2
<1> QED
  BY <1>13 DEF G

\* With the same nodes, only a relation can add a contradiction.
LEMMA OneMoreContradiction ==
  ASSUME EvidenceInv, [EvidenceNext]_evidenceVars, nodes' = nodes,
         Cardinality(FindContradictions') > Cardinality(FindContradictions)
  PROVE  \E e \in EdgeSet(DOMAIN nodes) : e.type = "contradicts" /\ edges' = Append(edges, e)
<1>1. ASSUME NEW type, NEW confidence, AddNode(type, confidence)
      PROVE  FALSE
  <2>1. DOMAIN nodes' = DOMAIN nodes \cup {made + 1}
    BY <1>1 DEF AddNode, NewNode, With
  <2>2. made + 1 \notin DOMAIN nodes
    BY DEF EvidenceInv
  <2> QED
    BY <2>1, <2>2
<1>2. \A confidence \in Weights : ~AddSourceNode(confidence)
  BY <1>1 DEF AddSourceNode
<1>3. \A step \in ReasoningStep : ~AddStep(step)
  BY <1>1 DEF AddStep
<1>4. ~ClearBuilder
  BY DEF ClearBuilder
<1>5. edges' # edges
  <2> SUFFICES ASSUME edges' = edges
               PROVE  FALSE
    OBVIOUS
  <2>1. FindContradictions' = FindContradictions
    BY DEF FindContradictions
  <2>2. FindContradictions \subseteq 1..Len(edges) /\ Len(edges) \in Nat
    BY DEF FindContradictions, EvidenceInv
  <2>3. Cardinality(FindContradictions) \in Nat
    BY <2>2, PlacesCounted
  <2> QED
    BY <2>1, <2>3
<1>6. PICK from, to \in DOMAIN nodes, type \in {"supports", "contradicts"},
           confidence \in Weights :
        AddRelation(from, to, type, confidence)
  BY <1>2, <1>3, <1>4, <1>5 DEF EvidenceNext, evidenceVars
<1>7. PICK e : e = Edge(from, to, type, 10 * confidence)
  OBVIOUS
<1>8. e \in EdgeSet(DOMAIN nodes) /\ e.type = type
  <2>1. 10 * confidence \in 0..100
    BY EvidenceAssumption
  <2> QED
    BY <1>7, <2>1 DEF Edge, EdgeSet
<1>9. edges' = Append(edges, e)
  BY <1>6, <1>7 DEF AddRelation
<1>10. type = "contradicts"
  <2> SUFFICES ASSUME type = "supports"
               PROVE  FALSE
    OBVIOUS
  <2>1. /\ edges \in Seq(EdgeSet(DOMAIN nodes)) /\ Len(edges) \in Nat
        /\ DOMAIN edges = 1..Len(edges)
    BY DEF EvidenceInv
  <2>2. /\ DOMAIN edges' = 1..(Len(edges) + 1)
        /\ \A n \in 1..Len(edges) : edges'[n] = edges[n]
        /\ edges'[Len(edges) + 1] = e
    BY <1>8, <1>9, <2>1
  <2>3. FindContradictions' = FindContradictions
    BY <1>8, <2>1, <2>2 DEF FindContradictions
  <2>4. FindContradictions \subseteq 1..Len(edges)
    BY <2>1 DEF FindContradictions
  <2>5. Cardinality(FindContradictions) \in Nat
    BY <2>1, <2>4, PlacesCounted
  <2> QED
    BY <2>3, <2>5
<1> QED
  BY <1>8, <1>9, <1>10

THEOREM ContradictionsNeverHelp == ReasoningSpec => ContradictionNeverHelps
<1> DEFINE NoHelp ==
      /\ \A node \in DOMAIN nodes' :
           ConclusionConfidence(node)' \in 0..(10000 * SupportCount(node)')
      /\ (/\ nodes' = nodes
          /\ Cardinality(FindContradictions') > Cardinality(FindContradictions)) =>
           \A node \in DOMAIN nodes :
             ConclusionConfidence(node)' <= ConclusionConfidence(node)
<1>1. ASSUME EvidenceInv, EvidenceInv', [ReasoningNext]_reasoningVars
      PROVE  NoHelp
  <2>1. [EvidenceNext]_evidenceVars
    BY <1>1 DEF ReasoningNext, reasoningVars
  <2>2. ASSUME NEW node \in DOMAIN nodes'
        PROVE  ConclusionConfidence(node)' \in 0..(10000 * SupportCount(node)')
    <3>1. /\ nodes' \in [DOMAIN nodes' -> NodeSet]
          /\ edges' \in Seq(EdgeSet(DOMAIN nodes'))
      BY <1>1 DEF EvidenceInv
    <3>2. ConfidenceOf(edges', nodes', node) \in 0..(10000 * CountOf(edges', node))
      BY <2>2, <3>1, ConfidenceInRange
    <3> QED
      BY <3>2, OfThisGraph
  <2>3. ASSUME nodes' = nodes,
               Cardinality(FindContradictions') > Cardinality(FindContradictions),
               NEW node \in DOMAIN nodes
        PROVE  ConclusionConfidence(node)' <= ConclusionConfidence(node)
    <3>1. PICK e \in EdgeSet(DOMAIN nodes) :
            e.type = "contradicts" /\ edges' = Append(edges, e)
      BY <1>1, <2>1, <2>3, OneMoreContradiction
    <3>2. nodes \in [DOMAIN nodes -> NodeSet] /\ edges \in Seq(EdgeSet(DOMAIN nodes))
      BY <1>1 DEF EvidenceInv
    <3>3. ConfidenceOf(Append(edges, e), nodes, node) <= ConfidenceOf(edges, nodes, node)
      BY <2>3, <3>1, <3>2, ContradictionLowers
    <3>4. ConfidenceOf(edges', nodes', node) <= ConfidenceOf(edges, nodes, node)
      BY <2>3, <3>1, <3>3
    <3> QED
      BY <3>4, OfThisGraph
  <2> QED
    BY <2>2, <2>3
<1>2. EvidenceInv /\ EvidenceInv' /\ [ReasoningNext]_reasoningVars => [NoHelp]_evidenceVars
  BY <1>1
<1> QED
  BY <1>2, EvidenceAlways, PTL DEF ReasoningSpec, ContradictionNeverHelps

--------------------------------------------------------------------------------
(***************************************************************************)
(* What a conclusion rests on.                                             *)
(***************************************************************************)
\* The supporters of a node are nodes, and no more than the edges that lead to it.
LEMMA SupportersAre ==
  ASSUME EvidenceInv, NEW node \in DOMAIN nodes
  PROVE  /\ Supporters(node) \in Seq(DOMAIN nodes)
         /\ Len(Supporters(node)) <= Cardinality(Into(node, "supports"))
<1> DEFINE D == DOMAIN nodes
           into == Into(node, "supports")
           size == Len(edges)
           Next_(x, n) == IF n \in into THEN Append(x, edges[n].from) ELSE x
           step == [p \in (1..size) \X Seq(D) |-> Next_(p[2], p[1])]
           Is(f) == f = [n \in 0..size |-> IF n = 0 THEN <<>> ELSE Next_(f[n - 1], n)]
<1>1. /\ edges \in Seq(EdgeSet(D)) /\ size \in Nat /\ DOMAIN edges = 1..size
      /\ \A n \in 1..size : edges[n].from \in D
  <2>1. edges \in Seq(EdgeSet(D))
    BY DEF EvidenceInv
  <2>2. size \in Nat /\ DOMAIN edges = 1..size /\ \A n \in 1..size : edges[n] \in EdgeSet(D)
    BY <2>1
  <2> QED
    BY <2>1, <2>2, EdgeHas
<1>2. into \subseteq 1..size
  BY <1>1 DEF Into
<1> HIDE DEF D, into, size
<1>18. \A n \in 1..size, x \in Seq(D) :
        Next_(x, n) \in Seq(D) /\ (n \in into => Len(Next_(x, n)) = Len(x) + 1)
  <2> TAKE n \in 1..size, x \in Seq(D)
  <2>1. PICK from \in D : from = edges[n].from
    BY <1>1
  <2>2. Append(x, from) \in Seq(D) /\ Len(Append(x, from)) = Len(x) + 1
    OBVIOUS
  <2> QED
    BY <2>1, <2>2
<1>19. \A n, x : n \notin into => Next_(x, n) = x
  OBVIOUS
<1> HIDE DEF Next_
<1>3. \A n \in 1..size, x \in Seq(D) : step[<<n, x>>] = Next_(x, n)
  OBVIOUS
<1> HIDE DEF step
<1>4. \A n \in 1..size, x \in Seq(D) : step[<<n, x>>] \in Seq(D)
  BY <1>18, <1>3
<1>5. <<>> \in Seq(D)
  OBVIOUS
<1>6. PICK f \in [0..size -> Seq(D)] : Iterates(f, <<>>, step, size)
  BY <1>1, <1>4, <1>5, IterationExists
<1>7. \A n \in 0..size :
        f[n] = IF n = 0 THEN <<>> ELSE Next_(f[n - 1], n)
  <2> TAKE n \in 0..size
  <2>1. f[n] = IF n = 0 THEN <<>> ELSE step[<<n, f[n - 1]>>]
    BY <1>6 DEF Iterates
  <2>2. CASE n = 0
    BY <2>1, <2>2
  <2>3. CASE n # 0
    <3>1. n \in 1..size /\ n - 1 \in 0..size
      BY <1>1, <2>3
    <3>2. f[n - 1] \in Seq(D)
      BY <3>1
    <3> QED
      BY <1>3, <2>1, <2>3, <3>1, <3>2
  <2> QED
    BY <2>2, <2>3
<1>8. Is(f)
  <2> DEFINE g == [n \in 0..size |-> IF n = 0 THEN <<>> ELSE Next_(f[n - 1], n)]
  <2>1. f = g
    BY <1>7
  <2> QED
    BY <2>1
<1> DEFINE c == CHOOSE g : Is(g)
<1>9. Is(c)
  BY <1>8
<1>10. Supporters(node) = IF nodes[node].type = "source" THEN <<>> ELSE c[size]
  BY DEF Supporters, into, size, Next_
<1> HIDE DEF c
<1>11. /\ c[0] = <<>>
       /\ \A n \in 1..size : c[n] = Next_(c[n - 1], n)
  BY <1>1, <1>9
<1>12. \A n \in 0..size : c[n] \in Seq(D)
  <2>1. \A k \in 1..size : c[k - 1] \in Seq(D) => c[k] = step[<<k, c[k - 1]>>]
    BY <1>3, <1>11
  <2> QED
    <3>1. Stepwise(c, Seq(D), <<>>, step, size)
      BY <1>1, <1>4, <1>5, <1>11, <2>1 DEF Stepwise
    <3> QED
      BY <3>1, IterationStays
<1>13. \A n \in 0..size : Len(c[n]) <= Cardinality(into \cap (1..n))
  <2> DEFINE T == {n \in 0..size : ~(Len(c[n]) <= Cardinality(into \cap (1..n)))}
  <2> SUFFICES ASSUME T # {}
               PROVE  FALSE
    OBVIOUS
  <2>1. PICK least \in T : \A m \in T : least <= m
    <3>1. T \subseteq Nat
      BY <1>1
    <3> HIDE DEF T
    <3> QED
      BY <3>1, LeastNumber
  <2>2. least # 0
    <3>1. into \cap (1..0) = {} /\ Cardinality({}) = 0
      BY FS_EmptySet
    <3>2. Len(c[0]) = 0
      BY <1>11
    <3> QED
      BY <2>1, <3>1, <3>2
  <2>3. least \in 1..size /\ least - 1 \in 0..size /\ least - 1 \notin T
    BY <1>1, <2>1, <2>2
  <2>4. Len(c[least - 1]) <= Cardinality(into \cap (1..(least - 1)))
    BY <2>3
  <2> DEFINE before == into \cap (1..(least - 1))
  <2>5. IsFiniteSet(before) /\ Cardinality(before) \in Nat
    BY <1>1, <2>3, PlacesCounted
  <2>6. c[least - 1] \in Seq(D) /\ Len(c[least - 1]) \in Nat
    BY <1>12, <2>3
  <2>7. CASE least \in into
    <3>1. into \cap (1..least) = before \cup {least} /\ least \notin before
      BY <1>1, <2>3, <2>7
    <3> HIDE DEF before
    <3>2. Cardinality(into \cap (1..least)) = Cardinality(before) + 1
      BY <2>5, <3>1, FS_AddElement
    <3>3. Len(c[least]) = Len(c[least - 1]) + 1
      BY <1>18, <1>11, <2>3, <2>6, <2>7
    <3>4. Len(c[least - 1]) <= Cardinality(before)
      BY <2>4 DEF before
    <3>5. Len(c[least]) <= Cardinality(into \cap (1..least))
      BY <2>5, <2>6, <3>2, <3>3, <3>4
    <3> QED
      BY <2>1, <3>5
  <2>8. CASE least \notin into
    <3>1. into \cap (1..least) = before
      BY <1>1, <2>3, <2>8
    <3>2. c[least] = c[least - 1]
      BY <1>19, <1>11, <2>3, <2>8
    <3> QED
      BY <2>1, <2>4, <3>1, <3>2
  <2> QED
    BY <2>7, <2>8
<1>14. into \cap (1..size) = into
  BY <1>2
<1>15. Cardinality(into) \in Nat
  BY <1>1, <1>2, PlacesCounted
<1>16. c[size] \in Seq(D) /\ Len(c[size]) <= Cardinality(into)
  BY <1>1, <1>12, <1>13, <1>14
<1>17. Len(<<>>) <= Cardinality(into)
  BY <1>15
<1> QED
  BY <1>5, <1>10, <1>16, <1>17 DEF D, into

\* The edges of support that lead to nodes not visited yet.
Left(visited) ==
  {n \in DOMAIN edges : edges[n].type = "supports" /\ edges[n].to \notin visited}

Walks == [todo : Seq(DOMAIN nodes), visited : Seq(DOMAIN nodes)]

\* What is true of a walk from a conclusion after so many steps: what it has
\* visited and what is to be visited hold the conclusion and what supports those
\* visited, and nothing that the conclusion does not rest on; nothing was visited
\* twice; and every step took something off what can still be to do.
Walked(walk, conclusion, steps) ==
  /\ walk \in Walks
  /\ conclusion \in Range(walk.todo) \cup Range(walk.visited)
  /\ \A node \in Range(walk.visited) :
       Range(Supporters(node)) \subseteq Range(walk.todo) \cup Range(walk.visited)
  /\ \A set : conclusion \in set /\ Closed(set) =>
       Range(walk.todo) \cup Range(walk.visited) \subseteq set
  /\ \A m, n \in DOMAIN walk.visited :
       walk.visited[m] = walk.visited[n] => m = n
  /\ \/ walk.todo = <<>>
     \/ Len(walk.todo) + Cardinality(Left(Range(walk.visited))) + steps <= Len(edges) + 1

\* What is in a sequence that begins with something.
LEMMA RangeOfHead ==
  ASSUME NEW S, NEW s \in Seq(S), s # <<>>
  PROVE  /\ Head(s) \in S /\ Tail(s) \in Seq(S) /\ Len(Tail(s)) = Len(s) - 1
         /\ Len(s) \in Nat \ {0}
         /\ Range(s) = {Head(s)} \cup Range(Tail(s))
<1>1. /\ Head(s) = s[1] /\ Tail(s) \in Seq(S) /\ Len(Tail(s)) = Len(s) - 1
      /\ Len(s) \in Nat \ {0} /\ DOMAIN s = 1..Len(s)
      /\ \A n \in 1..(Len(s) - 1) : Tail(s)[n] = s[n + 1]
  OBVIOUS
<1>2. Head(s) \in S
  BY <1>1
<1>3. DOMAIN Tail(s) = 1..(Len(s) - 1)
  BY <1>1
<1>4. Range(s) \subseteq {Head(s)} \cup Range(Tail(s))
  <2> SUFFICES ASSUME NEW n \in 1..Len(s)
               PROVE  s[n] \in {Head(s)} \cup Range(Tail(s))
    BY <1>1 DEF Range
  <2>1. CASE n = 1
    BY <1>1, <2>1
  <2>2. CASE n # 1
    <3>1. n - 1 \in 1..(Len(s) - 1) /\ s[n] = Tail(s)[n - 1]
      BY <1>1, <2>2
    <3> QED
      BY <1>3, <3>1 DEF Range
  <2> QED
    BY <2>1, <2>2
<1>5. {Head(s)} \cup Range(Tail(s)) \subseteq Range(s)
  <2>1. Head(s) \in Range(s)
    BY <1>1 DEF Range
  <2>2. \A n \in 1..(Len(s) - 1) : n + 1 \in 1..Len(s) /\ Tail(s)[n] = s[n + 1]
    BY <1>1
  <2>3. Range(Tail(s)) \subseteq Range(s)
    BY <1>1, <1>3, <2>2 DEF Range
  <2> QED
    BY <2>1, <2>3
<1> QED
  BY <1>1, <1>2, <1>4, <1>5

\* What is in a sequence to which something is added.
LEMMA RangeOfAppended ==
  ASSUME NEW S, NEW s \in Seq(S), NEW x \in S
  PROVE  Range(Append(s, x)) = Range(s) \cup {x}
<1>1. /\ DOMAIN s = 1..Len(s) /\ Len(s) \in Nat
      /\ DOMAIN Append(s, x) = 1..(Len(s) + 1)
      /\ \A n \in 1..Len(s) : Append(s, x)[n] = s[n]
      /\ Append(s, x)[Len(s) + 1] = x
  OBVIOUS
<1> QED
  BY <1>1 DEF Range

\* What leads to a node is off the list when it is visited.
LEMMA LeftAfter ==
  ASSUME EvidenceInv, NEW visited, NEW node \in DOMAIN nodes, node \notin visited
  PROVE  /\ Cardinality(Left(visited)) \in Nat
         /\ Cardinality(Into(node, "supports")) \in Nat
         /\ Cardinality(Left(visited \cup {node}))
              = Cardinality(Left(visited)) - Cardinality(Into(node, "supports"))
<1>1. Len(edges) \in Nat /\ DOMAIN edges = 1..Len(edges)
  BY DEF EvidenceInv
<1>2. /\ Left(visited) \subseteq 1..Len(edges)
      /\ Into(node, "supports") \subseteq Left(visited)
      /\ Left(visited \cup {node}) = Left(visited) \ Into(node, "supports")
      /\ Left(visited) \cap Into(node, "supports") = Into(node, "supports")
  BY <1>1 DEF Left, Into
<1>3. IsFiniteSet(Left(visited)) /\ Cardinality(Left(visited)) \in Nat
  BY <1>1, <1>2, PlacesCounted
<1>4. Cardinality(Into(node, "supports")) \in Nat
  BY <1>1, <1>2, PlacesCounted
<1>5. Cardinality(Left(visited) \ Into(node, "supports"))
        = Cardinality(Left(visited)) - Cardinality(Left(visited) \cap Into(node, "supports"))
  BY <1>3, FS_Difference
<1> QED
  BY <1>2, <1>3, <1>4, <1>5

LEMMA VisitKeeps ==
  ASSUME EvidenceInv, NEW walk, NEW conclusion, NEW steps \in Nat,
         Walked(walk, conclusion, steps)
  PROVE  Walked(Visit(walk), conclusion, steps + 1)
<1> DEFINE D == DOMAIN nodes
<1>1. PICK ahead \in Seq(D), visited \in Seq(D) :
        walk = [todo |-> ahead, visited |-> visited]
  BY DEF Walked, Walks
<1>2. /\ walk.todo = ahead /\ walk.visited = visited
  BY <1>1
<1>3. /\ conclusion \in Range(ahead) \cup Range(visited)
      /\ \A node \in Range(visited) :
           Range(Supporters(node)) \subseteq Range(ahead) \cup Range(visited)
      /\ \A set : conclusion \in set /\ Closed(set) =>
           Range(ahead) \cup Range(visited) \subseteq set
      /\ \A m, n \in DOMAIN visited : visited[m] = visited[n] => m = n
      /\ \/ ahead = <<>>
         \/ Len(ahead) + Cardinality(Left(Range(visited))) + steps <= Len(edges) + 1
  BY <1>2 DEF Walked
<1> HIDE DEF D
<1>4. CASE ahead = <<>>
  <2>1. Visit(walk) = walk
    BY <1>2, <1>4 DEF Visit
  <2> QED
    BY <1>2, <1>4, <2>1 DEF Walked
<1>5. CASE ahead # <<>>
  <2> DEFINE head == Head(ahead)
             rest == Tail(ahead)
  <2>1. /\ head \in D /\ rest \in Seq(D) /\ Len(rest) = Len(ahead) - 1
        /\ Len(ahead) \in Nat \ {0}
        /\ Range(ahead) = {head} \cup Range(rest)
    BY <1>5, RangeOfHead
  <2>2. Len(ahead) + Cardinality(Left(Range(visited))) + steps <= Len(edges) + 1
    BY <1>3, <1>5
  <2>3. Len(edges) \in Nat
    BY DEF EvidenceInv
  <2>4. Visit(walk) = IF head \in Range(visited) THEN [todo |-> rest, visited |-> visited]
                      ELSE [todo |-> Supporters(head) \o rest,
                            visited |-> Append(visited, head)]
    <3>0. \A t : [walk EXCEPT !.todo = t] = [todo |-> t, visited |-> visited]
      BY <1>1
    <3>1. [walk EXCEPT !.todo = Tail(walk.todo)] = [todo |-> rest, visited |-> visited]
      BY <1>2, <3>0
    <3>2. Visit(walk) = IF walk.todo = <<>> THEN walk
                        ELSE IF Head(walk.todo) \in Range(walk.visited)
                             THEN [walk EXCEPT !.todo = Tail(walk.todo)]
                             ELSE [todo |-> Supporters(Head(walk.todo)) \o Tail(walk.todo),
                                   visited |-> Append(walk.visited, Head(walk.todo))]
      BY Zenon DEF Visit
    <3> QED
      BY <1>2, <1>5, <3>1, <3>2
  <2> HIDE DEF head, rest
  <2>5. CASE head \in Range(visited)
    <3> DEFINE after == [todo |-> rest, visited |-> visited]
    <3>1. Visit(walk) = after /\ after.todo = rest /\ after.visited = visited
      BY <2>4, <2>5
    <3>2. after \in Walks
      BY <2>1 DEF Walks, D
    <3>3. Range(rest) \cup Range(visited) = Range(ahead) \cup Range(visited)
      BY <2>1, <2>5
    <3>4. Cardinality(Left(Range(visited))) \in Nat
      <4>1. Left(Range(visited)) \subseteq 1..Len(edges)
        BY DEF Left, EvidenceInv
      <4> QED
        BY <2>3, <4>1, PlacesCounted
    <3>5. Len(rest) + Cardinality(Left(Range(visited))) + (steps + 1) <= Len(edges) + 1
      BY <2>1, <2>2, <2>3, <3>4
    <3> HIDE DEF after
    <3> QED
      BY <1>3, <3>1, <3>2, <3>3, <3>5 DEF Walked
  <2>6. CASE head \notin Range(visited)
    <3> DEFINE more == Supporters(head)
               next == more \o rest
               seen == Append(visited, head)
               after == [todo |-> next, visited |-> seen]
    <3>1. Visit(walk) = after /\ after.todo = next /\ after.visited = seen
      BY <2>4, <2>6
    <3>2. more \in Seq(D) /\ Len(more) <= Cardinality(Into(head, "supports"))
      BY <2>1, SupportersAre DEF D
    <3>3. next \in Seq(D) /\ Len(next) = Len(more) + Len(rest) /\ Len(more) \in Nat
      <4> HIDE DEF more
      <4> QED
        BY <2>1, <3>2
    <3>4. seen \in Seq(D)
      BY <2>1
    <3>5. after \in Walks
      BY <3>3, <3>4 DEF Walks, D
    <3>6. Range(seen) = Range(visited) \cup {head}
      BY <2>1, RangeOfAppended
    <3>7. Range(next) = Range(more) \cup Range(rest)
      <4> HIDE DEF more
      <4> QED
        BY <2>1, <3>2, RangeConcatenation
    <3>8. Range(next) \cup Range(seen) = Range(ahead) \cup Range(visited) \cup Range(more)
      BY <2>1, <3>6, <3>7
    <3>9. \A node \in Range(seen) : Range(Supporters(node)) \subseteq Range(next) \cup Range(seen)
      BY <1>3, <3>6, <3>8
    <3>10. \A set : conclusion \in set /\ Closed(set) =>
             Range(next) \cup Range(seen) \subseteq set
      <4> TAKE set
      <4> HAVE conclusion \in set /\ Closed(set)
      <4>1. Range(ahead) \cup Range(visited) \subseteq set
        BY <1>3
      <4>2. head \in set
        BY <2>1, <4>1
      <4>3. Range(more) \subseteq set
        BY <4>2 DEF Closed
      <4> QED
        BY <3>8, <4>1, <4>3
    <3>11. \A m, n \in DOMAIN seen : seen[m] = seen[n] => m = n
      <4>1. /\ DOMAIN visited = 1..Len(visited) /\ Len(visited) \in Nat
            /\ DOMAIN seen = 1..(Len(visited) + 1)
            /\ \A n \in 1..Len(visited) : seen[n] = visited[n]
            /\ seen[Len(visited) + 1] = head
        BY <2>1
      <4>2. \A n \in 1..Len(visited) : visited[n] # head
        BY <2>6, <4>1 DEF Range
      <4> HIDE DEF seen
      <4> QED
        BY <1>3, <4>1, <4>2
    <3>12. Len(next) + Cardinality(Left(Range(seen))) + (steps + 1) <= Len(edges) + 1
      <4>1. PICK left \in Nat, into \in Nat :
              /\ left = Cardinality(Left(Range(visited)))
              /\ into = Cardinality(Into(head, "supports"))
              /\ Cardinality(Left(Range(visited) \cup {head})) = left - into
        BY <2>1, <2>6, LeftAfter DEF D
      <4>2. Len(more) <= into
        BY <3>2, <4>1
      <4>3. Len(ahead) + left + steps <= Len(edges) + 1
        BY <2>2, <4>1
      <4>4. Cardinality(Left(Range(seen))) = left - into
        BY <3>6, <4>1
      <4>5. Len(next) = Len(more) + (Len(ahead) - 1)
        BY <2>1, <3>3
      <4> HIDE DEF more, next, seen
      <4>6. Len(more) \in Nat
        BY <3>3
      <4> QED
        BY <2>1, <2>3, <4>2, <4>3, <4>4, <4>5, <4>6
    <3>13. conclusion \in Range(next) \cup Range(seen)
      BY <1>3, <3>8
    <3> HIDE DEF after, next, seen, more
    <3> QED
      BY <3>1, <3>5, <3>9, <3>10, <3>11, <3>12, <3>13 DEF Walked
  <2> QED
    BY <2>5, <2>6
<1> QED
  BY <1>4, <1>5

\* What is visited of a walk is part of a walk.
LEMMA VisitIsWalk ==
  ASSUME EvidenceInv, NEW walk \in Walks
  PROVE  Visit(walk) \in Walks
<1> DEFINE D == DOMAIN nodes
<1>1. PICK ahead \in Seq(D), visited \in Seq(D) :
        walk = [todo |-> ahead, visited |-> visited]
  BY DEF Walks
<1>2. /\ walk.todo = ahead /\ walk.visited = visited
  BY <1>1
<1>3. CASE ahead = <<>>
  BY <1>2, <1>3 DEF Visit
<1>4. CASE ahead # <<>>
  <2>1. PICK head \in D, rest \in Seq(D) : head = Head(ahead) /\ rest = Tail(ahead)
    BY <1>4, RangeOfHead
  <2>2. \A t : [walk EXCEPT !.todo = t] = [todo |-> t, visited |-> visited]
    BY <1>1
  <2>3. Visit(walk) = IF head \in Range(visited) THEN [todo |-> rest, visited |-> visited]
                      ELSE [todo |-> Supporters(head) \o rest,
                            visited |-> Append(visited, head)]
    BY <1>2, <1>4, <2>1, <2>2 DEF Visit
  <2>4. Supporters(head) \o rest \in Seq(D) /\ Append(visited, head) \in Seq(D)
    <3>1. PICK more \in Seq(D) : more = Supporters(head)
      BY <2>1, SupportersAre
    <3> HIDE DEF D
    <3> QED
      BY <3>1
  <2> QED
    BY <2>3, <2>4 DEF Walks
<1> QED
  BY <1>3, <1>4

\* At the start there is the conclusion to visit, and every edge is left.
LEMMA WalkBegins ==
  ASSUME EvidenceInv, NEW node \in DOMAIN nodes
  PROVE  Walked([todo |-> <<node>>, visited |-> <<>>], node, 0)
<1> DEFINE none == <<>>
           one == <<node>>
           base == [todo |-> one, visited |-> none]
<1>1. /\ Range(none) = {} /\ Range(one) = {node} /\ Len(one) = 1 /\ DOMAIN none = {}
      /\ none \in Seq(DOMAIN nodes) /\ one \in Seq(DOMAIN nodes)
  BY DEF Range
<1>2. base.todo = one /\ base.visited = none /\ base \in Walks
  BY <1>1 DEF Walks
<1>3. Cardinality(Left({})) \in Nat /\ Cardinality(Left({})) <= Len(edges) /\ Len(edges) \in Nat
  <2>1. Len(edges) \in Nat /\ Left({}) \subseteq 1..Len(edges)
    BY DEF EvidenceInv, Left
  <2>2. IsFiniteSet(1..Len(edges)) /\ Cardinality(1..Len(edges)) = Len(edges)
    BY <2>1, FS_Interval
  <2> QED
    BY <2>1, <2>2, FS_Subset, FS_CardinalityType
<1>4. Len(one) + Cardinality(Left({})) + 0 <= Len(edges) + 1
  BY <1>1, <1>3
<1> HIDE DEF base, one, none
<1> QED
  BY <1>1, <1>2, <1>4 DEF Walked, base, one, none

\* get_evidence_coverage ends, and with nothing left to do.
LEMMA WalkEnds ==
  ASSUME EvidenceInv, NEW node \in DOMAIN nodes
  PROVE  \E w : /\ Walked(w, node, Len(edges) + 1) /\ w.todo = <<>>
                /\ Traverse(node) = w.visited
<1> DEFINE size == Len(edges) + 1
           base == [todo |-> <<node>>, visited |-> <<>>]
           step == [p \in (1..size) \X Walks |-> Visit(p[2])]
           Is(f) == f = [n \in 0..size |-> IF n = 0 THEN base ELSE Visit(f[n - 1])]
<1>1. Len(edges) \in Nat /\ size \in Nat /\ size = Len(edges) + 1
  BY DEF EvidenceInv
<1>2. Walked(base, node, 0) /\ base \in Walks
  BY WalkBegins DEF Walked
<1> HIDE DEF size, base
<1>3. \A n \in 1..size, x \in Walks : step[<<n, x>>] = Visit(x)
  OBVIOUS
<1> HIDE DEF step
<1>4. \A n \in 1..size, x \in Walks : step[<<n, x>>] \in Walks
  BY <1>3, VisitIsWalk
<1>5. PICK f \in [0..size -> Walks] : Iterates(f, base, step, size)
  BY <1>1, <1>2, <1>4, IterationExists
<1>6. \A n \in 0..size : f[n] = IF n = 0 THEN base ELSE Visit(f[n - 1])
  <2> TAKE n \in 0..size
  <2>1. f[n] = IF n = 0 THEN base ELSE step[<<n, f[n - 1]>>]
    BY <1>5 DEF Iterates
  <2>2. CASE n = 0
    BY <2>1, <2>2
  <2>3. CASE n # 0
    <3>1. n \in 1..size /\ n - 1 \in 0..size
      BY <1>1, <2>3
    <3>2. f[n - 1] \in Walks
      BY <3>1
    <3> QED
      BY <1>3, <2>1, <2>3, <3>1, <3>2
  <2> QED
    BY <2>2, <2>3
<1>7. Is(f)
  <2> DEFINE g == [n \in 0..size |-> IF n = 0 THEN base ELSE Visit(f[n - 1])]
  <2>1. f = g
    BY <1>6
  <2> QED
    BY <2>1
<1> DEFINE c == CHOOSE g : Is(g)
<1>8. Is(c)
  BY <1>7
<1>9. Traverse(node) = c[size].visited
  BY DEF Traverse, size, base
<1> HIDE DEF c
<1>10. c[0] = base /\ \A n \in 1..size : c[n] = Visit(c[n - 1])
  BY <1>1, <1>8
<1>11. \A n \in 0..size : Walked(c[n], node, n)
  <2> DEFINE T == {n \in 0..size : ~Walked(c[n], node, n)}
  <2> SUFFICES ASSUME T # {}
               PROVE  FALSE
    OBVIOUS
  <2>1. PICK least \in T : \A m \in T : least <= m
    <3>1. T \subseteq Nat
      BY <1>1
    <3> HIDE DEF T
    <3> QED
      BY <3>1, LeastNumber
  <2>2. least # 0
    BY <1>2, <1>10, <2>1
  <2>3. /\ least \in 1..size /\ least - 1 \in 0..size /\ least - 1 \notin T
        /\ least - 1 \in Nat /\ (least - 1) + 1 = least
    BY <1>1, <2>1, <2>2
  <2>4. Walked(c[least - 1], node, least - 1)
    BY <2>3
  <2>5. Walked(Visit(c[least - 1]), node, (least - 1) + 1)
    BY <2>3, <2>4, VisitKeeps
  <2> QED
    BY <1>10, <2>1, <2>3, <2>5
<1>12. Walked(c[size], node, size)
  BY <1>1, <1>11
<1>13. c[size].todo = <<>>
  <2>1. PICK ahead \in Seq(DOMAIN nodes) : ahead = c[size].todo
    BY <1>12 DEF Walked, Walks
  <2>2. Len(ahead) \in Nat /\ (Len(ahead) = 0 => ahead = <<>>)
    BY <2>1
  <2>3. Cardinality(Left(Range(c[size].visited))) \in Nat
    <3>1. Left(Range(c[size].visited)) \subseteq 1..Len(edges)
      BY DEF Left, EvidenceInv
    <3> QED
      BY <1>1, <3>1, PlacesCounted
  <2>4. \/ ahead = <<>>
        \/ Len(ahead) + Cardinality(Left(Range(c[size].visited))) + size <= Len(edges) + 1
    BY <1>12, <2>1 DEF Walked
  <2> QED
    BY <1>1, <2>1, <2>2, <2>3, <2>4
<1> QED
  BY <1>1, <1>9, <1>12, <1>13

\* A sequence without repetition is as long as it has members.
LEMMA AllCounted ==
  ASSUME NEW S, NEW s \in Seq(S), \A m, n \in DOMAIN s : s[m] = s[n] => m = n
  PROVE  Len(s) = Cardinality(Range(s))
<1>1. Len(s) \in Nat /\ DOMAIN s = 1..Len(s)
  OBVIOUS
<1>2. s \in [1..Len(s) -> Range(s)] /\ \A x \in Range(s) : \E n \in 1..Len(s) : s[n] = x
  <2>1. \A n \in 1..Len(s) : s[n] \in Range(s)
    BY <1>1 DEF Range
  <2>2. s = [n \in 1..Len(s) |-> s[n]]
    BY <1>1
  <2> QED
    BY <1>1, <2>1, <2>2 DEF Range
<1>3. ExistsBijection(1..Len(s), Range(s))
  <2> HIDE DEF Range
  <2> QED
    BY <1>1, <1>2 DEF ExistsBijection, Bijection, Injection, Surjection, IsInjective
<1> QED
  BY <1>1, <1>3, FS_CountingElements

(***************************************************************************)
(* Whatever circles the supports run in, what a conclusion rests on is     *)
(* visited, each once, and nothing else.                                   *)
(***************************************************************************)
THEOREM CoverageAlwaysCountsOnce == ReasoningSpec => []CoverageCountsOnce
<1>1. EvidenceInv => CoverageCountsOnce
  <2> SUFFICES ASSUME EvidenceInv, NEW node \in DOMAIN nodes
               PROVE  LET visited == Traverse(node)
                          holding == {set \in SUBSET DOMAIN nodes :
                                        node \in set /\ Closed(set)}
                      IN  /\ Range(visited) \in holding
                          /\ \A set \in holding : Range(visited) \subseteq set
                          /\ Len(visited) = Cardinality(Range(visited))
    BY DEF CoverageCountsOnce
  <2>1. PICK w : /\ Walked(w, node, Len(edges) + 1) /\ w.todo = <<>>
                 /\ Traverse(node) = w.visited
    BY WalkEnds
  <2>2. PICK visited \in Seq(DOMAIN nodes) : visited = Traverse(node) /\ visited = w.visited
    BY <2>1 DEF Walked, Walks
  <2>3. Range(w.todo) = {}
    BY <2>1 DEF Range
  <2>4. /\ node \in Range(visited)
        /\ \A n \in Range(visited) : Range(Supporters(n)) \subseteq Range(visited)
        /\ \A set : node \in set /\ Closed(set) => Range(visited) \subseteq set
        /\ \A m, n \in DOMAIN visited : visited[m] = visited[n] => m = n
    BY <2>1, <2>2, <2>3 DEF Walked
  <2>5. Range(visited) \subseteq DOMAIN nodes
    BY <2>2 DEF Range
  <2>6. Len(visited) = Cardinality(Range(visited))
    BY <2>2, <2>4, AllCounted
  <2>7. Closed(Range(visited))
    BY <2>4 DEF Closed
  <2> QED
    BY <2>2, <2>4, <2>5, <2>6, <2>7
<1> QED
  BY <1>1, EvidenceAlways, PTL

--------------------------------------------------------------------------------
(***************************************************************************)
(* What-if exploration.                                                    *)
(***************************************************************************)
EntitySet == [id : Entities \cup {"sim"}, confidence : 0..100]

HypothesisSet ==
  [id : HypothesisIds \cup {"sim", "sim_action"}, says : Statements,
   about : SUBSET Entities, confidence : 0..100,
   status : {"active", "tentative", "rejected"}]

WorldSet ==
  [entities : Seq(EntitySet), hypotheses : Seq(HypothesisSet),
   anchored : SUBSET Facts, simulated : BOOLEAN]

\* A world with one part replaced.
LEMMA WorldWith ==
  ASSUME NEW world \in WorldSet
  PROVE  /\ /\ world.entities \in Seq(EntitySet) /\ world.hypotheses \in Seq(HypothesisSet)
            /\ world.anchored \in SUBSET Facts
         /\ \A new \in Seq(EntitySet) :
              LET after == [world EXCEPT !.entities = new]
              IN  /\ after \in WorldSet /\ after.entities = new
                  /\ after.hypotheses = world.hypotheses /\ after.anchored = world.anchored
         /\ \A new \in Seq(HypothesisSet) :
              LET after == [world EXCEPT !.hypotheses = new]
              IN  /\ after \in WorldSet /\ after.hypotheses = new
                  /\ after.entities = world.entities /\ after.anchored = world.anchored
         /\ \A new \in SUBSET Facts : [world EXCEPT !.anchored = new] \in WorldSet
         /\ LET after == MarkSimulated(world)
            IN  /\ after \in WorldSet /\ after.hypotheses = world.hypotheses
                /\ after.entities = world.entities /\ after.anchored = world.anchored
BY DEF WorldSet, MarkSimulated

LEMMA EntityIs ==
  ASSUME NEW id \in Entities \cup {"sim"}, NEW confidence \in 0..100
  PROVE  Entity(id, confidence) \in EntitySet
BY DEF Entity, EntitySet

LEMMA HypothesisIs ==
  ASSUME NEW id \in HypothesisIds \cup {"sim", "sim_action"}, NEW says \in Statements,
         NEW about \in SUBSET Entities, NEW confidence \in 0..100,
         NEW status \in {"active", "tentative", "rejected"}
  PROVE  Hypothesis(id, says, about, confidence, status) \in HypothesisSet
BY DEF Hypothesis, HypothesisSet

LEMMA EntityHas ==
  ASSUME NEW entity \in EntitySet, NEW confidence \in 0..100
  PROVE  LET after == [entity EXCEPT !.confidence = confidence]
         IN  after \in EntitySet /\ after.id = entity.id /\ after.confidence = confidence
BY DEF EntitySet

LEMMA HypothesisHas ==
  ASSUME NEW hypothesis \in HypothesisSet,
         NEW status \in {"active", "tentative", "rejected"}, NEW confidence \in 0..100
  PROVE  LET after == [hypothesis EXCEPT !.status = status, !.confidence = confidence]
         IN  /\ after \in HypothesisSet /\ after.status = status
             /\ after.says = hypothesis.says /\ after.about = hypothesis.about
             /\ after.id = hypothesis.id
BY DEF HypothesisSet

\* Things are added to a world.
LEMMA AddedToWorld ==
  ASSUME NEW world \in WorldSet
  PROVE  /\ \A entity \in EntitySet :
              /\ AddEntity(world, entity) \in WorldSet
              /\ AddEntity(world, entity).hypotheses = world.hypotheses
         /\ \A hypothesis \in HypothesisSet :
              /\ AddHypothesis(world, hypothesis) \in WorldSet
              /\ AddHypothesis(world, hypothesis).hypotheses
                   = Append(world.hypotheses, hypothesis)
              /\ AddHypothesis(world, hypothesis).entities = world.entities
              /\ AddHypothesis(world, hypothesis).anchored = world.anchored
         /\ \A facts \in SUBSET Facts : AddAnchorFacts(world, facts) \in WorldSet
<1>1. ASSUME NEW entity \in EntitySet
      PROVE  /\ AddEntity(world, entity) \in WorldSet
             /\ AddEntity(world, entity).hypotheses = world.hypotheses
  <2>1. Append(world.entities, entity) \in Seq(EntitySet)
    BY WorldWith
  <2> QED
    BY <2>1, WorldWith DEF AddEntity
<1>2. ASSUME NEW hypothesis \in HypothesisSet
      PROVE  /\ AddHypothesis(world, hypothesis) \in WorldSet
             /\ AddHypothesis(world, hypothesis).hypotheses
                  = Append(world.hypotheses, hypothesis)
             /\ AddHypothesis(world, hypothesis).entities = world.entities
             /\ AddHypothesis(world, hypothesis).anchored = world.anchored
  <2>1. Append(world.hypotheses, hypothesis) \in Seq(HypothesisSet)
    BY WorldWith
  <2> QED
    BY <2>1, WorldWith DEF AddHypothesis
<1>3. ASSUME NEW facts \in SUBSET Facts
      PROVE  AddAnchorFacts(world, facts) \in WorldSet
  <2>1. world.anchored \cup facts \in SUBSET Facts
    BY WorldWith
  <2> QED
    BY <2>1, WorldWith DEF AddAnchorFacts
<1> QED
  BY <1>1, <1>2, <1>3

\* Things of a world are updated, which leaves them where they are.
LEMMA UpdatedInWorld ==
  ASSUME NEW world \in WorldSet, NEW confidence \in 0..100
  PROVE  /\ \A ids :
              LET after == UpdateEntities(world, ids, confidence)
              IN  /\ after \in WorldSet /\ after.hypotheses = world.hypotheses
                  /\ DOMAIN after.entities = DOMAIN world.entities
                  /\ \A n \in DOMAIN world.entities :
                       /\ after.entities[n].id = world.entities[n].id
                       /\ world.entities[n].id \in ids =>
                            after.entities[n].confidence = confidence
         /\ \A id : \A status \in {"active", "tentative", "rejected"} :
              UpdateHypothesisStatus(world, id, status, confidence) \in WorldSet
<1>1. PICK es \in Seq(EntitySet), hs \in Seq(HypothesisSet) :
        world.entities = es /\ world.hypotheses = hs
  BY WorldWith
<1>2. /\ Len(es) \in Nat /\ DOMAIN es = 1..Len(es) /\ \A n \in 1..Len(es) : es[n] \in EntitySet
      /\ Len(hs) \in Nat /\ DOMAIN hs = 1..Len(hs)
      /\ \A n \in 1..Len(hs) : hs[n] \in HypothesisSet
  OBVIOUS
<1>3. ASSUME NEW ids
      PROVE  LET after == UpdateEntities(world, ids, confidence)
             IN  /\ after \in WorldSet /\ after.hypotheses = world.hypotheses
                 /\ DOMAIN after.entities = DOMAIN world.entities
                 /\ \A n \in DOMAIN world.entities :
                      /\ after.entities[n].id = world.entities[n].id
                      /\ world.entities[n].id \in ids =>
                           after.entities[n].confidence = confidence
  <2> DEFINE new == [n \in DOMAIN es |-> IF es[n].id \in ids
                                         THEN [es[n] EXCEPT !.confidence = confidence]
                                         ELSE es[n]]
  <2>1. \A n \in 1..Len(es) :
          /\ new[n] \in EntitySet /\ new[n].id = es[n].id
          /\ es[n].id \in ids => new[n].confidence = confidence
    BY <1>2, EntityHas
  <2>2. new \in Seq(EntitySet) /\ DOMAIN new = DOMAIN es
    <3>1. new \in [1..Len(es) -> EntitySet]
      BY <1>2, <2>1
    <3> QED
      BY <1>2, <3>1
  <2>3. UpdateEntities(world, ids, confidence) = [world EXCEPT !.entities = new]
    BY <1>1 DEF UpdateEntities
  <2> HIDE DEF new
  <2> QED
    BY <1>1, <1>2, <2>1, <2>2, <2>3, WorldWith
<1>4. ASSUME NEW id, NEW status \in {"active", "tentative", "rejected"}
      PROVE  UpdateHypothesisStatus(world, id, status, confidence) \in WorldSet
  <2> DEFINE new == [n \in DOMAIN hs |-> IF hs[n].id = id
                                         THEN [hs[n] EXCEPT !.status = status,
                                                            !.confidence = confidence]
                                         ELSE hs[n]]
  <2>1. \A n \in 1..Len(hs) : new[n] \in HypothesisSet
    BY <1>2, HypothesisHas
  <2>2. new \in Seq(HypothesisSet)
    <3>1. new \in [1..Len(hs) -> HypothesisSet]
      BY <1>2, <2>1
    <3> HIDE DEF new
    <3> QED
      BY <1>2, <3>1
  <2>3. UpdateHypothesisStatus(world, id, status, confidence)
          = [world EXCEPT !.hypotheses = new]
    BY <1>1 DEF UpdateHypothesisStatus
  <2> HIDE DEF new
  <2>4. [world EXCEPT !.hypotheses = new] \in WorldSet
    BY <2>2, WorldWith
  <2> QED
    BY <2>3, <2>4
<1> QED
  BY <1>3, <1>4

\* An entity is removed, wherever it is.
LEMMA RemovedFromWorld ==
  ASSUME NEW world \in WorldSet, NEW id
  PROVE  RemoveEntity(world, id) \in WorldSet
<1>1. PICK es \in Seq(EntitySet) : world.entities = es
  BY WorldWith
<1> DEFINE S == Seq(EntitySet)
           size == Len(es)
           none == <<>>
           Next_(x, n) == IF es[n].id = id THEN x ELSE Append(x, es[n])
           step == [p \in (1..size) \X S |-> Next_(p[2], p[1])]
           Is(f) == f = [n \in 0..size |-> IF n = 0 THEN none ELSE Next_(f[n - 1], n)]
<1>2. /\ size \in Nat /\ none \in S
      /\ \A n \in 1..size, x \in S : Next_(x, n) \in S
  <2>1. size \in Nat /\ \A n \in 1..size : es[n] \in EntitySet
    OBVIOUS
  <2>2. \A n \in 1..size, x \in S : Append(x, es[n]) \in S
    BY <2>1
  <2> QED
    BY <2>1, <2>2
<1>3. RemoveEntity(world, id) = [world EXCEPT !.entities = (CHOOSE f : Is(f))[size]]
  BY <1>1, Zenon DEF RemoveEntity
<1> HIDE DEF S, size, none, Next_
<1>4. \A n \in 1..size, x \in S : step[<<n, x>>] = Next_(x, n)
  OBVIOUS
<1> HIDE DEF step
<1>5. \A n \in 1..size, x \in S : step[<<n, x>>] \in S
  BY <1>2, <1>4
<1>6. PICK f \in [0..size -> S] : Iterates(f, none, step, size)
  BY <1>2, <1>5, IterationExists
<1>7. \A n \in 0..size : f[n] = IF n = 0 THEN none ELSE Next_(f[n - 1], n)
  <2> TAKE n \in 0..size
  <2>1. f[n] = IF n = 0 THEN none ELSE step[<<n, f[n - 1]>>]
    BY <1>6 DEF Iterates
  <2>2. CASE n = 0
    BY <2>1, <2>2
  <2>3. CASE n # 0
    <3>1. n \in 1..size /\ n - 1 \in 0..size
      BY <1>2, <2>3
    <3>2. f[n - 1] \in S
      BY <3>1
    <3> QED
      BY <1>4, <2>1, <2>3, <3>1, <3>2
  <2> QED
    BY <2>2, <2>3
<1>8. Is(f)
  <2> DEFINE g == [n \in 0..size |-> IF n = 0 THEN none ELSE Next_(f[n - 1], n)]
  <2>1. f = g
    BY <1>7
  <2> QED
    BY <2>1
<1> DEFINE c == CHOOSE g : Is(g)
<1>9. Is(c)
  BY <1>8
<1> HIDE DEF c
<1>10. c[0] = none /\ \A n \in 1..size : c[n] = Next_(c[n - 1], n)
  BY <1>2, <1>9
<1>11. c[size] \in S
  <2>1. \A k \in 1..size : c[k - 1] \in S => c[k] = step[<<k, c[k - 1]>>]
    BY <1>4, <1>10
  <2>2. Stepwise(c, S, none, step, size)
    BY <1>2, <1>5, <1>10, <2>1 DEF Stepwise
  <2> QED
    BY <1>2, <2>2, IterationStays
<1> QED
  BY <1>3, <1>11, WorldWith DEF S, c

\* A hypothesis is imagined to hold, or an action to have its effects.
LEMMA Imagined ==
  ASSUME NEW world \in WorldSet
  PROVE  /\ \A h \in Hypotheses : SimulateHypothesis(world, h) \in WorldSet
         /\ \A says \in Statements : SimulateAction(world, <<says>>) \in WorldSet
<1>1. ASSUME NEW h \in HypothesisSet
      PROVE  SimulateHypothesis(world, h) \in WorldSet
  <2> DEFINE confidence == ImaginedConfidence(world, h)
             held == [h EXCEPT !.status = "active", !.confidence = confidence]
             believed == IF Has(world.hypotheses, h.id)
                         THEN UpdateHypothesisStatus(world, h.id, "active", confidence)
                         ELSE AddHypothesis(world, held)
  <2>1. confidence \in 0..100
    BY DEF ImaginedConfidence, HypothesisSet
  <2> HIDE DEF confidence
  <2>2. held \in HypothesisSet
    BY <2>1, HypothesisHas
  <2> HIDE DEF held
  <2>3. believed \in WorldSet
    <3>1. \A id : \A status \in {"active", "tentative", "rejected"} :
            UpdateHypothesisStatus(world, id, status, confidence) \in WorldSet
      BY <2>1, UpdatedInWorld
    <3>2. UpdateHypothesisStatus(world, h.id, "active", confidence) \in WorldSet
      BY <3>1
    <3>3. AddHypothesis(world, held) \in WorldSet
      BY <2>2, AddedToWorld
    <3> QED
      BY <3>2, <3>3
  <2> HIDE DEF believed
  <2>4. UpdateEntities(believed, h.about, confidence) \in WorldSet
    BY <2>1, <2>3, UpdatedInWorld
  <2>5. SimulateHypothesis(world, h)
          = MarkSimulated(UpdateEntities(believed, h.about, confidence))
    BY DEF SimulateHypothesis, believed, held, confidence
  <2> QED
    BY <2>4, <2>5, WorldWith
<1>2. Hypotheses \subseteq HypothesisSet
  <2>1. Confidences \subseteq 0..100
    BY SimulationAssumption
  <2> QED
    BY <2>1 DEF Hypotheses, Hypothesis, HypothesisSet
<1>3. ASSUME NEW says \in Statements
      PROVE  SimulateAction(world, <<says>>) \in WorldSet
  <2> DEFINE effect == Hypothesis("sim_action", says, {}, 50, "tentative")
  <2>1. effect \in HypothesisSet
    BY HypothesisIs
  <2>2. [n \in DOMAIN <<says>> |->
           Hypothesis("sim_action", <<says>>[n], {}, 50, "tentative")] = <<effect>>
    OBVIOUS
  <2> HIDE DEF effect
  <2>3. world.hypotheses \o <<effect>> \in Seq(HypothesisSet)
    BY <2>1, WorldWith
  <2>4. [world EXCEPT !.hypotheses = world.hypotheses \o <<effect>>] \in WorldSet
    BY <2>3, WorldWith
  <2>5. SimulateAction(world, <<says>>)
          = MarkSimulated([world EXCEPT !.hypotheses = world.hypotheses \o <<effect>>])
    BY <2>2 DEF SimulateAction
  <2> QED
    BY <2>4, <2>5, WorldWith
<1> QED
  BY <1>1, <1>2, <1>3

\* after is world with more hypotheses.
Extends(world, after) ==
  /\ after \in WorldSet
  /\ Len(world.hypotheses) <= Len(after.hypotheses)
  /\ \A n \in DOMAIN world.hypotheses : after.hypotheses[n] = world.hypotheses[n]

\* A delta adds what it says and takes nothing back.
LEMMA DeltaAdds ==
  ASSUME NEW world \in WorldSet, NEW after, Extends(world, after), NEW delta \in Deltas
  PROVE  Extends(world, Apply(after, delta))
<1>1. PICK said \in HypothesisSet :
        said = Hypothesis("sim", delta.says, {}, 50, "tentative")
  <2>1. delta.says \in Statements
    BY SimulationAssumption
  <2> QED
    BY <2>1, HypothesisIs
<1>2. Entity("sim", 50) \in EntitySet
  BY EntityIs
<1>3. \/ Apply(after, delta) = AddHypothesis(after, said)
      \/ Apply(after, delta) = AddEntity(after, Entity("sim", 50))
      \/ Apply(after, delta) = after
  BY <1>1 DEF Apply
<1>4. PICK hs \in Seq(HypothesisSet), more \in Seq(HypothesisSet) :
        hs = world.hypotheses /\ more = after.hypotheses
  BY WorldWith DEF Extends
<1>5. /\ Len(hs) <= Len(more) /\ \A n \in DOMAIN hs : more[n] = hs[n]
      /\ after \in WorldSet
  BY <1>4 DEF Extends
<1>6. CASE Apply(after, delta) = AddHypothesis(after, said)
  <2>1. /\ Apply(after, delta) \in WorldSet
        /\ Apply(after, delta).hypotheses = Append(more, said)
    BY <1>4, <1>5, <1>6, AddedToWorld
  <2>2. /\ Len(hs) <= Len(Append(more, said))
        /\ \A n \in DOMAIN hs : Append(more, said)[n] = hs[n]
    BY <1>5
  <2> QED
    BY <1>4, <2>1, <2>2 DEF Extends
<1>7. CASE Apply(after, delta) = AddEntity(after, Entity("sim", 50))
  <2>1. /\ Apply(after, delta) \in WorldSet
        /\ Apply(after, delta).hypotheses = more
    BY <1>2, <1>4, <1>5, <1>7, AddedToWorld
  <2> QED
    BY <1>4, <1>5, <2>1 DEF Extends
<1>8. CASE Apply(after, delta) = after
  BY <1>8
<1> QED
  BY <1>3, <1>6, <1>7, <1>8

\* So does a branch.
LEMMA BranchAdds ==
  ASSUME NEW world \in WorldSet, NEW deltas \in Seq(Deltas)
  PROVE  Extends(world, SimulatedState(world, deltas))
<1> DEFINE S == {after \in WorldSet : Extends(world, after)}
           size == Len(deltas)
           step == [p \in (1..size) \X S |-> Apply(p[2], deltas[p[1]])]
           Is(f) == f = [n \in 0..size |-> IF n = 0 THEN world
                                           ELSE Apply(f[n - 1], deltas[n])]
<1>1. size \in Nat /\ \A n \in 1..size : deltas[n] \in Deltas
  OBVIOUS
<1>2. world \in S
  <2>1. PICK hs \in Seq(HypothesisSet) : hs = world.hypotheses
    BY WorldWith
  <2>2. Len(hs) <= Len(hs)
    BY <2>1
  <2> QED
    BY <2>1, <2>2 DEF Extends
<1>3. \A n \in 1..size, x \in S : Apply(x, deltas[n]) \in S
  <2> TAKE n \in 1..size, x \in S
  <2>1. Extends(world, Apply(x, deltas[n]))
    BY <1>1, DeltaAdds
  <2> QED
    BY <2>1 DEF Extends
<1> HIDE DEF S, size
<1>4. \A n \in 1..size, x \in S : step[<<n, x>>] = Apply(x, deltas[n])
  OBVIOUS
<1> HIDE DEF step
<1>5. \A n \in 1..size, x \in S : step[<<n, x>>] \in S
  BY <1>3, <1>4
<1>6. PICK f \in [0..size -> S] : Iterates(f, world, step, size)
  BY <1>1, <1>2, <1>5, IterationExists
<1>7. \A n \in 0..size : f[n] = IF n = 0 THEN world ELSE Apply(f[n - 1], deltas[n])
  <2> TAKE n \in 0..size
  <2>1. f[n] = IF n = 0 THEN world ELSE step[<<n, f[n - 1]>>]
    BY <1>6 DEF Iterates
  <2>2. CASE n = 0
    BY <2>1, <2>2
  <2>3. CASE n # 0
    <3>1. n \in 1..size /\ n - 1 \in 0..size
      BY <1>1, <2>3
    <3>2. f[n - 1] \in S
      BY <3>1
    <3> QED
      BY <1>4, <2>1, <2>3, <3>1, <3>2
  <2> QED
    BY <2>2, <2>3
<1>8. Is(f)
  <2> DEFINE g == [n \in 0..size |-> IF n = 0 THEN world ELSE Apply(f[n - 1], deltas[n])]
  <2>1. f = g
    BY <1>7
  <2> QED
    BY <2>1
<1> DEFINE c == CHOOSE g : Is(g)
<1>9. Is(c)
  BY <1>8
<1>10. SimulatedState(world, deltas) = MarkSimulated(c[size])
  BY DEF SimulatedState, size
<1> HIDE DEF c
<1>11. c[0] = world /\ \A n \in 1..size : c[n] = Apply(c[n - 1], deltas[n])
  BY <1>1, <1>9
<1>12. c[size] \in S
  <2>1. \A k \in 1..size : c[k - 1] \in S => c[k] = step[<<k, c[k - 1]>>]
    BY <1>4, <1>11
  <2>2. Stepwise(c, S, world, step, size)
    BY <1>1, <1>2, <1>5, <1>11, <2>1 DEF Stepwise
  <2> QED
    BY <1>1, <2>2, IterationStays
<1>13. c[size] \in WorldSet /\ Extends(world, c[size])
  BY <1>12 DEF S
<1> QED
  BY <1>10, <1>13, WorldWith DEF Extends

\* A branch may be less and less credible, but never not at all.
LEMMA TotalConfidenceIs ==
  ASSUME NEW deltas
  PROVE  TotalConfidence(deltas) \in Nat \ {0}
<1> DEFINE S == Nat \ {0}
           factor(n) == IF n <= Len(deltas) THEN Factor(deltas[n].kind) ELSE 100
           step == [p \in (1..MaxDeltas) \X S |-> p[2] * factor(p[1])]
           Is(f) == f = [n \in 0..MaxDeltas |-> IF n = 0 THEN 1 ELSE f[n - 1] * factor(n)]
<1>1. MaxDeltas \in Nat /\ 1 \in S
  BY SimulationAssumption
<1>2. \A n : factor(n) \in {70, 80, 85, 90, 95, 100}
  BY DEF Factor
<1>3. \A n : \A x \in S : x * factor(n) \in S
  <2>1. \A x \in S : /\ x * 70 \in S /\ x * 80 \in S /\ x * 85 \in S
                      /\ x * 90 \in S /\ x * 95 \in S /\ x * 100 \in S
    OBVIOUS
  <2> HIDE DEF factor, S
  <2> TAKE n
  <2> TAKE x \in S
  <2>2. factor(n) \in {70, 80, 85, 90, 95, 100}
    BY <1>2
  <2> QED
    BY <2>1, <2>2
<1>4. TotalConfidence(deltas) = (CHOOSE f : Is(f))[MaxDeltas]
  BY Zenon DEF TotalConfidence
<1> HIDE DEF S, factor
<1>5. \A n \in 1..MaxDeltas, x \in S : step[<<n, x>>] = x * factor(n)
  OBVIOUS
<1> HIDE DEF step
<1>6. \A n \in 1..MaxDeltas, x \in S : step[<<n, x>>] \in S
  BY <1>3, <1>5
<1>7. PICK f \in [0..MaxDeltas -> S] : Iterates(f, 1, step, MaxDeltas)
  BY <1>1, <1>6, IterationExists
<1>8. \A n \in 0..MaxDeltas : f[n] = IF n = 0 THEN 1 ELSE f[n - 1] * factor(n)
  <2> TAKE n \in 0..MaxDeltas
  <2>1. f[n] = IF n = 0 THEN 1 ELSE step[<<n, f[n - 1]>>]
    BY <1>7 DEF Iterates
  <2>2. CASE n = 0
    BY <2>1, <2>2
  <2>3. CASE n # 0
    <3>1. n \in 1..MaxDeltas /\ n - 1 \in 0..MaxDeltas
      BY <1>1, <2>3
    <3>2. f[n - 1] \in S
      BY <3>1
    <3>3. step[<<n, f[n - 1]>>] = f[n - 1] * factor(n)
      BY <1>5, <3>1, <3>2
    <3> QED
      BY <2>1, <2>3, <3>3
  <2> QED
    BY <2>2, <2>3
<1>9. Is(f)
  <2> DEFINE g == [n \in 0..MaxDeltas |-> IF n = 0 THEN 1 ELSE f[n - 1] * factor(n)]
  <2>1. f = g
    BY <1>8
  <2> QED
    BY <2>1
<1> DEFINE c == CHOOSE g : Is(g)
<1>10. Is(c)
  BY <1>9
<1> HIDE DEF c
<1>11. c[0] = 1 /\ \A n \in 1..MaxDeltas : c[n] = c[n - 1] * factor(n)
  BY <1>1, <1>10
<1>12. c[MaxDeltas] \in S
  <2>1. \A k \in 1..MaxDeltas : c[k - 1] \in S => c[k] = step[<<k, c[k - 1]>>]
    BY <1>5, <1>11
  <2>2. Stepwise(c, S, 1, step, MaxDeltas)
    BY <1>1, <1>6, <1>11, <2>1 DEF Stepwise
  <2> QED
    BY <1>1, <2>2, IterationStays
<1> QED
  BY <1>4, <1>12 DEF S, c

\* Of some numbers there is a greatest.
LEMMA MaximumExists ==
  ASSUME NEW n \in Nat, NEW f, NEW S, S \subseteq 1..n, S # {},
         \A k \in S : f[k] \in Nat
  PROVE  \E m \in S : \A k \in S : f[k] <= f[m]
<1> DEFINE Upto(k) == {m \in S : m <= k}
           T == {k \in 0..n : /\ Upto(k) # {}
                              /\ \A m \in Upto(k) : \E j \in Upto(k) : ~(f[j] <= f[m])}
<1>9. \A m \in S : m \in Nat /\ 1 <= m /\ m <= n
  OBVIOUS
<1>10. \A k : \A m : m \in Upto(k) <=> m \in S /\ m <= k
  OBVIOUS
<1>1. Upto(n) = S /\ n \in 0..n
  <2> HIDE DEF T, Upto
  <2>1. \A m : m \in Upto(n) <=> m \in S
    BY <1>9, <1>10
  <2> QED
    BY <2>1
<1> SUFFICES ASSUME T # {}
             PROVE  FALSE
  BY <1>1
<1>2. PICK least \in T : \A m \in T : least <= m
  <2>1. T \subseteq Nat
    OBVIOUS
  <2> HIDE DEF T
  <2> QED
    BY <2>1, LeastNumber
<1>3. least # 0
  <2>1. Upto(0) = {}
    <3> HIDE DEF T, Upto
    <3>1. ASSUME NEW m, m \in Upto(0)
          PROVE  FALSE
      <4>1. m \in S /\ m <= 0
        BY <1>10, <3>1
      <4>2. m \in Nat /\ 1 <= m
        BY <1>9, <4>1
      <4> QED
        BY <4>1, <4>2
    <3> QED
      BY <3>1
  <2> QED
    BY <1>2, <2>1
<1>4. least \in 1..n /\ least - 1 \in 0..n /\ least - 1 \notin T
  BY <1>2, <1>3
<1>5. Upto(least) \subseteq Upto(least - 1) \cup {least}
  <2> HIDE DEF T, Upto
  <2>1. \A m \in Nat : m <= least => m <= least - 1 \/ m = least
    BY <1>4
  <2>2. \A m : m \in Upto(least) => m \in Upto(least - 1) \/ m = least
    BY <1>9, <1>10, <2>1
  <2> QED
    BY <2>2
<1>6. Upto(least - 1) \subseteq Upto(least)
  <2> HIDE DEF T, Upto
  <2>1. \A m \in Nat : m <= least - 1 => m <= least
    BY <1>4
  <2>2. \A m : m \in Upto(least - 1) => m \in Upto(least)
    BY <1>9, <1>10, <2>1
  <2> QED
    BY <2>2
<1>7. CASE Upto(least - 1) = {}
  <2>1. \A j, m \in Upto(least) : j = least /\ m = least
    BY <1>5, <1>7
  <2> HIDE DEF Upto
  <2>2. PICK m \in Upto(least) : TRUE
    BY <1>2
  <2>3. f[m] \in Nat
    BY <2>2 DEF Upto
  <2> QED
    BY <1>2, <2>1, <2>2, <2>3
<1>8. CASE Upto(least - 1) # {}
  <2>1. PICK m \in Upto(least - 1) : \A j \in Upto(least - 1) : f[j] <= f[m]
    BY <1>4, <1>8
  <2>2. f[m] \in Nat /\ m \in Upto(least)
    BY <1>6, <2>1
  <2>3. \A j \in Upto(least) : f[j] \in Nat
    OBVIOUS
  <2>4. PICK j \in Upto(least) : ~(f[j] <= f[m])
    BY <1>2, <2>2
  <2>5. j = least
    BY <1>5, <2>1, <2>4
  <2> HIDE DEF Upto
  <2>6. \A i \in Upto(least) : f[i] <= f[j]
    <3> TAKE i \in Upto(least)
    <3>1. f[i] \in Nat /\ f[j] \in Nat
      BY <2>3
    <3>2. CASE i = least
      BY <2>5, <3>1, <3>2
    <3>3. CASE i # least
      <4>1. f[i] <= f[m]
        BY <1>5, <2>1, <3>3
      <4> QED
        BY <2>2, <2>4, <3>1, <4>1
    <3> QED
      BY <3>2, <3>3
  <2> QED
    BY <1>2, <2>4, <2>6
<1> QED
  BY <1>7, <1>8

\* The branch recommended is the best of the viable ones, if there are any.
LEMMA BestIs ==
  ASSUME NEW size \in Nat, NEW branches, DOMAIN branches = 1..size, branches # <<>> <=> size # 0,
         \A n \in 1..size : branches[n].confidence \in Nat \ {0}
  PROVE  LET sound == {n \in DOMAIN branches :
                         branches[n].policy_allowed /\ branches[n].conflicts = {}}
             best == BestBranch(branches)
         IN  /\ {n \in DOMAIN branches : IsViable(branches[n])} = sound
             /\ best = 0 <=> sound = {}
             /\ best # 0 => /\ best \in sound
                            /\ \A n \in sound :
                                 branches[n].confidence <= branches[best].confidence
             /\ sound # {} => branches # <<>>
<1> DEFINE sound == {n \in DOMAIN branches :
                       branches[n].policy_allowed /\ branches[n].conflicts = {}}
           viable == {n \in DOMAIN branches : IsViable(branches[n])}
           top == {n \in viable : \A k \in viable :
                     branches[k].confidence <= branches[n].confidence}
           first == CHOOSE n \in top : \A k \in top : n <= k
<1>1. viable = sound
  <2>1. \A n \in 1..size : branches[n].confidence > 0
    OBVIOUS
  <2> QED
    BY <2>1 DEF IsViable
<1>2. BestBranch(branches) = IF viable = {} THEN 0 ELSE first
  BY Zenon DEF BestBranch
<1>3. viable \subseteq 1..size
  OBVIOUS
<1> HIDE DEF viable
<1>4. viable # {} => first \in top /\ first # 0
  <2> SUFFICES ASSUME viable # {}
               PROVE  first \in top /\ first # 0
    OBVIOUS
  <2> DEFINE f == [n \in 1..size |-> branches[n].confidence]
  <2>1. \A k \in viable : f[k] \in Nat
    BY <1>3
  <2>2. PICK m \in viable : \A k \in viable : f[k] <= f[m]
    <3> HIDE DEF f
    <3> QED
      BY <1>3, <2>1, MaximumExists
  <2>3. m \in top
    BY <1>3, <2>2
  <2>4. top \subseteq Nat /\ top \subseteq 1..size
    <3>1. top \subseteq viable
      OBVIOUS
    <3> HIDE DEF top
    <3>2. 1..size \subseteq Nat
      OBVIOUS
    <3> QED
      BY <1>3, <3>1, <3>2
  <2> HIDE DEF top
  <2>5. \E n \in top : \A k \in top : n <= k
    BY <2>3, <2>4, LeastNumber
  <2>6. first \in top
    BY <2>5
  <2> HIDE DEF first
  <2> QED
    BY <2>4, <2>6
<1>5. sound # {} => branches # <<>>
  <2>1. sound \subseteq 1..size
    OBVIOUS
  <2> QED
    BY <2>1
<1> HIDE DEF first
<1>6. CASE viable = {}
  <2>1. BestBranch(branches) = 0
    BY <1>2, <1>6
  <2> QED
    BY <1>1, <1>5, <1>6, <2>1 DEF viable
<1>7. CASE viable # {}
  <2>1. BestBranch(branches) = first /\ first \in top /\ first # 0
    BY <1>2, <1>4, <1>7
  <2>2. first \in viable /\ \A k \in viable :
          branches[k].confidence <= branches[first].confidence
    BY <2>1
  <2> QED
    BY <1>1, <1>5, <1>7, <2>1, <2>2 DEF viable
<1> QED
  BY <1>6, <1>7

\* Hypotheses that contradict each other in a world do so in what extends it.
LEMMA StillContradict ==
  ASSUME NEW world \in WorldSet, NEW after, Extends(world, after),
         GenerateFromConflict(world) # {}
  PROVE  DetectConflicts(after) # {}
<1>1. PICK hs \in Seq(HypothesisSet), more \in Seq(HypothesisSet) :
        hs = world.hypotheses /\ more = after.hypotheses
  BY WorldWith DEF Extends
<1>2. /\ DOMAIN hs = 1..Len(hs) /\ DOMAIN more = 1..Len(more)
      /\ Len(hs) \in Nat /\ Len(more) \in Nat /\ Len(hs) <= Len(more)
      /\ \A n \in DOMAIN hs : more[n] = hs[n]
  BY <1>1 DEF Extends
<1>3. PICK p \in Contradictions(world) : TRUE
  BY DEF GenerateFromConflict
<1>4. /\ p \in Active(world) \X Active(world) /\ p[1] < p[2]
      /\ Contradict(hs[p[1]], hs[p[2]])
  BY <1>1 DEF Contradictions
<1>5. Active(world) \subseteq Active(after) /\ Active(world) \subseteq DOMAIN hs
  <2>1. Active(world) \subseteq DOMAIN hs
    BY <1>1 DEF Active
  <2>2. \A n \in Active(world) : n \in DOMAIN more /\ more[n] = hs[n]
    BY <1>2, <2>1
  <2> QED
    BY <1>1, <2>1, <2>2 DEF Active
<1>6. p \in Contradictions(after)
  <2>1. more[p[1]] = hs[p[1]] /\ more[p[2]] = hs[p[2]]
    BY <1>2, <1>4, <1>5
  <2>2. p \in Active(after) \X Active(after)
    BY <1>4, <1>5
  <2> QED
    BY <1>1, <1>4, <2>1, <2>2 DEF Contradictions
<1> QED
  BY <1>6 DEF DetectConflicts

\* Who imagines what repeats an anchored fact, of entities that are known, ends in
\* a conflict.
LEMMA ImaginedConflict ==
  ASSUME NEW world \in WorldSet, NEW h \in HypothesisSet, ~Has(world.hypotheses, h.id),
         h.says.repeats \cap world.anchored # {},
         NEW e \in h.about, Has(world.entities, e)
  PROVE  DetectConflicts(SimulateHypothesis(world, h)) # {}
<1> DEFINE held == [h EXCEPT !.status = "active", !.confidence = 10]
           believed == AddHypothesis(world, held)
           updated == UpdateEntities(believed, h.about, 10)
           after == MarkSimulated(updated)
<1>1. SimulateHypothesis(world, h) = after
  BY DEF SimulateHypothesis, ImaginedConfidence
<1>2. /\ held \in HypothesisSet /\ held.status = "active" /\ held.about = h.about
  <2>1. 10 \in 0..100 /\ "active" \in {"active", "tentative", "rejected"}
    OBVIOUS
  <2> QED
    BY <2>1 DEF HypothesisSet
<1> HIDE DEF held
<1>3. /\ believed \in WorldSet /\ believed.hypotheses = Append(world.hypotheses, held)
      /\ believed.entities = world.entities
  BY <1>2, AddedToWorld
<1> HIDE DEF believed
<1>4. /\ updated \in WorldSet /\ updated.hypotheses = Append(world.hypotheses, held)
      /\ DOMAIN updated.entities = DOMAIN world.entities
      /\ \A n \in DOMAIN world.entities :
           /\ updated.entities[n].id = world.entities[n].id
           /\ world.entities[n].id \in h.about => updated.entities[n].confidence = 10
  <2>1. 10 \in 0..100
    OBVIOUS
  <2> QED
    BY <1>3, <2>1, UpdatedInWorld
<1> HIDE DEF updated
<1>5. PICK hs \in Seq(HypothesisSet), es \in Seq(EntitySet) :
        world.hypotheses = hs /\ updated.entities = es
  BY <1>4, WorldWith
<1>6. /\ after.hypotheses = Append(hs, held) /\ after.entities = es
  BY <1>4, <1>5, WorldWith
<1> HIDE DEF after
<1> DEFINE new == Len(hs) + 1
<1>7. new \in DOMAIN Append(hs, held) /\ Append(hs, held)[new] = held
  OBVIOUS
<1>8. new \in Active(after)
  BY <1>2, <1>6, <1>7 DEF Active
<1>9. Has(es, e) /\ Find(es, e).confidence = 10
  <2> DEFINE T == {n \in DOMAIN es : es[n].id = e}
             Is(n) == es[n].id = e /\ \A k \in 1..(n - 1) : es[k].id # e
  <2>1. T # {}
    BY <1>4, <1>5 DEF Has
  <2>2. T \subseteq Nat /\ T \subseteq 1..Len(es) /\ Len(es) \in Nat
    OBVIOUS
  <2>3. PICK least \in T : \A m \in T : least <= m
    <3> HIDE DEF T
    <3> QED
      BY <2>1, <2>2, LeastNumber
  <2>4. Is(least)
    <3>1. \A k \in 1..(least - 1) : k \in DOMAIN es /\ k < least
      BY <2>2, <2>3
    <3>2. \A k \in 1..(least - 1) : k \notin T
      <4> TAKE k \in 1..(least - 1)
      <4>1. k < least /\ k \in Nat /\ least \in Nat
        BY <2>2, <3>1
      <4> HIDE DEF T
      <4> QED
        BY <2>3, <4>1
    <3> QED
      BY <2>3, <3>1, <3>2
  <2> DEFINE m == CHOOSE n \in DOMAIN es : Is(n)
  <2>5. m \in DOMAIN es /\ Is(m)
    BY <2>3, <2>4
  <2>6. Find(es, e) = es[m]
    BY DEF Find
  <2> HIDE DEF m
  <2>7. es[m].confidence = 10
    BY <1>4, <1>5, <2>5
  <2> QED
    BY <2>5, <2>6, <2>7 DEF Has
<1>10. e \in Entities
  BY DEF HypothesisSet
<1>11. <<new, e>> \in Doubts(after)
  <2>1. <<new, e>> \in Active(after) \X Entities
    BY <1>8, <1>10
  <2>2. e \in after.hypotheses[new].about
    BY <1>2, <1>6, <1>7
  <2>3. Has(after.entities, e) /\ Find(after.entities, e).confidence < 20
    BY <1>6, <1>9
  <2> HIDE DEF new
  <2> QED
    BY <2>1, <2>2, <2>3 DEF Doubts
<1> QED
  BY <1>1, <1>11 DEF DetectConflicts

\* The world is one, the last scenario was honest, and it recommended nothing for
\* a world with a conflict to be resolved.
ConflictBlocks ==
  (scenario # NoScenario /\ GenerateFromConflict(scenario.from[1]) # {}) =>
    scenario.best = 0

SimulationInv == state \in WorldSet /\ ScenarioHonest /\ ConflictBlocks

\* A branch is viable as often as it is allowed and without conflict.
LEMMA BranchIs ==
  ASSUME NEW world \in WorldSet, NEW deltas \in Seq(Deltas), NEW check_policy
  PROVE  LET branch == SimulateBranch(world, deltas, check_policy)
         IN  /\ branch.confidence \in Nat \ {0}
             /\ GenerateFromConflict(world) # {} => branch.conflicts # {}
<1> DEFINE branch == SimulateBranch(world, deltas, check_policy)
<1>1. /\ branch.confidence = TotalConfidence(deltas)
      /\ branch.conflicts = DetectConflicts(SimulatedState(world, deltas))
  BY DEF SimulateBranch
<1> HIDE DEF branch
<1>2. branch.confidence \in Nat \ {0}
  BY <1>1, TotalConfidenceIs
<1>3. GenerateFromConflict(world) # {} => branch.conflicts # {}
  BY <1>1, BranchAdds, StillContradict
<1> QED
  BY <1>2, <1>3 DEF branch

\* Every scenario is honest, whatever was there before.
LEMMA ScenarioSimulated ==
  ASSUME state \in WorldSet, events = <<>>, NEW branch_deltas \in BranchDeltas,
         NEW check_policy \in BOOLEAN, SimulateScenario(branch_deltas, check_policy)
  PROVE  SimulationInv'
<1> DEFINE branches == [n \in DOMAIN branch_deltas |->
                          SimulateBranch(state, branch_deltas[n], check_policy)]
           viable == {n \in DOMAIN branches : IsViable(branches[n])}
           best == BestBranch(branches)
           sound == {n \in DOMAIN branches :
                       branches[n].policy_allowed /\ branches[n].conflicts = {}}
           completed == [type |-> "simulation.scenario.completed",
                         branches |-> Len(branches), viable |-> Cardinality(viable),
                         best |-> best, all_blocked |-> branches # <<>> /\ viable = {}]
<1>1. PICK size \in Nat : /\ DOMAIN branch_deltas = 1..size
                          /\ \A n \in 1..size : branch_deltas[n] \in Seq(Deltas)
  <2>1. PICK size \in 0..MaxBranches :
          branch_deltas \in [1..size -> UNION {[1..k -> Deltas] : k \in 0..MaxDeltas}]
    BY DEF BranchDeltas
  <2>2. /\ \A n \in 1..size : \E k \in 0..MaxDeltas : branch_deltas[n] \in [1..k -> Deltas]
        /\ DOMAIN branch_deltas = 1..size
    <3>1. /\ \A n \in 1..size :
               branch_deltas[n] \in UNION {[1..k -> Deltas] : k \in 0..MaxDeltas}
          /\ DOMAIN branch_deltas = 1..size
      BY <2>1
    <3>2. \A d : d \in UNION {[1..k -> Deltas] : k \in 0..MaxDeltas} =>
                   \E k \in 0..MaxDeltas : d \in [1..k -> Deltas]
      BY Zenon
    <3> QED
      BY <3>1, <3>2, Zenon
  <2>3. \A k \in 0..MaxDeltas : \A d \in [1..k -> Deltas] : d \in Seq(Deltas)
    BY SimulationAssumption
  <2>4. size \in Nat
    BY SimulationAssumption
  <2> QED
    BY <2>2, <2>3, <2>4
<1>2. /\ DOMAIN branches = 1..size
      /\ \A n \in 1..size : /\ branches[n].confidence \in Nat \ {0}
                            /\ GenerateFromConflict(state) # {} => branches[n].conflicts # {}
  BY <1>1, BranchIs
<1>3. branches # <<>> <=> size # 0
  <2> HIDE DEF branches
  <2>1. DOMAIN <<>> = {}
    OBVIOUS
  <2>2. size # 0 => 1 \in 1..size
    OBVIOUS
  <2>3. size = 0 => branches = <<>>
    <3> SUFFICES ASSUME size = 0
                 PROVE  branches = <<>>
      OBVIOUS
    <3>1. DOMAIN branches = {} /\ DOMAIN branch_deltas = {}
      BY <1>1, <1>2
    <3> QED
      BY <3>1 DEF branches
  <2> QED
    BY <1>2, <2>1, <2>2, <2>3
<1>4. /\ scenario' = [from |-> <<state>>, branches |-> branches, best |-> best]
      /\ events' = events \o <<[type |-> "simulation.scenario.started",
                                branches |-> Len(branches)], completed>>
      /\ state' = state
  BY Zenon DEF SimulateScenario
<1> HIDE DEF branches, completed, best
<1>5. /\ viable = sound
      /\ best = 0 <=> sound = {}
      /\ best # 0 => /\ best \in sound
                     /\ \A n \in sound : branches[n].confidence <= branches[best].confidence
      /\ sound # {} => branches # <<>>
  BY <1>2, <1>3, BestIs DEF best
<1>6. /\ scenario'.branches = branches /\ scenario'.best = best
      /\ scenario'.from[1] = state
  BY <1>4
<1>7. /\ completed.best = best /\ completed.viable = Cardinality(viable)
      /\ completed.all_blocked <=> branches # <<>> /\ viable = {}
  BY DEF completed
<1>8. events'[Len(events')] = completed
  BY <1>4
<1> HIDE DEF sound, viable
<1>9. ScenarioHonest'
  BY <1>5, <1>6, <1>7, <1>8 DEF ScenarioHonest, sound
<1>10. ConflictBlocks'
  <2>1. GenerateFromConflict(state) # {} => sound = {}
    BY <1>2 DEF sound
  <2>2. GenerateFromConflict(scenario'.from[1]) = GenerateFromConflict(state)
    BY <1>6
  <2>3. ConflictBlocks' <=> ((scenario' # NoScenario
                              /\ GenerateFromConflict(scenario'.from[1]) # {}) =>
                               scenario'.best = 0)
    BY DEF ConflictBlocks
  <2> QED
    BY <1>5, <1>6, <2>1, <2>2, <2>3
<1> QED
  BY <1>4, <1>9, <1>10 DEF SimulationInv

\* Every change of the world makes a world, and no scenario.
LEMMA SimulationNextKeeps ==
  ASSUME SimulationInv, [SimulationNext]_simulationVars
  PROVE  SimulationInv'
<1> USE DEF SimulationInv
<1>1. Confidences \subseteq 0..100
  BY SimulationAssumption
<1>2. ASSUME NEW world \in WorldSet, Change(world)
      PROVE  SimulationInv'
  <2>1. state' = world /\ scenario' = scenario /\ events' = events
    BY <1>2 DEF Change
  <2> QED
    BY <2>1 DEF ScenarioHonest, ConflictBlocks
<1>3. ASSUME NEW e \in Entities, NEW confidence \in Confidences
      PROVE  /\ AddEntity(state, Entity(e, confidence)) \in WorldSet
             /\ UpdateEntities(state, {e}, confidence) \in WorldSet
             /\ RemoveEntity(state, e) \in WorldSet
  <2>1. Entity(e, confidence) \in EntitySet
    BY <1>1, EntityIs
  <2> QED
    BY <1>1, <2>1, AddedToWorld, UpdatedInWorld, RemovedFromWorld
<1>4. ASSUME NEW h \in Hypotheses
      PROVE  /\ AddHypothesis(state, h) \in WorldSet
             /\ SimulateHypothesis(state, h) \in WorldSet
  <2>1. h \in HypothesisSet
    BY <1>1 DEF Hypotheses, Hypothesis, HypothesisSet
  <2> QED
    BY <2>1, AddedToWorld, Imagined
<1>5. ASSUME NEW id \in HypothesisIds, NEW status \in {"active", "rejected"},
             NEW confidence \in Confidences
      PROVE  UpdateHypothesisStatus(state, id, status, confidence) \in WorldSet
  <2>1. /\ confidence \in 0..100
        /\ \A s \in {"active", "tentative", "rejected"} :
             UpdateHypothesisStatus(state, id, s, confidence) \in WorldSet
    BY <1>1, UpdatedInWorld
  <2> QED
    BY <2>1
<1>6. ASSUME NEW facts \in SUBSET Facts
      PROVE  AddAnchorFacts(state, facts) \in WorldSet
  BY AddedToWorld
<1>7. ASSUME NEW says \in Statements
      PROVE  SimulateAction(state, <<says>>) \in WorldSet
  BY Imagined
<1>8. ASSUME NEW branch_deltas \in BranchDeltas, NEW check_policy \in BOOLEAN,
             events = <<>>, SimulateScenario(branch_deltas, check_policy)
      PROVE  SimulationInv'
  BY <1>8, ScenarioSimulated
<1>9. ASSUME UNCHANGED simulationVars
      PROVE  SimulationInv'
  BY <1>9 DEF simulationVars, ScenarioHonest, ConflictBlocks
<1> HIDE DEF SimulationInv
<1> QED
  BY <1>2, <1>3, <1>4, <1>5, <1>6, <1>7, <1>8, <1>9 DEF SimulationNext

LEMMA SimulationAlways == ReasoningSpec => []SimulationInv
<1>1. ReasoningInit => SimulationInv
  BY DEF ReasoningInit, SimulationInit, SimulationInv, WorldSet, ScenarioHonest,
         ConflictBlocks
<1>2. SimulationInv /\ [ReasoningNext]_reasoningVars => SimulationInv'
  <2> SUFFICES ASSUME SimulationInv, [ReasoningNext]_reasoningVars
               PROVE  SimulationInv'
    OBVIOUS
  <2>1. [SimulationNext]_simulationVars
    BY DEF ReasoningNext, reasoningVars
  <2> QED
    BY <2>1, SimulationNextKeeps
<1> QED
  BY <1>1, <1>2, PTL DEF ReasoningSpec

(***************************************************************************)
(* What is recommended may be recommended and is the best there is, of all *)
(* branches and all worlds.                                                *)
(***************************************************************************)
THEOREM ScenariosAlwaysHonest == ReasoningSpec => []ScenarioHonest
<1>1. SimulationInv => ScenarioHonest
  BY DEF SimulationInv
<1> QED
  BY <1>1, SimulationAlways, PTL

\* No imagining resolves a conflict, and imagining what is known makes one.
THEOREM ConflictsAlwaysStay == ReasoningSpec => []ConflictsStay
<1>1. SimulationInv => ConflictsStay
  <2> SUFFICES ASSUME SimulationInv, NEW h \in Hypotheses,
                      ~Has(state.hypotheses, h.id),
                      h.says.repeats \cap state.anchored # {},
                      NEW e \in h.about, Has(state.entities, e)
               PROVE  DetectConflicts(SimulateHypothesis(state, h)) # {}
    BY DEF ConflictsStay, SimulationInv, ConflictBlocks
  <2>1. h \in HypothesisSet
    BY SimulationAssumption DEF Hypotheses, Hypothesis, HypothesisSet
  <2> QED
    BY <2>1, ImaginedConflict DEF SimulationInv
<1> QED
  BY <1>1, SimulationAlways, PTL

--------------------------------------------------------------------------------
(***************************************************************************)
(* Consultations of a model.                                               *)
(***************************************************************************)
Answers == NextAction \cup {"plan"} \cup Failures

Results ==
  NextAction \cup {ParsePlan(p) : p \in ModelPlans}
    \cup {EnginePlan(task, reads, after) :
            task \in ModelTasks, reads \in BOOLEAN, after \in NextAction \cup {"none"}}

ConsultationSet ==
  [by : {"deliberation", "step", "plan_compiler"}, task : ModelTasks, reads : BOOLEAN,
   limit : Nat, after : NextAction \cup {"none"}, fallback : BOOLEAN, audited : BOOLEAN,
   answers : Seq(Answers), result : Seq(Results)]

EntrySet == [type : {"requested", "succeeded", "failed"}, of : Nat]

\* What a log tells of the n-th consultation, what of it are requests, and which
\* of these were not settled.
ToldIn(log, n) == {k \in DOMAIN log : log[k].of = n}
RequestsIn(log, n) == {k \in ToldIn(log, n) : log[k].type = "requested"}
OpenIn(log, n) ==
  {k \in RequestsIn(log, n) : k + 1 \in ToldIn(log, n) => k + 1 \in RequestsIn(log, n)}

\* One more entry.
LEMMA EntryTold ==
  ASSUME NEW log \in Seq(EntrySet), NEW e \in EntrySet, NEW n
  PROVE  /\ Append(log, e) \in Seq(EntrySet)
         /\ Len(log) + 1 \notin ToldIn(log, n)
         /\ ToldIn(Append(log, e), n) = IF e.of = n THEN ToldIn(log, n) \cup {Len(log) + 1}
                                        ELSE ToldIn(log, n)
         /\ RequestsIn(Append(log, e), n)
              = IF e.of = n /\ e.type = "requested"
                THEN RequestsIn(log, n) \cup {Len(log) + 1} ELSE RequestsIn(log, n)
         /\ OpenIn(Append(log, e), n)
              = IF e.of # n THEN OpenIn(log, n)
                ELSE IF e.type = "requested" THEN OpenIn(log, n) \cup {Len(log) + 1}
                ELSE OpenIn(log, n) \ {Len(log)}
<1> DEFINE size == Len(log)
           more == Append(log, e)
<1>1. /\ size \in Nat /\ DOMAIN log = 1..size /\ DOMAIN more = 1..(size + 1)
      /\ \A k \in 1..size : more[k] = log[k]
      /\ more[size + 1] = e /\ more \in Seq(EntrySet)
  OBVIOUS
<1>2. \A k \in 1..(size + 1) : k \in 1..size \/ k = size + 1
  BY <1>1
<1>3. size + 1 \notin 1..size /\ 1..size \subseteq 1..(size + 1) /\ size + 1 \in 1..(size + 1)
  BY <1>1
<1> HIDE DEF more, size
<1>4. size + 1 \notin ToldIn(log, n)
  BY <1>1, <1>3 DEF ToldIn
<1>5. ToldIn(more, n) = IF e.of = n THEN ToldIn(log, n) \cup {size + 1} ELSE ToldIn(log, n)
  BY <1>1, <1>2, <1>3 DEF ToldIn
<1>6. RequestsIn(more, n) = IF e.of = n /\ e.type = "requested"
                            THEN RequestsIn(log, n) \cup {size + 1} ELSE RequestsIn(log, n)
  <2>1. \A k \in ToldIn(log, n) : more[k] = log[k]
    BY <1>1 DEF ToldIn
  <2> QED
    BY <1>1, <1>5, <2>1 DEF RequestsIn
<1>7. /\ \A k \in ToldIn(log, n) : k \in 1..size
      /\ RequestsIn(log, n) \subseteq ToldIn(log, n)
  BY <1>1 DEF ToldIn, RequestsIn
<1>8. (size + 1) + 1 \notin ToldIn(more, n)
  <2>1. (size + 1) + 1 \notin 1..(size + 1)
    BY <1>1
  <2> QED
    BY <1>1, <2>1 DEF ToldIn
<1>9. \A k \in 1..size : k + 1 = size + 1 <=> k = size
  BY <1>1
<1>10. CASE e.of # n
  <2>1. ToldIn(more, n) = ToldIn(log, n) /\ RequestsIn(more, n) = RequestsIn(log, n)
    BY <1>5, <1>6, <1>10
  <2> QED
    BY <1>1, <1>4, <1>5, <1>6, <1>10, <2>1 DEF OpenIn, more, size
<1>11. CASE e.of = n /\ e.type = "requested"
  <2>1. /\ ToldIn(more, n) = ToldIn(log, n) \cup {size + 1}
        /\ RequestsIn(more, n) = RequestsIn(log, n) \cup {size + 1}
    BY <1>5, <1>6, <1>11
  <2>2. \A k \in RequestsIn(log, n) :
          (k + 1 \in ToldIn(more, n) => k + 1 \in RequestsIn(more, n))
            <=> (k + 1 \in ToldIn(log, n) => k + 1 \in RequestsIn(log, n))
    BY <1>4, <1>7, <2>1
  <2>3. OpenIn(more, n) = OpenIn(log, n) \cup {size + 1}
    BY <1>8, <2>1, <2>2 DEF OpenIn
  <2> QED
    BY <1>1, <1>4, <1>5, <1>6, <1>11, <2>3 DEF more, size
<1>12. CASE e.of = n /\ e.type # "requested"
  <2>1. /\ ToldIn(more, n) = ToldIn(log, n) \cup {size + 1}
        /\ RequestsIn(more, n) = RequestsIn(log, n)
    BY <1>5, <1>6, <1>12
  <2>2. \A k \in RequestsIn(log, n) :
          (k + 1 \in ToldIn(more, n) => k + 1 \in RequestsIn(more, n))
            <=> (k + 1 \in ToldIn(log, n) => k + 1 \in RequestsIn(log, n)) /\ k # size
    BY <1>4, <1>7, <1>9, <2>1
  <2>3. OpenIn(more, n) = OpenIn(log, n) \ {size}
    BY <2>1, <2>2 DEF OpenIn
  <2> QED
    BY <1>1, <1>4, <1>5, <1>6, <1>12, <2>3 DEF more, size
<1> QED
  BY <1>10, <1>11, <1>12

\* Of the n-th consultation as it is, a request is with the model.
AskedOnLog(log, n, c) ==
  IF c.audited
  THEN /\ Cardinality(RequestsIn(log, n)) = Len(c.answers) + 1
       /\ OpenIn(log, n) = {Len(log)}
  ELSE ToldIn(log, n) = {}

\* Or none is: this is what RequestsAccounted asks of it.
DoneOnLog(log, n, c) ==
  LET raised == c.answers # <<>> /\ Last(c.answers) = "error"
  IN  IF c.audited
      THEN /\ Cardinality(RequestsIn(log, n)) = Len(c.answers)
           /\ \A k \in OpenIn(log, n) : raised /\ \A other \in ToldIn(log, n) : other <= k
           /\ raised => OpenIn(log, n) # {}
      ELSE ToldIn(log, n) = {}

LEMMA AccountedOnLog ==
  \A n : RequestsAccounted(n) <=> DoneOnLog(audit, n, consulted[n])
BY Zenon DEF RequestsAccounted, DoneOnLog, OpenIn, RequestsIn, ToldIn

\* What a log tells of one consultation does not depend on the others.
LEMMA OthersTold ==
  ASSUME NEW log \in Seq(EntrySet), NEW e \in EntrySet, NEW n, NEW c, e.of # n
  PROVE  DoneOnLog(Append(log, e), n, c) <=> DoneOnLog(log, n, c)
<1>1. /\ ToldIn(Append(log, e), n) = ToldIn(log, n)
      /\ RequestsIn(Append(log, e), n) = RequestsIn(log, n)
      /\ OpenIn(Append(log, e), n) = OpenIn(log, n)
  BY EntryTold
<1> QED
  BY <1>1, Zenon DEF DoneOnLog

\* Requests are counted.
LEMMA RequestsCounted ==
  ASSUME NEW log \in Seq(EntrySet), NEW n
  PROVE  /\ IsFiniteSet(RequestsIn(log, n))
         /\ Cardinality(RequestsIn(log, n)) \in Nat
<1>1. Len(log) \in Nat /\ RequestsIn(log, n) \subseteq 1..Len(log)
  BY DEF RequestsIn, ToldIn
<1> QED
  BY <1>1, PlacesCounted

\* A request is told: of a consultation whose requests are all settled, or that
\* has none.
LEMMA RequestTold ==
  ASSUME NEW log \in Seq(EntrySet), NEW n \in Nat, OpenIn(log, n) = {}
  PROVE  LET after == Append(log, [type |-> "requested", of |-> n])
         IN  /\ after \in Seq(EntrySet)
             /\ Cardinality(RequestsIn(after, n)) = Cardinality(RequestsIn(log, n)) + 1
             /\ OpenIn(after, n) = {Len(after)}
<1> DEFINE e == [type |-> "requested", of |-> n]
<1>1. e \in EntrySet /\ e.of = n /\ e.type = "requested"
  BY DEF EntrySet
<1> HIDE DEF e
<1>2. /\ Append(log, e) \in Seq(EntrySet)
      /\ Len(log) + 1 \notin ToldIn(log, n)
      /\ RequestsIn(Append(log, e), n) = RequestsIn(log, n) \cup {Len(log) + 1}
      /\ OpenIn(Append(log, e), n) = OpenIn(log, n) \cup {Len(log) + 1}
  BY <1>1, EntryTold
<1>3. Len(log) + 1 \notin RequestsIn(log, n)
  BY <1>2 DEF RequestsIn
<1>4. Cardinality(RequestsIn(log, n) \cup {Len(log) + 1}) = Cardinality(RequestsIn(log, n)) + 1
  BY <1>3, RequestsCounted, FS_AddElement
<1>5. Len(Append(log, e)) = Len(log) + 1
  OBVIOUS
<1> QED
  BY <1>2, <1>4, <1>5 DEF e

\* The last request is settled.
LEMMA SettlementTold ==
  ASSUME NEW log \in Seq(EntrySet), NEW n \in Nat, OpenIn(log, n) = {Len(log)},
         NEW type \in {"succeeded", "failed"}
  PROVE  LET after == Append(log, [type |-> type, of |-> n])
         IN  /\ after \in Seq(EntrySet)
             /\ RequestsIn(after, n) = RequestsIn(log, n)
             /\ OpenIn(after, n) = {}
<1> DEFINE e == [type |-> type, of |-> n]
<1>1. e \in EntrySet /\ e.of = n /\ e.type # "requested"
  BY DEF EntrySet
<1> HIDE DEF e
<1>2. /\ Append(log, e) \in Seq(EntrySet)
      /\ RequestsIn(Append(log, e), n) = RequestsIn(log, n)
      /\ OpenIn(Append(log, e), n) = OpenIn(log, n) \ {Len(log)}
  BY <1>1, EntryTold
<1> QED
  BY <1>2 DEF e

\* A request is with the model: so far it gave steps that end nothing, if it is
\* asked for a chain, and nothing else.
InProgress(c) ==
  /\ c.by = "deliberation" =>
       /\ Len(c.answers) < c.limit /\ c.result = c.answers
       /\ \A n \in DOMAIN c.answers : c.answers[n] \in NextAction \ TerminalActions
  /\ c.by # "deliberation" => c.answers = <<>> /\ c.result = <<>>

Finished(c) ==
  /\ c.by = "deliberation" => ChainAccounted(c)
  /\ (c.by # "plan_compiler" /\ c.limit > 0 /\ Unreachable(c)) =>
       c.result = <<DeliberateNextAction(c.task, c.reads)>>
  /\ (c.by = "plan_compiler" /\ Unreachable(c)) =>
       c.result = <<EnginePlan(c.task, c.reads, c.after)>>

ModelInv ==
  /\ consulted \in Seq(ConsultationSet) /\ asking \in BOOLEAN
  /\ audit \in Seq(EntrySet)
  /\ \A k \in DOMAIN audit : audit[k].of <= Len(consulted)
  /\ asking =>
       /\ consulted # <<>> /\ InProgress(Consulting)
       /\ AskedOnLog(audit, Len(consulted), Consulting)
  /\ \A n \in Done : Finished(consulted[n]) /\ DoneOnLog(audit, n, consulted[n])

\* What is told, one entry after the other.
LEMMA NothingTold ==
  ASSUME NEW log \in Seq(EntrySet), NEW n, NEW c, NEW types, ~c.audited \/ types = <<>>
  PROVE  log \o Told(n, c, types) = log
<1>1. Told(n, c, types) = <<>>
  BY DEF Told
<1>2. log \o <<>> = log
  OBVIOUS
<1> QED
  BY <1>1, <1>2, Zenon

LEMMA OneTold ==
  ASSUME NEW log \in Seq(EntrySet), NEW n, NEW c, NEW t, c.audited
  PROVE  log \o Told(n, c, <<t>>) = Append(log, [type |-> t, of |-> n])
<1> DEFINE e == [type |-> t, of |-> n]
<1>1. Told(n, c, <<t>>) = <<e>>
  BY DEF Told
<1> HIDE DEF e
<1>2. log \o <<e>> = Append(log, e)
  OBVIOUS
<1> QED
  BY <1>1, <1>2 DEF e

LEMMA TwoTold ==
  ASSUME NEW log \in Seq(EntrySet), NEW n, NEW c, NEW t, NEW u, c.audited
  PROVE  log \o Told(n, c, <<t, u>>)
           = Append(Append(log, [type |-> t, of |-> n]), [type |-> u, of |-> n])
<1> DEFINE a == [type |-> t, of |-> n]
           b == [type |-> u, of |-> n]
<1>1. Told(n, c, <<t, u>>) = <<a, b>>
  BY DEF Told
<1> HIDE DEF a, b
<1>2. log \o <<a, b>> = Append(Append(log, a), b)
  OBVIOUS
<1> QED
  BY <1>1, <1>2 DEF a, b

\* A consultation begins.
LEMMA BeginKeeps ==
  ASSUME ModelInv, NEW given \in ConsultationSet, NEW asks \in BOOLEAN, Begin(given, asks),
         given.answers = <<>>, asks => InProgress(given), ~asks => Finished(given)
  PROVE  ModelInv'
<1> DEFINE new == Len(consulted) + 1
           e == [type |-> "requested", of |-> new]
<1>1. /\ ~asking /\ consulted' = Append(consulted, given) /\ asking' = asks
      /\ audit' = audit \o Told(new, given, IF asks THEN <<"requested">> ELSE <<>>)
  BY DEF Begin
<1>2. /\ consulted \in Seq(ConsultationSet) /\ Len(consulted) \in Nat /\ new \in Nat
      /\ DOMAIN consulted = 1..Len(consulted)
      /\ consulted' \in Seq(ConsultationSet) /\ Len(consulted') = new
      /\ DOMAIN consulted' = 1..new /\ consulted' # <<>>
      /\ consulted'[new] = given /\ \A n \in 1..Len(consulted) : consulted'[n] = consulted[n]
  BY <1>1 DEF ModelInv
<1>3. audit \in Seq(EntrySet) /\ \A k \in DOMAIN audit : audit[k].of \in Nat /\ audit[k].of <= Len(consulted)
  <2>1. \A a \in EntrySet : a.of \in Nat
    BY DEF EntrySet
  <2> QED
    BY <2>1 DEF ModelInv
<1>4. ToldIn(audit, new) = {} /\ RequestsIn(audit, new) = {} /\ OpenIn(audit, new) = {}
  <2>1. \A k \in DOMAIN audit : audit[k].of # new
    BY <1>2, <1>3
  <2> QED
    BY <2>1 DEF ToldIn, RequestsIn, OpenIn
<1>5. e \in EntrySet /\ e.of = new
  BY <1>2 DEF EntrySet
<1>6. Done = 1..Len(consulted) /\ \A n \in 1..Len(consulted) : n # new
  BY <1>1, <1>2 DEF Done
<1>7. \A n \in 1..Len(consulted) : Finished(consulted[n]) /\ DoneOnLog(audit, n, consulted[n])
  BY <1>6 DEF ModelInv
<1>8. IF given.audited /\ asks THEN audit' = Append(audit, e) ELSE audit' = audit
  <2>1. audit \in Seq(EntrySet)
    BY <1>3
  <2>2. CASE given.audited /\ asks
    <3>1. audit' = audit \o Told(new, given, <<"requested">>)
      BY <1>1, <2>2
    <3> HIDE DEF new
    <3>2. audit \o Told(new, given, <<"requested">>) = Append(audit, e)
      BY <2>1, <2>2, OneTold
    <3> QED
      BY <2>2, <3>1, <3>2
  <2>3. CASE ~(given.audited /\ asks)
    <3>1. PICK types : audit' = audit \o Told(new, given, types)
                       /\ (~given.audited \/ types = <<>>)
      BY <1>1, <2>3
    <3> HIDE DEF new
    <3>2. audit \o Told(new, given, types) = audit
      BY <2>1, <3>1, NothingTold
    <3> QED
      BY <2>3, <3>1, <3>2
  <2> QED
    BY <2>2, <2>3
<1> HIDE DEF e, new
<1>9. /\ audit' \in Seq(EntrySet)
      /\ \A k \in DOMAIN audit' : audit'[k].of <= new
  <2>1. \A k \in DOMAIN audit : audit[k].of <= new
    BY <1>2, <1>3 DEF new
  <2>2. CASE audit' = audit
    BY <1>3, <2>1, <2>2
  <2>3. CASE audit' = Append(audit, e)
    <3>1. /\ DOMAIN audit = 1..Len(audit) /\ Len(audit) \in Nat
          /\ DOMAIN audit' = 1..(Len(audit) + 1) /\ audit' \in Seq(EntrySet)
          /\ \A k \in 1..Len(audit) : audit'[k] = audit[k]
          /\ audit'[Len(audit) + 1] = e
      BY <1>3, <1>5, <2>3
    <3> QED
      BY <1>2, <1>5, <2>1, <3>1
  <2> QED
    BY <1>8, <2>2, <2>3
<1>10. \A n \in 1..Len(consulted) : DoneOnLog(audit', n, consulted'[n])
  <2> TAKE n \in 1..Len(consulted)
  <2>1. DoneOnLog(audit, n, consulted'[n]) /\ e.of # n
    BY <1>2, <1>5, <1>6, <1>7
  <2>2. CASE audit' = audit
    BY <2>1, <2>2
  <2>3. CASE audit' = Append(audit, e)
    <3>1. DoneOnLog(Append(audit, e), n, consulted'[n])
      BY <1>3, <1>5, <2>1, OthersTold
    <3> QED
      BY <2>3, <3>1
  <2> QED
    BY <1>8, <2>2, <2>3
<1>11. CASE asks
  <2>1. Done' = 1..Len(consulted)
    BY <1>1, <1>2, <1>11 DEF Done, new
  <2>2. Consulting' = given
    BY <1>2 DEF Consulting
  <2>3. AskedOnLog(audit', new, given)
    <3>1. CASE given.audited
      <4>1. audit' = Append(audit, e)
        BY <1>8, <1>11, <3>1
      <4>2. Cardinality(RequestsIn(audit, new)) = 0
        BY <1>4, FS_EmptySet
      <4>3. /\ Cardinality(RequestsIn(audit', new)) = 0 + 1
            /\ OpenIn(audit', new) = {Len(audit')}
        BY <1>2, <1>3, <1>4, <4>1, <4>2, RequestTold DEF e
      <4>4. Len(given.answers) = 0
        OBVIOUS
      <4> QED
        BY <3>1, <4>3, <4>4 DEF AskedOnLog
    <3>2. CASE ~given.audited
      BY <1>4, <1>8, <3>2 DEF AskedOnLog
    <3> QED
      BY <3>1, <3>2
  <2>4. /\ consulted' # <<>> /\ InProgress(Consulting')
        /\ AskedOnLog(audit', Len(consulted'), Consulting')
    BY <1>2, <1>11, <2>2, <2>3
  <2> QED
    BY <1>1, <1>2, <1>7, <1>9, <1>10, <2>1, <2>4 DEF ModelInv
<1>12. CASE ~asks
  <2>1. audit' = audit /\ ~asking' /\ Done' = 1..new
    BY <1>1, <1>2, <1>8, <1>12 DEF Done
  <2>2. DoneOnLog(audit', new, given)
    <3>1. Cardinality({}) = 0 /\ Len(given.answers) = 0
      BY FS_EmptySet
    <3> QED
      BY <1>4, <2>1, <3>1 DEF DoneOnLog
  <2>3. \A n \in Done' : Finished(consulted'[n]) /\ DoneOnLog(audit', n, consulted'[n])
    <3>1. \A n \in 1..new : n \in 1..Len(consulted) \/ n = new
      BY <1>2 DEF new
    <3> QED
      BY <1>2, <1>7, <1>10, <1>12, <2>1, <2>2, <3>1
  <2> QED
    BY <1>1, <1>2, <1>9, <2>1, <2>3 DEF ModelInv
<1> QED
  BY <1>11, <1>12

\* A consultation with one more answer.
AnsweredWith(c, answer, result) ==
  [c EXCEPT !.answers = Append(c.answers, answer), !.result = result]

LEMMA ConsultationHas ==
  ASSUME NEW c \in ConsultationSet, NEW answer \in Answers, NEW result \in Seq(Results)
  PROVE  LET d == AnsweredWith(c, answer, result)
         IN  /\ d \in ConsultationSet
             /\ d.answers = Append(c.answers, answer) /\ d.result = result
             /\ d.by = c.by /\ d.task = c.task /\ d.reads = c.reads /\ d.limit = c.limit
             /\ d.after = c.after /\ d.fallback = c.fallback /\ d.audited = c.audited
             /\ c.answers \in Seq(Answers) /\ c.result \in Seq(Results)
             /\ c.limit \in Nat /\ c.fallback \in BOOLEAN /\ c.audited \in BOOLEAN
<1>1. Append(c.answers, answer) \in Seq(Answers)
  BY DEF ConsultationSet
<1> QED
  BY <1>1 DEF ConsultationSet, AnsweredWith

\* The ends of a sequence to which something was added.
LEMMA AppendedEnds ==
  ASSUME NEW S, NEW s \in Seq(S), NEW x \in S
  PROVE  /\ Append(s, x) # <<>> /\ Last(Append(s, x)) = x /\ Front(Append(s, x)) = s
         /\ Append(s, x) \in Seq(S) /\ Len(Append(s, x)) = Len(s) + 1 /\ Len(s) \in Nat
BY DEF Last, Front

\* The entries of a log that was told one more.
LEMMA EntriesAre ==
  ASSUME NEW log \in Seq(EntrySet), NEW e \in EntrySet
  PROVE  \A k \in DOMAIN Append(log, e) :
           \/ k \in DOMAIN log /\ Append(log, e)[k] = log[k]
           \/ Append(log, e)[k] = e
OBVIOUS

\* One after the other are two.
LEMMA TwoAreTwo ==
  ASSUME NEW x, NEW y
  PROVE  <<x>> \o <<y>> = <<x, y>>
<1> DEFINE S == {x, y}
<1>1. <<x>> \in Seq(S) /\ <<y>> \in Seq(S) /\ <<x, y>> \in Seq(S)
  OBVIOUS
<1>2. Len(<<x>>) = 1 /\ Len(<<y>>) = 1 /\ Len(<<x, y>>) = 2
  OBVIOUS
<1>3. Len(<<x>> \o <<y>>) = 2 /\ <<x>> \o <<y>> \in Seq(S)
  BY <1>1, <1>2
<1>4. \A i \in 1..2 : (<<x>> \o <<y>>)[i] = <<x, y>>[i]
  BY <1>1
<1> HIDE DEF S
<1> QED
  BY <1>1, <1>2, <1>3, <1>4, SeqEqual

\* An answer is told: a settlement if it is one, and maybe another request.
AnswerTellsIt(log, n, c, answer, result, again, after) ==
  LET d == AnsweredWith(c, answer, result)
  IN  /\ after \in Seq(EntrySet)
      /\ \A k \in DOMAIN after : (k \in DOMAIN log /\ after[k] = log[k]) \/ after[k].of = n
      /\ again => AskedOnLog(after, n, d)
      /\ ~again => DoneOnLog(after, n, d)
      /\ \A m, other : m # n => (DoneOnLog(after, m, other) <=> DoneOnLog(log, m, other))

LEMMA AnswerTold ==
  ASSUME NEW log \in Seq(EntrySet), NEW n \in Nat, NEW c \in ConsultationSet,
         AskedOnLog(log, n, c), NEW answer \in Answers, NEW again \in BOOLEAN,
         again => answer \notin Failures, NEW result \in Seq(Results), NEW after,
         after = log \o Told(n, c, Settled(answer) \o IF again THEN <<"requested">> ELSE <<>>)
  PROVE  AnswerTellsIt(log, n, c, answer, result, again, after)
<1> DEFINE told == Settled(answer) \o IF again THEN <<"requested">> ELSE <<>>
           d == AnsweredWith(c, answer, result)
<1> SUFFICES /\ after \in Seq(EntrySet)
             /\ \A k \in DOMAIN after :
                  (k \in DOMAIN log /\ after[k] = log[k]) \/ after[k].of = n
             /\ again => AskedOnLog(after, n, d)
             /\ ~again => DoneOnLog(after, n, d)
             /\ \A m, other : m # n =>
                  (DoneOnLog(after, m, other) <=> DoneOnLog(log, m, other))
  BY Zenon DEF AnswerTellsIt
<1>1. /\ d.answers = Append(c.answers, answer) /\ d.audited = c.audited
      /\ c.answers \in Seq(Answers) /\ c.audited \in BOOLEAN
  BY ConsultationHas
<1>2. /\ d.answers # <<>> /\ Last(d.answers) = answer
      /\ Len(d.answers) = Len(c.answers) + 1 /\ Len(c.answers) \in Nat
  BY <1>1, AppendedEnds
<1> HIDE DEF d
<1>3. CASE ~c.audited
  <2>1. after = log
    BY <1>3, NothingTold
  <2>2. ToldIn(log, n) = {}
    BY <1>3 DEF AskedOnLog
  <2> QED
    BY <1>1, <1>3, <2>1, <2>2 DEF AskedOnLog, DoneOnLog, d
<1>4. CASE c.audited
  <2>1. /\ Cardinality(RequestsIn(log, n)) = Len(c.answers) + 1
        /\ OpenIn(log, n) = {Len(log)}
    BY <1>4 DEF AskedOnLog
  <2>2. CASE answer = "error"
    <3>1. ~again /\ told = <<>>
      BY <2>2 DEF Settled, Failures
    <3>2. after = log
      BY <3>1, NothingTold
    <3>3. \A other \in ToldIn(log, n) : other <= Len(log)
      BY DEF ToldIn
    <3>4. DoneOnLog(log, n, d)
      BY <1>1, <1>2, <1>4, <2>1, <2>2, <3>3 DEF DoneOnLog
    <3> QED
      BY <3>1, <3>2, <3>4 DEF d
  <2>3. CASE answer # "error"
    <3>1. PICK type \in {"succeeded", "failed"} : Settled(answer) = <<type>>
      BY <2>3 DEF Settled
    <3> DEFINE e == [type |-> type, of |-> n]
               middle == Append(log, e)
               q == [type |-> "requested", of |-> n]
    <3>2. /\ middle \in Seq(EntrySet) /\ RequestsIn(middle, n) = RequestsIn(log, n)
          /\ OpenIn(middle, n) = {}
      BY <2>1, SettlementTold
    <3>3. e \in EntrySet /\ e.of = n /\ q \in EntrySet /\ q.of = n
      BY DEF EntrySet
    <3>4. \A m, other : m # n => (DoneOnLog(middle, m, other) <=> DoneOnLog(log, m, other))
      <4> HIDE DEF e
      <4> QED
        BY <3>3, OthersTold
    <3>5. \A k \in DOMAIN middle : (k \in DOMAIN log /\ middle[k] = log[k]) \/ middle[k].of = n
      <4> HIDE DEF e
      <4>1. /\ DOMAIN log = 1..Len(log) /\ Len(log) \in Nat
            /\ DOMAIN middle = 1..(Len(log) + 1)
            /\ \A k \in 1..Len(log) : middle[k] = log[k]
            /\ middle[Len(log) + 1] = e
        OBVIOUS
      <4> HIDE DEF middle
      <4> QED
        BY <3>3, <4>1
    <3>6. CASE ~again
      <4>1. told = <<type>>
        BY <3>1, <3>6
      <4>2. after = middle
        <5>1. after = log \o Told(n, c, <<type>>)
          BY <4>1
        <5> QED
          BY <1>4, <5>1, OneTold
      <4> HIDE DEF middle
      <4>3. DoneOnLog(middle, n, d)
        BY <1>1, <1>2, <1>4, <2>1, <2>3, <3>2 DEF DoneOnLog
      <4> QED
        BY <3>2, <3>4, <3>5, <3>6, <4>2, <4>3 DEF d
    <3>7. CASE again
      <4>1. told = <<type, "requested">>
        <5>1. told = <<type>> \o <<"requested">>
          BY <3>1, <3>7
        <5>3. <<type>> \o <<"requested">> = <<type, "requested">>
          BY TwoAreTwo
        <5> QED
          BY <5>1, <5>3
      <4>2. after = Append(middle, q)
        <5>1. after = log \o Told(n, c, <<type, "requested">>)
          BY <4>1
        <5> QED
          BY <1>4, <5>1, TwoTold
      <4> HIDE DEF middle, told
      <4>3. /\ after \in Seq(EntrySet)
            /\ Cardinality(RequestsIn(after, n)) = Cardinality(RequestsIn(middle, n)) + 1
            /\ OpenIn(after, n) = {Len(after)}
        BY <3>2, <4>2, RequestTold
      <4>4. AskedOnLog(after, n, d)
        BY <1>1, <1>2, <1>4, <2>1, <3>2, <4>3 DEF AskedOnLog
      <4> HIDE DEF q
      <4>5. \A m, other : m # n => (DoneOnLog(after, m, other) <=> DoneOnLog(middle, m, other))
        <5>1. \A m, other : m # n =>
                (DoneOnLog(Append(middle, q), m, other) <=> DoneOnLog(middle, m, other))
          BY <3>2, <3>3, OthersTold
        <5> QED
          BY <4>2, <5>1
      <4>6. \A k \in DOMAIN after : (k \in DOMAIN log /\ after[k] = log[k]) \/ after[k].of = n
        <5>1. \A k \in DOMAIN Append(middle, q) :
                \/ k \in DOMAIN middle /\ Append(middle, q)[k] = middle[k]
                \/ Append(middle, q)[k] = q
          BY <3>2, <3>3, EntriesAre
        <5> QED
          BY <3>3, <3>5, <4>2, <5>1
      <4> QED
        BY <3>4, <3>7, <4>3, <4>4, <4>5, <4>6 DEF d
    <3> QED
      BY <3>6, <3>7
  <2> QED
    BY <2>2, <2>3
<1> QED
  BY <1>1, <1>3, <1>4

\* The model answers, and the consultation goes on or is finished.
LEMMA AnsweredKeeps ==
  ASSUME ModelInv, asking, NEW answer \in Answers, NEW result \in Seq(Results),
         NEW again \in BOOLEAN, Answered(answer, result, again),
         again => /\ answer \notin Failures
                  /\ InProgress(AnsweredWith(Consulting, answer, result)),
         ~again => Finished(AnsweredWith(Consulting, answer, result))
  PROVE  ModelInv'
<1> DEFINE size == Len(consulted)
           d == AnsweredWith(Consulting, answer, result)
<1>1. /\ consulted \in Seq(ConsultationSet) /\ consulted # <<>>
      /\ size \in Nat \ {0} /\ DOMAIN consulted = 1..size
      /\ Consulting \in ConsultationSet /\ Consulting = consulted[size]
      /\ AskedOnLog(audit, size, Consulting) /\ audit \in Seq(EntrySet)
  BY DEF ModelInv, Consulting
<1>2. d \in ConsultationSet
  BY <1>1, ConsultationHas
<1>3. consulted' = [consulted EXCEPT ![size] = d]
  BY <1>1 DEF Answered, AnsweredWith
<1> HIDE DEF d
<1>4. /\ consulted' \in Seq(ConsultationSet) /\ Len(consulted') = size
      /\ DOMAIN consulted' = 1..size /\ consulted'[size] = d /\ consulted' # <<>>
      /\ \A n \in 1..size : n # size => consulted'[n] = consulted[n]
  BY <1>1, <1>2, <1>3
<1>5. /\ asking' = again
      /\ audit' = audit \o Told(size, Consulting,
                                Settled(answer) \o IF again THEN <<"requested">> ELSE <<>>)
  BY DEF Answered
<1>6. /\ audit' \in Seq(EntrySet)
      /\ \A k \in DOMAIN audit' :
           (k \in DOMAIN audit /\ audit'[k] = audit[k]) \/ audit'[k].of = size
      /\ again => AskedOnLog(audit', size, d)
      /\ ~again => DoneOnLog(audit', size, d)
      /\ \A m, other : m # size => (DoneOnLog(audit', m, other) <=> DoneOnLog(audit, m, other))
  <2>1. PICK n, c, log, after :
          /\ n = size /\ c = Consulting /\ log = audit /\ after = audit'
    OBVIOUS
  <2>2. /\ n \in Nat /\ c \in ConsultationSet /\ log \in Seq(EntrySet)
        /\ AskedOnLog(log, n, c)
    BY <1>1, <2>1
  <2>3. after = log \o Told(n, c, Settled(answer) \o IF again THEN <<"requested">> ELSE <<>>)
    BY <1>5, <2>1
  <2>4. d = AnsweredWith(c, answer, result)
    BY <2>1 DEF d
  <2>5. again => answer \notin Failures
    OBVIOUS
  <2> HIDE DEF size
  <2>6. /\ after \in Seq(EntrySet)
        /\ \A k \in DOMAIN after : (k \in DOMAIN log /\ after[k] = log[k]) \/ after[k].of = n
        /\ again => AskedOnLog(after, n, d)
        /\ ~again => DoneOnLog(after, n, d)
        /\ \A m, other : m # n => (DoneOnLog(after, m, other) <=> DoneOnLog(log, m, other))
    <3>1. AnswerTellsIt(log, n, c, answer, result, again, after)
      BY <2>2, <2>3, <2>5, AnswerTold
    <3> QED
      BY <2>4, <3>1 DEF AnswerTellsIt
  <2> QED
    BY <2>1, <2>6
<1>7. \A k \in DOMAIN audit' : audit'[k].of <= size
  BY <1>1, <1>6 DEF ModelInv
<1>8. \A n \in 1..size : n # size => n \in Done
  <2>1. \A n \in 1..size : n # size => n < size
    <3>1. size \in Nat
      BY <1>1
    <3> HIDE DEF size
    <3> QED
      BY <3>1
  <2> QED
    BY <1>1, <2>1 DEF Done
<1>9. \A n \in 1..size : n # size =>
        Finished(consulted'[n]) /\ DoneOnLog(audit', n, consulted'[n])
  <2> SUFFICES ASSUME NEW n \in 1..size, n # size
               PROVE  Finished(consulted'[n]) /\ DoneOnLog(audit', n, consulted'[n])
    OBVIOUS
  <2>1. Finished(consulted[n]) /\ DoneOnLog(audit, n, consulted[n])
    BY <1>8 DEF ModelInv
  <2>2. consulted'[n] = consulted[n]
    BY <1>4
  <2> QED
    BY <1>6, <2>1, <2>2
<1>10. Consulting' = d
  BY <1>4 DEF Consulting
<1>11. CASE again
  <2>1. \A n \in Done' : n \in 1..size /\ n # size
    <3>1. asking' = TRUE
      BY <1>5, <1>11
    <3>2. Done' = {n \in 1..size : n < size}
      BY <1>4, <3>1 DEF Done
    <3>3. size \in Nat
      BY <1>1
    <3> HIDE DEF size
    <3> QED
      BY <3>2, <3>3
  <2>2. InProgress(Consulting') /\ AskedOnLog(audit', Len(consulted'), Consulting')
    BY <1>4, <1>6, <1>10, <1>11 DEF d
  <2> QED
    BY <1>4, <1>5, <1>6, <1>7, <1>9, <2>1, <2>2 DEF ModelInv
<1>12. CASE ~again
  <2>1. \A n \in Done' : n \in 1..size
    BY <1>4 DEF Done
  <2>2. Finished(consulted'[size]) /\ DoneOnLog(audit', size, consulted'[size])
    BY <1>4, <1>6, <1>12 DEF d
  <2> QED
    BY <1>4, <1>5, <1>6, <1>7, <1>9, <1>12, <2>1, <2>2 DEF ModelInv
<1> QED
  BY <1>11, <1>12

\* What the model is asked about is one of its tasks.
LEMMA CurrentIs ==
  ASSUME ModelInv, asking
  PROVE  Consulting \in ConsultationSet /\ InProgress(Consulting)
BY DEF ModelInv, Consulting

LEMMA ActionsAre ==
  /\ \A action \in NextAction : action \in Answers /\ action \in Results /\ action \notin Failures
  /\ \A failure \in Failures : failure \in Answers /\ failure \notin NextAction
  /\ TerminalActions \subseteq NextAction /\ "propose_plan" \in TerminalActions
  /\ \A task, reads : DeliberateNextAction(task, reads) \in NextAction
BY DEF Answers, Results, NextAction, Failures, TerminalActions, DeliberateNextAction

\* One of the steps of a chain.
LEMMA StepAnswersSafe ==
  ASSUME ModelInv, NEW action \in NextAction, StepAnswers(action)
  PROVE  ModelInv'
<1> DEFINE c == Consulting
           a == c.answers
           steps == Append(a, action)
           full == Len(steps) = c.limit
<1>1. /\ asking /\ c.by = "deliberation" /\ c \in ConsultationSet
      /\ c.result = a /\ Len(a) < c.limit /\ c.limit \in Nat
      /\ a \in Seq(Answers)
      /\ \A n \in DOMAIN a : a[n] \in NextAction \ TerminalActions
  <2>1. asking /\ c.by = "deliberation"
    BY DEF StepAnswers
  <2> QED
    BY <2>1, CurrentIs DEF InProgress, ConsultationSet
<1>2. IF action \in TerminalActions THEN Answered(action, steps, FALSE)
      ELSE Answered(action, IF full THEN Append(steps, "propose_plan") ELSE steps, ~full)
  BY <1>1 DEF StepAnswers
<1> HIDE DEF c
<1>3. action \in Answers /\ action \notin Failures
  BY ActionsAre
<1>4. /\ DOMAIN a = 1..Len(a) /\ Len(a) \in Nat /\ DOMAIN steps = 1..(Len(a) + 1)
      /\ Len(steps) = Len(a) + 1 /\ steps # <<>>
      /\ \A n \in 1..Len(a) : steps[n] = a[n]
      /\ steps[Len(a) + 1] = action /\ Last(steps) = action
      /\ Len(steps) <= c.limit /\ full \in BOOLEAN
  BY <1>1, <1>3 DEF Last
<1>5. \A n \in DOMAIN steps : steps[n] \in NextAction
  BY <1>1, <1>4
<1>6. steps \in Seq(NextAction) /\ NextAction \subseteq Results
  <2>1. steps = [n \in 1..(Len(a) + 1) |-> steps[n]]
    BY <1>1, <1>3, <1>4
  <2>2. steps \in [1..(Len(a) + 1) -> NextAction]
    BY <1>4, <1>5, <2>1
  <2>3. Len(a) + 1 \in Nat
    BY <1>4
  <2> HIDE DEF steps, a
  <2> QED
    BY <2>2, <2>3, ActionsAre
<1>7. steps \in Seq(Results)
  <2> HIDE DEF steps
  <2> QED
    BY <1>6
<1>8. ASSUME NEW result \in Seq(Results), NEW d, d = AnsweredWith(c, action, result)
      PROVE  /\ d.answers = steps /\ d.result = result /\ d.limit = c.limit
             /\ d.by = "deliberation" /\ ~Failed(d) /\ ~Unreachable(d)
  <2>1. /\ d.answers = steps /\ d.result = result /\ d.limit = c.limit /\ d.by = "deliberation"
    BY <1>1, <1>3, <1>8, ConsultationHas
  <2>2. Len(a) + 1 \in DOMAIN d.answers /\ d.answers[Len(a) + 1] \notin Failures
    BY <1>3, <1>4, <2>1
  <2>3. ~Failed(d)
    BY <1>3, <1>4, <2>1 DEF Failed
  <2> QED
    BY <2>1, <2>2, <2>3 DEF Unreachable
<1> HIDE DEF steps, a, full
<1>9. CASE action \in TerminalActions
  <2>1. PICK d : d = AnsweredWith(c, action, steps)
    OBVIOUS
  <2>2. /\ d.answers = steps /\ d.result = steps /\ d.limit = c.limit
        /\ d.by = "deliberation" /\ ~Failed(d) /\ ~Unreachable(d)
    BY <1>7, <1>8, <2>1
  <2>3. ChainAccounted(d)
    <3>1. \A n \in DOMAIN steps : steps[n] \in TerminalActions => n = Len(steps)
      BY <1>1, <1>4
    <3> QED
      BY <1>4, <1>5, <1>9, <2>2, <3>1 DEF ChainAccounted
  <2>4. Finished(d)
    BY <2>2, <2>3 DEF Finished
  <2>5. Answered(action, steps, FALSE)
    BY <1>2, <1>9
  <2> QED
    BY <1>1, <1>3, <1>7, <2>1, <2>4, <2>5, AnsweredKeeps DEF c
<1>10. CASE action \notin TerminalActions /\ full
  <2> DEFINE forced == Append(steps, "propose_plan")
  <2>1. "propose_plan" \in NextAction /\ "propose_plan" \in TerminalActions
        /\ "propose_plan" \in Results
    BY ActionsAre
  <2>2. /\ forced \in Seq(Results) /\ DOMAIN forced = 1..(Len(steps) + 1)
        /\ Len(forced) = Len(steps) + 1 /\ Last(forced) = "propose_plan" /\ forced # <<>>
        /\ DOMAIN steps = 1..Len(steps) /\ Len(steps) \in Nat
        /\ \A n \in 1..Len(steps) : forced[n] = steps[n]
    BY <1>7, <2>1 DEF Last
  <2> HIDE DEF forced
  <2>3. PICK d : d = AnsweredWith(c, action, forced)
    OBVIOUS
  <2>4. /\ d.answers = steps /\ d.result = forced /\ d.limit = c.limit
        /\ d.by = "deliberation" /\ ~Failed(d) /\ ~Unreachable(d)
    BY <1>8, <2>2, <2>3
  <2>5. \A n \in 1..Len(steps) : steps[n] \notin TerminalActions
    BY <1>1, <1>4, <1>10
  <2>6. \A n \in DOMAIN forced : forced[n] \in TerminalActions => n = Len(forced)
    BY <2>2, <2>5
  <2>7. ChainAccounted(d)
    <3>1. Len(steps) = c.limit
      BY <1>10 DEF full
    <3> QED
      BY <1>4, <1>5, <2>1, <2>2, <2>4, <2>6, <3>1 DEF ChainAccounted, forced
  <2>8. Finished(d)
    BY <2>4, <2>7 DEF Finished
  <2>9. Answered(action, forced, FALSE)
    BY <1>2, <1>10 DEF forced
  <2> QED
    BY <1>1, <1>3, <2>2, <2>3, <2>8, <2>9, AnsweredKeeps DEF c
<1>11. CASE action \notin TerminalActions /\ ~full
  <2>1. PICK d : d = AnsweredWith(c, action, steps)
    OBVIOUS
  <2>2. /\ d.answers = steps /\ d.result = steps /\ d.limit = c.limit
        /\ d.by = "deliberation"
    BY <1>7, <1>8, <2>1
  <2>3. Len(steps) < c.limit
    BY <1>1, <1>4, <1>11 DEF full
  <2>4. \A n \in DOMAIN steps : steps[n] \in NextAction \ TerminalActions
    BY <1>1, <1>4, <1>5, <1>11
  <2>5. InProgress(d)
    BY <2>2, <2>3, <2>4 DEF InProgress
  <2>6. Answered(action, steps, TRUE)
    BY <1>2, <1>11
  <2> QED
    BY <1>1, <1>3, <1>7, <2>1, <2>5, <2>6, AnsweredKeeps DEF c
<1> QED
  BY <1>9, <1>10, <1>11

\* No answer to the next request of a chain.
LEMMA StepFailsSafe ==
  ASSUME ModelInv, NEW failure \in Failures, StepFails(failure)
  PROVE  ModelInv'
<1> DEFINE c == Consulting
           a == c.answers
           engine == DeliberateNextAction(c.task, c.reads)
           result == IF c.fallback /\ a = <<>> THEN <<engine>> ELSE a
<1>1. /\ asking /\ c.by = "deliberation" /\ c \in ConsultationSet
      /\ c.result = a /\ Len(a) < c.limit /\ c.limit \in Nat
      /\ a \in Seq(Answers) /\ c.fallback \in BOOLEAN
      /\ \A n \in DOMAIN a : a[n] \in NextAction \ TerminalActions
  <2>1. asking /\ c.by = "deliberation"
    BY DEF StepFails
  <2> QED
    BY <2>1, CurrentIs DEF InProgress, ConsultationSet
<1>2. Answered(failure, result, FALSE)
  BY <1>1 DEF StepFails
<1> HIDE DEF c, engine
<1>3. failure \in Answers /\ failure \notin NextAction /\ engine \in NextAction
      /\ engine \in Results /\ NextAction \subseteq Results
  BY ActionsAre DEF engine
<1>4. /\ DOMAIN a = 1..Len(a) /\ Len(a) \in Nat
      /\ DOMAIN <<engine>> = 1..1 /\ Len(<<engine>>) = 1 /\ <<engine>> \in Seq(Results)
  BY <1>1, <1>3
<1>5. a \in Seq(Results)
  <2>1. a = [n \in 1..Len(a) |-> a[n]]
    BY <1>1, <1>4
  <2>2. a \in [1..Len(a) -> Results]
    BY <1>1, <1>3, <1>4, <2>1
  <2> HIDE DEF a
  <2> QED
    BY <1>4, <2>2
<1>6. PICK d : d = AnsweredWith(c, failure, result)
  OBVIOUS
<1>7. result \in Seq(Results)
  BY <1>4, <1>5
<1> HIDE DEF result
<1>8. /\ d.answers = Append(a, failure) /\ d.result = result /\ d.by = "deliberation"
      /\ d.limit = c.limit /\ d.fallback = c.fallback /\ d.task = c.task /\ d.reads = c.reads
  BY <1>1, <1>3, <1>6, <1>7, ConsultationHas
<1> HIDE DEF a
<1>9. /\ Failed(d) /\ Front(d.answers) = a /\ Len(d.answers) = Len(a) + 1
      /\ d.answers # <<>>
  BY <1>1, <1>3, <1>8, AppendedEnds DEF Failed
<1>10. ChainAccounted(d)
  <2>1. \A n \in DOMAIN result : result[n] \in TerminalActions => n = Len(result)
    BY <1>1, <1>4 DEF result
  <2>2. result = a \/ (a = <<>> /\ c.fallback /\ Len(result) = 1)
    BY <1>4 DEF result
  <2>3. Len(d.answers) <= d.limit
    BY <1>1, <1>4, <1>8, <1>9
  <2> QED
    BY <1>1, <1>8, <1>9, <2>1, <2>2, <2>3 DEF ChainAccounted
<1>11. ASSUME Unreachable(d)
       PROVE  d.result = <<DeliberateNextAction(d.task, d.reads)>>
  <2>1. a = <<>>
    <3> SUFFICES ASSUME a # <<>>
                 PROVE  FALSE
      OBVIOUS
    <3>1. Len(a) > 0
      BY <1>1
    <3>2. 1 \in DOMAIN a /\ 1 \in DOMAIN d.answers /\ d.answers[1] = a[1]
      BY <1>1, <1>3, <1>4, <1>8, <3>1
    <3>3. d.answers[1] \in Failures /\ a[1] \in NextAction
      BY <1>1, <1>11, <3>2 DEF Unreachable
    <3> QED
      BY <3>2, <3>3, ActionsAre
  <2> QED
    BY <1>8, <1>11, <2>1 DEF result, engine, Unreachable
<1>12. Finished(d)
  BY <1>8, <1>10, <1>11 DEF Finished
<1> QED
  BY <1>1, <1>2, <1>3, <1>6, <1>7, <1>12, AnsweredKeeps DEF c

\* What is not a chain ends with its only answer.
LEMMA OnlyAnswer ==
  ASSUME NEW c \in ConsultationSet, InProgress(c), c.by # "deliberation",
         NEW answer \in Answers, NEW result \in Seq(Results),
         answer \in Failures /\ c.fallback =>
           result = IF c.by = "step" THEN <<DeliberateNextAction(c.task, c.reads)>>
                    ELSE <<EnginePlan(c.task, c.reads, c.after)>>
  PROVE  Finished(AnsweredWith(c, answer, result))
<1>1. PICK d : d = AnsweredWith(c, answer, result)
  OBVIOUS
<1>2. /\ d.answers = Append(c.answers, answer) /\ d.result = result /\ d.by = c.by
      /\ d.task = c.task /\ d.reads = c.reads /\ d.after = c.after
      /\ d.fallback = c.fallback
  BY <1>1, ConsultationHas
<1>3. /\ c.answers = <<>> /\ c.by \in {"step", "plan_compiler"}
  BY DEF InProgress, ConsultationSet
<1>4. 1 \in DOMAIN d.answers /\ d.answers[1] = answer
  BY <1>2, <1>3
<1>5. Unreachable(d) => answer \in Failures /\ c.fallback
  BY <1>2, <1>4 DEF Unreachable
<1> QED
  BY <1>1, <1>2, <1>3, <1>5 DEF Finished

LEMMA OneAnswerSafe ==
  ASSUME ModelInv, asking, Consulting.by # "deliberation",
         NEW answer \in Answers, NEW result \in Seq(Results),
         Answered(answer, result, FALSE),
         answer \in Failures /\ Consulting.fallback =>
           result = IF Consulting.by = "step"
                    THEN <<DeliberateNextAction(Consulting.task, Consulting.reads)>>
                    ELSE <<EnginePlan(Consulting.task, Consulting.reads, Consulting.after)>>
  PROVE  ModelInv'
<1>1. Consulting \in ConsultationSet /\ InProgress(Consulting)
  BY CurrentIs
<1>2. Finished(AnsweredWith(Consulting, answer, result))
  BY <1>1, OnlyAnswer
<1> QED
  BY <1>2, AnsweredKeeps

LEMMA OneStepAnswersSafe ==
  ASSUME ModelInv, NEW action \in NextAction, OneStepAnswers(action)
  PROVE  ModelInv'
<1>1. /\ asking /\ Consulting.by # "deliberation" /\ Answered(action, <<action>>, FALSE)
  BY DEF OneStepAnswers
<1>2. action \in Answers /\ action \in Results /\ action \notin Failures
  BY ActionsAre
<1>3. <<action>> \in Seq(Results)
  BY <1>2
<1> QED
  BY <1>1, <1>2, <1>3, OneAnswerSafe

LEMMA PlanAnswersSafe ==
  ASSUME ModelInv, NEW p \in ModelPlans, PlanAnswers(p)
  PROVE  ModelInv'
<1>1. /\ asking /\ Consulting.by # "deliberation"
      /\ Answered("plan", <<ParsePlan(p)>>, FALSE)
  BY DEF PlanAnswers
<1>2. "plan" \in Answers /\ "plan" \notin Failures
  BY DEF Answers, Failures
<1>3. ParsePlan(p) \in Results
  BY DEF Results
<1>4. <<ParsePlan(p)>> \in Seq(Results)
  BY <1>3
<1> QED
  BY <1>1, <1>2, <1>4, OneAnswerSafe

LEMMA CallFailsSafe ==
  ASSUME ModelInv, NEW failure \in Failures, CallFails(failure)
  PROVE  ModelInv'
<1> DEFINE c == Consulting
           step == DeliberateNextAction(c.task, c.reads)
           plan == EnginePlan(c.task, c.reads, c.after)
           engine == IF c.by = "step" THEN step ELSE plan
           result == IF c.fallback THEN <<engine>> ELSE <<>>
<1>1. /\ asking /\ c.by # "deliberation" /\ Answered(failure, result, FALSE)
  BY DEF CallFails
<1>2. c \in ConsultationSet
  BY <1>1, CurrentIs
<1>3. engine \in Results
  <2>1. step \in Results
    BY ActionsAre
  <2>2. c.task \in ModelTasks /\ c.reads \in BOOLEAN /\ c.after \in NextAction \cup {"none"}
    BY <1>2 DEF ConsultationSet
  <2>3. plan \in Results
    BY <2>2 DEF Results
  <2> QED
    BY <2>1, <2>3
<1>4. failure \in Answers
  BY ActionsAre
<1>5. result \in Seq(Results)
  <2> HIDE DEF engine
  <2> QED
    BY <1>3
<1>6. c.fallback => result = IF c.by = "step" THEN <<step>> ELSE <<plan>>
  OBVIOUS
<1> HIDE DEF result
<1> QED
  BY <1>1, <1>4, <1>5, <1>6, OneAnswerSafe

\* What a caller asks for is a consultation, with nothing answered yet.
LEMMA GivenIs ==
  ASSUME NEW by \in {"deliberation", "step", "plan_compiler"}, NEW task \in ModelTasks,
         NEW reads \in BOOLEAN, NEW limit \in Nat, NEW after \in NextAction \cup {"none"},
         NEW fallback \in BOOLEAN, NEW audited \in BOOLEAN
  PROVE  [by |-> by, task |-> task, reads |-> reads, limit |-> limit, after |-> after,
          fallback |-> fallback, audited |-> audited, answers |-> <<>>, result |-> <<>>]
           \in ConsultationSet
BY DEF ConsultationSet

\* An empty chain of a caller who allows no step.
LEMMA NoStepsAllowed ==
  ASSUME NEW c, c.answers = <<>>, c.result = <<>>, c.by = "deliberation", c.limit = 0
  PROVE  Finished(c)
<1>1. ~Failed(c)
  BY DEF Failed
<1>2. ChainAccounted(c)
  BY <1>1 DEF ChainAccounted
<1> QED
  BY <1>2 DEF Finished

LEMMA DeliberateChainSafe ==
  ASSUME ModelInv, NEW task \in ModelTasks, NEW reads \in BOOLEAN, NEW limit \in ChainLimits,
         NEW fallback \in BOOLEAN, NEW audited \in BOOLEAN,
         DeliberateChainWithLLM(task, reads, limit, fallback, audited)
  PROVE  ModelInv'
<1> DEFINE given == [by |-> "deliberation", task |-> task, reads |-> reads, limit |-> limit,
                     after |-> "none", fallback |-> fallback, audited |-> audited,
                     answers |-> <<>>, result |-> <<>>]
<1>1. limit \in Nat
  BY ModelPlanningAssumption
<1>2. given \in ConsultationSet
  BY <1>1, GivenIs
<1>3. /\ given.answers = <<>> /\ given.result = <<>> /\ given.by = "deliberation"
      /\ given.limit = limit
  OBVIOUS
<1>4. Begin(given, limit > 0)
  BY DEF DeliberateChainWithLLM
<1> HIDE DEF given
<1>5. CASE limit > 0
  <2>1. InProgress(given)
    BY <1>1, <1>3, <1>5 DEF InProgress
  <2>2. Begin(given, TRUE)
    BY <1>4, <1>5
  <2> QED
    BY <1>2, <1>3, <2>1, <2>2, BeginKeeps
<1>6. CASE ~(limit > 0)
  <2>1. Finished(given)
    BY <1>1, <1>3, <1>6, NoStepsAllowed
  <2>2. Begin(given, FALSE)
    <3>1. (limit > 0) = FALSE
      BY <1>6
    <3> QED
      BY <1>4, <3>1, Zenon
  <2> QED
    BY <1>2, <1>3, <2>1, <2>2, BeginKeeps
<1> QED
  BY <1>5, <1>6

LEMMA DeliberateSafe ==
  ASSUME ModelInv, NEW task \in ModelTasks, NEW reads \in BOOLEAN,
         NEW fallback \in BOOLEAN, NEW audited \in BOOLEAN,
         DeliberateWithLLM(task, reads, fallback, audited)
  PROVE  ModelInv'
<1> DEFINE given == [by |-> "step", task |-> task, reads |-> reads, limit |-> 1,
                     after |-> "none", fallback |-> fallback, audited |-> audited,
                     answers |-> <<>>, result |-> <<>>]
<1>1. given \in ConsultationSet
  BY GivenIs
<1>2. Begin(given, TRUE) /\ given.answers = <<>> /\ given.result = <<>> /\ given.by = "step"
  BY DEF DeliberateWithLLM
<1> HIDE DEF given
<1>3. InProgress(given)
  BY <1>2 DEF InProgress
<1> QED
  BY <1>1, <1>2, <1>3, BeginKeeps

LEMMA PlanWithSafe ==
  ASSUME ModelInv, NEW task \in ModelTasks, NEW reads \in BOOLEAN,
         NEW after \in NextAction \cup {"none"}, NEW fallback \in BOOLEAN,
         NEW audited \in BOOLEAN, PlanWithLLM(task, reads, after, fallback, audited)
  PROVE  ModelInv'
<1> DEFINE given == [by |-> "plan_compiler", task |-> task, reads |-> reads, limit |-> 1,
                     after |-> after, fallback |-> fallback, audited |-> audited,
                     answers |-> <<>>, result |-> <<>>]
<1>1. given \in ConsultationSet
  BY GivenIs
<1>2. /\ Begin(given, TRUE) /\ given.answers = <<>> /\ given.result = <<>>
      /\ given.by = "plan_compiler"
  BY DEF PlanWithLLM
<1> HIDE DEF given
<1>3. InProgress(given)
  BY <1>2 DEF InProgress
<1> QED
  BY <1>1, <1>2, <1>3, BeginKeeps

LEMMA ModelNextSafe ==
  ASSUME ModelInv, ModelNext
  PROVE  ModelInv'
<1>1. ASSUME NEW task \in ModelTasks, NEW reads \in BOOLEAN, NEW fallback \in BOOLEAN,
             NEW audited \in BOOLEAN,
             \/ \E limit \in ChainLimits :
                  DeliberateChainWithLLM(task, reads, limit, fallback, audited)
             \/ DeliberateWithLLM(task, reads, fallback, audited)
             \/ \E after \in NextAction \cup {"none"} :
                  PlanWithLLM(task, reads, after, fallback, audited)
      PROVE  ModelInv'
  BY <1>1, DeliberateChainSafe, DeliberateSafe, PlanWithSafe
<1>2. ASSUME NEW action \in NextAction, StepAnswers(action) \/ OneStepAnswers(action)
      PROVE  ModelInv'
  BY <1>2, StepAnswersSafe, OneStepAnswersSafe
<1>3. ASSUME NEW p \in ModelPlans, PlanAnswers(p)
      PROVE  ModelInv'
  BY <1>3, PlanAnswersSafe
<1>4. ASSUME NEW failure \in Failures, StepFails(failure) \/ CallFails(failure)
      PROVE  ModelInv'
  BY <1>4, StepFailsSafe, CallFailsSafe
<1> QED
  BY <1>1, <1>2, <1>3, <1>4, Zenon DEF ModelNext

LEMMA ModelStays ==
  ASSUME ModelInv, UNCHANGED modelVars
  PROVE  ModelInv'
<1>1. /\ consulted' = consulted /\ asking' = asking /\ audit' = audit
  BY DEF modelVars
<1>2. Consulting' = Consulting /\ Done' = Done
  BY <1>1 DEF Consulting, Done
<1> QED
  BY <1>1, <1>2 DEF ModelInv

LEMMA ModelAlways == ReasoningSpec => []ModelInv
<1>1. ReasoningInit => ModelInv
  <2> SUFFICES ASSUME ReasoningInit
               PROVE  ModelInv
    OBVIOUS
  <2>1. consulted = <<>> /\ asking = FALSE /\ audit = <<>>
    BY DEF ReasoningInit, ModelInit
  <2>2. DOMAIN consulted = {} /\ DOMAIN audit = {}
    BY <2>1
  <2>3. consulted \in Seq(ConsultationSet) /\ audit \in Seq(EntrySet)
    BY <2>1
  <2>4. Done = {}
    BY <2>2 DEF Done
  <2> QED
    BY <2>1, <2>2, <2>3, <2>4 DEF ModelInv
<1>2. ModelInv /\ [ReasoningNext]_reasoningVars => ModelInv'
  <2> SUFFICES ASSUME ModelInv, [ReasoningNext]_reasoningVars
               PROVE  ModelInv'
    OBVIOUS
  <2>1. ModelNext \/ UNCHANGED modelVars
    BY Zenon DEF ReasoningNext, reasoningVars
  <2> QED
    BY <2>1, ModelNextSafe, ModelStays
<1> QED
  BY <1>1, <1>2, PTL DEF ReasoningSpec

\* The plan made after a step or chain of the engine is the engine's.
LEMMA FallbackIs ==
  ASSUME ModelInv, NEW n \in Done
  PROVE  FallbackIsEngine(n)
<1> SUFFICES ASSUME NEW m \in 1..(n - 1),
                    consulted[m].by # "plan_compiler", consulted[n].by = "plan_compiler",
                    consulted[m].task = consulted[n].task,
                    consulted[m].reads = consulted[n].reads, consulted[m].limit > 0,
                    Unreachable(consulted[m]), Unreachable(consulted[n]),
                    consulted[n].after = Last(consulted[m].result)
             PROVE  consulted[n].result =
                      <<EnginePlan(consulted[n].task, consulted[n].reads,
                                   DeliberateNextAction(consulted[n].task,
                                                        consulted[n].reads))>>
  <2>1. \A task, reads : DeliberateNextAction(task, reads) # "none"
    BY DEF DeliberateNextAction
  <2> QED
    BY <2>1 DEF FallbackIsEngine, EnginePlan
<1>1. m \in Done
  <2>1. n \in 1..Len(consulted) /\ DOMAIN consulted = 1..Len(consulted)
        /\ Len(consulted) \in Nat
    BY DEF ModelInv, Done
  <2>2. m \in 1..Len(consulted) /\ m < Len(consulted)
    BY <2>1
  <2> QED
    BY <2>1, <2>2 DEF Done
<1>2. Finished(consulted[m]) /\ Finished(consulted[n])
  BY <1>1 DEF ModelInv
<1>3. /\ consulted[m].result
           = <<DeliberateNextAction(consulted[n].task, consulted[n].reads)>>
      /\ consulted[n].result = <<EnginePlan(consulted[n].task, consulted[n].reads,
                                            consulted[n].after)>>
  BY <1>2 DEF Finished
<1>4. \A x : Last(<<x>>) = x
  BY DEF Last
<1> QED
  BY <1>3, <1>4

(***************************************************************************)
(* Every chain that a model was asked for ends as it is said to end, every  *)
(* request is settled on record unless something else than a RuntimeError   *)
(* was raised, and behind a model that is never there is the engine.        *)
(***************************************************************************)
THEOREM ConsultationsAlwaysAccounted == ReasoningSpec => []ConsultationsAccounted
<1>1. ModelInv => ConsultationsAccounted
  <2> SUFFICES ASSUME ModelInv, NEW n \in Done
               PROVE  /\ consulted[n].by = "deliberation" => ChainAccounted(consulted[n])
                      /\ RequestsAccounted(n)
                      /\ FallbackIsEngine(n)
    BY DEF ConsultationsAccounted
  <2>1. Finished(consulted[n]) /\ DoneOnLog(audit, n, consulted[n])
    BY DEF ModelInv
  <2>2. RequestsAccounted(n)
    BY <2>1, AccountedOnLog
  <2>3. consulted[n].by = "deliberation" => ChainAccounted(consulted[n])
    BY <2>1 DEF Finished
  <2> QED
    BY <2>2, <2>3, FallbackIs
<1> QED
  BY <1>1, ModelAlways, PTL
================================================================================
