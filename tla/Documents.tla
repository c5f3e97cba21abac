------------------------------- MODULE Documents -------------------------------
(***************************************************************************)
(* Documents for retrieval: how a text is cut into overlapping chunks, each *)
(* with some context (contextualizer), and the index of the chunks, which  *)
(* a process holds in two tables (retriever).  A text is a sequence of     *)
(* sentences, a sentence the sequence of the lengths of its words, each    *)
(* with the separator after it.                                            *)
(***************************************************************************)
EXTENDS Naturals, Sequences, FiniteSets, SequencesExt

CONSTANTS
  DocumentIds,
  Texts,          \* the texts that documents have here
  ChunkSize,      \* the length a chunk is meant to have
  ContextWindow,  \* the length of the sentences given as context
  MaxIndexings,   \* bound on the calls of index_document
  NotIndexed

ASSUME DocumentsAssumption ==
  /\ ChunkSize \in Nat \ {0} /\ ContextWindow \in Nat /\ MaxIndexings \in Nat
  /\ \A text \in Texts : text \in Seq(Seq(Nat))

VARIABLES
  chunks,     \* Retriever._document_chunks: what each chunk id stands for
  index,      \* Retriever._document_index: the chunk ids of each document
  texts,      \* the text each document was last indexed with
  indexings   \* the calls of index_document so far

documentVars == <<chunks, index, texts, indexings>>

--------------------------------------------------------------------------------
(***************************************************************************)
(* Sentences and their parts.  A sentence that takes more than eight       *)
(* tenths of a chunk is split after the word that makes a part longer than *)
(* half a chunk; what is left is the last part, so that the cut into equal *)
(* pieces for sentences without separators is never made.                  *)
(***************************************************************************)
Total(lengths) == FoldLeft(LAMBDA sum, n : sum + n, 0, lengths)

SplitLongSentence(sentence) ==
  LET split == FoldLeft(
        LAMBDA s, word :
          IF word.last \/ s.length + word.length <= ChunkSize \div 2
          THEN [s EXCEPT !.length = @ + word.length]
          ELSE [parts |-> Append(s.parts, s.length + word.length), length |-> 0],
        [parts |-> <<>>, length |-> 0],
        [n \in 1..Len(sentence) |->
           [length |-> sentence[n], last |-> n = Len(sentence)]])
  IN  IF split.length > 0 THEN Append(split.parts, split.length) ELSE split.parts

PartLengths(sentence) ==
  IF 10 * Total(sentence) > 8 * ChunkSize
  THEN SplitLongSentence(sentence) ELSE <<Total(sentence)>>

\* All parts of a text: the sentence each is of, and its length.
Parts(text) ==
  FlattenSeq([s \in 1..Len(text) |->
    [n \in 1..Len(PartLengths(text[s])) |->
       [sentence |-> s, length |-> PartLengths(text[s])[n]]]])

(***************************************************************************)
(* Chunks.  A chunk under construction is a sequence of pieces; a piece is *)
(* one part, by its position in the text, or what two pieces of the chunk  *)
(* before were joined to.                                                  *)
(***************************************************************************)
Piece(parts, length) == [parts |-> parts, length |-> length]

\* ' '.join
Joined(pieces) ==
  Piece(FlattenSeq([n \in 1..Len(pieces) |-> pieces[n].parts]),
        Total([n \in 1..Len(pieces) |-> pieces[n].length]) + Len(pieces) - 1)

LastTwo(pieces) == SubSeq(pieces, Len(pieces) - 1, Len(pieces))

\* The context before sentence i: of the ten before it the first ones, as
\* many as the window holds.
Context(text, i) ==
  LET first == IF i > 10 THEN i - 10 ELSE 1
      Until(j) == Total([n \in 1..(j - first + 1) |-> Total(text[first + n - 1])])
  IN  {j \in first..(i - 1) : Until(j) <= ContextWindow}

Chunk(pieces, context) ==
  [parts |-> Joined(pieces).parts, length |-> Joined(pieces).length,
   context |-> context]

Uncut == [chunks |-> <<>>, current |-> <<>>, length |-> 0]

\* Defect: the part that does not fit any more is not carried over.
CutDropsPart(text, cut, part) ==
  IF cut.length + part.length > ChunkSize /\ cut.current # <<>>
  THEN [chunks |-> Append(cut.chunks, Chunk(cut.current, Context(text, part.sentence))),
        current |-> <<>>, length |-> 0]
  ELSE [cut EXCEPT !.current = Append(@, Piece(<<part.n>>, part.length)),
                   !.length = @ + part.length + 1]

\* One more part: into the current chunk, or into the next one, which begins
\* with the last two pieces of this one.
Cut(text, cut, part) ==
  LET piece == Piece(<<part.n>>, part.length)
      carried == IF Len(cut.current) >= 2
                 THEN <<Joined(LastTwo(cut.current)), piece>> ELSE <<piece>>
  IN  IF cut.length + part.length > ChunkSize /\ cut.current # <<>>
      THEN [chunks |-> Append(cut.chunks,
                              Chunk(cut.current, Context(text, part.sentence))),
            current |-> carried, length |-> Joined(carried).length]
      ELSE [cut EXCEPT !.current = Append(@, piece),
                       !.length = @ + part.length + 1]

ProcessDocument(text) ==
  LET parts == Parts(text)
      cut == FoldLeft(LAMBDA c, part : Cut(text, c, part), Uncut,
                      [n \in 1..Len(parts) |->
                         [n |-> n, sentence |-> parts[n].sentence,
                          length |-> parts[n].length]])
  IN  IF cut.current = <<>> THEN cut.chunks
      ELSE Append(cut.chunks, Chunk(cut.current, Context(text, Len(text) + 1)))

--------------------------------------------------------------------------------
(***************************************************************************)
(* The index.  Chunk ids are random in the code; here the call and the     *)
(* place.                                                                  *)
(***************************************************************************)
ChunkIds(count) == [n \in 1..count |-> <<indexings + 1, n>>]

Hold(document, cut, count) ==
  [id \in DOMAIN chunks \cup ToSet(ChunkIds(count)) |->
     IF id \in DOMAIN chunks THEN chunks[id]
     ELSE [document |-> document, chunk |-> cut[id[2]]]]

Indexed == {d \in DocumentIds : index[d] # NotIndexed}

DocumentsInit ==
  /\ chunks = [id \in {} |-> NotIndexed]
  /\ index = [d \in DocumentIds |-> NotIndexed]
  /\ texts = [d \in DocumentIds |-> <<>>]
  /\ indexings = 0

IndexDocument(document, text) ==
  LET cut == ProcessDocument(text)
  IN  /\ indexings < MaxIndexings
      /\ chunks' = Hold(document, cut, Len(cut))
      /\ index' = [index EXCEPT ![document] = ChunkIds(Len(cut))]
      /\ texts' = [texts EXCEPT ![document] = text]
      /\ indexings' = indexings + 1

\* The embedding provider raises: the chunks before that are held already.
IndexDocumentRaises(document, text) ==
  LET cut == ProcessDocument(text)
  IN  /\ indexings < MaxIndexings
      /\ \E count \in 0..(Len(cut) - 1) : chunks' = Hold(document, cut, count)
      /\ indexings' = indexings + 1
      /\ UNCHANGED <<index, texts>>

DeleteDocument(document) ==
  /\ document \in Indexed
  /\ chunks' = [id \in DOMAIN chunks \ ToSet(index[document]) |-> chunks[id]]
  /\ index' = [index EXCEPT ![document] = NotIndexed]
  /\ UNCHANGED <<texts, indexings>>

\* The tables are in the memory of the process only.
DocumentsLost ==
  /\ chunks' = [id \in {} |-> NotIndexed]
  /\ index' = [d \in DocumentIds |-> NotIndexed]
  /\ UNCHANGED <<texts, indexings>>

ClearDocumentIndex == DOMAIN chunks # {} /\ DocumentsLost

DocumentsNext ==
  \/ \E document \in DocumentIds :
       \/ \E text \in Texts :
            IndexDocument(document, text) \/ IndexDocumentRaises(document, text)
       \/ DeleteDocument(document)
  \/ ClearDocumentIndex

\* The chunks a search considers: of the documents it names, or all.
ChunksToSearch(documents) ==
  IF documents = {} THEN DOMAIN chunks
  ELSE UNION {ToSet(index[d]) \cap DOMAIN chunks : d \in documents \cap Indexed}

--------------------------------------------------------------------------------
\* The parts in a chunk follow each other in the text.
Run(parts) == \A n \in 1..(Len(parts) - 1) : parts[n + 1] = parts[n] + 1

(***************************************************************************)
(* A search of a document reaches all of its newest text: its chunks are   *)
(* held, each is a run of the text, and together they leave no gap.        *)
(***************************************************************************)
ChunksCoverText ==
  \A d \in Indexed :
    LET ids == index[d]
        parts == [n \in 1..Len(ids) |-> chunks[ids[n]].chunk.parts]
    IN  /\ ToSet(ids) = ChunksToSearch({d})
        /\ \A n \in 1..Len(ids) : Run(parts[n])
        /\ \A n \in 1..(Len(ids) - 1) :
             /\ Head(parts[n + 1]) <= Last(parts[n]) + 1
             /\ Last(parts[n]) < Last(parts[n + 1])
        /\ Len(ids) > 0 => Head(parts[1]) = 1
        /\ UNION {ToSet(parts[n]) : n \in 1..Len(ids)} = 1..Len(Parts(texts[d]))
================================================================================
