----------------------------- MODULE MCRetrieval ------------------------------
(***************************************************************************)
(* Two memories, and one document that is indexed with a text of short     *)
(* sentences, whose chunks overlap, and with one that has a sentence too   *)
(* long for a chunk.                                                       *)
(***************************************************************************)
EXTENDS Retrieval

MCTexts ==
  {<<<<2, 2>>, <<3>>, <<3>>, <<4>>, <<4>>, <<3>>>>, <<<<4, 4, 4, 4>>, <<9>>, <<1>>>>}
================================================================================
