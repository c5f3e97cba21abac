------------------------------- MODULE Retrieval -------------------------------
(***************************************************************************)
(* The retriever: long-term memory and documents behind one interface, in  *)
(* one process.  A restart finds the memories in their files again; the    *)
(* documents are gone until they are indexed anew.                         *)
(***************************************************************************)
EXTENDS Memory, Documents

retrievalVars == <<memoryVars, documentVars>>

RetrievalInit == MemoryInit /\ DocumentsInit

RestartRetriever == Restart /\ DocumentsLost

RetrievalNext ==
  \/ MemoryNext /\ UNCHANGED documentVars
  \/ Idle /\ DocumentsNext /\ UNCHANGED memoryVars
  \/ RestartRetriever

RetrievalSpec == RetrievalInit /\ [][RetrievalNext]_retrievalVars
================================================================================
