-------------------------------- MODULE MCWebApi --------------------------------
(***************************************************************************)
(* A run that revises the world model once, and one that revises nothing.  *)
(***************************************************************************)
EXTENDS WebApi

MCRuns ==
  <<[events |-> 2, commitments |-> 2, revised |-> <<2>>, world |-> TRUE],
    [events |-> 1, commitments |-> 0, revised |-> <<>>, world |-> FALSE]>>
================================================================================
