------------------------------ MODULE MCExternal -------------------------------
(***************************************************************************)
(* One host that the configuration allows and one that it does not, two     *)
(* attempts, one call in a window of two ticks; a webhook for every event   *)
(* that is tried twice and one for one type that is tried once.             *)
(***************************************************************************)
EXTENDS ExternalGateway

MCHooks == <<[events |-> {"*"}, retries |-> 1],
             [events |-> {"run.completed"}, retries |-> 0]>>

MCEventTypes == {"run.completed", "run.failed"}
================================================================================
