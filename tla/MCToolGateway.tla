----------------------------- MODULE MCToolGateway -----------------------------
(***************************************************************************)
(* The gateway with one call per way through it: a read, a write that is   *)
(* promoted, an external tool registered without a handler, and a tool     *)
(* that is not registered at all.                                          *)
(***************************************************************************)
EXTENDS RealityContact

CONSTANTS c_read, c_write, c_external, c_unknown

MCCallIds == {c_read, c_write, c_external, c_unknown}
MCPromoted == {c_write}
MCHandled == {c_read, c_write}

MCRiskOf ==
  [id \in MCCallIds |-> CASE id = c_read -> "read"
                          [] id = c_write -> "write"
                          [] id = c_external -> "external_side_effect"
                          [] id = c_unknown -> "unknown"]
================================================================================
