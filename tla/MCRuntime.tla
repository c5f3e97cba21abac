------------------------------- MODULE MCRuntime -------------------------------
(***************************************************************************)
(* Two runs over one log, in environments that take each way through the   *)
(* runtime: without tools, with a runner whose tool may be read or must    *)
(* not be, with runner and gateway, with a chain of one step, of several   *)
(* and of none, and with a router of each verdict.                         *)
(***************************************************************************)
EXTENDS Runtime

Bare == [runner |-> "none", handler |-> FALSE, promote |-> FALSE,
         gateway |-> FALSE, pack |-> NoPack, gate |-> "none",
         router |-> FALSE, config |-> DefaultConfig, steps |-> 5]

Guarded == [denied |-> {"memory"}, gated |-> {"beliefs"}]

MCSetups ==
  {[Bare EXCEPT !.gate = "linked", !.pack = Guarded],
   [Bare EXCEPT !.runner = "read", !.handler = TRUE, !.gate = "unlinked"],
   [Bare EXCEPT !.runner = "read", !.handler = TRUE, !.steps = 1, !.gateway = TRUE],
   [Bare EXCEPT !.runner = "read", !.handler = TRUE, !.steps = 0],
   [Bare EXCEPT !.runner = "read", !.handler = TRUE, !.promote = TRUE],
   [Bare EXCEPT !.runner = "read", !.handler = TRUE, !.promote = TRUE,
                !.pack = Guarded],
   [Bare EXCEPT !.runner = "write", !.promote = TRUE],
   [Bare EXCEPT !.router = TRUE, !.config.combined = 80],
   [Bare EXCEPT !.router = TRUE, !.config.combined = 80, !.gate = "linked"],
   [Bare EXCEPT !.router = TRUE, !.config.evidence_review = 80]}

MCLLMTasks ==
  {[kind |-> "analysis", risk |-> "high", docs |-> FALSE, observe |-> TRUE],
   [kind |-> "analysis", risk |-> "medium", docs |-> TRUE, observe |-> TRUE],
   [kind |-> "analysis", risk |-> "low", docs |-> TRUE, observe |-> FALSE]}

MCPlans == {<<GoalDelta, MemoryDelta>>}
================================================================================
