----------------------------- MODULE MCLLMProposal -----------------------------
(***************************************************************************)
(* Proposals that between them reach every target, verdict and way to fail:*)
(* a mixed one, one that describes a hypothesis, one about the engine      *)
(* itself, and one that is malformed in its last patch.                    *)
(***************************************************************************)
EXTENDS LLMProposal

Mixed ==
  [clean |-> TRUE, checked |-> TRUE, calls |-> <<"read", "write">>,
   patches |-> <<Patch("memory", "working", "append", Text("m"), "stated"),
                 Patch("policy", "rule", "set", Text("v"), "stated"),
                 Patch("beliefs", "anchored_facts", "append", Text("f"), "stated"),
                 Patch("goals", "active", "set", List(<<"g">>), "blank")>>]

About(description) ==
  [clean |-> TRUE, checked |-> FALSE, calls |-> <<"unknown">>,
   patches |-> <<Patch("beliefs", "hypotheses", "merge", description, "stated"),
                 Patch("beliefs", "anchored_facts", "set", Text("g"), "stated")>>]

Self ==
  [clean |-> TRUE, checked |-> FALSE, calls |-> <<>>,
   patches |-> <<Patch("self_model", "reliability", "set", Number(9), "stated"),
                 Patch("memory", "working", "set", List(<<Text("l")>>), "stated"),
                 Patch("domain_data", "d", "delete", NoValue, "null"),
                 Patch("goals", "active", "set", List(<<"g">>), "stated")>>]

Malformed ==
  [clean |-> TRUE, checked |-> TRUE, calls |-> <<"unknown">>,
   patches |-> <<Patch("memory", "working", "append", Text("m"), "stated")>>]

MCProposals ==
  {Mixed, Self, Malformed,
   About(Description({"h"}, {"active"}, {8})),
   [Mixed EXCEPT !.patches = <<Patch("beliefs", "", "set", Text("v"), "stated")>>]}

\* One hypothesis, described twice, the second time without a confidence.
MCDescriptions ==
  {About(Description({"h"}, {"active"}, {8})),
   About(Description({"h"}, {"rejected"}, {}))}
================================================================================
