------------------------------- MODULE Evidence --------------------------------
(***************************************************************************)
(* Evidence graphs: a builder that turns reasoning steps into nodes and     *)
(* edges (EvidenceGraphBuilder), and the analysis of what it has built so   *)
(* far (EvidenceGraphAnalyzer).  Weights are tenths.  Nodes are numbered *)
(* in the order they are made, where the code draws random ids.             *)
(***************************************************************************)
EXTENDS Integers, Sequences, FiniteSets, SequencesExt

CONSTANTS
  StepIds,      \* the ids that reasoning steps carry; one may be used again
  StepTypes,    \* of "observation", "hypothesis" and "conclusion"
  Weights,      \* the confidences of nodes and relations, in tenths
  MaxNodes,     \* bound on the nodes made
  MaxEdges      \* bound on the edges held

ASSUME EvidenceAssumption ==
  /\ StepTypes \subseteq {"observation", "hypothesis", "conclusion"}
  /\ Weights \subseteq 0..10
  /\ MaxNodes \in Nat /\ MaxEdges \in Nat

VARIABLES
  nodes,             \* EvidenceGraphBuilder.nodes
  edges,             \* EvidenceGraphBuilder.edges
  step_to_node_map,  \* EvidenceGraphBuilder.step_to_node_map
  made               \* the nodes made so far, those cleared included

evidenceVars == <<nodes, edges, step_to_node_map, made>>

EmptyMap == [x \in {} |-> 0]

EvidenceInit ==
  nodes = EmptyMap /\ edges = <<>> /\ step_to_node_map = EmptyMap /\ made = 0

NewNode == made + 1

\* table with key set to value
With(table, key, value) ==
  [k \in DOMAIN table \cup {key} |-> IF k = key THEN value ELSE table[k]]

AddNode(type, confidence) ==
  /\ made < MaxNodes
  /\ made' = NewNode
  /\ nodes' = With(nodes, NewNode, [type |-> type, confidence |-> confidence])

\* An edge; its confidence is in hundredths, the discounted one of a support
\* that a step names included.
Edge(from, to, type, confidence) ==
  [from |-> from, to |-> to, type |-> type, confidence |-> confidence]

AddSourceNode(confidence) ==
  /\ AddNode("source", confidence)
  /\ UNCHANGED <<edges, step_to_node_map>>

\* A step: what it supports and contradicts are steps, what it requires are
\* nodes.  What the builder does not know yet is passed over; the step itself
\* it does know.
AddStep(step) ==
  LET steps == With(step_to_node_map, step.id, NewNode)
      EdgesTo(targets, type, confidence) ==
        LET known == SetToSeq(targets)
        IN  [n \in DOMAIN known |-> Edge(NewNode, known[n], type, confidence)]
      NodesOf(ids) == {steps[id] : id \in ids \cap DOMAIN steps}
  IN  /\ AddNode(step.type, step.confidence)
      /\ step_to_node_map' = steps
      /\ edges' = edges
           \o EdgesTo(NodesOf(step.supports), "supports", 9 * step.confidence)
           \o EdgesTo(NodesOf(step.contradicts), "contradicts", 10 * step.confidence)
           \o EdgesTo(step.requires \cap DOMAIN nodes', "requires_more_evidence",
                      10 * step.confidence)
      /\ Len(edges') <= MaxEdges

\* add_support_relation, add_contradiction_relation
AddRelation(from, to, type, confidence) ==
  /\ Len(edges) < MaxEdges
  /\ {from, to} \subseteq DOMAIN nodes
  /\ edges' = Append(edges, Edge(from, to, type, 10 * confidence))
  /\ UNCHANGED <<nodes, step_to_node_map, made>>

\* Defect: the steps stay known.
ClearBuilderKeepsSteps ==
  /\ nodes # EmptyMap
  /\ nodes' = EmptyMap /\ edges' = <<>>
  /\ UNCHANGED <<step_to_node_map, made>>

ClearBuilder ==
  /\ nodes # EmptyMap
  /\ nodes' = EmptyMap /\ edges' = <<>> /\ step_to_node_map' = EmptyMap
  /\ UNCHANGED made

\* A step requires one node at most here.
ReasoningStep ==
  [id : StepIds, type : StepTypes, confidence : Weights,
   supports : SUBSET StepIds, contradicts : SUBSET StepIds,
   requires : {{}} \cup {{n} : n \in 1..MaxNodes}]

EvidenceNext ==
  \/ \E confidence \in Weights : AddSourceNode(confidence)
  \/ \E step \in ReasoningStep : AddStep(step)
  \/ \E from, to \in DOMAIN nodes, type \in {"supports", "contradicts"},
        confidence \in Weights : AddRelation(from, to, type, confidence)
  \/ ClearBuilder

--------------------------------------------------------------------------------
(***************************************************************************)
(* The analysis of the graph as it would be built now.                     *)
(***************************************************************************)
\* The edges into a node of one type, by their places.
Into(node, type) == {n \in DOMAIN edges : edges[n].to = node /\ edges[n].type = type}

\* In thousandths, over all these edges: what the nodes they come from and the
\* edges themselves are worth.
Strength(given) ==
  LET sum[n \in 0..Len(edges)] ==
        IF n = 0 THEN 0
        ELSE IF n \in given
             THEN sum[n - 1] + nodes[edges[n].from].confidence * edges[n].confidence
             ELSE sum[n - 1]
  IN  sum[Len(edges)]

AtLeast(n, m) == IF n >= m THEN n ELSE m
AtMost(n, m) == IF n <= m THEN n ELSE m

\* calculate_conclusion_confidence, in ten-thousandths and times the number of
\* supports, which it is the average of.
SupportCount(node) == AtLeast(1, Cardinality(Into(node, "supports")))

Combined(node) ==
  300 * nodes[node].confidence * SupportCount(node)
    + 7 * Strength(Into(node, "supports"))

\* Defect: a contradiction counts for the node.
ConclusionConfidenceAdds(node) ==
  IF Into(node, "supports") = {} THEN 1000 * nodes[node].confidence
  ELSE AtMost(10000 * SupportCount(node),
         Combined(node) + 5 * SupportCount(node) * Strength(Into(node, "contradicts")))

\* A node that nothing supports keeps its own confidence, whatever contradicts it.
ConclusionConfidence(node) ==
  IF Into(node, "supports") = {} THEN 1000 * nodes[node].confidence
  ELSE AtMost(10000 * SupportCount(node),
         AtLeast(0, Combined(node)
           - 5 * SupportCount(node) * Strength(Into(node, "contradicts"))))

\* The nodes that support one, a source being taken as it is.
Supporters(node) ==
  LET from[n \in 0..Len(edges)] ==
        IF n = 0 THEN <<>>
        ELSE IF n \in Into(node, "supports") THEN Append(from[n - 1], edges[n].from)
        ELSE from[n - 1]
  IN  IF nodes[node].type = "source" THEN <<>> ELSE from[Len(edges)]

\* Defect: what two nodes share counts twice.
VisitTwice(walk) ==
  IF walk.todo = <<>> THEN walk
  ELSE [todo |-> Supporters(Head(walk.todo)) \o Tail(walk.todo),
        visited |-> Append(walk.visited, Head(walk.todo))]

\* traverse(node_id) for the node that is next, unless it was visited: then for
\* what supports it, and then for what was to be visited before.
Visit(walk) ==
  IF walk.todo = <<>> THEN walk
  ELSE IF Head(walk.todo) \in Range(walk.visited)
       THEN [walk EXCEPT !.todo = Tail(@)]
       ELSE [todo |-> Supporters(Head(walk.todo)) \o Tail(walk.todo),
             visited |-> Append(walk.visited, Head(walk.todo))]

\* get_evidence_coverage calls traverse for the conclusion and then once for a
\* support at most.
Traverse(conclusion) ==
  LET walk[n \in 0..(Len(edges) + 1)] ==
        IF n = 0 THEN [todo |-> <<conclusion>>, visited |-> <<>>]
        ELSE Visit(walk[n - 1])
  IN  walk[Len(edges) + 1].visited

FindContradictions == {n \in DOMAIN edges : edges[n].type = "contradicts"}

--------------------------------------------------------------------------------
(***************************************************************************)
(* Properties.                                                             *)
(***************************************************************************)
\* The analysis looks every edge up without a default (_build_adjacency): an edge
\* of a graph that was built must lead from a node to a node of the same graph,
\* also when the builder was cleared and used again and steps repeat their ids.
EdgesResolve ==
  /\ \A n \in DOMAIN edges : {edges[n].from, edges[n].to} \subseteq DOMAIN nodes
  /\ \A id \in DOMAIN step_to_node_map : step_to_node_map[id] \in DOMAIN nodes

Closed(set) == \A node \in set : Range(Supporters(node)) \subseteq set

\* The traversal behind get_evidence_coverage visits what a conclusion rests on,
\* each once, whatever circles the supports run in: the least set that holds the
\* conclusion and the supporters of its members.
CoverageCountsOnce ==
  \A node \in DOMAIN nodes :
    LET visited == Traverse(node)
        holding == {set \in SUBSET DOMAIN nodes : node \in set /\ Closed(set)}
    IN  /\ Range(visited) \in holding
        /\ \A set \in holding : Range(visited) \subseteq set
        /\ Len(visited) = Cardinality(Range(visited))

\* calculate_conclusion_confidence: "contradictions that reduce confidence".  One
\* more contradiction never makes a conclusion more credible, and the confidence
\* stays a confidence.
ContradictionNeverHelps ==
  [][/\ \A node \in DOMAIN nodes' :
          ConclusionConfidence(node)' \in 0..(10000 * SupportCount(node)')
     /\ (/\ nodes' = nodes
         /\ Cardinality(FindContradictions') > Cardinality(FindContradictions)) =>
          \A node \in DOMAIN nodes :
            ConclusionConfidence(node)' <= ConclusionConfidence(node)]_evidenceVars
================================================================================
