------------------------------ MODULE Conditions -------------------------------
(***************************************************************************)
(* The conditions of workflow steps: expressions over the variables of the *)
(* workflow, evaluated by an interpreter of its own.                       *)
(*                                                                         *)
(* A value is abstracted to its kind and to its place among the values of  *)
(* that kind: 0 is the one that counts as false.  A chain of comparisons is*)
(* the conjunction of its links, since operands have no effects.  The keys *)
(* of "in", "not in" and ".get" are literals, and what they look into is   *)
(* the variables.                                                          *)
(***************************************************************************)
EXTENDS Naturals, Sequences

CONSTANT Expressions  \* the expressions in use, with all their operands

None      == [kind |-> "none", n |-> 0]
Bool(b)   == [kind |-> "bool", n |-> IF b THEN 1 ELSE 0]
Number(n) == [kind |-> "number", n |-> n]
Text(n)   == [kind |-> "text", n |-> n]

\* An operator applied to operands; name is the variable it is about.
Node(op, name, value, args) ==
  [op |-> op, name |-> name, value |-> value, args |-> args]

NoName == <<>>

Absent == Node("absent", NoName, None, <<>>)  \* a step without a condition

Comparisons == {"eq", "ne", "gt", "lt", "ge", "le"}

ASSUME ExpressionsAssumption ==
  /\ Absent \in Expressions
  /\ \A e \in Expressions :
       /\ e.op \in {"absent", "malformed", "forbidden", "unsupported", "constant",
                    "name", "in", "not in", "get", "not", "and", "or"} \cup Comparisons
       /\ e.op \in Comparisons => Len(e.args) = 2
       /\ e.op = "not" => Len(e.args) = 1
       /\ e.op = "get" => Len(e.args) = 1
       /\ \A n \in DOMAIN e.args : e.args[n] \in Expressions

\* Evaluation returns a value, or raises.
Return(value) == [raised |-> FALSE, value |-> value]
Raised == [raised |-> TRUE, value |-> None]

Truthy(v) == v.n # 0
Numeric(v) == v.kind \in {"number", "bool"}
Comparable(v, w) == (Numeric(v) /\ Numeric(w)) \/ (v.kind = "text" /\ w.kind = "text")
Same(v, w) == v.n = w.n /\ (v.kind = w.kind \/ (Numeric(v) /\ Numeric(w)))

Compare(op, v, w) ==
  CASE op = "eq" -> Return(Bool(Same(v, w)))
    [] op = "ne" -> Return(Bool(~Same(v, w)))
    [] op \notin {"eq", "ne"} ->
         IF ~Comparable(v, w) THEN Raised
         ELSE Return(Bool(\/ op = "gt" /\ v.n > w.n
                          \/ op = "lt" /\ v.n < w.n
                          \/ op = "ge" /\ v.n >= w.n
                          \/ op = "le" /\ v.n <= w.n))

\* "and" ends at the first false operand, "or" at the first true one, both at
\* the first that raises; later operands are not evaluated.
ShortCircuit(results, until) ==
  LET ends == {n \in DOMAIN results :
                 results[n].raised \/ Truthy(results[n].value) = until}
      first == CHOOSE n \in ends : \A m \in ends : n <= m
  IN  IF ends = {} THEN Return(Bool(~until))
      ELSE IF results[first].raised THEN Raised
      ELSE Return(Bool(until))

\* The result of every expression under an assignment of variables.
EvalNode(variables) ==
  LET eval[e \in Expressions] ==
        LET of(n) == eval[e.args[n]]
            all == [n \in DOMAIN e.args |-> of(n)]
        IN  CASE e.op = "constant" -> Return(e.value)
              [] e.op = "name" ->
                   IF e.name \in DOMAIN variables THEN Return(variables[e.name])
                   ELSE Raised
              [] e.op = "in" -> Return(Bool(e.name \in DOMAIN variables))
              [] e.op = "not in" -> Return(Bool(e.name \notin DOMAIN variables))
              [] e.op = "get" ->
                   IF of(1).raised THEN Raised
                   ELSE IF e.name \in DOMAIN variables THEN Return(variables[e.name])
                   ELSE of(1)
              [] e.op = "not" ->
                   IF of(1).raised THEN Raised ELSE Return(Bool(~Truthy(of(1).value)))
              [] e.op = "and" -> ShortCircuit(all, FALSE)
              [] e.op = "or" -> ShortCircuit(all, TRUE)
              [] e.op \in Comparisons ->
                   IF of(1).raised \/ of(2).raised THEN Raised
                   ELSE Compare(e.op, of(1).value, of(2).value)
              [] OTHER -> Raised
  IN  eval

\* A forbidden name anywhere disqualifies the whole expression.
NodeSafe(expression) ==
  LET safe[e \in Expressions] ==
        e.op # "forbidden" /\ \A n \in DOMAIN e.args : safe[e.args[n]]
  IN  safe[expression]

\* Whatever cannot be parsed, trusted or evaluated is a condition not met.
EvaluateCondition(condition, variables) ==
  LET result == EvalNode(variables)[condition]
  IN  /\ condition.op # "malformed"
      /\ NodeSafe(condition)
      /\ ~result.raised
      /\ Truthy(result.value)

================================================================================
