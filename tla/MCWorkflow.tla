------------------------------ MODULE MCWorkflow -------------------------------
(***************************************************************************)
(* Two workflows whose steps branch on what earlier steps yielded, in ways *)
(* that reach every operator of the condition language, with a step id used*)
(* twice and a tool of every verdict.                                      *)
(***************************************************************************)
EXTENDS Workflow

First == <<"s1", "result">>
Chosen == <<"s1", "chosen_action">>
Flag == <<"user", "flag">>

Const(value) == Node("constant", NoName, value, <<>>)
Name(name) == Node("name", name, None, <<>>)
In(name) == Node("in", name, None, <<>>)
Of(op, args) == Node(op, NoName, None, args)
Get(name, default) == Node("get", name, None, <<Const(default)>>)

\* (flag or s1_result) and variables.get("s1_result", 0) >= 1
Positive == Of("and", <<Of("or", <<Name(Flag), Name(First)>>),
                        Of("ge", <<Get(First, Number(0)), Const(Number(1))>>)>>)
\* "s1_result" not in variables or s1_result == None
Unknown == Of("or", <<Node("not in", First, None, <<>>),
                      Of("eq", <<Name(First), Const(None)>>)>>)
\* not s1_chosen_action == "stop", which raises for the tools' variables
Goes == Of("not", <<Of("eq", <<Name(Chosen), Const(Text(5))>>)>>)
\* s1_result < 2 or __class__
Unsafe == Of("or", <<Of("lt", <<Name(First), Const(Number(2))>>),
                     Node("forbidden", NoName, None, <<>>)>>)
Broken == Node("malformed", NoName, None, <<>>)
Odd == Of("unsupported", <<>>)
Reported == Of("or", <<In(First), In(Chosen)>>)
Differs == Of("ne", <<Get(First, None), Const(Bool(FALSE))>>)

Operands(S) == UNION {{e.args[n] : n \in DOMAIN e.args} : e \in S}
Conditions_ == {Absent, Positive, Unknown, Goes, Unsafe, Broken, Odd, Reported, Differs}
MCExpressions ==
  LET one == Operands(Conditions_)
      two == Operands(one)
  IN  Conditions_ \cup one \cup two \cup Operands(two)

Read(id, condition, inputs) == WorkflowStep(id, "read", condition, inputs)

MCWorkflows ==
  {<<Read("s1", Absent, <<Template(Flag, Text(9))>>),
     Read("s1", Positive, <<Template(First, Text(8)), Literal(Number(3))>>),
     WorkflowStep("s2", "lookup", Unknown, <<>>),
     Read("s3", Goes, <<Template(First, Text(8))>>)>>,
   <<Read("s1", Reported, <<>>),
     WorkflowStep("s2", "write", Differs, <<>>),
     WorkflowStep("s3", "other", Broken, <<>>),
     WorkflowStep("s4", "other", Unsafe, <<>>),
     WorkflowStep("s5", "other", Absent, <<Template(First, Text(8))>>),
     Read("s6", Odd, <<>>)>>}

MCInitials ==
  {NoVariables,
   [name \in {First, Flag} |-> IF name = First THEN None ELSE Bool(TRUE)]}

MCRunners ==
  {Runner("tool", stop, FALSE, FALSE) : stop \in BOOLEAN} \cup
  {Runner("llm", TRUE, FALSE, TRUE), Runner("llm", FALSE, TRUE, FALSE)}

MCRisk == [read |-> "read", lookup |-> "read", write |-> "write", other |-> "unknown"]
MCHandlers == {"read", "write"}
MCResults == {Number(1), Text(7)}
MCOversized == {Text(7)}
MCTruncated == Text(6)
================================================================================
