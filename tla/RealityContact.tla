----------------------------- MODULE RealityContact -----------------------------
(***************************************************************************)
(* The reality interface over the tool gateway: a tool_contact commitment  *)
(* is executed by the gateway as a call of its own, and what came of it is *)
(* put on record and returned as the completed commitment.  Contacts that  *)
(* do not go through the gateway (DefaultRealityInterface) call a function *)
(* and return, and leave nothing on record.                                *)
(*                                                                         *)
(* The gateway serves one caller at a time: it runs a batch or a contact.  *)
(***************************************************************************)
EXTENDS ToolGateway

VARIABLES
  contact,      \* the contact the gateway is executing (at most one)
  contacts      \* the contacts that returned, in order

contactVars == <<gatewayVars, contact, contacts>>

NoContact == <<>>

ContactKind == {"observe", "act", "tool_contact"}

\* reality.gateway_contact.completed
ContactEntry(id, succeeded, policy) ==
  [type |-> "contact", call |-> id, succeeded |-> succeeded, verdict |-> policy]

\* The commitment as it is returned: completed, by which way, by what call.
Completed(way, by, success) == [way |-> way, by |-> by, success |-> success]
NoCall == <<>>

ContactInit ==
  /\ GatewayInit
  /\ contact = NoContact
  /\ contacts = <<>>

\* execute_commitment_via_gateway: the tool it names goes through the gateway.
ContactViaGateway(id) ==
  /\ contact = NoContact
  /\ ExecuteBatch(<<id>>)
  /\ contact' = <<[call |-> id, at |-> Len(log)]>>
  /\ UNCHANGED contacts

\* The commitment names no tool: it fails before the gateway, off the record.
ContactWithoutTool ==
  /\ gpc = "idle" /\ contact = NoContact
  /\ batches < MaxBatches
  /\ batches' = batches + 1
  /\ contacts' = Append(contacts, Completed("no tool", NoCall, FALSE))
  /\ UNCHANGED <<log, gpc, calls, state_id, effects, contact>>

\* Where the gateway recorded results since the contact began: one, or none if
\* the approval provider raised.
ContactResults ==
  {n \in (Head(contact).at + 1)..Len(log) : log[n].type = "tool_result"}

\* The outcome goes on record and to the caller.
Report(succeeded) ==
  LET id == Head(contact).call
  IN  /\ log' = Append(log, ContactEntry(id, succeeded,
                                         EvaluateToolCallPolicy(RiskOf[id])))
      /\ contacts' = Append(contacts, Completed("gateway", <<id>>, succeeded))

\* Defect: any earlier success of the same call will do.
RecordContactOfAnyRun ==
  /\ gpc = "idle" /\ contact # NoContact
  /\ ContactResults # {}
  /\ Report(\E n \in DOMAIN log :
              log[n] = ToolResult(Head(contact).call, "succeeded"))
  /\ contact' = NoContact
  /\ UNCHANGED <<gpc, calls, state_id, effects, batches>>

\* The gateway is done with the call: the first result is the outcome.
RecordContact ==
  /\ gpc = "idle" /\ contact # NoContact
  /\ \E n \in ContactResults :
       /\ \A m \in ContactResults : n <= m
       /\ Report(log[n].status = "succeeded")
  /\ contact' = NoContact
  /\ UNCHANGED <<gpc, calls, state_id, effects, batches>>

\* The approval provider raised: so does the contact, and nothing is recorded.
ContactRaises ==
  /\ gpc = "idle" /\ contact # NoContact
  /\ ContactResults = {}
  /\ contact' = NoContact
  /\ UNCHANGED <<gatewayVars, contacts>>

(***************************************************************************)
(* observe, act and tool_contact: the function is called unless the tool   *)
(* of a tool_contact is not registered, and the contact succeeds if it     *)
(* returns.  The event log is not handed in.                               *)
(***************************************************************************)
DirectContact(kind, registered, returns) ==
  /\ gpc = "idle" /\ contact = NoContact
  /\ batches < MaxBatches
  /\ batches' = batches + 1
  /\ LET called == kind = "tool_contact" => registered
     IN  contacts' = Append(contacts,
                            Completed(kind, NoCall, called /\ returns))
  /\ UNCHANGED <<log, gpc, calls, state_id, effects, contact>>

ContactNext ==
  \/ /\ \/ contact = NoContact /\ \E batch \in Batch : ExecuteBatch(batch)
        \/ GatewayStep
        \/ ProviderStep
        \/ HandlerStep
     /\ UNCHANGED <<contact, contacts>>
  \/ \E id \in CallIds : ContactViaGateway(id)
  \/ ContactWithoutTool
  \/ RecordContact
  \/ ContactRaises
  \/ \E kind \in ContactKind, registered, returns \in BOOLEAN :
       DirectContact(kind, registered, returns)

ContactSpec == ContactInit /\ [][ContactNext]_contactVars

--------------------------------------------------------------------------------
\* The contacts on record, and those that returned by way of the gateway.
Recorded == {n \in 1..Len(log) : log[n].type = "contact"}
Returned == {n \in 1..Len(contacts) : contacts[n].way = "gateway"}

Before(positions, n) == Cardinality({m \in positions : m < n})

(***************************************************************************)
(* What a contact tells its caller is what the gateway recorded of that    *)
(* very execution: the contacts on record are those that returned, in their*)
(* order and with their outcome, and each agrees with the tool result      *)
(* recorded last before it, however often the same call was executed before*)
(* with another outcome (execute_commitment_via_gateway).                  *)
(***************************************************************************)
ContactsHonest ==
  /\ Cardinality(Recorded) = Cardinality(Returned)
  /\ \A n \in Recorded, k \in Returned :
       Before(Recorded, n) = Before(Returned, k) =>
         contacts[k] = Completed("gateway", <<log[n].call>>, log[n].succeeded)
  /\ \A n \in Recorded :
       \E m \in 1..(n - 1) :
         /\ log[m] = ToolResult(log[n].call,
                       IF log[n].succeeded THEN "succeeded" ELSE "failed")
         /\ \A k \in (m + 1)..(n - 1) :
              log[k].type \notin {"tool_result", "contact"}

================================================================================
