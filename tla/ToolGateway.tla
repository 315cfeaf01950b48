----------------------------- MODULE ToolGateway -----------------------------
(***************************************************************************)
(* The MCP server through which the DSH process calls the Tools of its     *)
(* Agent.  Calls are handled concurrently, each for the RunAttempt whose   *)
(* binding the gateway holds when the call comes in.  ask_user_question is *)
(* one more Tool: it turns the Run WAITING through a writer of the binding *)
(* and forbids the Attempt every further call.                             *)
(*                                                                         *)
(* Source: adapters/mcp/gateway.py; request_user_input and pending_action  *)
(* are the closure the control plane binds (control/plane.py:1899).        *)
(*                                                                         *)
(* Grain.  _call_lock is held without an await inside, so that taking an   *)
(* index is one step with reading the binding.  What a handler awaits      *)
(* before and after (events, authorization, audits, the Tool, the          *)
(* artifact) goes through the binding it has read and touches the state of *)
(* no other handler: all of it is one step, at the end of the call or      *)
(* before the lock of a question.  A refused call (no binding, a pending   *)
(* question, an unknown Tool, invalid arguments) changes nothing.          *)
(***************************************************************************)
EXTENDS Naturals

CONSTANTS
    Calls,          \* the requests tools/call that ever come in
    AskCalls,       \* those among them that call ask_user_question
    NoCall,
    MaxAttempts,    \* bound: RunAttempts that use this gateway
    MaxToolCalls    \* max_tool_calls, 64 by default

ASSUME ToolGatewayAssumption ==
    /\ NoCall \notin Calls /\ AskCalls \subseteq Calls
    /\ {MaxAttempts, MaxToolCalls} \subseteq Nat \ {0}

VARIABLES
    toolBinding,    \* _binding: the bound Attempt, or 0
    callIndex,      \* _call_index
    inputPending,   \* _input_pending: the call whose action_id it holds
    inputLock,      \* the call that holds _input_lock
    call,           \* the handlers of the calls
    question,       \* the RequiredAction in the store, by Attempt: its call
    pendingAction,  \* pending_action of the bound writer, by Attempt
    settled         \* the Attempts that are no longer RUNNING in the store

gatewayVars == <<toolBinding, callIndex, inputPending>>
storeVars == <<question, pendingAction, settled>>
toolVars == <<gatewayVars, inputLock, call, storeVars>>

-----------------------------------------------------------------------------
Attempts == 1..MaxAttempts

(* pc of a handler of call_tool:                                           *)
(*   new        not called yet                                             *)
(*   running    admitted: tool.started, authorize_tool and the Tool, or,   *)
(*              for ask_user_question, what comes before it has the lock   *)
(*   asking     awaiting enter_required_action, holding the lock           *)
(*   asked      the action is stored; awaiting its event and audit         *)
(*   overBudget, succeeded, failed                                         *)
InFlight == {"running", "asking", "asked"}
Executed == InFlight \cup {"succeeded", "failed"}

(* An ask_user_question call puts its question under the binding it finds  *)
(* when it gets the lock: askedFor.                                        *)
Call == [pc: {"new", "overBudget"} \cup Executed, attempt: 0..MaxAttempts,
         index: Nat, askedFor: 0..MaxAttempts]

NewCall == [pc |-> "new", attempt |-> 0, index |-> 0, askedFor |-> 0]

ToolInit ==
    /\ toolBinding = 0 /\ callIndex = 0
    /\ inputPending = NoCall /\ inputLock = NoCall
    /\ call = [c \in Calls |-> NewCall]
    /\ question = [a \in Attempts |-> NoCall]
    /\ pendingAction = [a \in Attempts |-> NoCall]
    /\ settled = {}

Goto(c, pc) == call' = [call EXCEPT ![c].pc = pc]

-----------------------------------------------------------------------------
(* bind and release, called by the control plane.                          *)

BindTools(a) ==
    /\ toolBinding' = a
    /\ callIndex' = 0
    /\ inputPending' = NoCall

ReleaseTools(a) ==
    IF toolBinding = a
      THEN toolBinding' = 0 /\ callIndex' = 0 /\ inputPending' = NoCall
      ELSE UNCHANGED gatewayVars

-----------------------------------------------------------------------------
(* call_tool.                                                              *)

CallAdmitted == toolBinding # 0 /\ inputPending = NoCall

(* Fault: the counter starts below the first index.                        *)
IndexBelow == callIndex - 1

(* The index the call gets, which also counts the calls over the budget.   *)
NextIndex == callIndex + 1

WithinBudget(index) == index <= MaxToolCalls

CallEnters(c) ==
    /\ call[c].pc = "new"
    /\ CallAdmitted
    /\ callIndex' = NextIndex
    /\ call' = [call EXCEPT ![c] =
                  [pc |-> IF WithinBudget(NextIndex) THEN "running" ELSE "overBudget",
                   attempt |-> toolBinding, index |-> NextIndex, askedFor |-> 0]]
    /\ UNCHANGED <<toolBinding, inputPending, inputLock, storeVars>>

(* Fault: a failed call gives its index back.                              *)
CallEndsWithRefund(c) ==
    /\ call[c].pc = "running"
    /\ \/ c \notin AskCalls /\ Goto(c, "succeeded") /\ UNCHANGED callIndex
       \/ Goto(c, "failed") /\ callIndex' = IF callIndex > 0 THEN callIndex - 1 ELSE 0
    /\ UNCHANGED <<toolBinding, inputPending, inputLock, storeVars>>

(* The result and tool.completed; or the call is denied, the Tool fails or *)
(* is out of time, the artifact or an event cannot be stored.              *)
CallEnds(c) ==
    /\ call[c].pc = "running"
    /\ \/ c \notin AskCalls /\ Goto(c, "succeeded")
       \/ Goto(c, "failed")
    /\ UNCHANGED <<gatewayVars, inputLock, storeVars>>

-----------------------------------------------------------------------------
(* _request_user_input and the writer request_user_input.                  *)

(* What may be asked now, under the binding of now.                        *)
CanAsk ==
    /\ inputPending = NoCall
    /\ toolBinding # 0
    /\ pendingAction[toolBinding] = NoCall

AskTakesLock(c) ==
    /\ call[c].pc = "running" /\ c \in AskCalls
    /\ inputLock = NoCall
    /\ IF CanAsk
         THEN /\ call' = [call EXCEPT ![c].pc = "asking",
                                      ![c].askedFor = toolBinding]
              /\ inputLock' = c
         ELSE Goto(c, "failed") /\ UNCHANGED inputLock
    /\ UNCHANGED <<gatewayVars, storeVars>>

(* The store takes one action per Attempt, while the Attempt is RUNNING.   *)
StoreTakes(a) == question[a] = NoCall /\ a \notin settled

(* The action is committed and the Run is WAITING.                         *)
AskCommits(c) ==
    /\ call[c].pc = "asking"
    /\ StoreTakes(call[c].askedFor)
    /\ question' = [question EXCEPT ![call[c].askedFor] = c]
    /\ pendingAction' = [pendingAction EXCEPT ![call[c].askedFor] = c]
    /\ Goto(c, "asked")
    /\ UNCHANGED <<gatewayVars, inputLock, settled>>

(* The Attempt may no longer ask, or the store fails, or the 30 seconds    *)
(* are over; then the commit may be done although nobody hears of it.      *)
AskFails(c) ==
    /\ call[c].pc = "asking"
    /\ Goto(c, "failed")
    /\ inputLock' = NoCall
    /\ \/ UNCHANGED question
       \/ /\ StoreTakes(call[c].askedFor)
          /\ question' = [question EXCEPT ![call[c].askedFor] = c]
    /\ UNCHANGED <<gatewayVars, pendingAction, settled>>

(* Fault: nobody notes that the Attempt waits.                             *)
AskReturnsUnnoted(c) ==
    /\ call[c].pc = "asked"
    /\ inputLock' = NoCall
    /\ Goto(c, "succeeded")
    /\ UNCHANGED <<gatewayVars, storeVars>>

AskReturns(c) ==
    /\ call[c].pc = "asked"
    /\ inputPending' = c
    /\ inputLock' = NoCall
    /\ Goto(c, "succeeded")
    /\ UNCHANGED <<toolBinding, callIndex, storeVars>>

(* Out of time, or a write failed, after the commit: the Run waits and     *)
(* _input_pending does not say so.                                         *)
AskBreaks(c) ==
    /\ call[c].pc = "asked"
    /\ inputLock' = NoCall
    /\ Goto(c, "failed")
    /\ UNCHANGED <<gatewayVars, storeVars>>

CallMoves(c) ==
    \/ CallEnds(c) \/ AskTakesLock(c) \/ AskCommits(c) \/ AskFails(c)
    \/ AskReturns(c) \/ AskBreaks(c)

ToolTypeOK ==
    /\ toolBinding \in 0..MaxAttempts /\ callIndex \in Nat
    /\ {inputPending, inputLock} \subseteq Calls \cup {NoCall}
    /\ call \in [Calls -> Call]
    /\ question \in [Attempts -> Calls \cup {NoCall}]
    /\ pendingAction \in [Attempts -> Calls \cup {NoCall}]
    /\ settled \subseteq Attempts

=============================================================================
