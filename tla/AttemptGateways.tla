--------------------------- MODULE AttemptGateways ---------------------------
(***************************************************************************)
(* The two gateways of a live Conversation runtime, and the Turns of the   *)
(* Conversation, which bind both to one RunAttempt after the other while   *)
(* handlers of an earlier Attempt may still be at work.                    *)
(*                                                                         *)
(* Source: control/plane.py, _execute_conversation_run from the binding on *)
(* (1898-2052), and _discard_conversation_runtime (2110).                  *)
(*                                                                         *)
(* The DSH process is external.  It may give up on an answer: on memories  *)
(* after 10 seconds (adapters/dsh/profile.py:116), on the calls of         *)
(* MayOutlive; then a Turn ends before its handlers do.  uvicorn, also     *)
(* external, stops when the handlers it runs have ended.                   *)
(***************************************************************************)
EXTENDS ToolGateway, MemoryGateway

CONSTANT MayOutlive     \* calls that DSH may give up on

ASSUME AttemptGatewaysAssumption ==
    MayOutlive \subseteq Calls /\ NumAttempts = MaxAttempts

VARIABLES
    attempt,        \* number of the last Attempt that was bound
    phase           \* where the Turn of that Attempt is

vars == <<toolVars, memoryVars, attempt, phase>>

(* idle        no Turn; the runtime is kept                                *)
(* running     awaiting runtime.run                                        *)
(* settling    awaiting _settle_success                                    *)
(* discarding  the runtime and then the gateways are being closed          *)
(* closed                                                                  *)
Phase == {"idle", "running", "settling", "discarding", "closed"}

Init ==
    /\ ToolInit /\ MemoryInit
    /\ attempt = 0
    /\ phase = "idle"

-----------------------------------------------------------------------------
(* A Turn.                                                                 *)

(* Fault: the memory gateway is forgotten.                                 *)
ReleaseToolsOnly(a) == ReleaseTools(a) /\ UNCHANGED <<memoryBinding, cached>>

Release(a) == ReleaseTools(a) /\ ReleaseMemory(a)

handlerVars == <<inputLock, call, question, pendingAction, retrievalLock, request>>

TurnBinds ==
    /\ phase = "idle" /\ attempt < MaxAttempts
    /\ attempt' = attempt + 1
    /\ BindTools(attempt + 1)
    /\ BindMemory(attempt + 1)
    /\ phase' = "running"
    /\ UNCHANGED <<handlerVars, settled>>

Unanswered == {c \in Calls : /\ call[c].attempt = attempt
                             /\ call[c].pc \in InFlight}

(* runtime.run returned; the answer to a question begins another Attempt.  *)
TurnEnds ==
    /\ phase = "running"
    /\ Unanswered \subseteq MayOutlive
    /\ IF pendingAction[attempt] # NoCall
         THEN phase' = "idle" /\ Release(attempt)
         ELSE /\ phase' = "settling"
              /\ UNCHANGED <<gatewayVars, memoryBinding, cached>>
    /\ UNCHANGED <<handlerVars, settled, attempt>>

(* _settle_success reads the rows again and looks for CANCELLED only: a    *)
(* question that is stored, but was not noted, does not keep it from       *)
(* settling.                                                               *)
TurnSettles ==
    /\ phase = "settling"
    /\ settled' = settled \cup {attempt}
    /\ phase' = "idle" /\ Release(attempt)
    /\ UNCHANGED <<handlerVars, attempt>>

(* runtime.run raised, whatever the DSH process was waiting for, or the    *)
(* settlement did, for instance because a question was stored between its  *)
(* look and its commit.  Without a question that is noted, _settle_failure *)
(* is followed by the end of the runtime.                                  *)
TurnRaises ==
    /\ phase \in {"running", "settling"}
    /\ IF pendingAction[attempt] # NoCall
         THEN phase' = "idle" /\ Release(attempt) /\ UNCHANGED settled
         ELSE /\ phase' = "discarding"
              /\ settled' = settled \cup {attempt}
              /\ UNCHANGED <<gatewayVars, memoryBinding, cached>>
    /\ UNCHANGED <<handlerVars, attempt>>

(* A cancel, the run timeout or a lost lease: the Turn releases its        *)
(* gateways at once, the caller discards the runtime.                      *)
TurnCancelled ==
    /\ phase \in {"running", "settling"}
    /\ Release(attempt)
    /\ settled' = settled \cup {attempt}
    /\ phase' = "discarding"
    /\ UNCHANGED <<handlerVars, attempt>>

(* The Conversation is idle for too long, or the Worker stops.             *)
HolderDiscarded ==
    /\ phase = "idle"
    /\ phase' = "discarding"
    /\ UNCHANGED <<toolVars, memoryVars, attempt>>

(* runtime.close and both gateways' close have returned.                   *)
Discarded ==
    /\ phase = "discarding"
    /\ \A c \in Calls : call[c].pc \notin InFlight
    /\ \A q \in Requests : request[q].pc \notin {"waiting", "retrieving"}
    /\ phase' = "closed"
    /\ Release(attempt)
    /\ UNCHANGED <<handlerVars, settled, attempt>>

-----------------------------------------------------------------------------
(* What comes in over HTTP, until the servers are closed.                  *)
CallComes(c) ==
    /\ phase # "closed"
    /\ CallEnters(c)
    /\ UNCHANGED <<memoryVars, attempt, phase>>

RequestComes(q) ==
    /\ phase # "closed"
    /\ RequestEnters(q)
    /\ UNCHANGED <<toolVars, attempt, phase>>

CallStep(c) == CallMoves(c) /\ UNCHANGED <<memoryVars, attempt, phase>>

RequestStep(q) == RequestMoves(q) /\ UNCHANGED <<toolVars, attempt, phase>>

Next ==
    \/ TurnBinds \/ TurnEnds \/ TurnSettles \/ TurnRaises \/ TurnCancelled
    \/ HolderDiscarded \/ Discarded
    \/ \E c \in Calls : CallComes(c) \/ CallStep(c)
    \/ \E q \in Requests : RequestComes(q) \/ RequestStep(q)

Spec == Init /\ [][Next]_vars

-----------------------------------------------------------------------------
(* The variables have their types.                                         *)
TypeOK ==
    /\ ToolTypeOK /\ MemoryTypeOK
    /\ attempt \in 0..MaxAttempts
    /\ phase \in Phase

(* A Turn finds both gateways free, which bind insists on, and while it    *)
(* runs both serve its Attempt (release skips a foreign Attempt).          *)
BoundTogether ==
    /\ phase \in {"idle", "closed"} => toolBinding = 0 /\ memoryBinding = 0
    /\ phase \in {"running", "settling"} =>
          toolBinding = attempt /\ memoryBinding = attempt

(* operation_id, which Tools use as idempotency key, is made of an Attempt *)
(* and an index: no two calls share one, however calls of several Attempts *)
(* overlap, and no more calls run in an Attempt than its budget.           *)
OperationsAreUnique ==
    \A c, d \in {e \in Calls : call[e].pc \in Executed} :
        /\ call[c].index \in 1..MaxToolCalls
        /\ call[c].attempt = call[d].attempt /\ call[c].index = call[d].index => c = d

(* Once ask_user_question has told the model that its question is durable, *)
(* no call of any Tool begins in that Attempt: the window in which the Run *)
(* is WAITING and a parallel call still begins ends with that answer.      *)
QuestionIsLast ==
    [][\A c \in Calls, d \in AskCalls :
          /\ call[c].pc = "new" /\ call'[c].pc # "new"
          /\ call[d].pc = "succeeded"
          => call'[c].attempt # call[d].askedFor]_vars

(* However many sessions of an Attempt ask for the context, the Providers  *)
(* are gone through once (memory-retrieval.md:72).                         *)
OneRetrievalPerAttempt ==
    \A q, r \in Requests :
        /\ request[q].fetched /\ request[r].fetched
        /\ request[q].attempt = request[r].attempt
        => q = r

-----------------------------------------------------------------------------
(* What a comment says and the code does not keep.                         *)

(* Children "share the attempt-scoped binding and its single cached        *)
(* retrieval" (memory_context_plugin.mjs:54): a context is served under    *)
(* the Attempt it was retrieved for.  But a retrieval that ends under a    *)
(* later binding writes its context over the cache of that binding.        *)
ContextIsOwn ==
    \A q \in Requests :
        request[q].pc = "served" => request[q].context = request[q].attempt

=============================================================================
