---------------------------- MODULE MemoryGateway ----------------------------
(***************************************************************************)
(* The HTTP endpoint from which the DSH process fetches retrieved memories *)
(* at the first step of a Turn.  One retrieval per RunAttempt goes through *)
(* the Memory Providers; its result is cached for the further sessions of  *)
(* the same Attempt.                                                       *)
(*                                                                         *)
(* Source: adapters/dsh/context_gateway.py.                                *)
(*                                                                         *)
(* Grain.  A retrieval (for each provider: events, authorization, search,  *)
(* audits; then the rendering) goes through the binding of its request and *)
(* touches nothing else until its result is cached, so its end is one      *)
(* step; a provider that is denied, fails or is out of time contributes    *)
(* nothing.  A context is the Attempt it was retrieved for.  A request     *)
(* that is malformed, unauthorized, of a foreign session or without a      *)
(* binding is refused and changes nothing.                                 *)
(***************************************************************************)
EXTENDS Naturals

CONSTANTS
    Requests,       \* the requests for a context that ever come in
    NoRequest,
    NumAttempts     \* bound: RunAttempts that use this gateway

ASSUME MemoryGatewayAssumption ==
    NoRequest \notin Requests /\ NumAttempts \in Nat \ {0}

VARIABLES
    memoryBinding,  \* _binding: the bound Attempt, or 0
    cached,         \* _cached_response: its Attempt, or 0
    retrievalLock,  \* the request that holds _retrieval_lock
    request         \* the handlers of the requests

memoryVars == <<memoryBinding, cached, retrievalLock, request>>

-----------------------------------------------------------------------------
(* pc of a handler of __call__: new, waiting for the lock, retrieving,     *)
(* served (status 200), or refused (another status).  fetched says that    *)
(* its own retrieval made the context.                                     *)
Request == [pc: {"new", "waiting", "retrieving", "served", "refused"},
            attempt: 0..NumAttempts, fetched: BOOLEAN, context: 0..NumAttempts]

NewRequest == [pc |-> "new", attempt |-> 0, fetched |-> FALSE, context |-> 0]

MemoryInit ==
    /\ memoryBinding = 0
    /\ cached = 0
    /\ retrievalLock = NoRequest
    /\ request = [q \in Requests |-> NewRequest]

-----------------------------------------------------------------------------
(* bind and release, called by the control plane.                          *)

BindMemory(a) == memoryBinding' = a /\ cached' = 0

ReleaseMemory(a) ==
    IF memoryBinding = a
      THEN memoryBinding' = 0 /\ cached' = 0
      ELSE UNCHANGED <<memoryBinding, cached>>

-----------------------------------------------------------------------------
(* The session the request must name is the Conversation's, the same in    *)
(* all its Attempts.                                                       *)
RequestEnters(q) ==
    /\ request[q].pc = "new"
    /\ memoryBinding # 0
    /\ request' = [request EXCEPT ![q].pc = "waiting",
                                  ![q].attempt = memoryBinding]
    /\ UNCHANGED <<memoryBinding, cached, retrievalLock>>

(* Fault: retrievals run side by side.                                     *)
NoLock == TRUE

(* The lock is free, and the binding still the one the request came for.   *)
LockFree == retrievalLock = NoRequest

SameBinding(q) == memoryBinding = request[q].attempt

BindingChanged(q) ==
    /\ request[q].pc = "waiting" /\ LockFree
    /\ ~SameBinding(q)
    /\ request' = [request EXCEPT ![q].pc = "refused"]
    /\ UNCHANGED <<memoryBinding, cached, retrievalLock>>

ServedFromCache(q) ==
    /\ request[q].pc = "waiting" /\ LockFree
    /\ SameBinding(q)
    /\ cached # 0
    /\ request' = [request EXCEPT ![q].pc = "served", ![q].context = cached]
    /\ UNCHANGED <<memoryBinding, cached, retrievalLock>>

RetrievalStarts(q) ==
    /\ request[q].pc = "waiting" /\ LockFree
    /\ SameBinding(q)
    /\ cached = 0
    /\ request' = [request EXCEPT ![q].pc = "retrieving"]
    /\ retrievalLock' = q
    /\ UNCHANGED <<memoryBinding, cached>>

(* _retrieve has returned; nothing looks at the binding again.             *)
RetrievalEnds(q) ==
    /\ request[q].pc = "retrieving"
    /\ cached' = request[q].attempt
    /\ request' = [request EXCEPT ![q].pc = "served", ![q].fetched = TRUE,
                                  ![q].context = request[q].attempt]
    /\ retrievalLock' = NoRequest
    /\ UNCHANGED memoryBinding

(* An event or an audit record cannot be written: status 500.              *)
RetrievalBreaks(q) ==
    /\ request[q].pc = "retrieving"
    /\ request' = [request EXCEPT ![q].pc = "refused"]
    /\ retrievalLock' = NoRequest
    /\ UNCHANGED <<memoryBinding, cached>>

RequestMoves(q) ==
    \/ BindingChanged(q) \/ ServedFromCache(q) \/ RetrievalStarts(q)
    \/ RetrievalEnds(q) \/ RetrievalBreaks(q)

MemoryTypeOK ==
    /\ {memoryBinding, cached} \subseteq 0..NumAttempts
    /\ retrievalLock \in Requests \cup {NoRequest}
    /\ request \in [Requests -> Request]

=============================================================================
