------------------------ MODULE AttemptGatewaysProofs ------------------------
(***************************************************************************)
(* The safety properties of AttemptGateways for any number of Attempts,    *)
(* calls and requests and any budget.                                      *)
(*                                                                         *)
(* What carries them is that Attempts are numbered upwards: what an old    *)
(* handler still does concerns an Attempt that is never bound again, and   *)
(* what is bound anew is larger than everything a handler has noted.       *)
(***************************************************************************)
EXTENDS AttemptGateways, TLAPS

(* The gateways serve the last Attempt or none.                            *)
BindInv ==
    /\ BoundTogether
    /\ toolBinding \in {0, attempt}
    /\ memoryBinding \in {0, attempt}
    /\ phase \in {"running", "settling"} => attempt # 0

(* Past are the Attempts that were ever bound; the index of a call lies    *)
(* below the counter as long as its Attempt is bound.                      *)
Past == 1..attempt

IndexInv ==
    /\ \A c \in Calls : call[c].pc # "new" =>
          /\ call[c].attempt \in Past
          /\ call[c].index >= 1
          /\ call[c].attempt = toolBinding => call[c].index <= callIndex
          /\ call[c].pc \in Executed => call[c].index <= MaxToolCalls
    /\ \A c, d \in Calls :
          /\ call[c].pc # "new" /\ call[d].pc # "new"
          /\ call[c].attempt = call[d].attempt /\ call[c].index = call[d].index
          => c = d

(* Under the binding a question was put to, its answer is on record.       *)
QuestionInv ==
    /\ \A c \in Calls : call[c].pc \in {"asking", "asked"} => call[c].askedFor \in Past
    /\ \A c \in AskCalls : call[c].pc = "succeeded" =>
          /\ call[c].askedFor \in Past
          /\ call[c].askedFor = toolBinding => inputPending # NoCall

(* A retrieval holds the lock; once it is done, the cache says so for as   *)
(* long as its Attempt is bound.                                           *)
RetrievalInv ==
    /\ \A q \in Requests :
          /\ request[q].pc # "new" => request[q].attempt \in Past
          /\ request[q].pc = "retrieving" => retrievalLock = q
          /\ request[q].fetched => request[q].pc = "served"
          /\ request[q].fetched /\ request[q].attempt = memoryBinding => cached # 0
    /\ \A q, r \in Requests :
          /\ request[q].fetched
          /\ request[r].fetched \/ request[r].pc = "retrieving"
          /\ request[q].attempt = request[r].attempt
          => q = r

IInv == TypeOK /\ BindInv /\ IndexInv /\ QuestionInv /\ RetrievalInv

USE ToolGatewayAssumption, MemoryGatewayAssumption, AttemptGatewaysAssumption

(* The invariant holds before the first Turn.                              *)
LEMMA InitInv == Init => IInv
<1> SUFFICES ASSUME Init PROVE IInv
  OBVIOUS
<1> USE DEF Init, ToolInit, MemoryInit
<1>1. TypeOK
  BY DEF TypeOK, ToolTypeOK, MemoryTypeOK, Call, NewCall, Executed, InFlight,
         Request, NewRequest, Attempts, Phase
<1>2. BindInv
  BY DEF BindInv, BoundTogether
<1>3. IndexInv
  BY DEF IndexInv, NewCall
<1>4. QuestionInv
  BY DEF QuestionInv, NewCall
<1>5. RetrievalInv
  BY DEF RetrievalInv, NewRequest
<1> QED
  BY <1>1, <1>2, <1>3, <1>4, <1>5 DEF IInv

-----------------------------------------------------------------------------
(* Turns.  They leave the handlers alone, so that all there is to see is   *)
(* what a new binding means for them.                                      *)

(* Handlers belong to Past, which a binding of 0 or of a new Attempt is    *)
(* outside of.                                                             *)
LEMMA HandlersKept ==
  ASSUME IInv, UNCHANGED handlerVars,
         attempt' \in {attempt, attempt + 1},
         \/ UNCHANGED <<gatewayVars, memoryBinding, cached>> /\ attempt' = attempt
         \/ toolBinding' \notin Past /\ memoryBinding' \notin Past
  PROVE  IndexInv' /\ QuestionInv' /\ RetrievalInv'
<1> USE DEF IInv, handlerVars
<1>0. attempt \in Nat /\ Past \subseteq Past'
  BY DEF TypeOK, Past
<1>1. IndexInv'
  BY <1>0 DEF IndexInv, Executed, gatewayVars
<1>2. QuestionInv'
  BY <1>0 DEF QuestionInv, gatewayVars
<1>3. RetrievalInv'
  BY <1>0 DEF RetrievalInv
<1> QED
  BY <1>1, <1>2, <1>3

(* release leaves nothing bound: what was bound is the last Attempt.       *)
LEMMA ReleaseFrees ==
  ASSUME IInv, Release(attempt)
  PROVE  /\ toolBinding' = 0 /\ memoryBinding' = 0
         /\ callIndex' \in Nat /\ cached' \in 0..NumAttempts
         /\ inputPending' \in Calls \cup {NoCall}
  BY DEF IInv, BindInv, TypeOK, ToolTypeOK, MemoryTypeOK, Release, ReleaseTools,
         ReleaseMemory, gatewayVars

TurnStep ==
    \/ TurnBinds \/ TurnEnds \/ TurnSettles \/ TurnRaises \/ TurnCancelled
    \/ HolderDiscarded \/ Discarded

(* Every step of a Turn preserves the invariant.                           *)
LEMMA TurnInv == IInv /\ TurnStep => IInv'
<1> SUFFICES ASSUME IInv, TurnStep PROVE IInv'
  OBVIOUS
<1>0. /\ attempt \in 0..MaxAttempts /\ phase \in Phase
      /\ ToolTypeOK /\ MemoryTypeOK /\ BindInv
  BY DEF IInv, TypeOK
<1>a. 0 \notin Past /\ attempt + 1 \notin Past
  BY <1>0 DEF Past
<1>1. CASE TurnBinds
  <2>1. TypeOK'
    BY <1>0, <1>1 DEF TurnBinds, BindTools, BindMemory, handlerVars, TypeOK, ToolTypeOK,
       MemoryTypeOK, Phase
  <2>2. BindInv'
    BY <1>0, <1>1 DEF TurnBinds, BindTools, BindMemory, BindInv, BoundTogether
  <2>3. IndexInv' /\ QuestionInv' /\ RetrievalInv'
    BY <1>1, <1>a, HandlersKept DEF TurnBinds, BindTools, BindMemory
  <2> QED
    BY <2>1, <2>2, <2>3 DEF IInv
<1>2. CASE TurnStep /\ ~TurnBinds
  <2>1. UNCHANGED handlerVars /\ attempt' = attempt
    BY <1>2 DEF TurnStep, TurnEnds, TurnSettles, TurnRaises, TurnCancelled,
       HolderDiscarded, Discarded, handlerVars, toolVars, memoryVars, storeVars
  <2>2. settled' \subseteq Attempts
    <3>1. phase \in {"running", "settling"} => attempt \in Attempts
      BY <1>0 DEF BindInv, Attempts
    <3>2. \/ settled' = settled
          \/ settled' = settled \cup {attempt} /\ phase \in {"running", "settling"}
      BY <1>2 DEF TurnStep, TurnEnds, TurnSettles, TurnRaises, TurnCancelled,
         HolderDiscarded, Discarded, toolVars, storeVars
    <3> QED
      BY <1>0, <3>1, <3>2 DEF ToolTypeOK
  <2>3. \/ /\ UNCHANGED <<gatewayVars, memoryBinding, cached>>
           /\ \/ phase' = "discarding"
              \/ phase = "running" /\ phase' = "settling"
        \/ Release(attempt) /\ phase' \in {"idle", "closed", "discarding"}
    BY <1>2 DEF TurnStep, TurnEnds, TurnSettles, TurnRaises, TurnCancelled,
       HolderDiscarded, Discarded, toolVars, memoryVars
  <2>4. CASE UNCHANGED <<gatewayVars, memoryBinding, cached>>
    BY <1>0, <2>1, <2>2, <2>3, <2>4, HandlersKept, ReleaseFrees
       DEF IInv, TypeOK, ToolTypeOK, MemoryTypeOK, BindInv, BoundTogether, Phase,
           handlerVars, gatewayVars
  <2>5. CASE Release(attempt) /\ phase' \in {"idle", "closed", "discarding"}
    <3>1. /\ toolBinding' = 0 /\ memoryBinding' = 0
          /\ callIndex' \in Nat /\ cached' \in 0..NumAttempts
          /\ inputPending' \in Calls \cup {NoCall}
      BY <2>5, ReleaseFrees
    <3>2. IndexInv' /\ QuestionInv' /\ RetrievalInv'
      BY <3>1, <2>1, <1>a, HandlersKept
    <3>3. TypeOK'
      BY <1>0, <2>1, <2>2, <2>5, <3>1
         DEF TypeOK, ToolTypeOK, MemoryTypeOK, Phase, handlerVars
    <3>4. BindInv'
      BY <2>5, <3>1 DEF BindInv, BoundTogether
    <3> QED
      BY <3>2, <3>3, <3>4 DEF IInv
  <2> QED
    BY <2>3, <2>4, <2>5
<1> QED
  BY <1>1, <1>2

-----------------------------------------------------------------------------
(* Handlers.  Each kind leaves the other alone, and the Turn.              *)

(* What a call changes of the invariant.                                   *)
CallInv == ToolTypeOK /\ IndexInv /\ QuestionInv

LEMMA CallFrame ==
  ASSUME IInv, UNCHANGED <<memoryVars, attempt, phase, toolBinding>>, CallInv'
  PROVE  IInv'
<1>1. TypeOK'
  BY DEF IInv, CallInv, TypeOK, MemoryTypeOK, memoryVars
<1>2. BindInv'
  BY DEF IInv, BindInv, BoundTogether, memoryVars
<1>3. RetrievalInv'
  BY DEF IInv, RetrievalInv, Past, memoryVars
<1> QED
  BY <1>1, <1>2, <1>3 DEF IInv, CallInv

(* A call that comes in gets an index above all of its Attempt's.          *)
LEMMA CallComesInv == ASSUME IInv, NEW c \in Calls, CallComes(c) PROVE IInv'
<1> DEFINE new == call'[c]
<1>0. ToolTypeOK /\ attempt \in 0..MaxAttempts /\ BindInv /\ IndexInv /\ QuestionInv
  BY DEF IInv, TypeOK
<1>1. /\ call[c].pc = "new" /\ toolBinding # 0 /\ inputPending = NoCall
      /\ callIndex' = callIndex + 1
      /\ UNCHANGED <<toolBinding, inputPending, inputLock, storeVars>>
      /\ UNCHANGED <<memoryVars, attempt, phase>>
      /\ call' = [call EXCEPT ![c] =
                    [pc |-> IF callIndex + 1 <= MaxToolCalls THEN "running" ELSE "overBudget",
                     attempt |-> toolBinding, index |-> callIndex + 1, askedFor |-> 0]]
  BY DEF CallComes, CallEnters, CallAdmitted, NextIndex, WithinBudget
<1>2. /\ new.pc = IF callIndex + 1 <= MaxToolCalls THEN "running" ELSE "overBudget"
      /\ new.attempt = toolBinding /\ new.index = callIndex + 1 /\ new.askedFor = 0
      /\ \A d \in Calls : d # c => call'[d] = call[d]
  BY <1>0, <1>1 DEF ToolTypeOK
<1>3. toolBinding \in Past /\ callIndex \in Nat /\ toolBinding \in 0..MaxAttempts
  BY <1>0, <1>1 DEF BindInv, Past, ToolTypeOK
<1>4. ToolTypeOK'
  <2>1. [pc |-> IF callIndex + 1 <= MaxToolCalls THEN "running" ELSE "overBudget",
         attempt |-> toolBinding, index |-> callIndex + 1, askedFor |-> 0] \in Call
    BY <1>0, <1>3 DEF Call, Executed, InFlight
  <2>2. call' \in [Calls -> Call]
    BY <1>0, <1>1, <2>1 DEF ToolTypeOK
  <2> QED
    BY <1>0, <1>1, <1>3, <2>2 DEF ToolTypeOK, storeVars
<1>5. IndexInv'
  <2>1. ASSUME NEW d \in Calls, call'[d].pc # "new"
        PROVE  /\ call'[d].attempt \in Past
               /\ call'[d].index >= 1
               /\ call'[d].attempt = toolBinding => call'[d].index <= callIndex'
               /\ call'[d].pc \in Executed => call'[d].index <= MaxToolCalls
    <3>1. CASE d = c
      BY <1>1, <1>2, <1>3, <3>1 DEF Executed, InFlight
    <3>2. CASE d # c
      <4>1. call'[d] = call[d] /\ call[d] \in Call
        BY <1>0, <1>2, <3>2 DEF ToolTypeOK
      <4>2. /\ call[d].attempt \in Past
            /\ call[d].index >= 1
            /\ call[d].attempt = toolBinding => call[d].index <= callIndex
            /\ call[d].pc \in Executed => call[d].index <= MaxToolCalls
        BY <1>0, <2>1, <4>1 DEF IndexInv
      <4> QED
        BY <1>1, <1>3, <4>1, <4>2 DEF Call
    <3> QED
      BY <3>1, <3>2
  <2>2. ASSUME NEW d \in Calls, NEW e \in Calls,
               call'[d].pc # "new", call'[e].pc # "new",
               call'[d].attempt = call'[e].attempt, call'[d].index = call'[e].index
        PROVE  d = e
    <3>1. ASSUME NEW g \in Calls, g # c, call'[g].pc # "new",
                 call'[g].attempt = toolBinding
          PROVE  call'[g].index # new.index
      <4>1. call'[g] = call[g] /\ call[g] \in Call
        BY <1>0, <1>2, <3>1 DEF ToolTypeOK
      <4>2. call[g].index <= callIndex
        BY <1>0, <3>1, <4>1 DEF IndexInv
      <4> QED
        BY <1>2, <1>3, <4>1, <4>2 DEF Call
    <3>2. CASE d # c /\ e # c
      BY <1>0, <1>2, <2>2, <3>2 DEF IndexInv
    <3>3. CASE d = c \/ e = c
      BY <1>2, <2>2, <3>1, <3>3
    <3> QED
      BY <3>2, <3>3
  <2> QED
    BY <1>1, <2>1, <2>2 DEF IndexInv, Past
<1>6. QuestionInv'
  BY <1>0, <1>1, <1>2 DEF QuestionInv, Past
<1> QED
  BY <1>1, <1>4, <1>5, <1>6, CallFrame DEF CallInv

(* A call that goes on keeps its Attempt and its index.                    *)
LEMMA CallMovesInv == ASSUME IInv, NEW c \in Calls, CallStep(c) PROVE IInv'
<1>0. ToolTypeOK /\ attempt \in 0..MaxAttempts /\ BindInv /\ IndexInv /\ QuestionInv
  BY DEF IInv, TypeOK
<1>1. /\ UNCHANGED <<memoryVars, attempt, phase, toolBinding, callIndex>>
      /\ call[c].pc \in InFlight
      /\ settled' = settled
      /\ inputPending' \in {inputPending, c}
      /\ inputLock' \in {inputLock, c, NoCall}
  BY DEF CallStep, CallMoves, CallEnds, AskTakesLock, AskCommits, AskFails,
     AskReturns, AskBreaks, gatewayVars, storeVars, InFlight
<1>2. call[c].pc \in {"asking", "asked"} => call[c].askedFor \in Attempts
  BY <1>0 DEF QuestionInv, Past, Attempts
<1>3. /\ question' \in [Attempts -> Calls \cup {NoCall}]
      /\ pendingAction' \in [Attempts -> Calls \cup {NoCall}]
  BY <1>0, <1>2 DEF CallStep, CallMoves, CallEnds, AskTakesLock, AskCommits, AskFails,
     AskReturns, AskBreaks, storeVars, ToolTypeOK
<1>4. \/ \E pc \in {"succeeded", "failed", "asked"} :
            /\ call' = [call EXCEPT ![c].pc = pc]
            /\ pc = "asked" => call[c].pc = "asking"
            /\ pc = "succeeded" /\ c \in AskCalls
               => call[c].pc = "asked" /\ inputPending' = c
      \/ /\ call' = [call EXCEPT ![c].pc = "asking", ![c].askedFor = toolBinding]
         /\ toolBinding # 0
  BY DEF CallStep, CallMoves, CallEnds, AskTakesLock, AskCommits, AskFails,
     AskReturns, AskBreaks, Goto, CanAsk
<1>5. /\ \A d \in Calls : d # c => call'[d] = call[d]
      /\ call'[c].attempt = call[c].attempt /\ call'[c].index = call[c].index
      /\ call'[c].pc \in Executed
      /\ call'[c].pc \in {"asking", "asked"} \/ (call'[c].pc = "succeeded" /\ c \in AskCalls)
         => \/ call'[c].askedFor = toolBinding /\ toolBinding # 0
            \/ call'[c].askedFor = call[c].askedFor /\ call[c].pc \in {"asking", "asked"}
      /\ call'[c].pc = "succeeded" /\ c \in AskCalls => inputPending' = c
      /\ call' \in [Calls -> Call]
  <2>1. call[c] \in Call /\ toolBinding \in 0..MaxAttempts
    BY <1>0 DEF ToolTypeOK
  <2>2. CASE \E pc \in {"succeeded", "failed", "asked"} :
            /\ call' = [call EXCEPT ![c].pc = pc]
            /\ pc = "asked" => call[c].pc = "asking"
            /\ pc = "succeeded" /\ c \in AskCalls
               => call[c].pc = "asked" /\ inputPending' = c
    BY <1>0, <2>1, <2>2 DEF ToolTypeOK, Call, Executed, InFlight
  <2>3. CASE /\ call' = [call EXCEPT ![c].pc = "asking", ![c].askedFor = toolBinding]
             /\ toolBinding # 0
    BY <1>0, <2>1, <2>3 DEF ToolTypeOK, Call, Executed, InFlight
  <2> QED
    BY <1>4, <2>2, <2>3
<1>6. ToolTypeOK'
  BY <1>0, <1>1, <1>3, <1>5 DEF ToolTypeOK
<1>7. IndexInv'
  <2>1. \A d \in Calls : /\ call'[d].attempt = call[d].attempt
                         /\ call'[d].index = call[d].index
                         /\ call'[d].pc # "new" => call[d].pc # "new"
                         /\ call'[d].pc \in Executed => call[d].pc \in Executed
    BY <1>1, <1>5 DEF Executed, InFlight
  <2> QED
    BY <1>0, <1>1, <2>1 DEF IndexInv, Past
<1>8. QuestionInv'
  <2>1. toolBinding # 0 => toolBinding \in Past
    BY <1>0 DEF BindInv, Past
  <2>2. c # NoCall
    BY DEF ToolGatewayAssumption
  <2>3. inputPending # NoCall => inputPending' # NoCall
    BY <1>1, <2>2
  <2>4. ASSUME NEW d \in Calls, call'[d].pc \in {"asking", "asked"}
        PROVE  call'[d].askedFor \in Past
    BY <1>0, <1>5, <2>1, <2>4 DEF QuestionInv
  <2>5. ASSUME NEW d \in AskCalls, call'[d].pc = "succeeded"
        PROVE  /\ call'[d].askedFor \in Past
               /\ call'[d].askedFor = toolBinding => inputPending' # NoCall
    <3>1. CASE d = c
      BY <1>0, <1>5, <2>1, <2>2, <2>5, <3>1 DEF QuestionInv
    <3>2. CASE d # c
      BY <1>0, <1>5, <2>3, <2>5, <3>2 DEF QuestionInv, ToolGatewayAssumption
    <3> QED
      BY <3>1, <3>2
  <2> QED
    BY <1>1, <2>4, <2>5 DEF QuestionInv, Past
<1> QED
  BY <1>1, <1>6, <1>7, <1>8, CallFrame DEF CallInv

(* A request that comes in, or goes on.                                    *)
LEMMA RequestInv ==
  ASSUME IInv, NEW q \in Requests, RequestComes(q) \/ RequestStep(q)
  PROVE  IInv'
<1>0. /\ MemoryTypeOK /\ attempt \in 0..MaxAttempts /\ phase \in Phase
      /\ BindInv /\ RetrievalInv
  BY DEF IInv, TypeOK
<1>1. UNCHANGED <<toolVars, attempt, phase, memoryBinding>>
  BY DEF RequestComes, RequestEnters, RequestStep, RequestMoves, BindingChanged,
     ServedFromCache, RetrievalStarts, RetrievalEnds, RetrievalBreaks
<1>2. request[q] \in Request /\ memoryBinding \in 0..NumAttempts /\ cached \in 0..NumAttempts
  BY <1>0 DEF MemoryTypeOK
<1>3. MemoryTypeOK'
  <2>1. request' \in [Requests -> Request]
    BY <1>0, <1>2 DEF RequestComes, RequestEnters, RequestStep, RequestMoves,
       BindingChanged, ServedFromCache, RetrievalStarts, RetrievalEnds,
       RetrievalBreaks, MemoryTypeOK, Request
  <2>2. cached' \in 0..NumAttempts /\ retrievalLock' \in Requests \cup {NoRequest}
    BY <1>0, <1>2 DEF RequestComes, RequestEnters, RequestStep, RequestMoves,
       BindingChanged, ServedFromCache, RetrievalStarts, RetrievalEnds,
       RetrievalBreaks, MemoryTypeOK, Request
  <2> QED
    BY <1>0, <1>1, <2>1, <2>2 DEF MemoryTypeOK
<1>4. \A r \in Requests : r # q => request'[r] = request[r]
  BY <1>0 DEF RequestComes, RequestEnters, RequestStep, RequestMoves, BindingChanged,
     ServedFromCache, RetrievalStarts, RetrievalEnds, RetrievalBreaks, MemoryTypeOK
<1>5. RetrievalInv'
  <2>1. CASE RequestComes(q)
    <3>1. /\ request[q].pc = "new" /\ request'[q].pc = "waiting"
          /\ request'[q].fetched = request[q].fetched
          /\ request'[q].attempt = memoryBinding /\ memoryBinding # 0
          /\ cached' = cached /\ retrievalLock' = retrievalLock
      BY <1>0, <1>2, <2>1 DEF RequestComes, RequestEnters, MemoryTypeOK, Request
    <3>2. request[q].fetched = FALSE /\ memoryBinding \in Past
      BY <1>0, <1>2, <3>1 DEF RetrievalInv, BindInv, Past, Request
    <3> QED
      BY <1>0, <1>1, <1>4, <3>1, <3>2 DEF RetrievalInv, Past
  <2>2. CASE BindingChanged(q) \/ ServedFromCache(q) \/ RetrievalBreaks(q)
    <3>1. /\ request[q].pc \in {"waiting", "retrieving"}
          /\ request'[q].pc \in {"refused", "served"}
          /\ request'[q].fetched = request[q].fetched
          /\ request'[q].attempt = request[q].attempt
          /\ cached' = cached
          /\ \/ retrievalLock' = retrievalLock
             \/ request[q].pc = "retrieving" /\ retrievalLock' = NoRequest
      <4>1. CASE BindingChanged(q)
        BY <1>0, <1>2, <4>1 DEF BindingChanged, MemoryTypeOK, Request
      <4>2. CASE ServedFromCache(q)
        BY <1>0, <1>2, <4>2 DEF ServedFromCache, MemoryTypeOK, Request
      <4>3. CASE RetrievalBreaks(q)
        BY <1>0, <1>2, <4>3 DEF RetrievalBreaks, MemoryTypeOK, Request
      <4> QED
        BY <2>2, <4>1, <4>2, <4>3
    <3>2. request[q].fetched = FALSE
      BY <1>0, <1>2, <3>1 DEF RetrievalInv, Request
    <3> QED
      BY <1>0, <1>1, <1>4, <3>1, <3>2 DEF RetrievalInv, Past
  <2>3. CASE RetrievalStarts(q)
    <3>1. /\ request[q].pc = "waiting" /\ request'[q].pc = "retrieving"
          /\ request'[q].fetched = request[q].fetched
          /\ request'[q].attempt = request[q].attempt
          /\ request[q].attempt = memoryBinding
          /\ retrievalLock = NoRequest /\ retrievalLock' = q
          /\ cached = 0 /\ cached' = cached
      BY <1>0, <1>2, <2>3 DEF RetrievalStarts, LockFree, SameBinding, MemoryTypeOK, Request
    <3>2. \A r \in Requests : request[r].pc # "retrieving"
      BY <1>0, <3>1 DEF RetrievalInv, MemoryGatewayAssumption
    <3>3. \A r \in Requests : request[r].fetched => request[r].attempt # memoryBinding
      BY <1>0, <3>1 DEF RetrievalInv
    <3> QED
      BY <1>0, <1>1, <1>4, <3>1, <3>2, <3>3 DEF RetrievalInv, Past
  <2>4. CASE RetrievalEnds(q)
    <3>1. /\ request[q].pc = "retrieving" /\ request'[q].pc = "served"
          /\ request'[q].fetched
          /\ request'[q].attempt = request[q].attempt
          /\ cached' = request[q].attempt
          /\ retrievalLock' = NoRequest
      BY <1>0, <1>2, <2>4 DEF RetrievalEnds, MemoryTypeOK, Request
    <3>2. \A r \in Requests : r # q => request[r].pc # "retrieving"
      BY <1>0, <3>1 DEF RetrievalInv
    <3>3. cached' # 0
      BY <1>0, <3>1 DEF RetrievalInv, Past
    <3> QED
      BY <1>0, <1>1, <1>4, <3>1, <3>2, <3>3 DEF RetrievalInv, Past
  <2> QED
    BY <2>1, <2>2, <2>3, <2>4 DEF RequestStep, RequestMoves
<1>6. TypeOK'
  BY <1>1, <1>3 DEF IInv, TypeOK, ToolTypeOK, toolVars, gatewayVars, storeVars
<1>7. BindInv'
  BY <1>0, <1>1 DEF BindInv, BoundTogether, toolVars, gatewayVars
<1>8. IndexInv' /\ QuestionInv'
  BY <1>1 DEF IInv, IndexInv, QuestionInv, Past, toolVars, gatewayVars
<1> QED
  BY <1>5, <1>6, <1>7, <1>8 DEF IInv

-----------------------------------------------------------------------------
(* The specification preserves the invariant.                              *)
LEMMA NextInv == IInv /\ [Next]_vars => IInv'
<1> SUFFICES ASSUME IInv, [Next]_vars PROVE IInv'
  OBVIOUS
<1>1. CASE TurnStep
  BY <1>1, TurnInv
<1>2. CASE \E c \in Calls : CallComes(c) \/ CallStep(c)
  BY <1>2, CallComesInv, CallMovesInv
<1>3. CASE \E q \in Requests : RequestComes(q) \/ RequestStep(q)
  BY <1>3, RequestInv
<1>4. CASE UNCHANGED vars
  BY <1>4 DEF IInv, TypeOK, ToolTypeOK, MemoryTypeOK, BindInv, BoundTogether, IndexInv,
     QuestionInv, RetrievalInv, Past, vars, toolVars, memoryVars, gatewayVars, storeVars
<1> QED
  BY <1>1, <1>2, <1>3, <1>4 DEF Next, TurnStep

LEMMA Invariance == Spec => []IInv
  BY InitInv, NextInv, PTL DEF Spec

(* Bindings, locks, handlers and the rows of the store are well formed,    *)
(* whoever binds and releases them (bind, release, call_tool, __call__).   *)
THEOREM TypeCorrect == Spec => []TypeOK
<1>1. IInv => TypeOK
  BY DEF IInv
<1> QED
  BY <1>1, Invariance, PTL

(* A Turn finds both gateways free, and both serve its Attempt while it    *)
(* runs, whatever old handlers still do (_execute_conversation_run).       *)
THEOREM GatewaysBoundTogether == Spec => []BoundTogether
<1>1. IInv => BoundTogether
  BY DEF IInv, BindInv
<1> QED
  BY <1>1, Invariance, PTL

(* No two executed calls share an operation id, and none is over the       *)
(* budget of its Attempt (call_tool).                                      *)
THEOREM UniqueOperations == Spec => []OperationsAreUnique
<1>1. IInv => OperationsAreUnique
  <2> SUFFICES ASSUME IInv PROVE OperationsAreUnique
    OBVIOUS
  <2>1. IndexInv /\ ToolTypeOK
    BY DEF IInv, TypeOK
  <2>2. ASSUME NEW c \in Calls, call[c].pc \in Executed
        PROVE  call[c].index \in 1..MaxToolCalls /\ call[c].pc # "new"
    <3>1. call[c].pc # "new" /\ call[c].index \in Nat
      BY <2>1, <2>2 DEF Executed, InFlight, ToolTypeOK, Call
    <3> QED
      BY <2>1, <2>2, <3>1 DEF IndexInv, ToolGatewayAssumption
  <2> QED
    BY <2>1, <2>2 DEF OperationsAreUnique, IndexInv
<1> QED
  BY <1>1, Invariance, PTL

(* No call begins in an Attempt after its question was answered to the     *)
(* model (_request_user_input, _input_pending).                            *)
THEOREM NothingAfterQuestion == Spec => QuestionIsLast
<1> DEFINE Last == \A c \in Calls, d \in AskCalls :
                      /\ call[c].pc = "new" /\ call'[c].pc # "new"
                      /\ call[d].pc = "succeeded"
                      => call'[c].attempt # call[d].askedFor
<1>1. IInv /\ [Next]_vars => [Last]_vars
  <2> SUFFICES ASSUME IInv, Next,
                      NEW c \in Calls, NEW d \in AskCalls,
                      call[c].pc = "new", call'[c].pc # "new",
                      call[d].pc = "succeeded"
               PROVE  call'[c].attempt # call[d].askedFor
    BY DEF vars
  <2>0. ToolTypeOK /\ QuestionInv
    BY DEF IInv, TypeOK
  <2>1. call' # call
    OBVIOUS
  <2>2. PICK e \in Calls : CallComes(e) \/ CallStep(e)
    BY <2>1 DEF Next, TurnBinds, TurnEnds, TurnSettles, TurnRaises, TurnCancelled,
       HolderDiscarded, Discarded, handlerVars, RequestComes, RequestStep,
       toolVars, memoryVars
  <2>3. CallComes(e) /\ e = c
    <3>1. call'[c] # call[c]
      OBVIOUS
    <3>2. CASE CallComes(e)
      BY <2>0, <3>1, <3>2 DEF CallComes, CallEnters, ToolTypeOK
    <3>3. CASE CallStep(e)
      <4>1. call[e].pc # "new"
        BY <3>3 DEF CallStep, CallMoves, CallEnds, AskTakesLock, AskCommits,
           AskFails, AskReturns, AskBreaks
      <4>2. \A g \in Calls : g # e => call'[g] = call[g]
        BY <2>0, <3>3 DEF CallStep, CallMoves, CallEnds, AskTakesLock, AskCommits,
           AskFails, AskReturns, AskBreaks, Goto, ToolTypeOK
      <4> QED
        BY <3>1, <4>1, <4>2
    <3> QED
      BY <2>2, <3>2, <3>3
  <2>4. inputPending = NoCall /\ call'[c].attempt = toolBinding
    BY <2>0, <2>3 DEF CallComes, CallEnters, CallAdmitted, ToolTypeOK
  <2> QED
    BY <2>0, <2>4 DEF QuestionInv
<1> QED
  BY <1>1, Invariance, PTL DEF Spec, QuestionIsLast

(* The Providers are gone through once per Attempt (context_gateway.py).   *)
THEOREM RetrievedOnce == Spec => []OneRetrievalPerAttempt
<1>1. IInv => OneRetrievalPerAttempt
  BY DEF IInv, RetrievalInv, OneRetrievalPerAttempt
<1> QED
  BY <1>1, Invariance, PTL

=============================================================================
