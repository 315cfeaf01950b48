---------------------------- MODULE PlanReactProofs ----------------------------
(***************************************************************************)
(* The properties of PlanReact for any steps, Tools, submissions and       *)
(* versions of the script.                                                 *)
(***************************************************************************)
EXTENDS PlanReact, FiniteSetTheorems, WellFoundedInduction, TLAPS

USE ConstantsAssumption

(* Induction, as every set of numbers has a least one.                     *)
LEMMA LeastNumber ==
    ASSUME NEW T \in SUBSET Nat, T # {}
    PROVE  \E n \in T : \A m \in T : n <= m
<1> DEFINE R == OpToRel(<, Nat)
<1>1. IsWellFoundedOn(R, Nat)
  BY NatLessThanWellFounded
<1> HIDE DEF R
<1>2. PICK n \in T : \A m \in T : <<m, n>> \notin R
  BY <1>1, WFMin
<1>3. \A m \in T : n \in Nat /\ m \in Nat /\ ~(m < n)
  BY <1>2 DEF R, OpToRel
<1> QED
  BY <1>2, <1>3

-----------------------------------------------------------------------------
(* The rounds of _assert_acyclic find exactly the graphs without a cycle.  *)

(* f is what is resolved after each of the first m rounds.                 *)
Rounds(deps, m, f) ==
    f = [n \in 0..m |-> IF n = 0 THEN {} ELSE f[n - 1] \cup Ready(deps, f[n - 1])]

After(deps) == CHOOSE f : Rounds(deps, Cardinality(DOMAIN deps), f)

LEMMA ResolvedIsLast ==
    ASSUME NEW deps
    PROVE  Resolved(deps) = After(deps)[Cardinality(DOMAIN deps)]
BY DEF Resolved, After, Rounds

(* The recursive definition defines something.                             *)
LEMMA RoundsExist ==
    ASSUME NEW deps, NEW k \in Nat
    PROVE  \E f : Rounds(deps, k, f)
<1> DEFINE T == {m \in Nat : ~ \E f : Rounds(deps, m, f)}
<1>1. SUFFICES ASSUME T # {} PROVE FALSE
  OBVIOUS
<1>2. PICK m \in T : \A l \in T : m <= l
  BY <1>1, LeastNumber
<1>3. m # 0
  <2> DEFINE f == [n \in 0..0 |-> {}]
  <2>1. Rounds(deps, 0, f)
    BY DEF Rounds
  <2> QED
    BY <2>1
<1>4. m \in Nat /\ m - 1 \in Nat /\ m - 1 \notin T
  BY <1>2, <1>3
<1>5. PICK g : Rounds(deps, m - 1, g)
  BY <1>4
<1> DEFINE f == [n \in 0..m |-> IF n = m THEN g[m - 1] \cup Ready(deps, g[m - 1]) ELSE g[n]]
<1>6. \A n \in 0..(m - 1) : f[n] = g[n]
  BY <1>4
<1>7. \A n \in 0..(m - 1) : g[n] = IF n = 0 THEN {} ELSE g[n - 1] \cup Ready(deps, g[n - 1])
  BY <1>5 DEF Rounds
<1>8. ASSUME NEW n \in 0..m
      PROVE  f[n] = IF n = 0 THEN {} ELSE f[n - 1] \cup Ready(deps, f[n - 1])
  <2>1. CASE n = m
    <3>1. n # 0 /\ f[n] = g[m - 1] \cup Ready(deps, g[m - 1]) /\ f[n - 1] = g[m - 1]
      BY <1>3, <1>4, <1>6, <2>1
    <3> QED
      BY <3>1, <2>1
  <2>2. CASE n # m
    <3>1. n \in 0..(m - 1) /\ (n # 0 => n - 1 \in 0..(m - 1))
      BY <1>4, <2>2
    <3>2. f[n] = g[n] /\ (n # 0 => f[n - 1] = g[n - 1])
      BY <1>6, <3>1
    <3> HIDE DEF f
    <3> QED
      BY <1>7, <3>1, <3>2
  <2> QED
    BY <2>1, <2>2
<1>9. f = [n \in 0..m |-> IF n = 0 THEN {} ELSE f[n - 1] \cup Ready(deps, f[n - 1])]
  <2>1. f = [n \in 0..m |-> f[n]]
    OBVIOUS
  <2> HIDE DEF f
  <2> QED
    BY <1>8, <2>1
<1>10. Rounds(deps, m, f)
  BY <1>9 DEF Rounds
<1> QED
  BY <1>2, <1>10

(* What one round does.                                                    *)
LEMMA RoundFacts ==
    ASSUME NEW deps, IsFiniteSet(DOMAIN deps)
    PROVE  /\ Cardinality(DOMAIN deps) \in Nat
           /\ After(deps)[0] = {}
           /\ \A n \in 1..Cardinality(DOMAIN deps) :
                 After(deps)[n] = After(deps)[n - 1] \cup Ready(deps, After(deps)[n - 1])
<1> DEFINE k == Cardinality(DOMAIN deps)
<1>1. k \in Nat
  BY FS_CardinalityType
<1>2. Rounds(deps, k, After(deps))
  BY <1>1, RoundsExist DEF After
<1>3. 0 \in 0..k /\ \A n \in 1..k : n \in 0..k /\ n # 0
  BY <1>1
<1> HIDE DEF k
<1>4. \A n \in 0..k : After(deps)[n] = IF n = 0 THEN {}
                                       ELSE After(deps)[n - 1] \cup Ready(deps, After(deps)[n - 1])
  BY <1>2 DEF Rounds
<1>5. /\ After(deps)[0] = {}
      /\ \A n \in 1..k : After(deps)[n] = After(deps)[n - 1] \cup Ready(deps, After(deps)[n - 1])
  BY <1>3, <1>4
<1> QED
  BY <1>1, <1>5 DEF k

(* Without a cycle every round resolves a step, until all are resolved.    *)
LEMMA RoundsProgress ==
    ASSUME NEW deps, IsFiniteSet(DOMAIN deps), ~HasCycle(deps),
           \A s \in DOMAIN deps : deps[s] \subseteq DOMAIN deps
    PROVE  Acyclic(deps)
<1> DEFINE k == Cardinality(DOMAIN deps)
           A(n) == After(deps)[n]
           Good(n) == /\ A(n) \subseteq DOMAIN deps
                      /\ A(n) = DOMAIN deps \/ Cardinality(A(n)) >= n
           T == {n \in 0..k : ~Good(n)}
<1>1. k \in Nat /\ A(0) = {} /\ \A n \in 1..k : A(n) = A(n - 1) \cup Ready(deps, A(n - 1))
  BY RoundFacts
<1>2. T = {}
  <2> SUFFICES ASSUME T # {} PROVE FALSE
    OBVIOUS
  <2>1. T \in SUBSET Nat
    BY <1>1
  <2>2. PICK n \in T : \A m \in T : n <= m
    BY <2>1, LeastNumber
  <2>3. n # 0
    BY <1>1, <2>2, FS_EmptySet
  <2>4. n \in 1..k /\ n - 1 \in 0..k /\ n - 1 \notin T /\ n \in Nat
    BY <1>1, <2>2, <2>3
  <2>5. Good(n - 1)
    BY <2>4
  <2>6. A(n) = A(n - 1) \cup Ready(deps, A(n - 1)) /\ A(n) \subseteq DOMAIN deps
    BY <1>1, <2>4, <2>5 DEF Ready
  <2> HIDE DEF A
  <2>7. CASE A(n - 1) = DOMAIN deps
    BY <2>2, <2>6, <2>7
  <2>8. CASE A(n - 1) # DOMAIN deps
    <3> DEFINE rest == DOMAIN deps \ A(n - 1)
    <3>1. rest \in (SUBSET DOMAIN deps) \ {{}}
      BY <2>5, <2>8
    <3>2. PICK s \in rest : deps[s] \cap rest = {}
      BY <3>1 DEF HasCycle
    <3>3. deps[s] \subseteq A(n - 1) /\ s \in DOMAIN deps /\ s \notin A(n - 1)
      BY <3>2
    <3>4. A(n - 1) \cup {s} \subseteq A(n)
      BY <2>6, <3>3 DEF Ready
    <3>5. IsFiniteSet(A(n - 1)) /\ IsFiniteSet(A(n))
      BY <2>5, <2>6, FS_Subset
    <3>6. /\ Cardinality(A(n - 1) \cup {s}) = Cardinality(A(n - 1)) + 1
          /\ Cardinality(A(n - 1)) \in Nat /\ Cardinality(A(n)) \in Nat
      BY <3>3, <3>5, FS_AddElement, FS_CardinalityType
    <3>7. Cardinality(A(n - 1) \cup {s}) <= Cardinality(A(n))
      BY <3>4, <3>5, FS_Subset
    <3>8. Cardinality(A(n)) >= n
      BY <2>4, <2>5, <2>8, <3>6, <3>7
    <3> QED
      BY <2>2, <2>6, <3>8
  <2> QED
    BY <2>7, <2>8
<1>3. Good(k)
  BY <1>1, <1>2
<1>4. A(k) = DOMAIN deps
  <2> HIDE DEF A
  <2>1. CASE Cardinality(A(k)) >= k
    <3>1. Cardinality(A(k)) <= k /\ Cardinality(A(k)) \in Nat
      BY <1>3, FS_Subset, FS_CardinalityType
    <3>2. Cardinality(A(k)) = k
      BY <1>1, <2>1, <3>1
    <3> QED
      BY <1>3, <3>2, FS_Subset
  <2> QED
    BY <1>3, <2>1
<1> QED
  BY <1>4, ResolvedIsLast DEF Acyclic

(* Steps that keep each other waiting are never resolved.                  *)
LEMMA KnotsRemain ==
    ASSUME NEW deps, IsFiniteSet(DOMAIN deps), HasCycle(deps)
    PROVE  ~Acyclic(deps)
<1> DEFINE k == Cardinality(DOMAIN deps)
           A(n) == After(deps)[n]
<1>1. PICK knot \in (SUBSET DOMAIN deps) \ {{}} : \A s \in knot : deps[s] \cap knot # {}
  BY DEF HasCycle
<1>2. k \in Nat /\ A(0) = {} /\ \A n \in 1..k : A(n) = A(n - 1) \cup Ready(deps, A(n - 1))
  BY RoundFacts
<1> DEFINE T == {n \in 0..k : A(n) \cap knot # {}}
<1>3. T = {}
  <2> SUFFICES ASSUME T # {} PROVE FALSE
    OBVIOUS
  <2>1. T \in SUBSET Nat
    BY <1>2
  <2>2. PICK n \in T : \A m \in T : n <= m
    BY <2>1, LeastNumber
  <2>3. n # 0
    BY <1>2, <2>2
  <2>4. n \in 1..k /\ n - 1 \in 0..k /\ n - 1 \notin T
    BY <1>2, <2>2, <2>3
  <2>5. A(n - 1) \cap knot = {} /\ A(n) = A(n - 1) \cup Ready(deps, A(n - 1))
    BY <1>2, <2>4
  <2> HIDE DEF A
  <2>6. PICK s \in knot : s \in Ready(deps, A(n - 1))
    BY <2>2, <2>5
  <2>7. deps[s] \subseteq A(n - 1)
    BY <2>6 DEF Ready
  <2> QED
    BY <1>1, <2>5, <2>7
<1>4. A(k) \cap knot = {}
  BY <1>2, <1>3
<1> QED
  BY <1>1, <1>4, ResolvedIsLast DEF Acyclic

(* validate_proposal accepts exactly the graphs that can be executed.      *)
THEOREM ValidationDecides == ExecutablesPass
<1> SUFFICES ASSUME NEW p \in Proposal PROVE Validate(p) <=> Executable(p)
  BY DEF ExecutablesPass
<1> DEFINE d == p.deps
<1>1. IsFiniteSet(DOMAIN d) /\ Cardinality(DOMAIN d) \in Nat
  BY FS_CardinalityType DEF Proposal, Graph
<1>2. Cardinality(DOMAIN d) = 0 <=> DOMAIN d = {}
  BY <1>1, FS_EmptySet
<1>3. Cardinality(DOMAIN d) \in 1..MaxSteps <=> DOMAIN d # {} /\ Cardinality(DOMAIN d) <= MaxSteps
  BY <1>1, <1>2
<1>4. ASSUME \A s \in DOMAIN d : d[s] \subseteq DOMAIN d
      PROVE  Acyclic(d) <=> ~HasCycle(d)
  BY <1>1, <1>4, RoundsProgress, KnotsRemain
<1>5. ~HasCycle(d) => \A s \in DOMAIN d : s \notin d[s]
  <2> SUFFICES ASSUME NEW s \in DOMAIN d, s \in d[s] PROVE HasCycle(d)
    OBVIOUS
  <2>1. {s} \in (SUBSET DOMAIN d) \ {{}} /\ \A t \in {s} : d[t] \cap {s} # {}
    OBVIOUS
  <2> QED
    BY <2>1 DEF HasCycle
<1> HIDE DEF d
<1>6. Validate(p) <=> /\ Cardinality(DOMAIN d) \in 1..MaxSteps
                      /\ \A s \in DOMAIN d : s \notin d[s] /\ d[s] \subseteq DOMAIN d
                      /\ Acyclic(d) /\ p.tools \subseteq WriteTools
  BY DEF Validate, DependenciesKnown, d
<1>7. Executable(p) <=> /\ p.tools \subseteq WriteTools
                        /\ DOMAIN d # {} /\ Cardinality(DOMAIN d) <= MaxSteps
                        /\ \A s \in DOMAIN d : d[s] \subseteq DOMAIN d
                        /\ ~HasCycle(d)
  BY DEF Executable, d
<1> QED
  BY <1>3, <1>4, <1>5, <1>6, <1>7

-----------------------------------------------------------------------------
(* A valid proposal is never the empty one.                                *)
LEMMA NoProposalInvalid == NoProposal \notin ValidProposals
<1>1. DOMAIN NoProposal.deps = {}
  BY DEF NoProposal
<1>2. Cardinality(DOMAIN NoProposal.deps) = 0
  BY <1>1, FS_EmptySet
<1>3. Cardinality(DOMAIN NoProposal.deps) \notin 1..MaxSteps
  BY <1>2
<1> QED
  BY <1>3 DEF ValidProposals, Validate

(* A valid proposal is a graph over the ids.                               *)
LEMMA ValidGraph ==
  ASSUME NEW p \in ValidProposals
  PROVE  /\ DOMAIN p.deps \subseteq StepIds
         /\ p.deps \in [DOMAIN p.deps -> SUBSET StepIds]
         /\ p.tools \subseteq WriteTools
  BY DEF ValidProposals, Proposal, Graph, Validate

-----------------------------------------------------------------------------
(* Submissions: what is recorded is valid, and belongs to the one call     *)
(* that was accepted.                                                      *)
SubmitInv ==
    /\ call \in [Calls -> Call]
    /\ proposal \in ValidProposals \cup {NoProposal}
    /\ \A c \in Calls :
          /\ call[c].pc \in {"valid", "accepted"} => call[c].proposal \in ValidProposals
          /\ call[c].pc = "accepted" => proposal = call[c].proposal
    /\ \A c, d \in Calls : call[c].pc = "accepted" /\ call[d].pc = "accepted" => c = d

(* The plan: compiled from what was recorded, approved as it is.           *)
PlanInv ==
    /\ phase \in Phase
    /\ template \in Templates
    /\ plan \in Plan \cup {NoPlan}
    /\ plan # NoPlan => plan.proposal = proposal
    /\ phase = "planning" => plan = NoPlan
    /\ phase \in {"waiting", "approved", "executing"} => plan \in Plan
    /\ phase \in {"planning", "waiting"} => approved = NoPlan
    /\ phase \in {"approved", "executing"} => approved = plan

(* The script works on the approved plan, or does not work.                *)
ApprovalInv ==
    /\ approved \in Plan \cup {NoPlan}
    /\ workflow \in Workflow
    /\ phase \in {"planning", "waiting", "approved"} => workflow = NoWorkflow
    /\ phase = "executing" => workflow.plan \in Plan
    /\ workflow # NoWorkflow => workflow.plan = approved
    /\ effects \subseteq approved.proposal.tools

Inv == SubmitInv /\ PlanInv /\ ApprovalInv

(* The invariant holds when the Run begins.                                *)
LEMMA InitInv == Init => Inv
<1> SUFFICES ASSUME Init PROVE Inv
  OBVIOUS
<1>1. SubmitInv
  BY DEF Init, SubmitInv, Call
<1>2. PlanInv
  BY DEF Init, PlanInv, Phase
<1>3. ApprovalInv
  BY DEF Init, ApprovalInv, NoPlan, NoProposal, NoWorkflow, Workflow
<1> QED
  BY <1>1, <1>2, <1>3 DEF Inv

(* Submissions, under the lock or before it.                               *)
LEMMA SubmitStep ==
  ASSUME Inv, NEW c \in Calls, SubmitValidates(c) \/ SubmitRecords(c)
  PROVE  Inv'
<1>0. SubmitInv /\ PlanInv /\ ApprovalInv
  BY DEF Inv
<1>1. CASE SubmitValidates(c)
  <2>1. PICK p \in ValidProposals \cup {NoProposal} :
          \/ p \in ValidProposals /\ call' = [call EXCEPT ![c] = [pc |-> "valid", proposal |-> p]]
          \/ call' = [call EXCEPT ![c].pc = "refused"]
    BY <1>1 DEF SubmitValidates
  <2>2. /\ call[c].pc = "new"
        /\ UNCHANGED <<proposal, phase, plan, approved, template, workflow, effects>>
    BY <1>1 DEF SubmitValidates
  <2>3. SubmitInv'
    BY <1>0, <2>1, <2>2 DEF SubmitInv, Call
  <2> QED
    BY <1>0, <2>2, <2>3 DEF Inv, PlanInv, ApprovalInv
<1>2. CASE SubmitRecords(c) /\ proposal = NoProposal
  <2>1. /\ call[c].pc = "valid" /\ proposal' = call[c].proposal
        /\ call' = [call EXCEPT ![c].pc = "accepted"]
        /\ UNCHANGED <<phase, plan, approved, template, workflow, effects>>
    BY <1>2 DEF SubmitRecords
  <2>2. \A d \in Calls : call[d].pc # "accepted"
    BY <1>0, <1>2, NoProposalInvalid DEF SubmitInv
  <2>3. SubmitInv'
    BY <1>0, <2>1, <2>2 DEF SubmitInv, Call
  <2>4. plan = NoPlan
    BY <1>0, <1>2, NoProposalInvalid DEF PlanInv, Plan
  <2> QED
    BY <1>0, <2>1, <2>3, <2>4 DEF Inv, PlanInv, ApprovalInv
<1>3. CASE SubmitRecords(c) /\ proposal # NoProposal
  <2>1. /\ call[c].pc = "valid" /\ proposal' = proposal
        /\ call' = [call EXCEPT ![c] = [pc |-> "refused", proposal |-> NoProposal]]
        /\ UNCHANGED <<phase, plan, approved, template, workflow, effects>>
    BY <1>3 DEF SubmitRecords
  <2>2. SubmitInv'
    BY <1>0, <2>1 DEF SubmitInv, Call
  <2> QED
    BY <1>0, <2>1, <2>2 DEF Inv, PlanInv, ApprovalInv
<1> QED
  BY <1>1, <1>2, <1>3

(* Everything else leaves the submissions alone.                           *)
LEMMA RunStep == ASSUME Inv, [Next]_vars, UNCHANGED planningVars PROVE Inv'
<1>0. SubmitInv /\ PlanInv /\ ApprovalInv
  BY DEF Inv
<1>1. SubmitInv' /\ proposal' = proposal
  BY <1>0 DEF planningVars, SubmitInv
<1>2. CASE PlanningEnds
  <2>1. PlanInv'
    BY <1>0, <1>1, <1>2 DEF PlanningEnds, SubmitInv, PlanInv, Plan, Phase
  <2>2. ApprovalInv'
    BY <1>0, <1>2 DEF PlanningEnds, ApprovalInv
  <2> QED
    BY <1>1, <2>1, <2>2 DEF Inv
<1>3. CASE Decide
  <2>1. PlanInv'
    BY <1>0, <1>1, <1>3 DEF Decide, PlanInv, Phase
  <2>2. effects = {}
    BY <1>0, <1>3 DEF Decide, PlanInv, ApprovalInv, NoPlan, NoProposal
  <2>3. ApprovalInv'
    BY <1>0, <1>3, <2>2 DEF Decide, PlanInv, ApprovalInv
  <2> QED
    BY <1>1, <2>1, <2>3 DEF Inv
<1>4. CASE Deploy
  BY <1>0, <1>1, <1>4 DEF Deploy, Inv, PlanInv, ApprovalInv
<1>5. CASE ExecutionStarts
  <2>1. PlanInv'
    BY <1>0, <1>1, <1>5 DEF ExecutionStarts, PlanInv, Phase
  <2>2. ApprovalInv'
    <3>1. CASE plan.template = template
      <4>1. plan = [proposal |-> plan.proposal, template |-> template] /\ plan \in Plan
        BY <1>0, <1>5, <3>1 DEF ExecutionStarts, PlanInv, Plan
      <4>2. DOMAIN plan.proposal.deps \in SUBSET StepIds
        BY <4>1, ValidGraph DEF Plan
      <4>3. workflow' = [plan |-> plan, pending |-> DOMAIN plan.proposal.deps,
                         running |-> {}, returned |-> {}, outputs |-> {}]
        BY <1>5, <3>1, <4>1 DEF ExecutionStarts, TemplateMatches, NoWorkflow
      <4>4. workflow' \in Workflow /\ workflow'.plan = plan
        BY <4>1, <4>2, <4>3 DEF Workflow
      <4> QED
        BY <1>0, <1>5, <4>1, <4>4 DEF ExecutionStarts, PlanInv, ApprovalInv
    <3>2. CASE plan.template # template
      BY <1>0, <1>5, <3>2 DEF ExecutionStarts, TemplateMatches, ApprovalInv
    <3> QED
      BY <3>1, <3>2
  <2> QED
    BY <1>1, <2>1, <2>2 DEF Inv
<1>6. CASE WorkflowStep \/ ExecutionFails
  <2>1. /\ phase = "executing" /\ phase' \in {"executing", "stuck", "succeeded", "failed"}
        /\ UNCHANGED <<plan, approved, template, effects>>
    BY <1>6 DEF WorkflowStep, ExecutionFails, BatchStarts, BatchEnds, WorkflowReturns,
       AgentReturns
  <2>2. PlanInv'
    BY <1>0, <1>1, <2>1 DEF PlanInv, Phase
  <2>3. workflow'.plan = workflow.plan /\ workflow' \in Workflow
    <3> USE <1>0 DEF ApprovalInv
    <3>1. CASE BatchStarts
      <4>1. ReadySteps \subseteq workflow.pending
        BY DEF ReadySteps
      <4> QED
        BY <3>1, <4>1 DEF BatchStarts, Workflow
    <3>2. CASE BatchEnds
      BY <3>2 DEF BatchEnds, Workflow
    <3>3. ASSUME NEW s \in StepIds, AgentReturns(s)
          PROVE  workflow'.plan = workflow.plan /\ workflow' \in Workflow
      BY <3>3 DEF AgentReturns, Workflow
    <3>4. CASE WorkflowReturns \/ ExecutionFails
      BY <3>4 DEF WorkflowReturns, ExecutionFails
    <3> QED
      BY <1>6, <3>1, <3>2, <3>3, <3>4 DEF WorkflowStep
  <2>4. workflow # NoWorkflow
    BY <1>0, <2>1, NoProposalInvalid DEF ApprovalInv, NoWorkflow, NoPlan, Plan
  <2>5. ApprovalInv'
    BY <1>0, <2>1, <2>3, <2>4 DEF ApprovalInv
  <2> QED
    BY <1>1, <2>2, <2>5 DEF Inv
<1>7. CASE \E t \in WriteTools : ToolCalled(t)
  <2>1. PICK t \in WriteTools : ToolCalled(t)
    BY <1>7
  <2>2. phase = "executing" /\ t \in plan.proposal.tools
    BY <1>0, <2>1 DEF ToolCalled, Exposed, PlanInv, Phase
  <2>3. /\ UNCHANGED <<phase, plan, approved, template, workflow>>
        /\ effects' = effects \cup {t}
    BY <2>1 DEF ToolCalled
  <2> QED
    BY <1>0, <1>1, <2>2, <2>3 DEF Inv, PlanInv, ApprovalInv
<1>8. CASE UNCHANGED vars
  BY <1>0, <1>1, <1>8 DEF vars, Inv, PlanInv, ApprovalInv
<1>9. CASE \E c \in Calls : SubmitValidates(c) \/ SubmitRecords(c)
  BY <1>0, <1>1, <1>9 DEF SubmitValidates, SubmitRecords, planningVars, Inv, PlanInv,
     ApprovalInv
<1> QED
  BY <1>2, <1>3, <1>4, <1>5, <1>6, <1>7, <1>8, <1>9 DEF Next

(* The specification preserves the invariant.                              *)
LEMMA NextInv == Inv /\ [Next]_vars => Inv'
<1> SUFFICES ASSUME Inv, [Next]_vars PROVE Inv'
  OBVIOUS
<1>1. UNCHANGED planningVars \/ \E c \in Calls : SubmitValidates(c) \/ SubmitRecords(c)
  BY DEF Next, vars, planningVars, PlanningEnds, Decide, Deploy, ExecutionStarts,
     ExecutionFails, WorkflowStep, BatchStarts, BatchEnds, WorkflowReturns, AgentReturns,
     ToolCalled
<1> QED
  BY <1>1, RunStep, SubmitStep

(* The invariant in every reachable state.                                 *)
LEMMA Invariance == Spec => []Inv
  BY InitInv, NextInv, PTL DEF Spec

(* Every variable has its type (PlanRecord, the script's variables).       *)
THEOREM TypeCorrect == Spec => []TypeOK
<1>1. Inv => TypeOK
  <2> SUFFICES ASSUME Inv PROVE TypeOK
    OBVIOUS
  <2>1. \A p \in Plan \cup {NoPlan} : p.proposal.tools \subseteq WriteTools
    BY ValidGraph DEF Plan, NoPlan, NoProposal
  <2>2. effects \subseteq WriteTools
    BY <2>1 DEF Inv, ApprovalInv
  <2> QED
    BY <2>2 DEF Inv, SubmitInv, PlanInv, ApprovalInv, TypeOK
<1> QED
  BY <1>1, Invariance, PTL

(* However many submissions race, one is accepted at most, and the plan    *)
(* the user sees is made of it (PlanSubmissionCollector.submit_plan).      *)
THEOREM OnePlanStands == Spec => []OneSubmissionStands
<1>1. Inv => OneSubmissionStands
  BY DEF Inv, SubmitInv, PlanInv, OneSubmissionStands
<1> QED
  BY <1>1, Invariance, PTL

(* What is executed is what was approved, whatever is deployed, and no     *)
(* Tool that is not on the approved plan has an effect (compiled_workflow, *)
(* execution_agent).                                                       *)
THEOREM ApprovedIsExecuted == Spec => []ExecutesAsApproved
<1>1. Inv => ExecutesAsApproved
  BY DEF Inv, ApprovalInv, ExecutesAsApproved
<1> QED
  BY <1>1, Invariance, PTL

-----------------------------------------------------------------------------
(* The script.  What is pending and what is done make up the graph; a step *)
(* that was begun has all it depends on.                                   *)
ScriptInv ==
    /\ workflow.pending \subseteq DOMAIN graph
    /\ workflow.outputs = DOMAIN graph \ workflow.pending
    /\ workflow.running \subseteq workflow.pending
    /\ \A s \in workflow.running \cup workflow.outputs : graph[s] \subseteq workflow.outputs
    /\ phase = "succeeded" => workflow.pending = {}
    /\ phase # "stuck"

(* In a graph without a cycle, some pending step depends on no other.      *)
LEMMA SomeStepReady ==
  ASSUME Inv, ScriptInv, phase = "executing", workflow.pending # {}
  PROVE  ReadySteps # {}
<1>1. workflow.plan.proposal \in ValidProposals
  BY DEF Inv, ApprovalInv, Plan
<1>2. Executable(workflow.plan.proposal)
  BY <1>1, ValidationDecides DEF ExecutablesPass, ValidProposals
<1>3. workflow.pending \in (SUBSET DOMAIN graph) \ {{}}
  BY DEF ScriptInv
<1>4. PICK s \in workflow.pending : graph[s] \cap workflow.pending = {}
  BY <1>2, <1>3 DEF Executable, HasCycle, graph
<1>5. graph[s] \subseteq DOMAIN graph
  BY <1>2, <1>3, <1>4 DEF Executable, graph
<1>6. graph[s] \subseteq workflow.outputs
  BY <1>4, <1>5 DEF ScriptInv
<1> QED
  BY <1>6 DEF ReadySteps

(* Every step preserves it.                                                *)
LEMMA ScriptStep ==
  ASSUME Inv, ScriptInv, [Next]_vars
  PROVE  ScriptInv'
<1>0. workflow \in Workflow
  BY DEF Inv, ApprovalInv
<1>1. CASE ExecutionStarts
  <2>1. CASE TemplateMatches
    <3>1. /\ workflow' = [plan |-> [proposal |-> plan.proposal, template |-> template],
                          pending |-> DOMAIN plan.proposal.deps,
                          running |-> {}, returned |-> {}, outputs |-> {}]
          /\ phase' = "executing"
      BY <1>1, <2>1 DEF ExecutionStarts, NoWorkflow
    <3> QED
      BY <3>1 DEF ScriptInv, graph
  <2>2. CASE ~TemplateMatches
    BY <1>1, <2>2 DEF ExecutionStarts, ScriptInv, graph
  <2> QED
    BY <2>1, <2>2
<1>2. CASE BatchStarts
  <2>1. ReadySteps # {}
    BY <1>2, SomeStepReady DEF BatchStarts
  <2>2. /\ phase' = phase /\ phase = "executing"
        /\ workflow' = [workflow EXCEPT !.running = ReadySteps]
    BY <1>2, <2>1 DEF BatchStarts
  <2>3. /\ workflow'.plan = workflow.plan /\ workflow'.pending = workflow.pending
        /\ workflow'.outputs = workflow.outputs
        /\ workflow'.running = ReadySteps
    BY <1>0, <2>2 DEF Workflow
  <2> QED
    BY <2>2, <2>3 DEF ScriptInv, graph, ReadySteps
<1>3. CASE BatchEnds
  <2>1. workflow' = [workflow EXCEPT !.outputs = @ \cup workflow.running,
                                     !.pending = @ \ workflow.running,
                                     !.running = {}, !.returned = {}]
    BY <1>3 DEF BatchEnds
  <2>2. /\ phase' = phase /\ phase = "executing"
        /\ workflow'.plan = workflow.plan
        /\ workflow'.outputs = workflow.outputs \cup workflow.running
        /\ workflow'.pending = workflow.pending \ workflow.running
        /\ workflow'.running = {}
    BY <1>0, <1>3, <2>1 DEF BatchEnds, Workflow
  <2> QED
    BY <2>2 DEF ScriptInv, graph
<1>4. CASE \E s \in StepIds : AgentReturns(s)
  <2>1. /\ phase' = phase /\ workflow'.plan = workflow.plan
        /\ workflow'.pending = workflow.pending /\ workflow'.outputs = workflow.outputs
        /\ workflow'.running = workflow.running
    BY <1>0, <1>4 DEF AgentReturns, Workflow
  <2> QED
    BY <2>1 DEF ScriptInv, graph
<1>5. CASE WorkflowReturns \/ ExecutionFails
  BY <1>5 DEF WorkflowReturns, ExecutionFails, ScriptInv, graph
<1>6. CASE PlanningEnds \/ Decide \/ Deploy
  BY <1>6 DEF PlanningEnds, Decide, Deploy, ScriptInv, graph
<1>7. CASE (\E c \in Calls : SubmitValidates(c) \/ SubmitRecords(c))
           \/ (\E t \in WriteTools : ToolCalled(t)) \/ UNCHANGED vars
  BY <1>7 DEF SubmitValidates, SubmitRecords, ToolCalled, vars, ScriptInv, graph
<1> QED
  BY <1>1, <1>2, <1>3, <1>4, <1>5, <1>6, <1>7 DEF Next, WorkflowStep

(* Steps run after those they depend on, each once, and an approved plan   *)
(* never gets stuck (_WORKFLOW_SCRIPT).                                    *)
THEOREM StepsRunInOrder == Spec => []StepsInOrder
<1>1. Init => ScriptInv
  BY DEF Init, ScriptInv, NoWorkflow, graph, NoPlan, NoProposal
<1>2. Inv /\ ScriptInv /\ [Next]_vars => ScriptInv'
  BY ScriptStep
<1>3. Inv /\ ScriptInv => StepsInOrder
  BY DEF ScriptInv, StepsInOrder
<1> QED
  BY <1>1, <1>2, <1>3, Invariance, PTL DEF Spec

(* Validation is exact: every proposal that was accepted and every plan    *)
(* can be executed, and nothing else is refused for its shape              *)
(* (validate_proposal, submit_plan, compile_plan).                         *)
THEOREM AcceptedCanBeExecuted == Spec => []ValidationIsExact
<1>1. Inv => ValidationIsExact
  <2> SUFFICES ASSUME Inv PROVE ValidationIsExact
    OBVIOUS
  <2>1. \A p \in ValidProposals : Executable(p)
    BY ValidationDecides DEF ExecutablesPass, ValidProposals
  <2>2. plan # NoPlan => plan.proposal \in ValidProposals
    BY DEF Inv, PlanInv, Plan
  <2> QED
    BY <2>1, <2>2, ValidationDecides DEF Inv, SubmitInv, ValidationIsExact
<1> QED
  BY <1>1, Invariance, PTL

=============================================================================
