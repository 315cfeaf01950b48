------------------------------ MODULE PlanReact ------------------------------
(***************************************************************************)
(* Plan-ReAct: in a planning Attempt the model submits a plan, a graph of  *)
(* steps with the Tools they need; a user approves it; an execution        *)
(* Attempt runs it as a fixed Workflow, batch after batch.  RunExecution   *)
(* has the Run, its Attempts and the approval; this module has what        *)
(* happens to the plan itself.                                             *)
(*                                                                         *)
(* Source: control/plan_react.py.  The DSH process, which runs the script  *)
(* and its sub-agents, is external.                                        *)
(*                                                                         *)
(* Data.  A proposal is its graph, a function from the ids of its steps to *)
(* the ids they depend on, and the Tools it asks for.  A digest is what it *)
(* covers: equal digests, equal contents.  Every other defect of a         *)
(* submission (blank or long texts, duplicates, a malformed step) is a     *)
(* submission that is refused.                                             *)
(***************************************************************************)
EXTENDS Naturals, FiniteSets

CONSTANTS
    StepIds,        \* step ids the model may use
    MaxSteps,       \* PlanReact.max_steps
    WriteTools,     \* Tools of the Agent with side effects
    UnknownTool,    \* a name that is no Tool of the Agent
    Calls,          \* calls of submit_plan, handled in threads
    Templates       \* versions of the Workflow script that get deployed

ASSUME ConstantsAssumption ==
    /\ MaxSteps \in Nat \ {0}
    /\ UnknownTool \notin WriteTools
    /\ Templates \subseteq Nat \ {0}

VARIABLES
    call,           \* the handlers of submit_plan
    proposal,       \* _proposal of the PlanSubmissionCollector
    phase,          \* where the Run is
    plan,           \* the PlanRecord
    approved,       \* what the user has seen and approved
    template,       \* _WORKFLOW_SCRIPT of the deployed code
    workflow,       \* the running script: args, pending, outputs
    effects         \* WriteTools that were called

planningVars == <<call, proposal>>
vars == <<call, proposal, phase, plan, approved, template, workflow, effects>>

-----------------------------------------------------------------------------
(* Proposals.                                                              *)

Graph ==
    UNION {[ids -> SUBSET StepIds] : ids \in {S \in SUBSET StepIds : IsFiniteSet(S)}}

Proposal == [deps: Graph, tools: SUBSET (WriteTools \cup {UnknownTool})]

(* The steps that can run when those in resolved have: not resolved        *)
(* themselves, with all their dependencies resolved.                       *)
Ready(deps, resolved) ==
    {s \in DOMAIN deps : s \notin resolved /\ deps[s] \subseteq resolved}

(* _assert_acyclic: what is resolved after n rounds of its loop.           *)
Resolved(deps) ==
    LET after[n \in 0..Cardinality(DOMAIN deps)] ==
            IF n = 0 THEN {}
            ELSE after[n - 1] \cup Ready(deps, after[n - 1])
    IN  after[Cardinality(DOMAIN deps)]

(* Fault: one round, and any step it finds will do.                        *)
AcyclicAtOnce(deps) == Ready(deps, {}) # {}

Acyclic(deps) == Resolved(deps) = DOMAIN deps

DependenciesKnown(deps) ==
    \A s \in DOMAIN deps : s \notin deps[s] /\ deps[s] \subseteq DOMAIN deps

(* validate_proposal.                                                      *)
Validate(p) ==
    /\ Cardinality(DOMAIN p.deps) \in 1..MaxSteps
    /\ DependenciesKnown(p.deps)
    /\ Acyclic(p.deps)
    /\ p.tools \subseteq WriteTools

ValidProposals == {p \in Proposal : Validate(p)}

NoProposal == [deps |-> << >>, tools |-> {}]

-----------------------------------------------------------------------------
(* The Run.                                                                *)

Phase == {"planning", "waiting", "approved", "executing", "rejected",
          "succeeded", "failed", "stuck"}

(* pc of a handler of submit_plan: new, valid (its proposal has passed     *)
(* validate_proposal, it does not hold the lock yet), accepted, refused.   *)
Call == [pc: {"new", "valid", "accepted", "refused"},
         proposal: ValidProposals \cup {NoProposal}]

(* A plan is its steps and Tools and the template it was compiled for.     *)
NoPlan == [proposal |-> NoProposal, template |-> 0]

Plan == [proposal: ValidProposals, template: Templates]

(* running: the agents of the batch that work; returned: those that are    *)
(* done; outputs: the steps of earlier batches.                            *)
Workflow == [plan: Plan \cup {NoPlan}, pending: SUBSET StepIds,
             running: SUBSET StepIds, returned: SUBSET StepIds,
             outputs: SUBSET StepIds]

NoWorkflow == [plan |-> NoPlan, pending |-> {}, running |-> {},
               returned |-> {}, outputs |-> {}]

Init ==
    /\ call = [c \in Calls |-> [pc |-> "new", proposal |-> NoProposal]]
    /\ proposal = NoProposal
    /\ phase = "planning"
    /\ plan = NoPlan /\ approved = NoPlan
    /\ template \in Templates
    /\ workflow = NoWorkflow
    /\ effects = {}

-----------------------------------------------------------------------------
(* Planning.                                                               *)

(* validate_proposal runs before the lock is taken.                        *)
SubmitValidates(c) ==
    /\ call[c].pc = "new" /\ phase = "planning"
    /\ \/ \E p \in ValidProposals :
             call' = [call EXCEPT ![c] = [pc |-> "valid", proposal |-> p]]
       \/ call' = [call EXCEPT ![c].pc = "refused"]
    /\ UNCHANGED <<proposal, phase, plan, approved, template, workflow, effects>>

(* Fault: the last submission counts.                                      *)
SubmitOverwrites(c) ==
    /\ call[c].pc = "valid"
    /\ proposal' = call[c].proposal
    /\ call' = [call EXCEPT ![c].pc = "accepted"]
    /\ UNCHANGED <<phase, plan, approved, template, workflow, effects>>

(* Under the lock.                                                         *)
SubmitRecords(c) ==
    /\ call[c].pc = "valid"
    /\ IF proposal = NoProposal
         THEN /\ proposal' = call[c].proposal
              /\ call' = [call EXCEPT ![c].pc = "accepted"]
         ELSE /\ call' = [call EXCEPT ![c] = [pc |-> "refused",
                                              proposal |-> NoProposal]]
              /\ UNCHANGED proposal
    /\ UNCHANGED <<phase, plan, approved, template, workflow, effects>>

(* Fault: a Turn without a submission compiles what there is.              *)
PlanningEndsUnchecked ==
    /\ phase = "planning"
    /\ plan' = [proposal |-> proposal, template |-> template]
    /\ phase' = "waiting"
    /\ UNCHANGED <<planningVars, approved, template, workflow, effects>>

(* The Turn ends: compile_plan validates the proposal again and pins the   *)
(* template.  A submission that is still on its way comes too late.        *)
PlanningEnds ==
    /\ phase = "planning"
    /\ IF proposal # NoProposal /\ Validate(proposal)
         THEN /\ plan' = [proposal |-> proposal, template |-> template]
              /\ phase' = "waiting"
         ELSE phase' = "failed" /\ UNCHANGED plan
    /\ UNCHANGED <<planningVars, approved, template, workflow, effects>>

(* The decision names the digest of the plan the user was shown.           *)
Decide ==
    /\ phase = "waiting"
    /\ \/ phase' = "approved" /\ approved' = plan
       \/ phase' = "rejected" /\ UNCHANGED approved
    /\ UNCHANGED <<planningVars, plan, template, workflow, effects>>

(* Another version of the code is deployed.                                *)
Deploy ==
    /\ \E version \in Templates : version > template /\ template' = version
    /\ UNCHANGED <<planningVars, phase, plan, approved, workflow, effects>>

-----------------------------------------------------------------------------
(* Execution.                                                              *)

(* Fault: nobody compares the template.                                    *)
AnyTemplate == TRUE

(* compiled_workflow compares the digests of the plan with the code.       *)
TemplateMatches == plan.template = template

ExecutionStarts ==
    /\ phase = "approved"
    /\ IF TemplateMatches
         THEN /\ phase' = "executing"
              /\ workflow' = [NoWorkflow EXCEPT
                                !.plan = [proposal |-> plan.proposal,
                                          template |-> template],
                                !.pending = DOMAIN plan.proposal.deps]
         ELSE phase' = "failed" /\ UNCHANGED workflow
    /\ UNCHANGED <<planningVars, plan, approved, template, effects>>

graph == workflow.plan.proposal.deps

(* The filter of the script's loop.                                        *)
ReadySteps == {s \in workflow.pending : graph[s] \subseteq workflow.outputs}

(* One turn of the loop: parallel() starts an agent for every ready step.  *)
BatchStarts ==
    /\ phase = "executing"
    /\ workflow.running = {} /\ workflow.pending # {}
    /\ IF ReadySteps = {}
         THEN phase' = "stuck" /\ UNCHANGED workflow
         ELSE /\ workflow' = [workflow EXCEPT !.running = ReadySteps]
              /\ UNCHANGED phase
    /\ UNCHANGED <<planningVars, plan, approved, template, effects>>

AgentReturns(s) ==
    /\ phase = "executing"
    /\ s \in workflow.running \ workflow.returned
    /\ workflow' = [workflow EXCEPT !.returned = @ \cup {s}]
    /\ UNCHANGED <<planningVars, phase, plan, approved, template, effects>>

(* Fault: the completed steps stay pending.                                *)
BatchEndsUnfiltered ==
    /\ phase = "executing"
    /\ workflow.running # {} /\ workflow.returned = workflow.running
    /\ workflow' = [workflow EXCEPT !.outputs = @ \cup workflow.running,
                                    !.running = {}, !.returned = {}]
    /\ UNCHANGED <<planningVars, phase, plan, approved, template, effects>>

BatchEnds ==
    /\ phase = "executing"
    /\ workflow.running # {} /\ workflow.returned = workflow.running
    /\ workflow' = [workflow EXCEPT !.outputs = @ \cup workflow.running,
                                    !.pending = @ \ workflow.running,
                                    !.running = {}, !.returned = {}]
    /\ UNCHANGED <<planningVars, phase, plan, approved, template, effects>>

WorkflowReturns ==
    /\ phase = "executing"
    /\ workflow.pending = {}
    /\ phase' = "succeeded"
    /\ UNCHANGED <<planningVars, plan, approved, template, workflow, effects>>

(* An agent fails, or the Attempt does.                                    *)
ExecutionFails ==
    /\ phase = "executing"
    /\ phase' = "failed"
    /\ UNCHANGED <<planningVars, plan, approved, template, workflow, effects>>

-----------------------------------------------------------------------------
(* planning_agent keeps the Tools that only read, execution_agent those on *)
(* the plan.                                                               *)
Exposed ==
    CASE phase = "planning" -> {}
      [] phase = "executing" -> WriteTools \cap plan.proposal.tools
      [] OTHER -> {}

ToolCalled(t) ==
    /\ t \in Exposed
    /\ effects' = effects \cup {t}
    /\ UNCHANGED <<planningVars, phase, plan, approved, template, workflow>>

WorkflowStep ==
    \/ BatchStarts \/ BatchEnds \/ WorkflowReturns
    \/ \E s \in StepIds : AgentReturns(s)

Next ==
    \/ \E c \in Calls : SubmitValidates(c) \/ SubmitRecords(c)
    \/ PlanningEnds \/ Decide \/ Deploy
    \/ ExecutionStarts \/ ExecutionFails \/ WorkflowStep
    \/ \E t \in WriteTools : ToolCalled(t)

Spec == Init /\ [][Next]_vars

-----------------------------------------------------------------------------
(* The variables have their types.                                         *)
TypeOK ==
    /\ call \in [Calls -> Call]
    /\ proposal \in ValidProposals \cup {NoProposal}
    /\ phase \in Phase
    /\ plan \in Plan \cup {NoPlan} /\ approved \in Plan \cup {NoPlan}
    /\ template \in Templates
    /\ workflow \in Workflow
    /\ effects \subseteq WriteTools

(* A graph has a cycle when some set of steps keeps itself waiting.        *)
HasCycle(d) ==
    \E knot \in (SUBSET DOMAIN d) \ {{}} : \A s \in knot : d[s] \cap knot # {}

(* What a plan has to be.                                                  *)
Executable(p) ==
    /\ p.tools \subseteq WriteTools
    /\ DOMAIN p.deps # {} /\ Cardinality(DOMAIN p.deps) <= MaxSteps
    /\ \A s \in DOMAIN p.deps : p.deps[s] \subseteq DOMAIN p.deps
    /\ ~HasCycle(p.deps)

ExecutablesPass == \A p \in Proposal : Validate(p) <=> Executable(p)

(* validate_proposal accepts a graph of 1 to max_steps steps exactly when  *)
(* its dependencies are among them and it has no cycle: the rounds of its  *)
(* loop find every cycle, also one among steps that others depend on, and  *)
(* refuse no other graph.  So whatever was submitted can be executed.      *)
ValidationIsExact ==
    /\ ExecutablesPass
    /\ \A c \in Calls :
          call[c].pc \in {"valid", "accepted"} => Executable(call[c].proposal)
    /\ plan # NoPlan => Executable(plan.proposal)

(* Of the submissions that race in threads one is accepted, and it is the  *)
(* one the user decides about: a later one neither replaces it nor is told *)
(* that it was accepted.                                                   *)
OneSubmissionStands ==
    \A c \in Calls : call[c].pc = "accepted" =>
        /\ \A d \in Calls : call[d].pc = "accepted" => d = c
        /\ plan # NoPlan => plan.proposal = proposal
        /\ proposal = call[c].proposal

(* An agent works only when the agents of all the steps its own depends on *)
(* have returned, a step is never given to a second agent, and an approved *)
(* plan never leaves the script with steps it cannot start.                *)
StepsInOrder ==
    LET begun == workflow.running \cup workflow.outputs
    IN  /\ \A s \in begun : graph[s] \subseteq workflow.outputs
        /\ workflow.running \cap workflow.outputs = {}
        /\ phase = "succeeded" => workflow.outputs = DOMAIN graph
        /\ phase # "stuck"

(* What is executed is what the user approved, under the script it was     *)
(* compiled for, although another version may be deployed at any time; and *)
(* no Tool with side effects is called before the approval, or without     *)
(* being on the plan.                                                      *)
ExecutesAsApproved ==
    /\ workflow # NoWorkflow => workflow.plan = approved
    /\ effects \subseteq approved.proposal.tools

=============================================================================
