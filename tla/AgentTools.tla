----------------------------- MODULE AgentTools -----------------------------
(***************************************************************************)
(* What an attempt of a generation does with tools: policies and approval  *)
(* tasks, durable tool calls and their fence, the workspace of the agent   *)
(* (agent-runner.ts, generation-engine-tools.ts, GenerationRunner.#execute *)
(* in client.ts, createToolCall and #settleToolCall on PostgreSQL).        *)
(*                                                                         *)
(* A model may ask for several calls in one step; they run side by side.   *)
(* A run may lose its lease or die between any two awaits while another    *)
(* run takes the attempt, or a new attempt, over.  The built-in agent      *)
(* waits for all calls of a step before it pauses; a custom engine leaves  *)
(* by an exception while its other calls go on.                            *)
(***************************************************************************)
EXTENDS Integers, FiniteSets

CONSTANTS
    ToolRun,        \* runs, each of one claim
    ToolSlot,       \* calls side by side
    ToolAction,     \* a tool with its arguments: what the idempotency key is made of
    NoAction,
    MaxToolAttempts,    \* bound: attempts of the generation
    MaxToolCalls,       \* bound: calls of one run
    MaxToolFaults       \* bound: crashes, lost leases and failed requests

Decision == {"allow", "deny", "approval-required"}

VARIABLES
    policy,     \* the host's policy, a function of the action
    effect,     \* [ToolAction -> "read" | "external"], the tool's declared effect
    native,     \* the built-in agent, or a custom engine
    turn,       \* the generation: [status, attempt, holder, steered, proposed]
    resolved,   \* resolved permission tasks, as <<action, decision>>
    toolRow,    \* tool_calls of external effects, by idempotency key
    run,        \* the runs
    performed,  \* bookkeeping: how often the effect of an action took place
    toolFaults

toolVars == <<policy, effect, native, turn, resolved, toolRow, run, performed, toolFaults>>

NoCall   == [status |-> "absent"]
Quiet    == [pc |-> "quiet", action |-> NoAction]
Waiting  == [pc |-> "waiting"]
Ended    == [pc |-> "ended"]

Working(r)  == run[r].pc = "step"
Call(r, s)  == run[r].call[s]
InStep(r, s, pc) == run[r].pc \in {"step", "left"} /\ Call(r, s).pc = pc
SetRun(r, x)     == run' = [run EXCEPT ![r] = x]
SetCall(r, s, x) == run' = [run EXCEPT ![r].call[s] = x]
AllQuiet(r)      == \A s \in ToolSlot : Call(r, s) = Quiet
ToolFault        == toolFaults < MaxToolFaults /\ toolFaults' = toolFaults + 1

\* The fence of every write of a run: the generation runs this attempt under this lease.
Fenced(r) == turn.status = "running" /\ turn.holder = r /\ turn.attempt = run[r].attempt

----------------------------------------------------------------------------
(* A run *)

\* A claim takes a queued attempt, or a running one whose lease is over.  The run reads the
\* tasks resolved so far and starts from the immutable base version.
TakeTurn(r) ==
    /\ run[r] = Waiting
    /\ turn.status = "queued" \/ (turn.status = "running" /\ turn.holder = NoAction)
    /\ turn' = [turn EXCEPT !.status = "running", !.holder = r]
    /\ SetRun(r, [pc |-> "step", attempt |-> turn.attempt, decided |-> resolved,
                  proposed |-> NoAction, calls |-> 0,
                  call |-> [s \in ToolSlot |-> Quiet]])
    /\ UNCHANGED <<policy, effect, native, resolved, toolRow, performed, toolFaults>>

\* A task resolved for exactly this action decides; otherwise the policy does.
DecisionFor(r, a) ==
    IF \E d \in {"allow", "deny"} : <<a, d>> \in run[r].decided
    THEN CHOOSE d \in {"allow", "deny"} : <<a, d>> \in run[r].decided
    ELSE policy[a]

\* The built-in agent's model asks for a call.  A denied one throws; one that needs approval is
\* remembered as the proposed action, of which a step may have one, and the step goes on.
Decide(r, s, a) ==
    /\ native /\ Working(r) /\ Call(r, s) = Quiet /\ run[r].calls < MaxToolCalls
    /\ LET count == [run[r] EXCEPT !.calls = @ + 1]
           d     == DecisionFor(r, a)
       IN SetRun(r, [count EXCEPT
            !.call[s]  = IF d = "allow" THEN [pc |-> "start", action |-> a] ELSE Quiet,
            !.proposed = IF d = "approval-required" /\ @ = NoAction THEN a ELSE @])
    /\ UNCHANGED <<policy, effect, native, turn, resolved, toolRow, performed, toolFaults>>

\* A custom engine invokes a tool: the need for approval is an exception that ends the run.
Invoke(r, s, a) ==
    /\ ~native /\ Working(r) /\ Call(r, s) = Quiet /\ run[r].calls < MaxToolCalls
    /\ LET count == [run[r] EXCEPT !.calls = @ + 1] IN
       SetRun(r, CASE DecisionFor(r, a) = "allow" ->
                        [count EXCEPT !.call[s] = [pc |-> "start", action |-> a]]
                   [] DecisionFor(r, a) = "approval-required" ->
                        [count EXCEPT !.proposed = a, !.pc = "left"]
                   [] OTHER -> count)
    /\ UNCHANGED <<policy, effect, native, turn, resolved, toolRow, performed, toolFaults>>

\* As a slip would have it: only the rows of the same attempt count.
ExistingOfAttempt(r, a) ==
    IF toolRow[a] # NoCall /\ toolRow[a].attempt = run[r].attempt THEN toolRow[a] ELSE NoCall

\* The row a call finds: external effects by their key, whoever made it; others are the
\* call's own.
Existing(r, a) == IF effect[a] = "external" THEN toolRow[a] ELSE NoCall

\* createToolCall, fenced: the answer to a key in use is its result, its error, or that the call
\* is pending reconciliation; nothing runs again.  When the call's trace part cannot be started
\* the tool does not run, and its row stays pending.
StartCall(r, s) == LET a == Call(r, s).action IN
    /\ InStep(r, s, "start")
    /\ IF Fenced(r) /\ Existing(r, a) = NoCall
       THEN /\ \/ SetCall(r, s, [Call(r, s) EXCEPT !.pc = "execute"]) /\ UNCHANGED toolFaults
               \/ SetCall(r, s, Quiet) /\ ToolFault
            /\ toolRow' = IF effect[a] = "external"
                          THEN [toolRow EXCEPT ![a] = [status |-> "pending",
                                                       attempt |-> run[r].attempt]]
                          ELSE toolRow
       ELSE SetCall(r, s, Quiet) /\ UNCHANGED <<toolRow, toolFaults>>
    /\ UNCHANGED <<policy, effect, native, turn, resolved, performed>>

\* The tool does its work, or throws before or after it took effect.
Perform(r, s) ==
    /\ InStep(r, s, "execute")
    /\ \E ok, happened \in BOOLEAN :
        /\ ok => happened
        /\ IF ok THEN UNCHANGED toolFaults ELSE ToolFault
        /\ performed' = [performed EXCEPT ![Call(r, s).action] = IF happened THEN @ + 1 ELSE @]
        /\ SetCall(r, s, [Call(r, s) EXCEPT !.pc = IF ok THEN "succeed" ELSE "fail"])
    /\ UNCHANGED <<policy, effect, native, turn, resolved, toolRow>>

\* A pending row is settled by the attempt that made it under its live lease.  A success that
\* cannot be recorded is reported as a failure next, and a failure that cannot is dropped.
SettleCall(r, s) ==
    LET a == Call(r, s).action
        settles == Fenced(r) /\ toolRow[a] # NoCall /\ toolRow[a].status = "pending"
                             /\ toolRow[a].attempt = run[r].attempt
        ok == Call(r, s).pc = "succeed"
    IN
    /\ InStep(r, s, "succeed") \/ InStep(r, s, "fail")
    /\ IF effect[a] # "external" THEN
            SetCall(r, s, Quiet) /\ UNCHANGED <<toolRow, toolFaults>>
       ELSE \/ /\ settles
               /\ toolRow' = [toolRow EXCEPT ![a].status = IF ok THEN "succeeded" ELSE "failed"]
               /\ SetCall(r, s, Quiet) /\ UNCHANGED toolFaults
            \/ /\ IF settles THEN ToolFault ELSE UNCHANGED toolFaults
               /\ SetCall(r, s, IF ok THEN [Call(r, s) EXCEPT !.pc = "fail"] ELSE Quiet)
               /\ UNCHANGED toolRow
    /\ UNCHANGED <<policy, effect, native, turn, resolved, performed>>

----------------------------------------------------------------------------
(* How a run ends *)

\* Steering is consumed between the steps of the built-in agent.
TakeSteering(r) ==
    /\ native /\ Working(r) /\ AllQuiet(r) /\ run[r].proposed = NoAction
    /\ Fenced(r) /\ turn.steered
    /\ turn' = [turn EXCEPT !.steered = FALSE]
    /\ UNCHANGED <<policy, effect, native, resolved, toolRow, run, performed, toolFaults>>

\* The proposed action becomes the permission task of a waiting generation: the built-in agent
\* returns it when the step is over, and queued steering starts the run over instead.
PauseForApproval(r) ==
    /\ Working(r) /\ AllQuiet(r) /\ run[r].proposed # NoAction /\ Fenced(r)
    /\ IF turn.steered
       THEN /\ SetRun(r, [run[r] EXCEPT !.proposed = NoAction, !.decided = resolved])
            /\ UNCHANGED turn
       ELSE /\ turn' = [turn EXCEPT !.status = "waiting", !.holder = NoAction,
                                    !.proposed = run[r].proposed]
            /\ SetRun(r, Ended)
    /\ UNCHANGED <<policy, effect, native, resolved, toolRow, performed, toolFaults>>

\* A custom engine leaves by the approval error while its other calls go on; the pause in the
\* catch block throws out of the run when steering is queued, and nothing settles the attempt.
LeaveForApproval(r) ==
    /\ run[r].pc = "left" /\ run[r].proposed # NoAction /\ Fenced(r)
    /\ turn' = IF turn.steered THEN [turn EXCEPT !.holder = NoAction]
               ELSE [turn EXCEPT !.status = "waiting", !.holder = NoAction,
                                 !.proposed = run[r].proposed]
    /\ SetRun(r, [run[r] EXCEPT !.proposed = NoAction])
    /\ UNCHANGED <<policy, effect, native, resolved, toolRow, performed, toolFaults>>

\* The rest of a run that has left: its calls come back and find the fence closed.
Unwind(r) ==
    /\ run[r].pc = "left" /\ AllQuiet(r) /\ (run[r].proposed = NoAction \/ ~Fenced(r))
    /\ SetRun(r, Ended)
    /\ UNCHANGED <<policy, effect, native, turn, resolved, toolRow, performed, toolFaults>>

\* The result is committed, the attempt fails, or queued steering starts the run over.
FinishRun(r) ==
    /\ Working(r) /\ AllQuiet(r) /\ run[r].proposed = NoAction
    /\ IF ~Fenced(r) THEN SetRun(r, Ended) /\ UNCHANGED turn
       ELSE \/ /\ ~turn.steered
               /\ turn' = [turn EXCEPT !.status = "succeeded", !.holder = NoAction]
               /\ SetRun(r, Ended)
            \/ /\ turn.steered /\ ~native
               /\ turn' = [turn EXCEPT !.status = "failed", !.holder = NoAction]
               /\ SetRun(r, Ended)
            \/ /\ turn' = [turn EXCEPT !.status = "failed", !.holder = NoAction]
               /\ SetRun(r, Ended)
    /\ UNCHANGED <<policy, effect, native, resolved, toolRow, performed, toolFaults>>

\* The lease ends under a run that has not noticed, or the process dies.
LoseLease(r) ==
    /\ run[r].pc \in {"step", "left"} /\ Fenced(r) /\ ToolFault
    /\ turn' = [turn EXCEPT !.holder = NoAction]
    /\ \/ UNCHANGED run
       \/ SetRun(r, Ended)
    /\ UNCHANGED <<policy, effect, native, resolved, toolRow, performed>>

----------------------------------------------------------------------------
(* The host *)

NextAttempt == [turn EXCEPT !.status = "queued", !.attempt = @ + 1, !.holder = NoAction,
                            !.proposed = NoAction]

\* resolve() answers the task and appends an attempt.
ResolvePermission == \E d \in {"allow", "deny"} :
    /\ turn.status = "waiting" /\ turn.attempt < MaxToolAttempts
    /\ resolved' = resolved \cup {<<turn.proposed, d>>}
    /\ turn' = NextAttempt
    /\ UNCHANGED <<policy, effect, native, toolRow, run, performed, toolFaults>>

\* retry() of a failed generation, resume() of one whose run lost its lease.
RetryTurn ==
    /\ turn.status = "failed" \/ (turn.status = "running" /\ turn.holder = NoAction)
    /\ turn.attempt < MaxToolAttempts
    /\ turn' = NextAttempt
    /\ UNCHANGED <<policy, effect, native, resolved, toolRow, run, performed, toolFaults>>

SteerTurn ==
    /\ turn.status \in {"queued", "running", "waiting"} /\ ~turn.steered
    /\ turn' = [turn EXCEPT !.steered = TRUE]
    /\ UNCHANGED <<policy, effect, native, resolved, toolRow, run, performed, toolFaults>>

----------------------------------------------------------------------------
ToolsBlank ==
    /\ turn = [status |-> "queued", attempt |-> 1, holder |-> NoAction, steered |-> FALSE,
               proposed |-> NoAction]
    /\ resolved = {} /\ toolFaults = 0
    /\ toolRow = [a \in ToolAction |-> NoCall]
    /\ run = [r \in ToolRun |-> Waiting]
    /\ performed = [a \in ToolAction |-> 0]

ToolsIdle ==
    /\ policy = [a \in ToolAction |-> "deny"]
    /\ effect = [a \in ToolAction |-> "read"] /\ native = TRUE
    /\ ToolsBlank

ToolsInit ==
    /\ policy \in [ToolAction -> Decision]
    /\ effect \in [ToolAction -> {"read", "external"}]
    /\ native \in BOOLEAN
    /\ ToolsBlank

ToolsNext ==
    \/ ResolvePermission \/ RetryTurn \/ SteerTurn
    \/ \E r \in ToolRun :
        \/ TakeTurn(r) \/ TakeSteering(r) \/ PauseForApproval(r) \/ LeaveForApproval(r)
        \/ Unwind(r) \/ FinishRun(r) \/ LoseLease(r)
        \/ \E s \in ToolSlot :
            \/ StartCall(r, s) \/ Perform(r, s) \/ SettleCall(r, s)
            \/ \E a \in ToolAction : Decide(r, s, a) \/ Invoke(r, s, a)

ToolsSpec == ToolsInit /\ [][ToolsNext]_toolVars

----------------------------------------------------------------------------
(* Properties *)

\* An external effect takes place at most once for its key, over all calls side by side, stale
\* runs, attempts and approvals; and a call recorded as succeeded took place.
ExternalEffectsHappenOnce == \A a \in ToolAction :
    effect[a] = "external" =>
        /\ performed[a] <= 1
        /\ toolRow[a] # NoCall /\ toolRow[a].status = "succeeded" => performed[a] = 1

\* What the policy reserves for the user happens only after the user allowed exactly that
\* action, and what it denies never does.
OnlyApprovedActionsRun == \A a \in ToolAction :
    performed[a] > 0 => policy[a] = "allow" \/ (policy[a] = "approval-required"
                                                /\ <<a, "allow">> \in resolved)

\* What tools do outside is done once and only when allowed (runToolSourceCall, recordToolCall).
EffectsAreGoverned == ExternalEffectsHappenOnce /\ OnlyApprovedActionsRun

\* "Approval-required effects pause as ordinary Viby permission tasks": an engine that asked for
\* approval and kept its lease leaves the generation waiting for it, or starts over.
ApprovalsArePut ==
    [][\A r \in ToolRun : LeaveForApproval(r) => turn'.status = "waiting"]_toolVars
=============================================================================
