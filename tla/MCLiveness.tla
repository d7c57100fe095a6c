----------------------------- MODULE MCLiveness -----------------------------
(* What must happen in the end: generations settle and events reach their   *)
(* endpoint.  Both components have lanes, generations and a bound on faults *)
(* and share no state; `part` says which one moves, and the fairness of the *)
(* other asks for nothing, since nothing of it can move at its start.       *)
(* Generations are interchangeable until they are used: `First` is the one  *)
(* that is used first.                                                      *)
EXTENDS WebhookDelivery, TLC

CONSTANTS
    First,
    Steer, RepairAttempts, MaxAttempts, MaxVersions   \* of GenerationLifecycle

VARIABLES
    part,
    chat, versions, after, operation, status, base, active, count, attempts, tasks,
    steering, run, faults

Lifecycle == INSTANCE GenerationLifecycle

lifecycleVars == <<chat, versions, after, operation, status, base, active, count, attempts, tasks,
                   steering, run, faults>>

liveVars == <<part, vars, lifecycleVars>>

LiveInit ==
    /\ Init /\ Lifecycle!Init
    /\ part \in {"webhook", "lifecycle"}
    /\ part = "webhook" => versions = <<>>

\* bounds of the lifecycle, beside the constants: one generation is steered
SteeredOnce ==
    \E g \in Generation : \A h \in Generation \ {g}, s \in Steer : steering[h][s].status = "none"

LiveNext ==
    /\ UNCHANGED part
    /\ \/ /\ part = "webhook" /\ Next /\ UNCHANGED lifecycleVars
          /\ events' # <<>> => events'[1].generation = First
       \/ /\ part = "lifecycle" /\ Lifecycle!Next /\ UNCHANGED vars
          /\ (\E g \in Generation : status'[g] # "absent") => status'[First] # "absent"
          /\ SteeredOnce'

LiveSpec == LiveInit /\ [][LiveNext]_liveVars /\ Fairness /\ Lifecycle!Fairness

\* Queued or running work that can run reaches a result, a task, a failure or a
\* cancellation (GenerationLifecycle; claim, heartbeats and transactions of the lanes).
EventuallySettles == Lifecycle!EventuallySettles

=============================================================================
