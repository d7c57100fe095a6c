------------------------ MODULE GenerationLifecycle ------------------------
(***************************************************************************)
(* The durable core of Viby: generations, their attempts, leases, typed    *)
(* tasks, steering and follow-ups of ONE chat, as the transactions of      *)
(* src/postgres-repository.ts change them, together with the runs of the   *)
(* worker lanes that call these transactions (src/client.ts).              *)
(*                                                                         *)
(* Every transaction that locks the generation row (SELECT ... FOR UPDATE) *)
(* is one action.  consumeGenerationSteering checks the lease without a    *)
(* lock and updates the steering rows in a later statement: it is two.     *)
(* A check the client makes before calling the repository is stale when    *)
(* the transaction runs, so it appears here only if it reads what can      *)
(* never change.                                                           *)
(*                                                                         *)
(* A lease token is a fresh UUID per claim.  A lane runs one claim at a    *)
(* time, so the lane that made the last claim stands for its token, and a  *)
(* lane that dropped a run no longer knows the token.  Time is reduced to  *)
(* whether a lease has expired; a heartbeat keeps a live lease live.       *)
(***************************************************************************)
EXTENDS Integers, Sequences

CONSTANTS
    Generation,      \* generation ids of the chat
    Lane,            \* worker lanes and embedded runs, each with one claim at a time
    Steer,           \* steering idempotency keys
    NoGeneration,    \* no predecessor, or a version made without a generation
    NoLane,          \* worker_id of an attempt never claimed
    RepairAttempts,  \* quality.repairAttempts
    MaxAttempts,     \* bound: attempts of one generation
    MaxVersions,     \* bound: versions of the chat
    MaxFaults        \* bound: crashes and missed heartbeats

ASSUME SentinelAssumption == NoGeneration \notin Generation /\ NoLane \notin Lane
ASSUME BoundAssumption ==
    /\ RepairAttempts \in Nat /\ MaxVersions \in Nat /\ MaxFaults \in Nat
    /\ MaxAttempts \in Nat \ {0}

VARIABLES
    chat,        \* "active" or "deleted": chats.deleted_at
    versions,    \* the chat's versions in order of number: [generation, parent]
    after,       \* generations.after_generation_id
    operation,   \* generations.configuration.operation
    status,      \* generations.status, "absent" before the row exists
    base,        \* generations.base_version_id as a version number, 0 for NULL
    active,      \* number of the attempt generations.active_attempt_id names
    count,       \* generations.attempt_count
    attempts,    \* generation_attempts rows by generation and number
    tasks,       \* generation_tasks.status by the attempt that paused
    steering,    \* generation_steering rows: [status, by] (by: applied_attempt_id)
    run,         \* what each lane is executing
    faults       \* crashes and missed heartbeats so far (bookkeeping for the bound)

chatVars == <<chat, versions>>
genVars  == <<after, operation, status, base, active, count, attempts>>
vars == <<chatVars, genVars, tasks, steering, run, faults>>

Open     == {"queued", "running", "waiting"}
Terminal == {"succeeded", "failed", "cancelled"}
GenerationStatus == Open \cup Terminal \cup {"absent"}
AttemptStatus    == GenerationStatus \cup {"interrupted"}
AttemptReason    == {"initial", "retry", "resume", "task_resolution"}
AttemptNumber    == 1..MaxAttempts

AttemptRow  == [status: AttemptStatus, reason: AttemptReason,
                owner: Lane \cup {NoLane}, lease: {"none", "live", "expired"}]
SteeringRow == [status: {"none", "queued", "applied"}, by: 0..MaxAttempts]
VersionRow  == [generation: Generation \cup {NoGeneration}, parent: Nat]

\* generation and attempt of the lease a lane executes, whether it stands between
\* the lease check and the update of a steering transaction, and the steering
\* messages its engine has been given.
Run  == [generation: Generation \cup {NoGeneration}, attempt: 0..MaxAttempts,
         consuming: BOOLEAN, seen: SUBSET Steer]
Running(g, n, c, seen) == [generation |-> g, attempt |-> n, consuming |-> c, seen |-> seen]
Idle == Running(NoGeneration, 0, FALSE, {})

\* mutant: two columns of the INSERT swapped
QueuedAttemptSwapped(reason) ==
    [status |-> reason, reason |-> "queued", owner |-> NoLane, lease |-> "none"]

QueuedAttempt(reason) ==
    [status |-> "queued", reason |-> reason, owner |-> NoLane, lease |-> "none"]
NoAttempt == [status |-> "absent", reason |-> "initial", owner |-> NoLane, lease |-> "none"]
WithStatus(a, s) == [status |-> s, reason |-> a.reason, owner |-> a.owner, lease |-> a.lease]

----------------------------------------------------------------------------
(* What the SQL conditions read *)

Current(g)     == attempts[g][active[g]]
VersionsOf(g)  == {v \in 1..Len(versions) : versions[v].generation = g}
QueuedSteer(g)  == {s \in Steer : steering[g][s].status = "queued"}
AppliedSteer(g) == {s \in Steer : steering[g][s].status = "applied"}

\* mutant: any ending of the predecessor will do
PredecessorEnded(g) == after[g] # NoGeneration => status[after[g]] \in Terminal

\* The predecessor, if any, succeeded and has a version.
PredecessorReady(g) ==
    after[g] # NoGeneration =>
        status[after[g]] = "succeeded" /\ VersionsOf(after[g]) # {}

\* mutant: the base of the request
RequestedBase(g) == base[g]

\* COALESCE((SELECT id of the predecessor's version), base_version_id)
ResolvedBase(g) ==
    IF after[g] # NoGeneration /\ VersionsOf(after[g]) # {}
      THEN CHOOSE v \in VersionsOf(after[g]) : TRUE
      ELSE base[g]

\* mutant: the token is not compared
HoldsAnyLease(w) ==
    LET g == run[w].generation IN
    /\ g # NoGeneration
    /\ status[g] = "running" /\ active[g] = run[w].attempt
    /\ Current(g).status = "running" /\ Current(g).lease = "live"

\* status = 'running' AND active_attempt_id = attempt AND attempt.status = 'running'
\* AND lease_token = token AND lease_expires_at > now()
HoldsLease(w) ==
    LET g == run[w].generation IN
    /\ g # NoGeneration
    /\ status[g] = "running"
    /\ active[g] = run[w].attempt
    /\ Current(g).status = "running"
    /\ Current(g).owner = w
    /\ Current(g).lease = "live"

\* mutant: deleted_at is not read
CanAlwaysInsert == TRUE

\* insertMessage locks the chat row and requires deleted_at IS NULL.
CanInsertMessage == chat = "active"

EndRun(w) == run' = [run EXCEPT ![w] = Idle]

\* The active attempt and the generation take a new status together.
Settle(g, s) ==
    /\ status' = [status EXCEPT ![g] = s]
    /\ attempts' = [attempts EXCEPT ![g][active[g]] = WithStatus(@, s)]

\* A new queued attempt becomes the active one; the old one is left in status s.
AppendAttempt(g, s, reason) ==
    /\ count[g] < MaxAttempts
    /\ status' = [status EXCEPT ![g] = "queued"]
    /\ active' = [active EXCEPT ![g] = count[g] + 1]
    /\ count' = [count EXCEPT ![g] = count[g] + 1]
    /\ attempts' = [attempts EXCEPT ![g][active[g]] = WithStatus(@, s),
                                    ![g][count[g] + 1] = QueuedAttempt(reason)]

InsertVersion(g, parent) ==
    /\ Len(versions) < MaxVersions
    /\ versions' = Append(versions, [generation |-> g, parent |-> parent])

----------------------------------------------------------------------------
(* The host application's calls *)

\* createGeneration.  enqueue() names a predecessor that is not an inspection and
\* no base; an inspection has a base and no predecessor.
CreateGeneration(g, op, b, p) ==
    /\ status[g] = "absent"
    /\ CanInsertMessage
    /\ b \in 0..Len(versions)
    /\ p # NoGeneration =>
         status[p] # "absent" /\ operation[p] = "change" /\ op = "change" /\ b = 0
    /\ op = "inspect" => b # 0
    /\ after' = [after EXCEPT ![g] = p]
    /\ operation' = [operation EXCEPT ![g] = op]
    /\ status' = [status EXCEPT ![g] = "queued"]
    /\ base' = [base EXCEPT ![g] = b]
    /\ active' = [active EXCEPT ![g] = 1]
    /\ count' = [count EXCEPT ![g] = 1]
    /\ attempts' = [attempts EXCEPT ![g][1] = QueuedAttempt("initial")]
    /\ UNCHANGED <<chatVars, tasks, steering, run, faults>>

\* createSourceVersion and restoreVersion: a version of the user's own, from any
\* version of the chat.  Neither looks at deleted_at.
CreateSourceVersion(parent) ==
    /\ parent \in 1..Len(versions)
    /\ InsertVersion(NoGeneration, parent)
    /\ UNCHANGED <<chat, genVars, tasks, steering, run, faults>>

CreateSteering(g, s) ==
    /\ status[g] \in Open
    /\ steering[g][s].status = "none"
    /\ CanInsertMessage
    /\ steering' = [steering EXCEPT ![g][s] = [status |-> "queued", by |-> 0]]
    /\ UNCHANGED <<chatVars, genVars, tasks, run, faults>>

\* mutant: the attempt is left as it is
CancelGenerationOnly(g) ==
    /\ status[g] \in Open
    /\ status' = [status EXCEPT ![g] = "cancelled"]
    /\ UNCHANGED <<chatVars, after, operation, base, active, count, attempts, tasks, steering,
                   run, faults>>

\* Only an attempt that has not ended is cancelled with its generation.
CancelGeneration(g) ==
    /\ status[g] \in Open
    /\ status' = [status EXCEPT ![g] = "cancelled"]
    /\ attempts' = IF Current(g).status \in Open
                     THEN [attempts EXCEPT ![g][active[g]] = WithStatus(@, "cancelled")]
                     ELSE attempts
    /\ UNCHANGED <<chatVars, after, operation, base, active, count, tasks, steering, run, faults>>

\* mutant: a retry interrupts the attempt it replaces
RetryInterrupting(g) ==
    /\ status[g] \in {"failed", "cancelled"}
    /\ AppendAttempt(g, "interrupted", "retry")
    /\ UNCHANGED <<chatVars, after, operation, base, tasks, steering, run, faults>>

\* createGenerationAttempt with reason "retry"
Retry(g) ==
    /\ status[g] \in {"failed", "cancelled"}
    /\ AppendAttempt(g, Current(g).status, "retry")
    /\ UNCHANGED <<chatVars, after, operation, base, tasks, steering, run, faults>>

\* mutant: waiting work is resumed too
ResumeWaiting(g) ==
    /\ status[g] \in Open
    /\ Current(g).lease # "live" \/ status[g] = "waiting"
    /\ AppendAttempt(g, "interrupted", "resume")
    /\ UNCHANGED <<chatVars, after, operation, base, tasks, steering, run, faults>>

\* createGenerationAttempt with reason "resume": work that is queued or running is
\* interrupted first, which a live lease refuses.
Resume(g) ==
    /\ \/ /\ status[g] \in {"failed", "cancelled"}
          /\ AppendAttempt(g, Current(g).status, "resume")
       \/ /\ status[g] \in {"queued", "running"}
          /\ Current(g).status \in {"queued", "running"}
          /\ Current(g).lease # "live"
          /\ AppendAttempt(g, "interrupted", "resume")
    /\ UNCHANGED <<chatVars, after, operation, base, tasks, steering, run, faults>>

\* Any pending task of a waiting generation, of whichever attempt.
ResolveTask(g, n) ==
    /\ status[g] = "waiting"
    /\ tasks[g][n] = "pending"
    /\ CanInsertMessage
    /\ tasks' = [tasks EXCEPT ![g][n] = "resolved"]
    /\ AppendAttempt(g, Current(g).status, "task_resolution")
    /\ UNCHANGED <<chatVars, after, operation, base, steering, run, faults>>

\* mutant: waiting work does not count as open
DeleteChatWhileWaiting ==
    /\ chat = "active"
    /\ \A g \in Generation : status[g] \notin {"queued", "running"}
    /\ chat' = "deleted"
    /\ UNCHANGED <<versions, genVars, tasks, steering, run, faults>>

DeleteChat ==
    /\ chat = "active"
    /\ \A g \in Generation : status[g] \notin Open
    /\ chat' = "deleted"
    /\ UNCHANGED <<versions, genVars, tasks, steering, run, faults>>

RestoreChat ==
    /\ chat = "deleted"
    /\ chat' = "active"
    /\ UNCHANGED <<versions, genVars, tasks, steering, run, faults>>

----------------------------------------------------------------------------
(* A lane's run of one lease *)

\* mutants: a live lease is taken over, or orphaned running work is not
ClaimAs(w, g, open, leases) ==
    /\ run[w] = Idle
    /\ status[g] \in open /\ Current(g).status \in open
    /\ Current(g).lease \in leases
    /\ PredecessorReady(g)
    /\ status' = [status EXCEPT ![g] = "running"]
    /\ base' = [base EXCEPT ![g] = ResolvedBase(g)]
    /\ attempts' = [attempts EXCEPT ![g][active[g]] =
                      [status |-> "running", reason |-> @.reason, owner |-> w, lease |-> "live"]]
    /\ run' = [run EXCEPT ![w] = Running(g, active[g], FALSE, AppliedSteer(g))]
    /\ UNCHANGED <<chatVars, after, operation, active, count, tasks, steering, faults>>
ClaimLive(w, g)   == ClaimAs(w, g, {"queued", "running"}, {"none", "live", "expired"})
ClaimQueued(w, g) == ClaimAs(w, g, {"queued"}, {"none", "expired"})

\* claimGenerationAttempt, then the start of #execute, which gives the engine the
\* messages of the steering applied so far.
Claim(w, g) ==
    /\ run[w] = Idle
    /\ status[g] \in {"queued", "running"}
    /\ Current(g).status \in {"queued", "running"}
    /\ Current(g).lease # "live"
    /\ PredecessorReady(g)
    /\ status' = [status EXCEPT ![g] = "running"]
    /\ base' = [base EXCEPT ![g] = ResolvedBase(g)]
    /\ attempts' = [attempts EXCEPT ![g][active[g]] =
                      [status |-> "running", reason |-> @.reason, owner |-> w, lease |-> "live"]]
    /\ run' = [run EXCEPT ![w] = Running(g, active[g], FALSE, AppliedSteer(g))]
    /\ UNCHANGED <<chatVars, after, operation, active, count, tasks, steering, faults>>

\* consumeGenerationSteering, first statement: assertActiveToolAttempt locks nothing.
CheckSteeringLease(w) ==
    /\ HoldsLease(w)
    /\ ~run[w].consuming
    /\ QueuedSteer(run[w].generation) # {}
    /\ run' = [run EXCEPT ![w] = Running(@.generation, @.attempt, TRUE, @.seen)]
    /\ UNCHANGED <<chatVars, genVars, tasks, steering, faults>>

\* consumeGenerationSteering, the other statements: whatever is queued by now is
\* applied by this attempt and handed to the engine.
ApplySteering(w) ==
    LET g == run[w].generation IN
    /\ run[w].consuming
    /\ steering' = [steering EXCEPT ![g] = [s \in Steer |->
                      IF s \in QueuedSteer(g)
                        THEN [status |-> "applied", by |-> run[w].attempt]
                        ELSE steering[g][s]]]
    /\ run' = [run EXCEPT ![w] = Running(g, @.attempt, FALSE, @.seen \cup QueuedSteer(g))]
    /\ UNCHANGED <<chatVars, genVars, tasks, faults>>

\* mutant: queued steering is not looked for
CanSettleUnsteered(w) == HoldsLease(w) /\ ~run[w].consuming /\ CanInsertMessage

\* mutant: the lease is not looked at
CanSettleUnfenced(w) ==
    /\ run[w].generation # NoGeneration
    /\ ~run[w].consuming
    /\ QueuedSteer(run[w].generation) = {}
    /\ CanInsertMessage

\* The common fence of completeGeneration, completeGenerationResponse and
\* pauseGeneration, which also insert an assistant message.
CanSettle(w) ==
    /\ HoldsLease(w)
    /\ ~run[w].consuming
    /\ QueuedSteer(run[w].generation) = {}
    /\ CanInsertMessage

\* GenerationSteeringPendingError: #execute starts over under the same lease and
\* reads the applied steering again.
RestartForSteering(w) ==
    LET g == run[w].generation IN
    /\ HoldsLease(w)
    /\ ~run[w].consuming
    /\ QueuedSteer(g) # {}
    /\ run' = [run EXCEPT ![w] = Running(g, @.attempt, FALSE, AppliedSteer(g))]
    /\ UNCHANGED <<chatVars, genVars, tasks, steering, faults>>

\* completeGeneration: the version's parent is the base the run read.
Complete(w) ==
    LET g == run[w].generation IN
    /\ CanSettle(w)
    /\ operation[g] = "change"
    /\ InsertVersion(g, base[g])
    /\ Settle(g, "succeeded")
    /\ EndRun(w)
    /\ UNCHANGED <<chat, after, operation, base, active, count, tasks, steering, faults>>

\* completeGenerationResponse
CompleteResponse(w) ==
    LET g == run[w].generation IN
    /\ CanSettle(w)
    /\ operation[g] = "inspect"
    /\ Settle(g, "succeeded")
    /\ EndRun(w)
    /\ UNCHANGED <<chatVars, after, operation, base, active, count, tasks, steering, faults>>

\* pauseGeneration: the attempt waits for a typed task.
Pause(w) ==
    LET g == run[w].generation IN
    /\ CanSettle(w)
    /\ tasks' = [tasks EXCEPT ![g][active[g]] = "pending"]
    /\ Settle(g, "waiting")
    /\ EndRun(w)
    /\ UNCHANGED <<chatVars, after, operation, base, active, count, steering, faults>>

\* failGenerationAttempt
Fail(w) ==
    /\ HoldsLease(w)
    /\ ~run[w].consuming
    /\ Settle(run[w].generation, "failed")
    /\ EndRun(w)
    /\ UNCHANGED <<chatVars, after, operation, base, active, count, tasks, steering, faults>>

\* repairGenerationAttempt after a failed quality gate
Repair(w) ==
    /\ HoldsLease(w)
    /\ ~run[w].consuming
    /\ run[w].attempt <= RepairAttempts
    /\ AppendAttempt(run[w].generation, "failed", "retry")
    /\ EndRun(w)
    /\ UNCHANGED <<chatVars, after, operation, base, tasks, steering, faults>>

\* A run whose lease is gone learns it from a heartbeat or a refused transaction and
\* ends without writing.
Abandon(w) ==
    /\ run[w] # Idle
    /\ ~HoldsLease(w)
    /\ EndRun(w)
    /\ UNCHANGED <<chatVars, genVars, tasks, steering, faults>>

\* The process stops, or its heartbeat cannot reach the database, under a live lease.
Crash(w) ==
    /\ HoldsLease(w)
    /\ faults < MaxFaults
    /\ faults' = faults + 1
    /\ EndRun(w)
    /\ UNCHANGED <<chatVars, genVars, tasks, steering>>

----------------------------------------------------------------------------
(* Time *)

ExpireLease(g) ==
    /\ status[g] = "running"
    /\ Current(g).status = "running"
    /\ Current(g).lease = "live"
    /\ attempts' = [attempts EXCEPT ![g][active[g]] =
                      [status |-> "running", reason |-> @.reason, owner |-> @.owner,
                       lease |-> "expired"]]
    /\ UNCHANGED <<chatVars, after, operation, status, base, active, count, tasks, steering, run>>

\* Nobody renews the lease any more ...
LeaseRunsOut(g) ==
    /\ \A w \in Lane : ~(HoldsLease(w) /\ run[w].generation = g)
    /\ ExpireLease(g)
    /\ UNCHANGED faults

\* ... or its lane is alive but too late.
HeartbeatTooLate(g) ==
    /\ \E w \in Lane : HoldsLease(w) /\ run[w].generation = g
    /\ faults < MaxFaults
    /\ ExpireLease(g)
    /\ faults' = faults + 1

----------------------------------------------------------------------------
Init ==
    /\ chat = "active"
    \* a new chat has no version, an imported or forked one has one
    /\ versions \in {<<>>, <<[generation |-> NoGeneration, parent |-> 0]>>}
    /\ after = [g \in Generation |-> NoGeneration]
    /\ operation = [g \in Generation |-> "change"]
    /\ status = [g \in Generation |-> "absent"]
    /\ base = [g \in Generation |-> 0]
    /\ active = [g \in Generation |-> 1]
    /\ count = [g \in Generation |-> 0]
    /\ attempts = [g \in Generation |-> [n \in AttemptNumber |-> NoAttempt]]
    /\ tasks = [g \in Generation |-> [n \in AttemptNumber |-> "none"]]
    /\ steering = [g \in Generation |-> [s \in Steer |-> [status |-> "none", by |-> 0]]]
    /\ run = [w \in Lane |-> Idle]
    /\ faults = 0

LaneSettles(w) ==
    Complete(w) \/ CompleteResponse(w) \/ Pause(w) \/ Fail(w) \/ Repair(w)

LaneStep(w) ==
    \/ \E g \in Generation : Claim(w, g)
    \/ CheckSteeringLease(w) \/ ApplySteering(w) \/ RestartForSteering(w)
    \/ LaneSettles(w) \/ Abandon(w) \/ Crash(w)

HostStep ==
    \/ \E g \in Generation, op \in {"change", "inspect"}, b \in 0..Len(versions),
          p \in Generation \cup {NoGeneration} : CreateGeneration(g, op, b, p)
    \/ \E parent \in 1..Len(versions) : CreateSourceVersion(parent)
    \/ \E g \in Generation, s \in Steer : CreateSteering(g, s)
    \/ \E g \in Generation : CancelGeneration(g) \/ Retry(g) \/ Resume(g)
    \/ \E g \in Generation, n \in AttemptNumber : ResolveTask(g, n)
    \/ DeleteChat \/ RestoreChat

Time == \E g \in Generation : LeaseRunsOut(g) \/ HeartbeatTooLate(g)

Next == HostStep \/ (\E w \in Lane : LaneStep(w)) \/ Time

Spec == Init /\ [][Next]_vars

(* Fairness.  Lanes poll, and candidates are claimed in creation order, so work *)
(* that stays claimable whenever a lane is free is claimed (SF).  An engine     *)
(* ends, and #execute turns every ending into one transaction.  Transactions    *)
(* already begun end.  Leases run out.                                          *)
Fairness ==
    /\ \A g \in Generation : SF_vars(\E w \in Lane : Claim(w, g)) /\ WF_vars(LeaseRunsOut(g))
    /\ \A w \in Lane : WF_vars(LaneSettles(w)) /\ WF_vars(ApplySteering(w)) /\ WF_vars(Abandon(w))

FairSpec == Spec /\ Fairness

----------------------------------------------------------------------------
(* Properties *)

TypeOK ==
    /\ chat \in {"active", "deleted"}
    /\ versions \in Seq(VersionRow)
    /\ after \in [Generation -> Generation \cup {NoGeneration}]
    /\ operation \in [Generation -> {"change", "inspect"}]
    /\ status \in [Generation -> GenerationStatus]
    /\ base \in [Generation -> Nat]
    /\ active \in [Generation -> AttemptNumber]
    /\ count \in [Generation -> 0..MaxAttempts]
    /\ attempts \in [Generation -> [AttemptNumber -> AttemptRow]]
    /\ tasks \in [Generation -> [AttemptNumber -> {"none", "pending", "resolved"}]]
    /\ steering \in [Generation -> [Steer -> SteeringRow]]
    /\ run \in [Lane -> Run]
    /\ faults \in 0..MaxFaults

\* A generation and its attempts tell one story: the active attempt is the newest and
\* has the generation's status; every older one has ended, in the way the reason of
\* the attempt after it says ("An attempt is physical", docs/concepts.md).
Succession ==
    [initial |-> {}, retry |-> {"failed", "cancelled"},
     resume |-> {"failed", "cancelled", "interrupted"}, task_resolution |-> {"waiting"}]

AttemptsTellTheHistory ==
    \A g \in Generation :
        /\ status[g] # "absent" => active[g] = count[g] /\ Current(g).status = status[g]
        /\ \A n \in AttemptNumber :
             /\ n > count[g] => attempts[g][n] = NoAttempt
             /\ n < count[g] =>
                  attempts[g][n].status \in Succession[attempts[g][n + 1].reason]

\* A generation never succeeds over an instruction nobody consumed, although the user
\* may steer, cancel and retry while lanes run, crash and are replaced.
NoSteeringLeftBehind ==
    \A g \in Generation : status[g] = "succeeded" => QueuedSteer(g) = {}

\* One immutable version per succeeded change, none for an inspection or for work that
\* has not succeeded: an attempt that several workers run, because one of them crashed or
\* lost its lease, still commits once.
ResultCommittedOnce ==
    \A g \in Generation :
        IF status[g] = "succeeded" /\ operation[g] = "change"
          THEN \E v \in 1..Len(versions) : VersionsOf(g) = {v}
          ELSE VersionsOf(g) = {}

\* A follow-up runs only on top of its predecessor's committed result, and its version
\* is the child of exactly that version whatever else was added to the chat meanwhile.
FollowUpsEditTheIntendedResult ==
    \A g \in Generation :
        /\ after[g] # NoGeneration /\ (status[g] = "running" \/ VersionsOf(g) # {}) =>
             status[after[g]] = "succeeded" /\ VersionsOf(after[g]) = {base[g]}
        /\ \A v \in VersionsOf(g) : versions[v].parent = base[g]

\* A waiting generation has the task it waits for, and a task outlives only an attempt
\* that waits or was cancelled while it waited.
TasksMatchAttempts ==
    \A g \in Generation :
        /\ status[g] = "waiting" => tasks[g][active[g]] = "pending"
        /\ \A n \in AttemptNumber :
             /\ tasks[g][n] = "pending" => attempts[g][n].status \in {"waiting", "cancelled"}
             /\ tasks[g][n] # "none" => n <= count[g]

\* Deletion never strands a person: no generation of a deleted chat waits for an answer
\* that the chat would refuse to store.
NoTaskOpenInDeletedChat ==
    chat = "deleted" => \A g \in Generation : status[g] # "waiting"

LiveLease(g) ==
    status[g] = "running" /\ Current(g).status = "running" /\ Current(g).lease = "live"

\* A stale process cannot commit after another worker takes over (docs/concepts.md): a
\* running attempt is ended with a result, a task or a failure only by the lane that
\* made the last claim, before its lease expired, and that lane's run ends with it.
StaleRunsNeverCommit ==
    [][\A g \in Generation :
         status[g] = "running" /\ Current(g)'.status # "running"
           /\ status'[g] \in {"succeeded", "failed", "waiting"} =>
             LET w == Current(g).owner IN
             /\ LiveLease(g)
             /\ run[w].generation = g /\ run[w].attempt = active[g]
             /\ run'[w] = Idle]_vars

\* A live lease cannot be stolen: until it expires only its own run or a cancellation
\* ends the attempt, and no claim, retry, resume or resolution replaces it.
LeaseNotStolen ==
    [][\A g \in Generation :
         LiveLease(g) =>
             \/ LiveLease(g)' /\ active'[g] = active[g] /\ Current(g)'.owner = Current(g).owner
             \/ active'[g] = active[g] /\ Current(g)'.lease = "expired"
             \/ status'[g] = "cancelled"
             \/ LET w == Current(g).owner IN run[w].generation = g /\ run'[w] = Idle]_vars

\* Retrying, resuming or resolving never overwrites an older attempt, the paused one
\* included; only cancellation changes an attempt that waits.
OlderAttemptsImmutable ==
    [][\A g \in Generation, n \in AttemptNumber :
         \/ n < active[g]
         \/ attempts[g][n].status \in Terminal \cup {"interrupted"}
         \/ attempts[g][n].status = "waiting" /\ status'[g] # "cancelled"
         => attempts'[g][n] = attempts[g][n]]_vars

\* Once a chat is deleted no late worker, retry or steering call adds a message to it:
\* nothing is created, steered, paused, resolved or completed, though a retry that
\* passed the client's check earlier may still queue and fail there.
DeletedChatStaysQuiet ==
    [][chat = "deleted" =>
         \A g \in Generation :
             /\ status'[g] # status[g] => status'[g] \notin {"succeeded", "waiting"}
             /\ status[g] = "absent" => status'[g] = "absent"
             /\ \A s \in Steer : steering[g][s].status = "none" => steering'[g][s].status = "none"
             /\ tasks'[g] = tasks[g]]_vars

\* Work that can run is settled: queued or running work whose predecessor has succeeded
\* reaches a result, a task, a failure or a cancellation, through any bounded number of
\* crashes and missed heartbeats.
EventuallySettles ==
    \A g \in Generation :
        status[g] \in {"queued", "running"} /\ PredecessorReady(g)
          ~> status[g] \in Terminal \cup {"waiting"}

\* Every behaviour of the durable store and its lanes is one the contract allows: no
\* crash, takeover, retry or late call makes a host see a second result, a result that
\* is taken back, or a follow-up that overtakes its predecessor.
Result ==
    [g \in Generation |->
        IF VersionsOf(g) = {} THEN 0 ELSE CHOOSE v \in VersionsOf(g) : TRUE]

Contract == INSTANCE GenerationContract WITH Number <- 1..MaxVersions, result <- Result

KeepsContract == Contract!Spec

\* docs/api/generations.md: in `waiting` "a typed plan, question, or permission task
\* must be resolved".  A task left pending by a cancelled attempt can be resolved
\* instead, and the question asked now stays unanswered.
WaitsForItsTask ==
    [][\A g \in Generation :
         status[g] = "waiting" /\ status'[g] = "queued" => tasks'[g][active[g]] = "resolved"]_vars

\* README.md: steering "is a durable user message, not an in-memory callback ... and the
\* next worker applies it".  A run that has lost its lease between the check and the update
\* takes the message with it, and the run that succeeds has never seen it.
SteeringReachesTheResult ==
    [][\A g \in Generation :
         status[g] = "running" /\ status'[g] = "succeeded" =>
             AppliedSteer(g) \subseteq run[Current(g).owner].seen]_vars

=============================================================================
