---------------------------- MODULE EmbeddedRuns ----------------------------
(***************************************************************************)
(* Embedded execution (generation.execution = "embedded", the default):    *)
(* a process that creates an attempt also runs it, and only its memory     *)
(* knows that it must.  Each process has a GenerationRunRegistry           *)
(* (src/client.ts), runs scheduled into it, host calls between their await *)
(* points, and timers for repairs.  The database rows are those of         *)
(* GenerationLifecycle, reduced to what scheduling depends on: versions,   *)
(* steering rows, typed tasks and the chat are left out.                   *)
(*                                                                         *)
(* schedule() is synchronous.  Everything around it is not: a host call    *)
(* checks the registry, takes the generation's row lock, commits, and only *)
(* then schedules; a claim that meets a locked row skips it.               *)
(***************************************************************************)
EXTENDS Integers

CONSTANTS
    Process,         \* processes with a Viby client of their own
    Call,            \* host calls that may be in flight at once
    MaxGenerations,  \* bound: generations of the chat
    MaxAttempts,     \* bound: attempts of one generation
    RepairAttempts,  \* quality.repairAttempts
    MaxEmbeddedFaults
                     \* bound: requests that fail, answers that are lost, leases that run
                     \* out under their run, and processes that die

ASSUME BoundAssumption ==
    /\ MaxGenerations \in Nat \ {0} /\ MaxAttempts \in Nat \ {0}
    /\ RepairAttempts \in Nat /\ MaxEmbeddedFaults \in Nat

\* A lease is a process's, or one of these.
ASSUME ProcessAssumption == {"none", "expired"} \cap Process = {}

ChatGeneration == 1..MaxGenerations    \* in order of created_at
Attempt    == 1..MaxAttempts
Open       == {"queued", "running"}

VARIABLES
    after,   \* after_generation_id, 0 for none
    status,  \* generations.status, "absent" before the row exists
    active,  \* number of the active attempt, also the attempt count
    lease,   \* of the active attempt while it runs: whose it is, none or expired
    entry,   \* the registry of each process: what its run of a generation does
    timers,  \* setTimeout callbacks of each process, as <<generation, attempt>>
    call,    \* host calls in flight
    lost,    \* bookkeeping: generations whose active attempt nobody has in hand any more,
             \* because its schedule went astray or its run gave it up
    faults

database == <<after, status, active, lease>>
embeddedVars == <<database, entry, timers, call, lost, faults>>

Kind     == {"start", "enqueue", "steer", "retry", "resume", "cancel"}
NoEntry  == [pc |-> "none", attempt |-> 0, aborted |-> FALSE, ready |-> {}]
NoCall   == [pc |-> "idle"]

Has(p, g) == entry[p][g].pc # "none"

EmbeddedFault == faults < MaxEmbeddedFaults /\ faults' = faults + 1

\* The predecessor, if any, has succeeded.
Ready(g) == after[g] # 0 => status[after[g]] = "succeeded"

\* Queued follow-ups of g that could run, with the attempt to schedule.
ReadyDependents(g) ==
    {<<d, active[d]>> : d \in {h \in ChatGeneration : status[h] = "queued" /\ after[h] = g}}

----------------------------------------------------------------------------
(* Row locks.  A host call's transaction holds the row it names, and enqueue the *)
(* predecessor's, for the foreign key of after_generation_id.                    *)

InTransaction(g) == {c \in Call : call[c].pc = "locked" /\ call[c].row = g}
Locked(g) == InTransaction(g) # {}

\* Key-share locks do not exclude one another.
MayLock(kind, row) ==
    \A c \in InTransaction(row) : kind = "enqueue" /\ call[c].kind = "enqueue"

----------------------------------------------------------------------------
(* The registry *)

SetEntry(p, g, e) == entry' = [entry EXCEPT ![p][g] = e]

\* The generations among <<generation, attempt>> pairs whose attempt is still the active one.
Astray(pairs) == {g \in ChatGeneration : <<g, active[g]>> \in pairs}

\* mutant: an entry is no obstacle to another
CanAlwaysStart(p, g) == TRUE

\* GenerationRunRegistry.start throws when the generation has an entry.
CanStart(p, g) == ~Has(p, g)

Claiming(n) == [NoEntry EXCEPT !.pc = "claiming", !.attempt = n]
Leaving     == [NoEntry EXCEPT !.pc = "leaving"]

Executing(p, g) == entry[p][g].pc = "executing"

HoldsLease(p, g) ==
    /\ Executing(p, g)
    /\ status[g] = "running"
    /\ active[g] = entry[p][g].attempt
    /\ lease[g] = p

\* What only the memory of process p will do for the active attempt of g.
InHand(p, g) ==
    \/ entry[p][g].pc = "claiming" /\ entry[p][g].attempt = active[g]
    \/ HoldsLease(p, g)
    \/ <<g, active[g]>> \in timers[p]
    \/ \E c \in Call : /\ call[c].pc = "committed" /\ call[c].process = p
                       /\ call[c].kind \notin {"cancel", "steer"}
                       /\ call[c].generation = g /\ call[c].attempt = active[g]
    \/ /\ after[g] # 0
       /\ \/ entry[p][after[g]].pc = "listing"
          \/ <<g, active[g]>> \in entry[p][after[g]].ready

----------------------------------------------------------------------------
(* Host calls *)

SetCall(c, r) == call' = [call EXCEPT ![c] = r]

NewGeneration(g) ==
    /\ status[g] = "absent"
    /\ \A h \in 1..g-1 : status[h] # "absent"
    /\ \A c \in Call : call[c].pc # "idle" => call[c].generation # g

\* Up to the first statement of the transaction.  retry and resume ask the registry
\* first.
Ask(c, p, kind, g, pred) ==
    /\ call[c] = NoCall
    /\ \/ /\ kind \in {"start", "enqueue"}
          /\ NewGeneration(g)
          /\ pred # 0 <=> kind = "enqueue"
          /\ pred # 0 => status[pred] # "absent"
       \/ /\ kind \in {"steer", "cancel"} /\ pred = 0
          /\ status[g] \in Open
       \/ /\ kind \in {"retry", "resume"} /\ pred = 0
          /\ status[g] # "absent"
          /\ ~Has(p, g)
    /\ SetCall(c, [pc |-> "asked", kind |-> kind, process |-> p, generation |-> g,
                   attempt |-> 0, row |-> IF kind = "enqueue" THEN pred
                                          ELSE IF kind = "start" THEN 0 ELSE g])
    /\ UNCHANGED <<database, entry, timers, lost, faults>>

Lock(c) ==
    /\ call[c].pc = "asked"
    /\ MayLock(call[c].kind, call[c].row)
    /\ SetCall(c, [call[c] EXCEPT !.pc = "locked"])
    /\ UNCHANGED <<database, entry, timers, lost, faults>>

Committed(c, n) == SetCall(c, [call[c] EXCEPT !.pc = "committed", !.attempt = n])

CommitCreate(c) ==
    LET g == call[c].generation IN
    /\ call[c].pc = "locked" /\ call[c].kind \in {"start", "enqueue"}
    /\ after' = [after EXCEPT ![g] = call[c].row]
    /\ status' = [status EXCEPT ![g] = "queued"]
    /\ active' = [active EXCEPT ![g] = 1]
    /\ Committed(c, 1)
    /\ UNCHANGED <<lease, entry, timers, lost, faults>>

MayAppend(kind, g) ==
    \/ kind = "retry"   /\ status[g] \in {"failed", "cancelled"}
    \/ kind = "resume"  /\ \/ status[g] \in {"failed", "cancelled"}
                           \/ status[g] \in {"queued", "running"} /\ lease[g] \notin Process

AppendRow(g) ==
    /\ active[g] < MaxAttempts
    /\ status' = [status EXCEPT ![g] = "queued"]
    /\ active' = [active EXCEPT ![g] = @ + 1]
    /\ lease' = [lease EXCEPT ![g] = "none"]
    /\ UNCHANGED after

AppendAttempt(g) == AppendRow(g) /\ lost' = lost \ {g}

CommitAttempt(c) ==
    LET g == call[c].generation IN
    /\ call[c].pc = "locked"
    /\ MayAppend(call[c].kind, g)
    /\ AppendAttempt(g)
    /\ Committed(c, active[g] + 1)
    /\ UNCHANGED <<entry, timers, faults>>

\* The generation ends together with its active attempt.
Settle(g, s) ==
    /\ status' = [status EXCEPT ![g] = s]
    /\ lease' = [lease EXCEPT ![g] = "none"]
    /\ UNCHANGED <<after, active>>

CancelRow(g) ==
    /\ status[g] \in Open
    /\ Settle(g, "cancelled")

CommitCancel(c) ==
    /\ call[c].pc = "locked" /\ call[c].kind = "cancel"
    /\ CancelRow(call[c].generation)
    /\ Committed(c, 0)
    /\ UNCHANGED <<entry, timers, lost, faults>>

\* Steering leaves no trace here but its lock; the transactions that find the
\* generation in another state than they need roll back.
CommitNothing(c) ==
    LET g == call[c].generation IN
    /\ call[c].pc = "locked"
    /\ \/ call[c].kind = "steer"
       \/ call[c].kind = "cancel" /\ status[g] \notin Open
       \/ call[c].kind \in {"retry", "resume"} /\ ~MayAppend(call[c].kind, g)
    /\ SetCall(c, NoCall)
    /\ UNCHANGED <<database, entry, timers, lost, faults>>

\* The call goes on after its commit: it schedules the attempt, or is refused.
ScheduleCommitted(c) ==
    LET p == call[c].process
        g == call[c].generation
        n == call[c].attempt IN
    /\ call[c].pc = "committed" /\ call[c].kind # "cancel"
    /\ IF CanStart(p, g)
         THEN SetEntry(p, g, Claiming(n)) /\ UNCHANGED lost
         ELSE lost' = lost \cup Astray({<<g, n>>}) /\ UNCHANGED entry
    /\ SetCall(c, NoCall)
    /\ UNCHANGED <<database, timers, faults>>

\* The answer to a COMMIT does not arrive, and the host's call is rejected: it neither
\* schedules what it has committed nor aborts what it has cancelled.
AnswerLost(c) ==
    /\ call[c].pc = "committed"
    /\ EmbeddedFault
    /\ lost' = lost \cup Astray({<<call[c].generation, call[c].attempt>>})
    /\ SetCall(c, NoCall)
    /\ UNCHANGED <<database, entry, timers>>

\* cancel() aborts whatever run its own process has by now; one that has ended no longer
\* looks at its signal.
AbortCommitted(c) ==
    LET p == call[c].process
        g == call[c].generation IN
    /\ call[c].pc = "committed" /\ call[c].kind = "cancel"
    /\ IF entry[p][g].pc \in {"claiming", "executing"}
         THEN SetEntry(p, g, [entry[p][g] EXCEPT !.aborted = TRUE])
         ELSE UNCHANGED entry
    /\ SetCall(c, NoCall)
    /\ UNCHANGED <<database, timers, lost, faults>>

----------------------------------------------------------------------------
(* A run *)

MayClaim(g, n) ==
    /\ active[g] = n
    /\ status[g] \in {"queued", "running"}
    /\ lease[g] \notin Process
    /\ Ready(g)

Claim(p, g) ==
    /\ entry[p][g].pc = "claiming"
    /\ MayClaim(g, entry[p][g].attempt)
    /\ ~Locked(g)
    /\ status' = [status EXCEPT ![g] = "running"]
    /\ lease' = [lease EXCEPT ![g] = p]
    /\ SetEntry(p, g, [entry[p][g] EXCEPT !.pc = "executing"])
    /\ lost' = lost \ {g}
    /\ UNCHANGED <<after, active, timers, call, faults>>

\* The claim finds nothing to run and the run ends.
ClaimNothing(p, g) ==
    /\ entry[p][g].pc = "claiming"
    /\ ~MayClaim(g, entry[p][g].attempt)
    /\ SetEntry(p, g, Leaving)
    /\ UNCHANGED <<database, timers, call, lost, faults>>

\* SKIP LOCKED: so does a claim that meets another transaction on the row.  A claim
\* that the database refuses is swallowed by schedule().
ClaimLost(p, g) ==
    /\ entry[p][g].pc = "claiming"
    /\ MayClaim(g, entry[p][g].attempt)
    /\ \/ Locked(g) /\ UNCHANGED faults
       \/ EmbeddedFault
    /\ SetEntry(p, g, Leaving)
    /\ lost' = lost \cup {g}
    /\ UNCHANGED <<database, timers, call>>

\* So is one that is committed while its answer is lost: nobody knows the token of the lease.
ClaimUnheard(p, g) ==
    /\ entry[p][g].pc = "claiming"
    /\ MayClaim(g, entry[p][g].attempt)
    /\ ~Locked(g)
    /\ EmbeddedFault
    /\ status' = [status EXCEPT ![g] = "running"]
    /\ lease' = [lease EXCEPT ![g] = p]
    /\ SetEntry(p, g, Leaving)
    /\ lost' = lost \cup {g}
    /\ UNCHANGED <<after, active, timers, call>>

\* An aborted run gets to no transaction but its cancellation.
CanSettle(p, g) == HoldsLease(p, g) /\ ~entry[p][g].aborted /\ ~Locked(g)

FinishRun(p, g) ==
    /\ CanSettle(p, g)
    /\ Settle(g, "succeeded")
    /\ SetEntry(p, g, [NoEntry EXCEPT !.pc = "listing"])
    /\ UNCHANGED <<timers, call, lost, faults>>

\* An error after the COMMIT: the generation has succeeded, what the catch block writes is
\* refused and nobody asks for the dependents.
FinishUnheard(p, g) ==
    /\ CanSettle(p, g)
    /\ EmbeddedFault
    /\ Settle(g, "succeeded")
    /\ SetEntry(p, g, Leaving)
    /\ lost' = lost \cup Astray(ReadyDependents(g))
    /\ UNCHANGED <<timers, call>>

\* Of a failure that is recorded, an answer that is lost changes nothing.
Fail(p, g) ==
    /\ CanSettle(p, g)
    /\ Settle(g, "failed")
    /\ SetEntry(p, g, Leaving)
    /\ UNCHANGED <<timers, call, lost, faults>>

\* A quality gate failed: a new attempt, to be scheduled by a timer.
Repair(p, g) ==
    /\ CanSettle(p, g)
    /\ entry[p][g].attempt <= RepairAttempts
    /\ AppendAttempt(g)
    /\ timers' = [timers EXCEPT ![p] = @ \cup {<<g, active[g] + 1>>}]
    /\ SetEntry(p, g, Leaving)
    /\ UNCHANGED <<call, faults>>

\* Without the answer there is no attempt for the timer.
RepairUnheard(p, g) ==
    /\ CanSettle(p, g)
    /\ entry[p][g].attempt <= RepairAttempts
    /\ EmbeddedFault
    /\ AppendRow(g)
    /\ SetEntry(p, g, Leaving)
    /\ lost' = lost \cup {g}
    /\ UNCHANGED <<timers, call>>

\* A run that ends with an abort, its host's or one of its engine's own, cancels the
\* generation under whichever attempt it now is.
CancelAborted(p, g) ==
    /\ Executing(p, g)
    /\ ~Locked(g)
    /\ CancelRow(g) \/ (status[g] \notin Open /\ UNCHANGED database)
    /\ SetEntry(p, g, Leaving)
    /\ UNCHANGED <<timers, call, lost, faults>>

\* A run whose lease is gone is stopped by its heartbeat or a refused transaction.
LoseRun(p, g) ==
    /\ Executing(p, g) /\ ~HoldsLease(p, g)
    /\ SetEntry(p, g, Leaving)
    /\ UNCHANGED <<database, timers, call, lost, faults>>

\* A run ends without a transaction although its lease is good: a heartbeat request failed,
\* which counts as a lost lease; the transaction that would cancel, repair or fail it did,
\* which is swallowed; or pauseGeneration did inside the catch block, which schedule()
\* swallows.  The attempt stays running until the lease runs out, and then too.
AbandonRun(p, g) ==
    /\ HoldsLease(p, g)
    /\ EmbeddedFault
    /\ SetEntry(p, g, Leaving)
    /\ lost' = lost \cup {g}
    /\ UNCHANGED <<database, timers, call>>

\* listReadyGenerationDependents ...
List(p, g) ==
    /\ entry[p][g].pc = "listing"
    /\ SetEntry(p, g, [NoEntry EXCEPT !.pc = "waking", !.ready = ReadyDependents(g)])
    /\ UNCHANGED <<database, timers, call, lost, faults>>

\* ... whose failure is taken for an empty list.
ListFails(p, g) ==
    /\ entry[p][g].pc = "listing"
    /\ EmbeddedFault
    /\ SetEntry(p, g, Leaving)
    /\ lost' = lost \cup Astray(ReadyDependents(g))
    /\ UNCHANGED <<database, timers, call>>

\* The dependents are scheduled in order; the first that cannot be ends the loop.
Wake(p, g) ==
    LET ready == entry[p][g].ready
        woken == {d \in ready : \A e \in ready : e[1] <= d[1] => CanStart(p, e[1])} IN
    /\ entry[p][g].pc = "waking"
    /\ entry' = [entry EXCEPT ![p] = [h \in ChatGeneration |->
                   IF h = g THEN Leaving
                   ELSE IF \E d \in woken : d[1] = h
                          THEN Claiming((CHOOSE d \in woken : d[1] = h)[2])
                   ELSE entry[p][h]]]
    /\ lost' = lost \cup Astray(ready \ woken)
    /\ UNCHANGED <<database, timers, call, faults>>

\* The heartbeat has been awaited and the promise settles.
Leave(p, g) ==
    /\ entry[p][g].pc = "leaving"
    /\ SetEntry(p, g, NoEntry)
    /\ UNCHANGED <<database, timers, call, lost, faults>>

\* A process is gone with its memory, and started again without it.
Forget(p) ==
    /\ entry' = [entry EXCEPT ![p] = [g \in ChatGeneration |-> NoEntry]]
    /\ timers' = [timers EXCEPT ![p] = {}]
    /\ call' = [c \in Call |-> IF call[c].pc # "idle" /\ call[c].process = p
                                 THEN NoCall ELSE call[c]]
    /\ lost' = lost \cup {g \in ChatGeneration : InHand(p, g)}
    /\ UNCHANGED database

ProcessDies(p) == EmbeddedFault /\ Forget(p)

\* The repair is scheduled.  If the old run has not left the registry yet, schedule()
\* throws inside the timer, where nothing catches it.
FireTimer(p, t) ==
    /\ t \in timers[p]
    /\ IF CanStart(p, t[1])
         THEN /\ SetEntry(p, t[1], Claiming(t[2]))
              /\ timers' = [timers EXCEPT ![p] = @ \ {t}]
              /\ UNCHANGED <<database, call, lost, faults>>
         ELSE Forget(p) /\ UNCHANGED faults

ExpireRow(g) ==
    /\ lease' = [lease EXCEPT ![g] = "expired"]
    /\ UNCHANGED <<after, status, active, entry, timers, call, lost>>

\* The lease of a run that is gone ...
ExpireLease(g) ==
    /\ lease[g] \in Process /\ ~HoldsLease(lease[g], g)
    /\ ExpireRow(g)
    /\ UNCHANGED faults

\* ... or of one whose heartbeat comes too late.
OutliveLease(p, g) == HoldsLease(p, g) /\ EmbeddedFault /\ ExpireRow(g)

----------------------------------------------------------------------------
EmbeddedInit ==
    /\ after = [g \in ChatGeneration |-> 0]
    /\ status = [g \in ChatGeneration |-> "absent"]
    /\ active = [g \in ChatGeneration |-> 0]
    /\ lease = [g \in ChatGeneration |-> "none"]
    /\ entry = [p \in Process |-> [g \in ChatGeneration |-> NoEntry]]
    /\ timers = [p \in Process |-> {}]
    /\ call = [c \in Call |-> NoCall]
    /\ lost = {}
    /\ faults = 0

Answer(c) ==
    \/ CommitCreate(c) \/ CommitAttempt(c) \/ CommitCancel(c) \/ CommitNothing(c)
    \/ ScheduleCommitted(c) \/ AbortCommitted(c)

RunStep(p, g) ==
    \/ Claim(p, g) \/ ClaimNothing(p, g) \/ ClaimLost(p, g)
    \/ FinishRun(p, g) \/ Fail(p, g) \/ Repair(p, g)
    \/ CancelAborted(p, g) \/ LoseRun(p, g)
    \/ List(p, g) \/ ListFails(p, g) \/ Wake(p, g) \/ Leave(p, g)

RunFault(p, g) ==
    \/ ClaimUnheard(p, g) \/ FinishUnheard(p, g) \/ RepairUnheard(p, g)
    \/ AbandonRun(p, g) \/ OutliveLease(p, g)

EmbeddedNext ==
    \/ \E c \in Call, p \in Process, kind \in Kind, g \in ChatGeneration :
          \E pred \in 0..MaxGenerations : Ask(c, p, kind, g, pred)
    \/ \E c \in Call : Lock(c) \/ Answer(c)
    \/ \E c \in Call : AnswerLost(c)
    \/ \E p \in Process, g \in ChatGeneration : RunStep(p, g) \/ RunFault(p, g)
    \/ \E p \in Process : ProcessDies(p)
    \/ \E p \in Process : \E t \in timers[p] : FireTimer(p, t)
    \/ \E g \in ChatGeneration : ExpireLease(g)

EmbeddedSpec == EmbeddedInit /\ [][EmbeddedNext]_embeddedVars

(* Fairness.  Nothing in memory waits for anything but the database, which answers: *)
(* calls, runs and timers go on.  Leases run out.  A host makes the calls it likes. *)
EmbeddedFairness ==
    /\ \A c \in Call : SF_embeddedVars(Lock(c)) /\ WF_embeddedVars(Answer(c))
    /\ \A p \in Process, g \in ChatGeneration : WF_embeddedVars(RunStep(p, g))
    /\ \A p \in Process, g \in ChatGeneration, n \in Attempt :
         WF_embeddedVars(FireTimer(p, <<g, n>>))
    /\ \A g \in ChatGeneration : WF_embeddedVars(ExpireLease(g))

FairEmbeddedSpec == EmbeddedSpec /\ EmbeddedFairness

----------------------------------------------------------------------------
(* Properties *)

EmbeddedTypeOK ==
    /\ after \in [ChatGeneration -> 0..MaxGenerations]
    /\ status \in [ChatGeneration -> Open \cup {"absent", "succeeded", "failed", "cancelled"}]
    /\ active \in [ChatGeneration -> 0..MaxAttempts]
    /\ lease \in [ChatGeneration -> Process \cup {"none", "expired"}]
    /\ entry \in [Process -> [ChatGeneration ->
          [pc: {"none", "claiming", "executing", "listing", "waking", "leaving"},
           attempt: 0..MaxAttempts, aborted: BOOLEAN, ready: SUBSET (ChatGeneration \X Attempt)]]]
    /\ \A p \in Process, g \in ChatGeneration :
         entry[p][g].pc \in {"claiming", "executing"} <=> entry[p][g].attempt # 0
    /\ timers \in [Process -> SUBSET (ChatGeneration \X Attempt)]
    /\ \A c \in Call : call[c].pc \in {"idle", "asked", "locked", "committed"}
    /\ lost \subseteq ChatGeneration
    /\ faults \in 0..MaxEmbeddedFaults

\* `running` means that "an embedded runner or leased worker owns the active attempt"
\* (docs/api/generations.md): as long as its lease is good, the run is in the registry of
\* the process that claimed it, unless that process died or the run gave the lease up.
RunningIsOwned ==
    \A g \in ChatGeneration :
        status[g] = "running" /\ lease[g] \in Process => HoldsLease(lease[g], g) \/ g \in lost

\* Whatever could run is in some process's hands.  Follow-ups are handed over by the run
\* of the predecessor, calls by their own commit, repairs by a timer; lost records a claim
\* that met a lock or an entry in the way, and the faults: no other interleaving of calls
\* and runs lets work go.
ReadyWorkInHand ==
    \A g \in ChatGeneration :
        status[g] = "queued" /\ Ready(g) =>
            (\E p \in Process : InHand(p, g)) \/ g \in lost

\* Every run and everything ready to run is some process's (schedule, start, #execute and
\* the calls that hand work on), except where lost records that it was let go: by a claim
\* or a schedule() that is refused, a request that fails, an answer that does not arrive,
\* a run that ends under its lease, or a process that dies.
RunsAreInHand == RunningIsOwned /\ ReadyWorkInHand

\* docs/concepts.md: "Embedded execution starts work in the application process after the
\* durable attempt is created."  Work whose claim met a locked row, or whose wake-up met
\* the entry of an earlier claim, stays queued although no process has stopped.
ReadyWorkStarts ==
    \A g \in ChatGeneration : status[g] = "queued" /\ Ready(g) ~> status[g] # "queued"
=============================================================================
