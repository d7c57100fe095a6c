---------------------------- MODULE RemoteEngine ----------------------------
(***************************************************************************)
(* One attempt of a generation whose engine is a remote run                *)
(* (defineRemoteGenerationEngine, its durable checkpoint and the event log *)
(* it feeds).  Workers come and go: one may lose its lease, be told to     *)
(* stop or die at any await while another reclaims the attempt and resumes *)
(* from the checkpoint.  Remote events are numbered; the last one says     *)
(* that the run completed or failed.                                       *)
(***************************************************************************)
EXTENDS Integers, Sequences, Functions

CONSTANTS
    RemoteWorker,
    NobodyRemote,
    MaxRemoteDeltas,    \* bound: deltas the remote run sends
    MaxRemoteFaults,    \* bound: crashes, lost leases and stopped workers
    MaxFailedCalls      \* bound: requests to the repository or the provider that fail

ASSUME RemoteAssumption == NobodyRemote \notin RemoteWorker

VARIABLES
    remote,         \* the run at the provider: [status, sent]
    attempt,        \* [status, holder]
    checkpoint,     \* generation_engine_checkpoints of the attempt: [cursor] or none
    deltas,         \* output.delta events of the generation's log
    worker,         \* [RemoteWorker -> its place in generate()]
    torn,           \* bookkeeping: the events whose cursor was saved by a worker that never
                    \* came to log them
    remoteFaults, failedCalls

remoteVars == <<remote, attempt, checkpoint, deltas, worker, torn, remoteFaults, failedCalls>>

NoCheckpoint == [cursor |-> -1]
Away         == [pc |-> "away", cursor |-> 0, event |-> 0]

OnRemote(w, pc)  == worker[w].pc = pc
Turn(w, pc)      == worker' = [worker EXCEPT ![w].pc = pc]
Leave(w)         == worker' = [worker EXCEPT ![w] = Away]
Tear(w)          == torn' = torn \cup {worker[w].event}
Torn(w)          == IF OnRemote(w, "append") THEN Tear(w) ELSE UNCHANGED torn

\* Every write of the engine needs the attempt to run under the worker's live lease.
LeaseIs(w) == attempt.status = "running" /\ attempt.holder = w

----------------------------------------------------------------------------
(* The provider *)

SendDelta ==
    /\ remote.status = "going" /\ remote.sent < MaxRemoteDeltas
    /\ remote' = [remote EXCEPT !.sent = @ + 1]
    /\ UNCHANGED <<attempt, checkpoint, deltas, worker, torn, remoteFaults, failedCalls>>

EndRemote == \E s \in {"completed", "failed"} :
    /\ remote.status = "going"
    /\ remote' = [remote EXCEPT !.status = s]
    /\ UNCHANGED <<attempt, checkpoint, deltas, worker, torn, remoteFaults, failedCalls>>

----------------------------------------------------------------------------
(* generate() *)

\* An attempt with no live lease is claimed.
Reclaim(w) ==
    /\ OnRemote(w, "away") /\ attempt.status = "running" /\ attempt.holder = NobodyRemote
    /\ attempt' = [attempt EXCEPT !.holder = w]
    /\ Turn(w, "load")
    /\ UNCHANGED <<remote, checkpoint, deltas, torn, remoteFaults, failedCalls>>

\* The checkpoint is read without a fence; a run found there is resumed after its cursor.
LoadCheckpoint(w) ==
    /\ OnRemote(w, "load")
    /\ worker' = [worker EXCEPT ![w] =
           IF checkpoint = NoCheckpoint THEN [pc |-> "start", cursor |-> 0, event |-> 0]
           ELSE [pc |-> "stream", cursor |-> checkpoint.cursor, event |-> 0]]
    /\ UNCHANGED <<remote, attempt, checkpoint, deltas, torn, remoteFaults, failedCalls>>

\* Starting is idempotent on the attempt: the second start returns the same run.
StartRemote(w) ==
    /\ OnRemote(w, "start")
    /\ remote' = [remote EXCEPT !.status = IF @ = "absent" THEN "going" ELSE @]
    /\ Turn(w, "save-run")
    /\ UNCHANGED <<attempt, checkpoint, deltas, torn, remoteFaults, failedCalls>>

SaveRun(w) ==
    /\ OnRemote(w, "save-run") /\ LeaseIs(w)
    /\ checkpoint' = [cursor |-> 0]
    /\ Turn(w, "stream")
    /\ UNCHANGED <<remote, attempt, deltas, torn, remoteFaults, failedCalls>>

\* As a slip would have it: the stream is resumed at the next cursor, not after this one.
SkipsEvent(w) == worker[w].cursor + 2

\* The event that follows the worker's cursor.
Following(w) == worker[w].cursor + 1

NextEvent(w) ==
    /\ OnRemote(w, "stream")
    /\ \/ Following(w) <= remote.sent
       \/ Following(w) = remote.sent + 1 /\ remote.status \in {"completed", "failed"}
    /\ worker' = [worker EXCEPT ![w] = [pc |-> "save", cursor |-> Following(w),
                                        event |-> Following(w)]]
    /\ UNCHANGED <<remote, attempt, checkpoint, deltas, torn, remoteFaults, failedCalls>>

\* The stream of a run that is over, or was cancelled, ends after its last event.
StreamEnds(w) ==
    /\ OnRemote(w, "stream")
    /\ \/ Following(w) > remote.sent + 1
       \/ Following(w) = remote.sent + 1 /\ remote.status = "cancelled"
    /\ Turn(w, "throw")
    /\ UNCHANGED <<remote, attempt, checkpoint, deltas, torn, remoteFaults, failedCalls>>

\* The cursor is saved before the event is looked at.
SaveCursor(w) ==
    /\ OnRemote(w, "save") /\ LeaseIs(w)
    /\ checkpoint' = [cursor |-> worker[w].event]
    /\ Turn(w, IF worker[w].event <= remote.sent THEN "append" ELSE "clear")
    /\ UNCHANGED <<remote, attempt, deltas, torn, remoteFaults, failedCalls>>

AppendDelta(w) ==
    /\ OnRemote(w, "append") /\ LeaseIs(w)
    /\ deltas' = Append(deltas, worker[w].event)
    /\ Turn(w, "stream")
    /\ UNCHANGED <<remote, attempt, checkpoint, torn, remoteFaults, failedCalls>>

ClearCheckpoint(w) ==
    /\ OnRemote(w, "clear") /\ LeaseIs(w)
    /\ checkpoint' = NoCheckpoint
    /\ Turn(w, IF remote.status = "completed" THEN "commit" ELSE "throw")
    /\ UNCHANGED <<remote, attempt, deltas, torn, remoteFaults, failedCalls>>

\* completeGeneration, or failGenerationAttempt of what generate() threw.
SettleRemote(w) == \E s \in {"succeeded", "failed"} :
    /\ OnRemote(w, IF s = "succeeded" THEN "commit" ELSE "throw")
    /\ attempt' = IF LeaseIs(w) THEN [status |-> s, holder |-> NobodyRemote] ELSE attempt
    /\ Leave(w)
    /\ UNCHANGED <<remote, checkpoint, deltas, torn, remoteFaults, failedCalls>>

\* A write that finds the fence closed throws out of generate(); so does the abort that
\* follows when the heartbeat has noticed, and an aborted run is cancelled at the provider.
Refused(w) ==
    /\ ~LeaseIs(w)
    /\ \/ worker[w].pc \in {"save-run", "save", "append", "clear"} /\ Leave(w)
       \/ worker[w].pc \in {"stream", "save", "append"} /\ Turn(w, "cancel")
    /\ Torn(w)
    /\ UNCHANGED <<remote, attempt, checkpoint, deltas, remoteFaults, failedCalls>>

\* A request fails, of a write with or without its effect: generate() throws, and the worker
\* does not come back to what it was doing.
CallFails(w) ==
    /\ failedCalls < MaxFailedCalls /\ failedCalls' = failedCalls + 1
    /\ \/ /\ worker[w].pc \in {"load", "start", "stream", "commit"}
          /\ UNCHANGED <<checkpoint, deltas, torn>>
       \/ /\ OnRemote(w, "save-run") /\ LeaseIs(w)
          /\ checkpoint' \in {checkpoint, [cursor |-> 0]} /\ UNCHANGED <<deltas, torn>>
       \/ /\ OnRemote(w, "save") /\ LeaseIs(w)
          /\ \/ UNCHANGED <<checkpoint, torn>>
             \/ checkpoint' = [cursor |-> worker[w].event] /\ Tear(w)
          /\ UNCHANGED deltas
       \/ /\ OnRemote(w, "append") /\ LeaseIs(w)
          /\ \/ deltas' = Append(deltas, worker[w].event) /\ UNCHANGED torn
             \/ UNCHANGED deltas /\ Tear(w)
          /\ UNCHANGED checkpoint
       \/ /\ OnRemote(w, "clear") /\ LeaseIs(w)
          /\ checkpoint' \in {checkpoint, NoCheckpoint} /\ UNCHANGED <<deltas, torn>>
    /\ Turn(w, "throw")
    /\ UNCHANGED <<remote, attempt, remoteFaults>>

\* A worker that is told to stop aborts its runs and leaves them to the next worker.
StopWorker(w) ==
    /\ LeaseIs(w) /\ worker[w].pc \in {"stream", "append"}
    /\ remoteFaults < MaxRemoteFaults /\ remoteFaults' = remoteFaults + 1
    /\ Turn(w, "cancel") /\ Torn(w)
    /\ UNCHANGED <<remote, attempt, checkpoint, deltas, failedCalls>>

CancelRemote(w) ==
    /\ OnRemote(w, "cancel")
    /\ remote' = [remote EXCEPT !.status = IF @ = "going" THEN "cancelled" ELSE @]
    /\ Turn(w, "forget")
    /\ UNCHANGED <<attempt, checkpoint, deltas, torn, remoteFaults, failedCalls>>

\* The checkpoint is cleared under the fence, a refusal is swallowed, and the lease runs out.
ForgetRemote(w) ==
    /\ OnRemote(w, "forget")
    /\ IF LeaseIs(w) THEN /\ checkpoint' = NoCheckpoint
                          /\ attempt' = [attempt EXCEPT !.holder = NobodyRemote]
       ELSE UNCHANGED <<checkpoint, attempt>>
    /\ Leave(w)
    /\ UNCHANGED <<remote, deltas, torn, remoteFaults, failedCalls>>

\* The lease expires under a live worker, or the worker dies.
LoseRemoteLease(w) ==
    /\ LeaseIs(w)
    /\ remoteFaults < MaxRemoteFaults /\ remoteFaults' = remoteFaults + 1
    /\ attempt' = [attempt EXCEPT !.holder = NobodyRemote]
    /\ \/ UNCHANGED <<worker, torn>>
       \/ Leave(w) /\ Torn(w)
    /\ UNCHANGED <<remote, checkpoint, deltas, failedCalls>>

CancelAttempt ==
    /\ attempt.status = "running"
    /\ attempt' = [status |-> "cancelled", holder |-> NobodyRemote]
    /\ UNCHANGED <<remote, checkpoint, deltas, worker, torn, remoteFaults, failedCalls>>

----------------------------------------------------------------------------
RemoteInit ==
    /\ remote = [status |-> "absent", sent |-> 0]
    /\ attempt = [status |-> "running", holder |-> NobodyRemote]
    /\ checkpoint = NoCheckpoint /\ deltas = <<>> /\ torn = {}
    /\ remoteFaults = 0 /\ failedCalls = 0
    /\ worker = [w \in RemoteWorker |-> Away]

RemoteNext ==
    \/ SendDelta \/ EndRemote \/ CancelAttempt
    \/ \E w \in RemoteWorker :
        \/ Reclaim(w) \/ LoadCheckpoint(w) \/ StartRemote(w) \/ SaveRun(w)
        \/ NextEvent(w) \/ StreamEnds(w) \/ SaveCursor(w) \/ AppendDelta(w)
        \/ ClearCheckpoint(w) \/ SettleRemote(w) \/ Refused(w) \/ StopWorker(w)
        \/ CancelRemote(w) \/ ForgetRemote(w) \/ LoseRemoteLease(w) \/ CallFails(w)

RemoteSpec == RemoteInit /\ [][RemoteNext]_remoteVars

----------------------------------------------------------------------------
(* Properties *)

\* The deltas that have to be in the log: those of the run once it gave a result, and until
\* then those the checkpoint is past, for nobody asks for them again.
Due == (IF attempt.status = "succeeded" THEN 1..remote.sent ELSE 1..checkpoint.cursor)
          \cap (1..remote.sent)

\* Across any number of workers every delta that is due is in the log or with the worker about
\* to log it; the only ones missing are those a worker was torn from between the two writes.
DeltasReachTheLog ==
    LET InHand == {worker[w].event : w \in {v \in RemoteWorker : OnRemote(v, "append")}}
    IN Due \subseteq Range(deltas) \cup InHand \cup torn

\* "deltas are copied onto the normal durable Viby event stream before the remote run returns
\* its final typed output": a result has all of them in the log.
DeltasAreCopied == attempt.status = "succeeded" => 1..remote.sent \subseteq Range(deltas)

\* "A reclaimed worker resumes the same provider stream": an attempt fails only when its run
\* did.
ResumedRunsFinish == attempt.status = "failed" => remote.status = "failed"
=============================================================================
